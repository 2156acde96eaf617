------------------------------ MODULE BillingProofs ------------------------------
(***************************************************************************)
(* Proofs about three state machines of billing, which share no variable.  *)
(* UnitOfWork, for every set of processes, callers, keys, requests and     *)
(* results, every pool size and every retry bound: its inductive           *)
(* invariant, the rule on held accounts, and that it implements            *)
(* IdempotentCommand. Invoices, whatever the numbers of charges,           *)
(* corrections, payments and credit notes of a period: at most one of its  *)
(* invoices is open; the debt of each workspace, and of the organization,  *)
(* follows the journal; each invoice is the sum of its lines; the lines    *)
(* suffice for what is payable, and only a total with corrections refuses  *)
(* it. EmailDelivery, for every set of deliveries and workers, every limit *)
(* of attempts and any number of faults: the types, that a row tells the   *)
(* truth about the mail of its last claim, and that every other mail has a *)
(* fault of its own to account for it.                                     *)
(***************************************************************************)
EXTENDS UnitOfWork, Invoices, EmailDelivery, FiniteSetTheorems, SequenceTheorems,
        SumTheorems, TLAPS

-----------------------------------------------------------------------------
(* The unit of work: the inductive invariant                               *)

(* The inductive invariant.  The row lock makes the callers in a locked     *)
(* stage one, ReadsStayTrue says what that one knows of the tables, and the *)
(* other parts follow from it at each COMMIT.                              *)
IInv ==
  /\ UoWTypeOK
  /\ LockSerializes
  /\ ReadsStayTrue
  /\ OneEffectPerRow
  /\ AnswersAgree

(* The stages are strings that differ; stated once so that the leaves need  *)
(* not unfold them.                                                         *)
LEMMA StageFacts ==
  /\ Locked \subseteq InAttempt
  /\ InAttempt \subseteq Stages
  /\ {"locked", "callback", "complete", "commit", "replay"} = Locked
  /\ "begin" \in InAttempt /\ "begin" \notin Locked
  /\ "idle" \notin InAttempt /\ "connect" \notin InAttempt
  /\ "backoff" \notin InAttempt
  /\ {"idle", "connect", "backoff"} \subseteq Stages
  BY DEF Locked, InAttempt, Stages

(* The variables keep their types.                                          *)
LEMMA TypeStep == UoWTypeOK /\ ReadsStayTrue /\ [UoWNext]_uowVars => UoWTypeOK'
<1> SUFFICES ASSUME UoWTypeOK, ReadsStayTrue, [UoWNext]_uowVars PROVE UoWTypeOK'
  OBVIOUS
<1> USE UoWAssumption DEF UoWTypeOK
<1>1. ASSUME NEW c \in Callers, NEW r \in Requests, Call(c, r) PROVE UoWTypeOK'
  BY <1>1 DEF Call, tableVars, Stages
<1>2. ASSUME NEW c \in Callers, Step(c) PROVE UoWTypeOK'
  <2>1. CASE Connect(c)
    BY <2>1 DEF Connect, tableVars, Stages, InAttempt
  <2>2. CASE QueueFull(c)
    BY <2>2 DEF QueueFull, Ends, tableVars, Stages
  <2>3. ASSUME Fail(c) PROVE UoWTypeOK'
    BY <2>3 DEF Fail, Ends, LeaveAttempt, tableVars, Stages
  <2>4. CASE RefuseAccount(c) \/ RefusePrior(c) \/ CallbackFails(c)
             \/ DeadlockLast(c) \/ ConnectionLost(c)
    BY <2>3, <2>4 DEF RefuseAccount, RefusePrior, CallbackFails,
                      DeadlockLast, ConnectionLost
  <2>5. CASE LockAccount(c)
    BY <2>5 DEF LockAccount, tableVars, Stages, InAttempt
  <2>6. CASE StartCommand(c) \/ FindCompleted(c) \/ CompleteCommand(c)
             \/ Retry(c)
    BY <2>6 DEF StartCommand, FindCompleted, CompleteCommand, Retry,
                tableVars, Stages, InAttempt
  <2>7. ASSUME NEW r \in Results, RunCallback(c, r) PROVE UoWTypeOK'
    BY <2>7 DEF RunCallback, tableVars, Stages, InAttempt
  <2>8. ASSUME pc[c] = "commit", Publish(c)
        PROVE  /\ command' \in [OpIds -> Rows \union {None}]
               /\ applied' \in [OpIds -> Nat]
               /\ account' = account
               /\ <<request[c].op, request[c].fingerprint, draft[c]>>
                    \in OpIds \X Fingerprints \X Results
    <3>1. request[c] \in Requests /\ draft[c] \in Results
      BY <2>8 DEF ReadsStayTrue, ReadsTrue
    <3>2. Completed(request[c].fingerprint, draft[c]) \in Rows
      BY <3>1 DEF Completed, Rows, Requests
    <3> QED
      BY <2>8, <3>1, <3>2 DEF Publish, Requests
  <2>9. CASE Commit(c)
    BY <2>8, <2>9 DEF Commit, Ends, LeaveAttempt, Stages
  <2>10. CASE CommitAckLost(c)
    BY <2>8, <2>10 DEF CommitAckLost, Ends, LeaveAttempt, Stages
  <2>11. CASE CommitReplay(c)
    <3>1. /\ request[c] \in Requests
          /\ command[request[c].op] \in Rows
      BY <2>11 DEF CommitReplay, ReadsStayTrue, ReadsTrue, Requests
    <3>2. <<request[c].op, request[c].fingerprint,
            command[request[c].op].result>>
              \in OpIds \X Fingerprints \X Results
      BY <3>1 DEF Requests, Rows
    <3> QED
      BY <2>11, <3>2 DEF CommitReplay, Ends, LeaveAttempt, tableVars, Stages
  <2>12. CASE Deadlock(c)
    BY <2>12 DEF Deadlock, LeaveAttempt, tableVars, Stages
  <2> QED
    BY <1>2, <2>1, <2>2, <2>4, <2>5, <2>6, <2>7, <2>9, <2>10, <2>11, <2>12
    DEF Step
<1>3. ASSUME NEW p \in Processes, Crash(p) PROVE UoWTypeOK'
  BY <1>3 DEF Crash, tableVars, Stages
<1>4. ASSUME NEW s \in {"active", "held"}, WriteAccount(s) PROVE UoWTypeOK'
  BY <1>4 DEF WriteAccount
<1>5. CASE UNCHANGED uowVars
  BY <1>5 DEF uowVars
<1> QED
  BY <1>1, <1>2, <1>3, <1>4, <1>5 DEF UoWNext

(* No step lets a second transaction past the row lock.                     *)
LEMMA LockStep == UoWTypeOK /\ LockSerializes /\ [UoWNext]_uowVars => LockSerializes'
<1> SUFFICES ASSUME UoWTypeOK, LockSerializes, [UoWNext]_uowVars
             PROVE  LockSerializes'
  OBVIOUS
<1> USE UoWAssumption, StageFacts DEF UoWTypeOK, LockSerializes
<1>1. ASSUME NEW c \in Callers, NEW r \in Requests, Call(c, r)
      PROVE  LockSerializes'
  BY <1>1 DEF Call, tableVars, Locked, InAttempt
<1>2. ASSUME NEW c \in Callers, Step(c) PROVE LockSerializes'
  <2>1. CASE Connect(c)
    BY <2>1 DEF Connect, tableVars, Locked, InAttempt
  <2>2. CASE QueueFull(c)
    BY <2>2 DEF QueueFull, Ends, tableVars, Locked, InAttempt
  <2>3. ASSUME NEW s \in {"idle", "backoff"}, LeaveAttempt(c, s)
        PROVE  LockSerializes'
    BY <2>3 DEF LeaveAttempt, Locked, InAttempt
  <2>4. CASE \/ RefuseAccount(c) \/ RefusePrior(c) \/ CallbackFails(c)
             \/ DeadlockLast(c) \/ ConnectionLost(c)
             \/ Deadlock(c) \/ Commit(c) \/ CommitAckLost(c)
             \/ CommitReplay(c)
    <3>1. LeaveAttempt(c, "idle") \/ LeaveAttempt(c, "backoff")
      BY <2>4 DEF RefuseAccount, RefusePrior, CallbackFails, DeadlockLast,
                  ConnectionLost, Deadlock, Commit, CommitAckLost,
                  CommitReplay, Fail
    <3> QED
      BY <2>3, <3>1
  <2>5. CASE LockAccount(c)
    BY <2>5 DEF LockAccount, tableVars, Locked, InAttempt
  <2>6. CASE StartCommand(c) \/ FindCompleted(c) \/ CompleteCommand(c)
             \/ Retry(c) \/ \E r \in Results : RunCallback(c, r)
    BY <2>6 DEF StartCommand, FindCompleted, CompleteCommand, Retry,
                RunCallback, tableVars, Locked, InAttempt
  <2> QED
    BY <1>2, <2>1, <2>2, <2>4, <2>5, <2>6 DEF Step
<1>3. ASSUME NEW p \in Processes, Crash(p) PROVE LockSerializes'
  BY <1>3 DEF Crash, tableVars, Locked, InAttempt
<1>4. ASSUME NEW s \in {"active", "held"}, WriteAccount(s)
      PROVE  LockSerializes'
  BY <1>4 DEF WriteAccount
<1>5. CASE UNCHANGED uowVars
  BY <1>5 DEF uowVars
<1> QED
  BY <1>1, <1>2, <1>3, <1>4, <1>5 DEF UoWNext

(* A COMMIT that publishes an effect does it for an absent key, and leaves  *)
(* the other keys alone.                                                    *)
LEMMA PublishFacts ==
  ASSUME UoWTypeOK, ReadsStayTrue, NEW c \in Callers, pc[c] = "commit", Publish(c)
  PROVE  /\ request[c] \in Requests
         /\ draft[c] \in Results
         /\ command[request[c].op] = None
         /\ command'[request[c].op]
              = Completed(request[c].fingerprint, draft[c])
         /\ command'[request[c].op] # None
         /\ applied'[request[c].op] = applied[request[c].op] + 1
         /\ \A o \in OpIds \ {request[c].op} :
              command'[o] = command[o] /\ applied'[o] = applied[o]
<1>1. request[c] \in Requests /\ draft[c] \in Results
      /\ command[request[c].op] = None
  BY DEF ReadsStayTrue, ReadsTrue
<1>2. Completed(request[c].fingerprint, draft[c]) \in Rows
  BY <1>1 DEF Completed, Rows, Requests
<1> QED
  BY <1>1, <1>2, NoneAssumption DEF Publish, UoWTypeOK, Requests

(* Steps that neither publish nor answer leave the tables and the history.  *)
LEMMA QuietSteps ==
  ASSUME NEW c \in Callers, Step(c), ~Commit(c), ~CommitAckLost(c)
  PROVE  /\ command' = command /\ applied' = applied /\ account' = account
         /\ answers' = answers \/ CommitReplay(c)
  BY DEF Step, Connect, QueueFull, LockAccount, RefuseAccount, StartCommand,
         FindCompleted, RefusePrior, RunCallback, CallbackFails,
         CompleteCommand, CommitReplay, Deadlock, DeadlockLast, Retry,
         ConnectionLost, Fail, tableVars

LEMMA EffectStep ==
  UoWTypeOK /\ ReadsStayTrue /\ OneEffectPerRow /\ [UoWNext]_uowVars
    => OneEffectPerRow'
<1> SUFFICES ASSUME UoWTypeOK, ReadsStayTrue, OneEffectPerRow, [UoWNext]_uowVars
             PROVE  OneEffectPerRow'
  OBVIOUS
<1>1. ASSUME NEW c \in Callers, Commit(c) \/ CommitAckLost(c)
      PROVE  OneEffectPerRow'
  <2>1. pc[c] = "commit" /\ Publish(c)
    BY <1>1 DEF Commit, CommitAckLost
  <2> QED
    BY <2>1, PublishFacts DEF OneEffectPerRow, Requests
<1>2. ASSUME command' = command, applied' = applied PROVE OneEffectPerRow'
  BY <1>2 DEF OneEffectPerRow
<1>3. ASSUME NEW c \in Callers, Step(c) PROVE OneEffectPerRow'
  BY <1>1, <1>2, <1>3, QuietSteps
<1>4. ASSUME \/ \E c \in Callers, r \in Requests : Call(c, r)
             \/ \E p \in Processes : Crash(p)
             \/ \E s \in {"active", "held"} : WriteAccount(s)
             \/ UNCHANGED uowVars
      PROVE  OneEffectPerRow'
  BY <1>2, <1>4 DEF Call, Crash, WriteAccount, uowVars, tableVars
<1> QED
  BY <1>3, <1>4 DEF UoWNext

LEMMA AnswerStep ==
  UoWTypeOK /\ ReadsStayTrue /\ AnswersAgree /\ [UoWNext]_uowVars => AnswersAgree'
<1> SUFFICES ASSUME UoWTypeOK, ReadsStayTrue, AnswersAgree, [UoWNext]_uowVars
             PROVE  AnswersAgree'
  OBVIOUS
<1>1. ASSUME NEW c \in Callers, Commit(c) \/ CommitAckLost(c)
      PROVE  AnswersAgree'
  <2>1. pc[c] = "commit" /\ Publish(c)
    BY <1>1 DEF Commit, CommitAckLost
  <2>2. \A a \in answers : a[1] \in OpIds /\ a[1] # request[c].op
    BY <2>1, PublishFacts DEF AnswersAgree, UoWTypeOK
  <2>3. \A a \in answers : command'[a[1]] = command[a[1]]
    BY <2>1, <2>2, PublishFacts
  <2>4. answers' \subseteq answers \union
          {<<request[c].op, request[c].fingerprint, draft[c]>>}
    BY <1>1 DEF Commit, CommitAckLost
  <2>5. /\ command'[request[c].op] # None
        /\ command'[request[c].op].fingerprint = request[c].fingerprint
        /\ command'[request[c].op].result = draft[c]
    <3>1. /\ command'[request[c].op] # None
          /\ command'[request[c].op]
               = Completed(request[c].fingerprint, draft[c])
      BY <2>1, PublishFacts
    <3> QED
      BY <3>1 DEF Completed
  <2> QED
    BY <2>3, <2>4, <2>5 DEF AnswersAgree
<1>2. ASSUME NEW c \in Callers, CommitReplay(c) PROVE AnswersAgree'
  BY <1>2 DEF CommitReplay, AnswersAgree, ReadsStayTrue, ReadsTrue, tableVars
<1>3. ASSUME command' = command, answers' = answers PROVE AnswersAgree'
  BY <1>3 DEF AnswersAgree
<1>4. ASSUME NEW c \in Callers, Step(c) PROVE AnswersAgree'
  BY <1>1, <1>2, <1>3, <1>4, QuietSteps
<1>5. ASSUME \/ \E c \in Callers, r \in Requests : Call(c, r)
             \/ \E p \in Processes : Crash(p)
             \/ \E s \in {"active", "held"} : WriteAccount(s)
             \/ UNCHANGED uowVars
      PROVE  AnswersAgree'
  BY <1>3, <1>5 DEF Call, Crash, WriteAccount, uowVars, tableVars
<1> QED
  BY <1>4, <1>5 DEF UoWNext

(* A caller whose own variables and tables a step leaves alone still knows  *)
(* what it knew.                                                            *)
LEMMA ReadsFrame ==
  ASSUME NEW d \in Callers, ReadsTrue(d), pc'[d] = pc[d],
         request'[d] = request[d], draft'[d] = draft[d],
         pc[d] \in Locked => command' = command /\ account' = account
  PROVE  ReadsTrue(d)'
  BY StageFacts DEF ReadsTrue

LEMMA ReadsStep ==
  UoWTypeOK /\ LockSerializes /\ ReadsStayTrue /\ [UoWNext]_uowVars
    => ReadsStayTrue'
<1> SUFFICES ASSUME UoWTypeOK, LockSerializes, ReadsStayTrue, [UoWNext]_uowVars
             PROVE  ReadsStayTrue'
  OBVIOUS
<1>a. \A d \in Callers : ReadsTrue(d)
  BY DEF ReadsStayTrue
<1>1. ASSUME NEW c \in Callers, NEW r \in Requests, Call(c, r)
      PROVE  ReadsStayTrue'
  <2>1. ReadsTrue(c)'
    BY <1>1, StageFacts DEF Call, ReadsTrue, UoWTypeOK
  <2>2. ASSUME NEW d \in Callers, d # c PROVE ReadsTrue(d)'
    BY <1>1, <1>a, <2>2, ReadsFrame DEF Call, tableVars, UoWTypeOK
  <2> QED
    BY <2>1, <2>2 DEF ReadsStayTrue
<1>2. ASSUME NEW c \in Callers, Step(c) PROVE ReadsStayTrue'
  (* The other callers: only the lock holder writes the tables. *)
  <2>1. ASSUME NEW d \in Callers, d # c
        PROVE  pc'[d] = pc[d] /\ request'[d] = request[d] /\ draft'[d] = draft[d]
    BY <1>2, <2>1
    DEF UoWTypeOK, Step, Connect, QueueFull, LockAccount, RefuseAccount,
        StartCommand, FindCompleted, RefusePrior, RunCallback, CallbackFails,
        CompleteCommand, Commit, CommitAckLost, CommitReplay, Deadlock,
        DeadlockLast, Retry, ConnectionLost, Fail, Ends, LeaveAttempt
  <2>2. ASSUME NEW d \in Callers, d # c, pc[d] \in Locked
        PROVE  command' = command /\ account' = account
    <3>1. lock = d
      BY <2>2 DEF LockSerializes
    <3>2. pc[c] \notin Locked
      BY <2>2, <3>1 DEF LockSerializes
    <3>3. ~Commit(c) /\ ~CommitAckLost(c)
      BY <3>2, StageFacts DEF Commit, CommitAckLost
    <3> QED
      BY <1>2, <3>3, QuietSteps
  <2>3. ASSUME NEW d \in Callers, d # c PROVE ReadsTrue(d)'
    BY <1>a, <2>1, <2>2, <2>3, ReadsFrame
  (* The caller that took the step. *)
  <2>4. ReadsTrue(c)'
    <3>1. ASSUME pc'[c] = "idle" PROVE ReadsTrue(c)'
      BY <3>1, StageFacts DEF ReadsTrue
    <3>2. CASE \/ QueueFull(c) \/ RefuseAccount(c) \/ RefusePrior(c)
               \/ CallbackFails(c) \/ DeadlockLast(c) \/ ConnectionLost(c)
               \/ Commit(c) \/ CommitAckLost(c) \/ CommitReplay(c)
      <4>1. pc'[c] = "idle"
        BY <3>2
        DEF UoWTypeOK, QueueFull, RefuseAccount, RefusePrior, CallbackFails,
            DeadlockLast, ConnectionLost, Commit, CommitAckLost, CommitReplay,
            Fail, LeaveAttempt
      <4> QED
        BY <3>1, <4>1
    <3>3. CASE Connect(c) \/ Deadlock(c) \/ Retry(c)
      <4>1. /\ pc'[c] \in {"begin", "backoff", "connect"}
            /\ pc[c] # "idle" /\ request'[c] = request[c]
        BY <3>3 DEF UoWTypeOK, Connect, Deadlock, Retry, LeaveAttempt
      <4> QED
        BY <1>a, <4>1, StageFacts DEF ReadsTrue
    <3>4. CASE LockAccount(c)
      <4>1. /\ pc'[c] = "locked" /\ pc[c] # "idle"
            /\ request'[c] = request[c] /\ account' = account
            /\ account = "active"
               \/ (account = "held" /\ request[c].kind = "lifecycle")
        BY <1>a, <3>4 DEF UoWTypeOK, LockAccount, Refused, tableVars, ReadsTrue,
                          Requests
      <4> QED
        BY <1>a, <4>1 DEF ReadsTrue
    <3>5. CASE \/ StartCommand(c) \/ FindCompleted(c) \/ CompleteCommand(c)
               \/ \E r \in Results : RunCallback(c, r)
      <4>1. /\ request' = request /\ account' = account /\ command' = command
            /\ pc[c] \in {"locked", "callback", "complete"}
            /\ pc'[c] \in {"callback", "replay", "complete", "commit"}
        BY <3>5 DEF UoWTypeOK, StartCommand, FindCompleted, CompleteCommand,
                    RunCallback, tableVars
      <4>2. pc'[c] \in {"callback", "complete", "commit"}
              => command[request[c].op] = None
        BY <1>a, <3>5 DEF UoWTypeOK, StartCommand, FindCompleted, CompleteCommand,
                          RunCallback, ReadsTrue
      <4>3. pc'[c] \in {"complete", "commit"} => draft'[c] \in Results
        BY <1>a, <3>5 DEF UoWTypeOK, StartCommand, FindCompleted, CompleteCommand,
                          RunCallback, ReadsTrue
      <4>4. pc'[c] = "replay" =>
              /\ command[request[c].op] # None
              /\ command[request[c].op].fingerprint = request[c].fingerprint
        BY <3>5 DEF UoWTypeOK, StartCommand, FindCompleted, CompleteCommand,
                    RunCallback
      <4>5. pc[c] \in Locked /\ pc[c] # "idle"
        BY <4>1, StageFacts
      <4> QED
        BY <1>a, <4>1, <4>2, <4>3, <4>4, <4>5 DEF ReadsTrue
    <3> QED
      BY <1>2, <3>2, <3>3, <3>4, <3>5 DEF Step
  <2> QED
    BY <2>3, <2>4 DEF ReadsStayTrue
<1>3. ASSUME NEW p \in Processes, Crash(p) PROVE ReadsStayTrue'
  <2>1. ASSUME NEW d \in Callers, ProcessOf[d] = p PROVE ReadsTrue(d)'
    BY <1>3, <2>1, StageFacts DEF Crash, ReadsTrue
  <2>2. ASSUME NEW d \in Callers, ProcessOf[d] # p PROVE ReadsTrue(d)'
    BY <1>3, <1>a, <2>2, ReadsFrame DEF Crash, tableVars
  <2> QED
    BY <2>1, <2>2 DEF ReadsStayTrue
<1>4. ASSUME NEW s \in {"active", "held"}, WriteAccount(s)
      PROVE  ReadsStayTrue'
  <2>1. \A d \in Callers : pc[d] \notin Locked
    BY <1>4, UoWAssumption DEF WriteAccount, LockSerializes
  <2> QED
    BY <1>4, <1>a, <2>1, ReadsFrame DEF WriteAccount, ReadsStayTrue
<1>5. CASE UNCHANGED uowVars
  BY <1>5, <1>a, ReadsFrame DEF uowVars, ReadsStayTrue
<1> QED
  BY <1>1, <1>2, <1>3, <1>4, <1>5 DEF UoWNext

------------------------------------------------------------------------------
(* The invariant *)

LEMMA InitIInv == UoWInit => IInv
  BY UoWAssumption, StageFacts
  DEF UoWInit, IInv, UoWTypeOK, LockSerializes, ReadsStayTrue, ReadsTrue,
      OneEffectPerRow, AnswersAgree, Stages, NoRequest

LEMMA StepIInv == IInv /\ [UoWNext]_uowVars => IInv'
  BY TypeStep, LockStep, ReadsStep, EffectStep, AnswerStep DEF IInv

LEMMA Invariance == UoWSpec => []IInv
  BY InitIInv, StepIInv, PTL DEF UoWSpec

(* Every variable keeps its type; in particular no connection is handed out *)
(* that the pool does not have.                                             *)
THEOREM TypeCorrect == UoWSpec => []UoWTypeOK
  BY Invariance, PTL DEF IInv

(* The row lock serializes the transactions of the organization.            *)
THEOREM Serialized == UoWSpec => []LockSerializes
  BY Invariance, PTL DEF IInv

(* Under deadlocks, lost acknowledgements, crashes and retries, a command   *)
(* key's callback takes effect once, exactly when its row is committed.     *)
THEOREM OnceOnly == UoWSpec => []OneEffectPerRow
  BY Invariance, PTL DEF IInv

(* Every successful answer is the committed result of the caller's request. *)
THEOREM AnswersAreStored == UoWSpec => []AnswersAgree
  BY Invariance, PTL DEF IInv

(* What a transaction read under the row lock stays true until it ends.     *)
THEOREM ReadsAreStable == UoWSpec => []ReadsStayTrue
  BY Invariance, PTL DEF IInv

------------------------------------------------------------------------------
(* Held accounts *)

(* Whatever the operator does meanwhile, a financial command takes effect   *)
(* only while the account is active.                                        *)
THEOREM HoldRespected == UoWSpec => HoldStopsFinancialEffects
<1> DEFINE Rule == \A o \in OpIds : applied'[o] # applied[o] =>
                     \/ account = "active"
                     \/ \E c \in Callers : /\ pc[c] = "commit"
                                           /\ request[c].op = o
                                           /\ request[c].kind = "lifecycle"
<1>1. IInv /\ [UoWNext]_uowVars => [Rule]_uowVars
  <2> SUFFICES ASSUME IInv, UoWNext PROVE Rule
    BY DEF uowVars
  <2>1. ASSUME NEW c \in Callers, Commit(c) \/ CommitAckLost(c) PROVE Rule
    <3>1. pc[c] = "commit" /\ Publish(c)
      BY <2>1 DEF Commit, CommitAckLost
    <3>2. /\ \A o \in OpIds \ {request[c].op} : applied'[o] = applied[o]
          /\ account = "active"
             \/ (account = "held" /\ request[c].kind = "lifecycle")
      BY <3>1, PublishFacts, StageFacts DEF IInv, ReadsStayTrue, ReadsTrue
    <3> QED
      BY <3>1, <3>2
  <2>2. CASE applied' = applied
    BY <2>2
  <2>3. ASSUME NEW c \in Callers, Step(c) PROVE Rule
    BY <2>1, <2>2, <2>3, QuietSteps
  <2>4. CASE \/ \E c \in Callers, r \in Requests : Call(c, r)
             \/ \E p \in Processes : Crash(p)
             \/ \E s \in {"active", "held"} : WriteAccount(s)
    BY <2>2, <2>4 DEF Call, Crash, WriteAccount, tableVars
  <2> QED
    BY <2>3, <2>4 DEF UoWNext
<1> QED
  BY <1>1, Invariance, PTL DEF UoWSpec, HoldStopsFinancialEffects

------------------------------------------------------------------------------
(* The connection pool *)

LEMMA AttemptsFinite ==
  \A p \in Processes : /\ IsFiniteSet(Attempts(p))
                       /\ Cardinality(Attempts(p)) \in Nat
  BY FS_Subset, FS_CardinalityType, UoWAssumption DEF Attempts

(* A caller that enters an attempt takes a connection of its process.       *)
LEMMA EnterAttempt ==
  ASSUME UoWTypeOK, PoolConserved, NEW c \in Callers, Connect(c)
  PROVE  PoolConserved'
<1>1. ASSUME NEW p \in Processes, p # ProcessOf[c]
      PROVE  Attempts(p)' = Attempts(p) /\ free'[p] = free[p]
  BY <1>1 DEF Connect, Attempts, UoWTypeOK
<1>2. /\ c \notin Attempts(ProcessOf[c])
      /\ free'[ProcessOf[c]] = free[ProcessOf[c]] - 1
      /\ ProcessOf[c] \in Processes
  BY StageFacts, UoWAssumption DEF Connect, Attempts, UoWTypeOK
<1>3. pc'[c] \in InAttempt /\ \A d \in Callers \ {c} : pc'[d] = pc[d]
  BY StageFacts DEF Connect, UoWTypeOK
<1>4. Attempts(ProcessOf[c])' = Attempts(ProcessOf[c]) \union {c}
  BY <1>3 DEF Attempts
<1>5. Cardinality(Attempts(ProcessOf[c])')
        = Cardinality(Attempts(ProcessOf[c])) + 1
  BY <1>2, <1>4, AttemptsFinite, FS_AddElement
<1>6. ASSUME NEW p \in Processes
      PROVE  free'[p] + Cardinality(Attempts(p)') = PoolSize
  <2>1. CASE p = ProcessOf[c]
    <3>1. /\ Cardinality(Attempts(p)) \in Nat /\ free[p] \in Nat
          /\ free[p] + Cardinality(Attempts(p)) = PoolSize
      BY AttemptsFinite DEF PoolConserved, UoWTypeOK
    <3>2. /\ free'[p] = free[p] - 1
          /\ Cardinality(Attempts(p)') = Cardinality(Attempts(p)) + 1
      BY <1>2, <1>5, <2>1
    <3> QED
      BY <3>1, <3>2, UoWAssumption
  <2>2. CASE p # ProcessOf[c]
    BY <1>1, <2>2 DEF PoolConserved
  <2> QED
    BY <2>1, <2>2
<1> QED
  BY <1>6 DEF PoolConserved

(* A caller that leaves an attempt, however it ends, gives it back.         *)
LEMMA ExitAttempt ==
  ASSUME UoWTypeOK, PoolConserved, NEW c \in Callers, pc[c] \in InAttempt,
         NEW s \in {"idle", "backoff"}, LeaveAttempt(c, s)
  PROVE  PoolConserved'
<1>1. ASSUME NEW p \in Processes, p # ProcessOf[c]
      PROVE  Attempts(p)' = Attempts(p) /\ free'[p] = free[p]
  BY <1>1 DEF LeaveAttempt, Attempts, UoWTypeOK
<1>2. /\ c \in Attempts(ProcessOf[c])
      /\ free'[ProcessOf[c]] = free[ProcessOf[c]] + 1
      /\ ProcessOf[c] \in Processes
  BY UoWAssumption DEF LeaveAttempt, Attempts, UoWTypeOK
<1>3. pc'[c] \notin InAttempt /\ \A d \in Callers \ {c} : pc'[d] = pc[d]
  BY StageFacts DEF LeaveAttempt, UoWTypeOK
<1>4. Attempts(ProcessOf[c])' = Attempts(ProcessOf[c]) \ {c}
  BY <1>3 DEF Attempts
<1>5. Cardinality(Attempts(ProcessOf[c])')
        = Cardinality(Attempts(ProcessOf[c])) - 1
  BY <1>2, <1>4, AttemptsFinite, FS_RemoveElement
<1>6. ASSUME NEW p \in Processes
      PROVE  free'[p] + Cardinality(Attempts(p)') = PoolSize
  <2>1. CASE p = ProcessOf[c]
    <3>1. /\ Cardinality(Attempts(p)) \in Nat /\ free[p] \in Nat
          /\ free[p] + Cardinality(Attempts(p)) = PoolSize
      BY AttemptsFinite DEF PoolConserved, UoWTypeOK
    <3>2. /\ free'[p] = free[p] + 1
          /\ Cardinality(Attempts(p)') = Cardinality(Attempts(p)) - 1
      BY <1>2, <1>5, <2>1
    <3> QED
      BY <3>1, <3>2, UoWAssumption
  <2>2. CASE p # ProcessOf[c]
    BY <1>1, <2>2 DEF PoolConserved
  <2> QED
    BY <2>1, <2>2
<1> QED
  BY <1>6 DEF PoolConserved

(* Steps that neither enter nor leave an attempt.                           *)
LEMMA PoolFrame ==
  ASSUME PoolConserved, free' = free,
         \A d \in Callers : pc'[d] \in InAttempt <=> pc[d] \in InAttempt
  PROVE  PoolConserved'
<1>1. \A p \in Processes : Attempts(p)' = Attempts(p)
  BY DEF Attempts
<1> QED
  BY <1>1 DEF PoolConserved

LEMMA PoolStep ==
  UoWTypeOK /\ PoolConserved /\ [UoWNext]_uowVars => PoolConserved'
<1> SUFFICES ASSUME UoWTypeOK, PoolConserved, [UoWNext]_uowVars
             PROVE  PoolConserved'
  OBVIOUS
<1>1. ASSUME NEW c \in Callers, NEW r \in Requests, Call(c, r)
      PROVE  PoolConserved'
  BY <1>1, PoolFrame DEF Call, UoWTypeOK, InAttempt
<1>2. ASSUME NEW c \in Callers, Step(c) PROVE PoolConserved'
  <2>1. CASE Connect(c)
    BY <2>1, EnterAttempt
  <2>2. CASE \/ QueueFull(c) \/ LockAccount(c) \/ StartCommand(c)
             \/ FindCompleted(c) \/ CompleteCommand(c) \/ Retry(c)
             \/ \E r \in Results : RunCallback(c, r)
    BY <2>2, PoolFrame
    DEF QueueFull, LockAccount, StartCommand, FindCompleted, CompleteCommand,
        Retry, RunCallback, UoWTypeOK, InAttempt
  <2>3. CASE \/ RefuseAccount(c) \/ RefusePrior(c) \/ CallbackFails(c)
             \/ DeadlockLast(c) \/ ConnectionLost(c)
             \/ Deadlock(c) \/ Commit(c) \/ CommitAckLost(c)
             \/ CommitReplay(c)
    <3>1. /\ pc[c] \in InAttempt
          /\ LeaveAttempt(c, "idle") \/ LeaveAttempt(c, "backoff")
      BY <2>3 DEF RefuseAccount, RefusePrior, CallbackFails, DeadlockLast,
                  ConnectionLost, Deadlock, Commit, CommitAckLost,
                  CommitReplay, Fail, InAttempt
    <3> QED
      BY <3>1, ExitAttempt
  <2> QED
    BY <1>2, <2>1, <2>2, <2>3 DEF Step
<1>3. ASSUME NEW p \in Processes, Crash(p) PROVE PoolConserved'
  <2>1. /\ Attempts(p)' = {}
        /\ free'[p] = PoolSize
        /\ \A q \in Processes \ {p} : /\ Attempts(q)' = Attempts(q)
                                      /\ free'[q] = free[q]
    BY <1>3 DEF Crash, Attempts, UoWTypeOK, InAttempt
  <2>2. ASSUME NEW q \in Processes
        PROVE  free'[q] + Cardinality(Attempts(q)') = PoolSize
    <3>1. CASE q = p
      BY <2>1, <3>1, FS_EmptySet, UoWAssumption
    <3>2. CASE q # p
      BY <2>1, <3>2 DEF PoolConserved
    <3> QED
      BY <3>1, <3>2
  <2> QED
    BY <2>2 DEF PoolConserved
<1>4. ASSUME NEW s \in {"active", "held"}, WriteAccount(s)
      PROVE  PoolConserved'
  BY <1>4, PoolFrame DEF WriteAccount
<1>5. CASE UNCHANGED uowVars
  BY <1>5, PoolFrame DEF uowVars
<1> QED
  BY <1>1, <1>2, <1>3, <1>4, <1>5 DEF UoWNext

(* No path out of an attempt leaks a connection or releases it twice.       *)
THEOREM PoolNeverLeaks == UoWSpec => []PoolConserved
<1>1. UoWInit => PoolConserved
  <2> SUFFICES ASSUME UoWInit PROVE PoolConserved
    OBVIOUS
  <2>1. \A p \in Processes : Attempts(p) = {} /\ free[p] = PoolSize
    BY DEF UoWInit, Attempts, InAttempt
  <2> QED
    BY <2>1, FS_EmptySet, UoWAssumption DEF PoolConserved
<1>2. UoWTypeOK /\ PoolConserved /\ [UoWNext]_uowVars => PoolConserved'
  BY PoolStep
<1> QED
  BY <1>1, <1>2, TypeCorrect, PTL DEF UoWSpec

------------------------------------------------------------------------------
(* The refinement *)

LEMMA RefineInit == UoWInit => Promise!AInit
  BY DEF UoWInit, Promise!AInit, RecordOf

LEMMA RefineStep ==
  IInv /\ [UoWNext]_uowVars => [Promise!ANext]_(Promise!avars)
<1> SUFFICES ASSUME IInv, [UoWNext]_uowVars
             PROVE  Promise!ANext \/ UNCHANGED Promise!avars
  OBVIOUS
<1> USE DEF IInv
<1>1. ASSUME NEW c \in Callers, Commit(c) \/ CommitAckLost(c)
      PROVE  Promise!ANext
  <2>1. pc[c] = "commit" /\ Publish(c)
    BY <1>1 DEF Commit, CommitAckLost
  <2>2. PICK o \in OpIds, f \in Fingerprints, r \in Results :
          o = request[c].op /\ f = request[c].fingerprint /\ r = draft[c]
    BY <2>1, PublishFacts DEF Requests
  <2>3. RecordOf(o) = None
    BY <2>1, <2>2, PublishFacts DEF RecordOf
  <2>4. RecordOf(o)' = Promise!Bound(f, r)
    <3>1. command'[o] = Completed(f, r) /\ command'[o] # None
      BY <2>1, <2>2, PublishFacts
    <3> QED
      BY <3>1 DEF RecordOf, Completed, Promise!Bound
  <2>5. \A k \in OpIds \ {o} : RecordOf(k)' = RecordOf(k)
    BY <2>1, <2>2, PublishFacts DEF RecordOf
  <2>6. applied' = [applied EXCEPT ![o] = @ + 1]
    BY <2>1, <2>2 DEF Publish
  <2>7. answers' \in {answers, answers \union {<<o, f, r>>}}
    BY <1>1, <2>2 DEF Commit, CommitAckLost
  <2>8. Promise!Execute(o, f, r)
    BY <2>2, <2>3, <2>4, <2>5, <2>6, <2>7 DEF Promise!Execute
  <2> QED
    BY <2>2, <2>8 DEF Promise!ANext
<1>2. ASSUME NEW c \in Callers, CommitReplay(c) PROVE Promise!ANext
  <2> DEFINE o == request[c].op
  <2>1. /\ o \in OpIds /\ command[o] \in Rows
        /\ command[o].fingerprint = request[c].fingerprint
    BY <1>2 DEF CommitReplay, ReadsStayTrue, ReadsTrue, Requests, UoWTypeOK
  <2>2. command[o] # None
    BY <2>1, NoneAssumption
  <2>3. /\ RecordOf(o) # None
        /\ RecordOf(o).fingerprint = request[c].fingerprint
        /\ RecordOf(o).result = command[o].result
    BY <2>1, <2>2, NoneAssumption DEF RecordOf, Rows
  <2>4. /\ command' = command /\ applied' = applied
        /\ answers' = answers \union
             {<<o, request[c].fingerprint, command[o].result>>}
    BY <1>2 DEF CommitReplay, tableVars
  <2>5. \A k \in OpIds : RecordOf(k)' = RecordOf(k)
    BY <2>4 DEF RecordOf
  <2>6. Promise!Replay(o)
    BY <2>1, <2>3, <2>4, <2>5 DEF Promise!Replay
  <2> QED
    BY <2>1, <2>6 DEF Promise!ANext
<1>3. ASSUME command' = command, applied' = applied, answers' = answers
      PROVE  UNCHANGED Promise!avars
  BY <1>3 DEF Promise!avars, RecordOf
<1>4. ASSUME NEW c \in Callers, Step(c)
      PROVE  Promise!ANext \/ UNCHANGED Promise!avars
  BY <1>1, <1>2, <1>3, <1>4, QuietSteps
<1>5. ASSUME \/ \E c \in Callers, r \in Requests : Call(c, r)
             \/ \E p \in Processes : Crash(p)
             \/ \E s \in {"active", "held"} : WriteAccount(s)
             \/ UNCHANGED uowVars
      PROVE  UNCHANGED Promise!avars
  BY <1>3, <1>5 DEF Call, Crash, WriteAccount, uowVars, tableVars
<1> QED
  BY <1>4, <1>5 DEF UoWNext

(* The unit of work implements the idempotent command.                      *)
THEOREM Refinement == UoWSpec => ImplementsIdempotentCommand
  BY RefineInit, RefineStep, Invariance, PTL
  DEF UoWSpec, ImplementsIdempotentCommand, Promise!ASpec

-----------------------------------------------------------------------------
(* One open invoice                                                          *)

(* The rows of a table that grows at its end.                                *)
IsTable == \E RowSet : invoices \in Seq(RowSet)

OneOpen == \A i, j \in Open : i = j

OpenInv == IsTable /\ OneOpen

(* An update in place keeps the rows, and no row opens that was not open.    *)
LEMMA UpdateKeeps ==
  ASSUME OpenInv, NEW i \in Open, NEW inv, invoices' = [invoices EXCEPT ![i] = inv]
  PROVE  OpenInv'
<1>1. PICK RowSet : invoices \in Seq(RowSet)
  BY DEF OpenInv, IsTable
<1>2. invoices \in Seq(RowSet \union {inv})
  BY <1>1
<1>3. i \in 1..Len(invoices) /\ DOMAIN invoices = 1..Len(invoices)
  BY <1>1 DEF Open
<1>4. invoices' \in Seq(RowSet \union {inv}) /\ DOMAIN invoices' = DOMAIN invoices
      /\ \A j \in DOMAIN invoices : j # i => invoices'[j] = invoices[j]
  BY <1>2, <1>3
<1>5. Open' \subseteq Open
  BY <1>3, <1>4 DEF Open
<1> QED
  BY <1>4, <1>5 DEF OpenInv, IsTable, OneOpen

(* A new row is open only if none was.                                       *)
LEMMA IssueKeeps ==
  ASSUME OpenInv, NEW inv, invoices' = Append(invoices, inv),
         inv.status \in {"open", "partially_paid"} => Open = {}
  PROVE  OpenInv'
<1>1. PICK RowSet : invoices \in Seq(RowSet)
  BY DEF OpenInv, IsTable
<1>2. invoices \in Seq(RowSet \union {inv}) /\ inv \in RowSet \union {inv}
  BY <1>1
<1>3. /\ invoices' \in Seq(RowSet \union {inv})
      /\ Len(invoices') = Len(invoices) + 1
      /\ invoices'[Len(invoices) + 1] = inv
      /\ \A j \in 1..Len(invoices) : invoices'[j] = invoices[j]
  BY <1>2, AppendProperties
<1>4. DOMAIN invoices = 1..Len(invoices) /\ DOMAIN invoices' = 1..(Len(invoices) + 1)
      /\ Len(invoices) \in Nat
  BY <1>2, <1>3
<1>5. \A j \in Open' : j \in Open \/ j = Len(invoices) + 1
  BY <1>3, <1>4 DEF Open
<1>6. Len(invoices) + 1 \in Open' => Open = {}
  BY <1>3 DEF Open
<1>7. OneOpen'
  BY <1>5, <1>6 DEF OpenInv, OneOpen
<1> QED
  BY <1>3, <1>7 DEF OpenInv, IsTable

(* A period starts without invoices.                                         *)
LEMMA OpenInit == InvoicesInit => OpenInv
<1> SUFFICES ASSUME InvoicesInit PROVE OpenInv
  OBVIOUS
<1>1. invoices = <<>> /\ <<>> \in Seq({}) /\ DOMAIN <<>> = {}
  BY DEF InvoicesInit
<1> QED
  BY <1>1 DEF OpenInv, IsTable, OneOpen, Open

(* No command opens a second invoice.                                        *)
LEMMA OpenNext == OpenInv /\ [InvoicesNext]_vars => OpenInv'
<1> SUFFICES ASSUME OpenInv, [InvoicesNext]_vars PROVE OpenInv'
  OBVIOUS
<1>1. CASE UNCHANGED invoices
  BY <1>1 DEF OpenInv, IsTable, OneOpen, Open
<1>2. CASE IssueInvoice
  <2> DEFINE inv == [total |-> UnbilledUnits, paid |-> 0,
                     status |-> IF UnbilledUnits >= 0 THEN "open" ELSE "credit_note"]
  <2>1. invoices' = Append(invoices, inv)
    BY <1>2 DEF IssueInvoice
  <2>2. inv.status \in {"open", "partially_paid"} => Open = {}
    BY <1>2 DEF IssueInvoice, AppendsTo
  <2> HIDE DEF inv
  <2> QED
    BY <2>1, <2>2, IssueKeeps
<1>3. ASSUME NEW i \in DOMAIN invoices, AppendLate(i)
      PROVE  OpenInv'
  <2>1. \E inv : invoices' = [invoices EXCEPT ![i] = inv]
    BY <1>3 DEF AppendLate
  <2> QED
    BY <1>3, <2>1, UpdateKeeps DEF AppendLate
<1>4. ASSUME NEW r \in DOMAIN requests, ApprovePayment(r)
      PROVE  OpenInv'
  <2>1. \E inv : invoices' = [invoices EXCEPT ![requests[r].invoice] = inv]
    BY <1>4 DEF ApprovePayment
  <2>2. requests[r].invoice \in Open
    BY <1>4 DEF ApprovePayment, Payable
  <2> QED
    BY <2>1, <2>2, UpdateKeeps
<1>5. ASSUME NEW i \in Open, NEW chosen, NEW amount, IssueCreditNote(i, chosen, amount)
      PROVE  OpenInv'
  <2>1. \E inv : invoices' = [invoices EXCEPT ![i] = inv]
    BY <1>5 DEF IssueCreditNote
  <2> QED
    BY <2>1, UpdateKeeps
<1>6. CASE UsageStep
  BY <1>1, <1>6 DEF UsageStep, ChargeUsage, CorrectUsage
<1>7. CASE PaymentStep
  <2>1. ASSUME NEW r, NEW amount, Resubmit(r, amount) \/ Reject(r) \/ AskClarification(r) PROVE UNCHANGED invoices
    BY <2>1 DEF Resubmit, Reject, AskClarification, RequestsOnly
  <2>2. ASSUME NEW i, NEW amount, SubmitPayment(i, amount) PROVE UNCHANGED invoices
    BY <2>2 DEF SubmitPayment, RequestsOnly
  <2> QED
    BY <1>1, <1>4, <1>7, <2>1, <2>2 DEF PaymentStep
<1>8. CASE UNCHANGED vars
  BY <1>1, <1>8 DEF vars
<1> QED
  BY <1>2, <1>3, <1>5, <1>6, <1>7, <1>8 DEF InvoicesNext, ClosePeriod, CreditStep

(* At most one invoice of a period is open, however often it is closed: the   *)
(* rule of closePeriod that late entries go on the open one.                 *)
THEOREM OpenInvoiceIsUnique == InvoicesSpec => []OneOpenInvoice
<1>1. OpenInv => OneOpenInvoice
  <2> SUFFICES ASSUME OpenInv PROVE Cardinality(Open) <= 1
    BY DEF OneOpenInvoice
  <2>1. CASE Open = {}
    BY <2>1, FS_EmptySet
  <2>2. ASSUME NEW i \in Open PROVE Cardinality(Open) <= 1
    <3>1. Open = {i}
      BY <2>2 DEF OpenInv, OneOpen
    <3>2. Cardinality({i}) = 1
      BY FS_Singleton
    <3> QED
      BY <3>1, <3>2
  <2> QED
    BY <2>1, <2>2
<1> QED
  BY <1>1, OpenInit, OpenNext, PTL DEF InvoicesSpec

-----------------------------------------------------------------------------
(* The rows of the four tables.                                              *)
Post == [event : Nat, totals : SUBSET Totals, units : Int, invoiced : BOOLEAN]
Bill == [total : Int, paid : Nat, status : {"open", "partially_paid", "paid", "credit_note"}]
Line == [invoice : Nat, totals : SUBSET Totals, units : Int, applied : Nat, credit : BOOLEAN]

Request == [invoice : Nat, amount : Nat,
            status : {"pending", "clarification", "rejected", "approved"}]

(* The lines of an invoice, those of its credit notes, and all lines of usage. *)
Own(rows, i) == {l \in DOMAIN rows : rows[l].invoice = i}
CreditsOf(rows, i) == {l \in Own(rows, i) : rows[l].credit}
Plain(rows) == {l \in DOMAIN rows : ~rows[l].credit}

(* An invoice of this total, of which this was paid, is the sum of its lines. *)
Itemized(rows, i, total, paid) ==
  /\ total = SumFunctionOnSet(UnitsOf(rows), Own(rows, i))
  /\ paid - SumFunctionOnSet(UnitsOf(rows), CreditsOf(rows, i))
       = SumFunctionOnSet(AppliedOf(rows), Own(rows, i))

(* Payments and credit notes are applied to charges, to none beyond it.      *)
Sound(inv) ==
  /\ inv.units > 0 => inv.applied <= inv.units
  /\ inv.units <= 0 => inv.applied = 0
  /\ inv.credit => inv.units < 0

Anchored == \A l \in DOMAIN lines : lines[l].invoice \in DOMAIN invoices /\ Sound(lines[l])

(* The lines of usage that count in a total.                                 *)
PlainIn(rows, s) == {l \in CountedIn(rows, s) : ~rows[l].credit}

(* What comes to a total: by the journal, and by its invoiced entries; by the *)
(* lines of usage, and by what was applied to lines.                         *)
JournalOf(s) == SumFunctionOnSet(UnitsOf(journal), CountedIn(journal, s))
BilledOf(s) == SumFunctionOnSet(UnitsOf(journal), CountedIn(journal, s) \ Unbilled)
UsageOf(rows, s) == SumFunctionOnSet(UnitsOf(rows), PlainIn(rows, s))
AppliedTo(rows, s) == SumFunctionOnSet(AppliedOf(rows), CountedIn(rows, s))

(* The line says what the entry does.                                        *)
Copies(line, entry) == line.totals = entry.totals /\ line.units = entry.units

(* A line of usage is what the journal has; one of a credit counts nowhere.   *)
Copied ==
  \A l \in DOMAIN lines :
    IF lines[l].credit THEN lines[l].totals = {}
    ELSE \E j \in DOMAIN journal : Copies(lines[l], journal[j])

(* Every invoiced entry of the journal is on one line.                       *)
Billed == \A s \in Totals : UsageOf(lines, s) = BilledOf(s)

AllItemized == \A i \in DOMAIN invoices : Itemized(lines, i, invoices[i].total, invoices[i].paid)

(* All usage of the period counts in the total.                              *)
Whole(s) == DOMAIN journal = CountedIn(journal, s)

(* In no total that all usage counts in did each correction find its debt.    *)
Missed == \A s \in Totals : Whole(s) => unmet[s] > 0

(* Nothing is paid beyond the total, and an invoice is negative only where    *)
(* corrections missed their debt.                                            *)
Standing ==
  \A i \in DOMAIN invoices :
    /\ invoices[i].status \in {"open", "partially_paid"} => Outstanding(i) >= 0
    /\ invoices[i].status = "paid" => Outstanding(i) = 0
    /\ invoices[i].status = "credit_note" => Missed

ItemsInv == TypeOK /\ Anchored /\ Copied /\ Billed /\ DebtIsAccounted /\ AllItemized

(* What the type invariant says, row by row.                                 *)
LEMMA Types ==
  TypeOK <=> /\ settled \in [Totals -> Nat] /\ unmet \in [Totals -> Nat] /\ returns \in Nat /\ credits \in Nat
             /\ journal \in Seq(Post) /\ invoices \in Seq(Bill) /\ lines \in Seq(Line)
             /\ requests \in Seq(Request)
BY DEF TypeOK, Post, Bill, Line, Request

(* A table has finitely many rows.                                           *)
LEMMA TableIsFinite ==
  ASSUME NEW RowSet, NEW s \in Seq(RowSet)
  PROVE  /\ Len(s) \in Nat /\ DOMAIN s = 1..Len(s) /\ DOMAIN s \in SUBSET Nat
         /\ \A S \in SUBSET DOMAIN s : IsFiniteSet(S)
         /\ \A k \in DOMAIN s : s[k] \in RowSet
<1> DEFINE m == Len(s)
<1>1. m \in Nat /\ DOMAIN s = 1..m /\ \A k \in DOMAIN s : s[k] \in RowSet
  OBVIOUS
<1> HIDE DEF m
<1>2. IsFiniteSet(1..m)
  BY <1>1, FS_Interval
<1> QED
  BY <1>1, <1>2, FS_Subset DEF m

(* What a column holds.                                                      *)
LEMMA Columns ==
  ASSUME NEW rows
  PROVE  /\ \A k \in DOMAIN rows : UnitsOf(rows)[k] = rows[k].units
         /\ \A k \in DOMAIN rows : AppliedOf(rows)[k] = rows[k].applied
         /\ DOMAIN UnitsOf(rows) = DOMAIN rows /\ DOMAIN AppliedOf(rows) = DOMAIN rows
BY DEF UnitsOf, AppliedOf

(* The sums of the lines are numbers.                                        *)
LEMMA LineSums ==
  ASSUME NEW rows \in Seq(Line), NEW S \in SUBSET DOMAIN rows
  PROVE  /\ IsFiniteSet(S)
         /\ SumFunctionOnSet(UnitsOf(rows), S) \in Int
         /\ SumFunctionOnSet(AppliedOf(rows), S) \in Int
<1>0. IsFiniteSet(S) /\ \A k \in S : rows[k] \in Line
  BY TableIsFinite
<1>1. \A k \in S : rows[k].units \in Int /\ rows[k].applied \in Int
  BY <1>0 DEF Line
<1>2. \A k \in S : UnitsOf(rows)[k] \in Int /\ AppliedOf(rows)[k] \in Int
  BY <1>1, Columns
<1> QED
  BY <1>0, <1>1, <1>2, SumType

(* And so are those of the journal.                                          *)
LEMMA JournalSums ==
  ASSUME NEW rows \in Seq(Post), NEW S \in SUBSET DOMAIN rows
  PROVE  IsFiniteSet(S) /\ SumFunctionOnSet(UnitsOf(rows), S) \in Int
<1>0. IsFiniteSet(S) /\ \A k \in S : rows[k] \in Post
  BY TableIsFinite
<1>1. \A k \in S : rows[k].units \in Int
  BY <1>0 DEF Post
<1>2. \A k \in S : UnitsOf(rows)[k] \in Int
  BY <1>1, Columns
<1> QED
  BY <1>0, <1>1, <1>2, SumType

-----------------------------------------------------------------------------
(* A new entry of the journal.                                               *)
LEMMA Posted ==
  ASSUME journal \in Seq(Post), NEW e \in Nat, NEW ts \in SUBSET Totals, NEW u \in Int,
         journal' = Append(journal, Entry(e, ts, u))
  PROVE  /\ journal' \in Seq(Post) /\ DOMAIN journal \in SUBSET DOMAIN journal'
         /\ \A j \in DOMAIN journal : journal'[j] = journal[j]
         /\ \A s \in Totals : /\ JournalOf(s) \in Int /\ BilledOf(s)' = BilledOf(s)
                              /\ JournalOf(s)' = JournalOf(s) + (IF s \in ts THEN u ELSE 0)
<1> DEFINE m == Len(journal)
           D == DOMAIN journal
           f == UnitsOf(journal)
           h == UnitsOf(journal')
           x == m + 1
<1>1. Entry(e, ts, u) \in Post /\ Entry(e, ts, u).units = u /\ Entry(e, ts, u).invoiced = FALSE
      /\ Entry(e, ts, u).totals = ts
  BY DEF Entry, Post
<1>2. /\ journal' \in Seq(Post) /\ Len(journal') = m + 1 /\ journal'[m + 1] = Entry(e, ts, u)
      /\ \A k \in 1..m : journal'[k] = journal[k]
  BY <1>1, AppendProperties
<1>3. m \in Nat /\ D = 1..m /\ DOMAIN journal' = 1..(m + 1)
  BY <1>2, TableIsFinite
<1>3a. \A k \in D : journal[k].units \in Int
  <2>1. \A k \in D : journal[k] \in Post
    BY TableIsFinite
  <2> QED
    BY <2>1 DEF Post
<1>4. DOMAIN journal' = D \union {x} /\ x \notin D
  BY <1>3
<1>5. (\A k \in D : f[k] \in Int /\ h[k] = f[k]) /\ h[x] = u
  <2>1. \A k \in D : f[k] = journal[k].units
    BY Columns
  <2>2. \A k \in D \union {x} : h[k] = journal'[k].units
    BY <1>4, Columns
  <2>3. \A k \in D : journal'[k] = journal[k]
    BY <1>2, <1>3
  <2> QED
    BY <1>1, <1>2, <1>3a, <2>1, <2>2, <2>3
<1>6. ASSUME NEW s \in Totals
      PROVE  /\ JournalOf(s) \in Int /\ BilledOf(s)' = BilledOf(s)
             /\ JournalOf(s)' = JournalOf(s) + (IF s \in ts THEN u ELSE 0)
  <2> DEFINE C == CountedIn(journal, s)
             B == C \ Unbilled
  <2>1. /\ CountedIn(journal', s) = IF s \in ts THEN C \union {x} ELSE C
        /\ CountedIn(journal', s) \ Unbilled' = B
        /\ C \in SUBSET D /\ B \in SUBSET D /\ x \notin C
    BY <1>1, <1>2, <1>3, <1>4 DEF CountedIn, Unbilled
  <2>2. IsFiniteSet(C) /\ IsFiniteSet(B)
    BY <2>1, TableIsFinite
  <2> HIDE DEF D, f, h, x, B, C
  <2>3. \A k \in C : f[k] \in Int /\ h[k] = f[k]
    BY <1>5, <2>1
  <2>4. SumFunctionOnSet(h, C \union {x}) = SumFunctionOnSet(f, C) + u
    BY SMTT(60), <1>5, <2>1, <2>2, <2>3, SumAdded
  <2>5. SumFunctionOnSet(h, B) = SumFunctionOnSet(f, B) /\ SumFunctionOnSet(h, C) = SumFunctionOnSet(f, C)
    BY <1>5, <2>1, <2>2, <2>3, SumEqual
  <2>6. SumFunctionOnSet(f, C) \in Int
    BY <2>2, <2>3, SumType
  <2>7. SumFunctionOnSet(h, CountedIn(journal', s)) = SumFunctionOnSet(f, C) + (IF s \in ts THEN u ELSE 0)
    BY <2>1, <2>4, <2>5, <2>6
  <2> QED
    BY <2>1, <2>5, <2>6, <2>7 DEF JournalOf, BilledOf, f, h, B, C
<1> QED
  BY <1>2, <1>3, <1>4, <1>6 DEF D

-----------------------------------------------------------------------------
(* The places of the lines that closing a period adds.                       *)
NewLines == (Len(lines) + 1)..(Len(lines) + Cardinality(Unbilled))

(* Closing a period adds a line for every entry that was on none.             *)
LEMMA Inserted ==
  ASSUME TypeOK, NEW i \in Nat, InsertLines(i)
  PROVE  /\ lines' \in Seq(Line) /\ IsFiniteSet(NewLines)
         /\ DOMAIN lines' = DOMAIN lines \union NewLines
         /\ DOMAIN lines \intersect NewLines = {}
         /\ \A l \in DOMAIN lines : lines'[l] = lines[l]
         /\ \A l \in NewLines : /\ lines'[l].invoice = i /\ lines'[l].applied = 0
                                /\ lines'[l].credit = FALSE /\ lines'[l].units \in Int
                                /\ \E j \in Unbilled : Copies(lines'[l], journal[j])
         /\ UnbilledUnits \in Int
         /\ \A f, g : (\A l \in NewLines, j \in Unbilled :
                         f[j] \in Int /\ (Copies(lines'[l], journal[j]) => g[l] = f[j])) =>
              SumFunctionOnSet(g, NewLines) = SumFunctionOnSet(f, Unbilled)
<1> DEFINE n == Cardinality(Unbilled)
           m == Len(lines)
           K == 1..n
           place(k) == CHOOSE j \in Unbilled : Cardinality({h \in Unbilled : h < j}) = k - 1
           c == [k \in K |-> m + k]
           added == [k \in K |-> [invoice |-> i, totals |-> journal[place(k)].totals,
                                  units |-> journal[place(k)].units,
                                  applied |-> 0, credit |-> FALSE]]
<1>1. journal \in Seq(Post) /\ lines \in Seq(Line) /\ Unbilled \in SUBSET DOMAIN journal
  BY Types DEF Unbilled
<1>2. /\ IsFiniteSet(Unbilled) /\ n \in Nat /\ Unbilled \in SUBSET Int
      /\ (\A j \in Unbilled : journal[j].units \in Int /\ journal[j].totals \in SUBSET Totals)
      /\ m \in Nat /\ DOMAIN lines = 1..m
  <2>1. IsFiniteSet(Unbilled) /\ Unbilled \in SUBSET Nat /\ \A j \in Unbilled : journal[j] \in Post
    BY <1>1, TableIsFinite
  <2>2. n \in Nat
    BY <2>1, FS_CardinalityType
  <2>3. \A j \in Unbilled : journal[j].units \in Int /\ journal[j].totals \in SUBSET Totals
    BY <2>1 DEF Post
  <2>4. m \in Nat /\ DOMAIN lines = 1..m
    BY <1>1
  <2> QED
    BY <2>1, <2>2, <2>3, <2>4
<1>3. ASSUME NEW k \in K PROVE place(k) \in Unbilled /\ Cardinality(Below(Unbilled, place(k))) = k - 1
  <2>1. k - 1 \in 0..(n - 1)
    BY <1>2
  <2>2. \E j \in Unbilled : Cardinality(Below(Unbilled, j)) = k - 1
    BY <1>2, <2>1, Ranking
  <2> QED
    BY <2>2 DEF Below
<1>4. lines' = lines \o added
  BY DEF InsertLines
<1> HIDE DEF place
<1>5. added \in Seq(Line) /\ Len(added) = n
  <2>1. ASSUME NEW k \in K PROVE added[k] \in Line
    BY <1>2, <1>3 DEF Line
  <2>2. added \in [1..n -> Line]
    BY <2>1
  <2> HIDE DEF added
  <2> QED
    BY <1>2, <2>2
<1>6. \A k \in K : added[k].invoice = i /\ added[k].applied = 0 /\ added[k].credit = FALSE
        /\ added[k].units \in Int /\ Copies(added[k], journal[place(k)])
  BY <1>2, <1>3 DEF Copies
<1> HIDE DEF added
<1>7. /\ lines' \in Seq(Line) /\ Len(lines') = m + n
      /\ \A l \in 1..m : lines'[l] = lines[l]
      /\ \A l \in (m + 1)..(m + n) : lines'[l] = added[l - m]
  <2>1. /\ lines \o added \in Seq(Line) /\ Len(lines \o added) = Len(lines) + Len(added)
        /\ \A l \in 1..(Len(lines) + Len(added)) : (lines \o added)[l]
              = IF l <= Len(lines) THEN lines[l] ELSE added[l - Len(lines)]
    BY <1>1, <1>5, ConcatProperties
  <2> HIDE DEF m, n
  <2>2. /\ \A l \in 1..m : l <= m /\ l \in 1..(m + n)
        /\ \A l \in (m + 1)..(m + n) : ~ (l <= m) /\ l \in 1..(m + n)
    BY <1>2
  <2>3. Len(added) = n /\ Len(lines) = m
    BY <1>5 DEF m
  <2> QED
    BY <1>4, <2>1, <2>2, <2>3
<1>8. DOMAIN lines' = DOMAIN lines \union NewLines /\ DOMAIN lines \intersect NewLines = {}
  BY <1>2, <1>7 DEF NewLines
<1>9. \A l \in NewLines : l - m \in K /\ lines'[l] = added[l - m]
  BY <1>2, <1>7 DEF NewLines
<1>10. \A l \in NewLines : /\ lines'[l].invoice = i /\ lines'[l].applied = 0
                           /\ lines'[l].credit = FALSE /\ lines'[l].units \in Int
                           /\ \E j \in Unbilled : Copies(lines'[l], journal[j])
  BY <1>3, <1>6, <1>9
<1>11. UnbilledUnits \in Int /\ IsFiniteSet(K)
  <2>1. SumFunctionOnSet(UnitsOf(journal), Unbilled) \in Int
    BY <1>1, JournalSums
  <2>2. IsFiniteSet(K)
    BY <1>2, FS_Interval
  <2> QED
    BY <2>1, <2>2 DEF UnbilledUnits
<1>12. IsFiniteSet(NewLines)
  BY <1>7, <1>8, TableIsFinite
<1>15. {c[k] : k \in K} = NewLines
  <2>1. ASSUME NEW l \in NewLines PROVE \E k \in K : c[k] = l
    <3>1. l - m \in K /\ l \in Int /\ m + (l - m) = l
      BY <1>2 DEF NewLines
    <3> QED
      BY <3>1
  <2>2. \A k \in K : c[k] \in NewLines
    BY <1>2 DEF NewLines
  <2> QED
    BY <2>1, <2>2
<1>13. ASSUME NEW f, NEW g, \A l \in NewLines, j \in Unbilled :
                f[j] \in Int /\ (Copies(lines'[l], journal[j]) => g[l] = f[j])
       PROVE  SumFunctionOnSet(g, NewLines) = SumFunctionOnSet(f, Unbilled)
  <2> DEFINE h == [k \in K |-> f[place(k)]]
  <2>1. \A k \in K : c[k] = m + k /\ c[k] \in NewLines /\ c[k] - m = k
    BY <1>2 DEF NewLines
  <2>2. \A k \in K : h[k] = f[place(k)] /\ f[place(k)] \in Int /\ g[c[k]] = h[k]
    BY <1>3, <1>6, <1>9, <1>13, <2>1
  <2>3. \A k \in 1..n : \E j \in Unbilled : Cardinality(Below(Unbilled, j)) = k - 1 /\ h[k] = f[j]
    BY <1>3
  <2>4. \A x \in Unbilled : f[x] \in Int
    <3> SUFFICES ASSUME NEW x \in Unbilled PROVE f[x] \in Int
      OBVIOUS
    <3>1. n # 0
      BY <1>2, FS_EmptySet
    <3>2. 1 \in K
      BY <1>2, <3>1
    <3> QED
      BY <1>13, <2>1, <3>2
  <2>5. \A k, l \in K : c[k] = c[l] => k = l
    BY <1>2
  <2> HIDE DEF h, c, K
  <2>6. SumFunctionOnSet(h, 1..n) = SumFunctionOnSet(f, Unbilled)
    <3> HIDE DEF n
    <3>1. n = Cardinality(Unbilled)
      BY DEF n
    <3> QED
      BY <1>2, <2>3, <2>4, <3>1, SumRanked
  <2>7. \A k \in K : g[c[k]] \in Int /\ h[k] = g[c[k]]
    BY <2>2
  <2>8. SumFunctionOnSet(h, K) = SumFunctionOnSet(g, {c[k] : k \in K})
    BY <1>11, <2>5, <2>7, SumReindexed
  <2> QED
    BY <1>15, <2>6, <2>8 DEF K
<1> QED
  BY <1>7, <1>8, <1>10, <1>11, <1>12, <1>13, <1>2

(* All of the journal is invoiced then, and nothing else of it changes.       *)
LEMMA AllInvoiced ==
  ASSUME TypeOK, NEW i, InsertLines(i)
  PROVE  /\ journal' \in Seq(Post) /\ DOMAIN journal' = DOMAIN journal
         /\ UnitsOf(journal') = UnitsOf(journal) /\ Unbilled' = {}
         /\ \A j \in DOMAIN journal : Copies(journal'[j], journal[j])
         /\ \A s \in Totals : CountedIn(journal', s) = CountedIn(journal, s)
<1>1. journal \in Seq(Post)
  BY Types
<1>2. Len(journal) \in Nat /\ DOMAIN journal = 1..Len(journal) /\ \A j \in DOMAIN journal : journal[j] \in Post
  BY <1>1
<1>3. journal' = [j \in DOMAIN journal |-> [journal[j] EXCEPT !.invoiced = TRUE]]
  BY DEF InsertLines
<1>4. \A j \in DOMAIN journal : journal'[j] \in Post /\ journal'[j].units = journal[j].units
        /\ journal'[j].totals = journal[j].totals /\ journal'[j].invoiced = TRUE
  BY <1>2, <1>3 DEF Post
<1>5. journal' \in [1..Len(journal) -> Post] /\ DOMAIN journal' = DOMAIN journal
  BY <1>2, <1>3, <1>4
<1>6. journal' \in Seq(Post)
  BY <1>2, <1>5
<1> QED
  BY <1>4, <1>5, <1>6 DEF UnitsOf, Unbilled, CountedIn, Copies

-----------------------------------------------------------------------------
(* What an amount may be applied to: charges of the lines.                   *)
ChargedLines == {l \in DOMAIN lines : lines[l].units > 0}

(* What is open of a charge is a number, and positive.                       *)
LEMMA OpenIsNat ==
  ASSUME TypeOK, Anchored, NEW l \in ChargedLines
  PROVE  OpenUnits(l) \in Nat /\ lines[l].applied \in Nat /\ lines[l].units \in Int
<1>1. lines \in Seq(Line) /\ l \in DOMAIN lines /\ lines[l].units > 0
  BY Types DEF ChargedLines
<1>2. lines[l] \in Line /\ Sound(lines[l])
  BY <1>1 DEF Anchored
<1> QED
  BY <1>1, <1>2 DEF Line, Sound, OpenUnits

(* Line by line, the shares of the chosen lines make up the amount.           *)
LEMMA SharesAddUp ==
  ASSUME TypeOK, Anchored, NEW chosen \in SUBSET ChargedLines, NEW amount \in Nat,
         amount <= OpenTotal(chosen), NEW share, share = [l \in DOMAIN lines |-> Share(l, chosen, amount)]
  PROVE  /\ \A l \in chosen : share[l] \in Nat /\ share[l] <= OpenUnits(l)
         /\ SumFunctionOnSet(share, chosen) = amount
<1> DEFINE open == [l \in DOMAIN lines |-> OpenUnits(l)]
           Before(m) == {k \in chosen : k < m}
           Sum(S) == SumFunctionOnSet(open, S)
<1>1. lines \in Seq(Line)
  BY Types
<1>2. chosen \in SUBSET DOMAIN lines /\ DOMAIN lines = 1..Len(lines) /\ Len(lines) \in Nat
  BY <1>1 DEF ChargedLines
<1>3. \A l \in chosen : open[l] = OpenUnits(l) /\ open[l] \in Nat
  BY <1>2, OpenIsNat
<1>4. ASSUME NEW S \in SUBSET chosen PROVE IsFiniteSet(S) /\ OpenTotal(S) = Sum(S) /\ Sum(S) \in Nat
  <2>1. IsFiniteSet(S)
    BY <1>1, <1>2, TableIsFinite
  <2>2. \A l \in S : open[l] \in Nat
    BY <1>3
  <2> HIDE DEF open
  <2>3. Sum(S) \in Nat
    BY <2>1, <2>2, SumNat
  <2> QED
    BY <2>1, <2>3 DEF OpenTotal, open
<1>5. ASSUME NEW l \in chosen
      PROVE  share[l] = LET left == amount - Sum(Before(l))
                        IN  IF left <= 0 THEN 0 ELSE Smaller(left, open[l])
  BY <1>2, <1>3, <1>4 DEF Share
<1> HIDE DEF open
<1>6. ASSUME NEW l \in chosen PROVE share[l] \in Nat /\ share[l] <= OpenUnits(l)
  <2>1. Sum(Before(l)) \in Nat
    BY <1>4
  <2> DEFINE P == Sum(Before(l))
  <2>2. share[l] = LET left == amount - P IN IF left <= 0 THEN 0 ELSE Smaller(left, open[l])
    BY <1>5
  <2>3. P \in Nat /\ open[l] \in Nat /\ open[l] = OpenUnits(l)
    BY <1>3, <2>1
  <2> HIDE DEF P
  <2> QED
    BY <2>2, <2>3 DEF Smaller
<1> DEFINE T == {m \in Nat : SumFunctionOnSet(share, Before(m + 1)) = Smaller(amount, Sum(Before(m + 1)))}
<1>7. 0 \in T
  <2>1. Before(0 + 1) = {}
    BY <1>2
  <2>2. SumFunctionOnSet(share, {}) = 0 /\ Sum({}) = 0 /\ Smaller(amount, 0) = 0
    BY SumEmpty DEF Smaller
  <2> QED
    BY <2>1, <2>2
<1>8. ASSUME NEW m \in Nat, m \in T PROVE m + 1 \in T
  <2> DEFINE l == m + 1
             A == Before(l)
             P == Sum(A)
  <2>1. SumFunctionOnSet(share, A) = Smaller(amount, P) /\ P \in Nat /\ IsFiniteSet(A)
    BY <1>4, <1>8
  <2>2. CASE l \notin chosen
    <3>1. Before(l + 1) = A
      BY <1>2, <2>2
    <3> QED
      BY <2>1, <3>1
  <2>3. CASE l \in chosen
    <3>1. Before(l + 1) = A \union {l} /\ l \notin A
      BY <1>2, <2>3
    <3>2. /\ share[l] = LET left == amount - P IN IF left <= 0 THEN 0 ELSE Smaller(left, open[l])
          /\ share[l] \in Nat /\ open[l] \in Nat
      BY <1>3, <1>5, <1>6, <2>3
    <3>3. \A x \in A : share[x] \in Int /\ open[x] \in Int
      BY <1>3, <1>6
    <3> HIDE DEF l, A
    <3>4. SumFunctionOnSet(share, A \union {l}) = SumFunctionOnSet(share, A) + share[l]
      BY <2>1, <3>1, <3>2, <3>3, SumAdded
    <3>5. Sum(A \union {l}) = Sum(A) + open[l]
      BY <2>1, <3>1, <3>2, <3>3, SumAdded
    <3>6. Smaller(amount, P) + share[l] = Smaller(amount, P + open[l])
      <4> DEFINE s == share[l]
                 o == open[l]
      <4>1. s = (IF amount - P <= 0 THEN 0 ELSE Smaller(amount - P, o)) /\ s \in Nat /\ o \in Nat /\ P \in Nat
        BY <2>1, <3>2
      <4> HIDE DEF s, o, P
      <4>2. Smaller(amount, P) + s = Smaller(amount, P + o)
        BY <4>1 DEF Smaller
      <4> QED
        BY <4>2 DEF s, o
    <3> QED
      BY <2>1, <3>1, <3>4, <3>5, <3>6 DEF l
  <2> QED
    BY <2>2, <2>3
<1> HIDE DEF T
<1>9. Len(lines) \in T
  BY <1>2, <1>7, <1>8, NatSetInduction
<1>10. Before(Len(lines) + 1) = chosen
  BY <1>2
<1>11. SumFunctionOnSet(share, chosen) = Smaller(amount, Sum(chosen))
  BY <1>9, <1>10 DEF T
<1>12. Sum(chosen) \in Nat /\ amount <= Sum(chosen)
  BY <1>4
<1>13. Smaller(amount, Sum(chosen)) = amount
  BY <1>12 DEF Smaller
<1> QED
  BY <1>6, <1>11, <1>13

(* Applying an amount to chosen charges takes exactly it off what is open,    *)
(* and changes no other column.                                              *)
LEMMA AmountIsApplied ==
  ASSUME TypeOK, Anchored, NEW chosen \in SUBSET ChargedLines, NEW amount \in Nat,
         amount <= OpenTotal(chosen), NEW rows, rows = Applied(chosen, amount)
  PROVE  /\ rows \in Seq(Line) /\ Len(rows) = Len(lines) /\ DOMAIN rows = DOMAIN lines
         /\ \A l \in DOMAIN lines : /\ rows[l].invoice = lines[l].invoice
                                    /\ rows[l].totals = lines[l].totals
                                    /\ rows[l].units = lines[l].units
                                    /\ rows[l].credit = lines[l].credit
                                    /\ Sound(rows[l])
         /\ UnitsOf(rows) = UnitsOf(lines)
         /\ \A S \in SUBSET DOMAIN lines : chosen \subseteq S =>
              SumFunctionOnSet(AppliedOf(rows), S) = SumFunctionOnSet(AppliedOf(lines), S) + amount
         /\ \A S \in SUBSET DOMAIN lines : S \intersect chosen = {} =>
              SumFunctionOnSet(AppliedOf(rows), S) = SumFunctionOnSet(AppliedOf(lines), S)
         /\ \A s \in Totals : /\ AppliedTo(rows, s) = AppliedTo(lines, s) + TakenFrom(s, chosen, amount)
                              /\ TakenFrom(s, chosen, amount) \in Nat
<1> DEFINE share == [l \in DOMAIN lines |-> Share(l, chosen, amount)]
           given == [l \in DOMAIN lines |-> IF l \in chosen THEN share[l] ELSE 0]
           f == AppliedOf(lines)
           h == AppliedOf(rows)
<1>1. lines \in Seq(Line) /\ DOMAIN lines = 1..Len(lines) /\ Len(lines) \in Nat
      /\ chosen \in SUBSET DOMAIN lines
  BY Types DEF ChargedLines
<1>2. /\ \A l \in chosen : share[l] \in Nat /\ share[l] <= OpenUnits(l)
      /\ SumFunctionOnSet(share, chosen) = amount
  BY SharesAddUp
<1>3. /\ DOMAIN rows = DOMAIN lines
      /\ \A l \in DOMAIN lines : l \notin chosen => rows[l] = lines[l]
      /\ \A l \in chosen : rows[l] = [lines[l] EXCEPT !.applied = @ + share[l]]
  BY <1>1 DEF Applied
<1>4. \A l \in DOMAIN lines : given[l] = IF l \in chosen THEN share[l] ELSE 0
  OBVIOUS
<1> HIDE DEF share, given
<1>5. ASSUME NEW l \in DOMAIN lines
      PROVE  /\ rows[l] \in Line /\ Sound(rows[l])
             /\ rows[l].invoice = lines[l].invoice /\ rows[l].units = lines[l].units
             /\ rows[l].totals = lines[l].totals
             /\ rows[l].credit = lines[l].credit /\ rows[l].applied = lines[l].applied + given[l]
             /\ lines[l].applied \in Nat /\ given[l] \in Nat
  <2>1. lines[l] \in Line /\ Sound(lines[l])
    BY <1>1 DEF Anchored
  <2>2. CASE l \notin chosen
    <3>1. rows[l] = lines[l] /\ given[l] = 0
      BY <1>3, <1>4, <2>2
    <3> QED
      BY <2>1, <3>1 DEF Line
  <2>3. CASE l \in chosen
    <3>1. OpenUnits(l) \in Nat /\ lines[l].units > 0
      BY <2>3, OpenIsNat DEF ChargedLines
    <3>2. rows[l] = [lines[l] EXCEPT !.applied = @ + share[l]] /\ given[l] = share[l]
          /\ share[l] \in Nat /\ share[l] <= OpenUnits(l)
      BY <1>2, <1>3, <1>4, <2>3
    <3> QED
      BY <2>1, <3>1, <3>2 DEF Line, Sound, OpenUnits
  <2> QED
    BY <2>2, <2>3
<1>6. rows \in Seq(Line) /\ Len(rows) = Len(lines)
  <2> DEFINE g == [l \in 1..Len(lines) |-> rows[l]]
  <2>1. rows = g /\ g \in [1..Len(lines) -> Line]
    <3>1. rows = [l \in DOMAIN lines |-> rows[l]]
      BY DEF Applied
    <3> QED
      BY <1>1, <1>5, <3>1
  <2> HIDE DEF g
  <2> QED
    BY <1>1, <2>1
<1>7. UnitsOf(rows) = UnitsOf(lines)
  BY <1>3, <1>5 DEF UnitsOf
<1>8. \A l \in DOMAIN lines : f[l] = lines[l].applied /\ h[l] = rows[l].applied
  BY <1>3, Columns
<1>9. \A l \in DOMAIN lines : f[l] \in Int /\ given[l] \in Int /\ h[l] = f[l] + given[l]
  BY <1>5, <1>8
<1> HIDE DEF f, h
<1>10. ASSUME NEW S \in SUBSET DOMAIN lines
       PROVE  IsFiniteSet(S) /\ SumFunctionOnSet(f, S) \in Int
              /\ SumFunctionOnSet(h, S) = SumFunctionOnSet(f, S) + SumFunctionOnSet(given, S)
  <2>1. IsFiniteSet(S)
    BY <1>1, TableIsFinite
  <2>2. \A l \in S : f[l] \in Int /\ given[l] \in Int /\ h[l] = f[l] + given[l]
    BY <1>9
  <2>3. SumFunctionOnSet(f, S) \in Int
    BY <2>1, <2>2, SumType
  <2> QED
    BY <2>1, <2>2, <2>3, SumPlus
<1>11. ASSUME NEW S \in SUBSET DOMAIN lines, chosen \subseteq S
       PROVE  SumFunctionOnSet(given, S) = amount
  <2>1. IsFiniteSet(S) /\ IsFiniteSet(chosen)
    BY <1>1, <1>10
  <2>2. (\A l \in chosen : given[l] \in Int /\ share[l] = given[l]) /\ \A l \in S \ chosen : given[l] = 0
    BY <1>1, <1>4, <1>9
  <2>3. SumFunctionOnSet(given, S) = SumFunctionOnSet(given, chosen)
    BY <1>11, <2>1, <2>2, SumSupport
  <2>4. SumFunctionOnSet(share, chosen) = SumFunctionOnSet(given, chosen)
    BY <2>1, <2>2, SumEqual
  <2> QED
    BY <1>2, <2>3, <2>4
<1>12. ASSUME NEW S \in SUBSET DOMAIN lines, S \intersect chosen = {}
       PROVE  SumFunctionOnSet(given, S) = 0
  <2>1. \A l \in S : given[l] = 0
    BY <1>4, <1>12
  <2> QED
    BY <1>10, <2>1, SumZero
<1>13. \A S \in SUBSET DOMAIN lines : chosen \subseteq S =>
         SumFunctionOnSet(h, S) = SumFunctionOnSet(f, S) + amount
  BY <1>10, <1>11
<1>14. \A S \in SUBSET DOMAIN lines : S \intersect chosen = {} =>
         SumFunctionOnSet(h, S) = SumFunctionOnSet(f, S)
  BY <1>10, <1>12
<1>15. ASSUME NEW s \in Totals
       PROVE  /\ AppliedTo(rows, s) = AppliedTo(lines, s) + TakenFrom(s, chosen, amount)
              /\ TakenFrom(s, chosen, amount) \in Nat
  <2> DEFINE S == CountedIn(lines, s)
             A == chosen \intersect S
  <2>1. S \in SUBSET DOMAIN lines /\ CountedIn(rows, s) = S /\ A \in SUBSET S
    BY <1>3, <1>5 DEF CountedIn
  <2>2. IsFiniteSet(S) /\ IsFiniteSet(A)
    BY <1>10, <2>1
  <2>3. TakenFrom(s, chosen, amount) = SumFunctionOnSet(share, A)
    BY DEF TakenFrom, share
  <2>4. (\A l \in A : share[l] \in Nat /\ given[l] \in Int /\ share[l] = given[l]) /\ \A l \in S \ A : given[l] = 0
    BY <1>1, <1>2, <1>4, <1>9, <2>1
  <2> HIDE DEF S, A
  <2>5. SumFunctionOnSet(given, S) = SumFunctionOnSet(given, A)
    BY <2>1, <2>2, <2>4, SumSupport
  <2>6. SumFunctionOnSet(share, A) = SumFunctionOnSet(given, A)
    BY <2>2, <2>4, SumEqual
  <2>7. SumFunctionOnSet(share, A) \in Nat
    BY <2>2, <2>4, SumNat
  <2>8. SumFunctionOnSet(h, S) = SumFunctionOnSet(f, S) + SumFunctionOnSet(given, S)
    BY <1>10, <2>1
  <2> QED
    BY <2>1, <2>3, <2>5, <2>6, <2>7, <2>8 DEF AppliedTo, S, f, h
<1> QED
  BY <1>3, <1>5, <1>6, <1>7, <1>13, <1>14, <1>15 DEF f, h

-----------------------------------------------------------------------------
(* The table got new lines, to which nothing has been applied.               *)
Extends(rows, longer, new) ==
  /\ rows \in Seq(Line) /\ longer \in Seq(Line) /\ IsFiniteSet(new)
  /\ DOMAIN longer = DOMAIN rows \union new /\ DOMAIN rows \intersect new = {}
  /\ \A l \in DOMAIN rows : longer[l] = rows[l]
  /\ \A l \in new : longer[l].applied = 0

(* New lines at the end of the table leave the sums of the others alone.      *)
LEMMA SumsExtend ==
  ASSUME NEW rows, NEW longer, NEW new, Extends(rows, longer, new), NEW S \in SUBSET DOMAIN rows
  PROVE  /\ SumFunctionOnSet(UnitsOf(longer), new) \in Int
         /\ SumFunctionOnSet(UnitsOf(rows), S) \in Int
         /\ SumFunctionOnSet(UnitsOf(longer), S) = SumFunctionOnSet(UnitsOf(rows), S)
         /\ SumFunctionOnSet(UnitsOf(longer), S \union new)
              = SumFunctionOnSet(UnitsOf(rows), S) + SumFunctionOnSet(UnitsOf(longer), new)
         /\ SumFunctionOnSet(AppliedOf(longer), S) = SumFunctionOnSet(AppliedOf(rows), S)
         /\ SumFunctionOnSet(AppliedOf(longer), S \union new) = SumFunctionOnSet(AppliedOf(rows), S)
<1> DEFINE f == UnitsOf(rows)
           g == UnitsOf(longer)
           a == AppliedOf(rows)
           b == AppliedOf(longer)
<1>0. /\ rows \in Seq(Line) /\ longer \in Seq(Line) /\ IsFiniteSet(new)
      /\ DOMAIN longer = DOMAIN rows \union new /\ DOMAIN rows \intersect new = {}
      /\ \A l \in DOMAIN rows : longer[l] = rows[l]
      /\ \A l \in new : longer[l].applied = 0
  BY DEF Extends
<1>1. /\ \A l \in S : f[l] = rows[l].units /\ a[l] = rows[l].applied
      /\ \A l \in S \union new : g[l] = longer[l].units /\ b[l] = longer[l].applied
  BY <1>0, Columns
<1>2. \A l \in S \union new : longer[l] \in Line /\ l \in DOMAIN longer
  BY <1>0, TableIsFinite
<1>3. /\ \A l \in S \union new : g[l] \in Int /\ b[l] \in Int
      /\ \A l \in S : f[l] = g[l] /\ a[l] = b[l]
      /\ \A l \in new : b[l] = 0
  BY <1>0, <1>1, <1>2 DEF Line
<1>4. IsFiniteSet(S) /\ S \intersect new = {}
  BY <1>0, TableIsFinite
<1>5. /\ SumFunctionOnSet(f, S) \in Int /\ SumFunctionOnSet(a, S) \in Int
  BY <1>0, LineSums
<1> HIDE DEF f, g, a, b
<1>6. SumFunctionOnSet(f, S) = SumFunctionOnSet(g, S)
  BY <1>3, <1>4, SumEqual
<1>7. SumFunctionOnSet(a, S) = SumFunctionOnSet(b, S)
  BY <1>3, <1>4, SumEqual
<1>8. SumFunctionOnSet(g, S \union new) = SumFunctionOnSet(g, S) + SumFunctionOnSet(g, new)
  BY <1>0, <1>3, <1>4, SumUnion
<1>9. SumFunctionOnSet(b, S \union new) = SumFunctionOnSet(b, S) + SumFunctionOnSet(b, new)
  BY <1>0, <1>3, <1>4, SumUnion
<1>10. SumFunctionOnSet(b, new) = 0
  BY <1>0, <1>3, SumZero
<1>11. SumFunctionOnSet(g, new) \in Int
  BY <1>0, <1>3, SumType
<1>12. SumFunctionOnSet(b, S \union new) = SumFunctionOnSet(a, S)
  BY <1>5, <1>7, <1>9, <1>10
<1> QED
  BY <1>5, <1>6, <1>7, <1>8, <1>11, <1>12 DEF f, g, a, b

(* No change of any total, and what an amount takes from each.                *)
Nothing == [s \in Totals |-> 0]
Taken(chosen, amount) == [s \in Totals |-> TakenFrom(s, chosen, amount)]

(* What happens to the table adds dt to the total of invoice i and dp to what *)
(* is paid of it, applies da of each total, and puts du more of its usage on  *)
(* lines.                                                                    *)
Effect(i, rows, changed, dt, dp, da, du) ==
  /\ \A j, t, p : j # i /\ Itemized(rows, j, t, p) => Itemized(changed, j, t, p)
  /\ \A t, p \in Int : Itemized(rows, i, t, p) => Itemized(changed, i, t + dt, p + dp)
  /\ \A s \in Totals : /\ AppliedTo(changed, s) = AppliedTo(rows, s) + da[s]
                       /\ UsageOf(changed, s) = UsageOf(rows, s) + du[s]

(* The totals of the table are numbers.                                      *)
LEMMA TableSums ==
  ASSUME NEW rows \in Seq(Line), NEW s \in Totals
  PROVE  AppliedTo(rows, s) \in Int /\ UsageOf(rows, s) \in Int
<1>1. CountedIn(rows, s) \in SUBSET DOMAIN rows /\ PlainIn(rows, s) \in SUBSET DOMAIN rows
  BY DEF CountedIn, PlainIn
<1> QED
  BY <1>1, LineSums DEF AppliedTo, UsageOf

(* Those of the new lines that count in total s.                              *)
NewIn(longer, new, s) == {l \in new : s \in longer[l].totals}

(* The units the new lines bring to each total.                              *)
Brought(longer, new) == [s \in Totals |-> SumFunctionOnSet(UnitsOf(longer), NewIn(longer, new, s))]

(* New lines change the invoice they are of, and the sum of all by theirs.    *)
LEMMA ItemsExtend ==
  ASSUME NEW rows, NEW longer, NEW new, Extends(rows, longer, new), NEW i, NEW c \in BOOLEAN,
         \A l \in new : longer[l].invoice = i /\ longer[l].credit = c,
         NEW u, u = SumFunctionOnSet(UnitsOf(longer), new)
  PROVE  /\ c => Effect(i, rows, longer, u, u, Nothing, Nothing)
         /\ ~c => Effect(i, rows, longer, u, 0, Nothing, Brought(longer, new))
<1> DEFINE du == Brought(longer, new)
<1>0. /\ DOMAIN longer = DOMAIN rows \union new /\ DOMAIN rows \intersect new = {}
      /\ \A l \in DOMAIN rows : longer[l] = rows[l]
      /\ rows \in Seq(Line) /\ longer \in Seq(Line) /\ IsFiniteSet(new)
      /\ \A l \in new : longer[l].applied = 0
  BY DEF Extends
<1>1. ASSUME NEW S \in SUBSET DOMAIN rows
      PROVE  /\ u \in Int
             /\ SumFunctionOnSet(UnitsOf(rows), S) \in Int
             /\ SumFunctionOnSet(UnitsOf(longer), S) = SumFunctionOnSet(UnitsOf(rows), S)
             /\ SumFunctionOnSet(UnitsOf(longer), S \union new) = SumFunctionOnSet(UnitsOf(rows), S) + u
             /\ SumFunctionOnSet(AppliedOf(longer), S) = SumFunctionOnSet(AppliedOf(rows), S)
             /\ SumFunctionOnSet(AppliedOf(longer), S \union new) = SumFunctionOnSet(AppliedOf(rows), S)
  <2>1. /\ SumFunctionOnSet(UnitsOf(longer), new) \in Int
        /\ SumFunctionOnSet(UnitsOf(rows), S) \in Int
        /\ SumFunctionOnSet(UnitsOf(longer), S) = SumFunctionOnSet(UnitsOf(rows), S)
        /\ SumFunctionOnSet(UnitsOf(longer), S \union new)
             = SumFunctionOnSet(UnitsOf(rows), S) + SumFunctionOnSet(UnitsOf(longer), new)
        /\ SumFunctionOnSet(AppliedOf(longer), S) = SumFunctionOnSet(AppliedOf(rows), S)
        /\ SumFunctionOnSet(AppliedOf(longer), S \union new) = SumFunctionOnSet(AppliedOf(rows), S)
    BY SumsExtend
  <2> QED
    BY <2>1
<1>2. \A j : Own(rows, j) \in SUBSET DOMAIN rows /\ CreditsOf(rows, j) \in SUBSET DOMAIN rows
  BY DEF Own, CreditsOf
<1>3. \A j : j # i => Own(longer, j) = Own(rows, j) /\ CreditsOf(longer, j) = CreditsOf(rows, j)
  BY <1>0 DEF Own, CreditsOf
<1>4. Own(longer, i) = Own(rows, i) \union new
  BY <1>0 DEF Own
<1>5. CreditsOf(longer, i) = IF c THEN CreditsOf(rows, i) \union new ELSE CreditsOf(rows, i)
  BY <1>0 DEF Own, CreditsOf
<1>7. ASSUME NEW j, NEW t, NEW p, j # i, Itemized(rows, j, t, p) PROVE Itemized(longer, j, t, p)
  <2>1. /\ SumFunctionOnSet(UnitsOf(longer), Own(rows, j)) = SumFunctionOnSet(UnitsOf(rows), Own(rows, j))
        /\ SumFunctionOnSet(AppliedOf(longer), Own(rows, j)) = SumFunctionOnSet(AppliedOf(rows), Own(rows, j))
        /\ SumFunctionOnSet(UnitsOf(longer), CreditsOf(rows, j)) = SumFunctionOnSet(UnitsOf(rows), CreditsOf(rows, j))
    BY <1>1, <1>2
  <2>2. Own(longer, j) = Own(rows, j) /\ CreditsOf(longer, j) = CreditsOf(rows, j)
    BY <1>3, <1>7
  <2> QED
    BY <1>7, <2>1, <2>2 DEF Itemized
<1>8. ASSUME NEW t \in Int, NEW p \in Int, Itemized(rows, i, t, p), NEW q \in Int,
             q = p + (IF c THEN u ELSE 0)
      PROVE  Itemized(longer, i, t + u, q)
  <2> DEFINE o == SumFunctionOnSet(UnitsOf(rows), CreditsOf(rows, i))
             w == SumFunctionOnSet(UnitsOf(longer), CreditsOf(longer, i))
  <2>1. SumFunctionOnSet(UnitsOf(longer), Own(longer, i)) = t + u
    BY <1>1, <1>2, <1>4, <1>8 DEF Itemized
  <2>2. SumFunctionOnSet(AppliedOf(longer), Own(longer, i)) = p - o
    BY <1>1, <1>2, <1>4, <1>8 DEF Itemized
  <2>3. o \in Int /\ u \in Int
    BY <1>1, <1>2
  <2>4. w = IF c THEN o + u ELSE o
    BY <1>1, <1>2, <1>5
  <2> HIDE DEF o, w
  <2>5. q - w = p - o
    BY <1>8, <2>3, <2>4
  <2> QED
    BY <2>1, <2>2, <2>5 DEF Itemized, w
<1>9. u \in Int
  BY <1>1, <1>2
<1>10. ASSUME NEW s \in Totals
       PROVE  /\ AppliedTo(longer, s) = AppliedTo(rows, s) + 0
              /\ UsageOf(longer, s) = UsageOf(rows, s) + (IF c THEN 0 ELSE du[s])
  <2> DEFINE S == CountedIn(rows, s)
             P == PlainIn(rows, s)
             N == NewIn(longer, new, s)
             f == UnitsOf(longer)
             a == AppliedOf(longer)
  <2>1. /\ CountedIn(longer, s) = S \union N /\ S \intersect N = {} /\ P \intersect N = {}
        /\ S \in SUBSET DOMAIN rows /\ P \in SUBSET DOMAIN rows /\ N \in SUBSET new
        /\ PlainIn(longer, s) = IF c THEN P ELSE P \union N
    BY <1>0 DEF CountedIn, PlainIn, NewIn
  <2>2. IsFiniteSet(S) /\ IsFiniteSet(P) /\ IsFiniteSet(N)
    BY <1>0, <2>1, LineSums, FS_Subset
  <2>3. (\A l \in DOMAIN longer : f[l] \in Int /\ a[l] \in Int) /\ \A l \in N : a[l] = 0
    <3>1. \A l \in DOMAIN longer : longer[l] \in Line
      BY <1>0, TableIsFinite
    <3>2. \A l \in DOMAIN longer : longer[l].units \in Int /\ longer[l].applied \in Int
      BY <3>1 DEF Line
    <3> QED
      BY <1>0, <2>1, <3>2, Columns
  <2>4. SumFunctionOnSet(f, P) = SumFunctionOnSet(UnitsOf(rows), P)
        /\ SumFunctionOnSet(a, S) = SumFunctionOnSet(AppliedOf(rows), S)
    BY <1>1, <2>1
  <2>5. AppliedTo(rows, s) \in Int /\ UsageOf(rows, s) \in Int
    BY <1>0, TableSums
  <2>6. du[s] = SumFunctionOnSet(f, N)
    BY DEF Brought
  <2>7. UsageOf(rows, s) = SumFunctionOnSet(UnitsOf(rows), P) /\ AppliedTo(rows, s) = SumFunctionOnSet(AppliedOf(rows), S)
    BY DEF UsageOf, AppliedTo
  <2>8. UsageOf(longer, s) = SumFunctionOnSet(f, IF c THEN P ELSE P \union N)
        /\ AppliedTo(longer, s) = SumFunctionOnSet(a, S \union N)
    BY <2>1 DEF UsageOf, AppliedTo
  <2>9. N \in SUBSET DOMAIN longer /\ S \in SUBSET DOMAIN longer /\ P \in SUBSET DOMAIN longer
    BY <1>0, <2>1
  <2> HIDE DEF S, P, N, f, a
  <2>10. SumFunctionOnSet(f, P \union N) = SumFunctionOnSet(f, P) + SumFunctionOnSet(f, N)
    BY <2>1, <2>2, <2>3, <2>9, SumUnion
  <2>11. SumFunctionOnSet(a, S \union N) = SumFunctionOnSet(a, S) + SumFunctionOnSet(a, N)
    BY <2>1, <2>2, <2>3, <2>9, SumUnion
  <2>12. SumFunctionOnSet(a, N) = 0
    BY <2>2, <2>3, SumZero
  <2>13. AppliedTo(longer, s) = AppliedTo(rows, s) + 0
    BY <2>4, <2>5, <2>7, <2>8, <2>11, <2>12
  <2>14. CASE c
    BY <2>4, <2>5, <2>7, <2>8, <2>13, <2>14
  <2>15. CASE ~c
    BY <2>4, <2>6, <2>7, <2>8, <2>10, <2>13, <2>15
  <2> QED
    BY <2>14, <2>15
<1>11. CASE c
  <2>1. ASSUME NEW t \in Int, NEW p \in Int, Itemized(rows, i, t, p) PROVE Itemized(longer, i, t + u, p + u)
    BY <1>8, <1>9, <1>11, <2>1
  <2>2. \A s \in Totals : AppliedTo(longer, s) = AppliedTo(rows, s) + Nothing[s]
                          /\ UsageOf(longer, s) = UsageOf(rows, s) + Nothing[s]
    BY <1>10, <1>11 DEF Nothing
  <2> QED
    BY <1>7, <1>11, <2>1, <2>2 DEF Effect
<1>12. CASE ~c
  <2>1. ASSUME NEW t \in Int, NEW p \in Int, Itemized(rows, i, t, p) PROVE Itemized(longer, i, t + u, p + 0)
    BY <1>8, <1>9, <1>12, <2>1
  <2>2. \A s \in Totals : AppliedTo(longer, s) = AppliedTo(rows, s) + Nothing[s]
                          /\ UsageOf(longer, s) = UsageOf(rows, s) + du[s]
    BY <1>10, <1>12 DEF Nothing
  <2> QED
    BY <1>7, <1>12, <2>1, <2>2 DEF Effect
<1> QED
  BY <1>11, <1>12

(* An amount that can be applied to chosen charges of an invoice.             *)
CanApply(i, chosen, amount) ==
  chosen \subseteq Eligible(i) /\ amount \in Nat /\ amount <= OpenTotal(chosen)

(* An amount applied to charges of an invoice is paid on this invoice.        *)
LEMMA ItemsApplied ==
  ASSUME TypeOK, Anchored, NEW i, NEW chosen, NEW amount, CanApply(i, chosen, amount)
  PROVE  Effect(i, lines, Applied(chosen, amount), 0, amount, Taken(chosen, amount), Nothing)
<1> DEFINE rows == Applied(chosen, amount)
<1>0. rows = Applied(chosen, amount) /\ chosen \in SUBSET Eligible(i) /\ amount \in Nat /\ amount <= OpenTotal(chosen)
  BY DEF CanApply
<1> HIDE DEF rows
<1>1. chosen \in SUBSET ChargedLines /\ chosen \subseteq Own(lines, i) /\ lines \in Seq(Line)
  BY <1>0, Types DEF Eligible, ChargedLines, Own
<1>2. /\ DOMAIN rows = DOMAIN lines
      /\ \A l \in DOMAIN lines : /\ rows[l].invoice = lines[l].invoice
                                 /\ rows[l].totals = lines[l].totals
                                 /\ rows[l].credit = lines[l].credit
      /\ UnitsOf(rows) = UnitsOf(lines)
  BY <1>0, <1>1, AmountIsApplied
<1>3. \A S \in SUBSET DOMAIN lines : chosen \subseteq S =>
        SumFunctionOnSet(AppliedOf(rows), S) = SumFunctionOnSet(AppliedOf(lines), S) + amount
  BY <1>0, <1>1, AmountIsApplied
<1>4. \A S \in SUBSET DOMAIN lines : S \intersect chosen = {} =>
        SumFunctionOnSet(AppliedOf(rows), S) = SumFunctionOnSet(AppliedOf(lines), S)
  BY <1>0, <1>1, AmountIsApplied
<1>5. \A j : /\ Own(rows, j) = Own(lines, j) /\ CreditsOf(rows, j) = CreditsOf(lines, j)
             /\ Own(lines, j) \in SUBSET DOMAIN lines /\ CreditsOf(lines, j) \in SUBSET DOMAIN lines
             /\ j # i => Own(lines, j) \intersect chosen = {}
  BY <1>1, <1>2 DEF Own, CreditsOf
<1>6. ASSUME NEW j, NEW t, NEW p, j # i, Itemized(lines, j, t, p) PROVE Itemized(rows, j, t, p)
  <2>1. SumFunctionOnSet(AppliedOf(rows), Own(lines, j)) = SumFunctionOnSet(AppliedOf(lines), Own(lines, j))
    BY <1>4, <1>5, <1>6
  <2> QED
    BY <1>2, <1>5, <1>6, <2>1 DEF Itemized
<1>7. ASSUME NEW t \in Int, NEW p \in Int, Itemized(lines, i, t, p) PROVE Itemized(rows, i, t, p + amount)
  <2> DEFINE o == SumFunctionOnSet(UnitsOf(lines), CreditsOf(lines, i))
  <2>1. SumFunctionOnSet(AppliedOf(rows), Own(lines, i)) = SumFunctionOnSet(AppliedOf(lines), Own(lines, i)) + amount
    BY <1>1, <1>3, <1>5
  <2>2. o \in Int
    BY <1>1, <1>5, LineSums
  <2>3. SumFunctionOnSet(AppliedOf(lines), Own(lines, i)) = p - o
    BY <1>7 DEF Itemized
  <2>4. SumFunctionOnSet(UnitsOf(rows), CreditsOf(rows, i)) = o
    BY <1>2, <1>5
  <2> HIDE DEF o
  <2>5. p + amount - o = p - o + amount
    BY <1>0, <2>2
  <2>6. SumFunctionOnSet(AppliedOf(rows), Own(rows, i)) = p + amount - o
    BY <1>5, <2>1, <2>3, <2>5
  <2>7. t = SumFunctionOnSet(UnitsOf(rows), Own(rows, i))
    BY <1>2, <1>5, <1>7 DEF Itemized
  <2> QED
    BY <1>0, <2>2, <2>4, <2>6, <2>7 DEF Itemized
<1>8. \A s \in Totals : AppliedTo(rows, s) = AppliedTo(lines, s) + Taken(chosen, amount)[s]
  BY <1>0, <1>1, AmountIsApplied DEF Taken
<1>9. \A s \in Totals : UsageOf(rows, s) = UsageOf(lines, s) + Nothing[s]
  <2> SUFFICES ASSUME NEW s \in Totals PROVE UsageOf(rows, s) = UsageOf(lines, s) + 0
    BY DEF Nothing
  <2>1. PlainIn(rows, s) = PlainIn(lines, s)
    BY <1>2 DEF PlainIn, CountedIn
  <2>2. UsageOf(rows, s) = UsageOf(lines, s)
    BY <1>2, <2>1 DEF UsageOf
  <2> QED
    BY <1>1, <2>2, TableSums
<1>10. \A t, p \in Int : Itemized(lines, i, t, p) => Itemized(rows, i, t + 0, p + amount)
  BY <1>7
<1>12. Effect(i, lines, rows, 0, amount, Taken(chosen, amount), Nothing)
  BY <1>6, <1>8, <1>9, <1>10 DEF Effect
<1> QED
  BY <1>12 DEF rows

(* The line of a credit note.                                                *)
Note(i, amount) == [invoice |-> i, totals |-> {}, units |-> -amount, applied |-> 0, credit |-> TRUE]

(* The lines are sound, and of the invoices they were of, the new ones of i;   *)
(* only credits are new.                                                     *)
StillAnchored(i, changed) ==
  \A l \in DOMAIN changed :
    /\ Sound(changed[l])
    /\ changed[l].invoice = i \/ (l \in DOMAIN lines /\ changed[l].invoice = lines[l].invoice)
    /\ \/ changed[l].credit /\ changed[l].totals = {}
       \/ l \in DOMAIN lines /\ changed[l].credit = lines[l].credit /\ Copies(changed[l], lines[l])

(* A credit note takes the amount off the total, by a line of its own, and    *)
(* off what is open of the lines it credits.                                 *)
LEMMA ItemsCredited ==
  ASSUME TypeOK, Anchored, NEW i \in Nat, NEW chosen, NEW amount, amount > 0, CanApply(i, chosen, amount),
         NEW longer, longer = Append(Applied(chosen, amount), Note(i, amount)), NEW u, u = -amount
  PROVE  /\ longer \in Seq(Line)
         /\ StillAnchored(i, longer)
         /\ Effect(i, lines, longer, u, 0, Taken(chosen, amount), Nothing)
<1> DEFINE rows == Applied(chosen, amount)
           note == Note(i, amount)
           x == Len(rows) + 1
           new == {x}
           c == TRUE
           taken == Taken(chosen, amount)
<1>1. chosen \in SUBSET ChargedLines /\ lines \in Seq(Line) /\ amount \in Nat /\ amount <= OpenTotal(chosen)
  BY Types DEF CanApply, Eligible, ChargedLines
<1>2. rows = Applied(chosen, amount) /\ longer = Append(rows, note)
  OBVIOUS
<1>3. Effect(i, lines, rows, 0, amount, taken, Nothing)
  BY ItemsApplied
<1> HIDE DEF rows
<1>4. /\ rows \in Seq(Line) /\ DOMAIN rows = DOMAIN lines
      /\ \A l \in DOMAIN lines : rows[l].invoice = lines[l].invoice /\ Sound(rows[l])
      /\ \A l \in DOMAIN lines : rows[l].credit = lines[l].credit /\ Copies(rows[l], lines[l])
  <2>1. /\ rows \in Seq(Line) /\ DOMAIN rows = DOMAIN lines
        /\ \A l \in DOMAIN lines : /\ rows[l].invoice = lines[l].invoice
                                   /\ rows[l].totals = lines[l].totals
                                   /\ rows[l].units = lines[l].units
                                   /\ rows[l].credit = lines[l].credit
                                   /\ Sound(rows[l])
    BY <1>1, <1>2, AmountIsApplied
  <2> QED
    BY <2>1 DEF Copies
<1>5. /\ note \in Line /\ Sound(note) /\ note.invoice = i /\ note.units = u /\ note.applied = 0
      /\ note.credit = c /\ c \in BOOLEAN /\ c /\ u \in Int /\ note.totals = {}
  BY <1>1 DEF Note, Line, Sound
<1> HIDE DEF note, c
<1>6. /\ longer \in Seq(Line) /\ DOMAIN longer = DOMAIN rows \union new
      /\ DOMAIN rows \intersect new = {} /\ longer[x] = note
      /\ \A l \in DOMAIN rows : longer[l] = rows[l]
  <2>1. /\ longer \in Seq(Line) /\ Len(longer) = Len(rows) + 1 /\ longer[Len(rows) + 1] = note
        /\ \A l \in 1..Len(rows) : longer[l] = rows[l]
    BY <1>2, <1>4, <1>5, AppendProperties
  <2>2. Len(rows) \in Nat /\ DOMAIN rows = 1..Len(rows) /\ DOMAIN longer = 1..Len(longer)
    BY <1>4, <2>1
  <2> QED
    BY <2>1, <2>2
<1> HIDE DEF x
<1>7. \A l \in new : longer[l] = note
  BY <1>6
<1>8. IsFiniteSet(new)
  BY FS_Singleton
<1>9. Extends(rows, longer, new) /\ \A l \in new : longer[l].invoice = i /\ longer[l].credit = c
  BY <1>4, <1>5, <1>6, <1>7, <1>8 DEF Extends
<1>10. u = SumFunctionOnSet(UnitsOf(longer), new)
  <2>1. x \in DOMAIN longer /\ longer[x].units = u
    BY <1>5, <1>6
  <2>2. UnitsOf(longer)[x] = u
    BY <2>1, Columns
  <2> QED
    BY <1>5, <2>2, SumSingle
<1>11. Effect(i, rows, longer, u, u, Nothing, Nothing)
  <2> HIDE DEF new
  <2>1. c \in BOOLEAN /\ c
    BY <1>5
  <2>2. Extends(rows, longer, new)
    BY <1>9
  <2>3. \A l \in new : longer[l].invoice = i /\ longer[l].credit = c
    BY <1>9
  <2> QED
    BY <1>10, <2>1, <2>2, <2>3, ItemsExtend
<1>12. ASSUME NEW t \in Int, NEW p \in Int, Itemized(lines, i, t, p) PROVE Itemized(longer, i, t + u, p + 0)
  <2>1. Itemized(rows, i, t + 0, p + amount) /\ p + amount \in Int /\ t + 0 = t
    BY <1>1, <1>3, <1>12 DEF Effect
  <2>2. Itemized(longer, i, t + u, (p + amount) + u)
    BY <1>11, <2>1 DEF Effect
  <2>3. (p + amount) + u = p + 0
    BY <1>1
  <2> QED
    BY <2>2, <2>3
<1>13. \A j, t, p : j # i /\ Itemized(lines, j, t, p) => Itemized(longer, j, t, p)
  BY <1>3, <1>11 DEF Effect
<1>14. ASSUME NEW s \in Totals
       PROVE  /\ AppliedTo(longer, s) = AppliedTo(lines, s) + taken[s]
              /\ UsageOf(longer, s) = UsageOf(lines, s) + Nothing[s]
  <2>1. /\ AppliedTo(rows, s) \in Int /\ UsageOf(rows, s) \in Int
    BY <1>4, TableSums
  <2>2. /\ AppliedTo(rows, s) = AppliedTo(lines, s) + taken[s]
        /\ UsageOf(rows, s) = UsageOf(lines, s) + Nothing[s]
        /\ AppliedTo(longer, s) = AppliedTo(rows, s) + Nothing[s]
        /\ UsageOf(longer, s) = UsageOf(rows, s) + Nothing[s]
        /\ Nothing[s] = 0
    BY <1>3, <1>11 DEF Effect, Nothing
  <2> QED
    BY <2>1, <2>2
<1>15. Effect(i, lines, longer, u, 0, taken, Nothing)
  <2> HIDE DEF taken
  <2> QED
    BY <1>12, <1>13, <1>14 DEF Effect
<1>16. StillAnchored(i, longer)
  <2> SUFFICES ASSUME NEW l \in DOMAIN longer
               PROVE  /\ Sound(longer[l])
                      /\ longer[l].invoice = i \/ (l \in DOMAIN lines /\ longer[l].invoice = lines[l].invoice)
                      /\ \/ longer[l].credit /\ longer[l].totals = {}
                         \/ l \in DOMAIN lines /\ longer[l].credit = lines[l].credit /\ Copies(longer[l], lines[l])
    BY DEF StillAnchored
  <2>1. CASE l \in new
    BY <1>5, <1>7, <2>1
  <2>2. CASE l \in DOMAIN rows
    <3>1. l \in DOMAIN lines /\ longer[l] = rows[l]
      BY <1>4, <1>6, <2>2
    <3>2. Sound(rows[l]) /\ rows[l].invoice = lines[l].invoice
          /\ rows[l].credit = lines[l].credit /\ Copies(rows[l], lines[l])
      BY <1>4, <3>1
    <3> QED
      BY <3>1, <3>2
  <2> QED
    BY <1>6, <2>1, <2>2
<1> QED
  BY <1>6, <1>15, <1>16

-----------------------------------------------------------------------------
(* Arithmetic of a total that follows the journal.                           *)
LEMMA Follows ==
  ASSUME NEW x \in Int, NEW y \in Int, NEW v \in Int, NEW w \in Int, NEW f \in Int, NEW a \in Int, NEW u \in Int,
         x = f - a + v, y = x + u + (w - v)
  PROVE  y = (f + u) - a + w
OBVIOUS

(* A charge or a correction changes the journal and its totals alike.         *)
LEMMA PostingKeeps ==
  ASSUME ItemsInv, NEW e \in Nat, NEW ts \in SUBSET Totals, NEW u \in Int,
         journal' = Append(journal, Entry(e, ts, u)),
         settled' \in [Totals -> Nat], unmet' \in [Totals -> Nat],
         \A s \in Totals : IF s \in ts THEN settled'[s] = settled[s] + u + (unmet'[s] - unmet[s])
                           ELSE settled'[s] = settled[s] /\ unmet'[s] = unmet[s],
         UNCHANGED <<invoices, lines, requests, returns, credits>>
  PROVE  ItemsInv'
<1>1. /\ settled \in [Totals -> Nat] /\ unmet \in [Totals -> Nat] /\ journal \in Seq(Post) /\ lines \in Seq(Line)
      /\ DebtIsAccounted /\ Billed /\ Anchored /\ AllItemized /\ Copied
  BY Types DEF ItemsInv
<1>2. /\ journal' \in Seq(Post) /\ DOMAIN journal \in SUBSET DOMAIN journal'
      /\ \A j \in DOMAIN journal : journal'[j] = journal[j]
      /\ \A s \in Totals : /\ JournalOf(s) \in Int /\ BilledOf(s)' = BilledOf(s)
                           /\ JournalOf(s)' = JournalOf(s) + (IF s \in ts THEN u ELSE 0)
  BY <1>1, Posted
<1>4. TypeOK'
  BY <1>2 DEF ItemsInv, TypeOK, Post
<1>5. ASSUME NEW s \in Totals
      PROVE  settled'[s] = JournalOf(s)' - AppliedTo(lines', s) + unmet'[s]
  <2>1. AppliedTo(lines, s) \in Int /\ lines' = lines
    BY <1>1, TableSums
  <2>2. settled[s] = JournalOf(s) - AppliedTo(lines, s) + unmet[s]
    BY <1>1 DEF DebtIsAccounted, JournalOf, AppliedTo
  <2>3. JournalOf(s)' = JournalOf(s) + (IF s \in ts THEN u ELSE 0) /\ JournalOf(s) \in Int
    BY <1>2
  <2>4. settled[s] \in Nat /\ unmet[s] \in Nat /\ settled'[s] \in Nat /\ unmet'[s] \in Nat
    BY <1>1
  <2>5. IF s \in ts THEN settled'[s] = settled[s] + u + (unmet'[s] - unmet[s])
        ELSE settled'[s] = settled[s] /\ unmet'[s] = unmet[s]
    OBVIOUS
  <2> DEFINE a == AppliedTo(lines, s)
             f == JournalOf(s)
             g == JournalOf(s)'
  <2>6. a \in Int /\ f \in Int /\ settled[s] = f - a + unmet[s] /\ g = f + (IF s \in ts THEN u ELSE 0)
    BY <2>1, <2>2, <2>3
  <2> HIDE DEF a, f, g
  <2>7. settled'[s] = g - a + unmet'[s]
    <3> DEFINE x == settled[s]
               y == settled'[s]
               v == unmet[s]
               w == unmet'[s]
    <3>1. /\ x \in Int /\ y \in Int /\ v \in Int /\ w \in Int /\ x = f - a + v
          /\ IF s \in ts THEN y = x + u + (w - v) ELSE y = x /\ w = v
      BY <2>4, <2>5, <2>6
    <3> HIDE DEF x, y, v, w
    <3>2. ASSUME s \in ts PROVE y = g - a + w
      <4>1. y = x + u + (w - v) /\ x = f - a + v
        BY <3>1, <3>2
      <4>2. y = (f + u) - a + w
        BY <2>6, <3>1, <4>1, Follows
      <4> QED
        BY <2>6, <3>2, <4>2
    <3>3. ASSUME s \notin ts PROVE y = g - a + w
      <4>1. y = x /\ w = v /\ x = f - a + v
        BY <3>1, <3>3
      <4>2. g = f
        BY <2>6, <3>3
      <4> QED
        BY <4>1, <4>2
    <3>4. y = g - a + w
      BY <3>2, <3>3
    <3> QED
      BY <3>4 DEF y, w
  <2> QED
    BY <2>1, <2>7 DEF a, g
<1>5a. DebtIsAccounted'
  BY <1>5 DEF DebtIsAccounted, JournalOf, AppliedTo
<1>6. Billed'
  BY <1>1, <1>2 DEF Billed, UsageOf, PlainIn, CountedIn
<1>7. Anchored' /\ AllItemized'
  BY <1>1 DEF Anchored, AllItemized
<1>8. Copied'
  BY <1>1, <1>2 DEF Copied
<1> QED
  BY <1>4, <1>5a, <1>6, <1>7, <1>8 DEF ItemsInv

(* Each total loses da, the journal stays, and du more of it is invoiced.     *)
TotalsFollow(da, du) ==
  \A s \in Totals : /\ da[s] \in Int /\ settled'[s] = settled[s] - da[s]
                     /\ JournalOf(s)' = JournalOf(s)
                     /\ BilledOf(s)' = BilledOf(s) + du[s]

(* No other invoice changes.                                                 *)
OthersStay(i) == \A j \in DOMAIN invoices' : j # i => j \in DOMAIN invoices /\ invoices'[j] = invoices[j]

(* The lines are sound and of invoices there are.                            *)
AnchoredNext == \A l \in DOMAIN lines' : lines'[l].invoice \in DOMAIN invoices' /\ Sound(lines'[l])

(* Whatever has an effect on the lines keeps the books, if one invoice, the   *)
(* totals and the journal follow.                                            *)
LEMMA BooksFollow ==
  ASSUME ItemsInv, TypeOK', Copied', NEW i \in DOMAIN invoices',
         NEW dt \in Int, NEW dp \in Int, NEW da, NEW du,
         Effect(i, lines, lines', dt, dp, da, du), TotalsFollow(da, du), AnchoredNext, OthersStay(i),
         NEW t \in Int, NEW p \in Int, Itemized(lines, i, t, p),
         invoices'[i].total = t + dt, invoices'[i].paid = p + dp, unmet' = unmet
  PROVE  ItemsInv'
<1>1. /\ settled \in [Totals -> Nat] /\ unmet \in [Totals -> Nat] /\ journal \in Seq(Post) /\ lines \in Seq(Line)
      /\ DebtIsAccounted /\ Billed /\ AllItemized
  BY Types DEF ItemsInv
<1>2. ASSUME NEW s \in Totals
      PROVE  settled'[s] = JournalOf(s)' - AppliedTo(lines', s) + unmet'[s]
  <2>1. AppliedTo(lines, s) \in Int /\ JournalOf(s) \in Int
    <3>1. CountedIn(journal, s) \in SUBSET DOMAIN journal
      BY DEF CountedIn
    <3> QED
      BY <1>1, <3>1, TableSums, JournalSums DEF JournalOf
  <2>2. settled[s] = JournalOf(s) - AppliedTo(lines, s) + unmet[s]
    BY <1>1 DEF DebtIsAccounted, JournalOf, AppliedTo
  <2>3. AppliedTo(lines', s) = AppliedTo(lines, s) + da[s] /\ da[s] \in Int
    BY DEF Effect, TotalsFollow
  <2>4. settled[s] \in Nat /\ unmet[s] \in Nat /\ settled'[s] = settled[s] - da[s]
        /\ JournalOf(s)' = JournalOf(s) /\ unmet'[s] = unmet[s]
    BY <1>1 DEF TotalsFollow
  <2> DEFINE a == AppliedTo(lines, s)
             b == AppliedTo(lines', s)
             f == JournalOf(s)
             d == da[s]
  <2>5. a \in Int /\ f \in Int /\ d \in Int /\ b = a + d /\ settled[s] = f - a + unmet[s]
        /\ settled'[s] = settled[s] - d
    BY <2>1, <2>2, <2>3, <2>4
  <2> HIDE DEF a, b, f, d
  <2>6. settled'[s] = f - b + unmet[s]
    BY <2>4, <2>5
  <2> QED
    BY <2>4, <2>6 DEF f, b
<1>3. DebtIsAccounted'
  BY <1>2 DEF DebtIsAccounted, JournalOf, AppliedTo
<1>4. Billed'
  <2>1. \A s \in Totals : UsageOf(lines', s) = BilledOf(s)'
    BY <1>1 DEF Billed, Effect, TotalsFollow
  <2> QED
    BY <2>1 DEF Billed, UsageOf, PlainIn, CountedIn
<1>5. Anchored'
  BY DEF Anchored, AnchoredNext
<1>6. ASSUME NEW j \in DOMAIN invoices' PROVE Itemized(lines', j, invoices'[j].total, invoices'[j].paid)
  <2>1. CASE j = i
    BY <2>1 DEF Effect
  <2>2. CASE j # i
    <3>1. Itemized(lines, j, invoices[j].total, invoices[j].paid) /\ invoices'[j] = invoices[j]
      BY <1>1, <2>2 DEF AllItemized, OthersStay
    <3> QED
      BY <2>2, <3>1 DEF Effect
  <2> QED
    BY <2>1, <2>2
<1> QED
  BY <1>3, <1>4, <1>5, <1>6 DEF ItemsInv, AllItemized

(* Closing the period adds to one invoice what it adds to the lines.          *)
LEMMA ClosingKeeps ==
  ASSUME ItemsInv, NEW i \in Nat, InsertLines(i), NEW t \in Int, NEW p \in Int, Itemized(lines, i, t, p),
         invoices' \in Seq(Bill), i \in DOMAIN invoices', DOMAIN invoices \subseteq DOMAIN invoices',
         OthersStay(i),
         invoices'[i].total = t + UnbilledUnits, invoices'[i].paid = p,
         UNCHANGED <<settled, requests, unmet, returns, credits>>
  PROVE  ItemsInv'
<1> DEFINE f == UnitsOf(journal)
           g == UnitsOf(lines')
           Late(s) == CountedIn(journal, s) \intersect Unbilled
           du == [s \in Totals |-> SumFunctionOnSet(f, Late(s))]
<1>1. /\ TypeOK /\ settled \in [Totals -> Nat] /\ journal \in Seq(Post) /\ lines \in Seq(Line) /\ Anchored /\ Copied
  BY Types DEF ItemsInv
<1>2. /\ lines' \in Seq(Line) /\ IsFiniteSet(NewLines)
      /\ DOMAIN lines' = DOMAIN lines \union NewLines
      /\ DOMAIN lines \intersect NewLines = {}
      /\ \A l \in DOMAIN lines : lines'[l] = lines[l]
      /\ \A l \in NewLines : /\ lines'[l].invoice = i /\ lines'[l].applied = 0
                             /\ lines'[l].credit = FALSE /\ lines'[l].units \in Int
                             /\ \E j \in Unbilled : Copies(lines'[l], journal[j])
      /\ UnbilledUnits \in Int
  BY <1>1, Inserted
<1>2a. ASSUME NEW h, NEW k, \A l \in NewLines, j \in Unbilled :
                h[j] \in Int /\ (Copies(lines'[l], journal[j]) => k[l] = h[j])
       PROVE  SumFunctionOnSet(k, NewLines) = SumFunctionOnSet(h, Unbilled)
  BY <1>1, <1>2a, Inserted
<1>2b. /\ \A j \in DOMAIN journal : f[j] = journal[j].units /\ f[j] \in Int
       /\ \A l \in NewLines : g[l] = lines'[l].units /\ g[l] \in Int
       /\ Unbilled \in SUBSET DOMAIN journal /\ IsFiniteSet(Unbilled)
  <2>1. \A j \in DOMAIN journal : journal[j] \in Post
    BY <1>1
  <2>2. Unbilled \in SUBSET DOMAIN journal
    BY DEF Unbilled
  <2>3. IsFiniteSet(Unbilled)
    BY <1>1, <2>2, JournalSums
  <2> QED
    BY <1>2, <2>1, <2>2, <2>3, Columns DEF Post
<1>3. Extends(lines, lines', NewLines)
  BY <1>1, <1>2 DEF Extends
<1>3a. SumFunctionOnSet(g, NewLines) = UnbilledUnits
  <2>1. \A l \in NewLines, j \in Unbilled : f[j] \in Int /\ (Copies(lines'[l], journal[j]) => g[l] = f[j])
    BY <1>2b DEF Copies
  <2> HIDE DEF f, g
  <2>2. SumFunctionOnSet(g, NewLines) = SumFunctionOnSet(f, Unbilled)
    BY <1>2a, <2>1
  <2> QED
    BY <2>2 DEF UnbilledUnits, f
<1>3b. ASSUME NEW s \in Totals
       PROVE  du[s] = SumFunctionOnSet(g, NewIn(lines', NewLines, s))
  <2> DEFINE h == [j \in Unbilled |-> IF j \in Late(s) THEN f[j] ELSE 0]
             N == NewIn(lines', NewLines, s)
             k == [l \in NewLines |-> IF l \in N THEN g[l] ELSE 0]
  <2>1. \A l \in NewLines, j \in Unbilled : h[j] \in Int /\ (Copies(lines'[l], journal[j]) => k[l] = h[j])
    <3> SUFFICES ASSUME NEW l \in NewLines, NEW j \in Unbilled
                 PROVE  h[j] \in Int /\ (Copies(lines'[l], journal[j]) => k[l] = h[j])
      OBVIOUS
    <3>1. f[j] \in Int /\ f[j] = journal[j].units /\ g[l] = lines'[l].units
      BY <1>2b
    <3>2. j \in Late(s) <=> s \in journal[j].totals
      BY <1>2b DEF CountedIn
    <3>3. l \in N <=> s \in lines'[l].totals
      BY DEF NewIn
    <3> HIDE DEF N, f, g
    <3> QED
      BY <3>1, <3>2, <3>3 DEF Copies
  <2>2. Late(s) \in SUBSET Unbilled /\ N \in SUBSET NewLines
    BY DEF NewIn
  <2>3. (\A j \in Late(s) : h[j] = f[j] /\ h[j] \in Int) /\ \A j \in Unbilled \ Late(s) : h[j] = 0
    BY <1>2b, <2>2
  <2>4. (\A l \in N : k[l] = g[l] /\ k[l] \in Int) /\ \A l \in NewLines \ N : k[l] = 0
    BY <1>2b, <2>2
  <2>5. IsFiniteSet(Late(s)) /\ IsFiniteSet(N)
    BY <1>2, <1>2b, <2>2, FS_Subset
  <2>6. du[s] = SumFunctionOnSet(f, Late(s))
    OBVIOUS
  <2> DEFINE L == Late(s)
  <2>7. du[s] = SumFunctionOnSet(f, L) /\ L \in SUBSET Unbilled /\ IsFiniteSet(L)
        /\ (\A j \in L : h[j] = f[j] /\ h[j] \in Int) /\ \A j \in Unbilled \ L : h[j] = 0
    BY <2>2, <2>3, <2>5, <2>6
  <2> HIDE DEF f, g, h, k, N, L, du
  <2>8. SumFunctionOnSet(k, NewLines) = SumFunctionOnSet(h, Unbilled)
    BY <1>2a, <2>1
  <2>9. SumFunctionOnSet(k, NewLines) = SumFunctionOnSet(k, N)
    BY <1>2, <2>2, <2>4, SumSupport
  <2>10. SumFunctionOnSet(h, Unbilled) = SumFunctionOnSet(h, L)
    BY <1>2b, <2>7, SumSupport
  <2>11. SumFunctionOnSet(k, N) = SumFunctionOnSet(g, N)
    BY <2>4, <2>5, SumEqual
  <2>12. SumFunctionOnSet(h, L) = SumFunctionOnSet(f, L)
    BY <2>7, SumEqual
  <2> QED
    BY <2>7, <2>8, <2>9, <2>10, <2>11, <2>12 DEF N
<1>4. Effect(i, lines, lines', UnbilledUnits, 0, Nothing, du)
  <2> DEFINE u == UnbilledUnits
             c == FALSE
             longer == lines'
  <2>1. (\A l \in NewLines : longer[l].invoice = i /\ longer[l].credit = c) /\ c \in BOOLEAN /\ ~c
    BY <1>2
  <2>2. u = SumFunctionOnSet(UnitsOf(longer), NewLines) /\ Extends(lines, longer, NewLines)
    BY <1>3, <1>3a
  <2>3. du = Brought(longer, NewLines)
    BY <1>3b DEF Brought
  <2> HIDE DEF u, c, longer, du
  <2>4. Effect(i, lines, longer, u, 0, Nothing, Brought(longer, NewLines))
    BY <2>1, <2>2, ItemsExtend
  <2> QED
    BY <2>3, <2>4 DEF u, longer
<1>5. /\ journal' \in Seq(Post) /\ DOMAIN journal' = DOMAIN journal
      /\ UnitsOf(journal') = UnitsOf(journal) /\ Unbilled' = {}
      /\ \A j \in DOMAIN journal : Copies(journal'[j], journal[j])
      /\ \A s \in Totals : CountedIn(journal', s) = CountedIn(journal, s)
  BY <1>1, AllInvoiced
<1>6. TypeOK'
  BY <1>2, <1>5 DEF ItemsInv, TypeOK, Post, Line, Bill
<1>7. ASSUME NEW s \in Totals
      PROVE  /\ settled'[s] = settled[s] - Nothing[s] /\ JournalOf(s)' = JournalOf(s)
             /\ BilledOf(s)' = BilledOf(s) + du[s]
  <2> DEFINE C == CountedIn(journal, s)
             B == C \ Unbilled
             L == Late(s)
  <2>1. /\ C \in SUBSET DOMAIN journal /\ B \in SUBSET DOMAIN journal /\ L \in SUBSET DOMAIN journal
        /\ C = B \union L /\ B \intersect L = {}
    BY DEF CountedIn
  <2>2. IsFiniteSet(B) /\ IsFiniteSet(L)
    BY <1>1, <2>1, JournalSums
  <2>3. SumFunctionOnSet(f, L) = du[s]
    OBVIOUS
  <2>4. C \ Unbilled' = C
    BY <1>5
  <2>5. JournalOf(s)' = SumFunctionOnSet(f, C) /\ JournalOf(s) = SumFunctionOnSet(f, C)
        /\ BilledOf(s)' = SumFunctionOnSet(f, C) /\ BilledOf(s) = SumFunctionOnSet(f, B)
    BY <1>5, <2>4 DEF JournalOf, BilledOf
  <2>6. settled'[s] = settled[s] - 0
    <3>1. settled[s] \in Nat
      BY <1>1
    <3> QED
      BY <3>1
  <2> HIDE DEF f, C, B, L, du
  <2>7. SumFunctionOnSet(f, B \union L) = SumFunctionOnSet(f, B) + SumFunctionOnSet(f, L)
    BY <1>2b, <2>1, <2>2, SumUnion
  <2> QED
    BY <2>1, <2>3, <2>5, <2>6, <2>7 DEF Nothing
<1>8. AnchoredNext
  <2>1. ASSUME NEW l \in DOMAIN lines' PROVE lines'[l].invoice \in DOMAIN invoices' /\ Sound(lines'[l])
    <3>1. CASE l \in DOMAIN lines
      BY <1>1, <1>2, <3>1 DEF Anchored
    <3>2. CASE l \in NewLines
      BY <1>2, <3>2 DEF Sound
    <3> QED
      BY <1>2, <3>1, <3>2
  <2> QED
    BY <2>1 DEF AnchoredNext
<1>9. unmet' = unmet /\ invoices'[i].paid = p + 0 /\ 0 \in Int
  OBVIOUS
<1>9a. TotalsFollow(Nothing, du)
  <2>1. \A s \in Totals : Nothing[s] \in Int
    BY DEF Nothing
  <2> HIDE DEF du
  <2> QED
    BY <1>7, <2>1 DEF TotalsFollow
<1>10. Copied'
  <2> SUFFICES ASSUME NEW l \in DOMAIN lines'
               PROVE  IF lines'[l].credit THEN lines'[l].totals = {}
                      ELSE \E j \in DOMAIN journal' : Copies(lines'[l], journal'[j])
    BY DEF Copied
  <2>1. CASE l \in NewLines
    <3>1. PICK j \in Unbilled : Copies(lines'[l], journal[j])
      BY <1>2, <2>1
    <3>2. j \in DOMAIN journal /\ ~lines'[l].credit
      BY <1>2, <1>2b, <2>1
    <3> QED
      BY <1>5, <3>1, <3>2 DEF Copies
  <2>2. CASE l \in DOMAIN lines
    <3>1. lines'[l] = lines[l]
      BY <1>2, <2>2
    <3> QED
      BY <1>1, <1>5, <2>2, <3>1 DEF Copied, Copies
  <2> QED
    BY <1>2, <2>1, <2>2
<1>11. UnbilledUnits \in Int
  BY <1>2
<1> DEFINE dt == UnbilledUnits
<1> HIDE DEF dt, du
<1>12. Effect(i, lines, lines', dt, 0, Nothing, du) /\ dt \in Int /\ invoices'[i].total = t + dt
  BY <1>4, <1>11 DEF dt
<1> QED
  BY <1>6, <1>8, <1>9, <1>9a, <1>10, <1>12, BooksFollow

(* An invoice changes in place.                                              *)
LEMMA BillChanges ==
  ASSUME invoices \in Seq(Bill), NEW i \in DOMAIN invoices, NEW inv \in Bill,
         invoices' = [invoices EXCEPT ![i] = inv]
  PROVE  /\ invoices' \in Seq(Bill) /\ DOMAIN invoices' = DOMAIN invoices /\ invoices'[i] = inv
         /\ \A j \in DOMAIN invoices : j # i => invoices'[j] = invoices[j]
<1>1. i \in 1..Len(invoices) /\ DOMAIN invoices = 1..Len(invoices)
  OBVIOUS
<1>2. [invoices EXCEPT ![i] = inv] \in Seq(Bill)
  BY <1>1, ExceptSeq
<1> QED
  BY <1>1, <1>2

(* An amount that can be applied leaves no total below zero, and the journal  *)
(* as it was.                                                                *)
LEMMA TotalsReduced ==
  ASSUME TypeOK, Anchored, NEW i, NEW chosen, NEW amount, CanApply(i, chosen, amount),
         Applicable(chosen, amount), ReduceTotals(chosen, amount), UNCHANGED journal
  PROVE  settled' \in [Totals -> Nat] /\ TotalsFollow(Taken(chosen, amount), Nothing)
<1>1. settled \in [Totals -> Nat] /\ journal \in Seq(Post)
  BY Types
<1>2. chosen \in SUBSET ChargedLines /\ amount \in Nat /\ amount <= OpenTotal(chosen)
  BY DEF CanApply, Eligible, ChargedLines
<1>3. \A s \in Totals : TakenFrom(s, chosen, amount) \in Nat
  <2> DEFINE rows == Applied(chosen, amount)
  <2>1. rows = Applied(chosen, amount)
    OBVIOUS
  <2> HIDE DEF rows
  <2> QED
    BY <1>2, <2>1, AmountIsApplied
<1>4. settled' = [s \in Totals |-> settled[s] - TakenFrom(s, chosen, amount)]
      /\ \A s \in Totals : TakenFrom(s, chosen, amount) <= settled[s]
  BY DEF ReduceTotals, Applicable
<1>5. \A s \in Totals : settled[s] - TakenFrom(s, chosen, amount) \in Nat
  BY <1>1, <1>3, <1>4
<1>6. ASSUME NEW s \in Totals
      PROVE  JournalOf(s)' = JournalOf(s) /\ BilledOf(s)' = BilledOf(s) + Nothing[s]
  <2>1. CountedIn(journal, s) \ Unbilled \in SUBSET DOMAIN journal
    BY DEF CountedIn
  <2>2. BilledOf(s) \in Int
    BY <1>1, <2>1, JournalSums DEF BilledOf
  <2>3. JournalOf(s)' = JournalOf(s) /\ BilledOf(s)' = BilledOf(s)
    BY DEF JournalOf, BilledOf, Unbilled
  <2> QED
    BY <2>2, <2>3 DEF Nothing
<1> QED
  BY <1>3, <1>4, <1>5, <1>6 DEF Taken, TotalsFollow

(* A payment moves what it takes off the debt to the invoice and its lines.   *)
LEMMA PayingKeeps ==
  ASSUME ItemsInv, NEW i \in DOMAIN invoices, NEW amount, CanApply(i, Eligible(i), amount),
         Applicable(Eligible(i), amount), ReduceTotals(Eligible(i), amount),
         lines' = Applied(Eligible(i), amount), NEW inv \in Bill,
         inv.total = invoices[i].total, inv.paid = invoices[i].paid + amount,
         invoices' = [invoices EXCEPT ![i] = inv], requests' \in Seq(Request),
         UNCHANGED <<journal, unmet, returns, credits>>
  PROVE  ItemsInv'
<1> DEFINE da == Taken(Eligible(i), amount)
<1>1. /\ TypeOK /\ lines \in Seq(Line) /\ journal \in Seq(Post)
      /\ invoices \in Seq(Bill) /\ Anchored /\ Copied /\ AllItemized
  BY Types DEF ItemsInv
<1>2. amount \in Nat /\ amount <= OpenTotal(Eligible(i)) /\ Eligible(i) \in SUBSET ChargedLines
  BY DEF CanApply, Eligible, ChargedLines
<1>3. /\ invoices' \in Seq(Bill) /\ DOMAIN invoices' = DOMAIN invoices /\ invoices'[i] = inv
      /\ \A j \in DOMAIN invoices : j # i => invoices'[j] = invoices[j]
  BY <1>1, BillChanges
<1>4. /\ lines' \in Seq(Line) /\ DOMAIN lines' = DOMAIN lines
      /\ \A l \in DOMAIN lines : /\ lines'[l].invoice = lines[l].invoice /\ Sound(lines'[l])
                                 /\ lines'[l].credit = lines[l].credit
                                 /\ lines'[l].totals = lines[l].totals
                                 /\ lines'[l].units = lines[l].units
  <2> DEFINE rows == Applied(Eligible(i), amount)
  <2>1. rows = Applied(Eligible(i), amount)
    OBVIOUS
  <2> HIDE DEF rows
  <2>2. /\ rows \in Seq(Line) /\ DOMAIN rows = DOMAIN lines
        /\ \A l \in DOMAIN lines : /\ rows[l].invoice = lines[l].invoice /\ Sound(rows[l])
                                   /\ rows[l].credit = lines[l].credit
                                   /\ rows[l].totals = lines[l].totals
                                   /\ rows[l].units = lines[l].units
    BY <1>1, <1>2, <2>1, AmountIsApplied
  <2> QED
    BY <2>1, <2>2
<1>5. Effect(i, lines, lines', 0, amount, da, Nothing)
  BY <1>1, ItemsApplied
<1>6. settled' \in [Totals -> Nat] /\ TotalsFollow(da, Nothing)
  BY <1>1, TotalsReduced
<1>7. TypeOK'
  BY <1>3, <1>4, <1>6 DEF ItemsInv, TypeOK, Line, Bill, Request
<1>8. Copied'
  <2> SUFFICES ASSUME NEW l \in DOMAIN lines
               PROVE  IF lines'[l].credit THEN lines'[l].totals = {}
                      ELSE \E j \in DOMAIN journal : Copies(lines'[l], journal[j])
    BY <1>4 DEF Copied
  <2>1. \A entry : Copies(lines[l], entry) => Copies(lines'[l], entry)
    BY <1>4 DEF Copies
  <2> QED
    BY <1>1, <1>4, <2>1 DEF Copied
<1>9. AnchoredNext
  BY <1>1, <1>3, <1>4 DEF Anchored, AnchoredNext
<1> DEFINE t == invoices[i].total
           p == invoices[i].paid
<1>10. t \in Int /\ p \in Int /\ Itemized(lines, i, t, p)
  <2>1. invoices[i] \in Bill
    BY <1>1, TableIsFinite
  <2> QED
    BY <1>1, <2>1 DEF AllItemized, Bill
<1>11. invoices'[i].total = t + 0 /\ invoices'[i].paid = p + amount
  BY <1>3, <1>10
<1> HIDE DEF t, p, da
<1>12. i \in DOMAIN invoices' /\ amount \in Int /\ 0 \in Int /\ unmet' = unmet /\ OthersStay(i)
  BY <1>2, <1>3 DEF OthersStay
<1> QED
  BY <1>5, <1>6, <1>7, <1>8, <1>9, <1>10, <1>11, <1>12, BooksFollow

(* A credit note moves it off the total of the invoice, too.                  *)
LEMMA CreditingKeeps ==
  ASSUME ItemsInv, NEW i \in DOMAIN invoices, NEW chosen, NEW amount, amount > 0,
         CanApply(i, chosen, amount), Applicable(chosen, amount), ReduceTotals(chosen, amount),
         lines' = Append(Applied(chosen, amount), Note(i, amount)),
         NEW inv \in Bill, inv.total = invoices[i].total - amount, inv.paid = invoices[i].paid,
         invoices' = [invoices EXCEPT ![i] = inv], credits' \in Nat,
         UNCHANGED <<journal, requests, unmet, returns>>
  PROVE  ItemsInv'
<1> DEFINE da == Taken(chosen, amount)
<1>1. /\ TypeOK /\ lines \in Seq(Line) /\ journal \in Seq(Post)
      /\ invoices \in Seq(Bill) /\ Anchored /\ Copied /\ AllItemized
  BY Types DEF ItemsInv
<1>2. amount \in Nat /\ i \in Nat
  BY <1>1 DEF CanApply
<1>3. /\ invoices' \in Seq(Bill) /\ DOMAIN invoices' = DOMAIN invoices /\ invoices'[i] = inv
      /\ \A j \in DOMAIN invoices : j # i => invoices'[j] = invoices[j]
  BY <1>1, BillChanges
<1>4. lines' \in Seq(Line) /\ StillAnchored(i, lines') /\ Effect(i, lines, lines', -amount, 0, da, Nothing)
  <2> DEFINE longer == lines'
             dt == -amount
  <2>1. longer = Append(Applied(chosen, amount), Note(i, amount)) /\ dt = -amount
    OBVIOUS
  <2> HIDE DEF longer, dt
  <2>2. longer \in Seq(Line)
    BY <1>1, <1>2, <2>1, ItemsCredited
  <2>3. Effect(i, lines, longer, dt, 0, Taken(chosen, amount), Nothing)
    BY <1>1, <1>2, <2>1, ItemsCredited
  <2>4. StillAnchored(i, longer)
    BY <1>1, <1>2, <2>1, ItemsCredited
  <2> QED
    BY <2>2, <2>3, <2>4 DEF longer, dt
<1>5. settled' \in [Totals -> Nat] /\ TotalsFollow(da, Nothing)
  BY <1>1, TotalsReduced
<1>6. TypeOK'
  BY <1>3, <1>4, <1>5 DEF ItemsInv, TypeOK, Line, Bill
<1>7. Copied'
  <2> SUFFICES ASSUME NEW l \in DOMAIN lines'
               PROVE  IF lines'[l].credit THEN lines'[l].totals = {}
                      ELSE \E j \in DOMAIN journal : Copies(lines'[l], journal[j])
    BY DEF Copied
  <2>1. CASE lines'[l].credit /\ lines'[l].totals = {}
    BY <2>1
  <2>2. CASE l \in DOMAIN lines /\ lines'[l].credit = lines[l].credit /\ Copies(lines'[l], lines[l])
    BY <1>1, <2>2 DEF Copied, Copies
  <2> QED
    BY <1>4, <2>1, <2>2 DEF StillAnchored
<1>8. AnchoredNext
  BY <1>1, <1>3, <1>4 DEF Anchored, StillAnchored, AnchoredNext
<1> DEFINE t == invoices[i].total
           p == invoices[i].paid
           dt == -amount
<1>9. t \in Int /\ p \in Int /\ Itemized(lines, i, t, p)
  <2>1. invoices[i] \in Bill
    BY <1>1, TableIsFinite
  <2> QED
    BY <1>1, <2>1 DEF AllItemized, Bill
<1>10. invoices'[i].total = t + dt /\ invoices'[i].paid = p + 0 /\ dt \in Int
  <2>1. dt \in Int /\ t - amount = t + dt
    <3> HIDE DEF t
    <3> QED
      BY <1>2, <1>9
  <2>2. invoices'[i].total = t - amount /\ invoices'[i].paid = p + 0
    BY <1>3, <1>9
  <2> QED
    BY <2>1, <2>2
<1>11. Effect(i, lines, lines', dt, 0, da, Nothing)
  BY <1>4
<1> HIDE DEF t, p, dt, da
<1>12. i \in DOMAIN invoices' /\ amount \in Int /\ 0 \in Int /\ unmet' = unmet /\ OthersStay(i)
  BY <1>2, <1>3 DEF OthersStay
<1> QED
  BY <1>5, <1>6, <1>7, <1>8, <1>9, <1>10, <1>11, <1>12, BooksFollow

-----------------------------------------------------------------------------
(* Each command keeps the books.                                             *)
LEMMA ItemsInit == InvoicesInit => ItemsInv
<1> SUFFICES ASSUME InvoicesInit PROVE ItemsInv
  OBVIOUS
<1>1. /\ settled = [s \in Totals |-> 0] /\ unmet = [s \in Totals |-> 0] /\ returns = 0 /\ credits = 0
      /\ journal = <<>> /\ invoices = <<>> /\ lines = <<>> /\ requests = <<>>
      /\ DOMAIN <<>> = {}
  BY DEF InvoicesInit
<1>2. TypeOK
  BY <1>1 DEF TypeOK
<1>3. \A s : CountedIn(journal, s) = {} /\ CountedIn(lines, s) = {} /\ PlainIn(lines, s) = {}
             /\ CountedIn(journal, s) \ Unbilled = {}
  BY <1>1 DEF CountedIn, PlainIn
<1>4. \A s \in Totals : settled[s] = 0 /\ unmet[s] = 0
  BY <1>1
<1>5. DebtIsAccounted
  BY <1>3, <1>4, SumEmpty DEF DebtIsAccounted
<1>6. Billed
  BY <1>3, SumEmpty DEF Billed, UsageOf, BilledOf
<1> QED
  BY <1>1, <1>2, <1>5, <1>6 DEF ItemsInv, Anchored, Copied, AllItemized

(* A charge that is settled.                                                 *)
LEMMA ChargeKeeps ==
  ASSUME ItemsInv, NEW u \in Charges, NEW ts \in Scopes, NEW e \in Known \union {Len(journal) + 1},
         ChargeUsage(e, ts, u)
  PROVE  ItemsInv'
<1>1. settled \in [Totals -> Nat] /\ unmet \in [Totals -> Nat] /\ journal \in Seq(Post)
  BY Types DEF ItemsInv
<1>2. u \in Nat
  BY InvoicesAssumption
<1>3. e \in Nat
  <2>1. \A j \in DOMAIN journal : journal[j] \in Post
    BY <1>1
  <2> QED
    BY <1>1, <2>1 DEF Known, Post
<1>4. ts \in SUBSET Totals
  BY DEF Scopes, Totals
<1>5. /\ journal' = Append(journal, Entry(e, ts, u)) /\ unmet' = unmet
      /\ settled' = [s \in Totals |-> IF s \in ts THEN settled[s] + u ELSE settled[s]]
      /\ UNCHANGED <<invoices, lines, requests, returns, credits>>
  BY DEF ChargeUsage
<1>6. settled' \in [Totals -> Nat] /\ unmet' \in [Totals -> Nat] /\ u \in Int
  BY <1>1, <1>2, <1>5
<1>7. ASSUME NEW s \in Totals
      PROVE  IF s \in ts THEN settled'[s] = settled[s] + u + (unmet'[s] - unmet[s])
             ELSE settled'[s] = settled[s] /\ unmet'[s] = unmet[s]
  <2>1. settled[s] \in Nat /\ unmet[s] \in Nat /\ unmet'[s] = unmet[s]
        /\ settled'[s] = IF s \in ts THEN settled[s] + u ELSE settled[s]
    BY <1>1, <1>5
  <2> QED
    BY <1>2, <2>1
<1> QED
  BY <1>3, <1>4, <1>5, <1>6, <1>7, PostingKeeps

(* A correction, which finds part of its units as debt and misses the rest.  *)
LEMMA CorrectKeeps ==
  ASSUME ItemsInv, NEW e \in Known, NEW k \in 1..NetOf(e), CorrectUsage(e, k)
  PROVE  ItemsInv'
<1> DEFINE ts == TotalsOf(e)
           u == -k
<1>1. settled \in [Totals -> Nat] /\ unmet \in [Totals -> Nat] /\ journal \in Seq(Post)
  BY Types DEF ItemsInv
<1>2. NetOf(e) \in Int
  BY <1>1, JournalSums DEF NetOf, EntriesOf
<1>3. k \in Nat /\ u \in Int
  BY <1>2
<1>4. e \in Nat /\ ts \in SUBSET Totals
  <2>1. \A j \in DOMAIN journal : journal[j] \in Post
    BY <1>1
  <2> QED
    BY <2>1 DEF Known, Post, TotalsOf, EntriesOf
<1>5. PICK reduction \in {k} \union {settled[s] : s \in ts} :
        /\ \A n \in {k} \union {settled[s] : s \in ts} : reduction <= n
        /\ settled' = [s \in Totals |-> IF s \in ts THEN settled[s] - reduction ELSE settled[s]]
        /\ unmet' = [s \in Totals |-> IF s \in ts THEN unmet[s] + (k - reduction) ELSE unmet[s]]
  BY DEF CorrectUsage
<1>6. journal' = Append(journal, Entry(e, ts, u)) /\ UNCHANGED <<invoices, lines, requests, returns, credits>>
  BY DEF CorrectUsage
<1> HIDE DEF ts, u
<1>7. reduction \in Nat /\ reduction <= k /\ \A s \in ts : reduction <= settled[s]
  BY <1>1, <1>3, <1>4, <1>5
<1>8. ASSUME NEW s \in Totals
      PROVE  /\ settled'[s] \in Nat /\ unmet'[s] \in Nat
             /\ IF s \in ts THEN settled'[s] = settled[s] + u + (unmet'[s] - unmet[s])
                ELSE settled'[s] = settled[s] /\ unmet'[s] = unmet[s]
  <2>1. settled[s] \in Nat /\ unmet[s] \in Nat
    BY <1>1
  <2>2. /\ settled'[s] = IF s \in ts THEN settled[s] - reduction ELSE settled[s]
        /\ unmet'[s] = IF s \in ts THEN unmet[s] + (k - reduction) ELSE unmet[s]
    BY <1>5
  <2>3. CASE s \in ts
    BY <1>3, <1>7, <2>1, <2>2, <2>3 DEF u
  <2>4. CASE s \notin ts
    BY <2>1, <2>2, <2>4
  <2> QED
    BY <2>3, <2>4
<1>9. settled' \in [Totals -> Nat] /\ unmet' \in [Totals -> Nat]
  BY <1>5, <1>8
<1> QED
  BY <1>3, <1>4, <1>6, <1>8, <1>9, PostingKeeps

(* The rows that the commands write to an invoice are rows of its table.     *)
Totalled(b, total, status) == [b EXCEPT !.total = total, !.status = status]
PaidUp(b, paid, status) == [b EXCEPT !.paid = paid, !.status = status]

Statuses == {"open", "partially_paid", "paid", "credit_note"}

(* One that changes the total.                                               *)
LEMMA TotalledRow ==
  ASSUME NEW b \in Bill, NEW t \in Int,
         NEW s \in Statuses
  PROVE  /\ Totalled(b, t, s) \in Bill
         /\ Totalled(b, t, s).total = t
         /\ Totalled(b, t, s).paid = b.paid
         /\ Totalled(b, t, s).status = s
BY DEF Bill, Totalled, Statuses

(* One that changes what was paid.                                           *)
LEMMA PaidRow ==
  ASSUME NEW b \in Bill, NEW p \in Nat,
         NEW s \in Statuses
  PROVE  /\ PaidUp(b, p, s) \in Bill
         /\ PaidUp(b, p, s).total = b.total
         /\ PaidUp(b, p, s).paid = p
         /\ PaidUp(b, p, s).status = s
BY DEF Bill, PaidUp, Statuses

(* The status an invoice gets from its amounts.                              *)
LEMMA StatusIsOne ==
  ASSUME NEW t, NEW p
  PROVE  StatusOf(t, p) \in Statuses
BY DEF StatusOf, Statuses

(* Late entries go on the open invoice.                                      *)
LEMMA AppendKeeps ==
  ASSUME ItemsInv, NEW i \in DOMAIN invoices, AppendLate(i)
  PROVE  ItemsInv'
<1>1. TypeOK /\ invoices \in Seq(Bill) /\ AllItemized /\ InsertLines(i)
  BY Types DEF ItemsInv, AppendLate
<1>2. i \in Nat /\ UnbilledUnits \in Int /\ invoices[i] \in Bill
  BY <1>1, TableIsFinite, Inserted
<1> DEFINE t == invoices[i].total
           p == invoices[i].paid
           status == StatusOf(t + UnbilledUnits, p)
           inv == Totalled(invoices[i], t + UnbilledUnits, status)
<1>3. inv \in Bill /\ inv.total = t + UnbilledUnits /\ inv.paid = p /\ t \in Int /\ p \in Int
  <2>1. t \in Int /\ p \in Nat
    BY <1>2 DEF Bill
  <2>2. status \in Statuses
    BY StatusIsOne
  <2> DEFINE sum == t + UnbilledUnits
  <2>3. sum \in Int
    BY <1>2, <2>1
  <2>4. inv = Totalled(invoices[i], sum, status)
    OBVIOUS
  <2>5. invoices[i].paid = p
    OBVIOUS
  <2> HIDE DEF status, t, p, inv, sum
  <2>6. inv \in Bill /\ inv.total = sum /\ inv.paid = p
    BY <1>2, <2>2, <2>3, <2>4, <2>5, TotalledRow
  <2> QED
    BY <2>1, <2>6 DEF sum
<1>4. invoices' = [invoices EXCEPT ![i] = inv]
  BY DEF AppendLate, Totalled
<1>5. Itemized(lines, i, t, p)
  BY <1>1 DEF AllItemized
<1> HIDE DEF inv, t, p
<1>6. /\ invoices' \in Seq(Bill) /\ DOMAIN invoices' = DOMAIN invoices /\ invoices'[i] = inv
      /\ \A j \in DOMAIN invoices : j # i => invoices'[j] = invoices[j]
  BY <1>1, <1>3, <1>4, BillChanges
<1>7. UNCHANGED <<settled, requests, unmet, returns, credits>>
  BY DEF AppendLate
<1>8. /\ i \in DOMAIN invoices' /\ DOMAIN invoices \subseteq DOMAIN invoices'
      /\ OthersStay(i) /\ invoices'[i].total = t + UnbilledUnits /\ invoices'[i].paid = p
  BY <1>3, <1>6 DEF OthersStay
<1> QED
  BY <1>1, <1>2, <1>3, <1>5, <1>6, <1>7, <1>8, ClosingKeeps

(* Or they make a new invoice.                                               *)
LEMMA IssueItemKeeps ==
  ASSUME ItemsInv, IssueInvoice
  PROVE  ItemsInv'
<1> DEFINE i == Len(invoices) + 1
           inv == [total |-> UnbilledUnits, paid |-> 0,
                   status |-> IF UnbilledUnits >= 0 THEN "open" ELSE "credit_note"]
<1>1. TypeOK /\ invoices \in Seq(Bill) /\ lines \in Seq(Line) /\ Anchored /\ InsertLines(i)
      /\ invoices' = Append(invoices, inv) /\ UNCHANGED <<settled, requests, unmet, returns, credits>>
  BY Types DEF ItemsInv, IssueInvoice
<1>2. Len(invoices) \in Nat /\ DOMAIN invoices = 1..Len(invoices)
  BY <1>1
<1>3. i \in Nat
  BY <1>2
<1>4. UnbilledUnits \in Int
  BY <1>1, <1>3, Inserted
<1>5. inv \in Bill /\ inv.total = 0 + UnbilledUnits /\ inv.paid = 0
  BY <1>4 DEF Bill
<1> HIDE DEF inv
<1>6. /\ invoices' \in Seq(Bill) /\ Len(invoices') = Len(invoices) + 1 /\ invoices'[i] = inv
      /\ \A j \in 1..Len(invoices) : invoices'[j] = invoices[j]
  BY <1>1, <1>5, AppendProperties
<1>7. DOMAIN invoices' = 1..(Len(invoices) + 1)
  BY <1>6
<1>8. /\ i \in DOMAIN invoices' /\ DOMAIN invoices \subseteq DOMAIN invoices' /\ i \notin DOMAIN invoices
      /\ OthersStay(i)
  BY <1>2, <1>6, <1>7 DEF OthersStay
<1>9. Itemized(lines, i, 0, 0)
  <2>1. Own(lines, i) = {} /\ CreditsOf(lines, i) = {}
    BY <1>1, <1>8 DEF Anchored, Own, CreditsOf
  <2>2. SumFunctionOnSet(UnitsOf(lines), {}) = 0 /\ SumFunctionOnSet(AppliedOf(lines), {}) = 0
    BY SumEmpty
  <2>3. 0 - 0 = 0
    OBVIOUS
  <2> HIDE DEF i
  <2> QED
    BY <2>1, <2>2, <2>3 DEF Itemized
<1>10. invoices'[i].total = 0 + UnbilledUnits /\ invoices'[i].paid = 0 /\ 0 \in Int
  BY <1>5, <1>6
<1> HIDE DEF i
<1> QED
  BY <1>1, <1>3, <1>6, <1>8, <1>9, <1>10, ClosingKeeps

(* A payment that is approved.                                               *)
LEMMA ApproveKeeps ==
  ASSUME ItemsInv, NEW r \in DOMAIN requests, ApprovePayment(r)
  PROVE  ItemsInv'
<1> DEFINE i == requests[r].invoice
           amount == requests[r].amount
           status == IF invoices[i].paid + amount = invoices[i].total THEN "paid" ELSE "partially_paid"
           inv == PaidUp(invoices[i], invoices[i].paid + amount, status)
<1>1. requests \in Seq(Request) /\ invoices \in Seq(Bill)
  BY Types DEF ItemsInv
<1>2. amount \in Nat /\ requests[r] \in Request
  <2>1. requests[r] \in Request
    BY <1>1
  <2> QED
    BY <2>1 DEF Request
<1>3. i \in DOMAIN invoices
  BY DEF ApprovePayment, Payable, Open
<1>4. CanApply(i, Eligible(i), amount) /\ Applicable(Eligible(i), amount)
  BY <1>2 DEF ApprovePayment, Applicable, CanApply
<1>5. inv \in Bill /\ inv.total = invoices[i].total /\ inv.paid = invoices[i].paid + amount
  <2>1. invoices[i] \in Bill
    BY <1>1, <1>3
  <2>2. invoices[i].paid + amount \in Nat
    BY <1>2, <2>1 DEF Bill
  <2>3. status \in Statuses
    BY DEF Statuses
  <2>4. invoices[i].total \in Int
    BY <2>1 DEF Bill
  <2> DEFINE sum == invoices[i].paid + amount
  <2>5. inv = PaidUp(invoices[i], sum, status) /\ sum \in Nat
    BY <2>2
  <2> HIDE DEF status, i, amount, inv, sum
  <2>6. inv \in Bill /\ inv.total = invoices[i].total /\ inv.paid = sum
    BY <2>1, <2>3, <2>5, PaidRow
  <2> QED
    BY <2>6 DEF sum
<1>6. /\ ReduceTotals(Eligible(i), amount) /\ lines' = Applied(Eligible(i), amount)
      /\ UNCHANGED <<journal, unmet, returns, credits>>
      /\ requests' = [requests EXCEPT ![r].status = "approved"]
      /\ invoices' = [invoices EXCEPT ![i] = inv]
  BY DEF ApprovePayment, PaidUp
<1>7. requests' \in Seq(Request)
  <2> DEFINE q == [requests[r] EXCEPT !.status = "approved"]
  <2>0. "approved" \in {"pending", "clarification", "rejected", "approved"}
    OBVIOUS
  <2>1. q \in Request /\ r \in 1..Len(requests)
    <3> HIDE DEF i, amount
    <3>1. q \in Request
      BY <1>2, <2>0 DEF Request
    <3> QED
      BY <1>1, <3>1
  <2>2. requests' = [requests EXCEPT ![r] = q]
    BY <1>6
  <2> HIDE DEF q
  <2> QED
    BY <1>1, <2>1, <2>2, ExceptSeq
<1> HIDE DEF i, amount, inv
<1> QED
  BY <1>3, <1>4, <1>5, <1>6, <1>7, PayingKeeps

(* A credit note.                                                            *)
LEMMA CreditKeeps ==
  ASSUME ItemsInv, NEW i \in Open, NEW amount \in 1..Outstanding(i),
         NEW chosen \in {Eligible(i)} \union {{l} : l \in Eligible(i)}, IssueCreditNote(i, chosen, amount)
  PROVE  ItemsInv'
<1> DEFINE status == StatusOf(invoices[i].total - amount, invoices[i].paid)
           inv == Totalled(invoices[i], invoices[i].total - amount, status)
<1>1. invoices \in Seq(Bill) /\ credits \in Nat
  BY Types DEF ItemsInv
<1>2. i \in DOMAIN invoices /\ invoices[i] \in Bill
  BY <1>1 DEF Open
<1>3. amount \in Nat /\ amount > 0
  BY <1>2 DEF Outstanding, Bill
<1>4. chosen \subseteq Eligible(i)
  OBVIOUS
<1>5. CanApply(i, chosen, amount) /\ Applicable(chosen, amount)
  BY <1>3, <1>4 DEF IssueCreditNote, Applicable, CanApply
<1>6. inv \in Bill /\ inv.total = invoices[i].total - amount /\ inv.paid = invoices[i].paid
  <2>1. invoices[i].total - amount \in Int /\ invoices[i].paid \in Nat
    BY <1>2, <1>3 DEF Bill
  <2>2. status \in Statuses
    BY StatusIsOne
  <2> DEFINE sum == invoices[i].total - amount
  <2>3. inv = Totalled(invoices[i], sum, status) /\ sum \in Int
    BY <2>1
  <2> HIDE DEF status, inv, sum
  <2>4. inv \in Bill /\ inv.total = sum /\ inv.paid = invoices[i].paid
    BY <1>2, <2>2, <2>3, TotalledRow
  <2> QED
    BY <2>4 DEF sum
<1>7. /\ ReduceTotals(chosen, amount) /\ credits' = credits + 1
      /\ lines' = Append(Applied(chosen, amount), Note(i, amount))
      /\ UNCHANGED <<journal, requests, unmet, returns>>
      /\ invoices' = [invoices EXCEPT ![i] = inv]
  BY DEF IssueCreditNote, Note, Totalled
<1>8. credits' \in Nat
  BY <1>1, <1>7
<1> HIDE DEF inv
<1> QED
  BY <1>2, <1>3, <1>5, <1>6, <1>7, <1>8, CreditingKeeps

(* The steps of a payment before its approval touch no book.                 *)
LEMMA RequestKeeps ==
  ASSUME ItemsInv, requests' \in Seq(Request), returns' \in Nat,
         UNCHANGED <<settled, journal, invoices, lines, unmet, credits>>
  PROVE  ItemsInv'
<1>1. TypeOK'
  BY DEF ItemsInv, TypeOK, Request
<1>2. Anchored' /\ Copied' /\ AllItemized'
  BY DEF ItemsInv, Anchored, Copied, AllItemized
<1>3. Billed' /\ DebtIsAccounted'
  BY DEF ItemsInv, Billed, DebtIsAccounted, UsageOf, BilledOf, PlainIn, CountedIn, Unbilled
<1> QED
  BY <1>1, <1>2, <1>3 DEF ItemsInv

(* Payments, from their submission to the decision.                          *)
LEMMA PaymentKeeps ==
  ASSUME ItemsInv, PaymentStep
  PROVE  ItemsInv'
<1>1. /\ requests \in Seq(Request) /\ invoices \in Seq(Bill) /\ returns \in Nat
      /\ Len(requests) \in Nat /\ DOMAIN requests = 1..Len(requests)
  BY Types DEF ItemsInv
<1>2. ASSUME NEW r \in DOMAIN requests, NEW q \in Request, requests' = [requests EXCEPT ![r] = q]
      PROVE  requests' \in Seq(Request)
  BY <1>1, <1>2, ExceptSeq
<1>3. \A r \in DOMAIN requests : requests[r] \in Request
  BY <1>1
<1>4. ASSUME NEW i \in Open PROVE i \in Nat /\ Outstanding(i) \in Int
  <2>1. i \in Nat /\ invoices[i] \in Bill
    BY <1>1, TableIsFinite DEF Open
  <2> QED
    BY <2>1 DEF Bill, Outstanding
<1>5. ASSUME NEW i \in Open, NEW amount \in 1..Outstanding(i), SubmitPayment(i, amount)
      PROVE  ItemsInv'
  <2> DEFINE q == [invoice |-> i, amount |-> amount, status |-> "pending"]
  <2>1. q \in Request
    BY <1>4 DEF Request
  <2>2. requests' = Append(requests, q)
    BY <1>5 DEF SubmitPayment
  <2> HIDE DEF q
  <2>3. requests' \in Seq(Request)
    BY <1>1, <2>1, <2>2, AppendProperties
  <2>4. returns' \in Nat /\ UNCHANGED <<settled, journal, invoices, lines, unmet, credits>>
    BY <1>1, <1>5 DEF SubmitPayment, RequestsOnly
  <2> QED
    BY <2>3, <2>4, RequestKeeps
<1>6. ASSUME NEW r \in DOMAIN requests, NEW amount \in 1..Outstanding(requests[r].invoice), Resubmit(r, amount)
      PROVE  ItemsInv'
  <2> DEFINE q == [requests[r] EXCEPT !.amount = amount, !.status = "pending"]
  <2>1. requests[r].invoice \in Open
    BY <1>6 DEF Resubmit, Payable
  <2>2. amount \in Nat
    BY <1>4, <2>1
  <2>3. q \in Request
    BY <1>3, <2>2 DEF Request
  <2>4. requests' = [requests EXCEPT ![r] = q]
    BY <1>6 DEF Resubmit
  <2> HIDE DEF q
  <2>5. returns' \in Nat /\ UNCHANGED <<settled, journal, invoices, lines, unmet, credits>>
    BY <1>1, <1>6 DEF Resubmit, RequestsOnly
  <2> QED
    BY <1>2, <2>3, <2>4, <2>5, RequestKeeps
<1>7. ASSUME NEW r \in DOMAIN requests, Reject(r) \/ AskClarification(r)
      PROVE  ItemsInv'
  <2>1. PICK status \in {"rejected", "clarification"} : requests' = [requests EXCEPT ![r].status = status]
    BY <1>7 DEF Reject, AskClarification
  <2> DEFINE q == [requests[r] EXCEPT !.status = status]
  <2>2. q \in Request
    BY <1>3 DEF Request
  <2>3. requests' = [requests EXCEPT ![r] = q]
    BY <2>1
  <2> HIDE DEF q
  <2>4. returns' \in Nat /\ UNCHANGED <<settled, journal, invoices, lines, unmet, credits>>
    BY <1>1, <1>7 DEF Reject, AskClarification, RequestsOnly
  <2> QED
    BY <1>2, <2>2, <2>3, <2>4, RequestKeeps
<1> QED
  BY <1>5, <1>6, <1>7, ApproveKeeps DEF PaymentStep

(* Every command keeps the books.                                            *)
LEMMA ItemsNext == ItemsInv /\ [InvoicesNext]_vars => ItemsInv'
<1> SUFFICES ASSUME ItemsInv, [InvoicesNext]_vars PROVE ItemsInv'
  OBVIOUS
<1>1. CASE UsageStep
  BY <1>1, ChargeKeeps, CorrectKeeps DEF UsageStep
<1>2. CASE ClosePeriod
  BY <1>2, AppendKeeps, IssueItemKeeps DEF ClosePeriod
<1>3. CASE PaymentStep
  BY <1>3, PaymentKeeps
<1>4. CASE CreditStep
  <2>1. PICK i \in Open : \E amount \in 1..Outstanding(i),
          chosen \in {Eligible(i)} \union {{l} : l \in Eligible(i)} : IssueCreditNote(i, chosen, amount)
    BY <1>4 DEF CreditStep
  <2> QED
    BY <2>1, CreditKeeps
<1>5. CASE UNCHANGED vars
  BY <1>5, RequestKeeps, Types DEF vars, ItemsInv
<1> QED
  BY <1>1, <1>2, <1>3, <1>4, <1>5 DEF InvoicesNext

(* No command takes a unit off the debt twice, and none changes the debt      *)
(* without the journal (reverseSettledExposure, recordDebtJournal).           *)
THEOREM DebtFollowsTheJournal == InvoicesSpec => []DebtIsAccounted
<1>1. ItemsInv => DebtIsAccounted
  BY DEF ItemsInv
<1> QED
  BY <1>1, ItemsInit, ItemsNext, PTL DEF InvoicesSpec

(* Each invoice stays the sum of its lines, and what is paid or credited on   *)
(* it stays applied to its charges (applyPayment, addCreditNote, closePeriod). *)
THEOREM InvoicesStayItemized == InvoicesSpec => []InvoicesAreItemized
<1>1. ItemsInv => InvoicesAreItemized
  <2> SUFFICES ASSUME ItemsInv PROVE InvoicesAreItemized
    OBVIOUS
  <2>1. lines \in Seq(Line) /\ invoices \in Seq(Bill) /\ Anchored /\ AllItemized
    BY Types DEF ItemsInv
  <2>2. ASSUME NEW i \in DOMAIN invoices
        PROVE  /\ invoices[i].total = SumFunctionOnSet(UnitsOf(lines), Own(lines, i))
               /\ invoices[i].paid + -SumFunctionOnSet(UnitsOf(lines), CreditsOf(lines, i))
                    = SumFunctionOnSet(AppliedOf(lines), Own(lines, i))
               /\ \A l \in Eligible(i) : lines[l].applied <= lines[l].units
    <3>1. Itemized(lines, i, invoices[i].total, invoices[i].paid)
      BY <2>1 DEF AllItemized
    <3>2. invoices[i].paid \in Int /\ SumFunctionOnSet(UnitsOf(lines), CreditsOf(lines, i)) \in Int
      <4>1. invoices[i] \in Bill
        BY <2>1
      <4>2. CreditsOf(lines, i) \in SUBSET DOMAIN lines
        BY DEF CreditsOf, Own
      <4> QED
        BY <2>1, <4>1, <4>2, LineSums DEF Bill
    <3>3. \A l \in Eligible(i) : lines[l].applied <= lines[l].units
      BY <2>1 DEF Anchored, Sound, Eligible
    <3> QED
      BY <3>1, <3>2, <3>3 DEF Itemized
  <2> QED
    BY <2>2 DEF InvoicesAreItemized, Own, CreditsOf
<1> QED
  BY <1>1, ItemsInit, ItemsNext, PTL DEF InvoicesSpec

(* The rows of the tables of invoices and payments stay rows.                 *)
THEOREM InvoiceTypes == InvoicesSpec => []TypeOK
<1>1. ItemsInv => TypeOK
  BY DEF ItemsInv
<1> QED
  BY <1>1, ItemsInit, ItemsNext, PTL DEF InvoicesSpec

-----------------------------------------------------------------------------
(* What is still open of each line, and of each invoice.                     *)
NetOfLines == [l \in DOMAIN lines |->
                 (IF lines[l].credit THEN 0 ELSE lines[l].units) - lines[l].applied]
Balances == [i \in DOMAIN invoices |-> Outstanding(i)]

(* It adds up to the usage of the lines less what was applied to them.       *)
LEMMA NetSums ==
  ASSUME lines \in Seq(Line), NEW S \in SUBSET DOMAIN lines
  PROVE  /\ \A l \in S : NetOfLines[l] \in Int
         /\ IsFiniteSet(S) /\ SumFunctionOnSet(NetOfLines, S) \in Int
         /\ SumFunctionOnSet(NetOfLines, S)
              = SumFunctionOnSet(UnitsOf(lines), S \intersect Plain(lines)) - SumFunctionOnSet(AppliedOf(lines), S)
<1> DEFINE u == UnitsOf(lines)
           a == AppliedOf(lines)
           P == S \intersect Plain(lines)
           usage == [l \in DOMAIN lines |-> IF lines[l].credit THEN 0 ELSE lines[l].units]
<1>1. IsFiniteSet(S) /\ P \in SUBSET S /\ IsFiniteSet(P)
  BY TableIsFinite, FS_Subset DEF Plain
<1>2. \A l \in S : lines[l].units \in Int /\ lines[l].applied \in Int /\ lines[l].credit \in BOOLEAN
  <2>1. \A l \in S : lines[l] \in Line
    BY TableIsFinite
  <2> QED
    BY <2>1 DEF Line
<1>3. \A l \in S : /\ usage[l] \in Int /\ a[l] \in Int /\ u[l] \in Int
                   /\ NetOfLines[l] = usage[l] - a[l]
  BY <1>2, Columns DEF NetOfLines
<1>4. \A l \in S : NetOfLines[l] \in Int /\ usage[l] = NetOfLines[l] + a[l]
  <2> SUFFICES ASSUME NEW l \in S PROVE NetOfLines[l] \in Int /\ usage[l] = NetOfLines[l] + a[l]
    OBVIOUS
  <2>1. usage[l] \in Int /\ a[l] \in Int /\ NetOfLines[l] = usage[l] - a[l]
    BY <1>3
  <2> HIDE DEF usage, a
  <2> QED
    BY <2>1
<1>5. (\A l \in P : usage[l] = u[l]) /\ \A l \in S \ P : usage[l] = 0
  BY Columns DEF Plain
<1> HIDE DEF u, a, P, usage
<1>6. SumFunctionOnSet(usage, S) = SumFunctionOnSet(NetOfLines, S) + SumFunctionOnSet(a, S)
  BY <1>1, <1>3, <1>4, SumPlus
<1>7. SumFunctionOnSet(usage, S) = SumFunctionOnSet(usage, P)
  BY <1>1, <1>3, <1>5, SumSupport
<1>8. SumFunctionOnSet(usage, P) = SumFunctionOnSet(u, P)
  BY <1>1, <1>5, SumEqual
<1>9. SumFunctionOnSet(NetOfLines, S) \in Int /\ SumFunctionOnSet(a, S) \in Int
  BY <1>1, <1>3, <1>4, SumType
<1> QED
  BY <1>1, <1>4, <1>6, <1>7, <1>8, <1>9 DEF u, a, P

(* What is outstanding of an invoice is what is open of its lines.           *)
LEMMA BalanceIsOpen ==
  ASSUME ItemsInv, NEW i \in DOMAIN invoices
  PROVE  /\ Balances[i] = Outstanding(i) /\ Outstanding(i) \in Int
         /\ Balances[i] = SumFunctionOnSet(NetOfLines, Own(lines, i))
<1> DEFINE u == UnitsOf(lines)
           O == Own(lines, i)
           C == CreditsOf(lines, i)
           P == O \intersect Plain(lines)
<1>1. lines \in Seq(Line) /\ invoices \in Seq(Bill) /\ Itemized(lines, i, invoices[i].total, invoices[i].paid)
  BY Types DEF ItemsInv, AllItemized
<1>2. invoices[i].total \in Int /\ invoices[i].paid \in Int
  <2>1. invoices[i] \in Bill
    BY <1>1
  <2> QED
    BY <2>1 DEF Bill
<1>3. O \in SUBSET DOMAIN lines /\ C \in SUBSET DOMAIN lines /\ P \in SUBSET DOMAIN lines
      /\ O = P \union C /\ P \intersect C = {}
  BY DEF Own, CreditsOf, Plain
<1>4. \A l \in DOMAIN lines : u[l] \in Int
  <2>1. \A l \in DOMAIN lines : lines[l] \in Line
    BY <1>1
  <2> QED
    BY <2>1, Columns DEF Line
<1> HIDE DEF u, P, C, O
<1>5. IsFiniteSet(P) /\ IsFiniteSet(C)
  BY <1>1, <1>3, LineSums
<1>6. SumFunctionOnSet(u, O) = SumFunctionOnSet(u, P) + SumFunctionOnSet(u, C)
  BY <1>3, <1>4, <1>5, SumUnion
<1>7. SumFunctionOnSet(u, P) \in Int /\ SumFunctionOnSet(u, C) \in Int
  BY <1>3, <1>4, <1>5, SumType
<1>8. SumFunctionOnSet(AppliedOf(lines), O) \in Int
  BY <1>1, <1>3, LineSums
<1>9. SumFunctionOnSet(NetOfLines, O) = SumFunctionOnSet(u, P) - SumFunctionOnSet(AppliedOf(lines), O)
  BY <1>1, <1>3, NetSums DEF u, P
<1>10. /\ invoices[i].total = SumFunctionOnSet(u, O)
       /\ invoices[i].paid - SumFunctionOnSet(u, C) = SumFunctionOnSet(AppliedOf(lines), O)
  BY <1>1 DEF Itemized, u, O, C
<1>11. Outstanding(i) = SumFunctionOnSet(NetOfLines, O)
  BY <1>2, <1>6, <1>7, <1>8, <1>9, <1>10 DEF Outstanding
<1>12. Outstanding(i) \in Int
  BY <1>2 DEF Outstanding
<1> QED
  BY <1>11, <1>12 DEF Balances, O

(* A total that counts all usage has all lines of usage, and only to these    *)
(* something was applied.                                                    *)
LEMMA WholeCountsAll ==
  ASSUME ItemsInv, NEW s \in Totals, Whole(s)
  PROVE  /\ PlainIn(lines, s) = Plain(lines)
         /\ \A l \in DOMAIN lines \ CountedIn(lines, s) : lines[l].applied = 0
<1>1. lines \in Seq(Line) /\ Anchored /\ Copied
  BY Types DEF ItemsInv
<1>2. ASSUME NEW l \in DOMAIN lines, ~lines[l].credit PROVE s \in lines[l].totals
  <2>1. PICK j \in DOMAIN journal : Copies(lines[l], journal[j])
    BY <1>1, <1>2 DEF Copied
  <2>2. s \in journal[j].totals
    BY DEF Whole, CountedIn
  <2> QED
    BY <2>1, <2>2 DEF Copies
<1>3. ASSUME NEW l \in DOMAIN lines, l \notin CountedIn(lines, s) PROVE lines[l].applied = 0
  <2>1. lines[l].credit /\ Sound(lines[l])
    BY <1>1, <1>2, <1>3 DEF CountedIn, Anchored
  <2>2. lines[l].units \in Int
    <3>1. lines[l] \in Line
      BY <1>1
    <3> QED
      BY <3>1 DEF Line
  <2> QED
    BY <2>1, <2>2 DEF Sound
<1> QED
  BY <1>2, <1>3 DEF PlainIn, Plain, CountedIn

(* What is on no invoice, and what is outstanding, are numbers.              *)
LEMMA BalanceTypes ==
  ASSUME ItemsInv
  PROVE  /\ UnbilledUnits \in Int /\ IsFiniteSet(DOMAIN invoices)
         /\ SumFunctionOnSet(Balances, DOMAIN invoices) \in Int
<1>1. invoices \in Seq(Bill) /\ journal \in Seq(Post)
  BY Types DEF ItemsInv
<1>2. IsFiniteSet(DOMAIN invoices) /\ \A i \in DOMAIN invoices : Balances[i] \in Int
  BY <1>1, TableIsFinite, BalanceIsOpen
<1>3. SumFunctionOnSet(Balances, DOMAIN invoices) \in Int
  BY <1>2, SumType
<1>4. Unbilled \in SUBSET DOMAIN journal
  BY DEF Unbilled
<1>5. SumFunctionOnSet(UnitsOf(journal), Unbilled) \in Int
  BY <1>1, <1>4, JournalSums
<1> QED
  BY <1>2, <1>3, <1>5 DEF UnbilledUnits

(* A total that counts all usage is what is outstanding of the invoices, what *)
(* is on none yet, and what corrections took off without finding it.         *)
LEMMA DebtIsOutstanding ==
  ASSUME ItemsInv, NEW s \in Totals, Whole(s)
  PROVE  /\ settled[s] = SumFunctionOnSet(Balances, DOMAIN invoices) + UnbilledUnits + unmet[s]
         /\ settled[s] \in Nat /\ unmet[s] \in Nat
<1> DEFINE D == DOMAIN lines
           J == DOMAIN journal
           B == J \ Unbilled
           I == DOMAIN invoices
           f == UnitsOf(journal)
           owner == [l \in D |-> lines[l].invoice]
<1>1. lines \in Seq(Line) /\ invoices \in Seq(Bill) /\ journal \in Seq(Post) /\ settled[s] \in Nat /\ unmet[s] \in Nat
  BY Types DEF ItemsInv
<1>2. Anchored /\ Billed /\ DebtIsAccounted
  BY DEF ItemsInv
<1>3. IsFiniteSet(I) /\ \A i \in I : Balances[i] \in Int
  BY <1>1, TableIsFinite, BalanceIsOpen
<1>4. /\ J = Unbilled \union B /\ Unbilled \intersect B = {}
      /\ Unbilled \in SUBSET J /\ B \in SUBSET J
  BY DEF Unbilled
<1>5. \A j \in J : f[j] \in Int
  <2>1. \A j \in J : journal[j] \in Post
    BY <1>1
  <2> QED
    BY <2>1, Columns DEF Post
<1>6. IsFiniteSet(Unbilled) /\ IsFiniteSet(B)
  BY <1>1, <1>4, JournalSums
<1>7. /\ SumFunctionOnSet(f, J) = SumFunctionOnSet(f, Unbilled) + SumFunctionOnSet(f, B)
      /\ SumFunctionOnSet(f, Unbilled) \in Int /\ SumFunctionOnSet(f, B) \in Int
  <2> HIDE DEF J, B, f
  <2> QED
    BY <1>4, <1>5, <1>6, SumUnion, SumType
<1>8. /\ SumFunctionOnSet(NetOfLines, D)
           = SumFunctionOnSet(UnitsOf(lines), Plain(lines)) - SumFunctionOnSet(AppliedOf(lines), D)
      /\ IsFiniteSet(D) /\ \A l \in D : NetOfLines[l] \in Int
  <2>1. D \intersect Plain(lines) = Plain(lines) /\ D \in SUBSET DOMAIN lines
    BY DEF Plain
  <2> QED
    BY <1>1, <2>1, NetSums
<1>9. SumFunctionOnSet(AppliedOf(lines), D) \in Int
  BY <1>1, LineSums
<1>10. SumFunctionOnSet(NetOfLines, D) = SumFunctionOnSet(Balances, I)
  <2>1. \A i \in I : Group(owner, D, i) = Own(lines, i)
    BY DEF Own, Group
  <2>2. \A l \in D : owner[l] \in I
    BY <1>2 DEF Anchored
  <2>3. \A i \in I : Balances[i] = SumFunctionOnSet(NetOfLines, Group(owner, D, i))
    BY <2>1, BalanceIsOpen
  <2> HIDE DEF D, I, owner
  <2> QED
    BY <1>3, <1>8, <2>2, <2>3, SumGrouped
<1>11. SumFunctionOnSet(Balances, I) \in Int
  BY <1>3, SumType
<1>12. settled[s] = SumFunctionOnSet(f, J) - SumFunctionOnSet(AppliedOf(lines), D) + unmet[s]
  <2> DEFINE C == CountedIn(lines, s)
             a == AppliedOf(lines)
  <2>1. C \in SUBSET D /\ IsFiniteSet(D)
    BY <1>8 DEF CountedIn
  <2>2. (\A l \in C : a[l] \in Int) /\ \A l \in D \ C : a[l] = 0
    <3>1. \A l \in D : a[l] = lines[l].applied /\ lines[l] \in Line
      BY <1>1, Columns
    <3>2. \A l \in D : a[l] \in Int
      BY <3>1 DEF Line
    <3> QED
      BY <2>1, <3>1, <3>2, WholeCountsAll
  <2>3. settled[s] = SumFunctionOnSet(f, CountedIn(journal, s)) - SumFunctionOnSet(a, C) + unmet[s]
    BY <1>2 DEF DebtIsAccounted
  <2>4. CountedIn(journal, s) = J
    BY DEF Whole
  <2> HIDE DEF C, a, D
  <2>5. SumFunctionOnSet(a, D) = SumFunctionOnSet(a, C)
    BY <2>1, <2>2, SumSupport
  <2> QED
    BY <2>3, <2>4, <2>5 DEF a
<1>13. SumFunctionOnSet(UnitsOf(lines), Plain(lines)) = SumFunctionOnSet(f, B)
  <2>1. UsageOf(lines, s) = BilledOf(s) /\ CountedIn(journal, s) = J /\ PlainIn(lines, s) = Plain(lines)
    BY <1>2, WholeCountsAll DEF Billed, Whole
  <2> QED
    BY <2>1 DEF UsageOf, BilledOf
<1> DEFINE x == settled[s]
           y == unmet[s]
<1> HIDE DEF D, J, B, I, f, x, y
<1>14. x = SumFunctionOnSet(Balances, I) + SumFunctionOnSet(f, Unbilled) + y
  <2>1. x \in Int /\ y \in Int /\ x = SumFunctionOnSet(f, J) - SumFunctionOnSet(AppliedOf(lines), D) + y
    BY <1>1, <1>12 DEF x, y
  <2> QED
    BY <1>7, <1>8, <1>9, <1>10, <1>11, <1>13, <2>1
<1> QED
  BY <1>1, <1>14 DEF UnbilledUnits, f, I, x, y

-----------------------------------------------------------------------------
(* The books are kept, one invoice is open, and all stand.                   *)
StandInv == ItemsInv /\ OpenInv /\ Standing

(* Where a total with all usage missed no correction, what is outstanding is  *)
(* outstanding of open invoices, and nowhere is it less than nothing.         *)
LEMMA OthersAreSettled ==
  ASSUME StandInv, ~Missed
  PROVE  /\ \A i \in Open : Balances[i] \in Nat
         /\ \A i \in DOMAIN invoices \ Open : Balances[i] = 0
         /\ Open \in SUBSET DOMAIN invoices /\ IsFiniteSet(Open)
         /\ SumFunctionOnSet(Balances, DOMAIN invoices) = SumFunctionOnSet(Balances, Open)
<1>1. ItemsInv /\ Standing /\ invoices \in Seq(Bill)
  BY Types DEF StandInv, ItemsInv
<1>2. \A i \in DOMAIN invoices : Balances[i] = Outstanding(i) /\ Balances[i] \in Int
  BY <1>1, BalanceIsOpen
<1>3. \A i \in Open : Balances[i] \in Nat
  BY <1>1, <1>2 DEF Standing, Open
<1>4. \A i \in DOMAIN invoices \ Open : Balances[i] = 0
  <2> SUFFICES ASSUME NEW i \in DOMAIN invoices, i \notin Open PROVE Balances[i] = 0
    OBVIOUS
  <2>1. invoices[i] \in Bill
    BY <1>1
  <2>2. invoices[i].status \in {"paid", "credit_note"}
    BY <2>1 DEF Bill, Open
  <2> QED
    BY <1>1, <1>2, <2>2 DEF Standing
<1>5. Open \in SUBSET DOMAIN invoices /\ IsFiniteSet(DOMAIN invoices) /\ IsFiniteSet(Open)
  BY <1>1, TableIsFinite DEF Open
<1>6. SumFunctionOnSet(Balances, DOMAIN invoices) = SumFunctionOnSet(Balances, Open)
  BY <1>2, <1>4, <1>5, SumSupport
<1> QED
  BY <1>3, <1>4, <1>5, <1>6

(* So late entries that take off more than they add go on the open invoice:   *)
(* there is one, and it has as much outstanding.                             *)
LEMMA LateFindsItsInvoice ==
  ASSUME StandInv, ~Missed, UnbilledUnits < 0
  PROVE  \E i \in Open : AppendsTo(i, UnbilledUnits)
<1>0. PICK s \in Totals : Whole(s) /\ ~(unmet[s] > 0)
  BY DEF Missed
<1>1. /\ SumFunctionOnSet(Balances, Open) + UnbilledUnits >= 0
      /\ SumFunctionOnSet(Balances, Open) \in Int /\ UnbilledUnits \in Int
  <2>1. ItemsInv
    BY DEF StandInv
  <2>2. /\ settled[s] = SumFunctionOnSet(Balances, DOMAIN invoices) + UnbilledUnits + unmet[s]
        /\ settled[s] \in Nat /\ unmet[s] \in Nat
    BY <1>0, <2>1, DebtIsOutstanding
  <2>3. SumFunctionOnSet(Balances, DOMAIN invoices) = SumFunctionOnSet(Balances, Open)
    BY OthersAreSettled
  <2>4. UnbilledUnits \in Int /\ SumFunctionOnSet(Balances, DOMAIN invoices) \in Int
    BY <2>1, BalanceTypes
  <2> DEFINE x == settled[s]
             y == unmet[s]
  <2>5. x = SumFunctionOnSet(Balances, Open) + UnbilledUnits + y /\ x \in Nat /\ y \in Nat /\ ~(y > 0)
    BY <1>0, <2>2, <2>3
  <2> HIDE DEF x, y
  <2> QED
    BY <2>3, <2>4, <2>5
<1>2. Open # {}
  BY <1>1, SumEmpty
<1>3. PICK i \in Open : TRUE
  BY <1>2
<1>4. Open = {i}
  BY <1>3 DEF StandInv, OpenInv, OneOpen
<1>5. SumFunctionOnSet(Balances, Open) = Balances[i]
  <2>1. Balances[i] \in Int
    BY <1>3, OthersAreSettled
  <2> QED
    BY <1>4, <2>1, SumSingle
<1>6. Balances[i] = Outstanding(i)
  BY <1>3, OthersAreSettled DEF Balances
<1>7. -UnbilledUnits <= Outstanding(i)
  BY <1>1, <1>5, <1>6
<1> QED
  BY <1>3, <1>7 DEF AppendsTo

(* Standing of one invoice that asks for something.                          *)
Stands(inv) ==
  /\ inv.status \in {"open", "partially_paid"} => inv.total - inv.paid >= 0
  /\ inv.status = "paid" => inv.total - inv.paid = 0

(* A changed row that stands keeps all standing.                             *)
LEMMA StandingFollows ==
  ASSUME Standing, Missed => Missed',
         \A j \in DOMAIN invoices' :
           \/ Stands(invoices'[j]) /\ (invoices'[j].status = "credit_note" => Missed')
           \/ j \in DOMAIN invoices /\ invoices'[j] = invoices[j]
  PROVE  Standing'
<1>1. \A j \in DOMAIN invoices : Stands(invoices[j]) /\ (invoices[j].status = "credit_note" => Missed)
  BY DEF Standing, Stands, Outstanding
<1>2. \A j \in DOMAIN invoices' : Stands(invoices'[j]) /\ (invoices'[j].status = "credit_note" => Missed')
  BY <1>1
<1> QED
  BY <1>2 DEF Standing, Stands, Outstanding

(* A row whose status is the one its amounts have stands.                    *)
LEMMA StatusStands ==
  ASSUME NEW t \in Int, NEW p \in Nat, t >= p, NEW s, s = StatusOf(t, p), NEW b \in Bill, b.paid = p
  PROVE  Stands(Totalled(b, t, s)) /\ Totalled(b, t, s).status # "credit_note"
<1>1. s \in Statuses /\ s # "credit_note" /\ (s = "paid" => t = p)
  BY StatusIsOne DEF StatusOf
<1>2. t - p >= 0 /\ (t = p => t - p = 0)
  OBVIOUS
<1> DEFINE inv == Totalled(b, t, s)
<1>3. inv.total = t /\ inv.paid = p /\ inv.status = s
  BY <1>1, TotalledRow
<1> HIDE DEF inv
<1>4. Stands(inv) /\ inv.status # "credit_note"
  BY <1>1, <1>2, <1>3 DEF Stands
<1> QED
  BY <1>4 DEF inv

(* The tables are tables after a step too.                                   *)
LEMMA NextTypes ==
  ASSUME ItemsInv, [InvoicesNext]_vars
  PROVE  /\ invoices \in Seq(Bill) /\ invoices' \in Seq(Bill)
         /\ \A i \in DOMAIN invoices : invoices[i] \in Bill
<1>1. ItemsInv'
  BY ItemsNext
<1>2. TypeOK /\ TypeOK'
  BY <1>1 DEF ItemsInv
<1>3. invoices \in Seq(Bill)
  BY <1>2, Types
<1>4. invoices' \in Seq(Bill)
  BY <1>2 DEF TypeOK, Bill
<1> QED
  BY <1>3, <1>4

(* The journal only grows, and so does what corrections missed.              *)
JournalGrows ==
  /\ DOMAIN journal \subseteq DOMAIN journal'
  /\ \A j \in DOMAIN journal : journal'[j].totals = journal[j].totals
  /\ \A s \in Totals : unmet'[s] \in Nat /\ unmet'[s] >= unmet[s]

(* So no missed correction is forgotten.                                     *)
LEMMA MissedStays ==
  ASSUME ItemsInv, JournalGrows
  PROVE  Missed => Missed'
<1>1. unmet \in [Totals -> Nat]
  BY Types DEF ItemsInv
<1>2. \A s \in Totals : Whole(s)' => Whole(s)
  BY DEF Whole, CountedIn, JournalGrows
<1> SUFFICES ASSUME Missed, NEW s \in Totals, Whole(s)' PROVE unmet'[s] > 0
  BY DEF Missed
<1>3. unmet[s] > 0 /\ unmet[s] \in Nat /\ unmet'[s] \in Nat /\ unmet'[s] >= unmet[s]
  BY <1>1, <1>2 DEF Missed, JournalGrows
<1> QED
  BY <1>3

(* Each command lets it grow, or leaves it as it is.                         *)
LEMMA MissedKept ==
  ASSUME ItemsInv, [InvoicesNext]_vars
  PROVE  Missed => Missed'
<1>1. /\ TypeOK /\ settled \in [Totals -> Nat] /\ unmet \in [Totals -> Nat] /\ journal \in Seq(Post)
      /\ \A j \in DOMAIN journal : journal[j] \in Post
  BY Types, TableIsFinite DEF ItemsInv
<1>2. \A s \in Totals : unmet[s] \in Nat /\ unmet[s] >= unmet[s]
  BY <1>1
<1>3. CASE UNCHANGED <<journal, unmet>>
  BY <1>2, <1>3, MissedStays DEF JournalGrows
<1>4. ASSUME NEW u \in Charges, NEW ts \in Scopes, NEW e \in Known \union {Len(journal) + 1}, ChargeUsage(e, ts, u)
      PROVE  Missed => Missed'
  <2>1. e \in Nat /\ u \in Int /\ ts \in SUBSET Totals
    BY <1>1, InvoicesAssumption DEF Known, Post, Scopes, Totals
  <2>2. journal' = Append(journal, Entry(e, ts, u)) /\ unmet' = unmet
    BY <1>4 DEF ChargeUsage
  <2>3. DOMAIN journal \in SUBSET DOMAIN journal' /\ \A j \in DOMAIN journal : journal'[j] = journal[j]
    BY <1>1, <2>1, <2>2, Posted
  <2> QED
    BY <1>2, <2>2, <2>3, MissedStays DEF JournalGrows
<1>5. ASSUME NEW e \in Known, NEW k \in 1..NetOf(e), CorrectUsage(e, k) PROVE Missed => Missed'
  <2> DEFINE ts == TotalsOf(e)
             u == -k
  <2>1. NetOf(e) \in Int
    BY <1>1, JournalSums DEF NetOf, EntriesOf
  <2>2. k \in Nat /\ u \in Int
    BY <2>1
  <2>3. e \in Nat /\ ts \in SUBSET Totals
    BY <1>1 DEF Known, Post, TotalsOf, EntriesOf
  <2>4. PICK reduction \in {k} \union {settled[s] : s \in ts} :
          /\ \A n \in {k} \union {settled[s] : s \in ts} : reduction <= n
          /\ unmet' = [s \in Totals |-> IF s \in ts THEN unmet[s] + (k - reduction) ELSE unmet[s]]
    BY <1>5 DEF CorrectUsage
  <2>5. journal' = Append(journal, Entry(e, ts, u))
    BY <1>5 DEF CorrectUsage
  <2> HIDE DEF ts, u
  <2>6. reduction \in Nat /\ reduction <= k
    BY <1>1, <2>2, <2>3, <2>4
  <2>7. DOMAIN journal \in SUBSET DOMAIN journal' /\ \A j \in DOMAIN journal : journal'[j] = journal[j]
    BY <1>1, <2>2, <2>3, <2>5, Posted
  <2>8. \A s \in Totals : unmet'[s] \in Nat /\ unmet'[s] >= unmet[s]
    <3> SUFFICES ASSUME NEW s \in Totals PROVE unmet'[s] \in Nat /\ unmet'[s] >= unmet[s]
      OBVIOUS
    <3>1. unmet'[s] = (IF s \in ts THEN unmet[s] + (k - reduction) ELSE unmet[s]) /\ unmet[s] \in Nat
      BY <1>1, <2>4
    <3> QED
      BY <2>2, <2>6, <3>1
  <2> QED
    BY <2>7, <2>8, MissedStays DEF JournalGrows
<1>6. ASSUME NEW i \in DOMAIN invoices \union {Len(invoices) + 1}, InsertLines(i), UNCHANGED unmet
      PROVE  Missed => Missed'
  <2>1. DOMAIN journal' = DOMAIN journal /\ \A j \in DOMAIN journal : Copies(journal'[j], journal[j])
    BY <1>1, <1>6, AllInvoiced
  <2> QED
    BY <1>2, <1>6, <2>1, MissedStays DEF JournalGrows, Copies
<1>7. CASE UsageStep
  BY <1>4, <1>5, <1>7 DEF UsageStep
<1>8. CASE ClosePeriod
  <2>1. ASSUME NEW i \in DOMAIN invoices, AppendLate(i) PROVE Missed => Missed'
    BY <1>6, <2>1 DEF AppendLate
  <2>2. CASE IssueInvoice
    BY <1>6, <2>2 DEF IssueInvoice
  <2> QED
    BY <1>8, <2>1, <2>2 DEF ClosePeriod
<1>9. CASE PaymentStep
  <2>1. ASSUME NEW r, NEW amount, Resubmit(r, amount) \/ Reject(r) \/ AskClarification(r) \/ ApprovePayment(r)
        PROVE  UNCHANGED <<journal, unmet>>
    BY <2>1 DEF Resubmit, Reject, AskClarification, ApprovePayment, RequestsOnly
  <2>2. ASSUME NEW i, NEW amount, SubmitPayment(i, amount) PROVE UNCHANGED <<journal, unmet>>
    BY <2>2 DEF SubmitPayment, RequestsOnly
  <2>3. UNCHANGED <<journal, unmet>>
    BY <1>9, <2>1, <2>2 DEF PaymentStep
  <2> QED
    BY <1>3, <2>3
<1>10. CASE CreditStep
  BY <1>3, <1>10 DEF CreditStep, IssueCreditNote
<1>11. CASE UNCHANGED vars
  BY <1>3, <1>11 DEF vars
<1> QED
  BY <1>7, <1>8, <1>9, <1>10, <1>11 DEF InvoicesNext

(* One invoice changes to a row that stands.                                 *)
LEMMA OneStands ==
  ASSUME StandInv, invoices \in Seq(Bill), NEW i \in DOMAIN invoices, NEW inv \in Bill,
         invoices' = [invoices EXCEPT ![i] = inv], Missed => Missed',
         Stands(inv), inv.status # "credit_note"
  PROVE  Standing'
<1>1. /\ DOMAIN invoices' = DOMAIN invoices /\ invoices'[i] = inv
      /\ \A j \in DOMAIN invoices : j # i => invoices'[j] = invoices[j]
  BY BillChanges
<1>2. \A j \in DOMAIN invoices' :
        \/ Stands(invoices'[j]) /\ (invoices'[j].status = "credit_note" => Missed')
        \/ j \in DOMAIN invoices /\ invoices'[j] = invoices[j]
  BY <1>1
<1> QED
  BY <1>2, StandingFollows DEF StandInv

(* Nothing of the invoices changes, and no correction is forgotten.          *)
LEMMA SameStanding ==
  ASSUME Standing, Missed => Missed', UNCHANGED invoices
  PROVE  Standing'
BY StandingFollows

(* Late entries on the open invoice leave something outstanding, or nothing.  *)
LEMMA AppendStands ==
  ASSUME StandInv, NEW i \in DOMAIN invoices, AppendLate(i)
  PROVE  Standing'
<1> DEFINE t == invoices[i].total
           p == invoices[i].paid
           sum == t + UnbilledUnits
           status == StatusOf(sum, p)
           inv == Totalled(invoices[i], sum, status)
<1>1. ItemsInv /\ [InvoicesNext]_vars
  BY DEF StandInv, InvoicesNext, ClosePeriod
<1>2. invoices \in Seq(Bill) /\ invoices[i] \in Bill /\ (Missed => Missed')
  BY <1>1, NextTypes, MissedKept
<1>3. t \in Int /\ p \in Nat /\ UnbilledUnits \in Int /\ t - p >= 0
  <2>1. t \in Int /\ p \in Nat
    BY <1>2 DEF Bill
  <2>2. UnbilledUnits \in Int
    BY <1>1, BalanceTypes
  <2>3. t - p >= 0
    BY DEF StandInv, Standing, Outstanding, AppendLate, Open
  <2> QED
    BY <2>1, <2>2, <2>3
<1>4. sum \in Int /\ sum >= p
  BY <1>3 DEF AppendLate, AppendsTo, Outstanding
<1>5. invoices' = [invoices EXCEPT ![i] = inv]
  BY DEF AppendLate, Totalled
<1>6. status \in Statuses /\ status = StatusOf(sum, p) /\ invoices[i].paid = p
  BY StatusIsOne
<1>7. inv = Totalled(invoices[i], sum, status)
  OBVIOUS
<1> HIDE DEF inv, status, sum, p, t
<1>8. Stands(inv) /\ inv.status # "credit_note"
  BY <1>2, <1>3, <1>4, <1>6, <1>7, StatusStands
<1>9. inv \in Bill
  BY <1>2, <1>4, <1>6, <1>7, TotalledRow
<1> QED
  BY <1>2, <1>5, <1>8, <1>9, OneStands

(* A new invoice is a credit note only if a correction missed its debt.       *)
LEMMA IssueStands ==
  ASSUME StandInv, IssueInvoice
  PROVE  Standing'
<1> DEFINE inv == [total |-> UnbilledUnits, paid |-> 0,
                   status |-> IF UnbilledUnits >= 0 THEN "open" ELSE "credit_note"]
           m == Len(invoices)
<1>1. ItemsInv /\ [InvoicesNext]_vars
  BY DEF StandInv, InvoicesNext, ClosePeriod
<1>2. invoices \in Seq(Bill) /\ UnbilledUnits \in Int /\ 0 \in Nat /\ (Missed => Missed')
  BY <1>1, NextTypes, BalanceTypes, MissedKept
<1>3. UnbilledUnits < 0 => Missed
  <2>1. UnbilledUnits < 0 => \A i \in Open : ~AppendsTo(i, UnbilledUnits)
    BY DEF IssueInvoice
  <2> QED
    BY <2>1, LateFindsItsInvoice
<1>4. inv \in Bill /\ Stands(inv) /\ (inv.status = "credit_note" => Missed')
  <2>1. CASE UnbilledUnits >= 0
    BY <1>2, <2>1 DEF Stands, Bill
  <2>2. CASE UnbilledUnits < 0
    <3>1. Missed'
      BY <1>2, <1>3, <2>2
    <3>2. inv \in Bill /\ Stands(inv)
      BY <1>2, <2>2 DEF Stands, Bill
    <3> QED
      BY <3>1, <3>2
  <2> QED
    BY <1>2, <2>1, <2>2
<1>5. invoices' = Append(invoices, inv)
  BY DEF IssueInvoice
<1> HIDE DEF inv
<1>6. /\ invoices' \in Seq(Bill) /\ Len(invoices') = m + 1 /\ invoices'[m + 1] = inv
      /\ \A j \in 1..m : invoices'[j] = invoices[j]
  BY <1>2, <1>4, <1>5, AppendProperties
<1>7. m \in Nat /\ DOMAIN invoices = 1..m /\ DOMAIN invoices' = 1..(m + 1)
  BY <1>2, <1>6
<1>8. \A j \in DOMAIN invoices' : j \in DOMAIN invoices \/ j = m + 1
  BY <1>7
<1>9. \A j \in DOMAIN invoices' :
        \/ Stands(invoices'[j]) /\ (invoices'[j].status = "credit_note" => Missed')
        \/ j \in DOMAIN invoices /\ invoices'[j] = invoices[j]
  BY <1>4, <1>6, <1>7, <1>8
<1> QED
  BY <1>2, <1>9, StandingFollows DEF StandInv

(* An approval pays no more than is outstanding.                             *)
LEMMA ApproveStands ==
  ASSUME StandInv, NEW r \in DOMAIN requests, ApprovePayment(r)
  PROVE  Standing'
<1> DEFINE i == requests[r].invoice
           amount == requests[r].amount
           t == invoices[i].total
           sum == invoices[i].paid + amount
           status == IF sum = t THEN "paid" ELSE "partially_paid"
           inv == PaidUp(invoices[i], sum, status)
<1>1. ItemsInv /\ [InvoicesNext]_vars
  BY DEF StandInv, InvoicesNext, PaymentStep
<1>2. invoices \in Seq(Bill) /\ i \in DOMAIN invoices /\ invoices[i] \in Bill /\ (Missed => Missed')
  <2>1. i \in DOMAIN invoices
    BY DEF ApprovePayment, Payable, Open
  <2> QED
    BY <1>1, <2>1, NextTypes, MissedKept
<1>3. amount \in Nat
  <2>1. requests \in Seq(Request)
    BY <1>1, Types DEF ItemsInv
  <2>2. requests[r] \in Request
    BY <2>1
  <2> QED
    BY <2>2 DEF Request
<1>4. t \in Int /\ invoices[i].paid \in Nat
  BY <1>2 DEF Bill
<1>5. sum \in Nat /\ t - sum >= 0
  <2>1. amount <= t - invoices[i].paid
    BY DEF ApprovePayment, Payable, Outstanding
  <2> HIDE DEF t, amount, i
  <2> QED
    BY <1>3, <1>4, <2>1
<1>6. status \in Statuses /\ status \notin {"open", "credit_note"} /\ (status = "paid" => t = sum)
  BY DEF Statuses
<1>7. invoices' = [invoices EXCEPT ![i] = inv]
  BY DEF ApprovePayment, PaidUp
<1>8. inv = PaidUp(invoices[i], sum, status) /\ t = invoices[i].total
  OBVIOUS
<1> HIDE DEF inv, status, sum, t, amount, i
<1>9. inv \in Bill /\ inv.total = t /\ inv.paid = sum /\ inv.status = status
  BY SMTT(60), <1>2, <1>5, <1>6, <1>8, PaidRow
<1>10. Stands(inv) /\ inv.status # "credit_note"
  BY <1>4, <1>5, <1>6, <1>9 DEF Stands
<1> QED
  BY <1>2, <1>7, <1>9, <1>10, OneStands

(* And a credit note takes no more off.                                      *)
LEMMA CreditStands ==
  ASSUME StandInv, NEW i \in Open, NEW amount \in 1..Outstanding(i),
         NEW chosen \in {Eligible(i)} \union {{l} : l \in Eligible(i)}, IssueCreditNote(i, chosen, amount)
  PROVE  Standing'
<1> DEFINE t == invoices[i].total
           p == invoices[i].paid
           sum == t - amount
           status == StatusOf(sum, p)
           inv == Totalled(invoices[i], sum, status)
<1>1. ItemsInv /\ [InvoicesNext]_vars
  BY DEF StandInv, InvoicesNext, CreditStep
<1>2. invoices \in Seq(Bill) /\ i \in DOMAIN invoices /\ invoices[i] \in Bill /\ (Missed => Missed')
  <2>1. i \in DOMAIN invoices
    BY DEF Open
  <2> QED
    BY <1>1, <2>1, NextTypes, MissedKept
<1>3. t \in Int /\ p \in Nat
  BY <1>2 DEF Bill
<1>4. sum \in Int /\ sum >= p
  <2>1. Outstanding(i) = t - p
    BY DEF Outstanding
  <2> HIDE DEF t, p
  <2> QED
    BY <1>3, <2>1
<1>5. invoices' = [invoices EXCEPT ![i] = inv]
  BY DEF IssueCreditNote, Totalled
<1>6. status \in Statuses /\ status = StatusOf(sum, p) /\ invoices[i].paid = p
  BY StatusIsOne
<1>7. inv = Totalled(invoices[i], sum, status)
  OBVIOUS
<1> HIDE DEF inv, status, sum, p, t
<1>8. Stands(inv) /\ inv.status # "credit_note"
  BY <1>2, <1>3, <1>4, <1>6, <1>7, StatusStands
<1>9. inv \in Bill
  BY <1>2, <1>4, <1>6, <1>7, TotalledRow
<1> QED
  BY <1>2, <1>5, <1>8, <1>9, OneStands

(* Every command keeps the standing of the invoices.                         *)
LEMMA StandingNext == StandInv /\ [InvoicesNext]_vars => StandInv'
<1> SUFFICES ASSUME StandInv, [InvoicesNext]_vars PROVE Standing'
  BY ItemsNext, OpenNext DEF StandInv
<1>1. ItemsInv /\ Standing
  BY DEF StandInv
<1>2. Missed => Missed'
  BY <1>1, MissedKept
<1>3. CASE UNCHANGED invoices
  BY <1>1, <1>2, <1>3, SameStanding
<1>4. CASE UsageStep
  BY <1>3, <1>4 DEF UsageStep, ChargeUsage, CorrectUsage
<1>5. CASE ClosePeriod
  BY <1>5, AppendStands, IssueStands DEF ClosePeriod
<1>6. CASE PaymentStep
  <2>1. ASSUME NEW r, NEW amount, Resubmit(r, amount) \/ Reject(r) \/ AskClarification(r) PROVE UNCHANGED invoices
    BY <2>1 DEF Resubmit, Reject, AskClarification, RequestsOnly
  <2>2. ASSUME NEW i, NEW amount, SubmitPayment(i, amount) PROVE UNCHANGED invoices
    BY <2>2 DEF SubmitPayment, RequestsOnly
  <2> QED
    BY <1>3, <1>6, <2>1, <2>2, ApproveStands DEF PaymentStep
<1>7. CASE CreditStep
  <2>1. PICK i \in Open : \E amount \in 1..Outstanding(i),
          chosen \in {Eligible(i)} \union {{l} : l \in Eligible(i)} : IssueCreditNote(i, chosen, amount)
    BY <1>7 DEF CreditStep
  <2> QED
    BY <2>1, CreditStands
<1>8. CASE UNCHANGED vars
  BY <1>3, <1>8 DEF vars
<1> QED
  BY <1>4, <1>5, <1>6, <1>7, <1>8 DEF InvoicesNext

-----------------------------------------------------------------------------
(* The charges of an invoice have open what is outstanding of it: its other   *)
(* lines only take off.                                                      *)
LEMMA ChargesCoverIt ==
  ASSUME ItemsInv, NEW i \in DOMAIN invoices
  PROVE  Outstanding(i) <= OpenTotal(Eligible(i))
<1> DEFINE O == Own(lines, i)
           E == Eligible(i)
           R == O \ E
           open == [l \in DOMAIN lines |-> OpenUnits(l)]
           none == [l \in DOMAIN lines |-> 0]
<1>1. lines \in Seq(Line) /\ Anchored
  BY Types DEF ItemsInv
<1>2. /\ O \in SUBSET DOMAIN lines /\ E \in SUBSET DOMAIN lines /\ R \in SUBSET DOMAIN lines
      /\ O = E \union R /\ E \intersect R = {}
  BY DEF Own, Eligible
<1>3. \A l \in DOMAIN lines : /\ lines[l].units \in Int /\ lines[l].applied \in Int
                              /\ lines[l].credit \in BOOLEAN /\ Sound(lines[l])
  <2>1. \A l \in DOMAIN lines : lines[l] \in Line
    BY <1>1
  <2> QED
    BY <1>1, <2>1 DEF Line, Anchored
<1>4. \A l \in E : NetOfLines[l] = open[l]
  BY <1>3 DEF Eligible, Sound, NetOfLines, OpenUnits
<1>5. \A l \in R : NetOfLines[l] <= none[l] /\ none[l] = 0
  <2> SUFFICES ASSUME NEW l \in R PROVE NetOfLines[l] <= 0 /\ none[l] = 0
    BY <1>2
  <2>1. l \in DOMAIN lines /\ lines[l].units \in Int /\ lines[l].units <= 0 /\ lines[l].applied = 0
    BY <1>3 DEF Own, Eligible, Sound
  <2> QED
    BY <1>3, <2>1 DEF NetOfLines
<1>6. /\ IsFiniteSet(E) /\ IsFiniteSet(R) /\ SumFunctionOnSet(NetOfLines, E) \in Int
      /\ SumFunctionOnSet(NetOfLines, R) \in Int
      /\ (\A l \in E : NetOfLines[l] \in Int) /\ \A l \in R : NetOfLines[l] \in Int
  BY <1>1, <1>2, NetSums
<1>7. Balances[i] = SumFunctionOnSet(NetOfLines, O) /\ Balances[i] = Outstanding(i)
  BY BalanceIsOpen
<1>8. OpenTotal(E) = SumFunctionOnSet(open, E) /\ Eligible(i) = E
  BY DEF OpenTotal
<1> HIDE DEF open, none, O, E, R
<1>9. SumFunctionOnSet(NetOfLines, O) = SumFunctionOnSet(NetOfLines, E) + SumFunctionOnSet(NetOfLines, R)
  <2>1. \A l \in E \union R : NetOfLines[l] \in Int
    BY <1>6
  <2> QED
    BY <1>2, <1>6, <2>1, SumUnion
<1>10. SumFunctionOnSet(NetOfLines, E) = SumFunctionOnSet(open, E)
  BY <1>4, <1>6, SumEqual
<1>11. SumFunctionOnSet(NetOfLines, R) <= 0
  <2>1. SumFunctionOnSet(none, R) = 0
    BY <1>5, <1>6, SumZero
  <2>2. \A l \in R : NetOfLines[l] \in Int /\ none[l] \in Int /\ NetOfLines[l] <= none[l]
    BY <1>5, <1>6
  <2>3. SumFunctionOnSet(NetOfLines, R) <= SumFunctionOnSet(none, R)
    BY <1>6, <2>2, SumLess
  <2> QED
    BY <2>1, <2>3
<1> QED
  <2>1. Outstanding(i) = SumFunctionOnSet(NetOfLines, E) + SumFunctionOnSet(NetOfLines, R)
    BY <1>7, <1>9
  <2>2. OpenTotal(Eligible(i)) = SumFunctionOnSet(NetOfLines, E)
    BY <1>8, <1>10
  <2>3. SumFunctionOnSet(NetOfLines, E) \in Int /\ SumFunctionOnSet(NetOfLines, R) \in Int
    BY <1>6
  <2> QED
    BY <1>11, <2>1, <2>2, <2>3

(* A part of a sum that has no negative term is no more than the sum.         *)
LEMMA PartOfSum ==
  ASSUME NEW f, NEW S, IsFiniteSet(S), \A x \in S : f[x] \in Nat, NEW A \in SUBSET S
  PROVE  /\ SumFunctionOnSet(f, A) \in Nat /\ SumFunctionOnSet(f, S) \in Nat
         /\ SumFunctionOnSet(f, A) <= SumFunctionOnSet(f, S)
<1> DEFINE B == S \ A
<1>1. IsFiniteSet(A) /\ IsFiniteSet(B) /\ A \intersect B = {} /\ A \union B = S
      /\ (\A x \in A : f[x] \in Nat) /\ (\A x \in B : f[x] \in Nat) /\ \A x \in A \union B : f[x] \in Int
  BY FS_Subset
<1> HIDE DEF B
<1>2. SumFunctionOnSet(f, A) \in Nat /\ SumFunctionOnSet(f, B) \in Nat
  BY <1>1, SumNat
<1>3. SumFunctionOnSet(f, A \union B) = SumFunctionOnSet(f, A) + SumFunctionOnSet(f, B)
  BY <1>1, SumUnion
<1>4. SumFunctionOnSet(f, S) = SumFunctionOnSet(f, A) + SumFunctionOnSet(f, B)
  BY <1>1, <1>3
<1> QED
  BY <1>2, <1>4

(* What an amount takes from one total is no more than the amount, and no     *)
(* more than what is open of the lines that count in it.                     *)
LEMMA TakenIsPart ==
  ASSUME TypeOK, Anchored, NEW chosen \in SUBSET ChargedLines, NEW amount \in Nat,
         amount <= OpenTotal(chosen), NEW s \in Totals
  PROVE  /\ TakenFrom(s, chosen, amount) \in Nat /\ TakenFrom(s, chosen, amount) <= amount
         /\ TakenFrom(s, chosen, amount) <= OpenTotal(chosen \intersect CountedIn(lines, s))
         /\ OpenTotal(chosen \intersect CountedIn(lines, s)) \in Nat
<1> DEFINE share == [l \in DOMAIN lines |-> Share(l, chosen, amount)]
           open == [l \in DOMAIN lines |-> OpenUnits(l)]
           A == chosen \intersect CountedIn(lines, s)
<1>1. lines \in Seq(Line) /\ chosen \in SUBSET DOMAIN lines
  BY Types DEF ChargedLines
<1>2. IsFiniteSet(chosen) /\ A \in SUBSET chosen /\ IsFiniteSet(A)
  BY <1>1, TableIsFinite, FS_Subset
<1>3. /\ \A l \in chosen : share[l] \in Nat /\ share[l] <= OpenUnits(l)
      /\ SumFunctionOnSet(share, chosen) = amount
  <2>1. share = [l \in DOMAIN lines |-> Share(l, chosen, amount)]
    OBVIOUS
  <2> HIDE DEF share
  <2> QED
    BY <2>1, SharesAddUp
<1>4. \A l \in chosen : open[l] \in Nat /\ open[l] = OpenUnits(l)
  BY <1>1, OpenIsNat
<1>5. TakenFrom(s, chosen, amount) = SumFunctionOnSet(share, A) /\ OpenTotal(A) = SumFunctionOnSet(open, A)
  BY DEF TakenFrom, OpenTotal
<1> HIDE DEF share, open, A
<1>6. SumFunctionOnSet(share, A) \in Nat /\ SumFunctionOnSet(share, A) <= amount
  BY <1>2, <1>3, PartOfSum
<1>7. SumFunctionOnSet(share, A) <= SumFunctionOnSet(open, A)
  <2>1. \A l \in A : share[l] \in Int /\ open[l] \in Int /\ share[l] <= open[l]
    BY <1>2, <1>3, <1>4
  <2> QED
    BY <1>2, <2>1, SumLess
<1>8. SumFunctionOnSet(open, A) \in Nat
  BY <1>2, <1>4, SumNat
<1> QED
  BY <1>5, <1>6, <1>7, <1>8 DEF A

(* The debt of a total that all usage counts in covers what is outstanding,   *)
(* where every correction found the debt it reduces and is invoiced.         *)
LEMMA DebtCoversIt ==
  ASSUME StandInv, NEW s \in Totals, Met(s), NEW i \in Open
  PROVE  Outstanding(i) <= settled[s] /\ Outstanding(i) \in Nat /\ settled[s] \in Nat
<1> DEFINE R == Open \ {i}
           f == UnitsOf(journal)
<1>1. ItemsInv /\ journal \in Seq(Post) /\ Whole(s) /\ unmet[s] = 0
      /\ \A j \in Unbilled : journal[j].units > 0
  BY Types DEF StandInv, ItemsInv, Met, Whole
<1>1a. ~Missed
  BY <1>1 DEF Missed
<1>2. UnbilledUnits \in Nat
  <2>1. Unbilled \in SUBSET DOMAIN journal
    BY DEF Unbilled
  <2>2. IsFiniteSet(Unbilled) /\ \A j \in Unbilled : journal[j] \in Post
    BY <1>1, <2>1, TableIsFinite
  <2>3. \A j \in Unbilled : f[j] \in Nat
    <3>1. \A j \in Unbilled : f[j] = journal[j].units
      BY <2>1, Columns
    <3>2. \A j \in Unbilled : journal[j].units \in Int
      BY <2>2 DEF Post
    <3> HIDE DEF f
    <3> QED
      BY <1>1, <3>1, <3>2
  <2> HIDE DEF f
  <2>4. SumFunctionOnSet(f, Unbilled) \in Nat
    BY <2>2, <2>3, SumNat
  <2> QED
    BY <2>4 DEF UnbilledUnits, f
<1>3. /\ \A o \in Open : Balances[o] \in Nat
      /\ Open \in SUBSET DOMAIN invoices /\ IsFiniteSet(Open)
      /\ SumFunctionOnSet(Balances, DOMAIN invoices) = SumFunctionOnSet(Balances, Open)
  BY <1>1a, OthersAreSettled
<1>4. settled[s] = SumFunctionOnSet(Balances, Open) + UnbilledUnits + unmet[s] /\ settled[s] \in Nat
  <2>1. settled[s] = SumFunctionOnSet(Balances, DOMAIN invoices) + UnbilledUnits + unmet[s] /\ settled[s] \in Nat
    BY <1>1, DebtIsOutstanding
  <2> QED
    BY <1>3, <2>1
<1>5. SumFunctionOnSet(Balances, Open) = Balances[i] + SumFunctionOnSet(Balances, R)
  <2>1. \A o \in Open : Balances[o] \in Int
    BY <1>3
  <2> QED
    BY <1>3, <2>1, SumTake
<1>6. SumFunctionOnSet(Balances, R) \in Nat
  <2>1. IsFiniteSet(R) /\ \A o \in R : Balances[o] \in Nat
    BY <1>3, FS_Subset
  <2> HIDE DEF R
  <2> QED
    BY <2>1, SumNat
<1>7. Balances[i] = Outstanding(i) /\ Balances[i] \in Nat
  BY <1>3 DEF Balances
<1> DEFINE x == settled[s]
<1>8. x = SumFunctionOnSet(Balances, Open) + UnbilledUnits + 0 /\ x \in Nat
  BY <1>1, <1>4
<1> HIDE DEF R, x
<1>9. Outstanding(i) <= x
  BY <1>2, <1>5, <1>6, <1>7, <1>8
<1> QED
  BY <1>7, <1>8, <1>9 DEF x

(* A total without corrections is at least what is open of its lines.         *)
LEMMA ChargesAreOwed ==
  ASSUME ItemsInv, NEW s \in Totals, Uncorrected(s), NEW chosen \in SUBSET ChargedLines
  PROVE  /\ OpenTotal(chosen \intersect CountedIn(lines, s)) <= settled[s]
         /\ settled[s] \in Nat
<1> DEFINE C == CountedIn(journal, s)
           L == C \intersect Unbilled
           B == C \ Unbilled
           f == UnitsOf(journal)
           P == CountedIn(lines, s)
           u == UnitsOf(lines)
           a == AppliedOf(lines)
           open == [l \in DOMAIN lines |-> OpenUnits(l)]
           A == chosen \intersect P
<1>1. /\ TypeOK /\ settled \in [Totals -> Nat] /\ unmet \in [Totals -> Nat]
      /\ journal \in Seq(Post) /\ lines \in Seq(Line)
      /\ Anchored /\ Copied /\ Billed /\ DebtIsAccounted
  BY Types DEF ItemsInv
<1>2. \A l \in P : ~lines[l].credit /\ lines[l].units > 0
  <2> SUFFICES ASSUME NEW l \in P PROVE ~lines[l].credit /\ lines[l].units > 0
    OBVIOUS
  <2>1. l \in DOMAIN lines /\ s \in lines[l].totals
    BY DEF CountedIn
  <2>2. ~lines[l].credit
    BY <1>1, <2>1 DEF Copied
  <2>3. PICK j \in DOMAIN journal : Copies(lines[l], journal[j])
    BY <1>1, <2>1, <2>2 DEF Copied
  <2>4. journal[j].units > 0
    BY <2>1, <2>3 DEF Uncorrected, CountedIn, Copies
  <2> QED
    BY <2>2, <2>3, <2>4 DEF Copies
<1>3. P \in SUBSET ChargedLines /\ P \in SUBSET DOMAIN lines /\ PlainIn(lines, s) = P /\ IsFiniteSet(P)
  <2>1. P \in SUBSET DOMAIN lines
    BY DEF CountedIn
  <2> QED
    BY <1>1, <1>2, <2>1, LineSums DEF PlainIn, ChargedLines
<1>4. \A l \in P : /\ open[l] \in Nat /\ a[l] \in Int /\ u[l] \in Int /\ u[l] = open[l] + a[l]
  <2> SUFFICES ASSUME NEW l \in P
               PROVE  open[l] \in Nat /\ a[l] \in Int /\ u[l] \in Int /\ u[l] = open[l] + a[l]
    OBVIOUS
  <2>1. OpenUnits(l) \in Nat /\ lines[l].applied \in Nat /\ lines[l].units \in Int
    BY <1>1, <1>3, OpenIsNat
  <2>2. a[l] = lines[l].applied /\ u[l] = lines[l].units /\ open[l] = OpenUnits(l)
    BY <1>3, Columns
  <2>3. OpenUnits(l) = lines[l].units - lines[l].applied
    BY DEF OpenUnits
  <2> HIDE DEF a, u, open
  <2> QED
    BY <2>1, <2>2, <2>3
<1>5. \A j \in C : f[j] \in Nat
  <2> SUFFICES ASSUME NEW j \in C PROVE f[j] \in Nat
    OBVIOUS
  <2>1. j \in DOMAIN journal /\ journal[j].units > 0
    BY DEF Uncorrected, CountedIn
  <2>2. journal[j].units \in Int
    <3>1. journal[j] \in Post
      BY <1>1, <2>1
    <3> QED
      BY <3>1 DEF Post
  <2>3. f[j] = journal[j].units
    BY <2>1, Columns
  <2> HIDE DEF f
  <2> QED
    BY <2>1, <2>2, <2>3
<1>6. /\ C = B \union L /\ B \intersect L = {} /\ C \in SUBSET DOMAIN journal
      /\ B \in SUBSET DOMAIN journal /\ L \in SUBSET DOMAIN journal
  BY DEF CountedIn
<1>7. IsFiniteSet(B) /\ IsFiniteSet(L)
  BY <1>1, <1>6, JournalSums
<1>8. settled[s] = SumFunctionOnSet(f, C) - SumFunctionOnSet(a, P) + unmet[s]
      /\ settled[s] \in Nat /\ unmet[s] \in Nat
  BY <1>1 DEF DebtIsAccounted
<1>9. SumFunctionOnSet(u, P) = SumFunctionOnSet(f, B)
  <2>1. UsageOf(lines, s) = BilledOf(s)
    BY <1>1 DEF Billed
  <2> QED
    BY <1>3, <2>1 DEF UsageOf, BilledOf
<1>10. OpenTotal(A) = SumFunctionOnSet(open, A) /\ A \in SUBSET P
  BY DEF OpenTotal
<1> DEFINE x == settled[s]
           y == unmet[s]
<1>11. x = SumFunctionOnSet(f, C) - SumFunctionOnSet(a, P) + y /\ x \in Nat /\ y \in Nat
  BY <1>8
<1> HIDE DEF C, L, B, f, P, u, a, open, A, x, y
<1>12. SumFunctionOnSet(f, C) = SumFunctionOnSet(f, B) + SumFunctionOnSet(f, L)
  <2>1. \A j \in B \union L : f[j] \in Int
    BY <1>5, <1>6
  <2> QED
    BY <1>6, <1>7, <2>1, SumUnion
<1>13. SumFunctionOnSet(f, B) \in Nat /\ SumFunctionOnSet(f, L) \in Nat
  BY <1>5, <1>6, <1>7, SumNat
<1>14. SumFunctionOnSet(u, P) = SumFunctionOnSet(open, P) + SumFunctionOnSet(a, P)
  <2>1. \A l \in P : open[l] \in Int /\ a[l] \in Int /\ u[l] = open[l] + a[l]
    BY <1>4
  <2> QED
    BY <1>3, <2>1, SumPlus
<1>15. SumFunctionOnSet(open, A) <= SumFunctionOnSet(open, P) /\ SumFunctionOnSet(open, A) \in Nat
       /\ SumFunctionOnSet(open, P) \in Nat
  BY <1>3, <1>4, <1>10, PartOfSum
<1>16. SumFunctionOnSet(a, P) \in Int
  BY <1>3, <1>4, SumType
<1>17. SumFunctionOnSet(open, A) <= x
  BY <1>9, <1>11, <1>12, <1>13, <1>14, <1>15, <1>16
<1> QED
  BY <1>10, <1>11, <1>17 DEF A, P, x

(* What is payable can be approved: its lines suffice, and a total refuses it *)
(* only for its corrections, one that has all usage and found the debt of     *)
(* each not even then (applyPayment, reverseSettledExposure).                *)
THEOREM PayableStaysAccepted == InvoicesSpec => []PayableIsAccepted
<1>1. InvoicesInit => StandInv
  <2>1. InvoicesInit => Standing
    BY DEF InvoicesInit, Standing
  <2> QED
    BY <2>1, ItemsInit, OpenInit DEF StandInv
<1>2. StandInv => PayableIsAccepted
  <2> SUFFICES ASSUME StandInv, NEW i \in Open, NEW amount \in 1..Outstanding(i)
               PROVE  /\ amount <= OpenTotal(Eligible(i))
                      /\ \A s \in Totals : Uncorrected(s) \/ Met(s) => TakenFrom(s, Eligible(i), amount) <= settled[s]
    BY DEF PayableIsAccepted
  <2> DEFINE E == Eligible(i)
  <2>1. /\ ItemsInv /\ TypeOK /\ Anchored /\ i \in DOMAIN invoices /\ E \in SUBSET ChargedLines
        /\ E \in SUBSET DOMAIN lines
    BY DEF StandInv, ItemsInv, Open, Eligible, ChargedLines
  <2>2. Outstanding(i) \in Int /\ amount \in Nat /\ amount <= Outstanding(i)
    <3>1. Outstanding(i) \in Int
      BY <2>1, BalanceIsOpen
    <3> QED
      BY <3>1
  <2>3. OpenTotal(E) \in Int
    <3> DEFINE open == [l \in DOMAIN lines |-> OpenUnits(l)]
    <3>1. IsFiniteSet(E) /\ \A l \in E : open[l] \in Int
      <4>1. IsFiniteSet(E)
        BY <2>1, Types, TableIsFinite
      <4> QED
        BY <2>1, <4>1, OpenIsNat
    <3> HIDE DEF open, E
    <3>2. SumFunctionOnSet(open, E) \in Int
      BY <3>1, SumType
    <3> QED
      BY <3>2 DEF OpenTotal, open
  <2>4. amount <= OpenTotal(E)
    <3>1. Outstanding(i) <= OpenTotal(E)
      BY <2>1, ChargesCoverIt
    <3> HIDE DEF E
    <3> QED
      BY <2>2, <2>3, <3>1
  <2>5. ASSUME NEW s \in Totals, Uncorrected(s) PROVE TakenFrom(s, E, amount) <= settled[s]
    <3> HIDE DEF E
    <3>1. /\ TakenFrom(s, E, amount) \in Nat /\ OpenTotal(E \intersect CountedIn(lines, s)) \in Nat
          /\ TakenFrom(s, E, amount) <= OpenTotal(E \intersect CountedIn(lines, s))
      BY <2>1, <2>2, <2>4, TakenIsPart
    <3>2. OpenTotal(E \intersect CountedIn(lines, s)) <= settled[s] /\ settled[s] \in Nat
      BY <2>1, <2>5, ChargesAreOwed
    <3> QED
      BY <3>1, <3>2
  <2>6. ASSUME NEW s \in Totals, Met(s) PROVE TakenFrom(s, E, amount) <= settled[s]
    <3> HIDE DEF E
    <3>1. TakenFrom(s, E, amount) \in Nat /\ TakenFrom(s, E, amount) <= amount
      BY <2>1, <2>2, <2>4, TakenIsPart
    <3>2. Outstanding(i) <= settled[s] /\ Outstanding(i) \in Nat /\ settled[s] \in Nat
      BY <2>6, DebtCoversIt
    <3> QED
      BY <2>2, <3>1, <3>2
  <2> QED
    BY <2>4, <2>5, <2>6
<1> QED
  BY <1>1, <1>2, StandingNext, PTL DEF InvoicesSpec

-----------------------------------------------------------------------------
(* Billing mail *)

Tries(d) == row[d].attempts

(* Claims are numbered from one, and no claim is newer than its row. *)
Numbered ==
  /\ \A d \in Deliveries : row[d].status = "absent" => Tries(d) = 0
  /\ \A w \in Workers : worker[w].at # "idle" =>
       1 <= worker[w].claim.attempt /\ worker[w].claim.attempt <= Tries(worker[w].claim.delivery)
  /\ \A c \in accepted : 1 <= c.attempt /\ c.attempt <= Tries(c.delivery)

(* No two workers work under one claim. *)
OneHolder ==
  \A w, v \in Workers :
    worker[w].at # "idle" /\ worker[v].at # "idle" /\ worker[w].claim = worker[v].claim => w = v

(* The last claim of a row is worked on only while the row is leased. *)
LeasedToHolder ==
  \A w \in Workers : worker[w].at # "idle" =>
    LET d == worker[w].claim.delivery IN
    worker[w].claim = Last(d) => row[d].status = "leased"

(* What a worker knows of its mail. *)
Heard ==
  \A w \in Workers :
    /\ worker[w].at = "sending" => worker[w].claim \notin accepted
    /\ worker[w].at = "settling" =>
         IF worker[w].result = "submitted" THEN worker[w].claim \in accepted
                                           ELSE worker[w].claim \notin accepted \ unheard

MailInv == MailTypeOK /\ Numbered /\ OneHolder /\ LeasedToHolder /\ Heard /\ StatusIsTrue

------------------------------------------------------------------------------
(* Shapes *)

LEMMA WorkerShape ==
  ASSUME NEW x \in Worker
  PROVE  /\ x.at \in {"idle", "sending", "settling"}
         /\ x.at # "idle" => /\ x.claim \in Claims
                             /\ x.claim.delivery \in Deliveries /\ x.claim.attempt \in Nat
                             /\ x.claim = [delivery |-> x.claim.delivery, attempt |-> x.claim.attempt]
         /\ x.at = "settling" => x.result \in {"submitted", "retryable", "failed"}
BY DEF Worker, Claims

LEMMA SettlingShape ==
  ASSUME NEW c \in Claims, NEW r \in {"submitted", "retryable", "failed"}
  PROVE  [at |-> "settling", claim |-> c, result |-> r] \in Worker
BY DEF Worker

LEMMA SendingShape ==
  ASSUME NEW c \in Claims
  PROVE  [at |-> "sending", claim |-> c] \in Worker
BY DEF Worker

LEMMA IdleShape == Idle \in Worker /\ Idle.at = "idle"
BY DEF Worker, Idle

LEMMA RowShape ==
  ASSUME NEW r \in Row
  PROVE  /\ r.status \in {"absent", "pending", "leased", "submitted", "dead_letter"}
         /\ r.attempts \in Nat /\ r.ready \in BOOLEAN /\ r.lapsed \in BOOLEAN
BY DEF Row, Final

------------------------------------------------------------------------------
(* Types *)

LEMMA TypeInit == EmailInit => MailTypeOK
BY EmailAssumption DEF EmailInit, MailTypeOK, Row, Final, Worker, Idle

(* A changed row and a changed worker keep the types. *)
LEMMA RowTyped ==
  ASSUME MailTypeOK, NEW d \in Deliveries, NEW r \in Row, row' = [row EXCEPT ![d] = r]
  PROVE  row' \in [Deliveries -> Row]
BY DEF MailTypeOK

LEMMA WorkerTyped ==
  ASSUME MailTypeOK, NEW w \in Workers, NEW x \in Worker, worker' = [worker EXCEPT ![w] = x]
  PROVE  worker' \in [Workers -> Worker]
BY DEF MailTypeOK

LEMMA FaultTyped ==
  ASSUME MailTypeOK, Fault PROVE faults' \in 0..MaxFaults
BY EmailAssumption DEF MailTypeOK, Fault

LEMMA SettledTyped ==
  ASSUME NEW r \in Row, NEW result
  PROVE  /\ Settled(r, result) \in Row
         /\ Settled(r, result).attempts = r.attempts
         /\ Settled(r, result).status \in {"submitted", "pending", "dead_letter"}
         /\ Settled(r, result).status = "submitted" <=> result = "submitted"
<1>1. \A st \in {"submitted", "pending", "dead_letter"} :
        /\ [r EXCEPT !.status = st] \in Row
        /\ [r EXCEPT !.status = st].attempts = r.attempts
        /\ [r EXCEPT !.status = st].status = st
  BY DEF Row, Final
<1>2. CASE result = "submitted"
  BY <1>1, <1>2 DEF Settled
<1>3. CASE result = "retryable" /\ r.attempts < MaxAttempts
  BY <1>1, <1>3 DEF Settled
<1>4. CASE result # "submitted" /\ ~(result = "retryable" /\ r.attempts < MaxAttempts)
  BY <1>1, <1>4 DEF Settled
<1> QED
  BY <1>2, <1>3, <1>4

LEMMA TypeNext == MailTypeOK /\ [EmailNext]_mailVars => MailTypeOK'
<1> SUFFICES ASSUME MailTypeOK, [EmailNext]_mailVars PROVE MailTypeOK'
  OBVIOUS
<1>1. ASSUME NEW d \in Deliveries, Enqueue(d) PROVE MailTypeOK'
  <2>1. [row[d] EXCEPT !.status = "pending", !.ready = TRUE] \in Row
    BY DEF MailTypeOK, Row
  <2>2. row' = [row EXCEPT ![d] = [row[d] EXCEPT !.status = "pending", !.ready = TRUE]]
    BY <1>1 DEF Enqueue
  <2>3. row' \in [Deliveries -> Row]
    BY <2>1, <2>2, RowTyped
  <2> QED
    BY <1>1, <2>3 DEF Enqueue, MailTypeOK, history
<1>2. ASSUME NEW d \in Deliveries, BackoffEnds(d) PROVE MailTypeOK'
  <2>1. [row[d] EXCEPT !.ready = TRUE] \in Row
    BY DEF MailTypeOK, Row
  <2>2. row' = [row EXCEPT ![d] = [row[d] EXCEPT !.ready = TRUE]]
    BY <1>2 DEF BackoffEnds
  <2>3. row' \in [Deliveries -> Row]
    BY <2>1, <2>2, RowTyped
  <2> QED
    BY <1>2, <2>3 DEF BackoffEnds, MailTypeOK, history
<1>3. ASSUME NEW d \in Deliveries, LeaseEnds(d) PROVE MailTypeOK'
  <2>1. [row[d] EXCEPT !.lapsed = TRUE] \in Row
    BY DEF MailTypeOK, Row
  <2>2. row' = [row EXCEPT ![d] = [row[d] EXCEPT !.lapsed = TRUE]]
    BY <1>3 DEF LeaseEnds
  <2>3. row' \in [Deliveries -> Row]
    BY <2>1, <2>2, RowTyped
  <2>4. faults' \in 0..MaxFaults
    BY <1>3, FaultTyped DEF LeaseEnds, MailTypeOK
  <2> QED
    BY <1>3, <2>3, <2>4 DEF LeaseEnds, MailTypeOK, history
<1>4. ASSUME NEW w \in Workers, NEW d \in Deliveries, Claim(w, d) PROVE MailTypeOK'
  <2>1. row[d].attempts + 1 \in Nat
    BY RowShape DEF MailTypeOK
  <2> DEFINE r == [status |-> "leased", attempts |-> row[d].attempts + 1, ready |-> FALSE, lapsed |-> FALSE]
  <2>2. r \in Row
    BY <2>1 DEF Row
  <2>3. [delivery |-> d, attempt |-> row[d].attempts + 1] \in Claims
    BY <2>1 DEF Claims
  <2>4. row' \in [Deliveries -> Row]
    BY <1>4, <2>2, RowTyped DEF Claim
  <2>5. worker' \in [Workers -> Worker]
    BY <1>4, <2>3, SendingShape, WorkerTyped DEF Claim
  <2> QED
    BY <1>4, <2>4, <2>5 DEF Claim, MailTypeOK, history
<1>5. ASSUME NEW w \in Workers, worker[w].at = "sending",
             NEW result \in {"submitted", "retryable", "failed"}, Answered(w, result)
      PROVE  worker' \in [Workers -> Worker] /\ worker[w].claim \in Claims
  <2>1. worker[w].claim \in Claims
    BY <1>5, WorkerShape DEF MailTypeOK
  <2>2. [at |-> "settling", claim |-> worker[w].claim, result |-> result] \in Worker
    BY <2>1, SettlingShape
  <2> QED
    BY <1>5, <2>1, <2>2, WorkerTyped DEF Answered
<1>6. ASSUME NEW w \in Workers, MailAccepted(w) PROVE MailTypeOK'
  <2>1. worker' \in [Workers -> Worker] /\ worker[w].claim \in Claims
    BY <1>5, <1>6 DEF MailAccepted
  <2> QED
    BY <1>6, <2>1 DEF MailAccepted, MailTypeOK
<1>7. ASSUME NEW w \in Workers, AnswerLost(w) PROVE MailTypeOK'
  <2>1. worker' \in [Workers -> Worker] /\ worker[w].claim \in Claims
    BY <1>5, <1>7 DEF AnswerLost
  <2>2. faults' \in 0..MaxFaults
    BY <1>7, FaultTyped DEF AnswerLost
  <2> QED
    BY <1>7, <2>1, <2>2 DEF AnswerLost, MailTypeOK
<1>8. ASSUME NEW w \in Workers, MailRefused(w) PROVE MailTypeOK'
  <2>1. worker' \in [Workers -> Worker]
    BY <1>5, <1>8 DEF MailRefused
  <2> QED
    BY <1>8, <2>1 DEF MailRefused, MailTypeOK, history
<1>9. ASSUME NEW w \in Workers, Settle(w) PROVE MailTypeOK'
  <2> DEFINE d == worker[w].claim.delivery
  <2>1. d \in Deliveries
    BY <1>9, WorkerShape DEF Settle, MailTypeOK
  <2>2. Settled(row[d], worker[w].result) \in Row
    BY <2>1, SettledTyped DEF MailTypeOK
  <2>3. row' = [row EXCEPT ![d] = Settled(row[d], worker[w].result)]
    BY <1>9 DEF Settle
  <2>4. row' \in [Deliveries -> Row]
    BY <2>1, <2>2, <2>3, RowTyped
  <2>5. worker' \in [Workers -> Worker]
    BY <1>9, IdleShape, WorkerTyped DEF Settle
  <2> QED
    BY <1>9, <2>4, <2>5 DEF Settle, MailTypeOK, history
<1>10. ASSUME NEW w \in Workers, LeaseLost(w) PROVE MailTypeOK'
  <2>1. worker' \in [Workers -> Worker]
    BY <1>10, IdleShape, WorkerTyped DEF LeaseLost
  <2> QED
    BY <1>10, <2>1 DEF LeaseLost, MailTypeOK, history
<1>11. ASSUME NEW w \in Workers, WorkerDies(w) PROVE MailTypeOK'
  <2>1. worker' \in [Workers -> Worker]
    BY <1>11, IdleShape, WorkerTyped DEF WorkerDies
  <2>2. faults' \in 0..MaxFaults
    BY <1>11, FaultTyped DEF WorkerDies
  <2> QED
    BY <1>11, <2>1, <2>2 DEF WorkerDies, MailTypeOK, history
<1>12. CASE UNCHANGED mailVars
  BY <1>12 DEF mailVars, MailTypeOK
<1> QED
  BY <1>1, <1>2, <1>3, <1>4, <1>6, <1>7, <1>8, <1>9, <1>10, <1>11, <1>12
  DEF EmailNext, WorkerStep

(* Rows, workers and the history keep their types: no claim without a         *)
(* delivery, no attempt that is not counted (claim, settle).                 *)
THEOREM MailTypes == EmailSpec => []MailTypeOK
<1> QED
  BY TypeInit, TypeNext, PTL DEF EmailSpec

------------------------------------------------------------------------------
(* The steps of the strengthened invariant *)

(* A row is changed, its attempts stay, and it does not stop being leased.    *)
LEMMA RowKeeps ==
  ASSUME MailInv, NEW d \in Deliveries, NEW r \in Row,
         row' = [row EXCEPT ![d] = r], UNCHANGED <<worker, accepted, unheard>>,
         r.attempts = row[d].attempts, r.status # "absent",
         row[d].status = "leased" => r.status = "leased",
         r.status = "submitted" => Last(d) \in accepted,
         r.status \in {"pending", "dead_letter"} => Last(d) \notin accepted \ unheard
  PROVE  Numbered' /\ OneHolder' /\ LeasedToHolder' /\ Heard' /\ StatusIsTrue'
<1>1. \A e \in Deliveries : row'[e] = IF e = d THEN r ELSE row[e]
  BY DEF MailInv, MailTypeOK
<1>2. \A e \in Deliveries : Tries(e)' = Tries(e) /\ Last(e)' = Last(e)
  BY <1>1 DEF Tries, Last
<1>3. \A w \in Workers : worker[w].at # "idle" => worker[w].claim.delivery \in Deliveries
  BY WorkerShape DEF MailInv, MailTypeOK
<1>4. \A c \in accepted : c.delivery \in Deliveries
  BY DEF MailInv, MailTypeOK, Claims
<1>5. Numbered'
  BY <1>1, <1>2, <1>3, <1>4 DEF MailInv, Numbered
<1>6. OneHolder'
  BY DEF MailInv, OneHolder
<1>7. LeasedToHolder'
  BY <1>1, <1>2, <1>3 DEF MailInv, LeasedToHolder
<1>8. Heard'
  BY DEF MailInv, Heard
<1>9. StatusIsTrue'
  BY <1>1, <1>2 DEF MailInv, StatusIsTrue
<1> QED
  BY <1>5, <1>6, <1>7, <1>8, <1>9

(* A worker gives its claim up. *)
LEMMA IdleKeeps ==
  ASSUME MailInv, NEW w \in Workers, worker' = [worker EXCEPT ![w] = Idle],
         UNCHANGED <<row, accepted, unheard>>
  PROVE  Numbered' /\ OneHolder' /\ LeasedToHolder' /\ Heard' /\ StatusIsTrue'
<1>1. \A v \in Workers : worker'[v] = IF v = w THEN Idle ELSE worker[v]
  BY DEF MailInv, MailTypeOK
<1>2. \A v \in Workers : worker'[v].at # "idle" => v # w /\ worker'[v] = worker[v]
  BY <1>1, IdleShape
<1>3. Numbered'
  BY <1>2 DEF MailInv, Numbered, Tries
<1>4. OneHolder'
  BY <1>2 DEF MailInv, OneHolder
<1>5. LeasedToHolder'
  BY <1>2 DEF MailInv, LeasedToHolder, Last
<1>6. Heard'
  BY <1>2 DEF MailInv, Heard
<1>7. StatusIsTrue'
  BY DEF MailInv, StatusIsTrue, Last
<1> QED
  BY <1>3, <1>4, <1>5, <1>6, <1>7

(* A worker learns what became of its mail. *)
LEMMA AnswerKeeps ==
  ASSUME MailInv, NEW w \in Workers, worker[w].at = "sending", NEW result, Answered(w, result),
         UNCHANGED row,
         accepted' = accepted \/ accepted' = accepted \union {worker[w].claim},
         unheard' = unheard \/ unheard' = unheard \union {worker[w].claim},
         IF result = "submitted" THEN worker[w].claim \in accepted'
                                 ELSE worker[w].claim \notin accepted' \ unheard'
  PROVE  Numbered' /\ OneHolder' /\ LeasedToHolder' /\ Heard' /\ StatusIsTrue'
<1> DEFINE c == worker[w].claim
<1>1. \A v \in Workers : v # w => worker'[v] = worker[v]
  BY DEF MailInv, MailTypeOK, Answered
<1>2. worker'[w].at = "settling" /\ worker'[w].claim = c /\ worker'[w].result = result
  BY DEF MailInv, MailTypeOK, Answered
<1>3. \A v \in Workers : (worker'[v].at # "idle" <=> worker[v].at # "idle")
                         /\ (worker'[v].at # "idle" => worker'[v].claim = worker[v].claim)
  BY <1>1, <1>2
<1>4. \A v \in Workers : v # w /\ worker[v].at # "idle" => worker[v].claim # c
  BY DEF MailInv, OneHolder
<1>5. c.delivery \in Deliveries /\ c.attempt \in Nat
      /\ c = [delivery |-> c.delivery, attempt |-> c.attempt]
  BY WorkerShape DEF MailInv, MailTypeOK
<1>6. 1 <= c.attempt /\ c.attempt <= Tries(c.delivery)
  BY DEF MailInv, Numbered
<1>7. Numbered'
  BY <1>3, <1>6 DEF MailInv, Numbered, Tries
<1>8. OneHolder'
  BY <1>3 DEF MailInv, OneHolder
<1>9. LeasedToHolder'
  BY <1>3 DEF MailInv, LeasedToHolder, Last
<1>10. Heard'
  <2> SUFFICES ASSUME NEW v \in Workers
               PROVE  /\ worker'[v].at = "sending" => worker'[v].claim \notin accepted'
                      /\ worker'[v].at = "settling" =>
                           IF worker'[v].result = "submitted" THEN worker'[v].claim \in accepted'
                                             ELSE worker'[v].claim \notin accepted' \ unheard'
    BY DEF Heard
  <2>1. CASE v = w
    BY <1>2, <2>1
  <2>2. CASE v # w
    BY <1>1, <1>4, <2>2 DEF MailInv, Heard
  <2> QED
    BY <2>1, <2>2
<1>11. StatusIsTrue'
  <2> SUFFICES ASSUME NEW d \in Deliveries
               PROVE  /\ row[d].status = "submitted" => Last(d) \in accepted'
                      /\ row[d].status \in {"pending", "dead_letter"} =>
                           Last(d) \notin accepted' \ unheard'
    BY DEF StatusIsTrue, Last
  <2>1. row[d].status # "leased" => Last(d) # c
    BY DEF MailInv, LeasedToHolder, Last
  <2> QED
    BY <2>1 DEF MailInv, StatusIsTrue
<1> QED
  BY <1>7, <1>8, <1>9, <1>10, <1>11

(* A claim: a number nobody has, for a row nobody holds by its new number. *)
LEMMA ClaimKeeps ==
  ASSUME MailInv, NEW w \in Workers, NEW d \in Deliveries, Claim(w, d)
  PROVE  Numbered' /\ OneHolder' /\ LeasedToHolder' /\ Heard' /\ StatusIsTrue'
<1> DEFINE c == [delivery |-> d, attempt |-> row[d].attempts + 1]
<1>1. row[d].attempts \in Nat /\ \A e \in Deliveries : row[e].attempts \in Nat
  BY RowShape DEF MailInv, MailTypeOK
<1>2. \A e \in Deliveries : e # d => row'[e] = row[e]
  BY DEF MailInv, MailTypeOK, Claim
<1>3. row'[d].status = "leased" /\ row'[d].attempts = row[d].attempts + 1
  BY DEF MailInv, MailTypeOK, Claim
<1>4. \A v \in Workers : v # w => worker'[v] = worker[v]
  BY DEF MailInv, MailTypeOK, Claim
<1>5. worker'[w].at = "sending" /\ worker'[w].claim = c
  BY DEF MailInv, MailTypeOK, Claim
<1>6. accepted' = accepted /\ unheard' = unheard
  BY DEF Claim, history
<1>7. \A v \in Workers : worker[v].at # "idle" =>
        /\ worker[v].claim.delivery \in Deliveries /\ worker[v].claim.attempt \in Nat
        /\ worker[v].claim.attempt <= row[worker[v].claim.delivery].attempts
        /\ 1 <= worker[v].claim.attempt
  BY WorkerShape DEF MailInv, MailTypeOK, Numbered, Tries
<1>8. \A o \in accepted : /\ o.delivery \in Deliveries /\ o.attempt \in Nat
                          /\ o.attempt <= row[o.delivery].attempts /\ 1 <= o.attempt
  BY DEF MailInv, MailTypeOK, Claims, Numbered, Tries
<1>9. \A v \in Workers : worker[v].at # "idle" => worker[v].claim # c
  BY <1>1, <1>7
<1>10. c \notin accepted
  BY <1>1, <1>8
<1>11. Numbered'
  <2>1. \A e \in Deliveries : row[e].attempts <= row'[e].attempts
    BY <1>1, <1>2, <1>3
  <2>2. \A e \in Deliveries : row'[e].status = "absent" => row'[e].attempts = 0
    BY <1>2, <1>3 DEF MailInv, Numbered, Tries
  <2>3. \A e \in Deliveries : row'[e].attempts \in Nat
    BY <1>1, <1>2, <1>3
  <2>4. \A v \in Workers : worker'[v].at # "idle" =>
          1 <= worker'[v].claim.attempt
          /\ worker'[v].claim.attempt <= row'[worker'[v].claim.delivery].attempts
    <3> SUFFICES ASSUME NEW v \in Workers, worker'[v].at # "idle"
                 PROVE  1 <= worker'[v].claim.attempt
                        /\ worker'[v].claim.attempt <= row'[worker'[v].claim.delivery].attempts
      OBVIOUS
    <3>1. CASE v = w
      BY <1>1, <1>3, <1>5, <3>1
    <3>2. CASE v # w
      BY <1>1, <1>4, <1>7, <2>1, <2>3, <3>2
    <3> QED
      BY <3>1, <3>2
  <2>5. \A o \in accepted : 1 <= o.attempt /\ o.attempt <= row'[o.delivery].attempts
    BY <1>1, <1>8, <2>1, <2>3
  <2> QED
    BY <1>6, <2>2, <2>4, <2>5 DEF Numbered, Tries
<1>12. OneHolder'
  BY <1>4, <1>5, <1>9 DEF MailInv, OneHolder
<1>13. LeasedToHolder'
  <2> SUFFICES ASSUME NEW v \in Workers, worker'[v].at # "idle",
                      worker'[v].claim = [delivery |-> worker'[v].claim.delivery,
                                          attempt |-> row'[worker'[v].claim.delivery].attempts]
               PROVE  row'[worker'[v].claim.delivery].status = "leased"
    BY DEF LeasedToHolder, Last
  <2>1. CASE worker'[v].claim.delivery = d
    BY <1>3, <2>1
  <2>2. CASE worker'[v].claim.delivery # d
    <3>1. v # w /\ worker'[v] = worker[v]
      BY <1>4, <1>5, <2>2
    <3>2. row'[worker[v].claim.delivery] = row[worker[v].claim.delivery]
      BY <1>2, <1>7, <2>2, <3>1
    <3> QED
      BY <3>1, <3>2 DEF MailInv, LeasedToHolder, Last
  <2> QED
    BY <2>1, <2>2
<1>14. Heard'
  BY <1>4, <1>5, <1>6, <1>10 DEF MailInv, Heard
<1>15. StatusIsTrue'
  BY <1>2, <1>3, <1>6 DEF MailInv, StatusIsTrue, Last
<1> QED
  BY <1>11, <1>12, <1>13, <1>14, <1>15

(* The holder of the lease settles it: what it writes is what it heard. *)
LEMMA SettleKeeps ==
  ASSUME MailInv, NEW w \in Workers, Settle(w)
  PROVE  Numbered' /\ OneHolder' /\ LeasedToHolder' /\ Heard' /\ StatusIsTrue'
<1> DEFINE d == worker[w].claim.delivery
           r == Settled(row[d], worker[w].result)
<1>1. d \in Deliveries /\ worker[w].claim = Last(d) /\ row[d] \in Row
  BY WorkerShape DEF MailInv, MailTypeOK, Settle, Holds, Last
<1>2. \A e \in Deliveries : row'[e] = IF e = d THEN r ELSE row[e]
  BY DEF MailInv, MailTypeOK, Settle
<1>3. /\ r.attempts = row[d].attempts
      /\ r.status \in {"submitted", "pending", "dead_letter"}
      /\ r.status = "submitted" <=> worker[w].result = "submitted"
  BY <1>1, SettledTyped
<1>4. \A v \in Workers : worker'[v] = IF v = w THEN Idle ELSE worker[v]
  BY DEF MailInv, MailTypeOK, Settle
<1>5. \A v \in Workers : worker'[v].at # "idle" => v # w /\ worker'[v] = worker[v]
  BY <1>4, IdleShape
<1>6. accepted' = accepted /\ unheard' = unheard
  BY DEF Settle, history
<1>7. \A e \in Deliveries : row'[e].attempts = row[e].attempts /\ Last(e)' = Last(e)
  BY <1>2, <1>3 DEF Last
<1>8. \A v \in Workers : worker[v].at # "idle" => worker[v].claim.delivery \in Deliveries
  BY WorkerShape DEF MailInv, MailTypeOK
<1>9. \A c \in accepted : c.delivery \in Deliveries
  BY DEF MailInv, MailTypeOK, Claims
<1>10. Numbered'
  BY <1>2, <1>3, <1>5, <1>6, <1>7, <1>8, <1>9 DEF MailInv, Numbered, Tries
<1>11. OneHolder'
  BY <1>5 DEF MailInv, OneHolder
<1>12. LeasedToHolder'
  <2> SUFFICES ASSUME NEW v \in Workers, worker'[v].at # "idle",
                      worker'[v].claim = [delivery |-> worker'[v].claim.delivery,
                                          attempt |-> row'[worker'[v].claim.delivery].attempts]
               PROVE  row'[worker'[v].claim.delivery].status = "leased"
    BY DEF LeasedToHolder, Last
  <2>1. v # w /\ worker'[v] = worker[v] /\ worker[v].claim.delivery \in Deliveries
    BY <1>5, <1>8
  <2>2. worker[v].claim = Last(worker[v].claim.delivery)
    BY <1>7, <2>1 DEF Last
  <2>3. worker[w].at # "idle"
    BY DEF Settle
  <2>4. worker[v].claim.delivery # d
    <3> SUFFICES ASSUME worker[v].claim.delivery = d PROVE FALSE
      OBVIOUS
    <3>1. worker[v].claim = worker[w].claim
      BY <1>1, <2>2
    <3> QED
      BY <2>1, <2>3, <3>1 DEF MailInv, OneHolder
  <2> QED
    BY <1>2, <2>1, <2>2, <2>4 DEF MailInv, LeasedToHolder
<1>13. Heard'
  BY <1>5, <1>6 DEF MailInv, Heard
<1>14. StatusIsTrue'
  <2>1. worker[w].at = "settling"
    BY DEF Settle
  <2>2. r.status = "submitted" => Last(d) \in accepted
    BY <1>1, <1>3, <2>1 DEF MailInv, Heard
  <2>3. r.status # "submitted" => Last(d) \notin accepted \ unheard
    BY <1>1, <1>3, <2>1 DEF MailInv, Heard
  <2> QED
    BY <1>2, <1>6, <1>7, <2>2, <2>3 DEF MailInv, StatusIsTrue
<1> QED
  BY <1>10, <1>11, <1>12, <1>13, <1>14

(* Every step keeps it. *)
LEMMA MailNext == MailInv /\ [EmailNext]_mailVars => MailInv'
<1> SUFFICES ASSUME MailInv, [EmailNext]_mailVars PROVE MailInv'
  OBVIOUS
<1> DEFINE Rest == Numbered /\ OneHolder /\ LeasedToHolder /\ Heard /\ StatusIsTrue
<1>1. MailTypeOK'
  BY TypeNext DEF MailInv
<1>2. ASSUME NEW d \in Deliveries, Enqueue(d) PROVE Rest'
  <2> DEFINE r == [row[d] EXCEPT !.status = "pending", !.ready = TRUE]
  <2>1. r \in Row /\ r.attempts = row[d].attempts /\ r.status = "pending"
    BY DEF MailInv, MailTypeOK, Row
  <2>2. Last(d) \notin accepted
    BY <1>2 DEF Enqueue, MailInv, Numbered, Tries, Last
  <2>3. row' = [row EXCEPT ![d] = r] /\ UNCHANGED <<worker, accepted, unheard>>
    BY <1>2 DEF Enqueue, history
  <2>4. row[d].status # "leased"
    BY <1>2 DEF Enqueue
  <2> QED
    BY <2>1, <2>2, <2>3, <2>4, RowKeeps
<1>3. ASSUME NEW d \in Deliveries, BackoffEnds(d) PROVE Rest'
  <2> DEFINE r == [row[d] EXCEPT !.ready = TRUE]
  <2>1. r \in Row /\ r.attempts = row[d].attempts /\ r.status = "pending"
    BY <1>3 DEF MailInv, MailTypeOK, Row, BackoffEnds
  <2>2. Last(d) \notin accepted \ unheard
    BY <1>3 DEF BackoffEnds, MailInv, StatusIsTrue
  <2>3. row' = [row EXCEPT ![d] = r] /\ UNCHANGED <<worker, accepted, unheard>>
    BY <1>3 DEF BackoffEnds, history
  <2>4. row[d].status # "leased"
    BY <1>3 DEF BackoffEnds
  <2> QED
    BY <2>1, <2>2, <2>3, <2>4, RowKeeps
<1>4. ASSUME NEW d \in Deliveries, LeaseEnds(d) PROVE Rest'
  <2> DEFINE r == [row[d] EXCEPT !.lapsed = TRUE]
  <2>1. r \in Row /\ r.attempts = row[d].attempts /\ r.status = "leased"
    BY <1>4 DEF MailInv, MailTypeOK, Row, LeaseEnds
  <2>2. row' = [row EXCEPT ![d] = r] /\ UNCHANGED <<worker, accepted, unheard>>
    BY <1>4 DEF LeaseEnds, history
  <2> QED
    BY <2>1, <2>2, RowKeeps
<1>5. ASSUME NEW w \in Workers, NEW d \in Deliveries, Claim(w, d) PROVE Rest'
  BY <1>5, ClaimKeeps
<1>6. ASSUME NEW w \in Workers, MailAccepted(w) PROVE Rest'
  BY <1>6, AnswerKeeps DEF MailAccepted
<1>7. ASSUME NEW w \in Workers, AnswerLost(w) PROVE Rest'
  <2>1. worker[w].claim \notin accepted' \ unheard'
    BY <1>7 DEF AnswerLost
  <2> QED
    BY <1>7, <2>1, AnswerKeeps DEF AnswerLost
<1>8. ASSUME NEW w \in Workers, MailRefused(w) PROVE Rest'
  <2>1. PICK result \in {"retryable", "failed"} : Answered(w, result)
    BY <1>8 DEF MailRefused
  <2>2. worker[w].at = "sending" /\ UNCHANGED <<row, accepted, unheard>>
    BY <1>8 DEF MailRefused, history
  <2>3. worker[w].claim \notin accepted' \ unheard'
    BY <2>2 DEF MailInv, Heard
  <2> QED
    BY <2>1, <2>2, <2>3, AnswerKeeps
<1>9. ASSUME NEW w \in Workers, Settle(w) PROVE Rest'
  BY <1>9, SettleKeeps
<1>10. ASSUME NEW w \in Workers, LeaseLost(w) PROVE Rest'
  BY <1>10, IdleKeeps DEF LeaseLost, history
<1>11. ASSUME NEW w \in Workers, WorkerDies(w) PROVE Rest'
  BY <1>11, IdleKeeps DEF WorkerDies, history
<1>12. ASSUME UNCHANGED mailVars PROVE Rest'
  BY <1>12 DEF mailVars, MailInv, Numbered, Tries, OneHolder, LeasedToHolder, Heard, StatusIsTrue, Last
<1>13. Rest'
  BY <1>2, <1>3, <1>4, <1>5, <1>6, <1>7, <1>8, <1>9, <1>10, <1>11, <1>12
  DEF EmailNext, WorkerStep
<1> QED
  BY <1>1, <1>13 DEF MailInv

(* Nothing is claimed at first. *)
LEMMA MailInit == EmailInit => MailInv
<1> SUFFICES ASSUME EmailInit PROVE MailInv
  OBVIOUS
<1>1. MailTypeOK
  BY TypeInit
<1> QED
  BY <1>1 DEF EmailInit, Idle, MailInv, Numbered, Tries, OneHolder, LeasedToHolder, Heard, StatusIsTrue

(* A row says the truth of the mail of its last claim, however workers die,   *)
(* answers are lost and leases run out under a worker that is still sending. *)
THEOREM MailStatusIsTrue == EmailSpec => []StatusIsTrue
<1>1. MailInv => StatusIsTrue
  BY DEF MailInv
<1> QED
  BY <1>1, MailInit, MailNext, PTL DEF EmailSpec

------------------------------------------------------------------------------
(* One mail per fault *)

(* The last claim of a row, and its holder, in one state or the next.        *)
LastIn(rows, d) == [delivery |-> d, attempt |-> rows[d].attempts]

HeldIn(rows, workers, w, d) ==
  /\ rows[d].status = "leased"
  /\ workers[w].at # "idle"
  /\ workers[w].claim = LastIn(rows, d)

(* A set of claims that were spoiled, each by a fault of its own: whoever     *)
(* crashed with it, outlived its lease or lost its answer. A claim that was   *)
(* superseded is one of them, whether its worker is still at it or its mail   *)
(* was taken; and so is a claim whose row anybody may claim again.           *)
PaidIn(S, rows, workers, mails, lost) ==
  /\ \A c \in mails : c = LastIn(rows, c.delivery) \/ c \in S
  /\ \A w \in Workers : workers[w].at # "idle" =>
       workers[w].claim = LastIn(rows, workers[w].claim.delivery) \/ workers[w].claim \in S
  /\ \A d \in Deliveries : rows[d].status = "leased" =>
       LastIn(rows, d) \in S \/ (~rows[d].lapsed /\ \E w \in Workers : HeldIn(rows, workers, w, d))
  /\ lost \subseteq S

Paid(S) == PaidIn(S, row, worker, accepted, unheard)

FaultsPay == \E S \in SUBSET Claims : IsFiniteSet(S) /\ Cardinality(S) <= faults /\ Paid(S)

SentInv == MailInv /\ FaultsPay

(* A fault pays for one more claim.                                          *)
LEMMA OneMorePaid ==
  ASSUME NEW S \in SUBSET Claims, IsFiniteSet(S), Cardinality(S) <= faults, faults \in Nat,
         NEW c \in Claims, faults' = faults + 1
  PROVE  /\ S \union {c} \in SUBSET Claims /\ IsFiniteSet(S \union {c})
         /\ Cardinality(S \union {c}) <= faults'
<1>1. /\ IsFiniteSet(S \union {c}) /\ Cardinality(S) \in Nat
      /\ Cardinality(S \union {c}) = IF c \in S THEN Cardinality(S) ELSE Cardinality(S) + 1
  BY FS_AddElement, FS_CardinalityType
<1>2. Cardinality(S \union {c}) <= Cardinality(S) + 1
  BY <1>1
<1> QED
  BY <1>1, <1>2

(* What a row's own steps change of it: not its last claim.                  *)
LEMMA RowStep ==
  ASSUME MailTypeOK, NEW d \in Deliveries, NEW r, row' = [row EXCEPT ![d] = r], r.attempts = row[d].attempts
  PROVE  /\ row'[d] = r /\ \A e \in Deliveries : e # d => row'[e] = row[e]
         /\ \A e \in Deliveries : LastIn(row', e) = LastIn(row, e)
<1>1. row'[d] = r /\ \A e \in Deliveries : e # d => row'[e] = row[e]
  BY DEF MailTypeOK
<1> QED
  BY <1>1 DEF Last, LastIn

(* A row is asked for, waits, or its lease ends; the workers go on.          *)
LEMMA RowPays ==
  ASSUME MailInv, NEW S, Paid(S), NEW T, S \subseteq T, NEW d \in Deliveries, NEW r,
         row' = [row EXCEPT ![d] = r], r.attempts = row[d].attempts,
         r.status = "leased" => LastIn(row, d) \in T,
         UNCHANGED <<worker, accepted, unheard>>
  PROVE  PaidIn(T, row', worker', accepted', unheard')
<1>1. /\ row'[d] = r /\ \A e \in Deliveries : e # d => row'[e] = row[e]
      /\ \A e \in Deliveries : LastIn(row', e) = LastIn(row, e)
  BY RowStep DEF MailInv
<1>2. \A c \in accepted : c.delivery \in Deliveries
  BY DEF MailInv, MailTypeOK, Claims
<1>3. \A w \in Workers : worker[w].at # "idle" => worker[w].claim.delivery \in Deliveries
  BY WorkerShape DEF MailInv, MailTypeOK
<1>4. \A c \in accepted' : c = LastIn(row', c.delivery) \/ c \in T
  BY <1>1, <1>2 DEF Paid, PaidIn
<1>5. \A w \in Workers : worker'[w].at # "idle" =>
        worker'[w].claim = LastIn(row', worker'[w].claim.delivery) \/ worker'[w].claim \in T
  BY <1>1, <1>3 DEF Paid, PaidIn
<1>6. \A e \in Deliveries : row'[e].status = "leased" =>
        LastIn(row', e) \in T \/ (~row'[e].lapsed /\ \E w \in Workers : HeldIn(row', worker', w, e))
  <2> SUFFICES ASSUME NEW e \in Deliveries, row'[e].status = "leased", LastIn(row', e) \notin T
               PROVE  ~row'[e].lapsed /\ \E w \in Workers : HeldIn(row', worker', w, e)
    OBVIOUS
  <2>1. e # d /\ row'[e] = row[e] /\ LastIn(row, e) \notin S
    BY <1>1
  <2>2. ~row[e].lapsed /\ \E w \in Workers : HeldIn(row, worker, w, e)
    BY <2>1 DEF Paid, PaidIn
  <2> QED
    BY <2>1, <2>2 DEF Holds, HeldIn, Last, LastIn
<1> QED
  BY <1>4, <1>5, <1>6 DEF Paid, PaidIn

(* A worker goes on with its claim, or gives it up; what it holds is then paid. *)
LEMMA WorkerPays ==
  ASSUME MailInv, NEW S, Paid(S), NEW T, S \subseteq T, NEW w \in Workers, NEW x,
         worker[w].at # "idle", worker' = [worker EXCEPT ![w] = x],
         x.at # "idle" => x.claim = worker[w].claim,
         x.at = "idle" => worker[w].claim \in T \/ ~HeldIn(row, worker, w, worker[w].claim.delivery),
         accepted' = accepted \/ accepted' = accepted \union {worker[w].claim},
         unheard' = unheard \/ (unheard' = unheard \union {worker[w].claim} /\ worker[w].claim \in T),
         UNCHANGED row
  PROVE  PaidIn(T, row', worker', accepted', unheard')
<1>1. worker'[w] = x /\ \A v \in Workers : v # w => worker'[v] = worker[v]
  BY DEF MailInv, MailTypeOK
<1>2. \A e : LastIn(row', e) = LastIn(row, e)
  BY DEF Last, LastIn
<1>3. \A c \in accepted' : c = LastIn(row', c.delivery) \/ c \in T
  BY <1>2 DEF Paid, PaidIn
<1>4. \A v \in Workers : worker'[v].at # "idle" =>
        worker'[v].claim = LastIn(row', worker'[v].claim.delivery) \/ worker'[v].claim \in T
  BY <1>1, <1>2 DEF Paid, PaidIn
<1>5. \A e \in Deliveries : row'[e].status = "leased" =>
        LastIn(row', e) \in T \/ (~row'[e].lapsed /\ \E v \in Workers : HeldIn(row', worker', v, e))
  <2> SUFFICES ASSUME NEW e \in Deliveries, row[e].status = "leased", LastIn(row, e) \notin T
               PROVE  ~row[e].lapsed /\ \E v \in Workers : HeldIn(row', worker', v, e)
    BY <1>2
  <2>1. PICK v \in Workers : ~row[e].lapsed /\ HeldIn(row, worker, v, e)
    BY DEF Paid, PaidIn
  <2>2. worker[v].claim = LastIn(row, e) /\ worker[v].claim.delivery = e
    BY <2>1 DEF Holds, HeldIn, Last, LastIn
  <2>3. CASE v # w
    BY <1>1, <2>1, <2>3 DEF Holds, HeldIn, Last, LastIn
  <2>4. CASE v = w
    <3>1. x.at # "idle"
      BY <2>1, <2>2, <2>4
    <3> QED
      BY <1>1, <2>1, <2>4, <3>1 DEF Holds, HeldIn, Last, LastIn
  <2> QED
    BY <2>1, <2>3, <2>4
<1>6. unheard' \subseteq T
  BY DEF Paid, PaidIn
<1> QED
  BY <1>3, <1>4, <1>5, <1>6 DEF Paid, PaidIn

(* A claim finds the one before it paid for.                                 *)
LEMMA ClaimPays ==
  ASSUME MailInv, NEW S, Paid(S), NEW w \in Workers, NEW d \in Deliveries, Claim(w, d)
  PROVE  PaidIn(S, row', worker', accepted', unheard')
<1> DEFINE c == [delivery |-> d, attempt |-> row[d].attempts + 1]
<1>1. /\ row'[d].status = "leased" /\ row'[d].attempts = row[d].attempts + 1 /\ row'[d].lapsed = FALSE
      /\ \A e \in Deliveries : e # d => row'[e] = row[e]
      /\ worker'[w].at = "sending" /\ worker'[w].claim = c
      /\ \A v \in Workers : v # w => worker'[v] = worker[v]
      /\ accepted' = accepted /\ unheard' = unheard /\ worker[w].at = "idle"
  BY DEF MailInv, MailTypeOK, Claim, history
<1>2. LastIn(row', d) = c /\ \A e \in Deliveries : e # d => LastIn(row', e) = LastIn(row, e)
  BY <1>1 DEF Last, LastIn
<1>3. LastIn(row, d) \in accepted => LastIn(row, d) \in S
  <2>1. CASE row[d].status = "pending"
    BY <2>1 DEF MailInv, StatusIsTrue, Paid, PaidIn, Last, LastIn
  <2>2. CASE row[d].status = "leased" /\ row[d].lapsed
    BY <2>2 DEF Paid, PaidIn
  <2> QED
    BY <2>1, <2>2 DEF Claim, Claimable
<1>4. ASSUME NEW v \in Workers, worker[v].at # "idle", worker[v].claim = LastIn(row, d) PROVE LastIn(row, d) \in S
  <2>1. worker[v].claim.delivery = d
    BY <1>4 DEF Last, LastIn
  <2>2. row[d].status = "leased"
    BY <1>4, <2>1 DEF MailInv, LeasedToHolder, Last, LastIn
  <2> QED
    BY <2>2 DEF Claim, Claimable, Paid, PaidIn
<1>5. \A o \in accepted' : o = LastIn(row', o.delivery) \/ o \in S
  <2> SUFFICES ASSUME NEW o \in accepted PROVE o = LastIn(row', o.delivery) \/ o \in S
    BY <1>1
  <2>1. o.delivery \in Deliveries
    BY DEF MailInv, MailTypeOK, Claims
  <2>2. o = LastIn(row, o.delivery) \/ o \in S
    BY DEF Paid, PaidIn
  <2> QED
    BY <1>2, <1>3, <2>1, <2>2
<1>6. \A v \in Workers : worker'[v].at # "idle" =>
        worker'[v].claim = LastIn(row', worker'[v].claim.delivery) \/ worker'[v].claim \in S
  <2> SUFFICES ASSUME NEW v \in Workers, worker'[v].at # "idle"
               PROVE  worker'[v].claim = LastIn(row', worker'[v].claim.delivery) \/ worker'[v].claim \in S
    OBVIOUS
  <2>1. CASE v = w
    BY <1>1, <1>2, <2>1
  <2>2. CASE v # w
    <3>1. worker'[v] = worker[v] /\ worker[v].at # "idle"
      BY <1>1, <2>2
    <3>2. worker[v].claim.delivery \in Deliveries
      BY <3>1, WorkerShape DEF MailInv, MailTypeOK
    <3>3. worker[v].claim = LastIn(row, worker[v].claim.delivery) \/ worker[v].claim \in S
      BY <3>1 DEF Paid, PaidIn
    <3> QED
      BY <1>2, <1>4, <3>1, <3>2, <3>3
  <2> QED
    BY <2>1, <2>2
<1>7. \A e \in Deliveries : row'[e].status = "leased" =>
        LastIn(row', e) \in S \/ (~row'[e].lapsed /\ \E v \in Workers : HeldIn(row', worker', v, e))
  <2> SUFFICES ASSUME NEW e \in Deliveries, row'[e].status = "leased", LastIn(row', e) \notin S
               PROVE  ~row'[e].lapsed /\ \E v \in Workers : HeldIn(row', worker', v, e)
    OBVIOUS
  <2>1. CASE e = d
    BY <1>1, <2>1 DEF Holds, HeldIn, Last, LastIn
  <2>2. CASE e # d
    <3>1. row'[e] = row[e] /\ LastIn(row, e) \notin S
      BY <1>1, <1>2, <2>2
    <3>2. PICK v \in Workers : ~row[e].lapsed /\ HeldIn(row, worker, v, e)
      BY <3>1 DEF Paid, PaidIn
    <3>3. v # w
      BY <1>1, <3>2 DEF Holds, HeldIn, Last, LastIn
    <3> QED
      BY <1>1, <3>1, <3>2, <3>3 DEF Holds, HeldIn, Last, LastIn
  <2> QED
    BY <2>1, <2>2
<1>8. unheard' \subseteq S
  BY <1>1 DEF Paid, PaidIn
<1> QED
  BY <1>5, <1>6, <1>7, <1>8 DEF Paid, PaidIn

(* The holder settles, and gives a claim up that needs nobody any more.      *)
LEMMA SettlePays ==
  ASSUME MailInv, NEW S, Paid(S), NEW w \in Workers, Settle(w)
  PROVE  PaidIn(S, row', worker', accepted', unheard')
<1> DEFINE d == worker[w].claim.delivery
           r == Settled(row[d], worker[w].result)
<1>1. d \in Deliveries /\ worker[w].claim = LastIn(row, d) /\ row[d] \in Row
  BY WorkerShape DEF MailInv, MailTypeOK, Settle, Holds, HeldIn, Last, LastIn
<1>2. r.attempts = row[d].attempts /\ r.status # "leased"
  BY <1>1, SettledTyped
<1>3. /\ row'[d] = r /\ \A e \in Deliveries : e # d => row'[e] = row[e]
      /\ \A e \in Deliveries : LastIn(row', e) = LastIn(row, e)
  BY <1>1, <1>2, RowStep DEF Settle, MailInv
<1>4. /\ \A v \in Workers : worker'[v].at # "idle" => v # w /\ worker'[v] = worker[v]
      /\ \A v \in Workers : v # w => worker'[v] = worker[v]
      /\ accepted' = accepted /\ unheard' = unheard
  BY IdleShape DEF MailInv, MailTypeOK, Settle, history
<1>5. \A c \in accepted : c.delivery \in Deliveries
  BY DEF MailInv, MailTypeOK, Claims
<1>6. \A v \in Workers : worker[v].at # "idle" => worker[v].claim.delivery \in Deliveries
  BY WorkerShape DEF MailInv, MailTypeOK
<1>7. \A c \in accepted' : c = LastIn(row', c.delivery) \/ c \in S
  BY <1>3, <1>4, <1>5 DEF Paid, PaidIn
<1>8. \A v \in Workers : worker'[v].at # "idle" =>
        worker'[v].claim = LastIn(row', worker'[v].claim.delivery) \/ worker'[v].claim \in S
  BY <1>3, <1>4, <1>6 DEF Paid, PaidIn
<1>9. \A e \in Deliveries : row'[e].status = "leased" =>
        LastIn(row', e) \in S \/ (~row'[e].lapsed /\ \E v \in Workers : HeldIn(row', worker', v, e))
  <2> SUFFICES ASSUME NEW e \in Deliveries, row'[e].status = "leased", LastIn(row', e) \notin S
               PROVE  ~row'[e].lapsed /\ \E v \in Workers : HeldIn(row', worker', v, e)
    OBVIOUS
  <2>1. e # d /\ row'[e] = row[e] /\ LastIn(row, e) \notin S
    BY <1>2, <1>3
  <2>2. PICK v \in Workers : ~row[e].lapsed /\ HeldIn(row, worker, v, e)
    BY <2>1 DEF Paid, PaidIn
  <2>3. worker[v].claim.delivery = e
    BY <2>2 DEF Holds, HeldIn, Last, LastIn
  <2>4. v # w /\ worker'[v] = worker[v]
    BY <1>4, <2>1, <2>3
  <2> QED
    BY <2>1, <2>2, <2>4 DEF Holds, HeldIn, Last, LastIn
<1> QED
  BY <1>4, <1>7, <1>8, <1>9 DEF Paid, PaidIn

(* The claim of a worker that is busy is a claim.                            *)
LEMMA BusyClaims ==
  ASSUME MailInv, NEW w \in Workers, worker[w].at # "idle"
  PROVE  worker[w].claim \in Claims
BY WorkerShape DEF MailInv, MailTypeOK

(* Every step keeps the faults paying.                                       *)
LEMMA FaultsNext == SentInv /\ [EmailNext]_mailVars => FaultsPay'
<1> SUFFICES ASSUME SentInv, [EmailNext]_mailVars PROVE FaultsPay'
  OBVIOUS
<1>1. MailInv /\ MailTypeOK /\ faults \in Nat
  BY DEF SentInv, MailInv, MailTypeOK
<1>2. PICK S \in SUBSET Claims : IsFiniteSet(S) /\ Cardinality(S) <= faults /\ Paid(S)
  BY DEF SentInv, FaultsPay
<1>3. UNCHANGED faults /\ PaidIn(S, row', worker', accepted', unheard') => FaultsPay'
  BY <1>2 DEF FaultsPay, Paid, PaidIn
<1>4. ASSUME NEW c \in Claims, faults' = faults + 1, PaidIn(S \union {c}, row', worker', accepted', unheard') PROVE FaultsPay'
  BY <1>1, <1>2, <1>4, OneMorePaid DEF FaultsPay, Paid, PaidIn
<1>5. ASSUME NEW d \in Deliveries, Enqueue(d) PROVE FaultsPay'
  <2> DEFINE r == [row[d] EXCEPT !.status = "pending", !.ready = TRUE]
  <2>1. r.attempts = row[d].attempts /\ r.status # "leased"
    BY <1>1 DEF MailTypeOK, Row
  <2>2. row' = [row EXCEPT ![d] = r] /\ UNCHANGED <<worker, accepted, unheard, faults>>
    BY <1>5 DEF Enqueue, history
  <2> HIDE DEF r
  <2> QED
    BY <1>1, <1>2, <1>3, <2>1, <2>2, RowPays
<1>6. ASSUME NEW d \in Deliveries, BackoffEnds(d) PROVE FaultsPay'
  <2> DEFINE r == [row[d] EXCEPT !.ready = TRUE]
  <2>1. r.attempts = row[d].attempts /\ r.status # "leased"
    BY <1>1, <1>6 DEF MailTypeOK, Row, BackoffEnds
  <2>2. row' = [row EXCEPT ![d] = r] /\ UNCHANGED <<worker, accepted, unheard, faults>>
    BY <1>6 DEF BackoffEnds, history
  <2> HIDE DEF r
  <2> QED
    BY <1>1, <1>2, <1>3, <2>1, <2>2, RowPays
<1>7. ASSUME NEW d \in Deliveries, LeaseEnds(d) PROVE FaultsPay'
  <2> DEFINE r == [row[d] EXCEPT !.lapsed = TRUE]
  <2>1. r.attempts = row[d].attempts
    BY <1>1 DEF MailTypeOK, Row
  <2>2. row' = [row EXCEPT ![d] = r] /\ UNCHANGED <<worker, accepted, unheard>> /\ row[d].status = "leased"
    BY <1>7 DEF LeaseEnds, history
  <2> HIDE DEF r
  <2>3. CASE \E w \in Workers : HeldIn(row, worker, w, d)
    <3>1. faults' = faults + 1
      BY <1>7, <2>3 DEF LeaseEnds, Fault, Holds, HeldIn, Last, LastIn
    <3>2. LastIn(row, d) \in Claims
      BY <1>1, RowShape DEF MailTypeOK, Last, LastIn, Claims
    <3>3. PaidIn(S \union {LastIn(row, d)}, row', worker', accepted', unheard')
      <4> DEFINE T == S \union {LastIn(row, d)}
      <4>1. S \subseteq T /\ LastIn(row, d) \in T
        OBVIOUS
      <4> HIDE DEF T
      <4>2. PaidIn(T, row', worker', accepted', unheard')
        BY <1>1, <1>2, <2>1, <2>2, <4>1, RowPays
      <4> QED
        BY <4>2 DEF T
    <3> QED
      BY <1>4, <3>1, <3>2, <3>3
  <2>4. CASE ~\E w \in Workers : HeldIn(row, worker, w, d)
    <3>1. UNCHANGED faults
      BY <1>7, <2>4 DEF LeaseEnds, Holds, HeldIn, Last, LastIn
    <3>2. LastIn(row, d) \in S
      BY <1>2, <2>2, <2>4 DEF Paid, PaidIn
    <3> QED
      BY <1>1, <1>2, <1>3, <2>1, <2>2, <3>1, <3>2, RowPays
  <2> QED
    BY <2>3, <2>4
<1>8. ASSUME NEW w \in Workers, NEW d \in Deliveries, Claim(w, d) PROVE FaultsPay'
  BY <1>1, <1>2, <1>3, <1>8, ClaimPays DEF Claim
<1>9. ASSUME NEW w \in Workers, NEW result, worker[w].at = "sending", Answered(w, result),
             UNCHANGED <<row, unheard, faults>>,
             accepted' = accepted \/ accepted' = accepted \union {worker[w].claim}
      PROVE  FaultsPay'
  <2> DEFINE x == [at |-> "settling", claim |-> worker[w].claim, result |-> result]
  <2>1. worker' = [worker EXCEPT ![w] = x] /\ x.at # "idle" /\ x.claim = worker[w].claim
    BY <1>9 DEF Answered
  <2> HIDE DEF x
  <2> QED
    BY <1>1, <1>2, <1>3, <1>9, <2>1, WorkerPays
<1>10. ASSUME NEW w \in Workers, MailAccepted(w) PROVE FaultsPay'
  BY <1>9, <1>10 DEF MailAccepted
<1>11. ASSUME NEW w \in Workers, MailRefused(w) PROVE FaultsPay'
  BY <1>9, <1>11 DEF MailRefused, history
<1>12. ASSUME NEW w \in Workers, AnswerLost(w) PROVE FaultsPay'
  <2> DEFINE c == worker[w].claim
             x == [at |-> "settling", claim |-> c, result |-> "retryable"]
             T == S \union {c}
  <2>1. worker' = [worker EXCEPT ![w] = x] /\ x.at # "idle" /\ x.claim = c /\ worker[w].at # "idle"
    BY <1>12 DEF AnswerLost, Answered
  <2>2. /\ accepted' = accepted \union {c} /\ unheard' = unheard \union {c}
        /\ faults' = faults + 1 /\ UNCHANGED row
    BY <1>12 DEF AnswerLost, Fault
  <2>3. c \in Claims /\ c \in T /\ S \subseteq T
    BY <1>1, <2>1, BusyClaims
  <2> HIDE DEF x, T
  <2>4. PaidIn(T, row', worker', accepted', unheard')
    BY <1>1, <1>2, <2>1, <2>2, <2>3, WorkerPays
  <2> QED
    BY <1>4, <2>2, <2>3, <2>4 DEF T
<1>13. ASSUME NEW w \in Workers, Settle(w) PROVE FaultsPay'
  BY <1>1, <1>2, <1>3, <1>13, SettlePays DEF Settle
<1>14. ASSUME NEW w \in Workers, LeaseLost(w) PROVE FaultsPay'
  <2>1. worker' = [worker EXCEPT ![w] = Idle] /\ worker[w].at # "idle" /\ Idle.at = "idle"
    BY <1>14, IdleShape DEF LeaseLost
  <2>2. ~HeldIn(row, worker, w, worker[w].claim.delivery) /\ UNCHANGED <<row, accepted, unheard, faults>>
    BY <1>14 DEF LeaseLost, history, Holds, HeldIn, Last, LastIn
  <2> QED
    BY <1>1, <1>2, <1>3, <2>1, <2>2, WorkerPays
<1>15. ASSUME NEW w \in Workers, WorkerDies(w) PROVE FaultsPay'
  <2> DEFINE c == worker[w].claim
             T == S \union {c}
  <2>1. worker' = [worker EXCEPT ![w] = Idle] /\ worker[w].at # "idle" /\ Idle.at = "idle"
    BY <1>15, IdleShape DEF WorkerDies
  <2>2. UNCHANGED <<row, accepted, unheard>> /\ faults' = faults + 1
    BY <1>15 DEF WorkerDies, history, Fault
  <2>3. c \in Claims /\ c \in T /\ S \subseteq T
    BY <1>1, <2>1, BusyClaims
  <2> HIDE DEF T
  <2>4. PaidIn(T, row', worker', accepted', unheard')
    BY <1>1, <1>2, <2>1, <2>2, <2>3, WorkerPays
  <2> QED
    BY <1>4, <2>2, <2>3, <2>4 DEF T
<1>16. CASE UNCHANGED mailVars
  <2>1. PaidIn(S, row', worker', accepted', unheard') /\ UNCHANGED faults
    BY <1>2, <1>16 DEF mailVars, Paid, PaidIn, Last, LastIn, Holds, HeldIn
  <2> QED
    BY <1>3, <2>1
<1> QED
  BY <1>5, <1>6, <1>7, <1>8, <1>10, <1>11, <1>12, <1>13, <1>14, <1>15, <1>16
  DEF EmailNext, WorkerStep

(* Every mail but the one of a delivery's last claim is owed to a fault of     *)
(* its own, whoever runs the delivery and however often (claim, settle).      *)
THEOREM MailSentOncePerFault == EmailSpec => []SentOncePerFault
<1>1. EmailInit => SentInv
  <2> SUFFICES ASSUME EmailInit PROVE SentInv
    OBVIOUS
  <2>1. MailInv
    BY MailInit
  <2>2. Paid({}) /\ faults = 0
    BY DEF EmailInit, Idle, Paid, PaidIn
  <2>3. {} \in SUBSET Claims /\ IsFiniteSet({}) /\ Cardinality({}) <= 0
    BY FS_EmptySet
  <2> QED
    BY <2>1, <2>2, <2>3 DEF SentInv, FaultsPay
<1>2. SentInv /\ [EmailNext]_mailVars => SentInv'
  BY MailNext, FaultsNext DEF SentInv
<1>3. SentInv => SentOncePerFault
  <2> SUFFICES ASSUME SentInv PROVE SentOncePerFault
    OBVIOUS
  <2> DEFINE stale == {c \in accepted : c # LastIn(row, c.delivery)}
  <2>1. faults \in Nat
    BY DEF SentInv, MailInv, MailTypeOK
  <2>2. PICK S \in SUBSET Claims : IsFiniteSet(S) /\ Cardinality(S) <= faults /\ Paid(S)
    BY DEF SentInv, FaultsPay
  <2>3. stale \subseteq S
    BY <2>2 DEF Paid, PaidIn
  <2> HIDE DEF stale
  <2>4. Cardinality(stale) <= Cardinality(S) /\ Cardinality(stale) \in Nat /\ Cardinality(S) \in Nat
    BY <2>2, <2>3, FS_Subset, FS_CardinalityType
  <2>5. Cardinality(stale) <= faults
    BY <2>1, <2>2, <2>4
  <2> QED
    BY <2>5 DEF SentOncePerFault, stale, Last, LastIn
<1> QED
  BY <1>1, <1>2, <1>3, PTL DEF EmailSpec

==============================================================================
