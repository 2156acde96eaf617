------------------------------ MODULE UnitOfWork ------------------------------
(***************************************************************************)
(* The billing unit of work: adapters/mysql/unitOfWork.js over             *)
(* adapters/mysql/commandOperationRepository.js and the pool of db/pool.js,*)
(* for one organization (organizations share no row of these tables).      *)
(*                                                                         *)
(* Every financial command of the billing code runs inside this protocol:  *)
(*   take a pooled connection, START TRANSACTION, lock the organization's  *)
(*   billing account row, look up the command's idempotency key, insert    *)
(*   the key as 'processing', run the callback, store its result as        *)
(*   'completed', COMMIT; any error rolls back and releases the            *)
(*   connection, and a deadlock or a lock timeout is tried again a bounded *)
(*   number of times.                                                      *)
(*                                                                         *)
(* What MySQL contributes (row locks, atomic commit and rollback) is read  *)
(* off the statements the code sends: the row lock is `lock`, the writes   *)
(* of an open transaction stay in `draft` and reach `command` and          *)
(* `applied` only when it commits.                                         *)
(***************************************************************************)
EXTENDS Naturals, FiniteSets

CONSTANTS
  Processes,           \* API and worker processes, each with a pool of its own
  Callers,             \* asynchronous calls of runFinancial / runLifecycle
  ProcessOf,           \* the process each caller runs in
  OpIds,               \* idempotency keys
  Fingerprints,        \* request fingerprints
  Results,             \* what a callback can return
  PoolSize,            \* MYSQL_POOL_MAX
  MaxDeadlockRetries,  \* MAX_DEADLOCK_RETRIES
  MaxCalls,            \* bound: calls made per caller
  None,                \* no value
  Nobody               \* no holder of the account row lock

ASSUME UoWAssumption ==
  /\ ProcessOf \in [Callers -> Processes]
  /\ PoolSize \in Nat \ {0}
  /\ MaxDeadlockRetries \in Nat
  /\ MaxCalls \in Nat
  /\ IsFiniteSet(Callers)
  /\ None \notin Results
  /\ Nobody \notin Callers

VARIABLES
  account,   \* the billing account row: "missing", "active" or "held"
  lock,      \* the caller whose transaction has the account row locked
  command,   \* committed rows of billing_command_operations
  applied,   \* history: committed executions of each key's callback
  pc,        \* where each caller is
  request,   \* what each caller asked for
  draft,     \* result of the callback in the caller's open transaction
  retries,   \* deadlock retries of the caller's current call
  free,      \* idle connections of each process's pool
  answers,   \* history: successful answers
  calls      \* calls made so far (bound)

uowVars == <<account, lock, command, applied, pc, request, draft, retries,
             free, answers, calls>>

tableVars == <<account, command, applied>>

------------------------------------------------------------------------------
(* Requests, rows and the stages of a call *)

Requests == [op: OpIds, fingerprint: Fingerprints,
             kind: {"financial", "lifecycle"}]

NoRequest == [op |-> None]

Completed(f, r) == [fingerprint |-> f, status |-> "completed", result |-> r]

Rows == [fingerprint: Fingerprints, status: {"completed"}, result: Results]

ASSUME NoneAssumption ==
  None \notin Rows \union [fingerprint: Fingerprints, result: Results]

(* Stages between pool.connect() and connection.release(). *)
InAttempt == {"begin", "locked", "callback", "complete", "commit", "replay"}

(* Stages in which the transaction owns the account row lock. *)
Locked == InAttempt \ {"begin"}

Stages == {"idle", "connect", "backoff"} \union InAttempt

UoWInit ==
  /\ account \in {"missing", "active"}
  /\ lock = Nobody
  /\ command = [o \in OpIds |-> None]
  /\ applied = [o \in OpIds |-> 0]
  /\ pc = [c \in Callers |-> "idle"]
  /\ request = [c \in Callers |-> NoRequest]
  /\ draft = [c \in Callers |-> None]
  /\ retries = [c \in Callers |-> 0]
  /\ free = [p \in Processes |-> PoolSize]
  /\ answers = {}
  /\ calls = [c \in Callers |-> 0]

------------------------------------------------------------------------------
(* Calls and the connection pool *)

(* runFinancial / runLifecycle: a new call, or a retry of an earlier one. *)
Call(c, r) ==
  /\ pc[c] = "idle"
  /\ calls[c] < MaxCalls
  /\ calls' = [calls EXCEPT ![c] = @ + 1]
  /\ request' = [request EXCEPT ![c] = r]
  /\ retries' = [retries EXCEPT ![c] = 0]
  /\ pc' = [pc EXCEPT ![c] = "connect"]
  /\ UNCHANGED <<tableVars, lock, draft, free, answers>>

(* The call ends: an answer or an error reaches the caller. *)
Ends(c) ==
  /\ request' = [request EXCEPT ![c] = NoRequest]
  /\ retries' = [retries EXCEPT ![c] = 0]

(* pool.connect(): a caller waits until a connection is idle. *)
Connect(c) ==
  LET p == ProcessOf[c] IN
  /\ pc[c] = "connect"
  /\ free[p] > 0
  /\ free' = [free EXCEPT ![p] = @ - 1]
  /\ pc' = [pc EXCEPT ![c] = "begin"]
  /\ UNCHANGED <<tableVars, lock, request, draft, retries, answers, calls>>

(* No connection is idle and the pool's queue is full: an error at once.    *)
(* The queue is shared with every other query of the process, which the     *)
(* model does not count: whenever no connection is idle it may be full.     *)
QueueFull(c) ==
  /\ pc[c] = "connect"
  /\ free[ProcessOf[c]] = 0
  /\ Ends(c)
  /\ pc' = [pc EXCEPT ![c] = "idle"]
  /\ UNCHANGED <<tableVars, lock, draft, free, answers, calls>>

(* Mutant: the connection is not released. *)
LeaveAttempt_Leaks(c, stage) ==
  /\ lock' = IF lock = c THEN Nobody ELSE lock
  /\ draft' = [draft EXCEPT ![c] = None]
  /\ pc' = [pc EXCEPT ![c] = stage]
  /\ UNCHANGED free

(* The end of an attempt, by COMMIT or ROLLBACK: the row lock and the      *)
(* uncommitted writes go, and the connection is released.                  *)
LeaveAttempt(c, stage) ==
  /\ lock' = IF lock = c THEN Nobody ELSE lock
  /\ draft' = [draft EXCEPT ![c] = None]
  /\ free' = [free EXCEPT ![ProcessOf[c]] = @ + 1]
  /\ pc' = [pc EXCEPT ![c] = stage]

(* An error that is not retried: ROLLBACK, release, rethrow. *)
Fail(c) ==
  /\ LeaveAttempt(c, "idle")
  /\ Ends(c)
  /\ UNCHANGED <<tableVars, answers, calls>>

------------------------------------------------------------------------------
(* One attempt *)

(* No such account, or a financial command on a held one. *)
Refused(c) ==
  \/ account = "missing"
  \/ account = "held" /\ request[c].kind = "financial"

(* Mutant: the account is read without FOR UPDATE. *)
LockAccount_PlainRead(c) ==
  /\ pc[c] = "begin"
  /\ ~Refused(c)
  /\ pc' = [pc EXCEPT ![c] = "locked"]
  /\ UNCHANGED <<tableVars, lock, request, draft, retries, free, answers, calls>>

(* SELECT ... FOR UPDATE of the account row: waits for the row lock, then   *)
(* checks the account under it.                                            *)
LockAccount(c) ==
  /\ pc[c] = "begin"
  /\ lock = Nobody
  /\ ~Refused(c)
  /\ lock' = c
  /\ pc' = [pc EXCEPT ![c] = "locked"]
  /\ UNCHANGED <<tableVars, request, draft, retries, free, answers, calls>>

RefuseAccount(c) ==
  /\ pc[c] = "begin"
  /\ lock = Nobody
  /\ Refused(c)
  /\ Fail(c)

(* findForUpdate found nothing: start() inserts the key as 'processing'. *)
StartCommand(c) ==
  /\ pc[c] = "locked"
  /\ command[request[c].op] = None
  /\ pc' = [pc EXCEPT ![c] = "callback"]
  /\ UNCHANGED <<tableVars, lock, request, draft, retries, free, answers, calls>>

(* findForUpdate found the same request, completed: only COMMIT is left. *)
FindCompleted(c) ==
  LET stored == command[request[c].op] IN
  /\ pc[c] = "locked"
  /\ stored # None
  /\ stored.fingerprint = request[c].fingerprint
  /\ stored.status = "completed"
  /\ pc' = [pc EXCEPT ![c] = "replay"]
  /\ UNCHANGED <<tableVars, lock, request, draft, retries, free, answers, calls>>

(* findForUpdate found another request under the key, or an incomplete row. *)
RefusePrior(c) ==
  LET stored == command[request[c].op] IN
  /\ pc[c] = "locked"
  /\ stored # None
  /\ stored.fingerprint # request[c].fingerprint \/ stored.status # "completed"
  /\ Fail(c)

(* The callback ran inside the transaction and returned a result. *)
RunCallback(c, r) ==
  /\ pc[c] = "callback"
  /\ draft' = [draft EXCEPT ![c] = r]
  /\ pc' = [pc EXCEPT ![c] = "complete"]
  /\ UNCHANGED <<tableVars, lock, request, retries, free, answers, calls>>

(* The callback threw: a domain error of the command it carries. *)
CallbackFails(c) ==
  /\ pc[c] = "callback"
  /\ Fail(c)

(* complete(): 'processing' becomes 'completed' with the encoded result. *)
CompleteCommand(c) ==
  /\ pc[c] = "complete"
  /\ pc' = [pc EXCEPT ![c] = "commit"]
  /\ UNCHANGED <<tableVars, lock, request, draft, retries, free, answers, calls>>

(* Mutant: the effects are committed and the operation row is not. *)
Publish_NoRow(c) ==
  /\ applied' = [applied EXCEPT ![request[c].op] = @ + 1]
  /\ UNCHANGED <<account, command>>

(* The server makes the transaction's writes durable. *)
Publish(c) ==
  LET o == request[c].op IN
  /\ command' = [command EXCEPT
                   ![o] = Completed(request[c].fingerprint, draft[c])]
  /\ applied' = [applied EXCEPT ![o] = @ + 1]
  /\ UNCHANGED account

Commit(c) ==
  /\ pc[c] = "commit"
  /\ Publish(c)
  /\ answers' = answers \union
       {<<request[c].op, request[c].fingerprint, draft[c]>>}
  /\ LeaveAttempt(c, "idle")
  /\ Ends(c)
  /\ UNCHANGED calls

(* The server committed and the acknowledgement was lost: the code's catch *)
(* sends a ROLLBACK that does nothing and the caller sees an error.        *)
CommitAckLost(c) ==
  /\ pc[c] = "commit"
  /\ Publish(c)
  /\ LeaveAttempt(c, "idle")
  /\ Ends(c)
  /\ UNCHANGED <<answers, calls>>

(* COMMIT of a transaction that only looked: the stored result is returned. *)
CommitReplay(c) ==
  LET stored == command[request[c].op] IN
  /\ pc[c] = "replay"
  /\ answers' = answers \union
       {<<request[c].op, request[c].fingerprint, stored.result>>}
  /\ LeaveAttempt(c, "idle")
  /\ Ends(c)
  /\ UNCHANGED <<tableVars, calls>>

------------------------------------------------------------------------------
(* Failures *)

(* Mutant: deadlock retries are not counted. *)
Deadlock_Uncounted(c) ==
  /\ pc[c] \in {"begin", "locked", "callback", "complete"}
  /\ LeaveAttempt(c, "backoff")
  /\ UNCHANGED <<tableVars, request, retries, answers, calls>>

(* The server reports a deadlock or a lock wait timeout to a statement of   *)
(* the transaction: roll back and, a bounded number of times, try again.   *)
Deadlock(c) ==
  /\ pc[c] \in {"begin", "locked", "callback", "complete"}
  /\ retries[c] < MaxDeadlockRetries
  /\ retries' = [retries EXCEPT ![c] = @ + 1]
  /\ LeaveAttempt(c, "backoff")
  /\ UNCHANGED <<tableVars, request, answers, calls>>

DeadlockLast(c) ==
  /\ pc[c] \in {"begin", "locked", "callback", "complete"}
  /\ retries[c] >= MaxDeadlockRetries
  /\ Fail(c)

(* sleep() between two attempts is over. *)
Retry(c) ==
  /\ pc[c] = "backoff"
  /\ pc' = [pc EXCEPT ![c] = "connect"]
  /\ UNCHANGED <<tableVars, lock, request, draft, retries, free, answers, calls>>

(* The connection breaks before a COMMIT took effect: the server rolls     *)
(* back; the error is none of those isDeadlock() knows.                    *)
ConnectionLost(c) ==
  /\ pc[c] \in InAttempt
  /\ Fail(c)

(* A process dies: its callers get no answer and the server rolls back     *)
(* whatever its connections had open.                                      *)
Crash(p) ==
  LET mine == {c \in Callers : ProcessOf[c] = p} IN
  /\ \E c \in mine : pc[c] # "idle"
  /\ lock' = IF lock \in mine THEN Nobody ELSE lock
  /\ pc' = [c \in Callers |-> IF c \in mine THEN "idle" ELSE pc[c]]
  /\ request' = [c \in Callers |-> IF c \in mine THEN NoRequest ELSE request[c]]
  /\ draft' = [c \in Callers |-> IF c \in mine THEN None ELSE draft[c]]
  /\ retries' = [c \in Callers |-> IF c \in mine THEN 0 ELSE retries[c]]
  /\ free' = [free EXCEPT ![p] = PoolSize]
  /\ UNCHANGED <<tableVars, answers, calls>>

(* Someone else writes the account row (organization bootstrap inserts it,  *)
(* an operator sets or clears the hold); an UPDATE needs the row lock.     *)
WriteAccount(status) ==
  /\ lock = Nobody
  /\ account # status
  /\ account' = status
  /\ UNCHANGED <<lock, command, applied, pc, request, draft, retries, free, answers, calls>>

------------------------------------------------------------------------------
Step(c) ==
  \/ Connect(c)
  \/ QueueFull(c)
  \/ LockAccount(c)
  \/ RefuseAccount(c)
  \/ StartCommand(c)
  \/ FindCompleted(c)
  \/ RefusePrior(c)
  \/ \E r \in Results : RunCallback(c, r)
  \/ CallbackFails(c)
  \/ CompleteCommand(c)
  \/ Commit(c)
  \/ CommitAckLost(c)
  \/ CommitReplay(c)
  \/ Deadlock(c)
  \/ DeadlockLast(c)
  \/ Retry(c)
  \/ ConnectionLost(c)

UoWNext ==
  \/ \E c \in Callers, r \in Requests : Call(c, r)
  \/ \E c \in Callers : Step(c)
  \/ \E p \in Processes : Crash(p)
  \/ \E s \in {"active", "held"} : WriteAccount(s)

(* A caller's code always takes its next step: the server answers every    *)
(* statement (a lock that is not granted ends in a lock wait timeout) and   *)
(* the event loop runs every continuation. Nobody has to call, to crash or *)
(* to write the account.                                                   *)
UoWSpec == UoWInit /\ [][UoWNext]_uowVars /\ \A c \in Callers : WF_uowVars(Step(c))

------------------------------------------------------------------------------
(* Properties *)

(* Every variable has its type; in particular a connection is never handed  *)
(* out that the pool does not have (free[p] stays a natural number).        *)
UoWTypeOK ==
  /\ account \in {"missing", "active", "held"}
  /\ lock \in Callers \union {Nobody}
  /\ command \in [OpIds -> Rows \union {None}]
  /\ applied \in [OpIds -> Nat]
  /\ pc \in [Callers -> Stages]
  /\ request \in [Callers -> Requests \union {NoRequest}]
  /\ draft \in [Callers -> Results \union {None}]
  /\ retries \in [Callers -> 0..MaxDeadlockRetries]
  /\ free \in [Processes -> Nat]
  /\ answers \subseteq OpIds \X Fingerprints \X Results
  /\ calls \in [Callers -> 0..MaxCalls]

(* A key's callback takes effect exactly when its operation row is          *)
(* committed, and once: whatever callers retry, crash or lose answers.      *)
OneEffectPerRow ==
  \A o \in OpIds : applied[o] = IF command[o] = None THEN 0 ELSE 1

(* The transactions of an organization are serialized: the callers past the *)
(* account row's SELECT ... FOR UPDATE are the one that holds its lock.    *)
LockSerializes == \A c \in Callers : pc[c] \in Locked <=> lock = c

(* Every successful answer, first or replayed, is the committed result of   *)
(* the very request the caller made.                                       *)
AnswersAgree ==
  \A a \in answers :
    /\ command[a[1]] # None
    /\ command[a[1]].fingerprint = a[2]
    /\ command[a[1]].result = a[3]

(* The attempts of a process that have a connection. *)
Attempts(p) == {c \in Callers : ProcessOf[c] = p /\ pc[c] \in InAttempt}

(* No connection is leaked or shared on any path out of an attempt: each is *)
(* idle or held by one attempt.                                            *)
PoolConserved ==
  \A p \in Processes : free[p] + Cardinality(Attempts(p)) = PoolSize

(* What a caller relies on between two statements of its transaction: the  *)
(* account it read, the absent key and the stored request.                 *)
ReadsTrue(c) ==
  /\ pc[c] # "idle" => request[c] \in Requests
  /\ pc[c] \in Locked =>
       account = "active" \/ (account = "held" /\ request[c].kind = "lifecycle")
  /\ pc[c] \in {"callback", "complete", "commit"} =>
       command[request[c].op] = None
  /\ pc[c] \in {"complete", "commit"} => draft[c] \in Results
  /\ pc[c] = "replay" =>
       /\ command[request[c].op] # None
       /\ command[request[c].op].fingerprint = request[c].fingerprint

(* What the code read under the row lock stays true until it commits or     *)
(* rolls back, whatever the other callers and processes do meanwhile.       *)
ReadsStayTrue == \A c \in Callers : ReadsTrue(c)

(* A financial command takes effect only while the account is active, even  *)
(* when the hold is placed by someone else during the transaction; only a  *)
(* lifecycle command may act on a held account.                            *)
HoldStopsFinancialEffects ==
  [][\A o \in OpIds : applied'[o] # applied[o] =>
       \/ account = "active"
       \/ \E c \in Callers : /\ pc[c] = "commit"
                             /\ request[c].op = o
                             /\ request[c].kind = "lifecycle"]_uowVars

(* Every call ends, in an answer, an error or the death of its process:     *)
(* neither the lock queue, the connection queue nor deadlock retries keep  *)
(* a caller forever.                                                       *)
CallEnds == \A c \in Callers : pc[c] # "idle" ~> pc[c] = "idle"

------------------------------------------------------------------------------
(* The unit of work implements the idempotent command. *)

RecordOf(o) ==
  IF command[o] = None THEN None
  ELSE [fingerprint |-> command[o].fingerprint, result |-> command[o].result]

Promise == INSTANCE IdempotentCommand
             WITH record <- [o \in OpIds |-> RecordOf(o)], effects <- applied

(* Every behaviour of the unit of work is one of the abstract specification: *)
(* one effect per key, and only answers that repeat its stored result.      *)
ImplementsIdempotentCommand == Promise!ASpec

==============================================================================
