-------------------------- MODULE IdempotentCommand --------------------------
(***************************************************************************)
(* What the billing unit of work promises the callers of one organization: *)
(* a command key takes effect at most once, on behalf of one request, and  *)
(* every successful answer for the key is the result of that execution.    *)
(*                                                                         *)
(* The module knows nothing of transactions, locks, connections, retries   *)
(* or crashes; UnitOfWork.tla is the code that keeps the promise.          *)
(***************************************************************************)
EXTENDS Naturals

CONSTANTS
  OpIds,          \* idempotency keys of the organization
  Fingerprints,   \* request fingerprints
  Results,        \* what a command's callback can return
  None            \* no record

VARIABLES
  record,         \* the request and the result a key is bound to, or None
  effects,        \* how many times the callback of a key took effect
  answers         \* successful answers handed out: <<key, request, result>>

avars == <<record, effects, answers>>

Bound(f, r) == [fingerprint |-> f, result |-> r]

AInit ==
  /\ record = [o \in OpIds |-> None]
  /\ effects = [o \in OpIds |-> 0]
  /\ answers = {}

(* The first execution of a key; the caller may or may not learn of it. *)
Execute(o, f, r) ==
  /\ record[o] = None
  /\ record' = [record EXCEPT ![o] = Bound(f, r)]
  /\ effects' = [effects EXCEPT ![o] = @ + 1]
  /\ answers' \in {answers, answers \union {<<o, f, r>>}}

(* A later call with the same request is told the stored result. *)
Replay(o) ==
  /\ record[o] # None
  /\ answers' = answers \union {<<o, record[o].fingerprint, record[o].result>>}
  /\ UNCHANGED <<record, effects>>

ANext ==
  \E o \in OpIds :
    \/ \E f \in Fingerprints, r \in Results : Execute(o, f, r)
    \/ Replay(o)

ASpec == AInit /\ [][ANext]_avars
==============================================================================
