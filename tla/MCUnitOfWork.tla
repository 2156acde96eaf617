----------------------------- MODULE MCUnitOfWork -----------------------------
(* UnitOfWork with two processes: two callers share the pool of the first,   *)
(* the third caller has a process of its own.                               *)
EXTENDS UnitOfWork

CONSTANTS p1, p2, c1, c2, c3

MCProcesses == {p1, p2}
MCCallers == {c1, c2, c3}
MCProcessOf == [c \in MCCallers |-> IF c = c3 THEN p2 ELSE p1]
==============================================================================
