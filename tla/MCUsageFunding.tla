---------------------------- MODULE MCUsageFunding ----------------------------
(* UsageFunding with a subscription grant that expires and a top-up grant     *)
(* that does not.                                                           *)
EXTENDS UsageFunding

CONSTANTS sub, top, call1, call2, voice1, voice2

MCGrants == {sub, top}
MCKind == [g \in MCGrants |-> IF g = sub THEN "subscription" ELSE "topup"]
MCExpiresAt == [g \in MCGrants |-> IF g = sub THEN 1 ELSE Never]
MCIdOrder == [g \in MCGrants |-> IF g = sub THEN 2 ELSE 1]
MCGranted == [g \in MCGrants |-> 1]

(* Two calls with one component each. *)
TwoCalls == {call1, call2}
TwoComponents == {voice1, voice2}
TwoOperationOf == [c \in TwoComponents |-> IF c = voice1 THEN call1 ELSE call2]

(* Nothing tells the two calls apart. *)
Swap == [x \in TwoCalls \union TwoComponents |->
           CASE x = call1 -> call2 [] x = call2 -> call1
             [] x = voice1 -> voice2 [] x = voice2 -> voice1]
Symmetry == {Swap, [x \in TwoCalls \union TwoComponents |-> x]}

(* One call whose component is revised. *)
OneCall == {call1}
OneComponent == {voice1}
OneOperationOf == [c \in OneComponent |-> call1]
==============================================================================
