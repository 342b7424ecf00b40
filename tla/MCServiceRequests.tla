------------------------- MODULE MCServiceRequests -------------------------
(* Two tabs; ana owns systems, bo may only read the ones shared with his   *)
(* group.                                                                  *)
EXTENDS ServiceRequests, TLC

CONSTANTS c1, c2

MCGroupsOf == [a \in Actors |-> IF a = "ana" THEN {"owners"} ELSE {"viewers"}]
MCViewersOf == [n \in Names |-> {"viewers"}]

Tabs == Permutations({c1, c2})
=============================================================================
