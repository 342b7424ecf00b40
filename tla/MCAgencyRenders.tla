-------------------------- MODULE MCAgencyRenders --------------------------
(* Revision r1 was approved under profile version p1; r2 belongs to p2,    *)
(* which has another section.                                              *)
EXTENDS AgencyRenders, TLC

W(code) == [severity |-> "warning", code |-> code]
B(code) == [severity |-> "blocker", code |-> code]

MCConfig == [profile |-> "dev_local", capable |-> TRUE, approved |-> TRUE,
             endpoint |-> "mock", cui |-> FALSE]

MCProfileAt == ("r1" :> "p1") @@ ("r2" :> "p2")
MCSectionsOf == ("r1" :> {}) @@ ("r2" :> {"s"})
MCExceptionLists == {<<W("x"), B("x")>>, <<W("x"), W("z")>>}
MCIssueLists == {<<W("v"), B("x"), B("y")>>}
=============================================================================
