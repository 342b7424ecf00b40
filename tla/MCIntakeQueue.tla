--------------------------- MODULE MCIntakeQueue ---------------------------
(***************************************************************************)
(* IntakeQueue for TLC: packages of one artifact are patched in every      *)
(* phase, those of two, whose workers heartbeat in between, are not.       *)
(***************************************************************************)
EXTENDS IntakeQueue

MCMaxVersion == <<4, 1>>
=============================================================================
