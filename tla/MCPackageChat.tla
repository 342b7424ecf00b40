--------------------------- MODULE MCPackageChat ---------------------------
(* PackageChat for TLC.  The second revision contains the one file of the  *)
(* first, in two parts, and one file more.                                 *)
EXTENDS PackageChat, TLC

TheContent ==
    [r \in PackageRevisions |->
       {<<"policy", 1>>, <<"policy", 2>>} \cup (IF r = 1 THEN {} ELSE {<<"plan", 1>>})]

(* Bound: a behaviour is about one of the two assistants.  They have only  *)
(* the calls and the clock in common.                                      *)
OneAssistant ==
    \/ ready = {}
    \/ charges = {} /\ \A c \in Calls : call[c].phase # "sampled"

Interchangeable == Permutations(Calls) \cup Permutations(Conversations)
=============================================================================
