--------------------------- MODULE MCSspRevisions ---------------------------
(* Instances of SspRevisions for TLC.  Requests, profiles, patches and         *)
(* evidence files are interchangeable.                                      *)
EXTENDS SspRevisions, TLC

Interchangeable ==
    Permutations(Requests) \cup Permutations(Profiles)
      \cup Permutations(Patches) \cup Permutations(Evidence)
=============================================================================
