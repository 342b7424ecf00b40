---------------------------- MODULE MCChatTurns ----------------------------
(* Instances of ChatTurns for TLC.  Calls and request ids are             *)
(* interchangeable.                                                        *)
EXTENDS ChatTurns, TLC

Interchangeable == Permutations(Calls) \cup Permutations(RequestIds)
=============================================================================
