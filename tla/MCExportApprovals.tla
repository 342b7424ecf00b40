------------------------- MODULE MCExportApprovals -------------------------
(* Two rows, one that can be accepted or confirmed as a weakness and one   *)
(* for which evidence can be requested; one day of validity; a FISMA       *)
(* package whose template pack the second configuration breaks.            *)
EXTENDS ExportApprovals, TLC

CONSTANTS c1, c2, m1, m2, d1, d2, a1

MCClients == {c1, c2}
MCDrafts == {d1, d2}
MCCompatible == [m \in Rows |-> IF m = m1 THEN {"accepted", "weakness_confirmed"}
                                ELSE {"evidence_requested"}]

MCPack == <<[status |-> "approved", digest |-> 1], [status |-> "invalid", digest |-> 2]>>

Symmetry == Permutations(MCClients) \cup Permutations(MCDrafts)
=============================================================================
