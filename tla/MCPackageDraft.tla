--------------------------- MODULE MCPackageDraft ---------------------------
(* One target, two values of which one is invalid, two MAP steps; an owner *)
(* manifest and two files of evidence, one of them filling the package.    *)
EXTENDS PackageDraft, TLC

CONSTANTS c1, c2, r1, b1, b2, b3, t1

MCClients == {c1, c2}
MCBlobs == {b1, b2, b3}
MCProfiles == {"fedramp_20x_program", "fisma_agency_security"}
MCImpacts == {"low", "moderate"}

Manifest(v, p) == [kind |-> "owner_manifest", fields |-> [t \in Targets |-> v],
                   profile |-> p, impact |-> None]
Evidence == [kind |-> "evidence_only", fields |-> EmptyFields, profile |-> None, impact |-> None]

MCContent == [b \in Blobs |-> IF b = b1 THEN Manifest("good", "fisma_agency_security") ELSE Evidence]
MCSize == [b \in Blobs |-> IF b = b2 THEN 2 ELSE 1]

MCMetadatas == {[profile |-> "fedramp_20x_program", class |-> "C", impact |-> None],
                [profile |-> "fisma_agency_security", class |-> None, impact |-> "moderate"]}

MCEdits == {[profile |-> p, impact |-> None, path |-> "agency", section |-> p,
             fields |-> [t \in Targets |-> "good"], conflicts |-> {}, gaps |-> {}] : p \in MCProfiles}

Found(v) == [valid |-> TRUE, complete |-> TRUE, facts |-> [t \in Targets |-> v]]
MCMapResults == {Found("good"), Found("bad"), Found(None),
                 [Found("unusable") EXCEPT !.complete = FALSE],
                 [Found("good") EXCEPT !.valid = FALSE]}

Symmetry == Permutations(MCClients)

(* Bound: a client acts on a report of a package of at most one file, read *)
(* while its draft is extracted or awaits confirmation, and while no other *)
(* client acts on a report or on a draft it has read.                      *)
Reporting(c) == client[c].op = "reporting" \/ view[c].blockers # {}
OneReport ==
    /\ \A c \in Clients : client[c].op = "reporting" =>
          client[c].status \in {"extracting", "awaiting_confirmation"}
    /\ \A c \in Clients : Reporting(c) =>
          /\ Cardinality(blob) <= 1
          /\ \A e \in Clients \ {c} : ~Reporting(e) /\ view[e].document = {}
=============================================================================
