--------------------------- MODULE MCSspContent ---------------------------
(* Three profiles.  Version p2 adds a component inventory to p1; versions  *)
(* q1 and q2 have one control, which only the high baseline selects, whose *)
(* requirement changes and whose statuses become fewer.  Version q3 names  *)
(* a control that its catalog lacks and cannot be imported.  Profile r has *)
(* a control in both baselines that questions may ask about.               *)
EXTENDS SspContent, TLC

Bundle(key, items, required, high) ==
  [key |-> key, archive |-> "ok", sources |-> <<"nist">>,
   roles |-> [r \in RequiredRoles |-> r], altered |-> {},
   catalog |-> {"ac1", "au2"}, prose |-> {"ac1", "au2"}, low |-> {}, high |-> high,
   items |-> items, required |-> required,
   refs |-> [i \in items |-> {"r1"}],
   coverage |-> [r \in {"r1"} |-> [source |-> "nist", items |-> items]],
   statuses |-> {"unknown", "implemented"},
   authority |-> [s \in {"nist"} |-> {"r1"}]]

MCBundleOf ==
  LET q == Bundle("q", {"data_types"}, {"data_types"}, {"ac1"})
  IN  ("p1" :> Bundle("p", {"owner"}, {}, {}))
      @@ ("p2" :> Bundle("p", {"owner", "components"}, {}, {}))
      @@ ("q1" :> q)
      @@ ("q2" :> [q EXCEPT !.statuses = {"unknown"}])
      @@ ("r1" :> [Bundle("r", {"components"}, {}, {"au2"}) EXCEPT !.low = {"au2"}])
      @@ ("q3" :> [q EXCEPT !.low = {"ac2"}])

(* Comparing a function tabulates it: once, before the first state.        *)
ASSUME Tabulated == Drafts = Drafts /\ PatchResults = PatchResults
=============================================================================
