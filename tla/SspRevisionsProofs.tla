------------------------- MODULE SspRevisionsProofs -------------------------
(***************************************************************************)
(* Proofs about the two models of database transactions.  SspRevisions,    *)
(* for every set of requests, profiles, patches and evidence files, every  *)
(* workload Ops and every bound on versions; then AuditChain, for every    *)
(* set of transactions and event identifiers.                              *)
(***************************************************************************)
EXTENDS SspRevisions, AuditChain, FiniteSetTheorems, TLAPS

-----------------------------------------------------------------------------
(* The inductive invariant                                                 *)

(* Versions 1..count are stored, the others are not.                       *)
StoredRows ==
    /\ \A v \in 1..count : status[v] \in RevisionStatus /\ content[v] \in Content
    /\ \A v \in Versions : v > count => status[v] = "absent"
    /\ count > 0 => pin \in Profiles
    /\ approvals \subseteq 1..count

(* What a request in flight may rely on, given the stored rows.  The last  *)
(* conjunct is the crux: a copy of a status may be out of date, but only   *)
(* in one direction, because no revision ever becomes working again.       *)
RequestOK(q, n, st, ct) ==
    /\ q.op \notin {"idle", "categorize"} => q.expected \in 1..n
    /\ q.op = "categorize" => /\ q.head \in 1..n
                              /\ q.pin \in Profiles
                              /\ q.held # "none" => q.expected = q.head
    /\ q.op = "restore" => q.target \in 1..n
    /\ q.op = "apply" => q.patch \in Patches
    /\ q.op = "approve" => ct[q.expected].stage = "ready"
    /\ q.held \in RevisionStatus =>
          /\ q.expected \in 1..n
          /\ st[q.expected] = "working" => q.held = "working"

RequestsOK == \A r \in Requests : RequestOK(req[r], count, status, content)

RowsInv == /\ StoredRows
           /\ HeadIsNewest
           /\ OnlyHeadIsOpen
           /\ ApprovalsAreEarned

(* An apply request owns its patch row: the row is still proposed, was     *)
(* computed from the revision the request expects, and no other request    *)
(* applies it.  Applied rows keep the promise of PatchesApplyToTheirBase.  *)
PatchesOK ==
    /\ \A r \in Requests : req[r].op = "apply" =>
          /\ patch[req[r].patch].status = "proposed"
          /\ patch[req[r].patch].base = req[r].expected
    /\ \A r1, r2 \in Requests :
          (req[r1].op = "apply" /\ req[r2].op = "apply"
             /\ req[r1].patch = req[r2].patch) => r1 = r2
    /\ \A p \in Patches : patch[p].status = "applied" =>
          /\ patch[p].applied \in 1..count
          /\ parent[patch[p].applied] = patch[p].base

(* Only a categorization can bypass a revision.                            *)
LinearWithoutCategorize == "categorize" \notin Ops => NoLostRevision

IInv == /\ TypeOK
        /\ RowsInv
        /\ RequestsOK
        /\ PatchesOK
        /\ HeadEvidenceIsLive
        /\ LinearWithoutCategorize

-----------------------------------------------------------------------------
(* Facts about the building blocks                                         *)

(* The idle request is a request.                                          *)
LEMMA IdleIsRequest == Idle \in Request /\ RequestOK(Idle, count, status, content)
  BY MaxVersionAssumption DEF Idle, Request, RequestOK, RevisionStatus

(* Storing more revisions and closing old ones invalidates no request.     *)
LEMMA RequestOKStable ==
  ASSUME NEW q, NEW n \in Nat, NEW n2 \in Nat, NEW st, NEW st2, NEW ct, NEW ct2,
         RequestOK(q, n, st, ct),
         n <= n2,
         \A v \in 1..n : /\ st2[v] = "working" => st[v] = "working"
                         /\ ct2[v] = ct[v]
  PROVE  RequestOK(q, n2, st2, ct2)
<1>1. 1..n \subseteq 1..n2
  OBVIOUS
<1>2. QED
  BY <1>1 DEF RequestOK

(* A transform of a stored revision's content is content.                  *)
LEMMA TransformedIsContent ==
  ASSUME NEW op, NEW v, NEW refs \in SUBSET Evidence, NEW profile \in Profiles,
         content[v] \in Content,
         op \in {"edit", "define", "classify", "diagram", "generate", "suggest",
                 "apply", "migrate", "categorize", "ingest"}
  PROVE  Transformed(op, v, refs, profile) \subseteq Content
<1> DEFINE s0 == content[v].stage
<1>1. s0 \in Stages /\ content[v].refs \in SUBSET Evidence
  BY DEF Content
<1>2. StageAfter(op, s0) \subseteq Stages
  BY <1>1 DEF StageAfter, Stages
<1>3. QED
  BY <1>1, <1>2 DEF Transformed, Content

(* What save_revision does to the rows when its checks pass.               *)
LEMMA SaveKeepsRows ==
  ASSUME TypeOK, RowsInv, RequestsOK,
         NEW q, NEW c \in Content,
         q.expected \in 1..count,
         q.held \in RevisionStatus =>
            (status[q.expected] = "working" => q.held = "working"),
         OneWorkingRow(q),
         SaveRevision(q, c),
         pin' \in Profiles, approvals' = approvals
  PROVE  /\ current' \in 0..MaxVersion
         /\ count' \in 0..MaxVersion
         /\ status' \in [Versions -> RevisionStatus \cup {"absent"}]
         /\ parent' \in [Versions -> 0..MaxVersion]
         /\ content' \in [Versions -> Content \cup {NoContent}]
         /\ RowsInv'
         /\ count <= count' /\ count' \in Nat /\ count \in Nat
         /\ \A v \in 1..count : /\ status'[v] = "working" => status[v] = "working"
                                /\ content'[v] = content[v]
                                /\ parent'[v] = parent[v]
         /\ parent'[count'] = q.expected /\ content'[count'] = c
         /\ current' = count' /\ count' = count + 1 /\ current = count
<1> USE MaxVersionAssumption
<1> DEFINE n == count + 1
<1>1. /\ count \in Nat /\ count < MaxVersion /\ n \in Versions /\ n \notin 1..count
      /\ 1..n = 1..count \cup {n} /\ current = count /\ count > 0
      /\ q.expected \in Versions /\ q.expected # n /\ 1..count \subseteq Versions
  BY DEF TypeOK, SaveRevision, Versions, RowsInv, HeadIsNewest
<1>2. /\ count' = n /\ current' = n
      /\ parent' = [parent EXCEPT ![n] = q.expected]
      /\ content' = [content EXCEPT ![n] = c]
      /\ status' \in [Versions -> RevisionStatus \cup {"absent"}]
      /\ status'[n] = "working"
      /\ \A v \in Versions \ {n} :
            status'[v] = IF v = q.expected /\ StatusSeen(q) = "working"
                         THEN "superseded" ELSE status[v]
  BY <1>1 DEF SaveRevision, TypeOK, RevisionStatus
<1>3. /\ parent' \in [Versions -> 0..MaxVersion]
      /\ content' \in [Versions -> Content \cup {NoContent}]
  BY <1>1, <1>2 DEF TypeOK, Versions
<1>4. \A v \in 1..count :
         /\ status'[v] = "working" => status[v] = "working"
         /\ content'[v] = content[v]
         /\ parent'[v] = parent[v]
  BY <1>1, <1>2 DEF TypeOK
<1>5. content'[n] = c /\ parent'[n] = q.expected
  BY <1>1, <1>2 DEF TypeOK
<1>6. status[q.expected] = "working" => StatusSeen(q) = "working"
  BY DEF StatusSeen
<1>7. StoredRows'
  <2>1. \A v \in 1..n : status'[v] \in RevisionStatus /\ content'[v] \in Content
    <3>1. \A v \in 1..count : status'[v] \in RevisionStatus
      BY <1>1, <1>2 DEF RowsInv, StoredRows, RevisionStatus
    <3>2. \A v \in 1..count : content'[v] \in Content
      BY <1>4 DEF RowsInv, StoredRows
    <3>3. status'[n] \in RevisionStatus /\ content'[n] \in Content
      BY <1>2, <1>5 DEF RevisionStatus
    <3>4. QED
      BY <1>1, <3>1, <3>2, <3>3
  <2>2. \A v \in Versions : v > n => status'[v] = "absent"
    BY <1>1, <1>2 DEF RowsInv, StoredRows, Versions
  <2>3. approvals' \subseteq 1..n
    BY <1>1 DEF RowsInv, StoredRows
  <2>4. QED
    BY <1>2, <2>1, <2>2, <2>3 DEF StoredRows
<1>8. HeadIsNewest'
  <2>1. \A v \in 2..n : v = n \/ v \in 2..count
    BY <1>1
  <2>2. \A v \in 2..count : parent'[v] \in 1..(v - 1)
    BY <1>1, <1>4 DEF RowsInv, HeadIsNewest
  <2>3. parent'[n] \in 1..(n - 1)
    BY <1>1, <1>5
  <2>4. QED
    BY <1>2, <2>1, <2>2, <2>3 DEF HeadIsNewest
<1>9. OnlyHeadIsOpen'
  <2>1. \A v \in 1..count : status'[v] # "working"
    BY <1>1, <1>2, <1>6 DEF OneWorkingRow
  <2>2. QED
    BY <1>1, <1>2, <2>1 DEF OnlyHeadIsOpen
<1>10. ApprovalsAreEarned'
  <2>1. \A v \in approvals : content'[v].stage = "ready" /\ status'[v] # "working"
    BY <1>4 DEF RowsInv, StoredRows, ApprovalsAreEarned
  <2>2. \A v \in 1..count : status'[v] = "approved" => v \in approvals
    BY <1>1, <1>2 DEF RowsInv, ApprovalsAreEarned
  <2>3. QED
    BY <1>1, <1>2, <2>1, <2>2 DEF ApprovalsAreEarned
<1>11. QED
  BY <1>1, <1>2, <1>3, <1>4, <1>5, <1>7, <1>8, <1>9, <1>10 DEF RowsInv, Versions

-----------------------------------------------------------------------------
(* Steps that only change what a request holds                             *)

(* A step that writes no row keeps the invariant when the new request is   *)
(* well formed and, if it applies a patch, now owns the patch row.         *)
LEMMA ReadStep ==
  ASSUME IInv, NEW r \in Requests, NEW s \in Request,
         req' = [req EXCEPT ![r] = s],
         UNCHANGED <<wsVars, revVars, approvals, patch, evVars>>,
         RequestOK(s, count, status, content),
         s.op = "apply" => /\ patch[s.patch].status = "proposed"
                           /\ patch[s.patch].base = s.expected
                           /\ ~Locked(s.patch)
  PROVE  IInv'
<1>1. /\ \A x \in Requests : req'[x] = IF x = r THEN s ELSE req[x]
      /\ UNCHANGED <<current, pin, count, status, parent, content, approvals,
                     patch, artifact, withFacts>>
      /\ req' \in [Requests -> Request]
  BY DEF IInv, TypeOK, wsVars, revVars, evVars
<1>2. TypeOK'
  BY <1>1 DEF IInv, TypeOK
<1>3. RowsInv'
  BY <1>1 DEF IInv, RowsInv, StoredRows, HeadIsNewest, OnlyHeadIsOpen,
              ApprovalsAreEarned
<1>4. RequestsOK'
  BY <1>1 DEF IInv, RequestsOK
<1>5. PatchesOK'
  BY <1>1 DEF IInv, PatchesOK, Locked
<1>6. HeadEvidenceIsLive' /\ LinearWithoutCategorize'
  BY <1>1 DEF IInv, HeadEvidenceIsLive, ActiveEvidence,
              LinearWithoutCategorize, NoLostRevision
<1>7. QED
  BY <1>2, <1>3, <1>4, <1>5, <1>6 DEF IInv

(* Ending a request without writing a row.                                 *)
LEMMA EndStep ==
  ASSUME IInv, NEW r \in Requests, End(r),
         UNCHANGED <<wsVars, revVars, approvals, patch, evVars>>
  PROVE  IInv'
<1>1. Idle.op # "apply"
  BY DEF Idle
<1>2. QED
  BY <1>1, IdleIsRequest, ReadStep DEF End

(* BeginHolding, for whatever operation, is a read step.                   *)
LEMMA HoldingStep ==
  ASSUME IInv, NEW r \in Requests,
         NEW op \in {"edit", "define", "classify", "migrate"},
         BeginHolding(r, op)
  PROVE  IInv'
<1>1. PICK v \in Versions :
         /\ LoadExact(v)
         /\ Begin(r, [Idle EXCEPT !.op = op, !.expected = v, !.held = status[v]])
         /\ UNCHANGED <<wsVars, revVars, approvals, patch, evVars>>
  BY DEF BeginHolding
<1> DEFINE s == [Idle EXCEPT !.op = op, !.expected = v, !.held = status[v]]
<1>2. v \in 1..count /\ v \in 0..MaxVersion /\ status[v] \in RevisionStatus
  BY <1>1, MaxVersionAssumption DEF LoadExact, IInv, RowsInv, StoredRows, Versions
<1>3. s.op = op /\ s.op \in Ops /\ req' = [req EXCEPT ![r] = s]
  BY <1>1 DEF Begin, Idle
<1>4. s \in Request
  BY <1>2, <1>3, IdleIsRequest DEF Request
<1>5. RequestOK(s, count, status, content)
  BY <1>2 DEF RequestOK, Idle
<1>6. QED
  BY <1>1, <1>3, <1>4, <1>5, ReadStep

(* The Begin actions of the other operations are read steps.               *)
LEMMA BeginStep ==
  ASSUME IInv, NEW r \in Requests,
         \/ BeginDiagram(r) \/ BeginGenerate(r) \/ BeginSuggest(r)
         \/ BeginCategorize(r) \/ LoadCategorize(r) \/ BeginRestore(r)
         \/ BeginPropose(r) \/ BeginApply(r) \/ BeginApprove(r) \/ BeginIngest(r)
  PROVE  IInv'
<1> USE MaxVersionAssumption
<1>1. /\ \A v \in 1..count : /\ status[v] \in RevisionStatus /\ content[v] \in Content
                             /\ v \in 0..MaxVersion
      /\ count > 0 => pin \in Profiles /\ current \in 1..count
      /\ ActiveEvidence \subseteq Evidence
      /\ req[r] \in Request
      /\ count \in 0..MaxVersion
  BY DEF IInv, TypeOK, RowsInv, StoredRows, HeadIsNewest, ActiveEvidence
<1>2. CASE BeginDiagram(r)
  <2>1. PICK v \in Versions, e \in ActiveEvidence :
           /\ LoadExact(v)
           /\ Begin(r, [Idle EXCEPT !.op = "diagram", !.expected = v,
                                    !.held = status[v], !.refs = {e}])
           /\ UNCHANGED <<wsVars, revVars, approvals, patch, evVars>>
    BY <1>2 DEF BeginDiagram
  <2> DEFINE s == [Idle EXCEPT !.op = "diagram", !.expected = v,
                               !.held = status[v], !.refs = {e}]
  <2>2. v \in 1..count /\ req' = [req EXCEPT ![r] = s] /\ s.op = "diagram" /\ s.op \in Ops
    BY <2>1 DEF Begin, Idle, LoadExact
  <2>3. s \in Request
    BY <1>1, <2>2, IdleIsRequest DEF Request
  <2>4. RequestOK(s, count, status, content)
    BY <2>2 DEF RequestOK, Idle
  <2>5. QED
    BY <2>1, <2>2, <2>3, <2>4, ReadStep
<1>3. CASE BeginGenerate(r)
  <2>1. PICK v \in Versions :
           /\ LoadExact(v)
           /\ Begin(r, [Idle EXCEPT !.op = "generate", !.expected = v,
                                    !.held = "unread"])
           /\ UNCHANGED <<wsVars, revVars, approvals, patch, evVars>>
    BY <1>3 DEF BeginGenerate
  <2> DEFINE s == [Idle EXCEPT !.op = "generate", !.expected = v, !.held = "unread"]
  <2>2. v \in 1..count /\ req' = [req EXCEPT ![r] = s] /\ s.op = "generate" /\ s.op \in Ops
    BY <2>1 DEF Begin, Idle, LoadExact
  <2>3. s \in Request
    BY <1>1, <2>2, IdleIsRequest DEF Request
  <2>4. RequestOK(s, count, status, content)
    BY <2>2 DEF RequestOK, Idle, RevisionStatus
  <2>5. QED
    BY <2>1, <2>2, <2>3, <2>4, ReadStep
<1>4. CASE BeginSuggest(r)
  <2>1. PICK v \in Versions :
           /\ LoadExact(v)
           /\ Begin(r, [Idle EXCEPT !.op = "suggest", !.expected = v,
                                    !.held = "unread"])
           /\ UNCHANGED <<wsVars, revVars, approvals, patch, evVars>>
    BY <1>4 DEF BeginSuggest
  <2> DEFINE s == [Idle EXCEPT !.op = "suggest", !.expected = v, !.held = "unread"]
  <2>2. v \in 1..count /\ req' = [req EXCEPT ![r] = s] /\ s.op = "suggest" /\ s.op \in Ops
    BY <2>1 DEF Begin, Idle, LoadExact
  <2>3. s \in Request
    BY <1>1, <2>2, IdleIsRequest DEF Request
  <2>4. RequestOK(s, count, status, content)
    BY <2>2 DEF RequestOK, Idle, RevisionStatus
  <2>5. QED
    BY <2>1, <2>2, <2>3, <2>4, ReadStep
<1>5. CASE BeginCategorize(r)
  <2>1. PICK refs \in SUBSET ActiveEvidence :
           /\ count > 0
           /\ Begin(r, [Idle EXCEPT !.op = "categorize", !.head = current,
                                    !.pin = pin, !.refs = refs])
           /\ UNCHANGED <<wsVars, revVars, approvals, patch, evVars>>
    BY <1>5 DEF BeginCategorize
  <2> DEFINE s == [Idle EXCEPT !.op = "categorize", !.head = current,
                               !.pin = pin, !.refs = refs]
  <2>2. req' = [req EXCEPT ![r] = s] /\ s.op = "categorize" /\ s.op \in Ops
    BY <2>1 DEF Begin, Idle
  <2>3. s \in Request
    BY <1>1, <2>1, <2>2, IdleIsRequest DEF Request
  <2>4. RequestOK(s, count, status, content)
    BY <1>1, <2>1 DEF RequestOK, Idle, RevisionStatus
  <2>5. QED
    BY <2>1, <2>2, <2>3, <2>4, ReadStep
<1>6. CASE LoadCategorize(r)
  <2> DEFINE q == req[r]
             s == [q EXCEPT !.expected = q.head, !.held = status[q.head]]
  <2>1. /\ q.op = "categorize" /\ q \in Request /\ q.head \in 1..count
        /\ q.pin \in Profiles
    BY <1>1, <1>6 DEF LoadCategorize, IInv, RequestsOK, RequestOK
  <2>2. /\ req' = [req EXCEPT ![r] = s]
        /\ UNCHANGED <<wsVars, revVars, approvals, patch, evVars>>
    BY <1>1, <1>6 DEF LoadCategorize, IInv, TypeOK, Request
  <2>3. /\ s.op = "categorize" /\ s.head = q.head /\ s.expected = q.head
        /\ s.held = status[q.head] /\ s.pin = q.pin
        /\ s \in Request
    BY <1>1, <2>1 DEF Request
  <2>4. RequestOK(s, count, status, content)
    BY <2>1, <2>3 DEF RequestOK
  <2>5. QED
    BY <2>2, <2>3, <2>4, ReadStep
<1>7. CASE BeginRestore(r)
  <2>1. PICK v \in Versions, t \in 1..count :
           /\ LoadExact(v)
           /\ Begin(r, [Idle EXCEPT !.op = "restore", !.expected = v, !.target = t,
                            !.held = IF t = v THEN status[v] ELSE "unread"])
           /\ UNCHANGED <<wsVars, revVars, approvals, patch, evVars>>
    BY <1>7 DEF BeginRestore
  <2> DEFINE h == IF t = v THEN status[v] ELSE "unread"
             s == [Idle EXCEPT !.op = "restore", !.expected = v, !.target = t,
                               !.held = h]
  <2>2. v \in 1..count /\ req' = [req EXCEPT ![r] = s] /\ s.op = "restore" /\ s.op \in Ops
    BY <2>1 DEF Begin, Idle, LoadExact
  <2>3. s \in Request
    BY <1>1, <2>2, IdleIsRequest DEF Request
  <2>4. RequestOK(s, count, status, content)
    BY <2>2 DEF RequestOK, Idle, RevisionStatus
  <2>5. QED
    BY <2>1, <2>2, <2>3, <2>4, ReadStep
<1>8. CASE BeginPropose(r)
  <2>1. PICK v \in Versions :
           /\ LoadExact(v)
           /\ Begin(r, [Idle EXCEPT !.op = "propose", !.expected = v])
           /\ UNCHANGED <<wsVars, revVars, approvals, patch, evVars>>
    BY <1>8 DEF BeginPropose
  <2> DEFINE s == [Idle EXCEPT !.op = "propose", !.expected = v]
  <2>2. v \in 1..count /\ req' = [req EXCEPT ![r] = s] /\ s.op = "propose" /\ s.op \in Ops
    BY <2>1 DEF Begin, Idle, LoadExact
  <2>3. s \in Request
    BY <1>1, <2>2, IdleIsRequest DEF Request
  <2>4. RequestOK(s, count, status, content)
    BY <2>2 DEF RequestOK, Idle, RevisionStatus
  <2>5. QED
    BY <2>1, <2>2, <2>3, <2>4, ReadStep
<1>9. CASE BeginApply(r)
  <2>1. PICK p \in Patches, v \in Versions :
           /\ patch[p].status = "proposed" /\ ~Locked(p)
           /\ patch[p].base = v
           /\ LoadExact(v)
           /\ Begin(r, [Idle EXCEPT !.op = "apply", !.expected = v, !.patch = p,
                                    !.held = status[v]])
           /\ UNCHANGED <<wsVars, revVars, approvals, patch, evVars>>
    BY <1>9 DEF BeginApply
  <2> DEFINE s == [Idle EXCEPT !.op = "apply", !.expected = v, !.patch = p,
                               !.held = status[v]]
  <2>2. /\ v \in 1..count /\ req' = [req EXCEPT ![r] = s] /\ s.op \in Ops
        /\ s.op = "apply" /\ s.patch = p /\ s.expected = v /\ s.held = status[v]
    BY <2>1 DEF Begin, Idle, LoadExact
  <2>3. s \in Request
    BY <1>1, <2>2, IdleIsRequest DEF Request
  <2>4. RequestOK(s, count, status, content)
    BY <2>2 DEF RequestOK
  <2> HIDE DEF s
  <2>5. QED
    BY <2>1, <2>2, <2>3, <2>4, ReadStep
<1>10. CASE BeginApprove(r)
  <2>1. PICK v \in 1..count :
           /\ content[v].stage = "ready"
           /\ Begin(r, [Idle EXCEPT !.op = "approve", !.expected = v,
                                    !.held = status[v]])
           /\ UNCHANGED <<wsVars, revVars, approvals, patch, evVars>>
    BY <1>10 DEF BeginApprove
  <2> DEFINE s == [Idle EXCEPT !.op = "approve", !.expected = v, !.held = status[v]]
  <2>2. req' = [req EXCEPT ![r] = s] /\ s.op = "approve" /\ s.op \in Ops
    BY <2>1 DEF Begin, Idle
  <2>3. s \in Request
    BY <1>1, <2>2, IdleIsRequest DEF Request
  <2>4. RequestOK(s, count, status, content)
    BY <2>1 DEF RequestOK, Idle
  <2>5. QED
    BY <2>1, <2>2, <2>3, <2>4, ReadStep
<1>11. CASE BeginIngest(r)
  <2>1. PICK v \in Versions, e \in Evidence :
           /\ LoadExact(v)
           /\ Begin(r, [Idle EXCEPT !.op = "ingest", !.expected = v,
                                    !.held = "unread", !.refs = {e}])
           /\ UNCHANGED <<wsVars, revVars, approvals, patch, evVars>>
    BY <1>11 DEF BeginIngest
  <2> DEFINE s == [Idle EXCEPT !.op = "ingest", !.expected = v,
                               !.held = "unread", !.refs = {e}]
  <2>2. v \in 1..count /\ req' = [req EXCEPT ![r] = s] /\ s.op = "ingest" /\ s.op \in Ops
    BY <2>1 DEF Begin, Idle, LoadExact
  <2>3. s \in Request
    BY <1>1, <2>2, IdleIsRequest DEF Request
  <2>4. RequestOK(s, count, status, content)
    BY <2>2 DEF RequestOK, Idle, RevisionStatus
  <2>5. QED
    BY <2>1, <2>2, <2>3, <2>4, ReadStep
<1>12. QED
  BY <1>2, <1>3, <1>4, <1>5, <1>6, <1>7, <1>8, <1>9, <1>10, <1>11

-----------------------------------------------------------------------------
(* Steps that save a revision                                              *)

(* A save that finds the head it expects, or is made by a categorization,  *)
(* keeps the whole invariant: the request ends, or was never begun, and    *)
(* the patch rows stay or the saving request marks the one it owns.        *)
LEMMA SaveStep ==
  ASSUME IInv, NEW r \in Requests, NEW q, NEW c \in Content,
         q.expected \in 1..count,
         q.held \in RevisionStatus =>
            (status[q.expected] = "working" => q.held = "working"),
         q.expected = current \/ "categorize" \in Ops,
         OneWorkingRow(q),
         SaveRevision(q, c),
         pin' \in Profiles, approvals' = approvals,
         req' = req \/ req' = [req EXCEPT ![r] = Idle],
         \/ patch' = patch
         \/ /\ q = req[r] /\ q.op = "apply"
            /\ req' = [req EXCEPT ![r] = Idle]
            /\ patch' = [patch EXCEPT ![q.patch] =
                 [@ EXCEPT !.status = "applied", !.applied = count + 1]],
         artifact' \in [Evidence -> {"absent", "active", "removed"}],
         withFacts' \subseteq Evidence,
         c.refs \subseteq ActiveEvidence'
  PROVE  IInv'
<1> USE MaxVersionAssumption
<1>1. /\ current' \in 0..MaxVersion
      /\ count' \in 0..MaxVersion
      /\ status' \in [Versions -> RevisionStatus \cup {"absent"}]
      /\ parent' \in [Versions -> 0..MaxVersion]
      /\ content' \in [Versions -> Content \cup {NoContent}]
      /\ RowsInv'
      /\ count <= count' /\ count' \in Nat /\ count \in Nat
      /\ \A v \in 1..count : /\ status'[v] = "working" => status[v] = "working"
                             /\ content'[v] = content[v]
                             /\ parent'[v] = parent[v]
      /\ parent'[count'] = q.expected /\ content'[count'] = c
      /\ current' = count' /\ count' = count + 1 /\ current = count
  BY SaveKeepsRows DEF IInv
<1>2. /\ \A x \in Requests : req'[x] = req[x] \/ (x = r /\ req'[x] = Idle)
      /\ req' \in [Requests -> Request]
  BY IdleIsRequest DEF IInv, TypeOK
<1>3. RequestsOK'
  <2> SUFFICES ASSUME NEW x \in Requests
               PROVE  RequestOK(req'[x], count', status', content')
    BY DEF RequestsOK
  <2>1. CASE req'[x] = req[x]
    <3>1. RequestOK(req[x], count, status, content)
      BY DEF IInv, RequestsOK
    <3>2. RequestOK(req[x], count', status', content')
      BY <1>1, <3>1, RequestOKStable
    <3>3. QED
      BY <2>1, <3>2
  <2>2. CASE req'[x] = Idle
    <3>1. RequestOK(Idle, count', status', content')
      BY <1>1, IdleIsRequest, RequestOKStable
    <3>2. QED
      BY <2>2, <3>1
  <2>3. QED
    BY <1>2, <2>1, <2>2
<1>4. patch' \in [Patches -> [status : PatchStatus, base : 0..MaxVersion,
                              applied : 0..MaxVersion]]
  <2>1. CASE patch' = patch
    BY <2>1 DEF IInv, TypeOK
  <2>2. CASE patch' = [patch EXCEPT ![q.patch] =
                 [@ EXCEPT !.status = "applied", !.applied = count + 1]]
    <3>1. count + 1 \in 0..MaxVersion /\ "applied" \in PatchStatus
      BY <1>1 DEF PatchStatus
    <3>2. ASSUME NEW w \in [status : PatchStatus, base : 0..MaxVersion,
                            applied : 0..MaxVersion]
          PROVE  [w EXCEPT !.status = "applied", !.applied = count + 1]
                    \in [status : PatchStatus, base : 0..MaxVersion,
                        applied : 0..MaxVersion]
      BY <3>1
    <3>3. QED
      BY <2>2, <3>2 DEF IInv, TypeOK
  <2>3. QED
    BY <2>1, <2>2
<1>5. PatchesOK'
  <2>1. \A x \in Requests : req'[x].op = "apply" => req'[x] = req[x]
    BY <1>2 DEF Idle
  <2>2. \A k \in 1..count : k \in 1..count' /\ parent'[k] = parent[k]
    BY <1>1
  <2>3. CASE patch' = patch
    <3>1. \A x \in Requests : req'[x].op = "apply" =>
             /\ patch'[req'[x].patch].status = "proposed"
             /\ patch'[req'[x].patch].base = req'[x].expected
      BY <2>1, <2>3 DEF IInv, PatchesOK
    <3>2. \A r1, r2 \in Requests :
            (req'[r1].op = "apply" /\ req'[r2].op = "apply"
               /\ req'[r1].patch = req'[r2].patch) => r1 = r2
      BY <2>1 DEF IInv, PatchesOK
    <3>3. \A p \in Patches : patch'[p].status = "applied" =>
             /\ patch'[p].applied \in 1..count'
             /\ parent'[patch'[p].applied] = patch'[p].base
      BY <2>2, <2>3 DEF IInv, PatchesOK
    <3>4. QED
      BY <3>1, <3>2, <3>3 DEF PatchesOK
  <2>4. CASE /\ q = req[r] /\ q.op = "apply"
             /\ req' = [req EXCEPT ![r] = Idle]
             /\ patch' = [patch EXCEPT ![q.patch] =
                 [@ EXCEPT !.status = "applied", !.applied = count + 1]]
    <3>1. /\ q.patch \in Patches
          /\ patch[q.patch].base = q.expected
          /\ \A x \in Requests : (x # r /\ req[x].op = "apply") => req[x].patch # q.patch
          /\ \A x \in Requests : req'[x].op = "apply" => x # r
          /\ \A x \in Requests : req[x].op = "apply" => req[x].patch \in Patches
      BY <1>2, <2>4 DEF IInv, RequestsOK, RequestOK, PatchesOK, Idle, TypeOK
    <3>2. /\ \A p \in Patches \ {q.patch} : patch'[p] = patch[p]
          /\ patch'[q.patch].status = "applied"
          /\ patch'[q.patch].applied = count + 1
          /\ patch'[q.patch].base = patch[q.patch].base
      BY <2>4, <3>1 DEF IInv, TypeOK
    <3>3. \A x \in Requests : req'[x].op = "apply" =>
             /\ patch'[req'[x].patch].status = "proposed"
             /\ patch'[req'[x].patch].base = req'[x].expected
      BY <2>1, <3>1, <3>2 DEF IInv, PatchesOK
    <3>4. \A r1, r2 \in Requests :
            (req'[r1].op = "apply" /\ req'[r2].op = "apply"
               /\ req'[r1].patch = req'[r2].patch) => r1 = r2
      BY <2>1 DEF IInv, PatchesOK
    <3>5. ASSUME NEW p \in Patches, patch'[p].status = "applied"
          PROVE  /\ patch'[p].applied \in 1..count'
                 /\ parent'[patch'[p].applied] = patch'[p].base
      <4>1. CASE p = q.patch
        BY <1>1, <3>1, <3>2, <4>1
      <4>2. CASE p # q.patch
        BY <2>2, <3>2, <3>5, <4>2 DEF IInv, PatchesOK
      <4>3. QED
        BY <4>1, <4>2
    <3>6. QED
      BY <3>3, <3>4, <3>5 DEF PatchesOK
  <2>5. QED
    BY <2>3, <2>4
<1>6. HeadEvidenceIsLive'
  BY <1>1 DEF HeadEvidenceIsLive
<1>7. LinearWithoutCategorize'
  <2> SUFFICES ASSUME "categorize" \notin Ops
               PROVE  \A v \in 2..count' : parent'[v] = v - 1
    BY DEF LinearWithoutCategorize, NoLostRevision
  <2>1. \A v \in 2..count : parent'[v] = v - 1
    BY <1>1 DEF IInv, LinearWithoutCategorize, NoLostRevision
  <2>2. parent'[count'] = count' - 1
    BY <1>1
  <2>3. QED
    BY <1>1, <2>1, <2>2
<1>8. TypeOK'
  <2>1. approvals' \subseteq Versions /\ pin' \in Profiles \cup {"none"}
    BY DEF IInv, TypeOK
  <2>2. QED
    BY <1>1, <1>2, <1>4, <2>1 DEF TypeOK
<1>9. QED
  BY <1>1, <1>3, <1>5, <1>6, <1>7, <1>8 DEF IInv

(* What SaveStep needs of a request in flight.                             *)
LEMMA RequestFacts ==
  ASSUME IInv, NEW r \in Requests
  PROVE  LET q == req[r] IN
         /\ q \in Request
         /\ q.op \notin {"idle", "categorize"} =>
               /\ q.expected \in 1..count
               /\ content[q.expected] \in Content
               /\ content[q.expected].profile \in Profiles
         /\ q.held \in RevisionStatus =>
               (status[q.expected] = "working" => q.held = "working")
         /\ ActiveEvidence \subseteq Evidence
         /\ count > 0 => pin \in Profiles
  BY DEF IInv, TypeOK, RequestsOK, RequestOK, RowsInv, StoredRows, Content,
         ActiveEvidence

(* The operations that save through _save_edited_revision and write no     *)
(* other row.                                                              *)
LEMMA EditStep ==
  ASSUME IInv, NEW r \in Requests, FinishEdit(r) \/ FinishGenerate(r)
  PROVE  IInv'
<1> DEFINE q == req[r]
<1> DEFINE rf == IF q.op \in {"generate", "suggest"} THEN {} ELSE q.refs
<1>1. /\ q.op \in {"edit", "define", "classify", "diagram", "generate", "suggest"}
      /\ End(r) /\ UNCHANGED <<pin, approvals, patch, evVars>>
      /\ \E c \in Transformed(q.op, q.expected, rf, content[q.expected].profile) :
           \/ SaveAllowed(q, current, c, ActiveEvidence) /\ SaveRevision(q, c)
           \/ UNCHANGED <<current, revVars>>
  BY DEF FinishEdit, FinishGenerate
<1>2. PICK c \in Transformed(q.op, q.expected, rf, content[q.expected].profile) :
           \/ SaveAllowed(q, current, c, ActiveEvidence) /\ SaveRevision(q, c)
           \/ UNCHANGED <<current, revVars>>
  BY <1>1
<1>3. /\ q \in Request /\ q.expected \in 1..count
      /\ content[q.expected] \in Content /\ content[q.expected].profile \in Profiles
      /\ q.held \in RevisionStatus =>
            (status[q.expected] = "working" => q.held = "working")
      /\ count > 0 => pin \in Profiles
  BY <1>1, RequestFacts
<1>4. c \in Content
  <2>1. rf \in SUBSET Evidence
    BY <1>3 DEF Request
  <2> HIDE DEF rf
  <2>2. QED
    BY <1>1, <1>2, <1>3, <2>1, TransformedIsContent
<1>5. CASE UNCHANGED <<current, revVars>>
  BY <1>1, <1>5, EndStep DEF wsVars
<1>6. CASE SaveAllowed(q, current, c, ActiveEvidence) /\ SaveRevision(q, c)
  <2>1. q.expected = current /\ OneWorkingRow(q) /\ c.refs \subseteq ActiveEvidence
    BY <1>6 DEF SaveAllowed, EvidenceKnown
  <2>2. c.refs \subseteq ActiveEvidence'
    BY <1>1, <2>1 DEF ActiveEvidence, evVars
  <2>3. /\ artifact' \in [Evidence -> {"absent", "active", "removed"}]
        /\ withFacts' \subseteq Evidence
    BY <1>1 DEF IInv, TypeOK, evVars
  <2>4. pin' \in Profiles /\ approvals' = approvals /\ patch' = patch
        /\ req' = [req EXCEPT ![r] = Idle]
    BY <1>1, <1>3 DEF IInv, TypeOK, End
  <2> HIDE DEF q
  <2>5. QED
    BY <1>3, <1>4, <1>6, <2>1, <2>2, <2>3, <2>4, SaveStep
<1>7. QED
  BY <1>2, <1>5, <1>6

(* migrate_workspace_profile: the pin moves with the saved revision.       *)
LEMMA MigrateStep ==
  ASSUME IInv, NEW r \in Requests, FinishMigrate(r)
  PROVE  IInv'
<1> DEFINE q == req[r]
<1>1. /\ q.op = "migrate" /\ End(r) /\ UNCHANGED <<approvals, patch, evVars>>
      /\ q \in Request /\ q.expected \in 1..count /\ content[q.expected] \in Content
      /\ q.held \in RevisionStatus =>
            (status[q.expected] = "working" => q.held = "working")
  BY RequestFacts DEF FinishMigrate
<1>2. CASE UNCHANGED <<wsVars, revVars>>
  BY <1>1, <1>2, EndStep
<1>3. CASE \E p \in Profiles : \E c \in Transformed("migrate", q.expected, {}, p) :
              /\ SaveAllowed(q, current, c, ActiveEvidence)
              /\ SaveRevision(q, c)
              /\ pin' = p
  <2>0. PICK p \in Profiles : \E c \in Transformed("migrate", q.expected, {}, p) :
              /\ SaveAllowed(q, current, c, ActiveEvidence)
              /\ SaveRevision(q, c)
              /\ pin' = p
    BY <1>3
  <2>1. PICK c \in Transformed("migrate", q.expected, {}, p) :
              /\ SaveAllowed(q, current, c, ActiveEvidence)
              /\ SaveRevision(q, c)
              /\ pin' = p
    BY <2>0
  <2>2. c \in Content
    BY <1>1, <2>1, TransformedIsContent
  <2>3. /\ q.expected = current /\ OneWorkingRow(q)
        /\ c.refs \subseteq ActiveEvidence'
    BY <1>1, <2>1 DEF SaveAllowed, EvidenceKnown, ActiveEvidence, evVars
  <2>4. /\ artifact' \in [Evidence -> {"absent", "active", "removed"}]
        /\ withFacts' \subseteq Evidence
        /\ approvals' = approvals /\ patch' = patch
        /\ req' = [req EXCEPT ![r] = Idle]
    BY <1>1 DEF IInv, TypeOK, evVars, End
  <2> HIDE DEF q
  <2>5. QED
    BY <1>1, <2>1, <2>2, <2>3, <2>4, SaveStep
<1>4. QED
  BY <1>2, <1>3 DEF FinishMigrate

(* The save of save_system_categorization, the one that trusts the head it *)
(* read earlier.                                                           *)
LEMMA CategorizeStep ==
  ASSUME IInv, NEW r \in Requests, FinishCategorize(r)
  PROVE  IInv'
<1> DEFINE q == req[r]
<1>1. /\ q.op = "categorize" /\ q.held # "none" /\ End(r)
      /\ UNCHANGED <<pin, approvals, patch, evVars>>
      /\ \E c \in Transformed("categorize", q.expected, q.refs, q.pin) :
           \/ SaveAllowed(q, q.head, c, ActiveEvidence) /\ SaveRevision(q, c)
           \/ UNCHANGED <<current, revVars>>
  BY DEF FinishCategorize
<1>2. PICK c \in Transformed("categorize", q.expected, q.refs, q.pin) :
           \/ SaveAllowed(q, q.head, c, ActiveEvidence) /\ SaveRevision(q, c)
           \/ UNCHANGED <<current, revVars>>
  BY <1>1
<1>3. /\ q \in Request /\ q.op \in Ops /\ q.expected \in 1..count
      /\ q.pin \in Profiles
      /\ q.held \in RevisionStatus =>
            (status[q.expected] = "working" => q.held = "working")
      /\ content[q.expected] \in Content
      /\ count > 0 => pin \in Profiles
      /\ q.refs \in SUBSET Evidence
  BY <1>1 DEF IInv, TypeOK, Request, RequestsOK, RequestOK, RowsInv, StoredRows
<1>4. c \in Content
  BY <1>2, <1>3, TransformedIsContent
<1>5. CASE UNCHANGED <<current, revVars>>
  BY <1>1, <1>5, EndStep DEF wsVars
<1>6. CASE SaveAllowed(q, q.head, c, ActiveEvidence) /\ SaveRevision(q, c)
  <2>1. OneWorkingRow(q) /\ c.refs \subseteq ActiveEvidence'
    BY <1>1, <1>6 DEF SaveAllowed, EvidenceKnown, ActiveEvidence, evVars
  <2>2. /\ artifact' \in [Evidence -> {"absent", "active", "removed"}]
        /\ withFacts' \subseteq Evidence
        /\ pin' \in Profiles /\ approvals' = approvals /\ patch' = patch
        /\ req' = [req EXCEPT ![r] = Idle]
        /\ "categorize" \in Ops
    BY <1>1, <1>3 DEF IInv, TypeOK, evVars, End
  <2> HIDE DEF q
  <2>3. QED
    BY <1>3, <1>4, <1>6, <2>1, <2>2, SaveStep
<1>7. QED
  BY <1>2, <1>5, <1>6

(* restore_workspace_revision: a refused restore changes at most the pin.  *)
LEMMA RestoreStep ==
  ASSUME IInv, NEW r \in Requests, FinishRestore(r)
  PROVE  IInv'
<1> DEFINE q == req[r]
           c == content[q.target]
<1>1. /\ q.op = "restore" /\ End(r) /\ UNCHANGED <<approvals, patch, evVars>>
      /\ q \in Request /\ q.expected \in 1..count /\ q.target \in 1..count
      /\ q.held \in RevisionStatus =>
            (status[q.expected] = "working" => q.held = "working")
      /\ c \in Content /\ c.profile \in Profiles
      /\ pin \in Profiles /\ req' = [req EXCEPT ![r] = Idle]
  BY DEF FinishRestore, IInv, TypeOK, RequestsOK, RequestOK, RowsInv, StoredRows,
         Content, End
<1>2. CASE /\ SaveAllowed(q, current, c, ActiveEvidence)
           /\ SaveRevision(q, c)
           /\ pin' = c.profile
  <2>1. /\ q.expected = current /\ OneWorkingRow(q)
        /\ c.refs \subseteq ActiveEvidence'
    BY <1>1, <1>2 DEF SaveAllowed, EvidenceKnown, ActiveEvidence, evVars
  <2>2. /\ artifact' \in [Evidence -> {"absent", "active", "removed"}]
        /\ withFacts' \subseteq Evidence
        /\ pin' \in Profiles /\ approvals' = approvals /\ patch' = patch
    BY <1>1, <1>2 DEF IInv, TypeOK, evVars
  <2> HIDE DEF q, c
  <2>3. QED
    BY <1>1, <1>2, <2>1, <2>2, SaveStep
<1>3. CASE pin' \in {pin, c.profile} /\ UNCHANGED <<current, revVars>>
  <2>1. /\ UNCHANGED <<current, count, status, parent, content, approvals,
                       patch, artifact, withFacts>>
        /\ pin' \in Profiles
        /\ \A x \in Requests : req'[x] = req[x] \/ req'[x] = Idle
        /\ req' \in [Requests -> Request]
    BY <1>1, <1>3, IdleIsRequest DEF revVars, evVars, IInv, TypeOK
  <2>2. TypeOK' /\ RowsInv'
    BY <2>1 DEF IInv, TypeOK, RowsInv, StoredRows, HeadIsNewest, OnlyHeadIsOpen,
                ApprovalsAreEarned
  <2>3. RequestsOK'
    BY <2>1, IdleIsRequest DEF IInv, RequestsOK
  <2>4. PatchesOK'
    BY <2>1 DEF IInv, PatchesOK, Idle
  <2>5. HeadEvidenceIsLive' /\ LinearWithoutCategorize'
    BY <2>1 DEF IInv, HeadEvidenceIsLive, ActiveEvidence,
                LinearWithoutCategorize, NoLostRevision
  <2>6. QED
    BY <2>2, <2>3, <2>4, <2>5 DEF IInv
<1>4. QED
  BY <1>2, <1>3 DEF FinishRestore

(* apply_proposed_patch: the save and the mark on the owned patch row.     *)
LEMMA ApplyStep ==
  ASSUME IInv, NEW r \in Requests, FinishApply(r)
  PROVE  IInv'
<1> DEFINE q == req[r]
<1>1. /\ q.op = "apply" /\ End(r) /\ UNCHANGED <<pin, approvals, evVars>>
      /\ \E c \in Transformed("apply", q.expected, {}, content[q.expected].profile) :
           \/ /\ SaveAllowed(q, current, c, ActiveEvidence)
              /\ SaveRevision(q, c)
              /\ patch' = [patch EXCEPT ![q.patch] =
                             [@ EXCEPT !.status = "applied", !.applied = count + 1]]
           \/ UNCHANGED <<current, revVars, patch>>
  BY DEF FinishApply
<1>2. PICK c \in Transformed("apply", q.expected, {}, content[q.expected].profile) :
           \/ /\ SaveAllowed(q, current, c, ActiveEvidence)
              /\ SaveRevision(q, c)
              /\ patch' = [patch EXCEPT ![q.patch] =
                             [@ EXCEPT !.status = "applied", !.applied = count + 1]]
           \/ UNCHANGED <<current, revVars, patch>>
  BY <1>1
<1>3. /\ q \in Request /\ q.expected \in 1..count
      /\ content[q.expected] \in Content /\ content[q.expected].profile \in Profiles
      /\ q.held \in RevisionStatus =>
            (status[q.expected] = "working" => q.held = "working")
      /\ count > 0 => pin \in Profiles
  BY <1>1, RequestFacts
<1>4. c \in Content
  BY <1>2, <1>3, TransformedIsContent
<1>5. CASE UNCHANGED <<current, revVars, patch>>
  BY <1>1, <1>5, EndStep DEF wsVars
<1>6. CASE /\ SaveAllowed(q, current, c, ActiveEvidence)
           /\ SaveRevision(q, c)
           /\ patch' = [patch EXCEPT ![q.patch] =
                          [@ EXCEPT !.status = "applied", !.applied = count + 1]]
  <2>1. /\ q.expected = current /\ OneWorkingRow(q)
        /\ c.refs \subseteq ActiveEvidence'
    BY <1>1, <1>6 DEF SaveAllowed, EvidenceKnown, ActiveEvidence, evVars
  <2>2. /\ artifact' \in [Evidence -> {"absent", "active", "removed"}]
        /\ withFacts' \subseteq Evidence
        /\ pin' \in Profiles /\ approvals' = approvals
        /\ req' = [req EXCEPT ![r] = Idle]
    BY <1>1, <1>3 DEF IInv, TypeOK, evVars, End
  <2>3. q = req[r]
    OBVIOUS
  <2> HIDE DEF q
  <2>4. QED
    BY <1>1, <1>3, <1>4, <1>6, <2>1, <2>2, <2>3, SaveStep
<1>7. QED
  BY <1>2, <1>5, <1>6

-----------------------------------------------------------------------------
(* Steps on patch rows, approvals and evidence                             *)

(* A patch row that no request owns is proposed, marked stale or rejected. *)
LEMMA PatchStep ==
  ASSUME IInv, NEW r \in Requests,
         FinishPropose(r) \/ ApplyStale(r) \/ RejectPatch(r)
  PROVE  IInv'
<1> USE MaxVersionAssumption
<1> DEFINE Row == [status : PatchStatus, base : 0..MaxVersion, applied : 0..MaxVersion]
<1>1. /\ UNCHANGED <<wsVars, revVars, approvals, evVars>>
      /\ req' = req \/ req' = [req EXCEPT ![r] = Idle]
      /\ \E p \in Patches, w \in Row :
            /\ patch' = [patch EXCEPT ![p] = w]
            /\ w.status # "applied"
            /\ ~Locked(p)
  <2>1. CASE FinishPropose(r)
    <3>1. PICK p \in Patches :
            /\ patch[p].status = "absent"
            /\ patch' = [patch EXCEPT ![p] = [status |-> "proposed",
                                              base |-> req[r].expected,
                                              applied |-> 0]]
      BY <2>1 DEF FinishPropose
    <3>2. req[r].expected \in 0..MaxVersion
      BY DEF IInv, TypeOK, Request
    <3>3. [status |-> "proposed", base |-> req[r].expected, applied |-> 0] \in Row
      BY <3>2 DEF PatchStatus
    <3>4. ~Locked(p)
      BY <3>1 DEF Locked, IInv, PatchesOK
    <3>5. QED
      BY <2>1, <3>1, <3>3, <3>4 DEF FinishPropose, End
  <2>2. CASE ApplyStale(r)
    <3>1. PICK p \in Patches :
            /\ ~Locked(p)
            /\ patch' = [patch EXCEPT ![p].status = "stale"]
      BY <2>2 DEF ApplyStale
    <3>2. /\ [patch[p] EXCEPT !.status = "stale"] \in Row
          /\ [patch[p] EXCEPT !.status = "stale"].status = "stale"
      BY DEF IInv, TypeOK, PatchStatus
    <3>3. QED
      BY <2>2, <3>1, <3>2 DEF ApplyStale
  <2>3. CASE RejectPatch(r)
    <3>1. PICK p \in Patches :
            /\ ~Locked(p)
            /\ patch' = [patch EXCEPT ![p].status = "rejected"]
      BY <2>3 DEF RejectPatch
    <3>2. /\ [patch[p] EXCEPT !.status = "rejected"] \in Row
          /\ [patch[p] EXCEPT !.status = "rejected"].status = "rejected"
      BY DEF IInv, TypeOK, PatchStatus
    <3>3. QED
      BY <2>3, <3>1, <3>2 DEF RejectPatch
  <2>4. QED
    BY <2>1, <2>2, <2>3
<1>2. PICK p \in Patches, w \in Row :
            /\ patch' = [patch EXCEPT ![p] = w]
            /\ w.status # "applied"
            /\ ~Locked(p)
  BY <1>1
<1>3. /\ UNCHANGED <<current, pin, count, status, parent, content, approvals,
                     artifact, withFacts>>
      /\ \A x \in Requests : req'[x] = req[x] \/ req'[x] = Idle
      /\ req' \in [Requests -> Request]
      /\ patch' \in [Patches -> Row]
      /\ patch'[p] = w /\ \A y \in Patches \ {p} : patch'[y] = patch[y]
  BY <1>1, <1>2, IdleIsRequest DEF wsVars, revVars, evVars, IInv, TypeOK
<1>4. TypeOK' /\ RowsInv'
  BY <1>3 DEF IInv, TypeOK, RowsInv, StoredRows, HeadIsNewest, OnlyHeadIsOpen,
              ApprovalsAreEarned
<1>5. RequestsOK'
  BY <1>3, IdleIsRequest DEF IInv, RequestsOK
<1>6. PatchesOK'
  <2>1. \A x \in Requests : req'[x].op = "apply" =>
           req'[x] = req[x] /\ req[x].patch \in Patches \ {p}
    BY <1>2, <1>3 DEF Idle, Locked, IInv, RequestsOK, RequestOK
  <2>2. QED
    BY <1>2, <1>3, <2>1 DEF IInv, PatchesOK
<1>7. HeadEvidenceIsLive' /\ LinearWithoutCategorize'
  BY <1>3 DEF IInv, HeadEvidenceIsLive, ActiveEvidence,
              LinearWithoutCategorize, NoLostRevision
<1>8. QED
  BY <1>4, <1>5, <1>6, <1>7 DEF IInv

(* approve_current_revision: the head, read as working, becomes approved.  *)
LEMMA ApproveStep ==
  ASSUME IInv, NEW r \in Requests, FinishApprove(r)
  PROVE  IInv'
<1> USE MaxVersionAssumption
<1> DEFINE q == req[r]
<1>1. /\ q.op = "approve" /\ End(r)
      /\ UNCHANGED <<wsVars, count, parent, content, patch, evVars>>
      /\ q.expected \in 1..count /\ content[q.expected].stage = "ready"
  BY DEF FinishApprove, IInv, RequestsOK, RequestOK
<1>2. CASE UNCHANGED <<status, approvals>>
  BY <1>1, <1>2, EndStep DEF revVars
<1>3. CASE /\ current = q.expected
           /\ status' = [status EXCEPT ![q.expected] = "approved"]
           /\ approvals' = approvals \cup {q.expected}
  <2>1. /\ UNCHANGED <<current, pin, count, parent, content, patch, artifact,
                       withFacts>>
        /\ \A x \in Requests : req'[x] = req[x] \/ req'[x] = Idle
        /\ req' \in [Requests -> Request]
        /\ 1..count \subseteq Versions
        /\ count \in Nat
    BY <1>1, IdleIsRequest DEF wsVars, evVars, IInv, TypeOK, End, Versions
  <2>2. /\ status' \in [Versions -> RevisionStatus \cup {"absent"}]
        /\ status'[q.expected] = "approved"
        /\ \A v \in Versions : v # q.expected => status'[v] = status[v]
        /\ approvals' \subseteq 1..count
    BY <1>1, <1>3, <2>1 DEF IInv, TypeOK, RevisionStatus, RowsInv, StoredRows
  <2>3. TypeOK'
    BY <2>1, <2>2 DEF IInv, TypeOK
  <2> HIDE DEF q
  <2>4. StoredRows'
    BY <1>1, <2>1, <2>2 DEF IInv, RowsInv, StoredRows, RevisionStatus, Versions
  <2>5. HeadIsNewest' /\ OnlyHeadIsOpen'
    BY <1>1, <1>3, <2>1, <2>2 DEF IInv, RowsInv, HeadIsNewest, OnlyHeadIsOpen
  <2>6. ApprovalsAreEarned'
    BY <1>1, <1>3, <2>1, <2>2 DEF IInv, RowsInv, StoredRows, ApprovalsAreEarned
  <2>7. RequestsOK'
    <3> SUFFICES ASSUME NEW x \in Requests
                 PROVE  RequestOK(req'[x], count', status', content')
      BY DEF RequestsOK
    <3>1. \A v \in 1..count : /\ status'[v] = "working" => status[v] = "working"
                              /\ content'[v] = content[v]
      BY <2>1, <2>2
    <3>2. \/ RequestOK(req[x], count, status, content) /\ req'[x] = req[x]
          \/ RequestOK(Idle, count, status, content) /\ req'[x] = Idle
      BY <2>1, IdleIsRequest DEF IInv, RequestsOK
    <3>3. RequestOK(req'[x], count, status, content)
      BY <3>2
    <3>4. count' = count /\ count <= count
      BY <2>1
    <3>5. QED
      BY <2>1, <3>1, <3>3, <3>4, RequestOKStable
  <2>8. PatchesOK'
    BY <2>1 DEF IInv, PatchesOK, Idle
  <2>9. HeadEvidenceIsLive' /\ LinearWithoutCategorize'
    BY <2>1 DEF IInv, HeadEvidenceIsLive, ActiveEvidence,
                LinearWithoutCategorize, NoLostRevision
  <2>10. QED
    BY <2>3, <2>4, <2>5, <2>6, <2>7, <2>8, <2>9 DEF IInv, RowsInv
<1>4. QED
  BY <1>2, <1>3 DEF FinishApprove

(* ingest_workspace_evidence: a row becomes active, and the revision that  *)
(* carries its facts is saved in the same step.                            *)
LEMMA IngestStep ==
  ASSUME IInv, NEW r \in Requests, FinishIngest(r)
  PROVE  IInv'
<1> DEFINE q == req[r]
<1>1. /\ q.op = "ingest" /\ End(r) /\ UNCHANGED <<pin, approvals, patch>>
      /\ q \in Request /\ q.expected \in 1..count
      /\ content[q.expected] \in Content /\ content[q.expected].profile \in Profiles
      /\ q.held \in RevisionStatus =>
            (status[q.expected] = "working" => q.held = "working")
      /\ count > 0 => pin \in Profiles
  BY RequestFacts DEF FinishIngest
<1>2. CASE UNCHANGED <<current, revVars, evVars>>
  BY <1>1, <1>2, EndStep DEF wsVars
<1>3. ASSUME NEW e \in q.refs,
             artifact' = [artifact EXCEPT ![e] = "active"],
             withFacts' \in {withFacts, withFacts \cup {e}},
             \/ UNCHANGED <<current, revVars>>
             \/ \E c \in Transformed("ingest", q.expected, {e},
                                     content[q.expected].profile) :
                   /\ SaveAllowed(q, current, c, ActiveEvidence \cup {e})
                   /\ SaveRevision(q, c)
      PROVE  IInv'
  <2>1. /\ e \in Evidence
        /\ artifact' \in [Evidence -> {"absent", "active", "removed"}]
        /\ withFacts' \subseteq Evidence
        /\ ActiveEvidence' = ActiveEvidence \cup {e}
        /\ req' = [req EXCEPT ![r] = Idle]
    BY <1>1, <1>3 DEF IInv, TypeOK, Request, ActiveEvidence, End
  <2>2. CASE UNCHANGED <<current, revVars>>
    <3>1. /\ UNCHANGED <<current, pin, count, status, parent, content,
                         approvals, patch>>
          /\ \A x \in Requests : req'[x] = req[x] \/ req'[x] = Idle
          /\ req' \in [Requests -> Request]
      BY <1>1, <2>1, <2>2, IdleIsRequest DEF revVars, IInv, TypeOK
    <3>2. TypeOK' /\ RowsInv'
      BY <2>1, <3>1 DEF IInv, TypeOK, RowsInv, StoredRows, HeadIsNewest,
                        OnlyHeadIsOpen, ApprovalsAreEarned
    <3>3. RequestsOK'
      BY <3>1, IdleIsRequest DEF IInv, RequestsOK
    <3>4. PatchesOK'
      BY <3>1 DEF IInv, PatchesOK, Idle
    <3>5. HeadEvidenceIsLive' /\ LinearWithoutCategorize'
      BY <2>1, <3>1 DEF IInv, HeadEvidenceIsLive, LinearWithoutCategorize,
                        NoLostRevision
    <3>6. QED
      BY <3>2, <3>3, <3>4, <3>5 DEF IInv
  <2>3. CASE \E c \in Transformed("ingest", q.expected, {e},
                                  content[q.expected].profile) :
                /\ SaveAllowed(q, current, c, ActiveEvidence \cup {e})
                /\ SaveRevision(q, c)
    <3>1. PICK c \in Transformed("ingest", q.expected, {e},
                                 content[q.expected].profile) :
                /\ SaveAllowed(q, current, c, ActiveEvidence \cup {e})
                /\ SaveRevision(q, c)
      BY <2>3
    <3>2. {e} \in SUBSET Evidence
      BY <2>1
    <3>3. c \in Content
      BY <1>1, <3>1, <3>2, TransformedIsContent
    <3>4. /\ q.expected = current /\ OneWorkingRow(q)
          /\ c.refs \subseteq ActiveEvidence'
      BY <2>1, <3>1 DEF SaveAllowed, EvidenceKnown
    <3>5. pin' \in Profiles /\ approvals' = approvals /\ patch' = patch
      BY <1>1 DEF IInv, TypeOK
    <3> HIDE DEF q
    <3>6. QED
      BY <1>1, <2>1, <3>1, <3>3, <3>4, <3>5, SaveStep
  <2>4. QED
    BY <1>3, <2>2, <2>3
<1>4. \/ UNCHANGED <<current, revVars, evVars>>
      \/ \E e \in q.refs :
            /\ artifact' = [artifact EXCEPT ![e] = "active"]
            /\ withFacts' \in {withFacts, withFacts \cup {e}}
            /\ \/ UNCHANGED <<current, revVars>>
               \/ \E c \in Transformed("ingest", q.expected, {e},
                                       content[q.expected].profile) :
                     /\ SaveAllowed(q, current, c, ActiveEvidence \cup {e})
                     /\ SaveRevision(q, c)
  BY DEF FinishIngest
<1>5. QED
  BY <1>2, <1>3, <1>4

(* remove_workspace_evidence: the links go in the step that removes the    *)
(* row, so the head never points at it.                                    *)
LEMMA RemoveStep ==
  ASSUME IInv, NEW r \in Requests, RemoveEvidence(r)
  PROVE  IInv'
<1> DEFINE q == [Idle EXCEPT !.expected = current, !.held = "unread"]
<1>1. PICK e \in ActiveEvidence :
         LET c == [content[current] EXCEPT !.refs = @ \ {e}] IN
         /\ SaveAllowed(q, current, c, ActiveEvidence)
         /\ SaveRevision(q, c)
         /\ artifact' = [artifact EXCEPT ![e] = "removed"]
  BY DEF RemoveEvidence
<1> DEFINE c == [content[current] EXCEPT !.refs = @ \ {e}]
<1>2. /\ count > 0 /\ UNCHANGED <<pin, approvals, patch, withFacts, req>>
      /\ current \in 1..count /\ content[current] \in Content /\ pin \in Profiles
      /\ content[current].refs \subseteq ActiveEvidence
  BY DEF RemoveEvidence, IInv, TypeOK, RowsInv, StoredRows, HeadIsNewest,
         HeadEvidenceIsLive
<1>3. c \in Content /\ c.refs = content[current].refs \ {e}
  BY <1>2 DEF Content
<1>4. q.expected = current /\ q.held = "unread"
  BY DEF Idle
<1>5. /\ ActiveEvidence' = ActiveEvidence \ {e}
      /\ artifact' \in [Evidence -> {"absent", "active", "removed"}]
      /\ withFacts' \subseteq Evidence
  BY <1>1, <1>2 DEF ActiveEvidence, IInv, TypeOK
<1>6. SaveRevision(q, c) /\ OneWorkingRow(q)
  BY <1>1 DEF SaveAllowed
<1>7. "unread" \notin RevisionStatus
  BY DEF RevisionStatus
<1> HIDE DEF q, c
<1>8. QED
  BY <1>2, <1>3, <1>4, <1>5, <1>6, <1>7, SaveStep

(* create_initialized_workspace writes the first revision.                 *)
LEMMA CreateStep ==
  ASSUME IInv, CreateWorkspace
  PROVE  IInv'
<1> USE MaxVersionAssumption
<1>1. PICK p \in Profiles :
         /\ pin' = p
         /\ content' = [content EXCEPT ![1] = [profile |-> p, refs |-> {},
                                               stage |-> "empty"]]
  BY DEF CreateWorkspace
<1> DEFINE c == [profile |-> p, refs |-> {}, stage |-> "empty"]
<1>2. c \in Content /\ c.refs = {}
  BY DEF Content, Stages
<1>3. /\ count = 0 /\ count' = 1 /\ current' = 1
      /\ UNCHANGED <<parent, approvals, patch, artifact, withFacts, req>>
      /\ 1 \in Versions /\ approvals = {} /\ \A k : k \notin 1..count
      /\ status' \in [Versions -> RevisionStatus \cup {"absent"}]
      /\ status'[1] = "working"
      /\ \A v \in Versions : v # 1 => status'[v] = status[v]
  BY DEF CreateWorkspace, evVars, Versions, IInv, TypeOK, RowsInv, StoredRows,
         RevisionStatus
<1> HIDE DEF c
<1>4. /\ content' \in [Versions -> Content \cup {NoContent}] /\ content'[1] = c
      /\ \A v \in Versions : v # 1 => content'[v] = content[v]
  BY <1>1, <1>2, <1>3 DEF IInv, TypeOK, c
<1>5. TypeOK'
  BY <1>1, <1>3, <1>4 DEF IInv, TypeOK
<1>6. RowsInv'
  <2>1. \A v \in 1..1 : v = 1
    OBVIOUS
  <2>2. StoredRows'
    BY <1>1, <1>2, <1>3, <1>4, <2>1 DEF IInv, RowsInv, StoredRows, RevisionStatus,
                                        Versions
  <2>3. HeadIsNewest'
    BY <1>3 DEF HeadIsNewest
  <2>4. OnlyHeadIsOpen' /\ ApprovalsAreEarned'
    BY <1>3, <2>1 DEF OnlyHeadIsOpen, ApprovalsAreEarned
  <2>5. QED
    BY <2>2, <2>3, <2>4 DEF RowsInv
<1>7. RequestsOK'
  <2> SUFFICES ASSUME NEW x \in Requests
               PROVE  RequestOK(req'[x], count', status', content')
    BY DEF RequestsOK
  <2>1. RequestOK(req[x], 0, status, content)
    BY <1>3 DEF IInv, RequestsOK
  <2>2. RequestOK(req[x], 1, status', content')
    BY <2>1, RequestOKStable
  <2>3. QED
    BY <1>3, <2>2
<1>8. PatchesOK'
  BY <1>3 DEF IInv, PatchesOK
<1>9. HeadEvidenceIsLive'
  BY <1>2, <1>3, <1>4 DEF HeadEvidenceIsLive
<1>10. LinearWithoutCategorize'
  BY <1>3 DEF LinearWithoutCategorize, NoLostRevision
<1>11. QED
  BY <1>5, <1>6, <1>7, <1>8, <1>9, <1>10 DEF IInv

-----------------------------------------------------------------------------
(* The theorems                                                            *)

(* The empty store satisfies the invariant.                                *)
LEMMA InitIInv == Init => IInv
<1> SUFFICES ASSUME Init PROVE IInv
  OBVIOUS
<1> USE MaxVersionAssumption DEF Init
<1>1. TypeOK
  BY IdleIsRequest DEF TypeOK, PatchStatus
<1>2. RowsInv
  BY DEF RowsInv, StoredRows, HeadIsNewest, OnlyHeadIsOpen, ApprovalsAreEarned
<1>3. RequestsOK
  BY IdleIsRequest DEF RequestsOK
<1>4. PatchesOK
  BY DEF PatchesOK, Idle
<1>5. HeadEvidenceIsLive /\ LinearWithoutCategorize
  BY DEF HeadEvidenceIsLive, LinearWithoutCategorize, NoLostRevision
<1>6. QED
  BY <1>1, <1>2, <1>3, <1>4, <1>5 DEF IInv

(* Every step of the store, of whichever request, keeps the invariant.     *)
LEMMA NextIInv == IInv /\ [Next]_vars => IInv'
<1> SUFFICES ASSUME IInv, [Next]_vars PROVE IInv'
  OBVIOUS
<1>1. CASE UNCHANGED vars
  BY <1>1 DEF vars, IInv, TypeOK, RowsInv, StoredRows, HeadIsNewest,
              OnlyHeadIsOpen, ApprovalsAreEarned, RequestsOK, PatchesOK,
              HeadEvidenceIsLive, ActiveEvidence, LinearWithoutCategorize,
              NoLostRevision
<1>2. CASE CreateWorkspace
  BY <1>2, CreateStep
<1>3. ASSUME NEW r \in Requests,
             \/ BeginEdit(r)       \/ BeginDefine(r)    \/ BeginClassify(r)
             \/ BeginDiagram(r)    \/ FinishEdit(r)
             \/ BeginGenerate(r)   \/ BeginSuggest(r)   \/ FinishGenerate(r)
             \/ BeginMigrate(r)    \/ FinishMigrate(r)
             \/ BeginCategorize(r) \/ LoadCategorize(r) \/ FinishCategorize(r)
             \/ BeginRestore(r)    \/ FinishRestore(r)
             \/ BeginPropose(r)    \/ FinishPropose(r)
             \/ BeginApply(r)      \/ ApplyStale(r)     \/ FinishApply(r)
             \/ RejectPatch(r)
             \/ BeginApprove(r)    \/ FinishApprove(r)
             \/ BeginIngest(r)     \/ FinishIngest(r)
             \/ RemoveEvidence(r)
             \/ Abort(r)
      PROVE  IInv'
  <2>1. CASE \/ BeginEdit(r) \/ BeginDefine(r) \/ BeginClassify(r) \/ BeginMigrate(r)
    BY <2>1, HoldingStep DEF BeginEdit, BeginDefine, BeginClassify, BeginMigrate
  <2>2. CASE \/ BeginDiagram(r) \/ BeginGenerate(r) \/ BeginSuggest(r)
             \/ BeginCategorize(r) \/ LoadCategorize(r) \/ BeginRestore(r)
             \/ BeginPropose(r) \/ BeginApply(r) \/ BeginApprove(r) \/ BeginIngest(r)
    BY <2>2, BeginStep
  <2>3. CASE FinishEdit(r) \/ FinishGenerate(r)
    BY <2>3, EditStep
  <2>4. CASE FinishMigrate(r)
    BY <2>4, MigrateStep
  <2>5. CASE FinishCategorize(r)
    BY <2>5, CategorizeStep
  <2>6. CASE FinishRestore(r)
    BY <2>6, RestoreStep
  <2>7. CASE FinishApply(r)
    BY <2>7, ApplyStep
  <2>8. CASE FinishPropose(r) \/ ApplyStale(r) \/ RejectPatch(r)
    BY <2>8, PatchStep
  <2>9. CASE FinishApprove(r)
    BY <2>9, ApproveStep
  <2>10. CASE FinishIngest(r)
    BY <2>10, IngestStep
  <2>11. CASE RemoveEvidence(r)
    BY <2>11, RemoveStep
  <2>12. CASE Abort(r)
    BY <2>12, EndStep DEF Abort
  <2>13. QED
    BY <1>3, <2>1, <2>2, <2>3, <2>4, <2>5, <2>6, <2>7, <2>8, <2>9, <2>10,
       <2>11, <2>12
<1>4. QED
  BY <1>1, <1>2, <1>3 DEF Next

(* The inductive invariant holds in every reachable state.                 *)
THEOREM InvariantHolds == Spec => []IInv
  BY InitIInv, NextIInv, PTL DEF Spec

(* The store's rows and every request's copies keep their types.           *)
THEOREM TypeCorrect == Spec => []TypeOK
<1>1. IInv => TypeOK
  BY DEF IInv
<1>2. QED
  BY <1>1, InvariantHolds, PTL

(* However many requests race, the workspace points at its newest revision *)
(* (save_revision).                                                        *)
THEOREM HeadNewest == Spec => []HeadIsNewest
<1>1. IInv => HeadIsNewest
  BY DEF IInv, RowsInv
<1>2. QED
  BY <1>1, InvariantHolds, PTL

(* Only the head is working, and the head is never superseded.             *)
THEOREM HeadOpen == Spec => []OnlyHeadIsOpen
<1>1. IInv => OnlyHeadIsOpen
  BY DEF IInv, RowsInv
<1>2. QED
  BY <1>1, InvariantHolds, PTL

(* Every approval passed the gate on the content it snapshots              *)
(* (approve_workspace_revision).                                           *)
THEOREM ApprovalsEarned == Spec => []ApprovalsAreEarned
<1>1. IInv => ApprovalsAreEarned
  BY DEF IInv, RowsInv
<1>2. QED
  BY <1>1, InvariantHolds, PTL

(* The head never links evidence that was removed                          *)
(* (remove_workspace_evidence, _validate_evidence_references).             *)
THEOREM EvidenceLive == Spec => []HeadEvidenceIsLive
<1>1. IInv => HeadEvidenceIsLive
  BY DEF IInv
<1>2. QED
  BY <1>1, InvariantHolds, PTL

(* An applied patch is the child of its base (apply_proposed_patch).       *)
THEOREM PatchesOnBase == Spec => []PatchesApplyToTheirBase
<1>1. IInv => PatchesApplyToTheirBase
  BY DEF IInv, PatchesOK, PatchesApplyToTheirBase
<1>2. QED
  BY <1>1, InvariantHolds, PTL

(* Without save_system_categorization the history is linear: no save       *)
(* bypasses a revision, however the other operations race.                 *)
THEOREM LinearHistory == ("categorize" \notin Ops) => (Spec => []NoLostRevision)
<1> SUFFICES ASSUME "categorize" \notin Ops PROVE Spec => []NoLostRevision
  OBVIOUS
<1>1. IInv => NoLostRevision
  BY DEF IInv, LinearWithoutCategorize
<1>2. QED
  BY <1>1, InvariantHolds, PTL

(* What a step may do to a resolved patch row: nothing.                    *)
KeepsResolved ==
    \A p \in Patches :
       patch[p].status \in {"applied", "rejected", "stale"} => patch'[p] = patch[p]

(* Only an owned, hence proposed, row is ever rewritten.                   *)
LEMMA NextKeepsResolved == IInv /\ [Next]_vars => [KeepsResolved]_vars
<1> SUFFICES ASSUME IInv, Next PROVE KeepsResolved
  BY DEF KeepsResolved
<1>1. CASE patch' = patch
  BY <1>1 DEF KeepsResolved
<1>2. ASSUME NEW r \in Requests,
             FinishPropose(r) \/ ApplyStale(r) \/ RejectPatch(r) \/ FinishApply(r)
      PROVE  KeepsResolved
  <2>1. CASE FinishPropose(r) \/ ApplyStale(r) \/ RejectPatch(r)
    <3>1. PICK p \in Patches : /\ patch[p].status \in {"absent", "proposed"}
                               /\ \A y \in Patches \ {p} : patch'[y] = patch[y]
      BY <2>1 DEF FinishPropose, ApplyStale, RejectPatch, IInv, TypeOK
    <3>2. QED
      BY <3>1 DEF KeepsResolved
  <2>2. CASE FinishApply(r)
    <3>1. /\ req[r].patch \in Patches
          /\ patch[req[r].patch].status = "proposed"
      BY <2>2 DEF FinishApply, IInv, RequestsOK, RequestOK, PatchesOK
    <3>2. \A y \in Patches \ {req[r].patch} : patch'[y] = patch[y]
      BY <2>2 DEF FinishApply, IInv, TypeOK
    <3>3. QED
      BY <3>1, <3>2 DEF KeepsResolved
  <2>3. QED
    BY <1>2, <2>1, <2>2
<1>3. \/ patch' = patch
      \/ \E r \in Requests :
            FinishPropose(r) \/ ApplyStale(r) \/ RejectPatch(r) \/ FinishApply(r)
  BY DEF Next, CreateWorkspace, BeginEdit, BeginDefine, BeginClassify, BeginHolding,
         BeginDiagram, FinishEdit, BeginGenerate, BeginSuggest, FinishGenerate,
         BeginMigrate, FinishMigrate, BeginCategorize, LoadCategorize,
         FinishCategorize, BeginRestore, FinishRestore, BeginPropose, BeginApply,
         BeginApprove, FinishApprove, BeginIngest, FinishIngest, RemoveEvidence,
         Abort
<1>4. QED
  BY <1>1, <1>2, <1>3

(* A resolved agent patch is final: the row lock makes the first           *)
(* resolution the only one (_load_patch_for_update).                       *)
THEOREM PatchesFinal == Spec => ResolvedPatchesAreFinal
<1>1. ResolvedPatchesAreFinal <=> [][KeepsResolved]_vars
  BY PTL DEF ResolvedPatchesAreFinal, KeepsResolved
<1>2. QED
  BY <1>1, InvariantHolds, NextKeepsResolved, PTL DEF Spec

-----------------------------------------------------------------------------
(***************************************************************************)
(* The audit chain                                                         *)
(*                                                                         *)
(* What the advisory lock alone guarantees of the audit chain, for any     *)
(* number of transactions, events and identifiers, and whatever times the  *)
(* callers sampled: one stored event starts the chain and no stored event  *)
(* links to one that was rolled back.  And what it guarantees when appends *)
(* carry later and later times: the verifier finds no break, whatever      *)
(* commits between its batches.                                            *)
(***************************************************************************)

(* The two properties hold of the stored events because they hold of what  *)
(* each transaction sees: its own uncommitted events and the stored ones.  *)
StartsOnce(S) ==
    \A e, o \in S : e.previous = Genesis /\ o.previous = Genesis => e = o
Closed(S) ==
    \A e \in S : e.previous # Genesis => \E o \in S : o.id = e.previous

Chained ==
    /\ StartsOnce(chain) /\ Closed(chain)
    /\ \A t \in Txns : StartsOnce(Visible(t)) /\ Closed(Visible(t))

ChainInv == ChainTypeOK /\ Chained

-----------------------------------------------------------------------------
(* The hash an append reads is an identifier it sees, or the genesis hash  *)
(* when it sees nothing.                                                   *)
LEMMA LatestHashSeen ==
    ASSUME NEW t \in Txns, NEW hash \in LatestHash(t)
    PROVE  \/ hash = Genesis /\ Visible(t) = {}
           \/ \E l \in Visible(t) : hash = l.id
  BY DEF LatestHash, LastHash

(* An event whose hash an append read keeps what the append sees chained.  *)
LEMMA AppendChains ==
    ASSUME NEW S, S \subseteq Event, StartsOnce(S), Closed(S),
           NEW e \in Event,
           \/ e.previous = Genesis /\ S = {}
           \/ \E l \in S : e.previous = l.id
    PROVE  StartsOnce(S \cup {e}) /\ Closed(S \cup {e})
  <1>1. CASE e.previous = Genesis /\ S = {}
    BY <1>1 DEF StartsOnce, Closed
  <1>2. CASE \E l \in S : e.previous = l.id
    <2>1. e.previous # Genesis
      BY <1>2, IdsAssumption DEF Event
    <2>2. QED
      BY <1>2, <2>1 DEF StartsOnce, Closed
  <1>3. QED
    BY <1>1, <1>2

LEMMA ChainInitInvariant == ChainInit => ChainInv
  BY OwnersAssumption, BoundsAssumption
     DEF ChainInit, ChainInv, ChainTypeOK, Chained, StartsOnce, Closed, Visible,
         Transaction, Verification, Event

(* Sampling, ticking and verifying leave rows and lock alone. *)
LEMMA RowsUntouched ==
    ASSUME ChainInv, ChainTypeOK', UNCHANGED chain,
           \A t \in Txns : txn'[t].own = txn[t].own
    PROVE  ChainInv'
  BY DEF ChainInv, Chained, StartsOnce, Closed, Visible

LEMMA ChainTickInvariant == ChainInv /\ Tick => ChainInv'
  <1> SUFFICES ASSUME ChainInv, Tick PROVE ChainInv'
    OBVIOUS
  <1>1. ChainTypeOK'
    BY BoundsAssumption DEF ChainInv, ChainTypeOK, Tick
  <1>2. QED
    BY <1>1, RowsUntouched DEF Tick

LEMMA SampleInvariant ==
    ASSUME NEW t \in Txns, ChainInv, Sample(t)
    PROVE  ChainInv'
  <1>1. /\ txn'[t] = [txn[t] EXCEPT !.phase = "open", !.at = now]
        /\ txn[t] \in Transaction /\ now \in Nat
    BY BoundsAssumption DEF ChainInv, ChainTypeOK, Sample
  <1>2. txn'[t] \in Transaction /\ txn'[t].own = txn[t].own
    BY <1>1 DEF Transaction
  <1>3. txn' \in [Txns -> Transaction]
    BY <1>2 DEF ChainInv, ChainTypeOK, Sample
  <1>4. \A u \in Txns : txn'[u].own = txn[u].own
    BY <1>2 DEF ChainInv, ChainTypeOK, Sample
  <1>5. ChainTypeOK'
    BY <1>3, <1>4 DEF ChainInv, ChainTypeOK, Sample
  <1>6. QED
    BY <1>4, <1>5, RowsUntouched DEF Sample

LEMMA AppendInvariant ==
    ASSUME NEW t \in Txns, ChainInv, AppendEvent(t)
    PROVE  ChainInv'
  <1>1. PICK id \in Ids \ UsedIds, hash \in LatestHash(t) :
          txn' = [txn EXCEPT ![t].own =
                    @ \cup {[id |-> id, at |-> txn[t].at, previous |-> hash]}]
    BY DEF AppendEvent
  <1> DEFINE e == [id |-> id, at |-> txn[t].at, previous |-> hash]
  <1>2. \/ hash = Genesis /\ Visible(t) = {}
        \/ \E l \in Visible(t) : hash = l.id
    BY LatestHashSeen
  <1>3. txn[t] \in Transaction /\ Visible(t) \subseteq Event
    BY DEF ChainInv, ChainTypeOK, Visible, Transaction
  <1>4. e \in Event
    BY <1>2, <1>3 DEF Event, Transaction
  <1>5. txn'[t] = [txn[t] EXCEPT !.own = @ \cup {e}]
    BY <1>1 DEF ChainInv, ChainTypeOK
  <1>6. txn'[t] \in Transaction /\ txn'[t].own = txn[t].own \cup {e}
    BY <1>3, <1>4, <1>5 DEF Transaction
  <1>7. \A u \in Txns \ {t} : txn'[u] = txn[u]
    BY <1>1 DEF ChainInv, ChainTypeOK
  <1>8. \A u \in Txns \ {t} : txn[u].own = {}
    BY OwnersAssumption DEF ChainInv, ChainTypeOK, AppendEvent, LockFree
  <1>9. ChainTypeOK'
    <2>1. txn' \in [Txns -> Transaction]
      BY <1>1, <1>6, <1>7 DEF ChainInv, ChainTypeOK
    <2>2. \A u \in Txns : txn'[u].own # {} => lock' = u
      BY <1>7, <1>8 DEF AppendEvent
    <2>3. QED
      BY <2>1, <2>2 DEF ChainInv, ChainTypeOK, AppendEvent
  <1>10. StartsOnce(Visible(t) \cup {e}) /\ Closed(Visible(t) \cup {e})
    BY <1>2, <1>3, <1>4, AppendChains DEF ChainInv, Chained
  <1>11. Visible(t)' = Visible(t) \cup {e}
    BY <1>6 DEF Visible, AppendEvent
  <1>12. \A u \in Txns \ {t} : Visible(u)' = Visible(u)
    BY <1>7 DEF Visible, AppendEvent
  <1>13. Chained'
    BY <1>10, <1>11, <1>12
       DEF ChainInv, Chained, StartsOnce, Closed, AppendEvent
  <1>14. QED
    BY <1>9, <1>13 DEF ChainInv

(* What the end of a transaction, either way, does to the rows of others.  *)
LEMMA EndOfTransaction ==
    ASSUME NEW t \in Txns, ChainTypeOK, lock' = Released(t),
           txn' = [txn EXCEPT ![t].phase = "ended", ![t].own = {}]
    PROVE  /\ txn' \in [Txns -> Transaction]
           /\ txn'[t].own = {}
           /\ \A u \in Txns \ {t} : txn'[u] = txn[u]
           /\ lock' \in Txns \cup {Nobody}
           /\ \A u \in Txns : txn'[u].own # {} => lock' = u
  <1>1. /\ txn'[t] = [txn[t] EXCEPT !.phase = "ended", !.own = {}]
        /\ txn[t] \in Transaction
    BY DEF ChainTypeOK
  <1>2. txn'[t] \in Transaction /\ txn'[t].own = {}
    <2>1. txn'[t] = [phase |-> "ended", at |-> txn[t].at, own |-> {}]
      BY <1>1 DEF Transaction
    <2>2. txn[t].at \in Nat
      BY <1>1 DEF Transaction
    <2>3. \A S \in SUBSET Event :
            [phase |-> "ended", at |-> txn[t].at, own |-> S] \in Transaction
      BY <2>2 DEF Transaction
    <2>4. {} \in SUBSET Event
      OBVIOUS
    <2>5. [phase |-> "ended", at |-> txn[t].at, own |-> {}] \in Transaction
      BY <2>3, <2>4
    <2>6. txn'[t] \in Transaction
      BY <2>1, <2>5, Zenon
    <2>7. [phase |-> "ended", at |-> txn[t].at, own |-> {}].own = {}
      OBVIOUS
    <2>8. QED
      BY <2>1, <2>6, <2>7, Zenon
  <1>3. \A u \in Txns \ {t} : txn'[u] = txn[u]
    BY DEF ChainTypeOK
  <1>4. txn' \in [Txns -> Transaction]
    BY <1>2, <1>3 DEF ChainTypeOK
  <1>5. QED
    BY <1>2, <1>3, <1>4 DEF ChainTypeOK, Released

LEMMA CommitInvariant ==
    ASSUME NEW t \in Txns, ChainInv, Commit(t)
    PROVE  ChainInv'
  <1>1. /\ txn' \in [Txns -> Transaction]
        /\ txn'[t].own = {}
        /\ \A u \in Txns \ {t} : txn'[u] = txn[u]
        /\ lock' \in Txns \cup {Nobody}
        /\ \A u \in Txns : txn'[u].own # {} => lock' = u
    BY EndOfTransaction DEF ChainInv, Commit
  <1>2. chain' = Visible(t)
    BY DEF Commit, Visible
  <1>3. ChainTypeOK'
    BY <1>1 DEF ChainInv, ChainTypeOK, Commit, Transaction
  <1>4. StartsOnce(Visible(t)) /\ Closed(Visible(t))
    BY DEF ChainInv, Chained
  <1>5. CASE txn[t].own = {}
    <2>1. \A u \in Txns : Visible(u)' = Visible(u)
      BY <1>1, <1>5 DEF Visible, Commit
    <2>2. QED
      BY <1>2, <1>3, <1>4, <2>1 DEF ChainInv, Chained, StartsOnce, Closed
  <1>6. CASE txn[t].own # {}
    <2>1. \A u \in Txns \ {t} : txn[u].own = {}
      BY <1>6 DEF ChainInv, ChainTypeOK
    <2>2. \A u \in Txns : Visible(u)' = chain'
      BY <1>1, <2>1 DEF Visible
    <2>3. QED
      BY <1>2, <1>3, <1>4, <2>2 DEF ChainInv, Chained, StartsOnce, Closed
  <1>7. QED
    BY <1>5, <1>6

LEMMA RollbackInvariant ==
    ASSUME NEW t \in Txns, ChainInv, Rollback(t)
    PROVE  ChainInv'
  <1>1. /\ txn' \in [Txns -> Transaction]
        /\ txn'[t].own = {}
        /\ \A u \in Txns \ {t} : txn'[u] = txn[u]
        /\ lock' \in Txns \cup {Nobody}
        /\ \A u \in Txns : txn'[u].own # {} => lock' = u
    BY EndOfTransaction DEF ChainInv, Rollback
  <1>2. ChainTypeOK'
    BY <1>1 DEF ChainInv, ChainTypeOK, Rollback
  <1>3. Visible(t)' = chain /\ \A u \in Txns \ {t} : Visible(u)' = Visible(u)
    BY <1>1 DEF Visible, Rollback
  <1>4. Chained'
    BY <1>3 DEF ChainInv, Chained, StartsOnce, Closed, Rollback
  <1>5. QED
    BY <1>2, <1>4 DEF ChainInv

LEMMA VerifierInvariant ==
    ASSUME ChainInv, VerifyStart \/ VerifyBatch
    PROVE  ChainInv'
  <1>1. verifier' \in Verification
    <2>1. CASE VerifyStart
      BY <2>1 DEF VerifyStart, ChainInv, ChainTypeOK, Verification
    <2>2. ASSUME VerifyBatch, NEW e \in Batch
          PROVE  e \in Event
      BY <2>2 DEF Batch, Unread, ChainInv, ChainTypeOK
    <2>3. CASE VerifyBatch
      BY <2>2, <2>3 DEF VerifyBatch, ChainInv, ChainTypeOK, Verification
    <2>4. QED
      BY <2>1, <2>3
  <1>2. UNCHANGED <<now, chain, txn, lock>>
    BY DEF VerifyStart, VerifyBatch
  <1>3. QED
    BY <1>1, <1>2, RowsUntouched DEF ChainInv, ChainTypeOK

-----------------------------------------------------------------------------
(* The invariant holds of every behaviour of the chain. *)
THEOREM ChainInvariant == ChainSpec => []ChainInv
  <1>1. ChainInit => ChainInv
    BY ChainInitInvariant
  <1>2. ChainInv /\ [ChainNext]_chainVars => ChainInv'
    <2> SUFFICES ASSUME ChainInv, [ChainNext]_chainVars PROVE ChainInv'
      OBVIOUS
    <2>1. CASE Tick
      BY <2>1, ChainTickInvariant
    <2>2. CASE VerifyStart \/ VerifyBatch
      BY <2>2, VerifierInvariant
    <2>3. ASSUME NEW t \in Txns, TransactionStep(t)
          PROVE  ChainInv'
      BY <2>3, SampleInvariant, AppendInvariant, CommitInvariant,
         RollbackInvariant DEF TransactionStep
    <2>4. CASE UNCHANGED chainVars
      BY <2>4, RowsUntouched DEF chainVars, ChainInv, ChainTypeOK
    <2>5. QED
      BY <2>1, <2>2, <2>3, <2>4 DEF ChainNext
  <1>3. QED
    BY <1>1, <1>2, PTL DEF ChainSpec

(* The advisory lock serialises the first appends: concurrent transactions *)
(* never store two events that start the chain.                            *)
THEOREM StartsAtOneGenesis == ChainSpec => []OneGenesis
  <1>1. ChainInv => OneGenesis
    BY DEF ChainInv, Chained, StartsOnce, OneGenesis
  <1>2. QED
    BY <1>1, ChainInvariant, PTL

(* No stored event links to an event that was rolled back. *)
THEOREM LinksAreStored == ChainSpec => []LinksResolve
  <1>1. ChainInv => LinksResolve
    BY DEF ChainInv, Chained, Closed, LinksResolve
  <1>2. QED
    BY <1>1, ChainInvariant, PTL

-----------------------------------------------------------------------------
(* The order of the rows                                                   *)

(* In rows none of which is out of order, each carries the hash of the one *)
(* just before it, or the genesis hash when it is the first.               *)
InOrder(S) == \A e \in S : ~ \E p \in S : p.id = e.previous /\ Before(e, p)
Linked(S) ==
    \A e \in S :
       \/ e.previous = Genesis /\ \A o \in S : ~ Before(o, e)
       \/ \E p \in S : /\ p.id = e.previous /\ Before(p, e)
                       /\ \A o \in S : ~ (Before(p, o) /\ Before(o, e))

Sound(S) == /\ IsFiniteSet(S)
            /\ \A e, o \in S : e.id = o.id => e = o
            /\ InOrder(S) => Linked(S)

AllSound == Sound(chain) /\ \A t \in Txns : Sound(Visible(t))

(* What the verifier has read so far of the rows it found was in order.    *)
ReadInOrder ==
    /\ verifier.last # NoEvent => verifier.last \in chain
    /\ verifier.found \subseteq chain
    /\ verifier.outcome = "none" => verifier.last = NoEvent
    /\ verifier.outcome \in {"reading", "passed"} =>
          \A e \in verifier.found :
             verifier.last # NoEvent /\ ~ Before(verifier.last, e) => ~ OutOfOrder(e)

OrderedInvariant == ChainInv /\ AllSound /\ ReadInOrder /\ BreaksAreOutOfOrder

(* Events are ordered by time and identifier, so those of distinct         *)
(* identifiers are in one order or the other.                              *)
LEMMA TotalOrder ==
    ASSUME NEW S, S \subseteq Event, \A e, o \in S : e.id = o.id => e = o
    PROVE  /\ \A e \in S : ~ Before(e, e)
           /\ \A e, o \in S : Before(e, o) => ~ Before(o, e)
           /\ \A e, o \in S : e = o \/ Before(e, o) \/ Before(o, e)
           /\ \A e, o, p \in S : Before(e, o) /\ Before(o, p) => Before(e, p)
  <1>1. \A e \in S : e.at \in Nat /\ e.id \in Nat
    BY IdsAssumption DEF Event
  <1>2. \A e, o \in S : e = o \/ e.id < o.id \/ o.id < e.id
    BY <1>1
  <1>3. QED
    BY <1>1, <1>2 DEF Before

(* The last hash of some rows is that of one after which none comes.       *)
LEMMA LastOfRows ==
    ASSUME NEW S, NEW h
    PROVE  h \in LastHash(S) <=> \/ h = Genesis /\ S = {}
                                 \/ \E l \in S : h = l.id /\ \A o \in S : ~ Before(l, o)
  BY DEF LastHash

(* An append that carries the hash of the last event it sees leaves what   *)
(* it sees sound.                                                          *)
LEMMA AppendKeepsSound ==
    ASSUME NEW S, S \subseteq Event, Sound(S),
           NEW e \in Event, \A o \in S : o.id # e.id,
           \/ e.previous = Genesis /\ S = {}
           \/ \E l \in S : /\ e.previous = l.id
                           /\ \A o \in S : ~ Before(l, o)
    PROVE  Sound(S \cup {e})
  <1> DEFINE T == S \cup {e}
  <1>1. T \subseteq Event /\ \A x, o \in T : x.id = o.id => x = o
    BY DEF Sound
  <1>2. IsFiniteSet(T)
    BY FS_AddElement DEF Sound
  <1>3. ASSUME InOrder(T) PROVE Linked(T)
    <2>1. InOrder(S)
      BY <1>3 DEF InOrder
    <2>2. Linked(S)
      BY <2>1 DEF Sound
    <2>3. CASE e.previous = Genesis /\ S = {}
      <3>1. T = {e} /\ ~ Before(e, e)
        BY <1>1, <2>3, TotalOrder
      <3>2. QED
        BY <2>3, <3>1 DEF Linked
    <2>4. CASE \E l \in S : e.previous = l.id /\ \A o \in S : ~ Before(l, o)
      <3>1. PICK l \in S : e.previous = l.id /\ \A o \in S : ~ Before(l, o)
        BY <2>4
      <3>2. ~ Before(e, l)
        BY <1>3, <3>1 DEF InOrder
      <3>3. l # e
        OBVIOUS
      <3>4. /\ \A o \in T : ~ Before(o, o)
            /\ \A o, p \in T : Before(o, p) => ~ Before(p, o)
            /\ \A o, p \in T : o = p \/ Before(o, p) \/ Before(p, o)
            /\ \A o, p, q \in T : Before(o, p) /\ Before(p, q) => Before(o, q)
        <4> HIDE DEF T
        <4>1. QED
          BY <1>1, TotalOrder
      <3>5. l \in T /\ e \in T
        BY <3>1
      <3>6. Before(l, e)
        BY <3>2, <3>3, <3>4, <3>5
      <3>7. \A o \in S : o = l \/ Before(o, l)
        BY <3>1, <3>4, <3>5
      <3>8. \A o \in S : Before(o, e)
        BY <3>4, <3>5, <3>6, <3>7
      <3>9. \A o \in T : ~ (Before(l, o) /\ Before(o, e))
        BY <3>1, <3>4, <3>5
      <3>10. ASSUME NEW x \in S
             PROVE  \/ x.previous = Genesis /\ \A o \in T : ~ Before(o, x)
                    \/ \E p \in T : /\ p.id = x.previous /\ Before(p, x)
                                    /\ \A o \in T : ~ (Before(p, o) /\ Before(o, x))
        <4>1. ~ Before(e, x)
          BY <3>4, <3>5, <3>8
        <4>2. CASE x.previous = Genesis /\ \A o \in S : ~ Before(o, x)
          BY <4>1, <4>2
        <4>3. CASE \E p \in S : /\ p.id = x.previous /\ Before(p, x)
                                /\ \A o \in S : ~ (Before(p, o) /\ Before(o, x))
          BY <4>1, <4>3
        <4>4. QED
          BY <2>2, <4>2, <4>3 DEF Linked
      <3>11. QED
        BY <3>1, <3>5, <3>6, <3>9, <3>10 DEF Linked
    <2>5. QED
      BY <2>3, <2>4
  <1>4. QED
    BY <1>1, <1>2, <1>3 DEF Sound

(* An event is out of order among the rows it was stored with, or never.   *)
LEMMA OrderIsKept ==
    ASSUME ChainInv, Sound(chain)', chain \subseteq chain', chain' \subseteq Event,
           NEW e \in chain
    PROVE  OutOfOrder(e)' <=> OutOfOrder(e)
  <1>1. OutOfOrder(e) => OutOfOrder(e)'
    BY DEF OutOfOrder
  <1>2. ASSUME OutOfOrder(e)' PROVE OutOfOrder(e)
    <2>1. PICK p \in chain' : p.id = e.previous /\ Before(e, p)
      BY <1>2 DEF OutOfOrder, Before
    <2>2. e.previous # Genesis
      BY <2>1, IdsAssumption DEF Event
    <2>3. PICK o \in chain : o.id = e.previous
      BY <2>2 DEF ChainInv, Chained, Closed
    <2>4. o = p
      BY <2>1, <2>3 DEF Sound
    <2>5. QED
      BY <2>1, <2>3, <2>4 DEF OutOfOrder
  <1>3. QED
    BY <1>1, <1>2

(* What the verifier has found stays true while rows are only added.       *)
LEMMA VerdictStands ==
    ASSUME OrderedInvariant, ChainInv', Sound(chain)', chain \subseteq chain',
           UNCHANGED verifier
    PROVE  ReadInOrder' /\ BreaksAreOutOfOrder'
  <1>1. \A e \in chain : OutOfOrder(e)' <=> OutOfOrder(e)
    BY OrderIsKept DEF OrderedInvariant, ChainInv, ChainTypeOK
  <1>2. ReadInOrder'
    BY <1>1 DEF OrderedInvariant, ReadInOrder, Before
  <1>3. BreaksAreOutOfOrder'
    BY <1>1 DEF OrderedInvariant, ReadInOrder, BreaksAreOutOfOrder
  <1>4. QED
    BY <1>2, <1>3

(* Steps that touch neither rows nor verifier.                             *)
LEMMA RowsStaySound ==
    ASSUME OrderedInvariant, ChainInv', UNCHANGED <<chain, verifier>>,
           \A t \in Txns : txn'[t].own = txn[t].own
    PROVE  OrderedInvariant'
  <1>1. \A t \in Txns : Visible(t)' = Visible(t)
    BY DEF Visible
  <1>2. AllSound'
    BY <1>1 DEF OrderedInvariant, AllSound, Sound, InOrder, Linked, Before
  <1>3. QED
    BY <1>2, VerdictStands DEF OrderedInvariant, AllSound

LEMMA AppendOrdered ==
    ASSUME NEW t \in Txns, OrderedInvariant, ChainInv', AppendEvent(t)
    PROVE  OrderedInvariant'
  <1>1. PICK id \in Ids \ UsedIds, hash \in LatestHash(t) :
          txn' = [txn EXCEPT ![t].own =
                    @ \cup {[id |-> id, at |-> txn[t].at, previous |-> hash]}]
    BY DEF AppendEvent
  <1> DEFINE e == [id |-> id, at |-> txn[t].at, previous |-> hash]
             S == Visible(t)
  <1>2. /\ txn[t] \in Transaction /\ S \subseteq Event
        /\ txn \in [Txns -> Transaction]
    BY DEF OrderedInvariant, ChainInv, ChainTypeOK, Visible, Transaction
  <1>3. \/ hash = Genesis /\ S = {}
        \/ \E l \in S : hash = l.id /\ \A o \in S : ~ Before(l, o)
    BY LastOfRows DEF LatestHash
  <1>4. e \in Event /\ e.id = id /\ e.previous = hash
    <2>1. hash \in Ids \cup {Genesis}
      BY <1>2, <1>3 DEF Event
    <2>2. QED
      BY <1>2, <2>1 DEF Event, Transaction
  <1>5. \A o \in S : o.id # e.id
    BY <1>4 DEF UsedIds, Visible
  <1>6. txn'[t].own = txn[t].own \cup {e} /\ \A u \in Txns \ {t} : txn'[u] = txn[u]
    BY <1>1, <1>2 DEF Transaction
  <1>7. UNCHANGED chain /\ UNCHANGED verifier
    BY DEF AppendEvent
  <1> HIDE DEF e
  <1>8. Sound(S)
    BY DEF OrderedInvariant, AllSound
  <1>9. Sound(S \cup {e})
    BY <1>2, <1>3, <1>4, <1>5, <1>8, AppendKeepsSound
  <1>10. Visible(t)' = S \cup {e}
    BY <1>6, <1>7 DEF Visible
  <1>11. \A u \in Txns \ {t} : Visible(u)' = Visible(u)
    BY <1>6, <1>7 DEF Visible
  <1>12. Sound(Visible(t))'
    BY <1>9, <1>10 DEF Sound, InOrder, Linked, Before
  <1>13. \A u \in Txns \ {t} : Sound(Visible(u))'
    BY <1>11 DEF OrderedInvariant, AllSound, Sound, InOrder, Linked, Before
  <1>14. Sound(chain)'
    BY <1>7 DEF OrderedInvariant, AllSound, Sound, InOrder, Linked, Before
  <1>15. QED
    BY <1>7, <1>12, <1>13, <1>14, VerdictStands DEF OrderedInvariant, AllSound

LEMMA CommitOrdered ==
    ASSUME NEW t \in Txns, OrderedInvariant, ChainInv', Commit(t)
    PROVE  OrderedInvariant'
  <1>1. /\ txn'[t].own = {}
        /\ \A u \in Txns \ {t} : txn'[u] = txn[u]
    BY EndOfTransaction DEF OrderedInvariant, ChainInv, Commit
  <1>2. chain' = Visible(t) /\ UNCHANGED verifier /\ chain \subseteq chain'
    BY DEF Commit, Visible
  <1>3. Sound(chain)'
    BY <1>2 DEF OrderedInvariant, AllSound, Sound, InOrder, Linked, Before
  <1>4. ReadInOrder' /\ BreaksAreOutOfOrder'
    BY <1>2, <1>3, VerdictStands
  <1>5. CASE txn[t].own = {}
    <2>1. \A u \in Txns : Visible(u)' = Visible(u)
      BY <1>1, <1>5 DEF Visible, Commit
    <2>2. \A u \in Txns : Sound(Visible(u))'
      BY <2>1 DEF OrderedInvariant, AllSound, Sound, InOrder, Linked, Before
    <2>3. QED
      BY <1>3, <1>4, <2>2 DEF OrderedInvariant, AllSound
  <1>6. CASE txn[t].own # {}
    <2>1. \A u \in Txns \ {t} : txn[u].own = {}
      BY <1>6 DEF OrderedInvariant, ChainInv, ChainTypeOK
    <2>2. \A u \in Txns : Visible(u)' = chain'
      BY <1>1, <2>1 DEF Visible
    <2>3. \A u \in Txns : Sound(Visible(u))'
      BY <1>3, <2>2 DEF Sound, InOrder, Linked, Before
    <2>4. QED
      BY <1>3, <1>4, <2>3 DEF OrderedInvariant, AllSound
  <1>7. QED
    BY <1>5, <1>6

LEMMA RollbackOrdered ==
    ASSUME NEW t \in Txns, OrderedInvariant, ChainInv', Rollback(t)
    PROVE  OrderedInvariant'
  <1>1. /\ txn'[t].own = {}
        /\ \A u \in Txns \ {t} : txn'[u] = txn[u]
    BY EndOfTransaction DEF OrderedInvariant, ChainInv, Rollback
  <1>2. UNCHANGED chain /\ UNCHANGED verifier
    BY DEF Rollback
  <1>3. Visible(t)' = chain /\ \A u \in Txns \ {t} : Visible(u)' = Visible(u)
    BY <1>1, <1>2 DEF Visible
  <1>4. Sound(chain)'
    BY <1>2 DEF OrderedInvariant, AllSound, Sound, InOrder, Linked, Before
  <1>5. Sound(Visible(t))'
    BY <1>3 DEF OrderedInvariant, AllSound, Sound, InOrder, Linked, Before
  <1>6. \A u \in Txns \ {t} : Sound(Visible(u))'
    BY <1>3 DEF OrderedInvariant, AllSound, Sound, InOrder, Linked, Before
  <1>7. QED
    BY <1>2, <1>4, <1>5, <1>6, VerdictStands DEF OrderedInvariant, AllSound

(* A batch leaves no unread row behind it.                                 *)
LEMMA BatchIsPrefix ==
    ASSUME OrderedInvariant, NEW e \in Batch, NEW o \in Unread, Before(o, e)
    PROVE  o \in Batch
  <1>1. \A x, y, z \in chain : Before(x, y) /\ Before(y, z) => Before(x, z)
    BY TotalOrder DEF OrderedInvariant, ChainInv, ChainTypeOK, AllSound, Sound
  <1> DEFINE Lower(x) == {y \in Unread : Before(y, x)}
  <1>2. e \in Unread /\ Unread \subseteq chain /\ Cardinality(Lower(e)) < BatchSize
    BY DEF Batch, Unread
  <1>3. Lower(o) \subseteq Lower(e)
    BY <1>1, <1>2
  <1>4. IsFiniteSet(chain) /\ Lower(e) \subseteq chain /\ Lower(o) \subseteq chain
    BY DEF OrderedInvariant, AllSound, Sound, Unread
  <1>5. IsFiniteSet(Lower(e)) /\ IsFiniteSet(Lower(o))
    BY <1>4, FS_Subset
  <1>6. Cardinality(Lower(o)) <= Cardinality(Lower(e))
    BY <1>3, <1>5, FS_Subset
  <1>7. Cardinality(Lower(o)) \in Nat /\ Cardinality(Lower(e)) \in Nat
    BY <1>5, FS_CardinalityType
  <1>8. Cardinality(Lower(o)) < BatchSize
    BY <1>2, <1>6, <1>7, BoundsAssumption
  <1>9. QED
    BY <1>8 DEF Batch

(* What the verifier compares an event of a batch with comes before it in  *)
(* the table, and so does every row it has still to read.                  *)
LEMMA PrecedingRows ==
    ASSUME OrderedInvariant, NEW e \in Batch
    PROVE  /\ e \in chain /\ Preceding(e) \subseteq chain
           /\ \A o \in Preceding(e) : Before(o, e)
           /\ \A o \in Unread : Before(o, e) => o \in Preceding(e)
           /\ verifier.last # NoEvent => verifier.last \in Preceding(e)
  <1>1. e \in Unread /\ Batch \subseteq Unread /\ Unread \subseteq chain
    BY DEF Batch, Unread
  <1>2. verifier.last # NoEvent => verifier.last \in chain /\ Before(verifier.last, e)
    BY <1>1 DEF Unread, OrderedInvariant, ReadInOrder
  <1>3. \A o \in Unread : Before(o, e) => o \in Batch
    BY BatchIsPrefix
  <1>4. QED
    BY <1>1, <1>2, <1>3 DEF Preceding

(* In rows that are in order the verifier finds what it expects ...        *)
LEMMA BatchVerifies ==
    ASSUME OrderedInvariant, NEW e \in Batch, InOrder(chain)
    PROVE  e.previous \in Expected(e)
  <1> DEFINE P == Preceding(e)
  <1>1. /\ e \in chain /\ P \subseteq chain /\ \A o \in P : Before(o, e)
        /\ \A o \in Unread : Before(o, e) => o \in P
        /\ verifier.last # NoEvent => verifier.last \in P
    BY PrecedingRows
  <1>2. /\ \A o, p \in chain : Before(o, p) => ~ Before(p, o)
        /\ \A o, p \in chain : o = p \/ Before(o, p) \/ Before(p, o)
        /\ \A o, p, q \in chain : Before(o, p) /\ Before(p, q) => Before(o, q)
    BY TotalOrder DEF OrderedInvariant, ChainInv, ChainTypeOK, AllSound, Sound
  <1>3. Linked(chain)
    BY DEF OrderedInvariant, AllSound, Sound
  <1>4. \A o \in chain : o \in Unread <=> (verifier.last = NoEvent \/ Before(verifier.last, o))
    BY DEF Unread
  <1> HIDE DEF P
  <1>5. CASE e.previous = Genesis /\ \A o \in chain : ~ Before(o, e)
    <2>1. P = {}
      BY <1>1, <1>5
    <2>2. QED
      BY <1>5, <2>1, LastOfRows DEF Expected, P
  <1>6. CASE \E p \in chain : /\ p.id = e.previous /\ Before(p, e)
                              /\ \A o \in chain : ~ (Before(p, o) /\ Before(o, e))
    <2>1. PICK p \in chain : /\ p.id = e.previous /\ Before(p, e)
                             /\ \A o \in chain : ~ (Before(p, o) /\ Before(o, e))
      BY <1>6
    <2>2. p \in P
      <3>1. CASE p \in Unread
        BY <1>1, <2>1, <3>1
      <3>2. CASE p \notin Unread
        <4>1. verifier.last \in P /\ ~ Before(verifier.last, p)
          BY <1>1, <1>4, <3>2
        <4>2. ~ Before(p, verifier.last)
          BY <1>1, <2>1, <4>1
        <4>3. p = verifier.last
          BY <1>1, <1>2, <4>1, <4>2
        <4>4. QED
          BY <4>1, <4>3
      <3>3. QED
        BY <3>1, <3>2
    <2>3. \A o \in P : ~ Before(p, o)
      BY <1>1, <2>1
    <2>4. QED
      BY <2>1, <2>2, <2>3, LastOfRows DEF Expected, P
  <1>7. QED
    BY <1>1, <1>3, <1>5, <1>6 DEF Linked

(* ... and an event that carries what it expects is not out of order.      *)
LEMMA ExpectedIsInOrder ==
    ASSUME OrderedInvariant, NEW e \in Batch, e.previous \in Expected(e)
    PROVE  ~ OutOfOrder(e)
  <1>1. e \in chain /\ Preceding(e) \subseteq chain /\ \A o \in Preceding(e) : Before(o, e)
    BY PrecedingRows
  <1>2. SUFFICES ASSUME NEW p \in chain, p.id = e.previous, Before(e, p) PROVE FALSE
    BY DEF OutOfOrder
  <1>3. p.id # Genesis
    BY IdsAssumption DEF OrderedInvariant, ChainInv, ChainTypeOK, Event
  <1>4. PICK l \in Preceding(e) : e.previous = l.id
    BY <1>2, <1>3, LastOfRows DEF Expected
  <1>5. l = p
    BY <1>1, <1>2, <1>4 DEF OrderedInvariant, AllSound, Sound
  <1>6. Before(p, e) /\ ~ (Before(p, e) /\ Before(e, p))
    BY <1>1, <1>4, <1>5, TotalOrder DEF OrderedInvariant, ChainInv, ChainTypeOK, AllSound, Sound
  <1>7. QED
    BY <1>2, <1>6

LEMMA VerifierOrdered ==
    ASSUME OrderedInvariant, ChainInv', VerifyStart \/ VerifyBatch
    PROVE  OrderedInvariant'
  <1>1. UNCHANGED <<chain, txn>>
    BY DEF VerifyStart, VerifyBatch
  <1>2. AllSound' /\ \A e \in chain : OutOfOrder(e)' <=> OutOfOrder(e)
    BY <1>1 DEF OrderedInvariant, AllSound, Visible, Sound, InOrder, Linked, Before, OutOfOrder
  <1>3. verifier \in Verification /\ Batch \subseteq chain /\ verifier.found \subseteq chain
    BY DEF OrderedInvariant, ReadInOrder, ChainInv, ChainTypeOK, Batch, Unread
  <1>4. ReadInOrder' /\ BreaksAreOutOfOrder'
    <2>1. CASE VerifyStart
      <3>1. verifier'.last = NoEvent /\ verifier'.outcome = "reading" /\ verifier'.found = chain
        BY <1>3, <2>1 DEF VerifyStart, OrderedInvariant, ReadInOrder, Verification
      <3>2. QED
        BY <1>1, <3>1 DEF ReadInOrder, BreaksAreOutOfOrder
    <2>2. CASE Unread = {} /\ verifier.outcome = "reading"
               /\ verifier' = [verifier EXCEPT !.outcome = "passed"]
      <3>1. /\ verifier'.last = verifier.last /\ verifier'.outcome = "passed"
            /\ verifier'.found = verifier.found
        BY <1>3, <2>2 DEF Verification
      <3>2. \A e \in chain : verifier.last # NoEvent /\ ~ Before(verifier.last, e)
        BY <2>2 DEF Unread
      <3>3. \A e \in verifier.found : ~ OutOfOrder(e)
        BY <1>3, <2>2, <3>2 DEF OrderedInvariant, ReadInOrder
      <3>4. QED
        BY <1>1, <1>2, <1>3, <3>1, <3>3 DEF OrderedInvariant, ReadInOrder, BreaksAreOutOfOrder
    <2>3. ASSUME NEW e \in Batch, e.previous \notin Expected(e),
                 verifier' = [verifier EXCEPT !.outcome = "chain_break"]
          PROVE  ReadInOrder' /\ BreaksAreOutOfOrder'
      <3>1. /\ verifier'.last = verifier.last /\ verifier'.outcome = "chain_break"
            /\ verifier'.found = verifier.found
        BY <1>3, <2>3 DEF Verification
      <3>2. \E o \in chain : OutOfOrder(o)
        BY <2>3, BatchVerifies DEF InOrder, OutOfOrder
      <3>3. QED
        BY <1>1, <1>2, <1>3, <3>1, <3>2 DEF OrderedInvariant, ReadInOrder, BreaksAreOutOfOrder
    <2>4. ASSUME verifier.outcome = "reading", \A e \in Batch : e.previous \in Expected(e),
                 NEW l \in Batch, \A o \in Batch : ~ Before(l, o),
                 verifier' = [verifier EXCEPT !.last = l]
          PROVE  ReadInOrder' /\ BreaksAreOutOfOrder'
      <3>1. /\ verifier'.last = l /\ verifier'.outcome = "reading"
            /\ verifier'.found = verifier.found /\ l \in chain
        BY <1>3, <2>4 DEF Verification
      <3>2. ASSUME NEW e \in verifier.found, ~ Before(l, e)
            PROVE  ~ OutOfOrder(e)
        <4>1. e \in chain
          BY <1>3
        <4>2. CASE e \notin Unread
          BY <2>4, <4>1, <4>2 DEF Unread, OrderedInvariant, ReadInOrder
        <4>3. CASE e \in Unread
          <5>1. e = l \/ Before(e, l)
            BY <3>1, <3>2, <4>1, TotalOrder
               DEF OrderedInvariant, ChainInv, ChainTypeOK, AllSound, Sound
          <5>2. e \in Batch
            BY <2>4, <4>3, <5>1, BatchIsPrefix
          <5>3. QED
            BY <2>4, <5>2, ExpectedIsInOrder
        <4>4. QED
          BY <4>2, <4>3
      <3>3. QED
        BY <1>1, <1>2, <1>3, <3>1, <3>2
           DEF OrderedInvariant, ReadInOrder, BreaksAreOutOfOrder, Before
    <2>5. QED
      BY <2>1, <2>2, <2>3, <2>4 DEF VerifyBatch
  <1>5. QED
    BY <1>2, <1>4 DEF OrderedInvariant

(* Rows nobody altered break the chain only when one was stored out of     *)
(* order, and then every verification that starts later reports it,        *)
(* whatever commits meanwhile (append_audit_event,                         *)
(* verify_audit_chain_session).                                            *)
THEOREM VerifierFindsDisorder == ChainSpec => []BreaksAreOutOfOrder
  <1>1. ChainInit => OrderedInvariant
    <2> SUFFICES ASSUME ChainInit PROVE OrderedInvariant
      OBVIOUS
    <2>1. chain = {} /\ \A t \in Txns : txn[t].own = {}
      BY DEF ChainInit
    <2>2. \A t \in Txns : Visible(t) = {}
      BY <2>1 DEF Visible
    <2>3. Sound({})
      BY FS_EmptySet DEF Sound, InOrder, Linked
    <2>4. AllSound
      BY <2>1, <2>2, <2>3 DEF AllSound
    <2>5. QED
      BY <2>4, ChainInitInvariant
         DEF ChainInit, OrderedInvariant, ReadInOrder, BreaksAreOutOfOrder
  <1>2. OrderedInvariant /\ ChainInv' /\ [ChainNext]_chainVars => OrderedInvariant'
    <2> SUFFICES ASSUME OrderedInvariant, ChainInv', [ChainNext]_chainVars
                 PROVE  OrderedInvariant'
      OBVIOUS
    <2>1. CASE Tick \/ UNCHANGED chainVars
      <3>1. UNCHANGED <<chain, verifier, txn>>
        BY <2>1 DEF Tick, chainVars
      <3>2. QED
        BY <3>1, RowsStaySound
    <2>2. CASE VerifyStart \/ VerifyBatch
      BY <2>2, VerifierOrdered
    <2>3. ASSUME NEW t \in Txns, Sample(t)
          PROVE  OrderedInvariant'
      <3>1. \A u \in Txns : txn'[u].own = txn[u].own
        BY <2>3 DEF Sample, OrderedInvariant, ChainInv, ChainTypeOK, Transaction
      <3>2. QED
        BY <2>3, <3>1, RowsStaySound DEF Sample
    <2>4. ASSUME NEW t \in Txns, AppendEvent(t) \/ Commit(t) \/ Rollback(t)
          PROVE  OrderedInvariant'
      BY <2>4, AppendOrdered, CommitOrdered, RollbackOrdered
    <2>5. QED
      BY <2>1, <2>2, <2>3, <2>4 DEF ChainNext, TransactionStep
  <1>3. OrderedInvariant => BreaksAreOutOfOrder
    BY DEF OrderedInvariant
  <1>4. QED
    BY <1>1, <1>2, <1>3, ChainInvariant, PTL DEF ChainSpec
=============================================================================
