----------------------- MODULE ExportApprovalsProofs -----------------------
(***************************************************************************)
(* Proofs about what leaves the service, in two parts.                     *)
(*                                                                         *)
(* Reviews, export approvals and deliveries, for any number of clients,    *)
(* rows, drafts and approvals: an export holds what its approval was given *)
(* for, on the word of somebody other than its submitter, and the          *)
(* decisions of a review carry over to all that is made from them,         *)
(* although no operation locks what it read.                               *)
(*                                                                         *)
(* The agency renders and the model adapter they share, for any number of  *)
(* requests, closes and slots: a client that is closed has no call left,   *)
(* and a render that is kept fits its revision and its review.             *)
(***************************************************************************)
EXTENDS ExportApprovals, AgencyRenders, FiniteSetTheorems, TLAPS

-----------------------------------------------------------------------------
(* Reviews, approvals and exports                                          *)

Ops == {"idle", "disposing", "submitting_review", "drafting", "submitting",
        "approving", "rejecting", "delivering", "recording", "expiring"}

Operation == [op : Ops, version : 0..MaxVersion, row : SUBSET Rows,
              decided : SUBSET Disposition, draft : Drafts \cup {NoDraft},
              approval : Approvals \cup {NoApproval}, payload : SUBSET Payload,
              drafts : SUBSET (Drafts \cup {NoDraft}), now : 0..MaxClock]

Shaped ==
    /\ review \in ReviewRevision /\ disposition \in [Rows -> Disposition]
    /\ evidence \subseteq Rows /\ poam \subseteq Rows
    /\ draft \in [Drafts -> ExportDraft] /\ approval \in [Approvals -> Approval]
    /\ export \in [Approvals -> SUBSET Payload]
    /\ zip \in [Approvals -> SUBSET Payload]
    /\ config \in 1..MaxDeploy + 1 /\ authority \in 1..MaxDeploy + 1
    /\ clock \in 0..MaxClock
    /\ operation \in [Clients -> Operation]

(* A payload with nothing undecided, whose weaknesses have a candidate.    *)
Settled(P) ==
    \A p \in P : \A m \in Rows :
       /\ p.decided[m].decision # "pending"
       /\ p.decided[m].decision = "weakness_confirmed" => m \in poam

(* What an operation read that still holds when it commits: decisions are  *)
(* never undone, an approval that was submitted keeps its payload, and a   *)
(* file that was written for it can only be written again with the same.   *)
OperationOK(q) ==
    /\ q.op = "disposing" =>
          /\ q.version < MaxVersion
          /\ \A d \in q.decided : d.decision \in Decisions
    /\ q.op = "submitting_review" => Decided
    /\ q.op \in {"drafting", "submitting"} => q.draft \in Drafts /\ Settled(q.payload)
    /\ q.op \in {"submitting", "approving", "rejecting", "delivering", "recording"} =>
          q.approval \in Approvals
    /\ q.op \in {"approving", "rejecting", "delivering", "recording"} =>
          approval[q.approval].decision # "none"
    /\ q.op \in {"delivering", "recording"} => q.payload = approval[q.approval].payload
    /\ q.op = "recording" => zip[q.approval] = q.payload

OperationsOK == \A c \in Clients : OperationOK(operation[c])

ExportsSigned ==
    \A a \in Approvals : export[a] # NoPayload =>
       /\ approval[a].decision # "none"
       /\ export[a] = approval[a].payload /\ zip[a] = approval[a].payload

PayloadsSettled ==
    /\ \A d \in Drafts : Settled(draft[d].payload)
    /\ \A a \in Approvals : Settled(approval[a].payload)

Routed ==
    \A m \in Rows :
       /\ disposition[m].decision = "evidence_requested" => m \in evidence
       /\ disposition[m].decision = "weakness_confirmed" => m \in poam

SubmittedDecided == review.status = "submitted" => Decided

IInv == /\ Shaped /\ OperationsOK /\ ExportsSigned /\ PayloadsSettled
        /\ Routed /\ SubmittedDecided

-----------------------------------------------------------------------------
(* Records                                                                 *)

Statuses == {"none", "draft", "pending_approval", "approved", "rejected",
             "superseded", "expired", "exported"}

LEMMA Bounds ==
    /\ MaxClock \in Nat /\ MaxVersion \in Nat /\ MaxDeploy \in Nat
    /\ ExpiryDays \in Nat /\ MaxVersion > 0
  BY ExportAssumption

LEMMA IdleTyped ==
    /\ Idle \in Operation /\ Idle.op = "idle"
    /\ OperationOK(Idle)
<1>1. Idle \in Operation /\ Idle.op = "idle"
  BY Bounds DEF Idle, Operation, Ops, NoPayload
<1> QED
  BY <1>1 DEF OperationOK

(* The drafts whose status an operation writes keep their payload.         *)
LEMMA DraftMarked ==
    ASSUME NEW x \in ExportDraft, NEW s \in Statuses
    PROVE  /\ [x EXCEPT !.status = s] \in ExportDraft
           /\ [x EXCEPT !.status = s].payload = x.payload
  BY DEF ExportDraft, Statuses

KeepPayloads(before, after) ==
    /\ after \in [Drafts -> ExportDraft]
    /\ \A x \in Drafts : after[x].payload = before[x].payload

LEMMA DraftsMarked ==
    ASSUME NEW rows \in [Drafts -> ExportDraft], NEW d, NEW s \in Statuses,
           NEW after, after = [rows EXCEPT ![d].status = s]
    PROVE  KeepPayloads(rows, after)
<1>1. \A x \in Drafts : after[x] = IF x = d THEN [rows[x] EXCEPT !.status = s]
                                           ELSE rows[x]
  OBVIOUS
<1>2. after = [x \in Drafts |-> after[x]]
  OBVIOUS
<1>3. \A x \in Drafts : after[x] \in ExportDraft /\ after[x].payload = rows[x].payload
  <2> TAKE x \in Drafts
  <2>1. CASE x = d
    <3>1. PICK y \in ExportDraft : y = rows[x]
      OBVIOUS
    <3>2. after[x] = [y EXCEPT !.status = s]
      BY <1>1, <2>1, <3>1
    <3> QED
      BY <3>1, <3>2, DraftMarked
  <2>2. CASE x # d
    BY <1>1, <2>2
  <2> QED
    BY <2>1, <2>2
<1>4. after \in [Drafts -> ExportDraft]
  BY <1>2, <1>3
<1> QED
  BY <1>3, <1>4 DEF KeepPayloads

-----------------------------------------------------------------------------
(* What stays true of an operation in flight                               *)

(* The steps of others: candidates are added, nothing becomes undecided,   *)
(* an approval is bound to its payload, and so is a file written for it.   *)
Later ==
    /\ poam \subseteq poam' /\ (Decided => Decided')
    /\ \A a \in Approvals : approval[a].decision # "none" =>
          /\ approval'[a].decision # "none"
          /\ approval'[a].payload = approval[a].payload
          /\ zip[a] = approval[a].payload => zip'[a] = approval[a].payload

LEMMA SettledStays ==
    ASSUME NEW P, Settled(P), poam \subseteq poam'
    PROVE  Settled(P)'
  BY DEF Settled

LEMMA OperationStays ==
    ASSUME NEW q, OperationOK(q), Later
    PROVE  OperationOK(q)'
<1>1. q.op \in {"drafting", "submitting"} => q.draft \in Drafts /\ Settled(q.payload)'
  BY DEF OperationOK, Settled, Later
<1>2. q.op \in {"submitting", "approving", "rejecting", "delivering", "recording"} =>
        q.approval \in Approvals
  BY DEF OperationOK
<1>3. q.op \in {"approving", "rejecting", "delivering", "recording"} =>
        approval'[q.approval].decision # "none"
  BY <1>2 DEF OperationOK, Later
<1>4. q.op \in {"delivering", "recording"} => q.payload = approval'[q.approval].payload
  BY <1>2 DEF OperationOK, Later
<1>5. q.op = "recording" => zip'[q.approval] = q.payload
  BY <1>2 DEF OperationOK, Later
<1>6. q.op = "submitting_review" => Decided'
  BY DEF OperationOK, Later
<1>7. q.op = "disposing" => /\ q.version < MaxVersion
                           /\ \A d \in q.decided : d.decision \in Decisions
  BY DEF OperationOK
<1> QED
  BY <1>1, <1>2, <1>3, <1>4, <1>5, <1>6, <1>7 DEF OperationOK

(* A client whose record changes holds a sound operation, and all others   *)
(* keep theirs.                                                            *)
LEMMA OperationsStay ==
    ASSUME IInv, Later, NEW c \in Clients, NEW r \in Operation, OperationOK(r)',
           operation' = [operation EXCEPT ![c] = r]
    PROVE  operation' \in [Clients -> Operation] /\ OperationsOK'
<1>1. operation' \in [Clients -> Operation]
  BY DEF IInv, Shaped
<1>2. \A d \in Clients : operation'[d] = IF d = c THEN r ELSE operation[d]
  BY DEF IInv, Shaped
<1>3. ASSUME NEW d \in Clients
      PROVE  OperationOK(operation[d])'
  <2>1. PICK q \in Operation : q = operation'[d]
    BY <1>1
  <2>2. OperationOK(q)'
    <3>1. CASE d = c
      BY <1>2, <2>1, <3>1
    <3>2. CASE d # c
      <4>1. q = operation[d]
        BY <1>2, <2>1, <3>2
      <4>2. OperationOK(q)
        BY <4>1 DEF IInv, OperationsOK
      <4> QED
        BY <4>2, OperationStays
    <3> QED
      BY <3>1, <3>2
  <2> QED
    BY <2>1, <2>2 DEF OperationOK, Settled
<1> QED
  BY <1>1, <1>3 DEF OperationsOK

LEMMA NobodyMoves ==
    ASSUME IInv, Later, UNCHANGED operation
    PROVE  operation' \in [Clients -> Operation] /\ OperationsOK'
<1>1. ASSUME NEW d \in Clients
      PROVE  OperationOK(operation[d])'
  <2>1. PICK q \in Operation : q = operation[d] /\ q = operation'[d]
    BY DEF IInv, Shaped
  <2>2. OperationOK(q)
    BY <2>1 DEF IInv, OperationsOK
  <2>3. OperationOK(q)'
    BY <2>2, OperationStays
  <2> QED
    BY <2>1, <2>3 DEF OperationOK, Settled
<1> QED
  BY <1>1 DEF OperationsOK, IInv, Shaped

(* An operation ends; whatever else it did, nothing of it is left.         *)
LEMMA OperationEnds ==
    ASSUME IInv, Later, NEW c \in Clients, Ends(c)
    PROVE  operation' \in [Clients -> Operation] /\ OperationsOK'
<1>1. PICK r \in Operation : r = Idle
  BY IdleTyped
<1>2. OperationOK(r)'
  BY <1>1, IdleTyped DEF OperationOK
<1>3. operation' = [operation EXCEPT ![c] = r]
  BY <1>1 DEF Ends
<1> QED
  BY <1>2, <1>3, OperationsStay

(* A read, or a request that is abandoned: only the client's record.       *)
LEMMA OnlyClient ==
    ASSUME IInv, UNCHANGED <<reviews, draft, approval, export, zip, setting>>,
           operation' \in [Clients -> Operation], OperationsOK'
    PROVE  IInv'
<1>1. /\ UNCHANGED review /\ UNCHANGED disposition /\ UNCHANGED evidence
      /\ UNCHANGED poam /\ UNCHANGED draft /\ UNCHANGED approval
      /\ UNCHANGED export /\ UNCHANGED zip /\ UNCHANGED config
      /\ UNCHANGED authority /\ UNCHANGED clock
  BY DEF reviews, setting
<1>2. Shaped'
  BY <1>1 DEF IInv, Shaped
<1>3. ExportsSigned' /\ PayloadsSettled' /\ Routed' /\ SubmittedDecided'
  BY <1>1
     DEF IInv, ExportsSigned, PayloadsSettled, Settled, Routed, SubmittedDecided, Decided
<1> QED
  BY <1>2, <1>3 DEF IInv

LEMMA Reads ==
    ASSUME IInv, NEW c \in Clients, NEW r \in Operation, OperationOK(r),
           Starts(c, r),
           UNCHANGED <<reviews, draft, approval, export, zip, setting>>
    PROVE  IInv'
<1>1. Later
  BY DEF Later, Decided, reviews
<1>2. OperationOK(r)'
  BY <1>1, OperationStays
<1>3. operation' \in [Clients -> Operation] /\ OperationsOK'
  BY <1>1, <1>2, OperationsStay DEF Starts
<1> QED
  BY <1>3, OnlyClient

LEMMA AbandonStep ==
    ASSUME IInv, NEW c \in Clients, Abandon(c)
    PROVE  IInv'
<1>1. Later
  BY DEF Later, Decided, reviews, Abandon
<1>2. operation' \in [Clients -> Operation] /\ OperationsOK'
  BY <1>1, OperationEnds DEF Abandon
<1> QED
  BY <1>2, OnlyClient DEF Abandon

-----------------------------------------------------------------------------
(* The review                                                              *)

LEMMA ReadDispositionStep ==
    ASSUME IInv, NEW c \in Clients, NEW m \in Rows, ReadDisposition(c, m)
    PROVE  IInv'
<1>1. PICK d \in Compatible[m] :
        Starts(c, [Idle EXCEPT !.op = "disposing", !.row = {m}, !.version = review.version,
                               !.decided = {[decision |-> d, by |-> c,
                                             version |-> disposition[m].version + 1]}])
  BY DEF ReadDisposition
<1>2. d \in Decisions
  BY ExportAssumption
<1>3. PICK v \in 0..MaxVersion : v = review.version /\ v < MaxVersion
  BY DEF ReadDisposition, IInv, Shaped, ReviewRevision
<1>4. PICK n \in 1..MaxVersion : n = disposition[m].version + 1
  <2>1. disposition[m].version \in 1..MaxVersion /\ disposition[m].version < MaxVersion
    BY DEF ReadDisposition, IInv, Shaped, Disposition
  <2> QED
    BY <2>1, Bounds
<1>5. PICK x \in Disposition : x = [decision |-> d, by |-> c, version |-> n]
  BY <1>2 DEF Disposition
<1>6. x.decision \in Decisions
  BY <1>2, <1>5
<1>7. PICK idle \in Operation : idle = Idle
  BY IdleTyped
<1> DEFINE r == [idle EXCEPT !.op = "disposing", !.row = {m}, !.version = v, !.decided = {x}]
<1>8. r \in Operation /\ r.op = "disposing" /\ r.decided = {x} /\ r.version = v
  BY DEF Operation, Ops
<1>9. Starts(c, r)
  BY <1>1, <1>3, <1>4, <1>5, <1>7
<1> HIDE DEF r
<1>10. OperationOK(r)
  BY <1>3, <1>6, <1>8 DEF OperationOK
<1> QED
  BY <1>8, <1>9, <1>10, Reads DEF ReadDisposition

LEMMA ReadReviewStep ==
    ASSUME IInv, NEW c \in Clients, ReadReview(c)
    PROVE  IInv'
<1>1. PICK idle \in Operation : idle = Idle
  BY IdleTyped
<1> DEFINE r == [idle EXCEPT !.op = "submitting_review"]
<1>2. r \in Operation /\ r.op = "submitting_review"
  BY DEF Operation, Ops
<1>3. Starts(c, r) /\ Decided
  BY <1>1 DEF ReadReview
<1> HIDE DEF r
<1>4. OperationOK(r)
  BY <1>2, <1>3 DEF OperationOK
<1> QED
  BY <1>2, <1>3, <1>4, Reads DEF ReadReview

LEMMA CreateReviewStep ==
    ASSUME IInv, NEW c \in Clients, CreateReview(c)
    PROVE  IInv'
<1>1. /\ review' = [status |-> "draft", version |-> 1]
      /\ UNCHANGED <<disposition, evidence, poam, draft, approval, export, zip,
                     config, authority, clock, operation>>
  BY DEF CreateReview, setting
<1>2. Later /\ UNCHANGED operation
  BY <1>1 DEF Later, Decided
<1>3. operation' \in [Clients -> Operation] /\ OperationsOK'
  BY <1>2, NobodyMoves
<1>4. review' \in ReviewRevision /\ review'.status # "submitted"
  BY <1>1, Bounds DEF ReviewRevision
<1>5. Shaped'
  BY <1>1, <1>3, <1>4 DEF IInv, Shaped
<1>6. ExportsSigned' /\ PayloadsSettled' /\ Routed' /\ SubmittedDecided'
  BY <1>1, <1>4
     DEF IInv, ExportsSigned, PayloadsSettled, Settled, Routed, SubmittedDecided, Decided
<1> QED
  BY <1>3, <1>5, <1>6 DEF IInv

(* The decision that is committed is never "pending", and it is routed     *)
(* with it.                                                                *)
LEMMA UpdateDispositionStep ==
    ASSUME IInv, NEW c \in Clients, UpdateDisposition(c)
    PROVE  IInv'
<1>1. PICK m \in operation[c].row, d \in operation[c].decided :
          /\ disposition' = [disposition EXCEPT ![m] = d]
          /\ Route(m, d.decision)
  BY DEF UpdateDisposition
<1>2. /\ review' = [review EXCEPT !.version = operation[c].version + 1]
      /\ Ends(c)
      /\ UNCHANGED <<draft, approval, export, zip, config, authority, clock>>
  BY DEF UpdateDisposition, setting
<1>3. PICK q \in Operation : q = operation[c]
  BY DEF IInv, Shaped
<1>4. OperationOK(q) /\ q.op = "disposing"
  BY <1>3 DEF IInv, OperationsOK, UpdateDisposition
<1>5. m \in Rows /\ d \in Disposition /\ d.decision \in Decisions /\ q.version < MaxVersion
  BY <1>1, <1>3, <1>4 DEF Operation, OperationOK
<1>6. d.decision # "pending"
  BY <1>5 DEF Decisions
<1>7. /\ disposition' \in [Rows -> Disposition]
      /\ \A n \in Rows : disposition'[n] = IF n = m THEN d ELSE disposition[n]
  BY <1>1, <1>5 DEF IInv, Shaped
<1>8. /\ evidence \subseteq evidence' /\ evidence' \subseteq Rows
      /\ poam \subseteq poam' /\ poam' \subseteq Rows
      /\ d.decision = "evidence_requested" => m \in evidence'
      /\ d.decision = "weakness_confirmed" => m \in poam'
  BY <1>1, <1>5 DEF Route, EvidenceRequests, PoamCandidates, IInv, Shaped
<1>9. Decided => Decided'
  BY <1>6, <1>7 DEF Decided
<1>10. Later
  BY <1>2, <1>8, <1>9 DEF Later
<1>11. operation' \in [Clients -> Operation] /\ OperationsOK'
  BY <1>2, <1>10, OperationEnds
<1>12. review' \in ReviewRevision /\ review'.status = review.status
  <2>1. PICK v \in 0..MaxVersion : v = operation[c].version + 1
    BY <1>3, <1>5, Bounds DEF Operation
  <2>2. review \in ReviewRevision
    BY DEF IInv, Shaped
  <2> QED
    BY <1>2, <2>1, <2>2 DEF ReviewRevision
<1>13. Shaped'
  BY <1>2, <1>7, <1>8, <1>11, <1>12 DEF IInv, Shaped
<1>14. PayloadsSettled'
  BY <1>2, <1>8 DEF IInv, PayloadsSettled, Settled
<1>15. Routed'
  BY <1>7, <1>8 DEF IInv, Routed
<1>16. ExportsSigned' /\ SubmittedDecided'
  BY <1>2, <1>9, <1>12 DEF IInv, ExportsSigned, SubmittedDecided
<1> QED
  BY <1>11, <1>13, <1>14, <1>15, <1>16 DEF IInv

LEMMA SubmitReviewStep ==
    ASSUME IInv, NEW c \in Clients, SubmitReview(c)
    PROVE  IInv'
<1>1. /\ review' = [review EXCEPT !.status = "submitted"]
      /\ Ends(c)
      /\ UNCHANGED <<disposition, evidence, poam, draft, approval, export, zip,
                     config, authority, clock>>
  BY DEF SubmitReview, setting
<1>2. Later
  BY <1>1 DEF Later, Decided
<1>3. operation' \in [Clients -> Operation] /\ OperationsOK'
  BY <1>1, <1>2, OperationEnds
<1>4. Decided
  BY DEF IInv, OperationsOK, OperationOK, SubmitReview
<1>5. review' \in ReviewRevision
  BY <1>1 DEF IInv, Shaped, ReviewRevision
<1>6. Shaped'
  BY <1>1, <1>3, <1>5 DEF IInv, Shaped
<1>7. ExportsSigned' /\ PayloadsSettled' /\ Routed' /\ SubmittedDecided'
  BY <1>1, <1>4
     DEF IInv, ExportsSigned, PayloadsSettled, Settled, Routed, SubmittedDecided, Decided
<1> QED
  BY <1>3, <1>6, <1>7 DEF IInv

-----------------------------------------------------------------------------
(* Export drafts                                                           *)

(* A payload taken from a submitted review is settled.                     *)
LEMMA CurrentPayloads ==
    ASSUME IInv, NEW auth \in 1..MaxDeploy + 1
    PROVE  /\ CurrentPayload(auth) \subseteq Payload
           /\ Decided => Settled(CurrentPayload(auth))
<1>1. Shown(Pack[config]) \in Shows
  BY ExportAssumption DEF IInv, Shaped, Shows
<1>2. CurrentPayload(auth) \subseteq Payload
  BY <1>1 DEF CurrentPayload, Payload, IInv, Shaped
<1>3. \A p \in CurrentPayload(auth) : p.decided = disposition
  BY DEF CurrentPayload
<1>4. Decided => Settled(CurrentPayload(auth))
  BY <1>3 DEF Settled, Decided, IInv, Routed
<1> QED
  BY <1>2, <1>4

LEMMA ReadForDraftStep ==
    ASSUME IInv, NEW c \in Clients, NEW d \in Drafts, ReadForDraft(c, d)
    PROVE  IInv'
<1>1. authority \in 1..MaxDeploy + 1
  BY DEF IInv, Shaped
<1>2. PICK p \in SUBSET Payload : p = CurrentPayload(authority) /\ Settled(p)
  BY <1>1, CurrentPayloads DEF ReadForDraft, IInv, SubmittedDecided
<1>3. PICK old \in SUBSET Drafts : old = Stale(CurrentPayload(authority))
  BY DEF Stale
<1>4. PICK idle \in Operation : idle = Idle
  BY IdleTyped
<1> DEFINE r == [idle EXCEPT !.op = "drafting", !.draft = d, !.payload = p, !.drafts = old]
<1>5. r \in Operation /\ r.op = "drafting" /\ r.draft = d /\ r.payload = p
  BY DEF Operation, Ops
<1>6. Starts(c, r)
  BY <1>2, <1>3, <1>4 DEF ReadForDraft
<1> HIDE DEF r
<1>7. OperationOK(r)
  BY <1>2, <1>5 DEF OperationOK
<1> QED
  BY <1>5, <1>6, <1>7, Reads DEF ReadForDraft

(* Steps that change drafts and approvals, with what they leave in force.  *)
LEMMA DraftsChange ==
    ASSUME IInv, Later,
           UNCHANGED <<reviews, zip, config, authority, clock>>,
           draft' \in [Drafts -> ExportDraft], approval' \in [Approvals -> Approval],
           export' \in [Approvals -> SUBSET Payload],
           operation' \in [Clients -> Operation], OperationsOK',
           ExportsSigned', PayloadsSettled'
    PROVE  IInv'
<1>1. /\ UNCHANGED review /\ UNCHANGED disposition /\ UNCHANGED evidence
      /\ UNCHANGED poam
  BY DEF reviews
<1>2. Shaped'
  BY <1>1 DEF IInv, Shaped
<1>3. Routed' /\ SubmittedDecided'
  BY <1>1 DEF IInv, Routed, SubmittedDecided, Decided
<1> QED
  BY <1>2, <1>3 DEF IInv

LEMMA CreateExportDraftStep ==
    ASSUME IInv, NEW c \in Clients, CreateExportDraft(c)
    PROVE  IInv'
<1>1. PICK q \in Operation : q = operation[c]
  BY DEF IInv, Shaped
<1>2. /\ q.op = "drafting" /\ q.draft \in Drafts
      /\ q.payload \in SUBSET Payload /\ Settled(q.payload)
  BY <1>1 DEF CreateExportDraft, IInv, OperationsOK, OperationOK, Operation
<1>3. draft' = [d \in Drafts |->
                 IF d = q.draft THEN [status |-> "draft", payload |-> q.payload]
                 ELSE IF d \in q.drafts THEN [draft[d] EXCEPT !.status = "superseded"]
                 ELSE draft[d]]
  BY <1>1 DEF CreateExportDraft
<1>4. /\ Ends(c)
      /\ UNCHANGED <<reviews, approval, export, zip, config, authority, clock>>
  BY DEF CreateExportDraft, setting
<1>5. Later
  BY <1>4 DEF Later, Decided, reviews
<1>6. operation' \in [Clients -> Operation] /\ OperationsOK'
  BY <1>4, <1>5, OperationEnds
<1>7. ASSUME NEW d \in Drafts
      PROVE  /\ draft'[d] \in ExportDraft
             /\ draft'[d].payload = q.payload \/ draft'[d].payload = draft[d].payload
  <2>1. CASE d = q.draft
    BY <1>2, <1>3, <2>1 DEF ExportDraft
  <2>2. CASE d # q.draft /\ d \in q.drafts
    <3>1. PICK x \in ExportDraft : x = draft[d]
      BY DEF IInv, Shaped
    <3>2. PICK s \in Statuses : s = "superseded"
      BY DEF Statuses
    <3>3. draft'[d] = [x EXCEPT !.status = s]
      BY <1>3, <2>2, <3>1, <3>2
    <3> QED
      BY <3>1, <3>3, DraftMarked
  <2>3. CASE d # q.draft /\ d \notin q.drafts
    BY <1>3, <2>3 DEF IInv, Shaped
  <2> QED
    BY <2>1, <2>2, <2>3
<1>8. draft' \in [Drafts -> ExportDraft]
  BY <1>3, <1>7
<1>9. PayloadsSettled'
  BY <1>2, <1>4, <1>7 DEF IInv, PayloadsSettled, Settled, reviews
<1>10. ExportsSigned'
  BY <1>4 DEF IInv, ExportsSigned
<1>11. /\ approval' \in [Approvals -> Approval]
       /\ export' \in [Approvals -> SUBSET Payload]
  BY <1>4 DEF IInv, Shaped
<1> QED
  BY <1>4, <1>5, <1>6, <1>8, <1>9, <1>10, <1>11, DraftsChange

LEMMA ReadForSubmitStep ==
    ASSUME IInv, NEW c \in Clients, NEW d \in Drafts, NEW a \in Approvals,
           ReadForSubmit(c, d, a)
    PROVE  IInv'
<1>1. PICK p \in SUBSET Payload : p = draft[d].payload /\ Settled(p)
  BY DEF IInv, Shaped, ExportDraft, PayloadsSettled
<1>2. PICK n \in 0..MaxClock : n = clock
  BY DEF IInv, Shaped
<1>3. PICK idle \in Operation : idle = Idle
  BY IdleTyped
<1> DEFINE r == [idle EXCEPT !.op = "submitting", !.draft = d, !.approval = a,
                             !.payload = p, !.now = n]
<1>4. /\ r \in Operation /\ r.op = "submitting" /\ r.draft = d /\ r.payload = p
      /\ r.approval = a
  BY DEF Operation, Ops
<1>5. Starts(c, r)
  BY <1>1, <1>2, <1>3 DEF ReadForSubmit
<1> HIDE DEF r
<1>6. OperationOK(r)
  BY <1>1, <1>4 DEF OperationOK
<1> QED
  BY <1>4, <1>5, <1>6, Reads DEF ReadForSubmit

(* A new approval takes a row nobody used, so no delivery is about it.     *)
LEMMA SubmitExportDraftStep ==
    ASSUME IInv, NEW c \in Clients, SubmitExportDraft(c)
    PROVE  IInv'
<1>1. PICK q \in Operation : q = operation[c]
  BY DEF IInv, Shaped
<1> DEFINE a == q.approval
           row == [decision |-> "pending", draft |-> q.draft, payload |-> q.payload,
                   by |-> c, decidedBy |-> "nobody", submitted |-> q.now, decided |-> 0,
                   expires |-> q.now + ExpiryDays]
<1>2. /\ q.op = "submitting" /\ q.draft \in Drafts /\ q.approval \in Approvals
      /\ q.payload \in SUBSET Payload /\ Settled(q.payload) /\ q.now \in 0..MaxClock
  BY <1>1 DEF SubmitExportDraft, IInv, OperationsOK, OperationOK, Operation
<1>3. /\ approval[a].decision = "none"
      /\ approval' = [approval EXCEPT ![a] = row]
      /\ draft' = [draft EXCEPT ![q.draft].status = "pending_approval"]
      /\ Ends(c)
      /\ UNCHANGED <<reviews, export, zip, config, authority, clock>>
  BY <1>1 DEF SubmitExportDraft, setting
<1>4. row \in Approval /\ row.decision = "pending" /\ row.payload = q.payload
  <2>1. q.now + ExpiryDays \in 0..MaxClock + ExpiryDays
    BY <1>2, Bounds
  <2> QED
    BY <1>2, <2>1, Bounds DEF Approval
<1> HIDE DEF row
<1>5. \A b \in Approvals : approval'[b] = IF b = a THEN row ELSE approval[b]
  BY <1>2, <1>3 DEF IInv, Shaped
<1>6. Later
  BY <1>3, <1>5 DEF Later, Decided, reviews
<1>7. operation' \in [Clients -> Operation] /\ OperationsOK'
  BY <1>3, <1>6, OperationEnds
<1>8. approval' \in [Approvals -> Approval]
  BY <1>2, <1>3, <1>4 DEF IInv, Shaped
<1>9. /\ draft' \in [Drafts -> ExportDraft]
      /\ \A d \in Drafts : draft'[d].payload = draft[d].payload
  <2>1. PICK rows \in [Drafts -> ExportDraft] : rows = draft
    BY DEF IInv, Shaped
  <2>2. PICK s \in Statuses : s = "pending_approval"
    BY DEF Statuses
  <2>3. draft' = [rows EXCEPT ![q.draft].status = s]
    BY <1>3, <2>1, <2>2
  <2>4. KeepPayloads(rows, draft')
    BY <2>3, DraftsMarked
  <2> QED
    BY <2>1, <2>4 DEF KeepPayloads
<1>10. PayloadsSettled'
  BY <1>2, <1>3, <1>4, <1>5, <1>9 DEF IInv, PayloadsSettled, Settled, reviews
<1>11. ExportsSigned'
  BY <1>3, <1>5 DEF IInv, ExportsSigned
<1>12. export' \in [Approvals -> SUBSET Payload]
  BY <1>3 DEF IInv, Shaped
<1> QED
  BY <1>3, <1>6, <1>7, <1>8, <1>9, <1>10, <1>11, <1>12, DraftsChange

-----------------------------------------------------------------------------
(* Decisions about an approval                                             *)

LEMMA ReadForDecisionStep ==
    ASSUME IInv, NEW c \in Clients, NEW a \in Approvals, ReadForDecision(c, a)
    PROVE  IInv'
<1>1. PICK op \in {"approving", "rejecting"} :
        Starts(c, [Idle EXCEPT !.op = op, !.approval = a, !.now = clock])
  BY DEF ReadForDecision
<1>2. PICK n \in 0..MaxClock : n = clock
  BY DEF IInv, Shaped
<1>3. PICK idle \in Operation : idle = Idle
  BY IdleTyped
<1> DEFINE r == [idle EXCEPT !.op = op, !.approval = a, !.now = n]
<1>4. r \in Operation /\ r.op = op /\ r.approval = a
  BY DEF Operation, Ops
<1>5. Starts(c, r) /\ approval[a].decision = "pending"
  BY <1>1, <1>2, <1>3 DEF ReadForDecision, PendingAndFresh
<1> HIDE DEF r
<1>6. OperationOK(r)
  BY <1>4, <1>5 DEF OperationOK
<1> QED
  BY <1>4, <1>5, <1>6, Reads DEF ReadForDecision

(* A decision, whichever, keeps what the approval is bound to.             *)
LEMMA DecisionWritten ==
    ASSUME IInv, NEW c \in Clients, NEW a \in Approvals,
           approval[a].decision # "none", NEW row \in Approval,
           row.decision # "none", row.payload = approval[a].payload,
           approval' = [approval EXCEPT ![a] = row],
           NEW s \in Statuses, NEW d, draft' = [draft EXCEPT ![d].status = s],
           Ends(c), UNCHANGED <<reviews, export, zip, setting>>
    PROVE  IInv'
<1>1. UNCHANGED <<reviews, export, zip, config, authority, clock>>
  BY DEF setting
<1>2. \A b \in Approvals : approval'[b] = IF b = a THEN row ELSE approval[b]
  BY DEF IInv, Shaped
<1>3. Later
  BY <1>1, <1>2 DEF Later, Decided, reviews
<1>4. operation' \in [Clients -> Operation] /\ OperationsOK'
  BY <1>3, OperationEnds
<1>5. approval' \in [Approvals -> Approval]
  BY DEF IInv, Shaped
<1>6. /\ draft' \in [Drafts -> ExportDraft]
      /\ \A x \in Drafts : draft'[x].payload = draft[x].payload
  <2>1. PICK rows \in [Drafts -> ExportDraft] : rows = draft
    BY DEF IInv, Shaped
  <2>2. draft' = [rows EXCEPT ![d].status = s]
    BY <2>1
  <2>3. KeepPayloads(rows, draft')
    BY <2>2, DraftsMarked
  <2> QED
    BY <2>1, <2>3 DEF KeepPayloads
<1>7. PayloadsSettled'
  BY <1>1, <1>2, <1>6 DEF IInv, PayloadsSettled, Settled, reviews
<1>8. ExportsSigned'
  BY <1>1, <1>2 DEF IInv, ExportsSigned
<1>9. export' \in [Approvals -> SUBSET Payload]
  BY <1>1 DEF IInv, Shaped
<1> QED
  BY <1>1, <1>3, <1>4, <1>5, <1>6, <1>7, <1>8, <1>9, DraftsChange

LEMMA DecisionSteps ==
    ASSUME IInv, NEW c \in Clients, Approve(c) \/ Reject(c)
    PROVE  IInv'
<1>1. PICK q \in Operation : q = operation[c]
  BY DEF IInv, Shaped
<1>2. /\ q.approval \in Approvals /\ approval[q.approval].decision # "none"
      /\ q.now \in 0..MaxClock
  BY <1>1 DEF Approve, Reject, IInv, OperationsOK, OperationOK, Operation
<1>3. PICK old \in Approval : old = approval[q.approval]
  BY <1>2 DEF IInv, Shaped
<1>4. PICK n \in 0..MaxClock : n = q.now
  BY <1>2
<1>5. PICK e \in 0..MaxClock + ExpiryDays : e = q.now + ExpiryDays
  BY <1>2, Bounds
<1>6. CASE Approve(c)
  <2> DEFINE row == [old EXCEPT !.decision = "approved", !.decidedBy = c, !.decided = n,
                                !.expires = e]
  <2>1. row \in Approval /\ row.decision # "none" /\ row.payload = old.payload
    BY DEF Approval
  <2>2. /\ approval' = [approval EXCEPT ![q.approval] = row]
        /\ draft' = [draft EXCEPT ![old.draft].status = "approved"]
        /\ Ends(c) /\ UNCHANGED <<reviews, export, zip, setting>>
    BY <1>1, <1>3, <1>4, <1>5, <1>6 DEF Approve, IInv, Shaped
  <2>3. PICK s \in Statuses : s = "approved"
    BY DEF Statuses
  <2> HIDE DEF row
  <2> QED
    BY <1>2, <1>3, <2>1, <2>2, <2>3, DecisionWritten
<1>7. CASE Reject(c)
  <2> DEFINE row == [old EXCEPT !.decision = "rejected", !.decidedBy = c, !.decided = n]
  <2>1. row \in Approval /\ row.decision # "none" /\ row.payload = old.payload
    BY DEF Approval
  <2>2. /\ approval' = [approval EXCEPT ![q.approval] = row]
        /\ draft' = [draft EXCEPT ![old.draft].status = "rejected"]
        /\ Ends(c) /\ UNCHANGED <<reviews, export, zip, setting>>
    BY <1>1, <1>3, <1>4, <1>7 DEF Reject, IInv, Shaped
  <2>3. PICK s \in Statuses : s = "rejected"
    BY DEF Statuses
  <2> HIDE DEF row
  <2> QED
    BY <1>2, <1>3, <2>1, <2>2, <2>3, DecisionWritten
<1> QED
  BY <1>6, <1>7

-----------------------------------------------------------------------------
(* Delivery and expiry                                                     *)

LEMMA ReadForDeliveryStep ==
    ASSUME IInv, NEW c \in Clients, NEW a \in Approvals, ReadForDelivery(c, a)
    PROVE  IInv'
<1>1. /\ approval[a].decision = "approved"
      /\ draft[approval[a].draft].payload = approval[a].payload
  BY DEF ReadForDelivery, Deliverable
<1>2. PICK p \in SUBSET Payload : p = approval[a].payload
  BY DEF IInv, Shaped, Approval
<1>3. PICK idle \in Operation : idle = Idle
  BY IdleTyped
<1> DEFINE r == [idle EXCEPT !.op = "delivering", !.approval = a, !.payload = p]
<1>4. r \in Operation /\ r.op = "delivering" /\ r.approval = a /\ r.payload = p
  BY DEF Operation, Ops
<1>5. Starts(c, r)
  BY <1>1, <1>2, <1>3 DEF ReadForDelivery
<1> HIDE DEF r
<1>6. OperationOK(r)
  BY <1>1, <1>2, <1>4 DEF OperationOK
<1> QED
  BY <1>4, <1>5, <1>6, Reads DEF ReadForDelivery

(* The bundle is compared with the payload of the approval, so a file that *)
(* is written again for it has the same content.                           *)
LEMMA WriteZipStep ==
    ASSUME IInv, NEW c \in Clients, WriteZip(c)
    PROVE  IInv'
<1>1. PICK q \in Operation : q = operation[c]
  BY DEF IInv, Shaped
<1>2. /\ q.op = "delivering" /\ q.approval \in Approvals
      /\ approval[q.approval].decision # "none"
      /\ q.payload = approval[q.approval].payload /\ q.payload \in SUBSET Payload
  BY <1>1 DEF WriteZip, IInv, OperationsOK, OperationOK, Operation
<1> DEFINE r == [q EXCEPT !.op = "recording"]
<1>3. /\ zip' = [zip EXCEPT ![q.approval] = q.payload]
      /\ operation' = [operation EXCEPT ![c] = r]
      /\ UNCHANGED <<review, disposition, evidence, poam, draft, approval, export,
                     config, authority, clock>>
  BY <1>1 DEF WriteZip, Assembles, reviews, setting, IInv, Shaped
<1>4. /\ r \in Operation /\ r.op = "recording" /\ r.approval = q.approval
      /\ r.payload = q.payload
  BY DEF Operation, Ops
<1> HIDE DEF r
<1>5. \A a \in Approvals : zip'[a] = IF a = q.approval THEN q.payload ELSE zip[a]
  BY <1>3 DEF IInv, Shaped
<1>6. Later
  BY <1>2, <1>3, <1>5 DEF Later, Decided
<1>7. OperationOK(r)'
  BY <1>2, <1>3, <1>4, <1>5 DEF OperationOK
<1>8. operation' \in [Clients -> Operation] /\ OperationsOK'
  BY <1>3, <1>4, <1>6, <1>7, OperationsStay
<1>9. Shaped'
  BY <1>2, <1>3, <1>8 DEF IInv, Shaped
<1>10. ExportsSigned'
  BY <1>2, <1>3, <1>5 DEF IInv, ExportsSigned
<1>11. PayloadsSettled' /\ Routed' /\ SubmittedDecided'
  BY <1>3 DEF IInv, PayloadsSettled, Settled, Routed, SubmittedDecided, Decided
<1> QED
  BY <1>8, <1>9, <1>10, <1>11 DEF IInv

LEMMA RecordExportStep ==
    ASSUME IInv, NEW c \in Clients, RecordExport(c)
    PROVE  IInv'
<1>1. PICK q \in Operation : q = operation[c]
  BY DEF IInv, Shaped
<1>2. /\ q.approval \in Approvals /\ approval[q.approval].decision # "none"
      /\ q.payload = approval[q.approval].payload /\ zip[q.approval] = q.payload
      /\ q.payload \in SUBSET Payload
  BY <1>1 DEF RecordExport, IInv, OperationsOK, OperationOK, Operation
<1>3. /\ export' = [export EXCEPT ![q.approval] = q.payload]
      /\ draft' = [draft EXCEPT ![approval[q.approval].draft].status = "exported"]
      /\ Ends(c)
      /\ UNCHANGED <<reviews, approval, zip, config, authority, clock>>
  BY <1>1 DEF RecordExport, setting
<1>4. Later
  BY <1>3 DEF Later, Decided, reviews
<1>5. operation' \in [Clients -> Operation] /\ OperationsOK'
  BY <1>3, <1>4, OperationEnds
<1>6. /\ draft' \in [Drafts -> ExportDraft]
      /\ \A x \in Drafts : draft'[x].payload = draft[x].payload
  <2>1. PICK rows \in [Drafts -> ExportDraft] : rows = draft
    BY DEF IInv, Shaped
  <2>2. PICK s \in Statuses : s = "exported"
    BY DEF Statuses
  <2>3. draft' = [rows EXCEPT ![approval[q.approval].draft].status = s]
    BY <1>3, <2>1, <2>2
  <2>4. KeepPayloads(rows, draft')
    BY <2>3, DraftsMarked
  <2> QED
    BY <2>1, <2>4 DEF KeepPayloads
<1>7. /\ export' \in [Approvals -> SUBSET Payload]
      /\ \A a \in Approvals : export'[a] = IF a = q.approval THEN q.payload ELSE export[a]
      /\ approval' \in [Approvals -> Approval]
  BY <1>2, <1>3 DEF IInv, Shaped
<1>8. ExportsSigned'
  BY <1>2, <1>3, <1>7 DEF IInv, ExportsSigned
<1>9. PayloadsSettled'
  BY <1>3, <1>6 DEF IInv, PayloadsSettled, Settled, reviews
<1> QED
  BY <1>3, <1>4, <1>5, <1>6, <1>7, <1>8, <1>9, DraftsChange

LEMMA ReadForExpiryStep ==
    ASSUME IInv, NEW c \in Clients, ReadForExpiry(c)
    PROVE  IInv'
<1>1. PICK over \in SUBSET (Drafts \cup {NoDraft}) : over = ExpiredDrafts
  BY DEF ExpiredDrafts, IInv, Shaped, Approval
<1>2. PICK idle \in Operation : idle = Idle
  BY IdleTyped
<1> DEFINE r == [idle EXCEPT !.op = "expiring", !.drafts = over]
<1>3. r \in Operation /\ r.op = "expiring"
  BY DEF Operation, Ops
<1>4. Starts(c, r)
  BY <1>1, <1>2 DEF ReadForExpiry
<1> HIDE DEF r
<1>5. OperationOK(r)
  BY <1>3 DEF OperationOK
<1> QED
  BY <1>3, <1>4, <1>5, Reads DEF ReadForExpiry

LEMMA ExpireStep ==
    ASSUME IInv, NEW c \in Clients, Expire(c)
    PROVE  IInv'
<1>1. draft' = [d \in Drafts |-> IF d \in operation[c].drafts
                                 THEN [draft[d] EXCEPT !.status = "expired"]
                                 ELSE draft[d]]
  BY DEF Expire
<1>2. /\ Ends(c)
      /\ UNCHANGED <<reviews, approval, export, zip, config, authority, clock>>
  BY DEF Expire, setting
<1>3. Later
  BY <1>2 DEF Later, Decided, reviews
<1>4. operation' \in [Clients -> Operation] /\ OperationsOK'
  BY <1>2, <1>3, OperationEnds
<1>5. ASSUME NEW d \in Drafts
      PROVE  draft'[d] \in ExportDraft /\ draft'[d].payload = draft[d].payload
  <2>1. PICK x \in ExportDraft : x = draft[d]
    BY DEF IInv, Shaped
  <2>2. PICK s \in Statuses : s = "expired"
    BY DEF Statuses
  <2>3. draft'[d] = x \/ draft'[d] = [x EXCEPT !.status = s]
    BY <1>1, <2>1, <2>2
  <2> QED
    BY <2>1, <2>3, DraftMarked
<1>6. draft' \in [Drafts -> ExportDraft]
  BY <1>1, <1>5
<1>7. PayloadsSettled'
  BY <1>2, <1>5 DEF IInv, PayloadsSettled, Settled, reviews
<1>8. ExportsSigned'
  BY <1>2 DEF IInv, ExportsSigned
<1>9. /\ approval' \in [Approvals -> Approval]
      /\ export' \in [Approvals -> SUBSET Payload]
  BY <1>2 DEF IInv, Shaped
<1> QED
  BY <1>2, <1>3, <1>4, <1>6, <1>7, <1>8, <1>9, DraftsChange

LEMMA DeployAndTick ==
    ASSUME IInv, Deploy \/ Tick
    PROVE  IInv'
<1>1. UNCHANGED <<review, disposition, evidence, poam, draft, approval, export, zip, operation>>
  BY DEF Deploy, Tick, reviews
<1>2. /\ config' \in 1..MaxDeploy + 1 /\ authority' \in 1..MaxDeploy + 1
      /\ clock' \in 0..MaxClock
  BY Bounds DEF Deploy, Tick, IInv, Shaped
<1>3. Later
  BY <1>1 DEF Later, Decided
<1>4. operation' \in [Clients -> Operation] /\ OperationsOK'
  BY <1>1, <1>3, NobodyMoves
<1>5. Shaped'
  BY <1>1, <1>2, <1>4 DEF IInv, Shaped
<1>6. ExportsSigned' /\ PayloadsSettled' /\ Routed' /\ SubmittedDecided'
  BY <1>1
     DEF IInv, ExportsSigned, PayloadsSettled, Settled, Routed, SubmittedDecided, Decided
<1> QED
  BY <1>4, <1>5, <1>6 DEF IInv

-----------------------------------------------------------------------------
(* The theorems                                                            *)

LEMMA InvInit == Init => IInv
<1> SUFFICES ASSUME Init
             PROVE  IInv
  OBVIOUS
<1>1. operation \in [Clients -> Operation] /\ OperationsOK
  <2>1. operation = [c \in Clients |-> Idle]
    BY DEF Init
  <2> QED
    BY <2>1, IdleTyped DEF OperationsOK
<1>2. review \in ReviewRevision /\ review.status = "none"
  BY Bounds DEF Init, ReviewRevision
<1>3. PICK x \in Disposition : x = [decision |-> "pending", version |-> 1, by |-> "nobody"]
  <2>1. PICK one \in 1..MaxVersion : one = 1
    BY Bounds
  <2>2. [decision |-> "pending", version |-> one, by |-> "nobody"] \in Disposition
    BY DEF Disposition
  <2> QED
    BY <2>1, <2>2
<1>4. disposition \in [Rows -> Disposition] /\ \A m \in Rows : disposition[m].decision = "pending"
  BY <1>3 DEF Init
<1>5. PICK d \in ExportDraft : d = [status |-> "none", payload |-> NoPayload]
  BY DEF ExportDraft, NoPayload
<1>6. draft \in [Drafts -> ExportDraft] /\ \A e \in Drafts : draft[e].payload = {}
  BY <1>5 DEF Init, NoPayload
<1>7. PICK a \in Approval : a = [decision |-> "none", draft |-> NoDraft, payload |-> NoPayload,
                               by |-> "nobody", decidedBy |-> "nobody", submitted |-> 0,
                               decided |-> 0, expires |-> 0]
  <2>1. PICK z \in 0..MaxClock : z = 0
    BY Bounds
  <2>2. PICK e \in 0..MaxClock + ExpiryDays : e = 0
    BY Bounds
  <2>3. [decision |-> "none", draft |-> NoDraft, payload |-> NoPayload,
         by |-> "nobody", decidedBy |-> "nobody", submitted |-> z,
         decided |-> z, expires |-> e] \in Approval
    BY DEF Approval, NoPayload
  <2> QED
    BY <2>1, <2>2, <2>3
<1>8. approval \in [Approvals -> Approval] /\ \A b \in Approvals : approval[b].payload = {}
  BY <1>7 DEF Init, NoPayload
<1>9. /\ export \in [Approvals -> SUBSET Payload] /\ zip \in [Approvals -> SUBSET Payload]
      /\ \A b \in Approvals : export[b] = NoPayload
  BY DEF Init, NoPayload
<1>10. Shaped
  BY <1>1, <1>2, <1>4, <1>6, <1>8, <1>9, Bounds DEF Init, Shaped
<1>11. ExportsSigned /\ PayloadsSettled /\ Routed /\ SubmittedDecided
  BY <1>2, <1>4, <1>6, <1>8, <1>9
     DEF ExportsSigned, PayloadsSettled, Settled, Routed, SubmittedDecided
<1> QED
  BY <1>1, <1>10, <1>11 DEF IInv

LEMMA InvNext == IInv /\ [Next]_vars => IInv'
<1> SUFFICES ASSUME IInv, [Next]_vars
             PROVE  IInv'
  OBVIOUS
<1>1. CASE UNCHANGED vars
  <2>1. UNCHANGED operation /\ Later
        /\ UNCHANGED <<reviews, draft, approval, export, zip, setting>>
    BY <1>1 DEF vars, Later, Decided, reviews, setting
  <2> QED
    BY <2>1, NobodyMoves, OnlyClient
<1>2. CASE Deploy \/ Tick
  BY <1>2, DeployAndTick
<1>3. ASSUME NEW c \in Clients
      PROVE  /\ Abandon(c) \/ CreateReview(c) \/ UpdateDisposition(c) => IInv'
             /\ ReadReview(c) \/ SubmitReview(c) \/ CreateExportDraft(c) => IInv'
             /\ SubmitExportDraft(c) \/ Approve(c) \/ Reject(c) => IInv'
             /\ WriteZip(c) \/ RecordExport(c) \/ ReadForExpiry(c) \/ Expire(c) => IInv'
  BY AbandonStep, CreateReviewStep, UpdateDispositionStep, ReadReviewStep,
     SubmitReviewStep, CreateExportDraftStep, SubmitExportDraftStep, DecisionSteps,
     WriteZipStep, RecordExportStep, ReadForExpiryStep, ExpireStep
<1>4. ASSUME NEW c \in Clients
      PROVE  /\ \A m \in Rows : ReadDisposition(c, m) => IInv'
             /\ \A d \in Drafts : ReadForDraft(c, d) => IInv'
             /\ \A d \in Drafts, a \in Approvals : ReadForSubmit(c, d, a) => IInv'
             /\ \A a \in Approvals : ReadForDecision(c, a) \/ ReadForDelivery(c, a) => IInv'
  BY ReadDispositionStep, ReadForDraftStep, ReadForSubmitStep, ReadForDecisionStep,
     ReadForDeliveryStep
<1> QED
  BY <1>1, <1>2, <1>3, <1>4 DEF Next

(* The strengthened invariant holds in every reachable state, for any set  *)
(* of clients, rows, drafts and approvals (review_revisions.py,            *)
(* export_service.py).                                                     *)
THEOREM ExportInvariant == Spec => []IInv
  BY InvInit, InvNext, PTL DEF Spec

(* The review, the drafts, the approvals and the clock keep their types.   *)
THEOREM ExportTypeOK == Spec => []TypeOK
<1>1. IInv => TypeOK
  BY DEF IInv, Shaped, TypeOK, ExportDraft, Approval
<1> QED
  BY <1>1, ExportInvariant, PTL

(* An export holds the payload its approval was given for, in its row and  *)
(* in its file, although decisions in flight, deployments and racing       *)
(* deliveries change the content in between (deliver_export_download).     *)
THEOREM ExportsAreApproved == Spec => []ExportsMatchApproval
<1>1. IInv => ExportsMatchApproval
  BY DEF IInv, ExportsSigned, ExportsMatchApproval
<1> QED
  BY <1>1, ExportInvariant, PTL

(* Every decision has its candidate or request, no payload leaves a row    *)
(* undecided and every exported weakness has its candidate, whatever was   *)
(* in flight when the review was submitted                                 *)
(* (route_disposition_side_effects, submit_review_revision).               *)
THEOREM ExportDecisionsCarryOver == Spec => []DecisionsCarryOver
<1>1. ASSUME IInv
      PROVE  DecisionsCarryOver
  <2>1. \A a \in Approvals : Settled(export[a])
    <3>1. \A a \in Approvals : export[a] = {} \/ export[a] = approval[a].payload
      BY <1>1 DEF IInv, ExportsSigned, NoPayload
    <3> QED
      BY <1>1, <3>1 DEF IInv, PayloadsSettled, Settled
  <2>2. ASSUME NEW a \in Approvals, NEW p \in export[a], NEW e \in PoamDraft(p.decided)
        PROVE  e.row \in poam
    <3>1. e.row \in Rows /\ p.decided[e.row].decision = "weakness_confirmed"
      BY DEF PoamDraft
    <3> QED
      BY <2>1, <3>1 DEF Settled
  <2>3. DecisionsAreRouted
    BY <1>1, <2>2 DEF DecisionsAreRouted, IInv, Routed
  <2>4. NothingUndecidedIsDrafted
    BY <1>1 DEF NothingUndecidedIsDrafted, IInv, SubmittedDecided, Decided, PayloadsSettled,
                Settled
  <2> QED
    BY <2>3, <2>4 DEF DecisionsCarryOver
<1> QED
  BY <1>1, ExportInvariant, PTL

-----------------------------------------------------------------------------
(* Who decided, and when                                                   *)

Signed(a) == approval[a].decision \in {"approved", "rejected"}

(* What a decision in flight read about its approval stays true of it, and *)
(* a delivery is about an approval that was decided.                       *)
Entitled(c, q) ==
    /\ q.op \in {"approving", "rejecting"} =>
          /\ MayDecide(c, q.approval)
          /\ q.now < approval[q.approval].submitted + ExpiryDays
    /\ q.op \in {"delivering", "recording"} => Signed(q.approval)

ByAnother(x) == /\ x.decidedBy \in Clients
                /\ SingleUser \/ x.decidedBy # x.by
                /\ x.decided < x.submitted + ExpiryDays

SignedByAnother ==
    \A a \in Approvals :
       /\ Signed(a) => ByAnother(approval[a])
       /\ export[a] # NoPayload => Signed(a)

ReviewInv == (\A c \in Clients : Entitled(c, operation[c])) /\ SignedByAnother

(* The steps that leave approvals and exports alone: a client ends what it *)
(* did, or goes on with something it is entitled to.                       *)
LEMMA ReviewSame ==
    ASSUME IInv, ReviewInv, UNCHANGED <<approval, export>>,
           NEW c \in Clients, NEW r, operation' = [operation EXCEPT ![c] = r],
           Entitled(c, r)
    PROVE  ReviewInv'
<1>1. UNCHANGED approval /\ UNCHANGED export
  OBVIOUS
<1>2. \A d \in Clients : operation'[d] = IF d = c THEN r ELSE operation[d]
  BY DEF IInv, Shaped
<1>3. \A d \in Clients : Entitled(d, operation'[d])
  BY <1>2 DEF ReviewInv
<1>4. \A d \in Clients : Entitled(d, operation[d])'
  BY <1>1, <1>3 DEF Entitled, MayDecide, Signed
<1>5. SignedByAnother'
  BY <1>1 DEF ReviewInv, SignedByAnother, ByAnother, Signed
<1> QED
  BY <1>4, <1>5 DEF ReviewInv

LEMMA ReviewEnds ==
    ASSUME IInv, ReviewInv, UNCHANGED <<approval, export>>, NEW c \in Clients, Ends(c)
    PROVE  ReviewInv'
  BY ReviewSame, IdleTyped DEF Ends, Entitled

LEMMA ReviewReads ==
    ASSUME IInv, ReviewInv, UNCHANGED <<approval, export>>, NEW c \in Clients,
           NEW r, Starts(c, r), r.op \notin {"approving", "rejecting", "delivering", "recording"}
    PROVE  ReviewInv'
  BY ReviewSame DEF Starts, Entitled

(* One approval is written, and others keep who submitted and decided it.  *)
(* A client entitled to decide it or to deliver it stays so.               *)
LEMMA ReviewWritten ==
    ASSUME IInv, ReviewInv, NEW c \in Clients, Ends(c), UNCHANGED export,
           NEW a \in Approvals, NEW row, approval' = [approval EXCEPT ![a] = row],
           approval[a].decision # "none" =>
              /\ row.by = approval[a].by /\ row.submitted = approval[a].submitted
              /\ row.decision \in {"approved", "rejected"},
           row.decision \in {"approved", "rejected"} => ByAnother(row)
    PROVE  ReviewInv'
<1>1. \A b \in Approvals : approval'[b] = IF b = a THEN row ELSE approval[b]
  BY DEF IInv, Shaped
<1>2. \A d \in Clients : operation'[d] = IF d = c THEN Idle ELSE operation[d]
  BY DEF IInv, Shaped, Ends
<1>3. ASSUME NEW d \in Clients
      PROVE  Entitled(d, operation[d])'
  <2>1. CASE d = c
    BY <1>2, <2>1, IdleTyped DEF Entitled
  <2>2. CASE d # c
    <3>1. PICK q \in Operation : q = operation[d] /\ q = operation'[d]
      BY <1>2, <2>2 DEF IInv, Shaped
    <3>2. OperationOK(q) /\ Entitled(d, q)
      BY <3>1 DEF IInv, OperationsOK, ReviewInv
    <3>3. Entitled(d, q)'
      BY <1>1, <3>2 DEF OperationOK, Entitled, MayDecide, Signed
    <3> QED
      BY <3>1, <3>3 DEF Entitled, MayDecide, Signed
  <2> QED
    BY <2>1, <2>2
<1>4. ASSUME NEW b \in Approvals
      PROVE  /\ Signed(b)' => ByAnother(approval'[b])
             /\ export'[b] # NoPayload => Signed(b)'
  <2>1. /\ Signed(b) => ByAnother(approval[b])
        /\ export'[b] # NoPayload => Signed(b)
    BY DEF ReviewInv, SignedByAnother
  <2>2. CASE b = a
    <3>1. approval'[b] = row
      BY <1>1, <2>2
    <3>2. row.decision \in {"approved", "rejected"} <=> Signed(b)'
      BY <3>1 DEF Signed
    <3>3. Signed(b)' => ByAnother(row)
      BY <3>2
    <3>4. export'[b] # NoPayload => row.decision \in {"approved", "rejected"}
      BY <2>1, <2>2 DEF Signed
    <3> QED
      BY <3>1, <3>2, <3>3, <3>4
  <2>3. CASE b # a
    <3>1. approval'[b] = approval[b]
      BY <1>1, <2>3
    <3>2. Signed(b)' <=> Signed(b)
      BY <3>1 DEF Signed
    <3> QED
      BY <2>1, <3>1, <3>2
  <2> QED
    BY <2>2, <2>3
<1>5. SignedByAnother'
  BY <1>4 DEF SignedByAnother, ByAnother
<1> QED
  BY <1>3, <1>5 DEF ReviewInv

LEMMA ReviewDecided ==
    ASSUME IInv, ReviewInv, NEW c \in Clients, Approve(c) \/ Reject(c)
    PROVE  ReviewInv'
<1>1. PICK q \in Operation : q = operation[c]
  BY DEF IInv, Shaped
<1>2. /\ q.op \in {"approving", "rejecting"} /\ q.approval \in Approvals
      /\ approval[q.approval].decision # "none" /\ Entitled(c, q)
  BY <1>1 DEF Approve, Reject, IInv, OperationsOK, OperationOK, ReviewInv
<1>3. PICK old \in Approval : old = approval[q.approval]
  BY <1>2 DEF IInv, Shaped
<1>4. old.by # c \/ SingleUser
  BY <1>2, <1>3 DEF Entitled, MayDecide
<1>5. q.now < old.submitted + ExpiryDays
  BY <1>2, <1>3 DEF Entitled
<1>6. PICK n \in 0..MaxClock : n = q.now
  BY DEF Operation
<1>7. PICK e \in 0..MaxClock + ExpiryDays : e = q.now + ExpiryDays
  BY <1>6, Bounds
<1>8. PICK row \in Approval :
        /\ approval' = [approval EXCEPT ![q.approval] = row]
        /\ row.by = old.by /\ row.submitted = old.submitted
        /\ row.decision \in {"approved", "rejected"}
        /\ row.decidedBy = c /\ row.decided = n
  <2>1. CASE Approve(c)
    <3> DEFINE x == [old EXCEPT !.decision = "approved", !.decidedBy = c, !.decided = n,
                                !.expires = e]
    <3>1. /\ x \in Approval /\ x.by = old.by /\ x.submitted = old.submitted
          /\ x.decision = "approved" /\ x.decidedBy = c /\ x.decided = n
      BY DEF Approval
    <3>2. approval' = [approval EXCEPT ![q.approval] = x]
      BY <1>1, <1>3, <1>6, <1>7, <2>1 DEF Approve, IInv, Shaped
    <3> QED
      BY <3>1, <3>2
  <2>2. CASE Reject(c)
    <3> DEFINE x == [old EXCEPT !.decision = "rejected", !.decidedBy = c, !.decided = n]
    <3>1. /\ x \in Approval /\ x.by = old.by /\ x.submitted = old.submitted
          /\ x.decision = "rejected" /\ x.decidedBy = c /\ x.decided = n
      BY DEF Approval
    <3>2. approval' = [approval EXCEPT ![q.approval] = x]
      BY <1>1, <1>3, <1>6, <2>2 DEF Reject, IInv, Shaped
    <3> QED
      BY <3>1, <3>2
  <2> QED
    BY <2>1, <2>2
<1>9. Ends(c) /\ UNCHANGED export
  BY DEF Approve, Reject
<1>10. ByAnother(row)
  BY <1>4, <1>5, <1>6, <1>8 DEF ByAnother
<1> QED
  BY <1>2, <1>3, <1>8, <1>9, <1>10, ReviewWritten

LEMMA ReviewSubmitted ==
    ASSUME IInv, ReviewInv, NEW c \in Clients, SubmitExportDraft(c)
    PROVE  ReviewInv'
<1>1. PICK q \in Operation : q = operation[c]
  BY DEF IInv, Shaped
<1>2. q.op = "submitting" /\ q.approval \in Approvals
  BY <1>1 DEF SubmitExportDraft, IInv, OperationsOK, OperationOK
<1> DEFINE row == [decision |-> "pending", draft |-> q.draft, payload |-> q.payload,
                   by |-> c, decidedBy |-> "nobody", submitted |-> q.now, decided |-> 0,
                   expires |-> q.now + ExpiryDays]
<1>3. row.decision = "pending"
  OBVIOUS
<1>4. /\ approval[q.approval].decision = "none" /\ Ends(c) /\ UNCHANGED export
      /\ approval' = [approval EXCEPT ![q.approval] = row]
  BY <1>1 DEF SubmitExportDraft
<1> HIDE DEF row
<1> QED
  BY <1>2, <1>3, <1>4, ReviewWritten

LEMMA ReviewDelivery ==
    ASSUME IInv, ReviewInv, NEW c \in Clients,
           WriteZip(c) \/ RecordExport(c) \/ \E a \in Approvals : ReadForDelivery(c, a)
    PROVE  ReviewInv'
<1>1. PICK q \in Operation : q = operation[c]
  BY DEF IInv, Shaped
<1>2. CASE WriteZip(c)
  <2> DEFINE r == [q EXCEPT !.op = "recording"]
  <2>1. r.op = "recording" /\ r.approval = q.approval
    BY DEF Operation
  <2>2. operation' = [operation EXCEPT ![c] = r] /\ UNCHANGED <<approval, export>>
    BY <1>1, <1>2 DEF WriteZip, IInv, Shaped
  <2>3. Signed(q.approval)
    BY <1>1, <1>2 DEF WriteZip, ReviewInv, Entitled
  <2> HIDE DEF r
  <2>4. Entitled(c, r)
    BY <2>1, <2>3 DEF Entitled
  <2> QED
    BY <2>2, <2>4, ReviewSame
<1>3. CASE RecordExport(c)
  <2>1. q.approval \in Approvals /\ Signed(q.approval)
    BY <1>1, <1>3 DEF RecordExport, IInv, OperationsOK, OperationOK, ReviewInv, Entitled
  <2>2. /\ export' = [export EXCEPT ![q.approval] = q.payload]
        /\ Ends(c) /\ UNCHANGED approval
    BY <1>1, <1>3 DEF RecordExport
  <2>3. \A d \in Clients : operation'[d] = IF d = c THEN Idle ELSE operation[d]
    BY <2>2 DEF IInv, Shaped, Ends
  <2>4. \A d \in Clients : Entitled(d, operation'[d])
    BY <2>3, IdleTyped DEF ReviewInv, Entitled
  <2>5. \A d \in Clients : Entitled(d, operation[d])'
    BY <2>2, <2>4 DEF Entitled, MayDecide, Signed
  <2>6. \A a \in Approvals : export'[a] # NoPayload => a = q.approval \/ export[a] # NoPayload
    BY <2>2 DEF IInv, Shaped
  <2>7. SignedByAnother'
    BY <2>1, <2>2, <2>6 DEF ReviewInv, SignedByAnother, ByAnother, Signed
  <2> QED
    BY <2>5, <2>7 DEF ReviewInv
<1>4. ASSUME NEW a \in Approvals, ReadForDelivery(c, a)
      PROVE  ReviewInv'
  <2>1. PICK p : p = draft[approval[a].draft].payload
    OBVIOUS
  <2>2. PICK idle \in Operation : idle = Idle
    BY IdleTyped
  <2> DEFINE r == [idle EXCEPT !.op = "delivering", !.approval = a, !.payload = p]
  <2>3. r.op = "delivering" /\ r.approval = a
    BY DEF Operation
  <2>4. /\ operation' = [operation EXCEPT ![c] = r] /\ UNCHANGED <<approval, export>>
        /\ Signed(a)
    BY <1>4, <2>1, <2>2 DEF ReadForDelivery, Starts, Deliverable, Signed
  <2> HIDE DEF r
  <2>5. Entitled(c, r)
    BY <2>3, <2>4 DEF Entitled
  <2> QED
    BY <2>4, <2>5, ReviewSame
<1> QED
  BY <1>2, <1>3, <1>4

LEMMA ReviewDecisionRead ==
    ASSUME IInv, ReviewInv, NEW c \in Clients, NEW a \in Approvals, ReadForDecision(c, a)
    PROVE  ReviewInv'
<1>1. PICK op \in {"approving", "rejecting"} :
        Starts(c, [Idle EXCEPT !.op = op, !.approval = a, !.now = clock])
  BY DEF ReadForDecision
<1>2. PICK idle \in Operation : idle = Idle
  BY IdleTyped
<1> DEFINE r == [idle EXCEPT !.op = op, !.approval = a, !.now = clock]
<1>3. r.op = op /\ r.approval = a /\ r.now = clock
  BY DEF Operation
<1>4. operation' = [operation EXCEPT ![c] = r] /\ UNCHANGED <<approval, export>>
  BY <1>1, <1>2 DEF ReadForDecision, Starts
<1> HIDE DEF r
<1>5. Entitled(c, r)
  BY <1>3 DEF ReadForDecision, PendingAndFresh, Entitled
<1> QED
  BY <1>4, <1>5, ReviewSame

(* The other reads.                                                        *)
LEMMA ReviewOtherReads ==
    ASSUME IInv, ReviewInv, NEW c \in Clients,
           \/ ReadReview(c) \/ ReadForExpiry(c)
           \/ \E m \in Rows : ReadDisposition(c, m)
           \/ \E d \in Drafts : ReadForDraft(c, d)
           \/ \E d \in Drafts, a \in Approvals : ReadForSubmit(c, d, a)
    PROVE  ReviewInv'
<1>1. UNCHANGED <<approval, export>>
  BY DEF ReadReview, ReadForExpiry, ReadDisposition, ReadForDraft, ReadForSubmit
<1>2. PICK r : /\ Starts(c, r)
               /\ r.op \notin {"approving", "rejecting", "delivering", "recording"}
  <2>1. PICK idle \in Operation : idle = Idle
    BY IdleTyped
  <2>2. CASE ReadReview(c)
    <3>1. Starts(c, [idle EXCEPT !.op = "submitting_review"])
      BY <2>1, <2>2 DEF ReadReview
    <3>2. [idle EXCEPT !.op = "submitting_review"].op = "submitting_review"
      BY DEF Operation
    <3> QED
      BY <3>1, <3>2
  <2>3. CASE ReadForExpiry(c)
    <3> DEFINE x == [idle EXCEPT !.op = "expiring", !.drafts = ExpiredDrafts]
    <3>1. Starts(c, x)
      BY <2>1, <2>3 DEF ReadForExpiry
    <3>2. x.op = "expiring"
      BY DEF Operation
    <3> HIDE DEF x
    <3> QED
      BY <3>1, <3>2
  <2>4. ASSUME NEW m \in Rows, ReadDisposition(c, m)
        PROVE  \E x : /\ Starts(c, x)
                      /\ x.op \notin {"approving", "rejecting", "delivering", "recording"}
    <3>1. PICK d \in Compatible[m] :
            Starts(c, [Idle EXCEPT !.op = "disposing", !.row = {m}, !.version = review.version,
                                   !.decided = {[decision |-> d, by |-> c,
                                                 version |-> disposition[m].version + 1]}])
      BY <2>4 DEF ReadDisposition
    <3> DEFINE x == [idle EXCEPT !.op = "disposing", !.row = {m}, !.version = review.version,
                                 !.decided = {[decision |-> d, by |-> c,
                                               version |-> disposition[m].version + 1]}]
    <3>2. Starts(c, x) /\ x.op = "disposing"
      BY <2>1, <3>1 DEF Operation
    <3> HIDE DEF x
    <3> QED
      BY <3>2
  <2>5. ASSUME NEW d \in Drafts, ReadForDraft(c, d)
        PROVE  \E x : /\ Starts(c, x)
                      /\ x.op \notin {"approving", "rejecting", "delivering", "recording"}
    <3> DEFINE x == [idle EXCEPT !.op = "drafting", !.draft = d,
                                 !.payload = CurrentPayload(authority),
                                 !.drafts = Stale(CurrentPayload(authority))]
    <3>1. Starts(c, x)
      BY <2>1, <2>5 DEF ReadForDraft
    <3>2. x.op = "drafting"
      BY DEF Operation
    <3> HIDE DEF x
    <3> QED
      BY <3>1, <3>2
  <2>6. ASSUME NEW d \in Drafts, NEW a \in Approvals, ReadForSubmit(c, d, a)
        PROVE  \E x : /\ Starts(c, x)
                      /\ x.op \notin {"approving", "rejecting", "delivering", "recording"}
    <3> DEFINE x == [idle EXCEPT !.op = "submitting", !.draft = d, !.approval = a,
                                 !.payload = draft[d].payload, !.now = clock]
    <3>1. Starts(c, x)
      BY <2>1, <2>6 DEF ReadForSubmit
    <3>2. x.op = "submitting"
      BY DEF Operation
    <3> HIDE DEF x
    <3> QED
      BY <3>1, <3>2
  <2> QED
    BY <2>2, <2>3, <2>4, <2>5, <2>6
<1> QED
  BY <1>1, <1>2, ReviewReads

LEMMA ReviewKeeps == IInv /\ ReviewInv /\ [Next]_vars => ReviewInv'
<1> SUFFICES ASSUME IInv, ReviewInv, [Next]_vars
             PROVE  ReviewInv'
  OBVIOUS
<1>1. CASE UNCHANGED <<approval, export, operation>>
  <2>1. UNCHANGED approval /\ UNCHANGED export /\ UNCHANGED operation
    BY <1>1
  <2> QED
    BY <2>1 DEF ReviewInv, Entitled, SignedByAnother, ByAnother, MayDecide, Signed
<1>2. UNCHANGED vars \/ Deploy \/ Tick => UNCHANGED <<approval, export, operation>>
  BY DEF vars, Deploy, Tick
<1>3. ASSUME NEW c \in Clients
      PROVE  /\ CreateReview(c) => UNCHANGED <<approval, export, operation>>
             /\ \/ Abandon(c) \/ UpdateDisposition(c) \/ SubmitReview(c)
                \/ CreateExportDraft(c) \/ Expire(c)
                => UNCHANGED <<approval, export>> /\ Ends(c)
  BY DEF CreateReview, Abandon, UpdateDisposition, SubmitReview, CreateExportDraft, Expire
<1>4. ASSUME NEW c \in Clients, UNCHANGED <<approval, export>>, Ends(c)
      PROVE  ReviewInv'
  BY <1>4, ReviewEnds
<1> QED
  BY <1>1, <1>2, <1>3, <1>4, ReviewDecided, ReviewSubmitted, ReviewDelivery, ReviewDecisionRead,
     ReviewOtherReads DEF Next

(* Nothing is ready or delivered but on a decision of somebody other than  *)
(* the submitter, taken in the period of review, for any number of         *)
(* reviewers whose decisions overwrite each other (approve_export,         *)
(* reject_export, resolve_preparation_status, deliver_export_download).    *)
THEOREM ExportsAreReviewedByAnother == Spec => []ReviewedByAnother
<1>1. Init => ReviewInv
  <2> SUFFICES ASSUME Init
               PROVE  ReviewInv
    OBVIOUS
  <2>1. \A c \in Clients : Entitled(c, operation[c])
    BY IdleTyped DEF Init, Entitled
  <2>2. \A a \in Approvals : approval[a].decision = "none" /\ export[a] = NoPayload
    BY DEF Init
  <2> QED
    BY <2>1, <2>2 DEF ReviewInv, SignedByAnother, Signed
<1>2. ReviewInv => ReviewedByAnother
  <2>1. ASSUME NEW a \in Approvals, a \in ReadyApprovals
        PROVE  Signed(a)
    BY <2>1 DEF ReadyApprovals, Signed
  <2> QED
    BY <2>1 DEF ReviewInv, SignedByAnother, ReviewedByAnother, ByAnother
<1> QED
  BY <1>1, <1>2, ReviewKeeps, ExportInvariant, PTL DEF Spec

-----------------------------------------------------------------------------
(* The model adapter and the agency renders                                *)

Using == {"building", "running"}

(* The semaphore never hands out more slots than it has.                   *)
SlotsWithin ==
  /\ IsFiniteSet(CallSlots) /\ IsFiniteSet(CloserSlots)
  /\ Cardinality(CallSlots) + Cardinality(CloserSlots) <= MaxSlots

(* A close that has drained the adapter holds every slot, so that nothing  *)
(* uses the client while it is closed, and the flag that was set first     *)
(* keeps everything away from it afterwards.                               *)
ClosesDrain ==
  \A k \in Closers :
    /\ closer[k] # "idle" => closed
    /\ closer[k] = "closing" => held[k] = MaxSlots
    /\ closer[k] \in {"closing", "done"} => \A c \in Calls : call[c] \notin Using
    /\ closer[k] = "done" => client # "open"

ClosedByClose == client = "closed" => \E k \in Closers : closer[k] = "done"

RunningIsOpen == \A c \in Calls : call[c] = "running" => client = "open"

RuntimeInv ==
  SlotsTyped /\ SlotsWithin /\ ClosesDrain /\ ClosedByClose /\ RunningIsOpen

Phases == {"map", "repair", "review", "commit"}

(* A request between its transactions                                      *)
Working == [phase : Phases, key : Keys, plan : Plans, issues : Seq(Issue)]

RowsTyped ==
  /\ profile \in Profiles /\ approved \subseteq Revisions
  /\ DOMAIN renders \subseteq Keys /\ renders \in [DOMAIN renders -> Renders]

(* A plan that a request carries fits the revision it was read for.        *)
RequestsFit ==
  /\ req \in [Calls -> {New, Over} \cup Working]
  /\ \A q \in Calls : req[q] \in Working =>
       req[q].plan.refs \subseteq SectionsOf[req[q].key.revision]

RendersInv == RowsTyped /\ RequestsFit /\ RendersAreSound

RuntimeAndRendersInv == RuntimeInv /\ RendersInv

-----------------------------------------------------------------------------
(* Slots                                                                   *)

LEMMA SlotCount == MaxSlots \in Nat /\ MaxSlots > 0 /\ 0 \in 0..MaxSlots
  BY RuntimeAssumption

LEMMA SlotNumbers ==
  ASSUME SlotsWithin
  PROVE  Cardinality(CallSlots) \in Nat /\ Cardinality(CloserSlots) \in Nat
  BY FS_CardinalityType DEF SlotsWithin

(* A close holds its slots one by one: as many as its counter says.        *)
LEMMA HeldAreSlots ==
  ASSUME SlotsTyped, SlotsWithin, NEW k \in Closers
  PROVE  held[k] <= Cardinality(CloserSlots)
  <1> DEFINE f == [i \in 1..held[k] |-> <<k, i>>]
  <1>1. held[k] \in 0..MaxSlots
    BY DEF SlotsTyped
  <1>2. \A i \in 1..held[k] : <<k, i>> \in CloserSlots
    BY <1>1, SlotCount DEF CloserSlots
  <1>3. f \in [1..held[k] -> CloserSlots]
    BY <1>2
  <1>4. \A i, j \in 1..held[k] : f[i] = f[j] => i = j
    OBVIOUS
  <1>5. f \in Injection(1..held[k], CloserSlots)
    BY <1>3, <1>4 DEF Injection, IsInjective
  <1>6. Cardinality(1..held[k]) <= Cardinality(CloserSlots)
    BY <1>5, FS_Injection DEF SlotsWithin
  <1>7. Cardinality(1..held[k]) = held[k]
    BY <1>1, SlotCount, FS_Interval
  <1>8. QED
    BY <1>6, <1>7

(* A close that has all slots is alone.                                    *)
LEMMA DrainedIsAlone ==
  ASSUME SlotsTyped, SlotsWithin, NEW k \in Closers, held[k] = MaxSlots
  PROVE  ~(Free > 0) /\ \A c \in Calls : call[c] \notin Holding
  <1>1. MaxSlots <= Cardinality(CloserSlots)
    BY HeldAreSlots
  <1>2. Cardinality(CallSlots) = 0 /\ ~(Free > 0)
    BY <1>1, SlotNumbers, SlotCount DEF SlotsWithin, Free
  <1>3. CallSlots = {}
    BY <1>2, FS_EmptySet DEF SlotsWithin
  <1>4. QED
    BY <1>2, <1>3 DEF CallSlots

LEMMA SlotsShrink ==
  ASSUME SlotsWithin, CallSlots' \subseteq CallSlots, CloserSlots' \subseteq CloserSlots
  PROVE  SlotsWithin'
  <1>1. IsFiniteSet(CallSlots') /\ Cardinality(CallSlots') <= Cardinality(CallSlots)
    BY FS_Subset DEF SlotsWithin
  <1>2. IsFiniteSet(CloserSlots') /\ Cardinality(CloserSlots') <= Cardinality(CloserSlots)
    BY FS_Subset DEF SlotsWithin
  <1>3. Cardinality(CallSlots') \in Nat /\ Cardinality(CloserSlots') \in Nat
    BY <1>1, <1>2, FS_CardinalityType
  <1>4. QED
    BY <1>1, <1>2, <1>3, SlotNumbers, SlotCount DEF SlotsWithin

-----------------------------------------------------------------------------
(* Steps of the adapter                                                    *)

LEMMA RuntimeInitially ==
  ASSUME RuntimeInit
  PROVE  RuntimeInv
  <1>1. SlotsTyped
    BY SlotCount DEF RuntimeInit, SlotsTyped
  <1>2. CallSlots = {} /\ CloserSlots = {}
    BY SlotCount DEF RuntimeInit, CallSlots, CloserSlots, Holding
  <1>3. SlotsWithin
    BY <1>2, SlotCount, FS_EmptySet DEF SlotsWithin
  <1>4. ClosesDrain /\ ClosedByClose /\ RunningIsOpen
    BY DEF RuntimeInit, ClosesDrain, ClosedByClose, RunningIsOpen
  <1>5. QED
    BY <1>1, <1>3, <1>4 DEF RuntimeInv

LEMMA AskKeeps ==
  ASSUME RuntimeInv, NEW c \in Calls, Ask(c)
  PROVE  RuntimeInv'
  <1>1. SlotsTyped'
    BY DEF RuntimeInv, SlotsTyped, Ask
  <1>2. CallSlots' = CallSlots /\ CloserSlots' = CloserSlots
    BY DEF RuntimeInv, SlotsTyped, Ask, CallSlots, CloserSlots, Holding
  <1>3. SlotsWithin'
    BY <1>2, SlotsShrink DEF RuntimeInv
  <1>4. ClosesDrain' /\ ClosedByClose' /\ RunningIsOpen'
    BY DEF RuntimeInv, SlotsTyped, ClosesDrain, ClosedByClose, RunningIsOpen, Ask, Using
  <1>5. QED
    BY <1>1, <1>3, <1>4 DEF RuntimeInv

(* However a call ends, it gives its slot back.                            *)
LEMMA LeaveKeeps ==
  ASSUME RuntimeInv, NEW c \in Calls, Leave(c)
  PROVE  RuntimeInv'
  <1>1. SlotsTyped'
    BY DEF RuntimeInv, SlotsTyped, Leave
  <1>2. CallSlots' \subseteq CallSlots /\ CloserSlots' \subseteq CloserSlots
    BY DEF RuntimeInv, SlotsTyped, Leave, CallSlots, CloserSlots, Holding
  <1>3. SlotsWithin'
    BY <1>2, SlotsShrink DEF RuntimeInv
  <1>4. ClosesDrain' /\ ClosedByClose' /\ RunningIsOpen'
    BY DEF RuntimeInv, SlotsTyped, ClosesDrain, ClosedByClose, RunningIsOpen, Leave, Using
  <1>5. QED
    BY <1>1, <1>3, <1>4 DEF RuntimeInv

(* A slot is granted only while one is free, which none is while a close   *)
(* holds them all.                                                         *)
LEMMA GrantKeeps ==
  ASSUME RuntimeInv, Grant
  PROVE  RuntimeInv'
  <1> DEFINE p == Head(queue)
  <1>0. /\ Free > 0 /\ UNCHANGED <<closer, closed, client>>
        /\ IF p \in Calls
           THEN call' = [call EXCEPT ![p] = "admitted"] /\ UNCHANGED held
           ELSE held' = [held EXCEPT ![p] = @ + 1] /\ UNCHANGED call
    BY DEF Grant
  <1> HIDE DEF p
  <1>1. Cardinality(CallSlots) + Cardinality(CloserSlots) < MaxSlots
    BY <1>0, SlotNumbers, SlotCount DEF Free, RuntimeInv
  <1>2. \A k \in Closers : closer[k] # "closing"
    BY <1>0, DrainedIsAlone DEF RuntimeInv, ClosesDrain
  <1>3. CASE p \in Calls
    <2>1. SlotsTyped'
      BY <1>0, <1>3 DEF RuntimeInv, SlotsTyped, Holding
    <2>2. CallSlots' = CallSlots \cup {p} /\ CloserSlots' = CloserSlots
      BY <1>0, <1>3 DEF RuntimeInv, SlotsTyped, CallSlots, CloserSlots, Holding
    <2>3. SlotsWithin'
      BY <1>1, <2>2, SlotNumbers, SlotCount, FS_AddElement DEF RuntimeInv, SlotsWithin
    <2>4. ClosesDrain' /\ ClosedByClose' /\ RunningIsOpen'
      BY <1>0, <1>2, <1>3
      DEF RuntimeInv, SlotsTyped, ClosesDrain, ClosedByClose, RunningIsOpen, Using
    <2>5. QED
      BY <2>1, <2>3, <2>4 DEF RuntimeInv
  <1>4. CASE p \notin Calls
    <2>1. ClosesDrain' /\ ClosedByClose' /\ RunningIsOpen'
      BY <1>0, <1>2, <1>4
      DEF RuntimeInv, SlotsTyped, ClosesDrain, ClosedByClose, RunningIsOpen, Using
    <2>2. SlotsTyped' /\ SlotsWithin'
      <3>1. CASE p \in Closers
        <4>1. held[p] \in 0..MaxSlots /\ held[p] < MaxSlots
          BY <1>1, <3>1, HeldAreSlots, SlotNumbers, SlotCount DEF RuntimeInv, SlotsTyped
        <4>2. SlotsTyped'
          BY <1>0, <1>4, <3>1, <4>1, SlotCount DEF RuntimeInv, SlotsTyped
        <4>3. CallSlots' = CallSlots
          BY <1>0, <1>4 DEF CallSlots
        <4>4. CloserSlots' \subseteq CloserSlots \cup {<<p, held[p] + 1>>}
          BY <1>0, <1>4, <3>1, <4>1, SlotCount DEF RuntimeInv, SlotsTyped, CloserSlots
        <4>5. /\ IsFiniteSet(CloserSlots \cup {<<p, held[p] + 1>>})
              /\ Cardinality(CloserSlots \cup {<<p, held[p] + 1>>})
                   <= Cardinality(CloserSlots) + 1
          <5>1. /\ IsFiniteSet(CloserSlots) /\ Cardinality(CloserSlots) \in Nat
            BY SlotNumbers DEF RuntimeInv, SlotsWithin
          <5>2. PICK s : s = <<p, held[p] + 1>>
            OBVIOUS
          <5>3. IsFiniteSet(CloserSlots \cup {s})
                /\ Cardinality(CloserSlots \cup {s}) =
                     IF s \in CloserSlots THEN Cardinality(CloserSlots)
                     ELSE Cardinality(CloserSlots) + 1
            BY <5>1, FS_AddElement
          <5>4. IsFiniteSet(CloserSlots \cup {s})
                /\ Cardinality(CloserSlots \cup {s}) <= Cardinality(CloserSlots) + 1
            BY <5>1, <5>3
          <5>5. QED
            BY <5>2, <5>4
        <4>6. /\ IsFiniteSet(CloserSlots') /\ Cardinality(CloserSlots') \in Nat
              /\ Cardinality(CloserSlots')
                   <= Cardinality(CloserSlots \cup {<<p, held[p] + 1>>})
          BY <4>4, <4>5, FS_Subset, FS_CardinalityType
        <4>7. Cardinality(CloserSlots \cup {<<p, held[p] + 1>>}) \in Nat
          BY <4>5, FS_CardinalityType
        <4>8. SlotsWithin'
          BY <1>1, <4>3, <4>5, <4>6, <4>7, SlotNumbers, SlotCount DEF RuntimeInv, SlotsWithin
        <4>9. QED
          BY <4>2, <4>8
      <3>2. CASE p \notin Closers
        <4>1. held' = held /\ call' = call
          BY <1>0, <1>4, <3>2 DEF RuntimeInv, SlotsTyped
        <4>2. SlotsTyped' /\ CallSlots' = CallSlots /\ CloserSlots' = CloserSlots
          BY <1>0, <4>1 DEF RuntimeInv, SlotsTyped, CallSlots, CloserSlots
        <4>3. QED
          BY <4>2, SlotsShrink DEF RuntimeInv
      <3>3. QED
        BY <3>1, <3>2
    <2>3. QED
      BY <2>1, <2>2 DEF RuntimeInv
  <1>5. QED
    BY <1>3, <1>4

(* A call gets the client only while no close has begun.                   *)
LEMMA ResolveKeeps ==
  ASSUME RuntimeInv, NEW c \in Calls, Resolve(c) \/ Built(c)
  PROVE  RuntimeInv'
  <1>1. SlotsTyped'
    BY DEF RuntimeInv, SlotsTyped, Resolve, Built, Holding
  <1>2. CallSlots' = CallSlots /\ CloserSlots' = CloserSlots
    BY DEF RuntimeInv, SlotsTyped, Resolve, Built, CallSlots, CloserSlots, Holding
  <1>3. SlotsWithin'
    BY <1>2, SlotsShrink DEF RuntimeInv
  <1>4. CASE Resolve(c)
    BY <1>1, <1>3, <1>4
    DEF RuntimeInv, SlotsTyped, ClosesDrain, ClosedByClose, RunningIsOpen, Resolve, Using
  <1>5. CASE Built(c)
    BY <1>1, <1>3, <1>5
    DEF RuntimeInv, SlotsTyped, ClosesDrain, ClosedByClose, RunningIsOpen, Built, Using
  <1>6. QED
    BY <1>4, <1>5

LEMMA CloseKeeps ==
  ASSUME RuntimeInv, NEW k \in Closers, CloseStep(k)
  PROVE  RuntimeInv'
  <1>1. SlotsTyped'
    BY SlotCount DEF RuntimeInv, SlotsTyped, CloseStep, CloseBegins, LockShutdown,
       DrainNext, Drained, CloseClient, CancelClose
  <1>2. call' = call /\ CallSlots' = CallSlots
    BY DEF CloseStep, CloseBegins, LockShutdown, DrainNext, Drained, CloseClient,
       CancelClose, CallSlots
  <1>3. held' = held \/ held' = [held EXCEPT ![k] = 0]
    BY DEF CloseStep, CloseBegins, LockShutdown, DrainNext, Drained, CloseClient,
       CancelClose
  <1>4. CloserSlots' \subseteq CloserSlots
    BY <1>3, SlotCount DEF RuntimeInv, SlotsTyped, CloserSlots
  <1>5. SlotsWithin'
    BY <1>2, <1>4, SlotsShrink DEF RuntimeInv
  <1>6. ClosesDrain' /\ ClosedByClose' /\ RunningIsOpen'
    <2>1. CASE CloseBegins(k) \/ LockShutdown(k) \/ DrainNext(k)
      BY <1>2, <2>1 DEF RuntimeInv, SlotsTyped, ClosesDrain, ClosedByClose, RunningIsOpen,
         CloseBegins, LockShutdown, DrainNext
    <2>2. CASE Drained(k)
      <3>1. \A c \in Calls : call[c] \notin Using
        BY <2>2, DrainedIsAlone DEF Drained, RuntimeInv, Holding, Using
      <3>2. QED
        BY <1>2, <2>2, <3>1
        DEF RuntimeInv, SlotsTyped, ClosesDrain, ClosedByClose, RunningIsOpen, Drained
    <2>3. CASE CloseClient(k)
      <3>1. \A c \in Calls : call[c] \notin Using
        BY <2>3 DEF CloseClient, RuntimeInv, ClosesDrain
      <3>2. QED
        BY <1>2, <2>3, <3>1 DEF RuntimeInv, SlotsTyped, ClosesDrain, ClosedByClose,
           RunningIsOpen, CloseClient, Using
    <2>4. CASE CancelClose(k)
      BY <1>2, <2>4 DEF RuntimeInv, SlotsTyped, ClosesDrain, ClosedByClose, RunningIsOpen,
         CancelClose
    <2>5. QED
      BY <2>1, <2>2, <2>3, <2>4 DEF CloseStep
  <1>7. QED
    BY <1>1, <1>5, <1>6 DEF RuntimeInv

LEMMA RuntimeStays ==
  ASSUME RuntimeInv, UNCHANGED runtimeVars
  PROVE  RuntimeInv'
  BY DEF RuntimeInv, runtimeVars, SlotsTyped, SlotsWithin, CallSlots, CloserSlots,
     ClosesDrain, ClosedByClose, RunningIsOpen

LEMMA RuntimeKeeps ==
  ASSUME RuntimeInv, [RendersNext]_rendersVars
  PROVE  RuntimeInv'
  <1>1. ASSUME NEW q \in Calls, MapAnswered(q) \/ ReviewAnswered(q) \/ CallFails(q)
        PROVE  Leave(q)
    BY <1>1 DEF MapAnswered, ReviewAnswered, CallFails, Answer, Fails, Refused, Errs,
       Expires
  <1>2. ASSUME NEW q \in Calls, NEW r \in Revisions,
               Begin(q, r) \/ TooLong(q) \/ Commit(q)
        PROVE  UNCHANGED runtimeVars
    BY <1>2 DEF Begin, TooLong, Commit
  <1>3. ASSUME NEW q \in Calls, CallModel(q) PROVE Ask(q)
    BY <1>3 DEF CallModel
  <1>4. ASSUME \/ \E k \in DOMAIN renders : ApproveRender(k) \/ RejectRender(k)
               \/ \E p \in Profiles : MigrateProfile(p)
               \/ \E r \in Revisions : ApproveRevision(r)
               \/ UNCHANGED rendersVars
        PROVE  UNCHANGED runtimeVars
    BY <1>4 DEF ApproveRender, RejectRender, Resolved, MigrateProfile, ApproveRevision, rendersVars
  <1>5. ASSUME NEW q \in Calls, TooLong(q) \/ Commit(q) PROVE UNCHANGED runtimeVars
    BY <1>5 DEF TooLong, Commit
  <1>6. CASE RuntimeStep
    BY <1>6, GrantKeeps, ResolveKeeps, CloseKeeps DEF RuntimeStep
  <1>7. CASE ~RuntimeStep
    BY <1>1, <1>2, <1>3, <1>4, <1>5, <1>7, LeaveKeeps, AskKeeps, RuntimeStays DEF RendersNext
  <1>8. QED
    BY <1>6, <1>7

-----------------------------------------------------------------------------
(* What the rules of plans and reviews give                                *)

LEMMA NoPlanFits ==
  /\ NoPlan \in Plans /\ <<>> \in Seq(Issue)
  /\ \A r \in Revisions : NoPlan.refs \subseteq SectionsOf[r]
  BY DEF NoPlan, Plans

(* parse_mapping_plan lets no section pass that the revision lacks.        *)
LEMMA ParsedPlansFit ==
  ASSUME NEW r \in Revisions, NEW m \in MappingResults[r], m.plan
  PROVE  /\ m.refs \subseteq SectionsOf[r]
         /\ [refs |-> m.refs, exceptions |-> m.exceptions] \in Plans
  <1>1. PICK x \in MappingResponses : m = ParsePlan(x, SectionsOf[r])
    BY DEF MappingResults, Broken
  <1>2. /\ x.refs \subseteq SectionsOf[r]
        /\ m = [plan |-> TRUE, refs |-> x.refs, exceptions |-> x.exceptions]
    BY <1>1 DEF ParsePlan, Broken
  <1>3. m.refs = x.refs /\ m.exceptions = x.exceptions /\ x.exceptions \in ExceptionLists
    BY <1>2 DEF MappingResponses
  <1>4. SectionsOf[r] \subseteq RenderSections
    BY DEF RenderSections
  <1>5. QED
    BY <1>2, <1>3, <1>4 DEF Plans

LEMMA IssuesAreListed ==
  ASSUME NEW plan \in Plans, NEW lost \in BOOLEAN, NEW issues \in IssueLists
  PROVE  AllIssues(plan, lost, issues) \in Seq(Issue)
  <1>1. plan.exceptions \in Seq(Issue) /\ issues \in Seq(Issue)
    <2>1. plan.exceptions \in ExceptionLists \/ plan.exceptions = <<>>
      BY DEF Plans
    <2>2. ExceptionLists \subseteq Seq(Issue) /\ IssueLists \subseteq Seq(Issue)
      BY RendersAssumption
    <2>3. QED
      BY <2>1, <2>2, NoPlanFits
  <1>2. RowsLost \in Issue
    BY RendersAssumption DEF RowsLost, Issue
  <1>3. QED
    BY <1>1, <1>2 DEF AllIssues

(* A review without a blocker among the issues that are kept hides one     *)
(* only behind an earlier issue of its code, or past the last that is kept.*)
LEMMA KeptIssues ==
  ASSUME NEW s \in Seq(Issue), \A x \in MergeIssues(s) : ~IsBlocker(x)
  PROVE  \A i \in DOMAIN s : IsBlocker(s[i]) =>
           \/ \E j \in 1..(i - 1) : s[j].code = s[i].code
           \/ i > MaxIssues
  <1> SUFFICES ASSUME NEW i \in DOMAIN s, IsBlocker(s[i]), i \in FirstOfCode(s)
               PROVE  i > MaxIssues
    BY DEF FirstOfCode
  <1> DEFINE upto == {j \in FirstOfCode(s) : j <= i}
  <1>1. i \in Nat /\ upto \subseteq 1..i
    BY DEF FirstOfCode
  <1>2. IsFiniteSet(1..i) /\ Cardinality(1..i) = i
    BY <1>1, FS_Interval
  <1>3. Cardinality(upto) <= i /\ IsFiniteSet(upto)
    BY <1>1, <1>2, FS_Subset
  <1>4. Cardinality(upto) \in Nat
    BY <1>3, FS_CardinalityType
  <1>5. ~(Cardinality(upto) <= MaxIssues)
    BY DEF MergeIssues
  <1>6. QED
    BY <1>1, <1>3, <1>4, <1>5, RendersAssumption

-----------------------------------------------------------------------------
(* Steps of the requests                                                   *)

LEMMA RendersInitially ==
  ASSUME RendersInit
  PROVE  RendersInv
  <1>1. RowsTyped
    BY RendersAssumption DEF RendersInit, RowsTyped
  <1>2. RequestsFit
    <2>1. New \notin Working
      BY DEF New, Working, Phases
    <2>2. QED
      BY <2>1 DEF RendersInit, RequestsFit
  <1>3. RendersAreSound
    BY DEF RendersInit, RendersAreSound, BlockersStopApproval, PlansFitTheirRevision
  <1>4. QED
    BY <1>1, <1>2, <1>3 DEF RendersInv

LEMMA SameRows ==
  ASSUME RendersInv, UNCHANGED <<profile, approved, renders>>, RequestsFit'
  PROVE  RendersInv'
  BY DEF RendersInv, RowsTyped, RendersAreSound, BlockersStopApproval,
     PlansFitTheirRevision

LEMMA EnterKeeps ==
  ASSUME RendersInv, UNCHANGED <<profile, approved, renders>>,
         NEW q \in Calls, NEW phase \in Phases, NEW key \in Keys, NEW plan \in Plans,
         NEW issues \in Seq(Issue), plan.refs \subseteq SectionsOf[key.revision],
         Enter(q, phase, key, plan, issues)
  PROVE  RendersInv'
  <1> DEFINE x == [phase |-> phase, key |-> key, plan |-> plan, issues |-> issues]
  <1>1. x \in Working /\ x.plan = plan /\ x.key = key
    BY DEF Working
  <1>2. req' = [req EXCEPT ![q] = x]
    BY DEF Enter
  <1> HIDE DEF x
  <1>3. RequestsFit'
    BY <1>1, <1>2 DEF RendersInv, RequestsFit
  <1>4. QED
    BY <1>3, SameRows

LEMMA FinishedIsDone == Over \notin Working /\ New \notin Working
  BY DEF Over, New, Working, Phases

LEMMA FinishKeeps ==
  ASSUME RendersInv, UNCHANGED <<profile, approved, renders>>,
         NEW q \in Calls, Finish(q)
  PROVE  RendersInv'
  <1>1. RequestsFit'
    BY FinishedIsDone DEF Finish, RendersInv, RequestsFit
  <1>2. QED
    BY <1>1, SameRows

LEMMA RenderedKeeps ==
  ASSUME RendersInv, UNCHANGED <<profile, approved, renders>>,
         NEW q \in Calls, NEW key \in Keys, NEW plan \in Plans,
         plan.refs \subseteq SectionsOf[key.revision], Rendered(q, key, plan)
  PROVE  RendersInv'
  <1>1. "review" \in Phases
    BY DEF Phases
  <1>2. CASE Enter(q, "review", key, plan, <<>>)
    BY <1>1, <1>2, NoPlanFits, EnterKeeps
  <1>3. CASE Finish(q)
    BY <1>3, FinishKeeps
  <1>4. QED
    BY <1>2, <1>3 DEF Rendered

(* A plan that is reused was approved for another revision, and is checked *)
(* against this one.                                                       *)
LEMMA BeginKeeps ==
  ASSUME RendersInv, NEW q \in Calls, NEW r \in Revisions, Begin(q, r)
  PROVE  RendersInv'
  <1>0. [profile |-> profile, revision |-> r] \in Keys
    BY DEF RendersInv, RowsTyped, Keys
  <1>1. PICK key \in Keys : key = [profile |-> profile, revision |-> r] /\ key.revision = r
    BY <1>0
  <1>2. UNCHANGED <<profile, approved, renders>>
    BY DEF Begin
  <1>3. CASE Finish(q)
    BY <1>2, <1>3, FinishKeeps
  <1>4. CASE Enter(q, "map", key, NoPlan, <<>>)
    <2>1. "map" \in Phases /\ NoPlan.refs \subseteq SectionsOf[key.revision]
      BY <1>1, NoPlanFits DEF Phases
    <2>2. QED
      BY <1>2, <1>4, <2>1, NoPlanFits, EnterKeeps
  <1>5. ASSUME NEW k \in Reusable, ReusedPlanFits(renders[k].plan, SectionsOf[r]),
               Rendered(q, key, renders[k].plan)
        PROVE  RendersInv'
    <2>1. PICK plan \in Plans : plan = renders[k].plan
      BY DEF Reusable, RendersInv, RowsTyped, Renders
    <2>2. plan.refs \subseteq SectionsOf[key.revision] /\ Rendered(q, key, plan)
      BY <1>1, <1>5, <2>1 DEF ReusedPlanFits
    <2>3. QED
      BY <1>2, <2>2, RenderedKeeps
  <1>6. QED
    BY <1>1, <1>3, <1>4, <1>5 DEF Begin

LEMMA WorkingRequest ==
  ASSUME RendersInv, NEW q \in Calls, req[q].phase \in Phases
  PROVE  /\ req[q] \in Working
         /\ req[q].plan.refs \subseteq SectionsOf[req[q].key.revision]
  BY DEF RendersInv, RequestsFit, New, Over, Phases

LEMMA MapAnsweredKeeps ==
  ASSUME RendersInv, NEW q \in Calls, MapAnswered(q)
  PROVE  RendersInv'
  <1>1. req[q].phase \in Phases /\ UNCHANGED <<profile, approved, renders>>
    BY DEF MapAnswered, Phases
  <1>2. PICK key \in Keys : key = req[q].key /\ key.revision \in Revisions
    BY <1>1, WorkingRequest DEF Working, Keys
  <1>3. PICK m \in MappingResults[key.revision] :
          IF m.plan
          THEN Rendered(q, key, [refs |-> m.refs, exceptions |-> m.exceptions])
          ELSE Enter(q, "repair", key, NoPlan, <<>>) \/ Finish(q)
    BY <1>2 DEF MapAnswered
  <1>4. CASE m.plan
    <2>1. PICK plan \in Plans : /\ plan = [refs |-> m.refs, exceptions |-> m.exceptions]
                               /\ plan.refs \subseteq SectionsOf[key.revision]
      <3>1. /\ m.refs \subseteq SectionsOf[key.revision]
            /\ [refs |-> m.refs, exceptions |-> m.exceptions] \in Plans
        BY <1>2, <1>4, ParsedPlansFit
      <3>2. [refs |-> m.refs, exceptions |-> m.exceptions].refs = m.refs
        OBVIOUS
      <3>3. QED
        BY <3>1, <3>2
    <2>2. Rendered(q, key, plan)
      BY <1>3, <1>4, <2>1
    <2>3. QED
      BY <1>1, <2>1, <2>2, RenderedKeeps
  <1>5. CASE Enter(q, "repair", key, NoPlan, <<>>)
    <2>1. "repair" \in Phases /\ NoPlan.refs \subseteq SectionsOf[key.revision]
      BY <1>2, NoPlanFits DEF Phases
    <2>2. QED
      BY <1>1, <1>5, <2>1, NoPlanFits, EnterKeeps
  <1>6. CASE Finish(q)
    BY <1>1, <1>6, FinishKeeps
  <1>7. QED
    BY <1>3, <1>4, <1>5, <1>6

LEMMA ReviewAnsweredKeeps ==
  ASSUME RendersInv, NEW q \in Calls, ReviewAnswered(q)
  PROVE  RendersInv'
  <1>1. req[q].phase \in Phases /\ UNCHANGED <<profile, approved, renders>>
    BY DEF ReviewAnswered, Phases
  <1>2. PICK key \in Keys, plan \in Plans :
          /\ key = req[q].key /\ plan = req[q].plan
          /\ plan.refs \subseteq SectionsOf[key.revision]
    BY <1>1, WorkingRequest DEF Working
  <1>3. CASE Finish(q)
    BY <1>1, <1>3, FinishKeeps
  <1>4. ASSUME NEW lost \in BOOLEAN, NEW issues \in IssueLists,
               Enter(q, "commit", key, plan, AllIssues(plan, lost, issues))
        PROVE  RendersInv'
    <2>1. "commit" \in Phases /\ AllIssues(plan, lost, issues) \in Seq(Issue)
      BY IssuesAreListed DEF Phases
    <2>2. QED
      BY <1>1, <1>2, <1>4, <2>1, EnterKeeps
  <1>5. QED
    BY <1>2, <1>3, <1>4 DEF ReviewAnswered

(* A render is kept as it was reviewed and is not approved yet.            *)
LEMMA CommitKeeps ==
  ASSUME RendersInv, NEW q \in Calls, Commit(q)
  PROVE  RendersInv'
  <1>1. req[q].phase \in Phases /\ Finish(q) /\ UNCHANGED <<profile, approved>>
    BY DEF Commit, Phases
  <1>2. CASE renders' = renders
    BY <1>1, <1>2, FinishKeeps
  <1>3. CASE renders' # renders
    <2>1. PICK key \in Keys, plan \in Plans, issues \in Seq(Issue) :
            /\ key = req[q].key /\ plan = req[q].plan /\ issues = req[q].issues
            /\ plan.refs \subseteq SectionsOf[key.revision]
      BY <1>1, WorkingRequest DEF Working
    <2>2. PICK row \in Renders :
            /\ row = [plan |-> plan, issues |-> issues,
                      status |-> RenderStatus(plan, issues)]
            /\ row.plan = plan /\ row.status # "approved"
      <3>1. PICK status \in {"awaiting_approval", "review_failed"} :
              status = RenderStatus(plan, issues)
        BY DEF RenderStatus
      <3>2. [plan |-> plan, issues |-> issues, status |-> status] \in Renders
        BY DEF Renders
      <3>3. QED
        BY <3>1, <3>2
    <2>3. renders' = [k \in DOMAIN renders \cup {key} |->
                        IF k = key THEN row ELSE renders[k]]
          /\ key \notin DOMAIN renders
      BY <1>3, <2>1, <2>2 DEF Commit
    <2>4. /\ DOMAIN renders' = DOMAIN renders \cup {key} /\ renders'[key] = row
          /\ \A k \in DOMAIN renders : renders'[k] = renders[k]
      BY <2>3
    <2>5. RowsTyped'
      BY <1>1, <2>3 DEF RendersInv, RowsTyped
    <2>6. RequestsFit'
      BY <1>1, FinishedIsDone DEF Finish, RendersInv, RequestsFit
    <2>7. PlansFitTheirRevision'
      BY <2>1, <2>2, <2>4 DEF RendersInv, RendersAreSound, PlansFitTheirRevision
    <2>8. BlockersStopApproval'
      BY <2>2, <2>4 DEF RendersInv, RendersAreSound, BlockersStopApproval
    <2>9. QED
      BY <2>5, <2>6, <2>7, <2>8 DEF RendersInv, RendersAreSound
  <1>4. QED
    BY <1>2, <1>3

-----------------------------------------------------------------------------
(* Steps of the reviewer and of the workspace                              *)

LEMMA ResolvedKeeps ==
  ASSUME RendersInv, NEW k \in DOMAIN renders, ApproveRender(k) \/ RejectRender(k)
  PROVE  RendersInv'
  <1>1. PICK status \in {"approved", "rejected"} :
          /\ Resolved(k, status)
          /\ status = "approved" => ~HasBlocker(renders[k].plan, renders[k].issues)
    BY DEF ApproveRender, RejectRender
  <1>2. renders' = [renders EXCEPT ![k].status = status]
        /\ UNCHANGED <<profile, approved, req>>
    BY <1>1 DEF Resolved
  <1>3. renders[k] \in Renders
    BY DEF RendersInv, RowsTyped
  <1>4. PICK row \in Renders :
          /\ row = [renders[k] EXCEPT !.status = status] /\ row.status = status
          /\ row.plan = renders[k].plan /\ row.issues = renders[k].issues
    <2>1. [renders[k] EXCEPT !.status = status] \in Renders
      BY <1>3 DEF Renders
    <2>2. /\ [renders[k] EXCEPT !.status = status].status = status
          /\ [renders[k] EXCEPT !.status = status].plan = renders[k].plan
          /\ [renders[k] EXCEPT !.status = status].issues = renders[k].issues
      BY <1>3 DEF Renders
    <2>3. QED
      BY <2>1, <2>2
  <1>5. /\ DOMAIN renders' = DOMAIN renders /\ renders'[k] = row
        /\ renders' = [renders EXCEPT ![k] = row]
        /\ \A j \in DOMAIN renders \ {k} : renders'[j] = renders[j]
    BY <1>2, <1>4 DEF RendersInv, RowsTyped
  <1>6. RowsTyped'
    BY <1>2, <1>5 DEF RendersInv, RowsTyped
  <1>7. RequestsFit'
    BY <1>2 DEF RendersInv, RequestsFit
  <1>8. PlansFitTheirRevision'
    BY <1>4, <1>5 DEF RendersInv, RendersAreSound, PlansFitTheirRevision
  <1>9. BlockersStopApproval'
    <2> SUFFICES ASSUME NEW j \in DOMAIN renders, renders'[j].status = "approved"
                 PROVE  LET s == renders'[j].issues
                        IN  /\ ~PlanHasBlocker(renders'[j].plan)
                            /\ \A i \in DOMAIN s : IsBlocker(s[i]) =>
                                 \/ \E n \in 1..(i - 1) : s[n].code = s[i].code
                                 \/ i > MaxIssues
      BY <1>5 DEF BlockersStopApproval
    <2>1. CASE j # k
      BY <1>5, <2>1 DEF RendersInv, RendersAreSound, BlockersStopApproval
    <2>2. CASE j = k
      <3>1. /\ ~PlanHasBlocker(row.plan)
            /\ \A x \in MergeIssues(row.issues) : ~IsBlocker(x)
        BY <1>1, <1>4, <1>5, <2>2 DEF HasBlocker
      <3>2. row.issues \in Seq(Issue)
        BY DEF Renders
      <3>3. \A i \in DOMAIN row.issues : IsBlocker(row.issues[i]) =>
              \/ \E n \in 1..(i - 1) : row.issues[n].code = row.issues[i].code
              \/ i > MaxIssues
        BY <3>1, <3>2, KeptIssues
      <3>4. QED
        BY <1>5, <2>2, <3>1, <3>3
    <2>3. QED
      BY <2>1, <2>2
  <1>10. QED
    BY <1>6, <1>7, <1>8, <1>9 DEF RendersInv, RendersAreSound

LEMMA WorkspaceKeeps ==
  ASSUME RendersInv, profile' \in Profiles, approved' \subseteq Revisions,
         UNCHANGED <<req, renders>>
  PROVE  RendersInv'
  BY DEF RendersInv, RowsTyped, RequestsFit, RendersAreSound, BlockersStopApproval,
     PlansFitTheirRevision

LEMMA RendersKeep ==
  ASSUME RendersInv, [RendersNext]_rendersVars
  PROVE  RendersInv'
  <1>1. ASSUME NEW q \in Calls, TooLong(q) \/ CallFails(q)
        PROVE  RendersInv'
    BY <1>1, FinishKeeps DEF TooLong, CallFails
  <1>2. ASSUME \/ UNCHANGED renderVars
               \/ \E q \in Calls : CallModel(q)
               \/ \E p \in Profiles : MigrateProfile(p)
               \/ \E r \in Revisions : ApproveRevision(r)
        PROVE  RendersInv'
    BY <1>2, WorkspaceKeeps
    DEF renderVars, CallModel, MigrateProfile, ApproveRevision, RendersInv, RowsTyped
  <1>3. CASE UNCHANGED rendersVars
    BY <1>2, <1>3 DEF rendersVars, renderVars
  <1>4. QED
    BY <1>1, <1>2, <1>3, BeginKeeps, MapAnsweredKeeps, ReviewAnsweredKeeps, CommitKeeps,
       ResolvedKeeps DEF RendersNext

-----------------------------------------------------------------------------
(* Theorems                                                                *)

(* The strengthened invariant holds of every reachable state: the slots    *)
(* are counted, a close that drained the adapter is alone with its client, *)
(* and what a request carries fits the revision it read.                   *)
THEOREM RendersInvariant == RendersSpec => []RuntimeAndRendersInv
  <1>1. RendersInit => RuntimeAndRendersInv
    BY RuntimeInitially, RendersInitially DEF RendersInit, RuntimeAndRendersInv
  <1>2. RuntimeAndRendersInv /\ [RendersNext]_rendersVars => RuntimeAndRendersInv'
    BY RuntimeKeeps, RendersKeep DEF RuntimeAndRendersInv
  <1>3. QED
    BY <1>1, <1>2, PTL DEF RendersSpec

(* The client outlives the calls that use it: no call runs on a client     *)
(* that is closed, and a close that returned leaves none open, however     *)
(* calls, deadlines, cancelled closes and further closes interleave        *)
(* (model_runtime.py, aclose and _resolve_model).                          *)
THEOREM RendersTransport == RendersSpec => []TransportOutlivesCalls
  <1>1. RuntimeAndRendersInv => TransportOutlivesCalls
    BY DEF RuntimeAndRendersInv, RuntimeInv, ClosesDrain, RunningIsOpen, TransportOutlivesCalls
  <1>2. QED
    BY <1>1, RendersInvariant, PTL

(* No blocker of an approved render was kept from its reviewer by anything *)
(* but the merging of issues, and every render places only sections of its *)
(* own revision, also when its plan was made for another                   *)
(* (create_agency_docx_render, approve_agency_docx_render).                *)
THEOREM RendersStaySound == RendersSpec => []RendersAreSound
  <1>1. RuntimeAndRendersInv => RendersAreSound
    BY DEF RuntimeAndRendersInv, RendersInv
  <1>2. QED
    BY <1>1, RendersInvariant, PTL
=============================================================================
