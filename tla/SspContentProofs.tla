-------------------------- MODULE SspContentProofs --------------------------
(* Proofs about SspContent for every set of profile versions, sections,    *)
(* controls, artifacts and questions: confirmed registers are the ISSO's,  *)
(* text of the model has evidence, an approved revision can be exported,   *)
(* and a generation leaves the ISSO's text alone.                          *)
EXTENDS SspContent, TLAPS

-----------------------------------------------------------------------------
(* What the contracts let through                                          *)

LEMMA AcceptedIsParsed ==
  ASSUME NEW parsed, NEW x \in Accepted(Executions(parsed))
  PROVE  x \in parsed /\ x.fault = "none"
  BY DEF Accepted, Executions, Failed, Repairable

LEMMA FirstFaultNone ==
  ASSUME NEW a, NEW b, FirstFault(<<a, b>>) = "none"
  PROVE  (a = NoEntry \/ a.fault = "none") /\ (b = NoEntry \/ b.fault = "none")
  <1> DEFINE entries == <<a, b>>
             bad == {i \in DOMAIN entries : entries[i] # NoEntry /\
                                            entries[i].fault # "none"}
             least == CHOOSE i \in bad : \A j \in bad : i <= j
  <1>1. DOMAIN entries = {1, 2} /\ entries[1] = a /\ entries[2] = b
    OBVIOUS
  <1>2. ASSUME bad # {} PROVE FALSE
    <2>1. \E i \in bad : \A j \in bad : i <= j
      <3>1. bad \subseteq {1, 2}
        BY <1>1
      <3>2. CASE 1 \in bad
        BY <3>1, <3>2
      <3>3. CASE 1 \notin bad
        BY <1>2, <3>1, <3>3
      <3>4. QED
        BY <3>2, <3>3
    <2>2. least \in bad
      BY <2>1
    <2>3. FirstFault(<<a, b>>) = entries[least].fault
      BY <1>2 DEF FirstFault
    <2>4. QED
      BY <2>2, <2>3
  <1>3. QED
    BY <1>1, <1>2

LEMMA FailedFacts ==
  ASSUME NEW f
  PROVE  Failed(f).fault = f /\ "fault" \in DOMAIN Failed(f)
  BY DEF Failed

(* An entry that may reach the merge: one of the profile's, with text only *)
(* where there are facts, which are live.                                  *)
SectionEntry(e, items, live) ==
  e # NoEntry => /\ e.id \in items /\ e.text \in Texts /\ e.facts \subseteq live
                 /\ e.text # "" => e.facts # {}

ControlEntry(e, ids, live) ==
  e # NoEntry => /\ e.id \in ids /\ e.text \in {"", "prose"} /\ e.meta \in BOOLEAN
                 /\ e.facts \subseteq live
                 /\ EvidenceRequired /\ e.text # "" => e.facts # {}

LEMMA NarrativeFacts ==
  ASSUME NEW v, NEW live, NEW n \in NarrativePass(v, live)
  PROVE  /\ SectionEntry(n.section, ItemsOf(v), live)
         /\ n.categorization # NoEntry =>
              n.categorization.facts \subseteq live /\ n.categorization.facts # {}
  <1> DEFINE Parsed(r) == IF "fault" \in DOMAIN r THEN r
                          ELSE ParseNarrative(r, ItemsOf(v), live)
  <1>1. n \in {Parsed(r) : r \in Invoke(NarrativeResponses)} /\ n.fault = "none"
    BY AcceptedIsParsed DEF NarrativePass, OneRepair
  <1>2. PICK r \in Invoke(NarrativeResponses) : n = Parsed(r)
    BY <1>1
  <1>3. r \in [section : {NoEntry} \cup [id : Sections, text : Texts,
                                         facts : SUBSET Artifacts],
               categorization : {NoEntry} \cup Proposal]
    <2>1. ASSUME NEW f \in EnvelopeFaults \cup InvokeFaults, r = Failed(f) PROVE FALSE
      BY <1>1, <1>2, <2>1, FailedFacts DEF EnvelopeFaults, InvokeFaults
    <2>2. QED
      BY <2>1 DEF Invoke, NarrativeResponses
  <1>4. n = ParseNarrative(r, ItemsOf(v), live)
    BY <1>2, <1>3
  <1> DEFINE s == IF r.section = NoEntry THEN NoEntry
                  ELSE ParseSection(r.section, ItemsOf(v), live)
             c == ParseCategorization(r.categorization, live)
  <1>5. FirstFault(<<s, c>>) = "none"
    BY <1>1, <1>4, FailedFacts DEF ParseNarrative
  <1>6. n.section = s /\ n.categorization = c
    BY <1>4, <1>5 DEF ParseNarrative
  <1>7. ASSUME s # NoEntry
        PROVE  /\ s.id \in ItemsOf(v) /\ s.text \in Texts /\ s.facts \subseteq live
               /\ s.text # "" => s.facts # {}
    <2>1. PICK e \in [id : Sections, text : Texts, facts : SUBSET Artifacts] :
            s = ParseSection(e, ItemsOf(v), live)
      BY <1>3, <1>7
    <2>2. s.fault = "none"
      BY <1>5, <1>7, FirstFaultNone
    <2> DEFINE text == IF e.facts = {} THEN "" ELSE e.text
               bad  == text # "" /\ ~ValidContent(e.id, text)
    <2> HIDE DEF s
    <2>3. e.id \in ItemsOf(v) /\ e.facts \subseteq live
      <3>1. ASSUME e.id \notin ItemsOf(v) PROVE FALSE
        BY <2>1, <2>2, <3>1, FailedFacts DEF ParseSection
      <3>2. ASSUME e.id \in ItemsOf(v), ~(e.facts \subseteq live) PROVE FALSE
        BY <2>1, <2>2, <3>2, FailedFacts DEF ParseSection
      <3>3. QED
        BY <3>1, <3>2
    <2>4. \/ s = [fault |-> "none", id |-> e.id, text |-> "", facts |-> {}]
          \/ s = [fault |-> "none", id |-> e.id, text |-> text, facts |-> e.facts]
      <3>1. CASE bad /\ Kind(e.id) # "plain"
        BY <2>1, <2>3, <3>1 DEF ParseSection
      <3>2. CASE bad /\ Kind(e.id) = "plain"
        BY <2>1, <2>2, <2>3, <3>2, FailedFacts DEF ParseSection
      <3>3. CASE ~bad
        BY <2>1, <2>3, <3>3 DEF ParseSection
      <3>4. QED
        BY <3>1, <3>2, <3>3
    <2>5. e.text \in Texts /\ "" \in Texts
      BY DEF Texts
    <2>6. CASE s = [fault |-> "none", id |-> e.id, text |-> "", facts |-> {}]
      BY <2>3, <2>5, <2>6
    <2>7. CASE s = [fault |-> "none", id |-> e.id, text |-> text, facts |-> e.facts]
      BY <2>3, <2>5, <2>7
    <2>8. QED
      BY <2>4, <2>6, <2>7
  <1>8. ASSUME c # NoEntry PROVE c.facts \subseteq live /\ c.facts # {}
    <2>1. c.fault = "none"
      BY <1>5, <1>8, FirstFaultNone
    <2>2. QED
      BY <1>8, <2>1, FailedFacts DEF ParseCategorization
  <1>9. QED
    BY <1>6, <1>7, <1>8 DEF SectionEntry

LEMMA QuestionFacts ==
  ASSUME NEW q, q \in {NoEntry} \cup Question, NEW items, NEW ids,
         NEW p, p = (IF q = NoEntry THEN NoEntry ELSE ParseQuestion(q, items, ids)),
         p = NoEntry \/ p.fault = "none"
  PROVE  p = NoEntry \/ p.id \in Asked
  BY FailedFacts DEF ParseQuestion, Question

LEMMA ControlsFacts ==
  ASSUME NEW v, NEW level, NEW live, NEW k \in ControlPass(v, level, live)
  PROVE  /\ ControlEntry(k.control, Baseline(v, level), live)
         /\ k.question = NoEntry \/ k.question.id \in Asked
  <1> DEFINE ids == Baseline(v, level)
             Parsed(r) == IF "fault" \in DOMAIN r THEN r
                          ELSE ParseControls(r, ItemsOf(v), ids, live)
  <1>1. k \in {Parsed(r) : r \in Invoke(ControlResponses)} /\ k.fault = "none"
    BY AcceptedIsParsed DEF ControlPass, OneRepair
  <1>2. PICK r \in Invoke(ControlResponses) : k = Parsed(r)
    BY <1>1
  <1>3. r \in [control : {NoEntry} \cup
                         [id : Controls, text : {"", "prose", "insert"},
                          meta : BOOLEAN, facts : SUBSET Artifacts],
               question : {NoEntry} \cup Question]
    <2>1. ASSUME NEW f \in EnvelopeFaults \cup InvokeFaults, r = Failed(f) PROVE FALSE
      BY <1>1, <1>2, <2>1, FailedFacts DEF EnvelopeFaults, InvokeFaults
    <2>2. QED
      BY <2>1 DEF Invoke, ControlResponses
  <1>4. k = ParseControls(r, ItemsOf(v), ids, live)
    BY <1>2, <1>3
  <1> DEFINE c == IF r.control = NoEntry THEN NoEntry
                  ELSE ParseControl(r.control, ids, live)
             q == IF r.question = NoEntry THEN NoEntry
                  ELSE ParseQuestion(r.question, ItemsOf(v), ids)
  <1>5. FirstFault(<<c, q>>) = "none"
    BY <1>1, <1>4, FailedFacts DEF ParseControls
  <1>6. k.control = c /\ k.question = q
    BY <1>1, <1>4, <1>5, FailedFacts DEF ParseControls
  <1>7. (c = NoEntry \/ c.fault = "none") /\ (q = NoEntry \/ q.fault = "none")
    BY <1>5, FirstFaultNone
  <1>8. ASSUME c # NoEntry
        PROVE  /\ c.id \in ids /\ c.text \in {"", "prose"} /\ c.meta \in BOOLEAN
               /\ c.facts \subseteq live
               /\ EvidenceRequired /\ c.text # "" => c.facts # {}
    <2>1. PICK e \in [id : Controls, text : {"", "prose", "insert"},
                      meta : BOOLEAN, facts : SUBSET Artifacts] :
            c = ParseControl(e, ids, live)
      BY <1>3, <1>8
    <2>2. c.fault = "none"
      BY <1>7, <1>8
    <2>3. /\ e.id \in ids /\ e.text # "insert" /\ e.facts \subseteq live
          /\ ~(NeedsFacts(e.text, e.meta) /\ e.facts = {})
      BY <2>1, <2>2, FailedFacts DEF ParseControl
    <2>4. c = [fault |-> "none", id |-> e.id, text |-> e.text,
               meta |-> e.meta, facts |-> e.facts]
      BY <2>1, <2>3 DEF ParseControl
    <2> HIDE DEF c, ids
    <2>5. /\ c.id = e.id /\ c.text = e.text /\ c.meta = e.meta /\ c.facts = e.facts
          /\ e.text \in {"", "prose", "insert"} /\ e.meta \in BOOLEAN
      BY <2>4
    <2>6. QED
      BY <2>3, <2>5 DEF NeedsFacts
  <1>9. q = NoEntry \/ q.id \in Asked
    BY <1>3, <1>7, QuestionFacts
  <1>10. QED
    BY <1>6, <1>8, <1>9 DEF ControlEntry

(* A bundle that loads names sections and controls, which never coincide.  *)
LEMMA BundleFacts ==
  ASSUME NEW v \in Versions, Loads(BundleOf[v]), NEW level
  PROVE  /\ ItemsOf(v) \subseteq Sections /\ Baseline(v, level) \subseteq Controls
         /\ ItemsOf(v) \cap Baseline(v, level) = {}
         /\ "none" \notin ItemsOf(v) \cup Baseline(v, level)
  <1>1. ItemsOf(v) \subseteq Sections
    BY ContentAssumption DEF ItemsOf
  <1>2. Baseline(v, level) \subseteq Controls
    BY ContentAssumption DEF Baseline, ControlIdsFor
  <1>3. QED
    BY <1>1, <1>2, ContractsAssumption

(* A patch that reaches a revision changes one of its sections or one of   *)
(* its controls, and its question is one that may be asked.                *)
LEMMA PatchFacts ==
  ASSUME NEW v \in Versions, Loads(BundleOf[v]), NEW level \in Levels,
         NEW live \in SUBSET Artifacts, NEW shown \in SUBSET Asked,
         NEW x \in PatchResults[v][level][live][shown]
  PROVE  /\ x.patch # NoEntry =>
              /\ x.patch.id \in ItemsOf(v) \cup Baseline(v, level)
              /\ x.patch.id \in ItemsOf(v) => x.patch.text \in Texts
              /\ x.patch.id \notin ItemsOf(v) =>
                   x.patch.text \in {"", "prose", "insert", "keep"} /\ x.patch.meta \in BOOLEAN
              /\ x.patch.facts \subseteq live
         /\ x.question = NoEntry \/ x.question.id \in Asked
  <1> DEFINE items == ItemsOf(v)
             ids == Baseline(v, level)
             Parsed(r) == IF "fault" \in DOMAIN r THEN r
                          ELSE ParsePatchResponse(r, items, ids, live, shown)
             sections == [id : Sections, text : Texts,
                          stale : BOOLEAN, facts : SUBSET Artifacts]
             controls == [id : Controls, text : {"", "prose", "insert", "keep"},
                          meta : BOOLEAN, stale : {FALSE}, facts : SUBSET Artifacts]
  <1>1. x \in {Parsed(r) : r \in Invoke(PatchResponses)} /\ x.fault = "none"
    <2>1. x \in Accepted(OneRepair(PatchResponses,
                 LAMBDA r : ParsePatchResponse(r, items, ids, live, shown)))
      BY DEF PatchResults
    <2>2. QED
      BY <2>1, AcceptedIsParsed DEF OneRepair
  <1>2. PICK r \in Invoke(PatchResponses) : x = Parsed(r)
    BY <1>1
  <1>3. r \in [patch : sections \cup controls, question : {NoEntry}, resolve : {{}}] \cup
             [patch : {NoEntry}, question : {NoEntry} \cup Question, resolve : {{}}] \cup
             [patch : {NoEntry}, question : {NoEntry}, resolve : {{t} : t \in Asked}]
    <2>1. ASSUME NEW f \in EnvelopeFaults \cup InvokeFaults, r = Failed(f) PROVE FALSE
      BY <1>1, <1>2, <2>1, FailedFacts DEF EnvelopeFaults, InvokeFaults
    <2>2. QED
      BY <2>1 DEF Invoke, PatchResponses
  <1>4. /\ r.patch = NoEntry \/ r.patch \in sections \cup controls
        /\ r.question \in {NoEntry} \cup Question
        /\ "fault" \notin DOMAIN r
    BY <1>3
  <1>5. x = ParsePatchResponse(r, items, ids, live, shown)
    BY <1>2, <1>4
  <1> DEFINE p == IF r.patch = NoEntry THEN NoEntry
                  ELSE ParsePatch(r.patch, items, ids, live)
             q == IF r.question = NoEntry THEN NoEntry
                  ELSE ParseQuestion(r.question, items, ids)
  <1>6. FirstFault(<<p, q>>) = "none" /\ r.resolve \subseteq shown
    BY <1>1, <1>5, FailedFacts DEF ParsePatchResponse
  <1>7. x.patch = p /\ x.question = q
    BY <1>5, <1>6 DEF ParsePatchResponse
  <1>8. (p = NoEntry \/ p.fault = "none") /\ (q = NoEntry \/ q.fault = "none")
    BY <1>6, FirstFaultNone
  <1>9. q = NoEntry \/ q.id \in Asked
    BY <1>4, <1>8, QuestionFacts
  <1>10. ASSUME p # NoEntry
         PROVE  /\ p.id \in items \cup ids
                /\ p.id \in items => p.text \in Texts
                /\ p.id \notin items =>
                     p.text \in {"", "prose", "insert", "keep"} /\ p.meta \in BOOLEAN
                /\ p.facts \subseteq live
    <2>1. PICK e \in sections \cup controls : p = ParsePatch(e, items, ids, live)
      BY <1>4, <1>10
    <2>2. p.fault = "none"
      BY <1>8, <1>10
    <2> HIDE DEF p, items, ids
    <2>3. e.id \in items \cup ids /\ ~e.stale /\ e.facts \subseteq live
      BY <2>1, <2>2, FailedFacts DEF ParsePatch
    <2>4. CASE e.id \in items
      <3>1. e.id \notin Controls
        BY <2>4, BundleFacts, ContractsAssumption DEF items
      <3>2. e.text \in Texts
        BY <3>1
      <3>3. p = [fault |-> "none", id |-> e.id, facts |-> e.facts,
                 text |-> IF e.facts = {} THEN "" ELSE e.text]
        BY <2>1, <2>2, <2>3, <2>4, FailedFacts DEF ParsePatch
      <3>4. p.id = e.id /\ p.facts = e.facts /\ p.text \in {"", e.text}
        BY <3>3
      <3>5. QED
        BY <2>3, <2>4, <3>2, <3>4 DEF Texts
    <2>5. CASE e.id \notin items
      <3>1. e.id \in Controls
        BY <2>3, <2>5, BundleFacts DEF ids
      <3>2. e \in controls
        BY <3>1, ContractsAssumption
      <3>3. p = [fault |-> "none", id |-> e.id, text |-> e.text, meta |-> e.meta,
                 facts |-> e.facts]
        BY <2>1, <2>2, <2>3, <2>5, FailedFacts DEF ParsePatch
      <3>4. p.id = e.id /\ p.facts = e.facts /\ p.text = e.text /\ p.meta = e.meta
        BY <3>3
      <3>5. QED
        BY <2>3, <2>5, <3>2, <3>4
    <2>6. QED
      BY <2>4, <2>5
  <1>11. QED
    BY <1>7, <1>9, <1>10

LEMMA SuggestionFacts ==
  ASSUME NEW live,
         NEW c \in Accepted(OneRepair(Proposal, LAMBDA e : ParseCategorization(e, live)))
  PROVE  c.facts \subseteq live /\ c.facts # {}
  <1> DEFINE Parsed(r) == IF "fault" \in DOMAIN r THEN r ELSE ParseCategorization(r, live)
  <1>1. c \in {Parsed(r) : r \in Invoke(Proposal)} /\ c.fault = "none"
    BY AcceptedIsParsed DEF OneRepair
  <1>2. PICK r \in Invoke(Proposal) : c = Parsed(r)
    BY <1>1
  <1>3. r \in Proposal
    <2>1. ASSUME NEW f \in InvokeFaults, r = Failed(f) PROVE FALSE
      BY <1>1, <1>2, <2>1, FailedFacts DEF InvokeFaults
    <2>2. QED
      BY <2>1 DEF Invoke
  <1>4. r # NoEntry /\ c = ParseCategorization(r, live)
    BY <1>2, <1>3 DEF Proposal, NoEntry
  <1>5. QED
    BY <1>1, <1>4, FailedFacts DEF ParseCategorization

-----------------------------------------------------------------------------
(* The inductive invariant                                                 *)

(* A confirmation of the ISSO leaves state "edited", an empty section has  *)
(* no text, and text of the model or of a patch has live evidence.         *)
SectionOK(x, live) ==
  /\ x.state = "empty" => x.text = ""
  /\ x.by = "isso" => x.state = "edited"
  /\ x.by \in {"model", "patch"} /\ x.text # "" => x.ev # {} /\ x.ev \subseteq live

(* The same for a control: the ISSO's statement is reviewed, unless a      *)
(* migration or a patch took it out of review.                             *)
ControlOK(x, live) ==
  /\ x.by = "isso" /\ ~x.reopened => x.state = "reviewed"
  /\ EvidenceRequired /\ x.by \in {"model", "patch"} /\ x.text # "" =>
       x.ev # {} /\ x.ev \subseteq live

(* Only versions that load are stored, so the pinned profile is one.       *)
VersionsOK ==
  /\ \A v \in stored : Loads(BundleOf[v])
  /\ version \in stored /\ active \in stored

QuestionsTyped(q) ==
  /\ DOMAIN q \subseteq Asked
  /\ \A t \in DOMAIN q : q[t] \in {"open", "answered", "dismissed"}

QuestionsOK == QuestionsTyped(qs)

(* A confirmed categorization has impacts and evidence until its evidence  *)
(* is removed; the level is known from the first revision on.              *)
ConfirmedHasEvidence ==
  cat.status = "confirmed" /\ ~cut => cat.impacts # "none" /\ cat.ev # {}

CategorizationOK == ImpactLevel(cat) \in Levels /\ ConfirmedHasEvidence

SectionsOK(f) ==
  /\ f \in [Items -> SectionContent]
  /\ \A s \in Items : SectionOK(f[s], facts)

ControlsOK(f) ==
  /\ f \in [Ids -> ControlContent]
  /\ \A c \in Ids : ControlOK(f[c], facts) /\ ValidControl(f[c])

ContentOK == SectionsOK(sec) /\ ControlsOK(ctl)

IInv ==
  /\ TypeOK /\ VersionsOK /\ QuestionsOK /\ CategorizationOK /\ ContentOK
  /\ ConfirmedRegistersStand /\ ApprovedIsExportable

LEMMA InitInvariant == Init => IInv
  <1> SUFFICES ASSUME Init PROVE IInv
    OBVIOUS
  <1>1. version \in Versions /\ Loads(BundleOf[version])
    BY ContentAssumption DEF Init
  <1>2. ImpactLevel(cat) = "low" /\ cat.ev = {} /\ cat.status = "none"
    BY DEF Init, ImpactLevel
  <1>3. EmptySection \in SectionContent /\ EmptyControl \in ControlContent
    BY DEF EmptySection, EmptyControl, SectionContent, ControlContent, Texts
  <1>4. cat \in Categorization
    BY DEF Init, Categorization, Levels
  <1>5. /\ sec = [s \in Items |-> EmptySection]
        /\ ctl = [c \in Baseline(version, ImpactLevel(cat)) |-> EmptyControl]
    BY <1>2 DEF Init, Items
  <1>6. TypeOK
    <2>1. sec \in [Items -> SectionContent]
      BY <1>3, <1>5
    <2>2. ctl \in [Baseline(version, ImpactLevel(cat)) -> ControlContent]
      BY <1>3, <1>5
    <2>3. ASSUME NEW c \in DOMAIN ctl PROVE ValidControl(ctl[c])
      BY <1>5 DEF ValidControl, EmptyControl
    <2>4. DOMAIN qs = {}
      BY DEF Init
    <2>5. QED
      BY <1>1, <1>4, <2>1, <2>2, <2>3, <2>4 DEF Init, TypeOK, Items, ConfirmationStatus
  <1>7. ContentOK
    <2>1. Ids = Baseline(version, ImpactLevel(cat))
      BY <1>5 DEF Ids
    <2>2. SectionsOK(sec)
      BY <1>5, <1>6 DEF SectionsOK, TypeOK, Items, SectionOK, EmptySection
    <2>3. ControlsOK(ctl)
      BY <1>5, <1>6, <2>1
         DEF ControlsOK, TypeOK, ControlOK, ValidControl, EmptyControl
    <2>4. QED
      BY <2>2, <2>3 DEF ContentOK
  <1>8. QuestionsOK
    BY DEF Init, QuestionsOK, QuestionsTyped
  <1>9. QED
    BY <1>1, <1>2, <1>6, <1>7, <1>8
       DEF Init, IInv, VersionsOK, CategorizationOK, ConfirmedHasEvidence,
           ConfirmedRegistersStand, ApprovedIsExportable, Levels

(* What every action reads off the invariant.                              *)
LEMMA StateFacts ==
  ASSUME IInv
  PROVE  /\ version \in Versions /\ Loads(BundleOf[version])
         /\ ImpactLevel(cat) \in Levels /\ facts \in SUBSET Artifacts
         /\ SectionsOK(sec) /\ ControlsOK(ctl)
         /\ DOMAIN sec = Items /\ DOMAIN ctl = Ids
         /\ Ids = Baseline(version, ImpactLevel(cat))
         /\ Items \subseteq Sections /\ Ids \subseteq Controls /\ Items \cap Ids = {}
         /\ "none" \notin Items \cup Ids
         /\ cat \in Categorization
         /\ QuestionsTyped(qs) /\ Open \subseteq Asked /\ Shown \in SUBSET Asked
         /\ def \in ConfirmationStatus /\ inf \in ConfirmationStatus
         /\ patched \in BOOLEAN /\ cut \in BOOLEAN
  <1>1. version \in Versions /\ Loads(BundleOf[version])
    BY DEF IInv, TypeOK, VersionsOK
  <1>2. Ids = Baseline(version, ImpactLevel(cat))
    BY DEF IInv, TypeOK, Ids
  <1>3. QuestionsTyped(qs) /\ Open \subseteq Asked /\ Shown \in SUBSET Asked
    BY DEF IInv, QuestionsOK, QuestionsTyped, Open, Shown
  <1>4. /\ Items \subseteq Sections /\ Ids \subseteq Controls /\ Items \cap Ids = {}
        /\ "none" \notin Items \cup Ids
    BY <1>1, <1>2, BundleFacts DEF Items
  <1>5. QED
    BY <1>1, <1>2, <1>3, <1>4 DEF IInv, TypeOK, CategorizationOK, ContentOK, Items, Ids

(* An operation that takes back the approval keeps the invariant when what *)
(* it writes is in order.                                                  *)
LEMMA RevisionStep ==
  ASSUME IInv, approved' = FALSE, UNCHANGED <<stored, active>>,
         version' \in stored, facts' \in SUBSET Artifacts,
         ContentOK', Ids' = Baseline(version', ImpactLevel(cat')),
         QuestionsTyped(qs'),
         cat' \in Categorization, ImpactLevel(cat') \in Levels, ConfirmedHasEvidence',
         def' \in ConfirmationStatus, inf' \in ConfirmationStatus,
         patched' \in BOOLEAN, cut' \in BOOLEAN,
         ConfirmedRegistersStand'
  PROVE  IInv'
  <1>1. TypeOK'
    <2>1. /\ facts' \subseteq Artifacts /\ version' \in Versions
          /\ active' \in Versions /\ stored' \subseteq Versions
      BY DEF IInv, TypeOK
    <2>2. /\ sec' \in [ItemsOf(version') -> SectionContent]
          /\ ctl' \in [Baseline(version', ImpactLevel(cat')) -> ControlContent]
          /\ \A c \in DOMAIN ctl' : ValidControl(ctl'[c])
      BY DEF ContentOK, SectionsOK, ControlsOK, Items
    <2>3. /\ DOMAIN qs' \subseteq Sections \cup Controls
          /\ \A t \in DOMAIN qs' : qs'[t] \in {"open", "answered", "dismissed"}
      BY ContentAssumption DEF QuestionsTyped
    <2>4. QED
      BY <2>1, <2>2, <2>3 DEF TypeOK
  <1>2. VersionsOK' /\ QuestionsOK' /\ CategorizationOK'
    BY DEF IInv, VersionsOK, QuestionsOK, CategorizationOK
  <1>3. QED
    BY <1>1, <1>2 DEF IInv, ApprovedIsExportable

(* The same for one that stays with the pinned version and the facts.      *)
LEMMA ContentStep ==
  ASSUME IInv, approved' = FALSE, UNCHANGED <<facts, version, stored, active>>,
         SectionsOK(sec'), ControlsOK(ctl'), QuestionsTyped(qs'),
         cat' \in Categorization, ImpactLevel(cat') = ImpactLevel(cat),
         ConfirmedHasEvidence',
         def' \in ConfirmationStatus, inf' \in ConfirmationStatus,
         patched' \in BOOLEAN, cut' \in BOOLEAN,
         ConfirmedRegistersStand'
  PROVE  IInv'
  <1>1. Items' = Items /\ Ids' = Ids
    <2>1. DOMAIN ctl' = Ids
      BY DEF ControlsOK
    <2>2. QED
      BY <2>1 DEF Items, Ids
  <1>2. ContentOK'
    BY <1>1 DEF ContentOK, SectionsOK, ControlsOK
  <1>3. Ids' = Baseline(version', ImpactLevel(cat')) /\ version' \in stored
    BY <1>1, StateFacts DEF IInv, VersionsOK
  <1>4. QED
    BY <1>2, <1>3, StateFacts, RevisionStep

-----------------------------------------------------------------------------
(* The transforms                                                          *)

(* A generation leaves alone what the ISSO wrote, as in the property.      *)
HumanTextKept ==
  /\ \A s \in DOMAIN sec \cap DOMAIN sec' :
       sec[s].by = "isso" => sec'[s].by # "model"
  /\ \A c \in DOMAIN ctl \cap DOMAIN ctl' :
       ctl[c].by = "isso" /\ ~ctl[c].reopened => ctl'[c].by # "model"

LEMMA QuestionsKept ==
  ASSUME NEW q, QuestionsTyped(q), NEW sections, NEW e,
         e = NoEntry \/ e.id \in Asked
  PROVE  QuestionsTyped(ResolveDirect(q, sections)) /\ QuestionsTyped(AddQuestion(q, e))
  <1>1. QuestionsTyped(ResolveDirect(q, sections))
    BY DEF QuestionsTyped, ResolveDirect
  <1>2. CASE e = NoEntry \/ e.id \in DOMAIN q
    BY <1>1, <1>2 DEF AddQuestion
  <1>3. CASE ~(e = NoEntry \/ e.id \in DOMAIN q)
    BY <1>1, <1>3 DEF AddQuestion, QuestionsTyped
  <1>4. QED
    BY <1>2, <1>3

(* What the ISSO wrote and is not reopened stays as it was.                *)
IssoSectionsKept(f, g) == \A s \in DOMAIN f : f[s].by = "isso" => g[s] = f[s]

IssoControlsKept(f, g) ==
  \A c \in DOMAIN f : f[c].by = "isso" /\ ~f[c].reopened => g[c] = f[c]

LEMMA PutSection ==
  ASSUME IInv, NEW i \in Items, NEW x \in SectionContent, SectionOK(x, facts)
  PROVE  SectionsOK([sec EXCEPT ![i] = x])
  BY StateFacts DEF SectionsOK

LEMMA PutControl ==
  ASSUME IInv, NEW i \in Ids, NEW x \in ControlContent,
         ControlOK(x, facts), ValidControl(x)
  PROVE  ControlsOK([ctl EXCEPT ![i] = x])
  BY StateFacts DEF ControlsOK

(* The section of a generation: never one that the ISSO wrote.             *)
LEMMA MergeSectionKeeps ==
  ASSUME IInv, NEW e, SectionEntry(e, Items, facts)
  PROVE  /\ SectionsOK(MergeSection(sec, e))
         /\ IssoSectionsKept(sec, MergeSection(sec, e))
  <1>1. CASE e = NoEntry \/ sec[e.id].state = "edited"
    BY <1>1, StateFacts DEF MergeSection, IssoSectionsKept
  <1>2. CASE ~(e = NoEntry \/ sec[e.id].state = "edited")
    <2> DEFINE x == [text |-> e.text, ev |-> e.facts,
                     state |-> IF e.text # "" THEN "generated" ELSE "empty",
                     by |-> Author(sec[e.id], e)]
    <2>1. e.id \in Items /\ x \in SectionContent /\ SectionOK(x, facts)
      BY <1>2, StateFacts DEF SectionContent, SectionOK, Author, SectionEntry
    <2>2. MergeSection(sec, e) = [sec EXCEPT ![e.id] = x]
      BY <1>2 DEF MergeSection
    <2> HIDE DEF x
    <2>3. sec[e.id].by # "isso"
      BY <1>2, <2>1, StateFacts DEF SectionsOK, SectionOK
    <2>4. SectionsOK(MergeSection(sec, e))
      BY <2>1, <2>2, PutSection
    <2>5. QED
      BY <2>2, <2>3, <2>4 DEF IssoSectionsKept
  <1>3. QED
    BY <1>1, <1>2

(* The control of a generation: never a reviewed one.                      *)
LEMMA MergeControlKeeps ==
  ASSUME IInv, NEW e, ControlEntry(e, Ids, facts)
  PROVE  /\ ControlsOK(MergeControl(ctl, e))
         /\ IssoControlsKept(ctl, MergeControl(ctl, e))
  <1>1. CASE e = NoEntry \/ ctl[e.id].state = "reviewed"
    BY <1>1, StateFacts DEF MergeControl, IssoControlsKept
  <1>2. CASE ~(e = NoEntry \/ ctl[e.id].state = "reviewed")
    <2> DEFINE x == [text |-> e.text, meta |-> e.meta, ev |-> e.facts,
                     state |-> IF e.text # "" THEN "generated" ELSE "partial",
                     reason |-> e.text = "", reopened |-> FALSE,
                     by |-> Author(ctl[e.id], e)]
    <2>1. /\ e.id \in Ids /\ x \in ControlContent
          /\ ControlOK(x, facts) /\ ValidControl(x)
      BY <1>2, StateFacts
         DEF ControlContent, ControlOK, ValidControl, Author, ControlEntry
    <2>2. MergeControl(ctl, e) = [ctl EXCEPT ![e.id] = x]
      BY <1>2 DEF MergeControl
    <2> HIDE DEF x
    <2>3. ~(ctl[e.id].by = "isso" /\ ~ctl[e.id].reopened)
      BY <1>2, <2>1, StateFacts DEF ControlsOK, ControlOK
    <2>4. ControlsOK(MergeControl(ctl, e))
      BY <2>1, <2>2, PutControl
    <2>5. QED
      BY <2>2, <2>3, <2>4 DEF IssoControlsKept
  <1>3. QED
    BY <1>1, <1>2

LEMMA ImpactsProposed ==
  ASSUME cat \in Categorization, NEW ev \in SUBSET Artifacts, NEW c,
         c = ProposeImpacts(cat, ev)
  PROVE  /\ c \in Categorization /\ ImpactLevel(c) = ImpactLevel(cat)
         /\ c.status = cat.status
  BY DEF Categorization, ProposeImpacts, ImpactLevel

LEMMA MarkKeepsLevel ==
  ASSUME cat \in Categorization, NEW s, NEW c, c = MarkCategorizationStale(cat, s)
  PROVE  /\ c \in Categorization /\ ImpactLevel(c) = ImpactLevel(cat)
         /\ c.status = "confirmed" => c = cat
  BY DEF Categorization, MarkCategorizationStale, ImpactLevel, Levels

-----------------------------------------------------------------------------
(* The steps                                                               *)

LEMMA GenerateInvariant ==
  ASSUME IInv, Generate PROVE IInv' /\ HumanTextKept
  <1>1. PICK d \in Drafts[version][ImpactLevel(cat)][facts] :
          /\ sec' = MergeSection(sec, d.narrative.section)
          /\ ctl' = MergeControl(ctl, d.controls.control)
          /\ cat' = IF \/ d.narrative.categorization = NoEntry
                       \/ CategorizationIsConfirmed(cat)
                    THEN cat ELSE ProposeImpacts(cat, d.narrative.categorization.facts)
          /\ qs' = MergeQuestion(qs, sec', d.controls.question)
          /\ approved' = FALSE
          /\ UNCHANGED <<facts, def, inf, version, active, stored, patched, cut>>
    BY DEF Generate
  <1>2. /\ d.narrative \in NarrativePass(version, facts)
        /\ d.controls \in ControlPass(version, ImpactLevel(cat), facts)
    BY StateFacts DEF Drafts
  <1>3. SectionsOK(sec') /\ IssoSectionsKept(sec, sec')
    <2>1. SectionEntry(d.narrative.section, Items, facts)
      BY <1>2, NarrativeFacts DEF Items
    <2>2. QED
      BY <1>1, <2>1, MergeSectionKeeps
  <1>4. ControlsOK(ctl') /\ IssoControlsKept(ctl, ctl')
    <2>1. ControlEntry(d.controls.control, Ids, facts)
      BY <1>2, StateFacts, ControlsFacts
    <2>2. QED
      BY <1>1, <2>1, MergeControlKeeps
  <1>5. QuestionsTyped(qs')
    <2>1. d.controls.question = NoEntry \/ d.controls.question.id \in Asked
      BY <1>2, ControlsFacts
    <2>2. QuestionsTyped(ResolveDirect(qs, sec'))
      BY <2>1, StateFacts, QuestionsKept
    <2>3. QED
      BY <1>1, <2>1, <2>2, QuestionsKept DEF MergeQuestion
  <1>6. /\ cat' \in Categorization /\ ImpactLevel(cat') = ImpactLevel(cat)
        /\ cat'.status = "confirmed" => cat' = cat
    <2> DEFINE e == d.narrative.categorization
    <2>1. CASE cat' = cat
      BY <2>1, StateFacts
    <2>2. CASE cat' # cat
      <3>1. /\ e # NoEntry /\ ~CategorizationIsConfirmed(cat)
            /\ cat' = ProposeImpacts(cat, e.facts)
        BY <1>1, <2>2
      <3>2. e.facts \in SUBSET Artifacts
        BY <1>2, <3>1, StateFacts, NarrativeFacts
      <3> HIDE DEF e
      <3>3. /\ cat' \in Categorization /\ ImpactLevel(cat') = ImpactLevel(cat)
            /\ cat'.status = cat.status
        BY <3>1, <3>2, StateFacts, ImpactsProposed
      <3>4. QED
        BY <3>1, <3>3 DEF CategorizationIsConfirmed
    <2>3. QED
      BY <2>1, <2>2
  <1>7. Items' = Items /\ DOMAIN sec = Items /\ DOMAIN ctl = Ids
    BY <1>1, StateFacts DEF Items
  <1>8. ConfirmedRegistersStand'
    BY <1>1, <1>3, <1>7 DEF IInv, ConfirmedRegistersStand, IssoSectionsKept
  <1>9. ConfirmedHasEvidence'
    BY <1>1, <1>6 DEF IInv, CategorizationOK, ConfirmedHasEvidence
  <1>10. IInv'
    BY <1>1, <1>3, <1>4, <1>5, <1>6, <1>8, <1>9, StateFacts, ContentStep
  <1>11. HumanTextKept
    BY <1>3, <1>4, <1>7 DEF HumanTextKept, IssoSectionsKept, IssoControlsKept
  <1>12. QED
    BY <1>10, <1>11

LEMMA SuggestInvariant ==
  ASSUME IInv, Suggest PROVE IInv' /\ HumanTextKept
  <1>1. PICK c \in Accepted(OneRepair(Proposal, LAMBDA e : ParseCategorization(e, facts))) :
          cat' = ProposeImpacts(cat, c.facts)
    BY DEF Suggest
  <1>2. c.facts \in SUBSET Artifacts
    BY <1>1, SuggestionFacts, StateFacts
  <1>3. /\ cat' \in Categorization /\ ImpactLevel(cat') = ImpactLevel(cat)
        /\ cat'.status = cat.status
    BY <1>1, <1>2, StateFacts, ImpactsProposed
  <1>4. ConfirmedHasEvidence'
    BY <1>3 DEF ConfirmedHasEvidence, Suggest, CategorizationIsConfirmed
  <1>5. ConfirmedRegistersStand'
    BY DEF Suggest, IInv, ConfirmedRegistersStand, Items
  <1>6. IInv'
    BY <1>3, <1>4, <1>5, StateFacts, ContentStep DEF Suggest
  <1>7. QED
    BY <1>6 DEF Suggest, HumanTextKept

LEMMA EditSectionInvariant ==
  ASSUME IInv, NEW s \in Sections, NEW text \in Texts, EditSection(s, text)
  PROVE  IInv' /\ HumanTextKept
  <1> DEFINE x == [sec[s] EXCEPT !.text = text,
                                 !.state = IF text # "" THEN "edited" ELSE "empty",
                                 !.by = IF text # "" THEN "isso" ELSE "nobody"]
  <1>1. s \in Items /\ s \notin DefinitionSections \cup {"data_types"}
    BY DEF EditSection, EditableText, Kind, Registers, DefinitionSections
  <1>2. sec[s] \in SectionContent
    BY <1>1, StateFacts DEF SectionsOK
  <1>3. sec' = [sec EXCEPT ![s] = x]
    BY DEF EditSection
  <1>4. x \in SectionContent /\ SectionOK(x, facts)
    BY <1>2 DEF SectionContent, SectionOK
  <1>5. x.by # "model"
    BY <1>2 DEF SectionContent
  <1> HIDE DEF x
  <1>6. SectionsOK(sec')
    BY <1>1, <1>3, <1>4, PutSection
  <1>7. QuestionsTyped(qs')
    BY StateFacts, QuestionsKept DEF EditSection
  <1>8. /\ cat' \in Categorization /\ ImpactLevel(cat') = ImpactLevel(cat)
        /\ cat'.status = "confirmed" => cat' = cat
    BY StateFacts, MarkKeepsLevel DEF EditSection
  <1>9. ConfirmedHasEvidence'
    BY <1>8 DEF EditSection, IInv, CategorizationOK, ConfirmedHasEvidence
  <1>10. def' \in ConfirmationStatus /\ inf' \in ConfirmationStatus
    BY StateFacts
       DEF EditSection, MarkDefinitionStale, MarkInformationTypesStale, ConfirmationStatus
  <1>11. ConfirmedRegistersStand'
    <2>1. Items' = Items /\ \A t \in Items \ {s} : sec'[t] = sec[t]
      BY <1>3, StateFacts DEF EditSection, Items
    <2>2. def' = def /\ inf' = inf
      BY <1>1 DEF EditSection, MarkDefinitionStale, MarkInformationTypesStale
    <2>3. QED
      BY <1>1, <2>1, <2>2 DEF IInv, ConfirmedRegistersStand
  <1>12. IInv'
    BY <1>6, <1>7, <1>8, <1>9, <1>10, <1>11, StateFacts, ContentStep DEF EditSection
  <1>13. HumanTextKept
    BY <1>3, <1>5, StateFacts DEF EditSection, HumanTextKept
  <1>14. QED
    BY <1>12, <1>13

LEMMA EditControlInvariant ==
  ASSUME IInv, NEW c \in Controls, NEW text \in {"", "prose", "insert"},
         NEW meta \in BOOLEAN, EditControl(c, text, meta)
  PROVE  IInv' /\ HumanTextKept
  <1> DEFINE x == [text |-> text, meta |-> meta, ev |-> ctl[c].ev,
                   state |-> IF text # "" THEN "reviewed" ELSE "partial",
                   reason |-> text = "", reopened |-> FALSE,
                   by |-> IF text # "" THEN "isso" ELSE "nobody"]
  <1>1. c \in Ids /\ text \in {"", "prose"}
    BY DEF EditControl, EditableStatement
  <1>2. ctl[c] \in ControlContent
    BY <1>1, StateFacts DEF ControlsOK
  <1>3. ctl' = [ctl EXCEPT ![c] = x]
    BY <1>1, StateFacts DEF EditControl
  <1>4. x \in ControlContent /\ ControlOK(x, facts) /\ ValidControl(x)
    BY <1>1, <1>2 DEF ControlContent, ControlOK, ValidControl
  <1>5. x.by # "model"
    OBVIOUS
  <1> HIDE DEF x
  <1>6. ControlsOK(ctl')
    BY <1>1, <1>3, <1>4, PutControl
  <1>7. ConfirmedRegistersStand' /\ ConfirmedHasEvidence'
    BY DEF EditControl, IInv, ConfirmedRegistersStand, Items,
           CategorizationOK, ConfirmedHasEvidence
  <1>8. IInv'
    BY <1>6, <1>7, StateFacts, ContentStep DEF EditControl
  <1>9. HumanTextKept
    BY <1>3, <1>5, StateFacts DEF EditControl, HumanTextKept
  <1>10. QED
    BY <1>8, <1>9

LEMMA AnswerInvariant ==
  ASSUME IInv, NEW t \in Asked, NEW text \in {"prose", "short"}, AnswerQuestion(t, text)
  PROVE  IInv' /\ HumanTextKept
  <1> DEFINE x == [sec[t] EXCEPT !.text = text, !.state = "edited", !.by = "isso"]
  <1>1. SectionsOK(sec') /\ \A s \in Items \ Direct : sec'[s] = sec[s]
    <2>1. CASE t \in Direct
      <3>1. t \in Items /\ sec[t] \in SectionContent
        BY <2>1, StateFacts DEF AnswerQuestion, SectionsOK
      <3>2. sec' = [sec EXCEPT ![t] = x]
        BY <2>1 DEF AnswerQuestion
      <3>3. x \in SectionContent /\ SectionOK(x, facts)
        BY <3>1 DEF SectionContent, SectionOK, Texts
      <3> HIDE DEF x
      <3>4. QED
        BY <2>1, <3>1, <3>2, <3>3, StateFacts, PutSection
    <2>2. CASE t \notin Direct
      BY <2>2, StateFacts DEF AnswerQuestion
    <2>3. QED
      BY <2>1, <2>2
  <1>2. \A s \in Items : sec'[s].by # "model" \/ sec'[s] = sec[s]
    BY StateFacts DEF AnswerQuestion, SectionsOK, SectionContent
  <1>3. QuestionsTyped(qs')
    BY StateFacts DEF AnswerQuestion, QuestionsTyped
  <1>4. ConfirmedRegistersStand'
    BY <1>1, ContentAssumption DEF AnswerQuestion, IInv, ConfirmedRegistersStand, Items
  <1>5. ConfirmedHasEvidence'
    BY DEF AnswerQuestion, IInv, CategorizationOK, ConfirmedHasEvidence
  <1>6. IInv'
    BY <1>1, <1>3, <1>4, <1>5, StateFacts, ContentStep DEF AnswerQuestion
  <1>7. HumanTextKept
    BY <1>2, StateFacts DEF AnswerQuestion, HumanTextKept
  <1>8. QED
    BY <1>6, <1>7

LEMMA DefinedSections ==
  ASSUME IInv, NEW state, NEW author,
         \/ state = "edited" /\ author = "isso"
         \/ state = "generated" /\ author = "diagram",
         sec' = Defined("register", state, author)
  PROVE  /\ SectionsOK(sec')
         /\ \A s \in Items \cap DefinitionSections :
              sec'[s].by = author /\ sec'[s].text = "register"
         /\ \A s \in Items \ DefinitionSections : sec'[s] = sec[s]
         /\ \A s \in Items : sec'[s].by # "model" \/ sec'[s] = sec[s]
  <1> DEFINE x(s) == [sec[s] EXCEPT !.text = "register", !.state = state, !.by = author]
  <1>1. \A s \in Items : sec[s] \in SectionContent /\ SectionOK(sec[s], facts)
    BY StateFacts DEF SectionsOK
  <1>2. ASSUME NEW s \in Items
        PROVE  /\ x(s) \in SectionContent /\ SectionOK(x(s), facts)
               /\ x(s).by = author /\ x(s).text = "register" /\ author # "model"
    BY <1>1 DEF SectionContent, SectionOK, Texts
  <1>3. sec' = [s \in Items |-> IF s \in DefinitionSections THEN x(s) ELSE sec[s]]
    BY DEF Defined
  <1> HIDE DEF x
  <1>4. QED
    BY <1>1, <1>2, <1>3 DEF SectionsOK

LEMMA ConfirmDefinitionInvariant ==
  ASSUME IInv, ConfirmDefinition PROVE IInv' /\ HumanTextKept
  <1>1. /\ SectionsOK(sec')
        /\ \A s \in Items \cap DefinitionSections :
             sec'[s].by = "isso" /\ sec'[s].text = "register"
        /\ \A s \in Items \ DefinitionSections : sec'[s] = sec[s]
        /\ \A s \in Items : sec'[s].by # "model" \/ sec'[s] = sec[s]
    BY DefinedSections DEF ConfirmDefinition
  <1>2. ConfirmedRegistersStand'
    <2>1. "data_types" \notin DefinitionSections
      BY DEF DefinitionSections
    <2>2. QED
      BY <1>1, <2>1 DEF ConfirmDefinition, IInv, ConfirmedRegistersStand, Items
  <1>3. ConfirmedHasEvidence'
    BY DEF ConfirmDefinition, IInv, CategorizationOK, ConfirmedHasEvidence
  <1>4. IInv'
    BY <1>1, <1>2, <1>3, StateFacts, ContentStep DEF ConfirmDefinition, ConfirmationStatus
  <1>5. HumanTextKept
    BY <1>1, StateFacts DEF ConfirmDefinition, HumanTextKept
  <1>6. QED
    BY <1>4, <1>5

LEMMA AnalyzeDiagramInvariant ==
  ASSUME IInv, NEW a \in Artifacts, AnalyzeDiagram(a) PROVE IInv' /\ HumanTextKept
  <1>1. /\ SectionsOK(sec')
        /\ \A s \in Items \ DefinitionSections : sec'[s] = sec[s]
        /\ \A s \in Items : sec'[s].by # "model" \/ sec'[s] = sec[s]
    BY DefinedSections DEF AnalyzeDiagram
  <1>2. ConfirmedRegistersStand'
    <2>1. "data_types" \notin DefinitionSections
      BY DEF DefinitionSections
    <2>2. QED
      BY <1>1, <2>1 DEF AnalyzeDiagram, IInv, ConfirmedRegistersStand, Items
  <1>3. ConfirmedHasEvidence'
    BY DEF AnalyzeDiagram, IInv, CategorizationOK, ConfirmedHasEvidence
  <1>4. IInv'
    BY <1>1, <1>2, <1>3, StateFacts, ContentStep DEF AnalyzeDiagram, ConfirmationStatus
  <1>5. HumanTextKept
    BY <1>1, StateFacts DEF AnalyzeDiagram, HumanTextKept
  <1>6. QED
    BY <1>4, <1>5

LEMMA ConfirmInformationTypesInvariant ==
  ASSUME IInv, ConfirmInformationTypes PROVE IInv' /\ HumanTextKept
  <1> DEFINE x == [sec["data_types"] EXCEPT !.text = "register", !.state = "edited",
                                            !.by = "isso"]
  <1>1. "data_types" \in Items /\ sec["data_types"] \in SectionContent
    BY StateFacts DEF ConfirmInformationTypes, SectionsOK
  <1>2. sec' = [sec EXCEPT !["data_types"] = x]
    BY DEF ConfirmInformationTypes
  <1>3. /\ x \in SectionContent /\ SectionOK(x, facts)
        /\ x.by = "isso" /\ x.text = "register"
    BY <1>1 DEF SectionContent, SectionOK, Texts
  <1> HIDE DEF x
  <1>4. SectionsOK(sec')
    BY <1>1, <1>2, <1>3, PutSection
  <1>5. ConfirmedRegistersStand'
    <2>1. "data_types" \notin DefinitionSections
      BY DEF DefinitionSections
    <2>2. QED
      BY <1>1, <1>2, <1>3, <2>1, StateFacts
         DEF ConfirmInformationTypes, IInv, ConfirmedRegistersStand, Items
  <1>6. ConfirmedHasEvidence'
    BY DEF ConfirmInformationTypes, IInv, CategorizationOK, ConfirmedHasEvidence
  <1>7. IInv'
    BY <1>4, <1>5, <1>6, StateFacts, ContentStep
       DEF ConfirmInformationTypes, ConfirmationStatus
  <1>8. HumanTextKept
    BY <1>1, <1>2, <1>3, StateFacts DEF ConfirmInformationTypes, HumanTextKept
  <1>9. QED
    BY <1>7, <1>8

(* Steps that leave the contents alone.                                    *)
LEMMA VersionStep ==
  ASSUME IInv, UNCHANGED <<facts, sec, ctl, qs, cat, def, inf, version, approved, cut>>,
         stored' \subseteq Versions, stored \subseteq stored', active' \in stored',
         \A v \in stored' : Loads(BundleOf[v]), patched' \in BOOLEAN
  PROVE  IInv' /\ HumanTextKept
  <1>1. TypeOK'
    BY DEF IInv, TypeOK, Baseline, ItemsOf, ImpactLevel
  <1>2. VersionsOK' /\ QuestionsOK' /\ CategorizationOK'
    BY DEF IInv, VersionsOK, QuestionsOK, CategorizationOK, ConfirmedHasEvidence, ImpactLevel
  <1>3. ContentOK' /\ ConfirmedRegistersStand'
    BY DEF IInv, ContentOK, SectionsOK, ControlsOK, ConfirmedRegistersStand, Items, Ids
  <1>4. ApprovedIsExportable'
    BY DEF IInv, ApprovedIsExportable, Exportable, CategorizationExports,
           CategorizationBlock, DefinitionExports, InformationTypesExport, Items
  <1>5. QED
    BY <1>1, <1>2, <1>3, <1>4 DEF IInv, HumanTextKept

LEMMA ProfileInvariant ==
  ASSUME IInv, NEW v \in Versions, ImportProfile(v) \/ Activate(v)
  PROVE  IInv' /\ HumanTextKept
  <1>1. CASE ImportProfile(v)
    BY <1>1, VersionStep DEF ImportProfile, IInv, TypeOK, VersionsOK
  <1>2. CASE Activate(v)
    BY <1>2, VersionStep DEF Activate, IInv, TypeOK, VersionsOK
  <1>3. QED
    BY <1>1, <1>2

LEMMA ProposeInvariant ==
  ASSUME IInv, ProposePatch PROVE IInv' /\ HumanTextKept
  BY VersionStep DEF ProposePatch, IInv, TypeOK, VersionsOK

LEMMA ApproveInvariant ==
  ASSUME IInv, ApproveRevision PROVE IInv' /\ HumanTextKept
  <1>1. TypeOK'
    BY DEF ApproveRevision, IInv, TypeOK, Baseline, ItemsOf, ImpactLevel
  <1>2. VersionsOK' /\ QuestionsOK' /\ CategorizationOK'
    BY DEF ApproveRevision, IInv, VersionsOK, QuestionsOK, CategorizationOK,
           ConfirmedHasEvidence, ImpactLevel
  <1>3. ContentOK' /\ ConfirmedRegistersStand'
    BY DEF ApproveRevision, IInv, ContentOK, SectionsOK, ControlsOK,
           ConfirmedRegistersStand, Items, Ids
  <1>4. ApprovedIsExportable'
    <2>1. ~cut => cat.impacts # "none" /\ cat.ev # {}
      BY DEF ApproveRevision, IInv, CategorizationOK, ConfirmedHasEvidence
    <2>2. ASSUME NEW s \in Items \cap DefinitionSections
          PROVE  sec[s].text = "register" /\ ValidContent(s, "register")
      <3>1. sec[s].text = "register"
        BY DEF ApproveRevision, IInv, ConfirmedRegistersStand
      <3>2. Kind(s) \in {"register", "boundary"}
        BY DEF DefinitionSections, Kind, Registers
      <3>3. QED
        BY <3>1, <3>2 DEF ValidContent
    <2>3. "data_types" \in Items => sec["data_types"].text = "register"
      BY DEF ApproveRevision, IInv, ConfirmedRegistersStand
    <2>4. ~cut => Exportable
      BY <2>1, <2>2, <2>3
         DEF Exportable, CategorizationExports, CategorizationBlock,
             DefinitionExports, InformationTypesExport
    <2>5. Exportable' = Exportable
      BY DEF ApproveRevision, Exportable, CategorizationExports, CategorizationBlock,
             DefinitionExports, InformationTypesExport, Items
    <2>6. QED
      BY <2>4, <2>5 DEF ApproveRevision, ApprovedIsExportable
  <1>5. QED
    BY <1>1, <1>2, <1>3, <1>4 DEF ApproveRevision, IInv, HumanTextKept

LEMMA IngestInvariant ==
  ASSUME IInv, NEW a \in Artifacts, IngestEvidence(a) PROVE IInv' /\ HumanTextKept
  <1>1. Items' = Items /\ Ids' = Ids /\ facts \subseteq facts'
    BY DEF IngestEvidence, Items, Ids
  <1>2. ContentOK'
    <2>1. SectionsOK(sec)' /\ ControlsOK(ctl)'
      BY <1>1, StateFacts
         DEF IngestEvidence, SectionsOK, ControlsOK, SectionOK, ControlOK
    <2>2. QED
      BY <2>1 DEF ContentOK
  <1>3. ConfirmedRegistersStand' /\ ConfirmedHasEvidence'
    BY <1>1 DEF IngestEvidence, IInv, ConfirmedRegistersStand,
                CategorizationOK, ConfirmedHasEvidence
  <1>4. version' \in stored /\ facts' \in SUBSET Artifacts
    BY StateFacts DEF IngestEvidence, IInv, VersionsOK
  <1>5. IInv'
    BY <1>1, <1>2, <1>3, <1>4, StateFacts, RevisionStep DEF IngestEvidence
  <1>6. QED
    BY <1>5 DEF IngestEvidence, HumanTextKept

(* Evidence can be removed only before there is any text.                  *)
LEMMA RemoveInvariant ==
  ASSUME IInv, NEW a \in Artifacts, RemoveEvidence(a) PROVE IInv' /\ HumanTextKept
  <1> DEFINE x(s) == [sec[s] EXCEPT !.ev = @ \ {a}]
             y(c) == [ctl[c] EXCEPT !.ev = @ \ {a}]
  <1>1. /\ sec' = [s \in Items |-> x(s)] /\ ctl' = [c \in Ids |-> y(c)]
        /\ Items' = Items /\ Ids' = Ids
    BY DEF RemoveEvidence, Items, Ids
  <1>2. ASSUME NEW s \in Items
        PROVE  /\ x(s) \in SectionContent /\ SectionOK(x(s), facts')
               /\ x(s).by = sec[s].by /\ x(s).text = sec[s].text
    <2>1. sec[s] \in SectionContent /\ SectionOK(sec[s], facts) /\ sec[s].text = ""
      BY StateFacts DEF SectionsOK, SectionOK, RemoveEvidence, AnalysisStarted
    <2>2. QED
      BY <2>1 DEF SectionContent, SectionOK
  <1>3. ASSUME NEW c \in Ids
        PROVE  /\ y(c) \in ControlContent /\ ControlOK(y(c), facts') /\ ValidControl(y(c))
               /\ y(c).by = ctl[c].by
    <2>1. /\ ctl[c] \in ControlContent /\ ControlOK(ctl[c], facts)
          /\ ctl[c].state = "empty" /\ ctl[c].text = ""
      BY StateFacts DEF ControlsOK, ValidControl, RemoveEvidence, AnalysisStarted
    <2>2. QED
      BY <2>1 DEF ControlContent, ControlOK, ValidControl
  <1> HIDE DEF x, y
  <1>4. ContentOK'
    <2>1. SectionsOK(sec)'
      BY <1>1, <1>2 DEF SectionsOK
    <2>2. ControlsOK(ctl)'
      BY <1>1, <1>3 DEF ControlsOK
    <2>3. QED
      BY <2>1, <2>2 DEF ContentOK
  <1>5. ConfirmedRegistersStand'
    BY <1>1, <1>2 DEF RemoveEvidence, IInv, ConfirmedRegistersStand
  <1>6. /\ cat' \in Categorization /\ ImpactLevel(cat') = ImpactLevel(cat)
        /\ cat'.status = cat.status /\ cat'.ev = cat.ev \ {a}
        /\ cat.ev # {a} => cat'.impacts = cat.impacts
    BY StateFacts DEF RemoveEvidence, Categorization, ImpactLevel
  <1>7. ConfirmedHasEvidence' /\ cut' \in BOOLEAN
    <2>1. CASE cat.ev = {a}
      BY <1>6, <2>1, StateFacts
         DEF RemoveEvidence, CategorizationIsConfirmed, ConfirmedHasEvidence
    <2>2. CASE cat.ev # {a}
      <3>1. cut' = cut
        BY <2>2, StateFacts DEF RemoveEvidence
      <3>2. QED
        BY <1>6, <2>2, <3>1, StateFacts DEF IInv, CategorizationOK, ConfirmedHasEvidence
    <2>3. QED
      BY <2>1, <2>2
  <1>8. version' \in stored /\ facts' \in SUBSET Artifacts /\ version' = version
    BY StateFacts DEF RemoveEvidence, IInv, VersionsOK
  <1>9. IInv'
    BY <1>1, <1>4, <1>5, <1>6, <1>7, <1>8, StateFacts, RevisionStep DEF RemoveEvidence
  <1>10. HumanTextKept
    BY <1>1, <1>2, <1>3, StateFacts DEF HumanTextKept
  <1>11. QED
    BY <1>9, <1>10

(* A migration keeps the text of what the new profile still has, and takes *)
(* back the confirmation of a register whose section comes, goes or        *)
(* changes.                                                                *)
LEMMA ReconcileInvariant ==
  ASSUME IInv, NEW v \in Versions, NEW level \in Levels, NEW newCat \in Categorization,
         ImpactLevel(newCat) = level, Reconcile(v, level, newCat),
         ConfirmedHasEvidence', cut' \in BOOLEAN
  PROVE  IInv' /\ HumanTextKept
  <1>1. /\ Items' = ItemsOf(v) /\ cat' = newCat /\ facts' = facts
        /\ version' \in stored /\ UNCHANGED <<stored, active, patched>>
        /\ Ids' = Baseline(v, level) /\ approved' = FALSE
        /\ sec' = [s \in ItemsOf(v) |-> MigratedSection(s)]
        /\ ctl' = [c \in Baseline(v, level) |-> MigratedControl(c, ControlDiff(v, level))]
    BY DEF Reconcile, Items, Ids, IInv, VersionsOK
  <1>2. ASSUME NEW s
        PROVE  /\ MigratedSection(s) \in SectionContent
               /\ SectionOK(MigratedSection(s), facts)
               /\ s \in Items => MigratedSection(s) = sec[s]
    <2>1. CASE s \in Items
      BY <2>1, StateFacts DEF MigratedSection, SectionsOK
    <2>2. CASE s \notin Items
      BY <2>2 DEF MigratedSection, EmptySection, SectionContent, SectionOK, Texts
    <2>3. QED
      BY <2>1, <2>2
  <1>3. ASSUME NEW c, NEW changed
        PROVE  /\ MigratedControl(c, changed) \in ControlContent
               /\ ControlOK(MigratedControl(c, changed), facts)
               /\ ValidControl(MigratedControl(c, changed))
               /\ c \in Ids => MigratedControl(c, changed).by = ctl[c].by
    <2>1. CASE c \notin Ids
      BY <2>1 DEF MigratedControl, EmptyControl, ControlContent, ControlOK, ValidControl
    <2>2. CASE c \in Ids /\ c \notin changed
      BY <2>2, StateFacts DEF MigratedControl, ControlsOK
    <2>3. CASE c \in Ids /\ c \in changed
      <3> DEFINE x == [ctl[c] EXCEPT !.state = "partial", !.reason = TRUE,
                                     !.reopened = @ \/ ctl[c].by = "isso"]
      <3>1. ctl[c] \in ControlContent /\ ControlOK(ctl[c], facts)
        BY <2>3, StateFacts DEF ControlsOK
      <3>2. x \in ControlContent /\ ControlOK(x, facts) /\ ValidControl(x) /\ x.by = ctl[c].by
        BY <3>1 DEF ControlContent, ControlOK, ValidControl
      <3>3. MigratedControl(c, changed) = x
        BY <2>3 DEF MigratedControl
      <3> HIDE DEF x
      <3>4. QED
        BY <3>2, <3>3
    <2>4. QED
      BY <2>1, <2>2, <2>3
  <1>4. ContentOK'
    <2>1. SectionsOK(sec)'
      BY <1>1, <1>2 DEF SectionsOK
    <2>2. ControlsOK(ctl)'
      BY <1>1, <1>3 DEF ControlsOK
    <2>3. QED
      BY <2>1, <2>2 DEF ContentOK
  <1>5. QuestionsTyped(qs')
    BY StateFacts DEF Reconcile, MigratedQuestions, QuestionsTyped
  <1>6. def' \in ConfirmationStatus /\ inf' \in ConfirmationStatus
    BY StateFacts
       DEF Reconcile, MigratedDefinition, MigratedInformationTypes, ConfirmationStatus
  <1>7. ConfirmedRegistersStand'
    <2>1. ItemsOf(v) \ Items \subseteq ItemDiff(v) /\ Items \ ItemsOf(v) \subseteq ItemDiff(v)
      BY DEF ItemDiff, Items
    <2>2. def' = "confirmed" =>
            def = "confirmed" /\ ItemsOf(v) \cap DefinitionSections \subseteq Items
      BY <2>1 DEF Reconcile, MigratedDefinition
    <2>3. inf' = "confirmed" => inf = "confirmed" /\ "data_types" \notin ItemDiff(v)
      BY DEF Reconcile, MigratedInformationTypes
    <2>4. QED
      BY <1>1, <1>2, <2>1, <2>2, <2>3 DEF IInv, ConfirmedRegistersStand
  <1>8. IInv'
    <2>1. version' = v /\ cat' = newCat
      BY DEF Reconcile
    <2>2. QED
      BY <1>1, <1>4, <1>5, <1>6, <1>7, <2>1, StateFacts, RevisionStep
  <1>9. HumanTextKept
    <2>1. \A s \in DOMAIN sec \cap DOMAIN sec' : sec'[s] = sec[s]
      BY <1>1, <1>2, StateFacts
    <2>2. \A c \in DOMAIN ctl \cap DOMAIN ctl' : ctl'[c].by = ctl[c].by
      BY <1>1, <1>3, StateFacts
    <2>3. QED
      BY <2>1, <2>2 DEF HumanTextKept
  <1>10. QED
    BY <1>8, <1>9

LEMMA MigrateInvariant ==
  ASSUME IInv, NEW v \in Versions, NEW level \in Levels, Migrate(v, level)
  PROVE  IInv' /\ HumanTextKept
  <1> DEFINE newCat == IF cat.status = "confirmed"
                       THEN [cat EXCEPT !.status = "stale", !.level = level,
                                        !.provisional = level]
                       ELSE [cat EXCEPT !.level = level]
  <1>1. Reconcile(v, level, newCat) /\ cut' = cut
    BY DEF Migrate
  <1>2. /\ newCat \in Categorization /\ ImpactLevel(newCat) = level
        /\ newCat.status # "confirmed"
    BY StateFacts DEF Categorization, ImpactLevel, Levels
  <1>3. cat' = newCat
    BY <1>1 DEF Reconcile
  <1> HIDE DEF newCat
  <1>4. QED
    BY <1>1, <1>2, <1>3, StateFacts, ReconcileInvariant DEF ConfirmedHasEvidence

LEMMA CategorizeInvariant ==
  ASSUME IInv, NEW level \in Levels, NEW ev \in SUBSET Artifacts, Categorize(level, ev)
  PROVE  IInv' /\ HumanTextKept
  <1> DEFINE newCat == [status |-> "confirmed", impacts |-> "confirmed", ev |-> ev,
                        level |-> level, provisional |-> "none"]
  <1>1. Reconcile(version, level, newCat) /\ cut' = FALSE /\ ev # {}
    BY DEF Categorize, CategorizationEvidence
  <1>2. /\ newCat \in Categorization /\ ImpactLevel(newCat) = level
        /\ newCat.impacts = "confirmed" /\ newCat.ev = ev
    BY DEF Categorization, ImpactLevel, Levels
  <1>3. cat' = newCat
    BY <1>1 DEF Reconcile
  <1> HIDE DEF newCat
  <1>4. ConfirmedHasEvidence'
    BY <1>1, <1>2, <1>3 DEF ConfirmedHasEvidence
  <1>5. QED
    BY <1>1, <1>2, <1>4, StateFacts, ReconcileInvariant

(* A patch is checked once more against the facts of the revision that it  *)
(* is applied to.                                                          *)
LEMMA ApplyPatchInvariant ==
  ASSUME IInv, ApplyPatch PROVE IInv' /\ HumanTextKept
  <1>1. PICK r \in PatchResults[version][ImpactLevel(cat)][facts][Shown] :
          LET p == r.patch
              s == IF p # NoEntry /\ p.id \in Items THEN p.id ELSE "none"
          IN
          /\ p # NoEntry => RevalidatePatch(p, Items, facts)
          /\ sec' = IF s = "none" THEN sec
                    ELSE [sec EXCEPT ![s] = PatchSection(@, p)]
          /\ ctl' = IF p = NoEntry \/ s # "none" THEN ctl
                    ELSE [ctl EXCEPT ![p.id] = PatchControl(@, p)]
          /\ \A c \in Ids : ValidControl(ctl'[c])
          /\ qs' = PatchQuestions(qs, r)
          /\ cat' = MarkCategorizationStale(cat, s)
          /\ def' = MarkDefinitionStale(def, s)
          /\ inf' = MarkInformationTypesStale(inf, s)
    BY DEF ApplyPatch
  <1> DEFINE p == r.patch
             s == IF p # NoEntry /\ p.id \in Items THEN p.id ELSE "none"
  <1>2. /\ p # NoEntry =>
             /\ p.id \in Items \cup Ids
             /\ p.id \in Items => p.text \in Texts
             /\ p.id \notin Items => p.text \in {"", "prose", "insert", "keep"}
             /\ p.facts \subseteq facts
        /\ r.question = NoEntry \/ r.question.id \in Asked
    BY StateFacts, PatchFacts DEF Items
  <1>3. p # NoEntry /\ p.id \notin Items => p.meta \in BOOLEAN
    BY StateFacts, PatchFacts DEF Items
  <1>4. /\ p # NoEntry => RevalidatePatch(p, Items, facts)
        /\ sec' = IF s = "none" THEN sec ELSE [sec EXCEPT ![s] = PatchSection(sec[s], p)]
        /\ ctl' = IF p = NoEntry \/ s # "none" THEN ctl
                  ELSE [ctl EXCEPT ![p.id] = PatchControl(ctl[p.id], p)]
        /\ \A c \in Ids : ValidControl(ctl'[c])
        /\ qs' = PatchQuestions(qs, r)
        /\ cat' = MarkCategorizationStale(cat, s)
        /\ def' = MarkDefinitionStale(def, s)
        /\ inf' = MarkInformationTypesStale(inf, s)
    BY <1>1
  <1>5. s # "none" => s \in Items /\ p # NoEntry /\ p.id = s
    OBVIOUS
  <1>6. p # NoEntry /\ s = "none" => p.id \in Ids /\ p.id \notin Items
    BY <1>2, StateFacts
  <1> HIDE DEF p, s
  <1>7. /\ SectionsOK(sec') /\ \A t \in Items \ {s} : sec'[t] = sec[t]
        /\ \A t \in Items : sec'[t].by # "model" \/ sec'[t] = sec[t]
    <2>1. CASE s = "none"
      BY <1>4, <2>1, StateFacts
    <2>2. CASE s # "none"
      <3> DEFINE x == PatchSection(sec[s], p)
      <3>1. sec[s] \in SectionContent
        BY <1>5, <2>2, StateFacts DEF SectionsOK
      <3>2. p.text \in Texts /\ p.facts \subseteq facts /\ (p.text # "" => p.facts # {})
        BY <1>2, <1>4, <1>5, <2>2 DEF RevalidatePatch
      <3>3. x \in SectionContent /\ SectionOK(x, facts) /\ x.by # "model"
        BY <3>1, <3>2, StateFacts DEF PatchSection, SectionContent, SectionOK
      <3>4. sec' = [sec EXCEPT ![s] = x]
        BY <1>4, <2>2
      <3> HIDE DEF x
      <3>5. SectionsOK(sec')
        BY <1>5, <2>2, <3>3, <3>4, PutSection
      <3>6. QED
        BY <1>5, <2>2, <3>3, <3>4, <3>5, StateFacts
    <2>3. QED
      BY <2>1, <2>2
  <1>8. /\ ControlsOK(ctl')
        /\ \A c \in Ids : ctl'[c].by = "model" => \/ ctl'[c] = ctl[c]
                                                  \/ ctl[c].by = "model"
    <2>1. CASE p = NoEntry \/ s # "none"
      BY <1>4, <2>1, StateFacts
    <2>2. CASE p # NoEntry /\ s = "none"
      <3> DEFINE i == p.id
                 old == ctl[i]
                 x == PatchControl(old, p)
      <3>1. i \in Ids /\ old \in ControlContent /\ ControlOK(old, facts)
        BY <1>6, <2>2, StateFacts DEF ControlsOK
      <3>2. /\ p.text \in {"", "prose", "keep"} /\ p.facts \subseteq facts
            /\ EvidenceRequired /\ p.text = "prose" => p.facts # {}
        BY <1>2, <1>4, <1>6, <2>2 DEF RevalidatePatch, NeedsFacts
      <3>3. p.meta \in BOOLEAN
        BY <1>3, <1>6, <2>2
      <3>4. ctl' = [ctl EXCEPT ![i] = x]
        BY <1>4, <2>2
      <3> HIDE DEF i, old
      <3>5. x \in ControlContent
        BY <3>1, <3>2, <3>3, StateFacts DEF PatchControl, ControlContent
      <3>6. ControlOK(x, facts)
        BY <3>1, <3>2 DEF PatchControl, ControlOK, ControlContent
      <3>7. x.by = "model" => old.by = "model"
        BY <3>2 DEF PatchControl
      <3>8. ValidControl(x)
        BY <1>4, <3>1, <3>4, StateFacts
      <3> HIDE DEF x
      <3>9. ControlsOK(ctl')
        BY <3>1, <3>4, <3>5, <3>6, <3>8, PutControl
      <3>10. QED
        BY <3>1, <3>4, <3>7, <3>9, StateFacts DEF old
    <2>3. QED
      BY <2>1, <2>2
  <1>9. QuestionsTyped(qs')
    <2> DEFINE q == [t \in DOMAIN qs |-> IF t \in r.resolve THEN "dismissed" ELSE qs[t]]
    <2>1. QuestionsTyped(q)
      BY StateFacts DEF QuestionsTyped
    <2>2. qs' = AddQuestion(q, r.question)
      BY <1>4 DEF PatchQuestions
    <2> HIDE DEF q
    <2>3. QED
      BY <1>2, <2>1, <2>2, QuestionsKept
  <1>10. /\ cat' \in Categorization /\ ImpactLevel(cat') = ImpactLevel(cat)
         /\ cat'.status = "confirmed" => cat' = cat
    BY <1>4, StateFacts, MarkKeepsLevel
  <1>11. UNCHANGED <<facts, version, active, stored, patched, cut>> /\ approved' = FALSE
    BY DEF ApplyPatch
  <1>12. ConfirmedHasEvidence'
    BY <1>10, <1>11 DEF IInv, CategorizationOK, ConfirmedHasEvidence
  <1>13. def' \in ConfirmationStatus /\ inf' \in ConfirmationStatus
    BY <1>4, StateFacts
       DEF MarkDefinitionStale, MarkInformationTypesStale, ConfirmationStatus
  <1>14. ConfirmedRegistersStand'
    <2>1. Items' = Items
      BY <1>11 DEF Items
    <2>2. def' = "confirmed" => def = "confirmed" /\ s \notin DefinitionSections
      BY <1>4 DEF MarkDefinitionStale
    <2>3. inf' = "confirmed" => inf = "confirmed" /\ s # "data_types"
      BY <1>4 DEF MarkInformationTypesStale
    <2>4. QED
      BY <1>7, <2>1, <2>2, <2>3 DEF IInv, ConfirmedRegistersStand
  <1>15. IInv'
    BY <1>7, <1>8, <1>9, <1>10, <1>11, <1>12, <1>13, <1>14, StateFacts, ContentStep
  <1>16. HumanTextKept
    <2>1. DOMAIN sec = Items /\ DOMAIN ctl = Ids
      BY StateFacts
    <2>2. QED
      BY <1>7, <1>8, <2>1 DEF HumanTextKept
  <1>17. QED
    BY <1>15, <1>16

LEMMA NextInvariant == IInv /\ [Next]_vars => IInv' /\ [HumanTextKept]_vars
  <1> SUFFICES ASSUME IInv, [Next]_vars PROVE IInv' /\ [HumanTextKept]_vars
    OBVIOUS
  <1>1. CASE Generate
    BY <1>1, GenerateInvariant
  <1>2. CASE Suggest
    BY <1>2, SuggestInvariant
  <1>3. CASE ProposePatch
    BY <1>3, ProposeInvariant
  <1>4. CASE ApplyPatch
    BY <1>4, ApplyPatchInvariant
  <1>5. ASSUME NEW s \in Sections, NEW text \in Texts, EditSection(s, text)
        PROVE  IInv' /\ HumanTextKept
    BY <1>5, EditSectionInvariant
  <1>6. ASSUME NEW c \in Controls, NEW text \in {"", "prose", "insert"},
               NEW m \in BOOLEAN, EditControl(c, text, m)
        PROVE  IInv' /\ HumanTextKept
    BY <1>6, EditControlInvariant
  <1>7. ASSUME NEW t \in Asked, NEW text \in {"prose", "short"}, AnswerQuestion(t, text)
        PROVE  IInv' /\ HumanTextKept
    BY <1>7, AnswerInvariant
  <1>8. CASE ConfirmDefinition
    BY <1>8, ConfirmDefinitionInvariant
  <1>9. CASE ConfirmInformationTypes
    BY <1>9, ConfirmInformationTypesInvariant
  <1>10. ASSUME NEW a \in Artifacts, AnalyzeDiagram(a) PROVE IInv' /\ HumanTextKept
    BY <1>10, AnalyzeDiagramInvariant
  <1>11. ASSUME NEW v \in Versions, ImportProfile(v) \/ Activate(v)
         PROVE  IInv' /\ HumanTextKept
    BY <1>11, ProfileInvariant
  <1>12. ASSUME NEW v \in Versions, NEW level \in Levels, Migrate(v, level)
         PROVE  IInv' /\ HumanTextKept
    BY <1>12, MigrateInvariant
  <1>13. ASSUME NEW level \in Levels, NEW ev \in SUBSET Artifacts, Categorize(level, ev)
         PROVE  IInv' /\ HumanTextKept
    BY <1>13, CategorizeInvariant
  <1>14. ASSUME NEW a \in Artifacts, IngestEvidence(a) \/ RemoveEvidence(a)
         PROVE  IInv' /\ HumanTextKept
    BY <1>14, IngestInvariant, RemoveInvariant
  <1>15. CASE ApproveRevision
    BY <1>15, ApproveInvariant
  <1>16. CASE UNCHANGED vars
    <2>1. IInv'
      BY <1>16
         DEF vars, IInv, TypeOK, VersionsOK, QuestionsOK, CategorizationOK,
             ConfirmedHasEvidence, ContentOK, SectionsOK, ControlsOK,
             ConfirmedRegistersStand, ApprovedIsExportable, Exportable,
             CategorizationExports, CategorizationBlock, DefinitionExports,
             InformationTypesExport, Items, Ids, ItemsOf, Baseline, ImpactLevel
    <2>2. QED
      BY <1>16, <2>1
  <1>17. QED
    BY <1>1, <1>2, <1>3, <1>4, <1>5, <1>6, <1>7, <1>8, <1>9, <1>10, <1>11, <1>12,
       <1>13, <1>14, <1>15, <1>16 DEF Next

(* The inductive invariant holds in every reachable state.                 *)
THEOREM ContentInvariant == Spec => []IInv
  BY InitInvariant, NextInvariant, PTL DEF Spec

(* Every state is one that the contracts of the revision allow.            *)
THEOREM ContentTypeOK == Spec => []TypeOK
  BY ContentInvariant, PTL DEF IInv

(* A confirmed register is the text that the ISSO confirmed: no            *)
(* generation, patch, diagram analysis or migration of the code replaces   *)
(* it and leaves the confirmation.                                         *)
THEOREM ContentRegistersStand == Spec => []ConfirmedRegistersStand
  BY ContentInvariant, PTL DEF IInv

(* Text that a generation or a patch wrote has evidence, all of it live,   *)
(* although evidence can be removed: removal is refused once there is text.*)
THEOREM ContentTextIsGrounded == Spec => []AgentTextIsGrounded
  <1>1. IInv => AgentTextIsGrounded
    <2>1. ASSUME IInv PROVE AgentTextIsGrounded
      BY <2>1, StateFacts
         DEF AgentTextIsGrounded, SectionsOK, ControlsOK, SectionOK, ControlOK
    <2>2. QED
      BY <2>1
  <1>2. QED
    BY <1>1, ContentInvariant, PTL

(* What approve_workspace_revision lets through, render_approved_export    *)
(* accepts, except when the evidence of a confirmed categorization went.   *)
THEOREM ContentIsExportable == Spec => []ApprovedIsExportable
  BY ContentInvariant, PTL DEF IInv

(* No step of any kind puts a generation's text where the ISSO's stood.    *)
THEOREM ContentHumanTextSurvives == Spec => HumanTextSurvivesGeneration
  <1>1. IInv /\ [Next]_vars => [HumanTextKept]_vars
    BY NextInvariant
  <1>2. HumanTextKept =>
          /\ \A s \in DOMAIN sec \cap DOMAIN sec' :
               sec[s].by = "isso" => sec'[s].by # "model"
          /\ \A c \in DOMAIN ctl \cap DOMAIN ctl' :
               ctl[c].by = "isso" /\ ~ctl[c].reopened => ctl'[c].by # "model"
    BY DEF HumanTextKept
  <1>3. QED
    BY <1>1, <1>2, ContentInvariant, PTL DEF Spec, HumanTextSurvivesGeneration
=============================================================================
