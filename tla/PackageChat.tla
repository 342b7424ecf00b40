---------------------------- MODULE PackageChat ----------------------------
(***************************************************************************)
(* The package assistant beside the SSP assistant of ChatBudget: the usage *)
(* row of an actor for a package revision (package_chat.py), the search    *)
(* index that a confirmation builds and an operator rebuilds               *)
(* (package_search_index.py), and the answers drawn from it.               *)
(*                                                                         *)
(* The calls are those of one actor, each to one of the two assistants; a  *)
(* request is one transaction, which holds the lock of its usage row until *)
(* the answer is given.  A chunk is a file and the number of its part: its *)
(* id is a digest of both and the only primary key of its table.           *)
(***************************************************************************)
EXTENDS ChatBudget, IntakeMap

CONSTANTS PackageRevisions, \* sealed package revisions
          ContentOf,        \* the chunks of each revision's files
          TurnLimit         \* CHAT_TURN_LIMIT

ASSUME TurnLimitAssumption == TurnLimit \in Nat \ {0}

VARIABLES ready,        \* revisions that are confirmed
          chunks,       \* rows of package_revision_search_chunks: [id, revision]
          index,        \* chunk_count of each index row
          counters,     \* usage row of each revision for the actor
          spent,        \* history: the calls that changed a usage row, refused
                        \* ones with no cost
          stray         \* history: citations of content of another revision

packageVars == <<ready, chunks, index, counters, spent, stray>>
allVars == <<budgetVars, packageVars>>

NoCounters == [none |-> TRUE]
Counters == [date : Nat, tokens : Nat, start : Times, requests : Nat, turns : Nat]

AllInit ==
    /\ BudgetInit
    /\ ready = {} /\ chunks = {} /\ index = <<>>
    /\ counters = [r \in PackageRevisions |-> NoCounters]
    /\ spent = {} /\ stray = {}

-----------------------------------------------------------------------------
(* The search index                                                        *)

(* chunk_normalized_text: where the parts of a text start and end          *)
Slices(length, size, overlap) ==
    IF length <= size THEN {<<0, length>>}
    ELSE LET step == size - overlap
             starts == {k * step : k \in 0..length}
         IN {<<s, IF s + size < length THEN s + size ELSE length>> :
               s \in {s \in starts : s = 0 \/ s - step + size < length}}

(* The parts of a text leave nothing out, none is larger than allowed, and *)
(* none repeats only what the part before it holds.                        *)
ASSUME SlicesAssumption ==
    \A length \in 1..9, size \in 2..4 : \A overlap \in 0..(size - 1) :
      LET parts == Slices(length, size, overlap)
      IN /\ UNION {(p[1] + 1)..p[2] : p \in parts} = 1..length
         /\ \A p \in parts : p[1] < p[2] /\ p[2] - p[1] <= size
         /\ \A p, q \in parts : p[1] < q[1] => p[2] < q[2]

FilesOf(r) == {c[1] : c \in ContentOf[r]}

(* collect_searchable_chunks; a file that cannot be read or extracted when *)
(* the index is built is skipped (_load_artifact_texts)                    *)
Searchable(r, readable) == {c \in ContentOf[r] : c[1] \in readable}

(* Mutant: the chunks of every revision are deleted.                       *)
RebuiltAll(r, readable) == [rows |-> {}, pending |-> Searchable(r, readable)]

(* rebuild_revision_search_index: the rows of other revisions that stay,   *)
(* and the chunks that are inserted beside them                            *)
Rebuilt(r, readable) ==
    [rows |-> {row \in chunks : row.revision # r}, pending |-> Searchable(r, readable)]

(* A chunk that another revision holds violates the primary key, and the   *)
(* transaction is rolled back.                                             *)
Inserted(r, b) ==
    /\ \A row \in b.rows : row.id \notin b.pending
    /\ chunks' = b.rows \cup {[id |-> c, revision |-> r] : c \in b.pending}
    /\ index' = [q \in DOMAIN index \cup {r} |->
                   IF q = r THEN Cardinality(b.pending) ELSE index[q]]

(* The end of confirm_package_revision: the revision is ready and indexed  *)
ConfirmAndIndex(r) ==
    /\ r \notin ready
    /\ \E readable \in SUBSET FilesOf(r) : Inserted(r, Rebuilt(r, readable))
    /\ ready' = ready \cup {r}
    /\ UNCHANGED <<budgetVars, counters, spent, stray>>

(* rebuild_package_search_index_sync, the operator command                 *)
RebuildIndex(r) ==
    /\ r \in ready
    /\ \E readable \in SUBSET FilesOf(r) : Inserted(r, Rebuilt(r, readable))
    /\ UNCHANGED <<budgetVars, ready, counters, spent, stray>>

(* search_revision_chunks: the rows a query may rank                       *)
RowsOf(r) == {row.id : row \in {x \in chunks : x.revision = r}}

(* What a query ranks, best first                                          *)
Hits(r) == UNION {{h \in [1..n -> RowsOf(r)] : \A i, j \in 1..n : i # j => h[i] # h[j]} :
                    n \in 0..Cardinality(RowsOf(r))}

-----------------------------------------------------------------------------
(* The answer                                                              *)

(* _model_chat_allowed                                                     *)
ModelChatAllowed(c, s, labels) ==
    /\ Capable(c) /\ s.configured
    /\ labels.sensitivity # "classified"
    /\ ~(c.endpoint = "external_openai" /\ labels.origin = "customer_production")
    /\ c.profile = "onprem_production" => c.approved

(* The checks of _invoke_chat_completion before its call                   *)
Reachable(c, s, labels) ==
    /\ ClientBuilt(s)
    /\ Decision(labels.origin, labels.sensitivity, c.endpoint, c.approved, c.cui) = "allowed"

(* _model_grounded_answer and _format_model_answer: one repair for a reply *)
(* that does not parse, none for a citation that does not hold; whatever   *)
(* fails, the deterministic answer is given instead.                       *)
ModelReplies == {"cites", "off_schema", "bad_citation", "failed"}
ByModel(first, second) == first = "cites" \/ (first = "off_schema" /\ second = "cites")

ModelCanAnswer ==
    \E c \in Configs, s \in Settings, labels \in Labels \ {Unlabelled},
       first, second \in ModelReplies :
      ModelChatAllowed(c, s, labels) /\ Reachable(c, s, labels) /\ ByModel(first, second)

(* validate_citations over _sources_for_hits: the text of a file is that   *)
(* of its first hit, so offsets resolve only in a first part ranked first. *)
Citable(h) ==
    {c \in {h[i] : i \in DOMAIN h} :
       /\ c[2] = 1
       /\ \A i \in DOMAIN h : h[i][1] = c[1] /\ h[i] # c =>
             \E j \in 1..i : h[j] = c}

(* chat_with_package: the citations of an answer                           *)
Citations(h) ==
    {{h[i] : i \in DOMAIN h \cap 1..3}}
    \cup IF ModelCanAnswer THEN SUBSET Citable(h) ELSE {}

-----------------------------------------------------------------------------
(* A call                                                                  *)

(* chat_package_revision: load_chat_context wants a ready revision, then   *)
(* the clock is sampled; evaluate_refusal and validate_question_length end *)
(* a call before anything is charged.                                      *)
Ask(c) ==
    /\ call[c] = New
    /\ \E r \in ready, n \in 1..MaxCost :
         call' = [call EXCEPT ![c] = [phase |-> "asked", now |-> clock,
                                      revision |-> r, cost |-> n]]
    /\ UNCHANGED <<clock, usage, charges, packageVars>>

(* evaluate_refusal, validate_question_length, or a revision not ready     *)
AskRefused(c) ==
    /\ call[c] = New
    /\ call' = [call EXCEPT ![c] = Over]
    /\ UNCHANGED <<clock, usage, charges, packageVars>>

(* Mutant: the usage row is read without a lock.                           *)
RowFreeAlways(c) == TRUE

(* SELECT ... FOR UPDATE waits for the call that holds the row; without a  *)
(* row there is nothing to wait for.                                       *)
RowFree(c) ==
    counters[call[c].revision] # NoCounters =>
      \A d \in Calls : call[d].phase = "holding" => call[d].revision # call[c].revision

(* reserve_chat_usage: the row for a new day, and for a new window         *)
Dated(u, now) == IF u.date = Day(now) THEN u ELSE [u EXCEPT !.date = Day(now), !.tokens = 0]
Windowed(u, now) ==
    IF now >= u.start + Window THEN [Dated(u, now) EXCEPT !.start = now, !.requests = 0]
    ELSE Dated(u, now)

Charged(u, q) ==
    [Windowed(u, q.now) EXCEPT !.requests = @ + 1, !.turns = @ + 1, !.tokens = @ + q.cost]

FirstCharge(q) ==
    [date |-> Day(q.now), tokens |-> q.cost, start |-> q.now, requests |-> 1, turns |-> 1]

OutOfTurns(u) == u.turns >= TurnLimit
OverLimit(u, q) ==
    \/ Windowed(u, q.now).requests >= MaxRequests
    \/ Windowed(u, q.now).tokens + q.cost > DailyLimit

Refused(u, q) ==
    IF u = NoCounters THEN q.cost > DailyLimit ELSE OutOfTurns(u) \/ OverLimit(u, q)

(* What a refused call leaves in the row: it is answered with 422 or 429,  *)
(* which commits what it did there                                         *)
AfterRefusal(u, q) ==
    CASE u = NoCounters -> NoCounters
      [] u # NoCounters /\ OutOfTurns(u) -> Dated(u, q.now)
      [] OTHER -> Windowed(u, q.now)

(* History: a call that changed the usage row, with the newest time that   *)
(* reached the row until then                                              *)
Touches(r) == {x \in spent : x.revision = r}
Touch(c, q, cost) ==
    [call |-> c, revision |-> q.revision, now |-> q.now,
     newest |-> NewestOf(Touches(q.revision), q.now), cost |-> cost]

(* A row nobody has yet is not locked by those who want it                 *)
ReservePackage(c) ==
    LET q == call[c]
        u == counters[q.revision]
        held == [phase |-> "holding", now |-> q.now, revision |-> q.revision,
                 cost |-> q.cost, first |-> u = NoCounters,
                 row |-> IF u = NoCounters THEN FirstCharge(q) ELSE Charged(u, q)]
    IN /\ q.phase = "asked"
       /\ RowFree(c)
       /\ \/ /\ Refused(u, q)
             /\ call' = [call EXCEPT ![c] = Over]
             /\ counters' = [counters EXCEPT ![q.revision] = AfterRefusal(u, q)]
             /\ spent' = IF u = NoCounters THEN spent ELSE spent \cup {Touch(c, q, 0)}
          \/ /\ ~Refused(u, q)
             /\ call' = [call EXCEPT ![c] = held]
             /\ UNCHANGED <<counters, spent>>
       /\ UNCHANGED <<clock, usage, charges, ready, chunks, index, stray>>

(* chat_with_package after the reservation: the search, the answer and the *)
(* commit.  The first row of an actor is inserted by one call only.        *)
Answer(c) ==
    LET q == call[c]
        r == q.revision
    IN /\ q.phase = "holding"
       /\ r \in DOMAIN index
       /\ q.first => counters[r] = NoCounters
       /\ \E foreign \in {cited \ ContentOf[r] : cited \in UNION {Citations(h) : h \in Hits(r)}} :
            stray' = stray \cup foreign
       /\ counters' = [counters EXCEPT ![r] = q.row]
       /\ spent' = spent \cup {Touch(c, q, q.cost)}
       /\ call' = [call EXCEPT ![c] = Over]
       /\ UNCHANGED <<clock, usage, charges, ready, chunks, index>>

(* The row was inserted meanwhile, the query is too long to be searched,   *)
(* or the request is cut off: everything is rolled back.                   *)
AnswerFails(c) ==
    /\ call[c].phase \in {"asked", "holding"}
    /\ call' = [call EXCEPT ![c] = Over]
    /\ UNCHANGED <<clock, usage, charges, packageVars>>

PackageStep(c) ==
    \/ Ask(c) \/ AskRefused(c) \/ ReservePackage(c) \/ Answer(c) \/ AnswerFails(c)

AllNext ==
    \/ BudgetNext /\ UNCHANGED packageVars
    \/ \E r \in PackageRevisions : ConfirmAndIndex(r) \/ RebuildIndex(r)
    \/ \E c \in Calls : PackageStep(c)

AllSpec == AllInit /\ [][AllNext]_allVars

-----------------------------------------------------------------------------
(* Properties                                                              *)

(* What the limits of a usage row are worth for what was really committed, *)
(* however calls race for a row that does not exist yet, overtake each     *)
(* other, fail and are rolled back, or cross midnight (reserve_chat_usage):*)
(* an actor never gets more turns on a revision than the limit; no more    *)
(* requests, while the newest time that reached the row passes one window  *)
(* length, than two windows hold; and on a day no more tokens than the     *)
(* limit and once more for each call, charged or refused, that was         *)
(* overtaken over a midnight and turned the row back.                      *)
PackageBudgetHolds ==
    \A r \in PackageRevisions :
      LET charged == {x \in Touches(r) : x.cost > 0}
      IN /\ Cardinality(charged) <= TurnLimit
         /\ \A d \in 0..Day(MaxTime) :
              MapThenSumSet(LAMBDA x : x.cost, {x \in Touches(r) : Day(x.now) = d})
                <= DailyLimit * (1 + Cardinality(Overnight(Touches(r), d)))
         /\ \A t \in Times :
              Cardinality({x \in charged : x.newest \in t..(t + Window - 1)})
                <= 2 * MaxRequests

(* A revision that is ready can be searched, its index row counts the      *)
(* chunks that are really there, each from its own files, and no answer    *)
(* ever cited content that the revision asked about does not contain,      *)
(* whatever is confirmed and rebuilt around it                             *)
(* (rebuild_revision_search_index, search_revision_chunks).                *)
IndexMatchesContent ==
    /\ ready = DOMAIN index
    /\ \A r \in ready : index[r] = Cardinality(RowsOf(r)) /\ RowsOf(r) \subseteq ContentOf[r]
    /\ \A x, y \in chunks : x.id = y.id => x = y
    /\ stray = {}
=============================================================================
