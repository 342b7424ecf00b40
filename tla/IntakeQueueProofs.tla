-------------------------- MODULE IntakeQueueProofs --------------------------
(***************************************************************************)
(* Proofs about IntakeQueue for every set of workers and revisions, every  *)
(* attempt budget, every heartbeat interval and packages of any length:    *)
(* the tables of the queue agree, the model is called at most twice for an *)
(* artifact, the report tells what the queue does, and intake implements   *)
(* the lifecycle it promises.                                              *)
(***************************************************************************)
EXTENDS IntakeQueue, TLAPS

-----------------------------------------------------------------------------
(* The inductive invariant.  Its parts are predicates on values, so that   *)
(* one reads the same before and after a step.                             *)

(* A work row and its attempt rows                                         *)
Agrees(row, log) ==
    /\ row.attempts = Len(log)
    /\ row.attempts <= MaxAttempts
    /\ {n \in DOMAIN log : log[n] = "active"}
         = IF row.status = "leased" THEN {Len(log)} ELSE {}
    /\ {n \in DOMAIN log : log[n] = "succeeded"}
         = IF row.status = "completed" THEN {Len(log)} ELSE {}
    /\ row.status = "none" => log = <<>>

AttemptsAgree ==
    \A r \in Revisions, p \in Phases : Agrees(work[r][p], attempts[r][p])

(* How far a revision is, told by its status and by its two work rows      *)
Unfinished == {"available", "leased", "failed", "reconciliation_required"}

Stage(status, scan, extract) ==
    \/ status = "uploading" /\ scan = "none" /\ extract = "none"
    \/ status = "scanning" /\ scan \in Unfinished /\ extract = "none"
    \/ status = "extracting" /\ scan = "completed" /\ extract \in Unfinished
    \/ status = "awaiting_confirmation" /\ scan = "completed" /\ extract = "completed"
    \/ status = "quarantined" /\ scan = "completed" /\ extract = "none"
    \/ status = "invalid" /\ scan = "completed" /\ extract \in {"none", "completed"}

StagesAgree ==
    \A r \in Revisions :
      Stage(revision[r].status, work[r]["malware_scan"].status,
            work[r]["deterministic_extract"].status)

DraftsAgree ==
    \A r \in Revisions : draft[r] # {} <=> revision[r].status = "awaiting_confirmation"

(* The rows of the artifacts are those of the package.                     *)
ShapesAgree ==
    \A r \in Revisions :
      /\ DOMAIN artifacts[r].scan = Artifacts(r)
      /\ DOMAIN steps[r] = Artifacts(r)
      /\ DOMAIN invoked[r] = Artifacts(r)

(* A MAP step row, and the calls made for it                               *)
Counted(step, n, status) ==
    /\ n <= 2
    /\ step.status \in {"none", "reserved"} => n = 0 /\ step.calls = 0
    /\ step.status = "running" => n <= step.calls
    /\ status = "awaiting_confirmation" =>
         step.status \in {"completed", "failed", "policy_blocked"}

StepsAgree ==
    \A r \in Revisions : \A a \in Artifacts(r) :
      Counted(steps[r][a], invoked[r][a], revision[r].status)

(* What a worker holds of the revision row it has read: one that has the   *)
(* same version also has the same metadata.                                *)
Snapshot(q, row) ==
    /\ q.version <= row.version
    /\ q.version = row.version => q.metadata = row.metadata

(* How far a worker has come with a package, and what it has found         *)
Before == {"idle", "polling", "claimed"}
Computing == {"computing", "heartbeat"}
Mapping == {"mapping", "reserved", "calling", "repairing"}

Progress(q, package) ==
    /\ q.phase \in Before => q.index = 0
    /\ q.phase \in Before \cup Computing => q.calls = 0 /\ q.results = <<>>
    /\ q.phase \in Before \cup Computing \cup Mapping => q.outcome = "none"
    /\ q.phase \in Computing \cup Mapping => q.index < Len(package)
    /\ q.phase \in Computing /\ q.work = "malware_scan" =>
         \A a \in 1..q.index : package[a] = "clean"
    /\ q.phase \in Mapping => q.work = "deterministic_extract" /\ Len(q.results) = q.index
    /\ q.phase \in {"mapping", "reserved"} => q.calls = 0
    /\ q.phase = "repairing" => q.calls = 1

Found(q, package) ==
    /\ q.outcome = "all_clean" =>
         q.work = "malware_scan" /\ \A a \in DOMAIN package : package[a] = "clean"
    /\ q.outcome = "quarantined" =>
         /\ q.work = "malware_scan"
         /\ q.index < Len(package) /\ package[q.index + 1] = "infected"
    /\ q.outcome = "invalid" /\ q.work = "malware_scan" =>
         \E a \in DOMAIN package : package[a] = "mistyped"
    /\ q.outcome = "succeeded" =>
         q.work = "deterministic_extract" /\ Len(q.results) = Len(package)

Holds(q, package, row) == Snapshot(q, row) /\ Progress(q, package) /\ Found(q, package)

WorkersHold ==
    \A w \in Workers :
      Holds(worker[w], content[worker[w].revision], revision[worker[w].revision])

(* A worker between the record of a call and what follows its answer: the  *)
(* calls it knows of are all the calls made, and one it is about to make   *)
(* has been recorded.                                                      *)
Calling(q) == q.phase \in {"calling", "repairing"}

Recorded(q, step, n) ==
    /\ n = q.calls
    /\ step.status \notin {"none", "reserved"}
    /\ step.status = "running" => step.calls >= n + (IF q.phase = "calling" THEN 1 ELSE 0)

CallsRecorded ==
    \A w \in Workers : Calling(worker[w]) =>
      Recorded(worker[w], MapStep(w), invoked[worker[w].revision][worker[w].index + 1])

(* No two workers call for the same artifact.                              *)
SameArtifact(p, q) == p.revision = q.revision /\ p.index = q.index

OneCaller ==
    \A v, w \in Workers :
      Calling(worker[v]) /\ Calling(worker[w]) /\ SameArtifact(worker[v], worker[w]) => v = w

IInv ==
    /\ TypeOK /\ ShapesAgree
    /\ AttemptsAgree /\ StagesAgree /\ DraftsAgree /\ StepsAgree
    /\ WorkersHold /\ CallsRecorded /\ OneCaller

-----------------------------------------------------------------------------
(* The values                                                              *)

(* The package of a revision is a sequence that is not empty.              *)
LEMMA PackageFacts ==
    ASSUME NEW package \in Packages
    PROVE  /\ package \in Seq(Contents)
           /\ Len(package) \in Nat \ {0}
           /\ DOMAIN package = 1..Len(package)
  <1>1. PICK n \in DOMAIN MaxVersion : package \in [1..n -> Contents]
    BY DEF Packages
  <1>2. n \in Nat \ {0}
    BY CountsAssumption
  <1>3. QED
    BY <1>1, <1>2

LEMMA UnleasedFacts ==
    ASSUME NEW row \in Work, NEW status \in Unfinished \cup {"completed"}
    PROVE  /\ Unleased(row, status) \in Work
           /\ Unleased(row, status).status = status
           /\ Unleased(row, status).attempts = row.attempts
  BY DEF Unleased, Work, Unfinished

LEMMA BootstrappedFacts ==
    ASSUME NEW r \in Revisions, revision[r] \in Revision
    PROVE  /\ Bootstrapped(r) \in Work
           /\ Bootstrapped(r).status = "available"
           /\ Bootstrapped(r).attempts = 0
  <1>1. NoWork \in Work /\ NoWork.attempts = 0
    BY DEF NoWork, Work
  <1>2. PICK version \in Nat : version = revision[r].version + 1
    BY DEF Revision
  <1>3. ASSUME NEW row \in Work, row.attempts = 0
        PROVE  /\ [row EXCEPT !.status = "available", !.version = version] \in Work
               /\ [row EXCEPT !.status = "available", !.version = version].attempts = 0
               /\ [row EXCEPT !.status = "available", !.version = version].status = "available"
    BY <1>3 DEF Work
  <1>4. Bootstrapped(r) = [NoWork EXCEPT !.status = "available", !.version = version]
    BY <1>2 DEF Bootstrapped
  <1>5. QED
    BY <1>1, <1>3, <1>4

(* A worker that holds nothing                                             *)
LEMMA IdleFacts ==
    /\ Idle \in Claimed
    /\ ~Calling(Idle)
    /\ Idle.phase = "idle" /\ Idle.outcome = "none"
    /\ \A package, row : row \in Revision => Holds(Idle, package, row)
  <1>1. Idle.revision \in Revisions
    BY RevisionsAssumption DEF Idle
  <1>2. Idle.seen \in ArtifactRows
    BY DEF Idle, ArtifactRows
  <1>3. Idle \in Claimed
    BY <1>1, <1>2 DEF Idle, Claimed, Phases
  <1>4. /\ Idle.phase = "idle" /\ Idle.outcome = "none" /\ Idle.index = 0
        /\ Idle.calls = 0 /\ Idle.results = <<>> /\ Idle.version = 0
        /\ Idle.metadata = 0
    BY DEF Idle
  <1>5. ASSUME NEW package, NEW row \in Revision PROVE Holds(Idle, package, row)
    BY <1>4, <1>5 DEF Holds, Snapshot, Progress, Found, Before, Computing, Mapping, Revision
  <1>6. QED
    BY <1>3, <1>4, <1>5 DEF Calling

(* An attempt ends: what EndAttempt writes                                 *)
Ended(log, outcome) ==
    [n \in DOMAIN log |-> IF log[n] = "active" THEN outcome ELSE log[n]]

LEMMA EndedLog ==
    ASSUME NEW r \in Revisions, NEW p \in Phases, NEW outcome, TypeOK,
           EndAttempt(r, p, outcome)
    PROVE  attempts' = [attempts EXCEPT ![r] =
                          [@ EXCEPT ![p] = Ended(attempts[r][p], outcome)]]
  BY DEF EndAttempt, ActiveAttempts, Ended, TypeOK

LEMMA EndedType ==
    ASSUME NEW log \in Seq(AttemptRow), NEW outcome \in {"succeeded", "failed"}
    PROVE  /\ Ended(log, outcome) \in Seq(AttemptRow)
           /\ Len(Ended(log, outcome)) = Len(log)
           /\ DOMAIN Ended(log, outcome) = DOMAIN log
  <1>1. DOMAIN log = 1..Len(log) /\ Len(log) \in Nat
    OBVIOUS
  <1>2. Ended(log, outcome) \in [1..Len(log) -> AttemptRow]
    BY <1>1 DEF Ended, AttemptRow
  <1>3. QED
    BY <1>1, <1>2

(* A leased row that ends its attempt agrees with it.                      *)
LEMMA AgreesEnded ==
    ASSUME NEW row \in Work, NEW log \in Seq(AttemptRow), Agrees(row, log),
           row.status = "leased", NEW outcome \in {"succeeded", "failed"},
           NEW next, next.attempts = row.attempts,
           \/ next.status = "completed" /\ outcome = "succeeded"
           \/ next.status \in Unfinished \ {"leased"} /\ outcome = "failed"
    PROVE  Agrees(next, Ended(log, outcome))
  <1>1. /\ Ended(log, outcome) \in Seq(AttemptRow)
        /\ Len(Ended(log, outcome)) = Len(log)
        /\ DOMAIN Ended(log, outcome) = DOMAIN log
    BY EndedType
  <1>2. {n \in DOMAIN log : Ended(log, outcome)[n] = "active"} = {}
    BY DEF Ended
  <1>3. /\ {n \in DOMAIN log : log[n] = "active"} = {Len(log)}
        /\ {n \in DOMAIN log : log[n] = "succeeded"} = {}
    BY DEF Agrees
  <1>4. {n \in DOMAIN log : Ended(log, outcome)[n] = "succeeded"}
          = IF outcome = "succeeded" THEN {Len(log)} ELSE {}
    BY <1>3 DEF Ended
  <1>5. QED
    BY <1>1, <1>2, <1>4 DEF Agrees, Unfinished

(* A claim: one more attempt, and it is the active one.                    *)
LEMMA AgreesClaimed ==
    ASSUME NEW row \in Work, NEW log \in Seq(AttemptRow), Agrees(row, log),
           row.status = "available", row.attempts < MaxAttempts,
           NEW next, next.attempts = row.attempts + 1, next.status = "leased"
    PROVE  Agrees(next, Append(log, "active"))
  <1>1. Len(log) \in Nat /\ DOMAIN log = 1..Len(log) /\ row.attempts = Len(log)
    BY DEF Agrees
  <1> DEFINE longer == Append(log, "active")
  <1>2. /\ Len(longer) = Len(log) + 1
        /\ \A n \in 1..Len(log) : longer[n] = log[n]
        /\ longer[Len(log) + 1] = "active"
        /\ DOMAIN longer = 1..(Len(log) + 1)
    BY <1>1
  <1>3. \A n \in DOMAIN log : log[n] \notin {"active", "succeeded"}
    BY DEF Agrees
  <1> HIDE DEF longer
  <1>4. {n \in DOMAIN longer : longer[n] = "active"} = {Len(longer)}
    BY <1>1, <1>2, <1>3
  <1>5. {n \in DOMAIN longer : longer[n] = "succeeded"} = {}
    BY <1>1, <1>2, <1>3
  <1>6. next.attempts <= MaxAttempts
    BY <1>1, CountsAssumption
  <1>7. Agrees(next, longer)
    BY <1>1, <1>2, <1>4, <1>5, <1>6 DEF Agrees
  <1>8. QED
    BY <1>7 DEF longer

-----------------------------------------------------------------------------
(* How a step disturbs the workers and their calls                         *)

(* A revision row stays as it is or gets a higher version.                 *)
Grows(row, next) == next = row \/ next.version > row.version

RevisionsGrow == \A r \in Revisions : Grows(revision[r], revision'[r])

LEMMA WorkersKept ==
    ASSUME IInv, TypeOK', content' = content, RevisionsGrow,
           \A v \in Workers :
             worker'[v] = worker[v]
               \/ Holds(worker'[v], content[worker'[v].revision],
                        revision'[worker'[v].revision])
    PROVE  WorkersHold'
  <1> SUFFICES ASSUME NEW v \in Workers, worker'[v] = worker[v]
               PROVE  Holds(worker'[v], content[worker'[v].revision],
                            revision'[worker'[v].revision])
    BY DEF WorkersHold
  <1>1. PICK r \in Revisions : r = worker[v].revision
    BY DEF IInv, TypeOK, Claimed
  <1>2. worker[v].version \in Nat /\ revision[r] \in Revision /\ revision'[r] \in Revision
    BY DEF IInv, TypeOK, Claimed
  <1>3. Holds(worker[v], content[r], revision[r])
    BY <1>1 DEF IInv, WorkersHold
  <1>4. Snapshot(worker[v], revision'[r])
    BY <1>2, <1>3 DEF Holds, Snapshot, RevisionsGrow, Grows, Revision
  <1>5. QED
    BY <1>1, <1>3, <1>4 DEF Holds

(* Worker w stops calling, or did not; the others find their steps as they *)
(* recorded them.                                                          *)
LEMMA CallsKept ==
    ASSUME IInv, NEW w \in Workers, \A v \in Workers \ {w} : worker'[v] = worker[v],
           ~Calling(worker'[w]),
           \A v \in Workers \ {w} : Calling(worker[v]) =>
             Recorded(worker[v], steps'[worker[v].revision][worker[v].index + 1],
                      invoked'[worker[v].revision][worker[v].index + 1])
    PROVE  CallsRecorded' /\ OneCaller'
  <1>1. CallsRecorded'
    BY DEF CallsRecorded, MapStep
  <1>2. OneCaller'
    BY DEF IInv, OneCaller
  <1>3. QED
    BY <1>1, <1>2

LEMMA CallsUnchanged ==
    ASSUME IInv, NEW w \in Workers, \A v \in Workers \ {w} : worker'[v] = worker[v],
           ~Calling(worker'[w]), UNCHANGED <<steps, invoked>>
    PROVE  CallsRecorded' /\ OneCaller'
  <1>1. \A v \in Workers \ {w} : Calling(worker[v]) =>
          Recorded(worker[v], steps'[worker[v].revision][worker[v].index + 1],
                   invoked'[worker[v].revision][worker[v].index + 1])
    BY DEF IInv, CallsRecorded, MapStep
  <1>2. QED
    BY <1>1, CallsKept

(* What a worker holds changes.                                            *)
LEMMA HeldType ==
    ASSUME IInv, NEW w \in Workers, NEW q \in Claimed, Hold(w, q)
    PROVE  /\ worker' \in [Workers -> Claimed]
           /\ worker'[w] = q
           /\ \A v \in Workers \ {w} : worker'[v] = worker[v]
  BY DEF IInv, TypeOK, Hold

(* Worker w comes to hold what is in order, and not a call.                *)
Moves(w) ==
    \E q \in Claimed :
      Hold(w, q) /\ ~Calling(q) /\ Holds(q, content[q.revision], revision'[q.revision])

LEMMA MovesFacts ==
    ASSUME IInv, NEW w \in Workers, Moves(w)
    PROVE  /\ worker' \in [Workers -> Claimed]
           /\ ~Calling(worker'[w])
           /\ \A v \in Workers \ {w} : worker'[v] = worker[v]
           /\ Holds(worker'[w], content[worker'[w].revision], revision'[worker'[w].revision])
  BY HeldType DEF Moves

(* A step of a worker that writes no row and makes no call                 *)
LEMMA WorkerOnly ==
    ASSUME IInv, NEW w \in Workers, Moves(w), UNCHANGED <<content, rows, invoked>>
    PROVE  IInv'
  <1>1. TypeOK'
    BY MovesFacts DEF IInv, TypeOK, rows
  <1>2. ShapesAgree' /\ AttemptsAgree' /\ StagesAgree' /\ DraftsAgree' /\ StepsAgree'
    BY DEF IInv, rows, ShapesAgree, AttemptsAgree, StagesAgree, DraftsAgree, StepsAgree,
           Artifacts
  <1>3. RevisionsGrow
    BY DEF RevisionsGrow, Grows, rows
  <1>4. WorkersHold'
    BY <1>1, <1>3, MovesFacts, WorkersKept DEF rows
  <1>5. CallsRecorded' /\ OneCaller'
    BY MovesFacts, CallsUnchanged DEF rows
  <1>6. QED
    BY <1>1, <1>2, <1>4, <1>5 DEF IInv

-----------------------------------------------------------------------------
(* What a worker may come to hold                                          *)

LEMMA WorkerFacts ==
    ASSUME IInv, NEW w \in Workers
    PROVE  /\ worker[w] \in Claimed
           /\ worker[w].revision \in Revisions /\ worker[w].work \in Phases
           /\ content[worker[w].revision] \in Packages
           /\ revision[worker[w].revision] \in Revision
           /\ Len(content[worker[w].revision]) \in Nat \ {0}
           /\ DOMAIN content[worker[w].revision] = 1..Len(content[worker[w].revision])
           /\ Holds(worker[w], content[worker[w].revision], revision[worker[w].revision])
  <1>1. worker[w] \in Claimed /\ worker[w].revision \in Revisions /\ worker[w].work \in Phases
    BY DEF IInv, TypeOK, Claimed
  <1>2. content[worker[w].revision] \in Packages /\ revision[worker[w].revision] \in Revision
    BY <1>1 DEF IInv, TypeOK
  <1>3. QED
    BY <1>1, <1>2, PackageFacts DEF IInv, WorkersHold

LEMMA ForgetMoves ==
    ASSUME NEW w \in Workers, Forget(w), revision' \in [Revisions -> Revision]
    PROVE  Moves(w)
  <1>1. Idle.revision \in Revisions
    BY IdleFacts DEF Claimed
  <1>2. Holds(Idle, content[Idle.revision], revision'[Idle.revision])
    BY <1>1, IdleFacts
  <1>3. QED
    BY <1>2, IdleFacts DEF Moves, Forget

(* The claim is given up as ambiguous.                                     *)
LEMMA ReconcilingMoves ==
    ASSUME IInv, NEW w \in Workers, Become(w, "reconciling"), revision' = revision
    PROVE  Moves(w)
  <1> DEFINE q == [worker[w] EXCEPT !.phase = "reconciling"]
  <1>1. /\ q \in Claimed /\ q.phase = "reconciling" /\ q.revision = worker[w].revision
        /\ q.outcome = worker[w].outcome /\ q.index = worker[w].index
        /\ q.work = worker[w].work /\ q.results = worker[w].results
        /\ q.version = worker[w].version /\ q.metadata = worker[w].metadata
    BY WorkerFacts DEF Claimed
  <1>2. Hold(w, q)
    BY DEF Become
  <1> HIDE DEF q
  <1>3. Found(q, content[q.revision])
    <2>1. Found(worker[w], content[worker[w].revision])
      BY WorkerFacts DEF Holds
    <2>2. QED
      BY <1>1, <2>1 DEF Found
  <1>4. Holds(q, content[q.revision], revision[q.revision])
    BY <1>1, <1>3, WorkerFacts DEF Holds, Snapshot, Progress, Before, Computing, Mapping
  <1>5. QED
    BY <1>1, <1>2, <1>4 DEF Moves, Calling

(* The computation ends with an outcome that the package justifies.        *)
LEMMA ConcludeMoves ==
    ASSUME IInv, NEW w \in Workers,
           NEW outcome \in {"all_clean", "quarantined", "invalid", "retryable"},
           worker[w].phase = "computing", Conclude(w, outcome), revision' = revision,
           \A q : /\ q.outcome = outcome
                  /\ q.work = worker[w].work /\ q.index = worker[w].index
                  => Found(q, content[worker[w].revision])
    PROVE  Moves(w)
  <1> DEFINE q == [worker[w] EXCEPT !.phase = "persisting", !.outcome = outcome]
  <1>1. /\ q \in Claimed /\ q.phase = "persisting" /\ q.revision = worker[w].revision
        /\ q.outcome = outcome /\ q.index = worker[w].index
        /\ q.work = worker[w].work /\ q.results = worker[w].results
        /\ q.version = worker[w].version /\ q.metadata = worker[w].metadata
    BY WorkerFacts DEF Claimed
  <1>2. Hold(w, q)
    BY DEF Conclude
  <1> HIDE DEF q
  <1>3. Found(q, content[q.revision])
    BY <1>1
  <1>4. Holds(q, content[q.revision], revision[q.revision])
    BY <1>1, <1>3, WorkerFacts DEF Holds, Snapshot, Progress, Before, Computing, Mapping
  <1>5. QED
    BY <1>1, <1>2, <1>4 DEF Moves, Calling

LEMMA NextArtifactMoves ==
    ASSUME IInv, NEW w \in Workers, NEW beat, worker[w].phase = "computing",
           NextArtifact(w, beat), revision' = revision,
           worker[w].index + 1 # Len(content[worker[w].revision]),
           worker[w].work = "malware_scan" =>
             content[worker[w].revision][worker[w].index + 1] = "clean"
    PROVE  Moves(w)
  <1> DEFINE done == worker[w].index + 1
             phase == IF done % beat = 0 THEN "heartbeat" ELSE "computing"
             q == [worker[w] EXCEPT !.index = done, !.phase = phase]
  <1>1. done \in Nat /\ phase \in Computing
    BY WorkerFacts DEF Claimed, Computing
  <1>2. Hold(w, q)
    BY DEF NextArtifact
  <1> HIDE DEF done, phase
  <1>3. /\ q \in Claimed /\ q.phase = phase /\ q.revision = worker[w].revision
        /\ q.outcome = worker[w].outcome /\ q.index = done /\ q.calls = worker[w].calls
        /\ q.work = worker[w].work /\ q.results = worker[w].results
        /\ q.version = worker[w].version /\ q.metadata = worker[w].metadata
    BY <1>1, WorkerFacts DEF Claimed, Computing
  <1> HIDE DEF q
  <1>4. /\ worker[w].index \in Nat /\ worker[w].index < Len(content[worker[w].revision])
        /\ worker[w].outcome = "none"
        /\ worker[w].calls = 0 /\ worker[w].results = <<>>
        /\ worker[w].work = "malware_scan" =>
             \A a \in 1..worker[w].index : content[worker[w].revision][a] = "clean"
    BY WorkerFacts DEF Claimed, Holds, Progress, Computing
  <1>5. done < Len(content[worker[w].revision])
    BY <1>4, WorkerFacts DEF done
  <1>6. worker[w].work = "malware_scan" =>
          \A a \in 1..done : content[worker[w].revision][a] = "clean"
    BY <1>4 DEF done
  <1>7. Progress(q, content[q.revision]) /\ Found(q, content[q.revision])
    BY <1>1, <1>3, <1>4, <1>5, <1>6 DEF Progress, Found, Before, Computing, Mapping
  <1>8. Holds(q, content[q.revision], revision[q.revision])
    BY <1>3, <1>7, WorkerFacts DEF Holds, Snapshot
  <1>9. QED
    BY <1>1, <1>2, <1>3, <1>8 DEF Moves, Calling, Computing

(* The result of an artifact is known.                                     *)
LEMMA FinishMoves ==
    ASSUME IInv, NEW w \in Workers, worker[w].phase \in {"reserved", "calling"},
           NEW status \in {"completed", "failed", "policy_blocked"}, NEW calls \in 0..2,
           Finish(w, status, calls), revision' = revision
    PROVE  Moves(w)
  <1> DEFINE package == content[worker[w].revision]
             done == worker[w].index + 1
             result == [status |-> status, calls |-> calls]
             longer == Append(worker[w].results, result)
             held == [worker[w] EXCEPT !.calls = 0, !.results = longer]
  <1>1. /\ worker[w].index \in Nat /\ worker[w].index < Len(package)
        /\ worker[w].work = "deterministic_extract"
        /\ Len(worker[w].results) = worker[w].index
        /\ worker[w].results \in Seq(Result)
        /\ worker[w].outcome = "none"
        /\ Snapshot(worker[w], revision[worker[w].revision])
    BY WorkerFacts DEF Claimed, Holds, Progress, Mapping
  <1>2. result \in Result
    BY DEF Result
  <1>3. longer \in Seq(Result) /\ Len(longer) = done /\ done \in Nat
    BY <1>1, <1>2
  <1> HIDE DEF longer, done
  <1>4. /\ held \in Claimed /\ held.calls = 0 /\ held.results = longer
        /\ held.work = "deterministic_extract" /\ held.revision = worker[w].revision
        /\ held.outcome = "none"
        /\ held.version = worker[w].version /\ held.metadata = worker[w].metadata
    <2>1. worker[w] \in Claimed
      BY WorkerFacts
    <2>2. ASSUME NEW q \in Claimed, NEW results \in Seq(Result), NEW n \in 0..1
          PROVE  [q EXCEPT !.calls = n, !.results = results] \in Claimed
      BY DEF Claimed
    <2>3. PICK n \in 0..1 : n = 0
      OBVIOUS
    <2>4. held = [worker[w] EXCEPT !.calls = n, !.results = longer]
      BY <2>3
    <2>5. held \in Claimed
      BY <1>3, <2>1, <2>2, <2>4
    <2>6. QED
      BY <1>1, <2>1, <2>5 DEF Claimed
  <1>5. CASE done = Len(package)
    <2> DEFINE q == [held EXCEPT !.phase = "persisting", !.outcome = "succeeded"]
    <2>1. Hold(w, q)
      BY <1>5 DEF Finish, done, longer
    <2> HIDE DEF held
    <2>2. /\ q \in Claimed /\ q.phase = "persisting" /\ q.outcome = "succeeded"
          /\ q.results = longer /\ q.work = "deterministic_extract"
          /\ q.revision = worker[w].revision
          /\ q.version = worker[w].version /\ q.metadata = worker[w].metadata
      BY <1>4 DEF Claimed
    <2> HIDE DEF q
    <2>3. Holds(q, content[q.revision], revision[q.revision])
      BY <1>1, <1>3, <1>5, <2>2
         DEF Holds, Snapshot, Progress, Found, Before, Computing, Mapping
    <2>4. QED
      BY <2>1, <2>2, <2>3 DEF Moves, Calling
  <1>6. CASE done # Len(package)
    <2> DEFINE q == [held EXCEPT !.phase = "mapping", !.index = done]
    <2>1. Hold(w, q)
      BY <1>6 DEF Finish, done, longer
    <2> HIDE DEF held
    <2>2. /\ q \in Claimed /\ q.phase = "mapping" /\ q.outcome = "none"
          /\ q.results = longer /\ q.work = "deterministic_extract" /\ q.index = done
          /\ q.calls = 0 /\ q.revision = worker[w].revision
          /\ q.version = worker[w].version /\ q.metadata = worker[w].metadata
      BY <1>3, <1>4 DEF Claimed
    <2> HIDE DEF q
    <2>3. done < Len(package)
      BY <1>1, <1>6, WorkerFacts DEF done
    <2>4. Holds(q, content[q.revision], revision[q.revision])
      BY <1>1, <1>3, <2>2, <2>3
         DEF Holds, Snapshot, Progress, Found, Before, Computing, Mapping
    <2>5. QED
      BY <2>1, <2>2, <2>4 DEF Moves, Calling
  <1>7. QED
    BY <1>5, <1>6

-----------------------------------------------------------------------------
(* Steps of a worker that write no row                                     *)

LEMMA PollNextInvariant ==
    ASSUME IInv, NEW w \in Workers, PollNext(w)
    PROVE  IInv'
  <1>1. revision' = revision /\ revision' \in [Revisions -> Revision]
    BY DEF PollNext, rows, IInv, TypeOK
  <1>2. CASE worker[w].work = "deterministic_extract"
    <2> DEFINE q == [worker[w] EXCEPT !.work = "malware_scan"]
    <2>1. Hold(w, q)
      BY <1>2 DEF PollNext
    <2>2. /\ q \in Claimed /\ q.phase = "polling" /\ q.revision = worker[w].revision
          /\ q.outcome = worker[w].outcome /\ q.index = worker[w].index
          /\ q.calls = worker[w].calls /\ q.results = worker[w].results
          /\ q.version = worker[w].version /\ q.metadata = worker[w].metadata
      BY WorkerFacts DEF Claimed, Phases, PollNext
    <2> HIDE DEF q
    <2>3. worker[w].phase \in Before
      BY DEF PollNext, Before
    <2>4. Holds(q, content[q.revision], revision[q.revision])
      BY <2>2, <2>3, WorkerFacts
         DEF Holds, Snapshot, Progress, Found, Before, Computing, Mapping
    <2>5. Moves(w)
      BY <1>1, <2>1, <2>2, <2>4 DEF Moves, Calling
    <2>6. QED
      BY <2>5, WorkerOnly DEF PollNext
  <1>3. CASE worker[w].work # "deterministic_extract"
    BY <1>1, <1>3, ForgetMoves, WorkerOnly DEF PollNext
  <1>4. QED
    BY <1>2, <1>3

LEMMA LoadSnapshotInvariant ==
    ASSUME IInv, NEW w \in Workers, LoadSnapshot(w)
    PROVE  IInv'
  <1> DEFINE r == worker[w].revision
             q == [worker[w] EXCEPT !.phase = "computing",
                     !.version = revision[r].version, !.metadata = revision[r].metadata,
                     !.seen = artifacts[r]]
  <1>1. revision' = revision /\ revision' \in [Revisions -> Revision]
    BY DEF LoadSnapshot, rows, IInv, TypeOK
  <1>2. ASSUME Hold(w, q) PROVE Moves(w)
    <2>1. /\ worker[w] \in Claimed /\ artifacts[r] \in ArtifactRows
          /\ revision[r].version \in Nat /\ revision[r].metadata \in Nat
      BY WorkerFacts DEF IInv, TypeOK, Revision
    <2>2. /\ q \in Claimed /\ q.phase = "computing" /\ q.revision = r
          /\ q.outcome = worker[w].outcome /\ q.index = worker[w].index
          /\ q.calls = worker[w].calls /\ q.results = worker[w].results
          /\ q.version = revision[r].version /\ q.metadata = revision[r].metadata
      BY <2>1 DEF Claimed
    <2>3. /\ worker[w].index = 0 /\ worker[w].calls = 0 /\ worker[w].results = <<>>
          /\ worker[w].outcome = "none"
      BY WorkerFacts DEF LoadSnapshot, Holds, Progress, Before
    <2> HIDE DEF q
    <2>4. Progress(q, content[r]) /\ Found(q, content[r])
      BY <2>2, <2>3, WorkerFacts DEF Progress, Found, Before, Computing, Mapping
    <2>5. Snapshot(q, revision[r])
      BY <2>1, <2>2 DEF Snapshot
    <2>6. QED
      BY <1>1, <1>2, <2>2, <2>4, <2>5 DEF Moves, Holds, Calling
  <1>3. Hold(w, q) \/ Forget(w)
    BY DEF LoadSnapshot
  <1> HIDE DEF q
  <1>4. Moves(w)
    BY <1>1, <1>2, <1>3, ForgetMoves
  <1>5. QED
    BY <1>4, WorkerOnly DEF LoadSnapshot

LEMMA ScanArtifactInvariant ==
    ASSUME IInv, NEW w \in Workers, ScanArtifact(w)
    PROVE  IInv'
  <1> DEFINE package == content[worker[w].revision]
             a == worker[w].index + 1
  <1>1. revision' = revision
    BY DEF ScanArtifact, rows
  <1>2. /\ worker[w].phase = "computing" /\ worker[w].work = "malware_scan"
        /\ worker[w].index \in Nat /\ worker[w].index < Len(package)
        /\ \A i \in 1..worker[w].index : package[i] = "clean"
        /\ Len(package) \in Nat /\ DOMAIN package = 1..Len(package)
    BY WorkerFacts DEF ScanArtifact, Claimed, Holds, Progress, Computing
  <1>3. CASE Conclude(w, "retryable")
    BY <1>1, <1>2, <1>3, ConcludeMoves, WorkerOnly DEF ScanArtifact, Found
  <1>4. CASE package[a] = "infected" /\ Conclude(w, "quarantined")
    BY <1>1, <1>2, <1>4, ConcludeMoves, WorkerOnly DEF ScanArtifact, Found
  <1>5. CASE package[a] = "mistyped" /\ Conclude(w, "invalid")
    <2>1. a \in DOMAIN package
      BY <1>2
    <2>2. QED
      BY <1>1, <1>2, <1>5, <2>1, ConcludeMoves, WorkerOnly DEF ScanArtifact, Found
  <1>6. CASE package[a] = "clean" /\ a = Len(package) /\ Conclude(w, "all_clean")
    <2>1. \A i \in DOMAIN package : package[i] = "clean"
      BY <1>2, <1>6
    <2>2. QED
      BY <1>1, <1>2, <1>6, <2>1, ConcludeMoves, WorkerOnly DEF ScanArtifact, Found
  <1>7. CASE package[a] = "clean" /\ a # Len(package) /\ NextArtifact(w, ScanBeat)
    BY <1>1, <1>2, <1>7, NextArtifactMoves, WorkerOnly DEF ScanArtifact
  <1>8. QED
    BY <1>3, <1>4, <1>5, <1>6, <1>7 DEF ScanArtifact

LEMMA ExtractArtifactInvariant ==
    ASSUME IInv, NEW w \in Workers, ExtractArtifact(w)
    PROVE  IInv'
  <1> DEFINE package == content[worker[w].revision]
             q == [worker[w] EXCEPT !.phase = "mapping", !.index = 0]
  <1>1. revision' = revision
    BY DEF ExtractArtifact, rows
  <1>2. worker[w].phase = "computing" /\ worker[w].work = "deterministic_extract"
    BY DEF ExtractArtifact
  <1>3. ASSUME NEW outcome \in {"retryable", "invalid"}, Conclude(w, outcome)
        PROVE  IInv'
    BY <1>1, <1>2, <1>3, ConcludeMoves, WorkerOnly DEF ExtractArtifact, Found
  <1>4. CASE worker[w].index + 1 # Len(package) /\ NextArtifact(w, ExtractBeat)
    BY <1>1, <1>2, <1>4, NextArtifactMoves, WorkerOnly DEF ExtractArtifact
  <1>5. CASE Hold(w, q)
    <2>1. /\ worker[w] \in Claimed /\ worker[w].outcome = "none"
          /\ worker[w].calls = 0 /\ worker[w].results = <<>>
          /\ Snapshot(worker[w], revision[worker[w].revision])
      BY <1>2, WorkerFacts DEF Holds, Progress, Computing
    <2>2. /\ q \in Claimed /\ q.phase = "mapping" /\ q.revision = worker[w].revision
          /\ q.outcome = worker[w].outcome /\ q.index = 0
          /\ q.calls = worker[w].calls /\ q.results = worker[w].results
          /\ q.work = worker[w].work
          /\ q.version = worker[w].version /\ q.metadata = worker[w].metadata
      BY <2>1 DEF Claimed
    <2> HIDE DEF q
    <2>3. Holds(q, package, revision[worker[w].revision])
      BY <1>2, <2>1, <2>2, WorkerFacts
         DEF Holds, Snapshot, Progress, Found, Before, Computing, Mapping
    <2>4. Moves(w)
      BY <1>1, <1>5, <2>2, <2>3 DEF Moves, Calling
    <2>5. QED
      BY <2>4, WorkerOnly DEF ExtractArtifact
  <1>6. QED
    BY <1>3, <1>4, <1>5 DEF ExtractArtifact

LEMMA MapLostInvariant ==
    ASSUME IInv, NEW w \in Workers, MapLost(w)
    PROVE  IInv'
  BY ReconcilingMoves, WorkerOnly DEF MapLost, rows

LEMMA RefuseInvariant ==
    ASSUME IInv, NEW w \in Workers, Refuse(w)
    PROVE  IInv'
  BY ReconcilingMoves, WorkerOnly DEF Refuse, rows

LEMMA DiscardInvariant ==
    ASSUME IInv, NEW w \in Workers, Discard(w) \/ Crash(w)
    PROVE  IInv'
  <1>1. Forget(w) /\ UNCHANGED <<content, rows, invoked>>
    BY DEF Discard, Crash
  <1>2. revision' \in [Revisions -> Revision]
    BY <1>1 DEF rows, IInv, TypeOK
  <1>3. QED
    BY <1>1, <1>2, ForgetMoves, WorkerOnly

(* What an answer or its absence leads to                                  *)
LEMMA OutcomeFacts ==
    /\ \A outcome : TerminalStatus(outcome) \in {"completed", "failed", "policy_blocked"}
    /\ \A number \in 1..2 : \A answer : RecordedCalls(number, answer) \in 0..2
    /\ \A number \in 1..2 : \A answer : Outcome(number, answer) = "repair" => number = 1
  <1>1. \A outcome : TerminalStatus(outcome) \in {"completed", "failed", "policy_blocked"}
    BY DEF TerminalStatus
  <1>2. \A number \in 1..2 : \A answer : RecordedCalls(number, answer) \in 0..2
    BY DEF RecordedCalls, FailedCalls
  <1>3. \A number \in 1..2 : \A answer : Outcome(number, answer) = "repair" => number = 1
    BY DEF Outcome
  <1>4. QED
    BY <1>1, <1>2, <1>3

LEMMA SkipInvariant ==
    ASSUME IInv, NEW w \in Workers, Skip(w)
    PROVE  IInv'
  <1>1. PICK outcome \in SkipOutcomes : Finish(w, TerminalStatus(outcome), 0)
    BY DEF Skip
  <1>2. Moves(w)
    BY <1>1, OutcomeFacts, FinishMoves DEF Skip, rows
  <1>3. QED
    BY <1>2, WorkerOnly DEF Skip

-----------------------------------------------------------------------------
(* Steps that write the work rows and their attempts                       *)

(* A phase that is due stays due.                                          *)
LEMMA StagesKept ==
    ASSUME IInv, revision' = revision,
           \A r \in Revisions, p \in Phases :
             \/ work'[r][p].status = work[r][p].status
             \/ work'[r][p].status \in Unfinished /\ work[r][p].status \in Unfinished
    PROVE  StagesAgree'
  <1> SUFFICES ASSUME NEW r \in Revisions
               PROVE  Stage(revision[r].status, work'[r]["malware_scan"].status,
                            work'[r]["deterministic_extract"].status)
    BY DEF StagesAgree
  <1>1. Stage(revision[r].status, work[r]["malware_scan"].status,
              work[r]["deterministic_extract"].status)
    BY DEF IInv, StagesAgree
  <1>2. "malware_scan" \in Phases /\ "deterministic_extract" \in Phases
    BY DEF Phases
  <1>3. QED
    BY <1>1, <1>2 DEF Stage, Unfinished

(* One work row and its attempts are replaced.                             *)
LEMMA RowReplaced ==
    ASSUME IInv, revision' = revision, NEW r \in Revisions, NEW p \in Phases,
           NEW row \in Work, NEW log \in Seq(AttemptRow), Agrees(row, log),
           \/ row.status = work[r][p].status
           \/ row.status \in Unfinished /\ work[r][p].status \in Unfinished,
           work' = [work EXCEPT ![r] = [@ EXCEPT ![p] = row]],
           attempts' = [attempts EXCEPT ![r] = [@ EXCEPT ![p] = log]]
    PROVE  /\ work' \in [Revisions -> [Phases -> Work]]
           /\ attempts' \in [Revisions -> [Phases -> Seq(AttemptRow)]]
           /\ AttemptsAgree' /\ StagesAgree'
  <1>1. /\ work' \in [Revisions -> [Phases -> Work]]
        /\ \A s \in Revisions, o \in Phases :
             work'[s][o] = IF s = r /\ o = p THEN row ELSE work[s][o]
    BY DEF IInv, TypeOK
  <1>2. /\ attempts' \in [Revisions -> [Phases -> Seq(AttemptRow)]]
        /\ \A s \in Revisions, o \in Phases :
             attempts'[s][o] = IF s = r /\ o = p THEN log ELSE attempts[s][o]
    BY DEF IInv, TypeOK
  <1>3. AttemptsAgree'
    BY <1>1, <1>2 DEF IInv, AttemptsAgree
  <1>4. StagesAgree'
    BY <1>1, StagesKept
  <1>5. QED
    BY <1>1, <1>2, <1>3, <1>4

(* A row keeps its status and attempts: a lease expires or is renewed, a   *)
(* delay is over.                                                          *)
LEMMA RowTouched ==
    ASSUME IInv, revision' = revision, attempts' = attempts,
           NEW r \in Revisions, NEW p \in Phases, NEW row \in Work,
           row.status = work[r][p].status, row.attempts = work[r][p].attempts,
           work' = [work EXCEPT ![r] = [@ EXCEPT ![p] = row]]
    PROVE  /\ work' \in [Revisions -> [Phases -> Work]]
           /\ attempts' \in [Revisions -> [Phases -> Seq(AttemptRow)]]
           /\ AttemptsAgree' /\ StagesAgree'
  <1>1. attempts[r][p] \in Seq(AttemptRow) /\ Agrees(work[r][p], attempts[r][p])
    BY DEF IInv, TypeOK, AttemptsAgree
  <1>2. Agrees(row, attempts[r][p])
    BY <1>1 DEF Agrees
  <1>3. attempts' = [attempts EXCEPT ![r] = [@ EXCEPT ![p] = attempts[r][p]]]
    BY DEF IInv, TypeOK
  <1>4. QED
    BY <1>1, <1>2, <1>3, RowReplaced

(* Only the queue changes, and perhaps what one worker holds.              *)
LEMMA QueueStep ==
    ASSUME IInv, UNCHANGED <<content, revision, draft, artifacts, steps, invoked>>,
           work' \in [Revisions -> [Phases -> Work]],
           attempts' \in [Revisions -> [Phases -> Seq(AttemptRow)]],
           AttemptsAgree', StagesAgree',
           worker' = worker \/ \E w \in Workers : Moves(w)
    PROVE  IInv'
  <1>1. worker' \in [Workers -> Claimed]
    BY MovesFacts DEF IInv, TypeOK
  <1>2. TypeOK'
    BY <1>1 DEF IInv, TypeOK
  <1>3. ShapesAgree' /\ DraftsAgree' /\ StepsAgree'
    BY DEF IInv, ShapesAgree, DraftsAgree, StepsAgree, Artifacts
  <1>4. RevisionsGrow
    BY DEF RevisionsGrow, Grows
  <1>5. WorkersHold'
    BY <1>2, <1>4, MovesFacts, WorkersKept
  <1>6. CallsRecorded' /\ OneCaller'
    <2>1. CASE worker' = worker
      BY <2>1 DEF IInv, CallsRecorded, OneCaller, MapStep
    <2>2. CASE \E w \in Workers : Moves(w)
      BY <2>2, MovesFacts, CallsUnchanged
    <2>3. QED
      BY <2>1, <2>2
  <1>7. QED
    BY <1>2, <1>3, <1>5, <1>6 DEF IInv

LEMMA TimeInvariant ==
    ASSUME IInv, NEW r \in Revisions, NEW p \in Phases, Expire(r, p) \/ Elapse(r, p)
    PROVE  IInv'
  <1>1. work[r][p] \in Work
    BY DEF IInv, TypeOK
  <1>2. PICK row \in Work :
          /\ row.status = work[r][p].status /\ row.attempts = work[r][p].attempts
          /\ work' = [work EXCEPT ![r] = [@ EXCEPT ![p] = row]]
    <2>1. CASE Expire(r, p)
      <3> DEFINE row == [work[r][p] EXCEPT !.expired = TRUE]
      <3>1. row \in Work /\ row.status = work[r][p].status /\ row.attempts = work[r][p].attempts
        BY <1>1 DEF Work
      <3>2. work' = [work EXCEPT ![r] = [@ EXCEPT ![p] = row]]
        BY <2>1 DEF Expire, IInv, TypeOK
      <3>3. QED
        BY <3>1, <3>2
    <2>2. CASE Elapse(r, p)
      <3> DEFINE row == [work[r][p] EXCEPT !.delayed = FALSE]
      <3>1. row \in Work /\ row.status = work[r][p].status /\ row.attempts = work[r][p].attempts
        BY <1>1 DEF Work
      <3>2. work' = [work EXCEPT ![r] = [@ EXCEPT ![p] = row]]
        BY <2>2 DEF Elapse, IInv, TypeOK
      <3>3. QED
        BY <3>1, <3>2
    <2>3. QED
      BY <2>1, <2>2
  <1>3. UNCHANGED <<content, revision, draft, artifacts, attempts, steps, invoked, worker>>
    BY DEF Expire, Elapse
  <1>4. QED
    BY <1>2, <1>3, RowTouched, QueueStep

LEMMA HeartbeatInvariant ==
    ASSUME IInv, NEW w \in Workers, Heartbeat(w)
    PROVE  IInv'
  <1>1. CASE Forget(w) /\ work' = work
    <2>1. revision' \in [Revisions -> Revision] /\ UNCHANGED <<content, rows, invoked>>
      BY <1>1 DEF Heartbeat, IInv, TypeOK, rows
    <2>2. QED
      BY <1>1, <2>1, ForgetMoves, WorkerOnly
  <1>2. CASE /\ work' = [work EXCEPT ![worker[w].revision][worker[w].work].expired = FALSE]
             /\ Become(w, "computing")
    <2> DEFINE q == [worker[w] EXCEPT !.phase = "computing"]
    <2>1. PICK r \in Revisions, p \in Phases : r = worker[w].revision /\ p = worker[w].work
      BY WorkerFacts
    <2>2. work[r][p] \in Work
      BY DEF IInv, TypeOK
    <2>3. PICK row \in Work :
            /\ row.status = work[r][p].status /\ row.attempts = work[r][p].attempts
            /\ work' = [work EXCEPT ![r] = [@ EXCEPT ![p] = row]]
      <3> DEFINE row == [work[r][p] EXCEPT !.expired = FALSE]
      <3>1. row \in Work /\ row.status = work[r][p].status /\ row.attempts = work[r][p].attempts
        BY <2>2 DEF Work
      <3>2. work' = [work EXCEPT ![r] = [@ EXCEPT ![p] = row]]
        BY <1>2, <2>1 DEF IInv, TypeOK
      <3>3. QED
        BY <3>1, <3>2
    <2>4. worker[w] \in Claimed /\ worker[w].phase = "heartbeat"
      BY WorkerFacts DEF Heartbeat
    <2>5. /\ q \in Claimed /\ q.phase = "computing" /\ q.revision = worker[w].revision
          /\ q.outcome = worker[w].outcome /\ q.index = worker[w].index
          /\ q.calls = worker[w].calls /\ q.results = worker[w].results
          /\ q.work = worker[w].work
          /\ q.version = worker[w].version /\ q.metadata = worker[w].metadata
      BY <2>4 DEF Claimed
    <2> HIDE DEF q
    <2>6. Progress(q, content[r])
      BY <2>1, <2>4, <2>5, WorkerFacts DEF Holds, Progress, Before, Computing, Mapping
    <2>7. Found(q, content[r]) /\ Snapshot(q, revision[r])
      <3>1. /\ Found(worker[w], content[r]) /\ Snapshot(worker[w], revision[r])
        BY <2>1, WorkerFacts DEF Holds
      <3>2. QED
        BY <2>5, <3>1 DEF Found, Snapshot
    <2>8. Moves(w)
      BY <1>2, <2>1, <2>5, <2>6, <2>7 DEF Moves, Holds, Calling, Become, Heartbeat, q
    <2>9. QED
      BY <2>3, <2>8, RowTouched, QueueStep DEF Heartbeat
  <1>3. QED
    BY <1>1, <1>2 DEF Heartbeat

(* A leased row has an active attempt, so a recovery puts the row back or  *)
(* gives it up, and never leaves it leased.                                *)
LEMMA RecoveredFacts ==
    ASSUME IInv, NEW r \in Revisions, NEW p \in Phases
    PROVE  /\ Recovered(r, p) \in Work
           /\ Recovered(r, p).status \in Unfinished \ {"leased"}
           /\ Recovered(r, p).attempts = work[r][p].attempts
  <1>1. work[r][p] \in Work /\ revision[r].version \in Nat
    BY DEF IInv, TypeOK, Revision
  <1>2. ASSUME NEW row \in Work, NEW version \in Nat
        PROVE  /\ [row EXCEPT !.version = version] \in Work
               /\ [row EXCEPT !.version = version].status = row.status
               /\ [row EXCEPT !.version = version].attempts = row.attempts
    BY DEF Work
  <1>3. \A status \in Unfinished \ {"leased"} :
          /\ Unleased(work[r][p], status) \in Work
          /\ Unleased(work[r][p], status).status \in Unfinished \ {"leased"}
          /\ Unleased(work[r][p], status).attempts = work[r][p].attempts
    BY <1>1, UnleasedFacts
  <1>4. \/ Recovered(r, p) = Unleased(work[r][p], "reconciliation_required")
        \/ Recovered(r, p) = Unleased(work[r][p], "failed")
        \/ Recovered(r, p) =
             [Unleased(work[r][p], "available") EXCEPT !.version = revision[r].version]
    BY DEF Recovered
  <1>5. {"reconciliation_required", "failed", "available"} \subseteq Unfinished \ {"leased"}
    BY DEF Unfinished
  <1>6. CASE Recovered(r, p) \in {Unleased(work[r][p], "reconciliation_required"),
                                  Unleased(work[r][p], "failed")}
    BY <1>3, <1>5, <1>6
  <1>7. CASE Recovered(r, p) =
               [Unleased(work[r][p], "available") EXCEPT !.version = revision[r].version]
    <2>1. PICK row \in Work : row = Unleased(work[r][p], "available")
      BY <1>3, <1>5
    <2>2. Recovered(r, p) = [row EXCEPT !.version = revision[r].version]
      BY <1>7, <2>1
    <2>3. row.status \in Unfinished \ {"leased"} /\ row.attempts = work[r][p].attempts
      BY <1>3, <1>5, <2>1
    <2>4. QED
      BY <1>1, <1>2, <2>2, <2>3
  <1>8. QED
    BY <1>4, <1>6, <1>7

LEMMA BecomePollingMoves ==
    ASSUME IInv, NEW w \in Workers, worker[w].phase = "idle", Become(w, "polling"),
           revision' = revision
    PROVE  Moves(w)
  <1> DEFINE q == [worker[w] EXCEPT !.phase = "polling"]
  <1>1. worker[w] \in Claimed
    BY WorkerFacts
  <1>2. /\ q \in Claimed /\ q.phase = "polling" /\ q.revision = worker[w].revision
        /\ q.outcome = worker[w].outcome /\ q.index = worker[w].index
        /\ q.calls = worker[w].calls /\ q.results = worker[w].results
        /\ q.version = worker[w].version /\ q.metadata = worker[w].metadata
    BY <1>1 DEF Claimed
  <1>3. Hold(w, q)
    BY DEF Become
  <1> HIDE DEF q
  <1>4. Holds(q, content[q.revision], revision[q.revision])
    BY <1>2, WorkerFacts DEF Holds, Snapshot, Progress, Found, Before, Computing, Mapping
  <1>5. QED
    BY <1>2, <1>3, <1>4 DEF Moves, Calling

LEMMA RecoverInvariant ==
    ASSUME IInv, NEW w \in Workers, Recover(w)
    PROVE  IInv'
  <1> DEFINE Lost(r, p) == work[r][p].status = "leased" /\ work[r][p].expired
  <1>1. \A r \in Revisions, p \in Phases :
          <<r, p>> \in {x \in Revisions \X Phases :
                         work[x[1]][x[2]].status = "leased" /\ work[x[1]][x[2]].expired}
            <=> Lost(r, p)
    OBVIOUS
  <1>2. /\ work' = [r \in Revisions |-> [p \in Phases |->
                      IF Lost(r, p) THEN Recovered(r, p) ELSE work[r][p]]]
        /\ attempts' = [r \in Revisions |-> [p \in Phases |->
                          [n \in DOMAIN attempts[r][p] |->
                             IF Lost(r, p) /\ n \in ActiveAttempts(r, p)
                             THEN "failed" ELSE attempts[r][p][n]]]]
    BY <1>1 DEF Recover
  <1>3. ASSUME NEW r \in Revisions, NEW p \in Phases
        PROVE  /\ work'[r][p] \in Work /\ attempts'[r][p] \in Seq(AttemptRow)
               /\ Agrees(work'[r][p], attempts'[r][p])
               /\ \/ work'[r][p].status = work[r][p].status
                  \/ work'[r][p].status \in Unfinished /\ work[r][p].status \in Unfinished
    <2>1. /\ work[r][p] \in Work /\ attempts[r][p] \in Seq(AttemptRow)
          /\ Agrees(work[r][p], attempts[r][p])
      BY DEF IInv, TypeOK, AttemptsAgree
    <2>2. CASE Lost(r, p)
      <3>1. work'[r][p] = Recovered(r, p)
        BY <1>2, <2>2
      <3>2. attempts'[r][p] = Ended(attempts[r][p], "failed")
        BY <1>2, <2>2 DEF Ended, ActiveAttempts
      <3>3. work[r][p].status = "leased"
        BY <2>2
      <3> HIDE DEF Lost
      <3>4. QED
        BY <2>1, <3>1, <3>2, <3>3, RecoveredFacts, AgreesEnded, EndedType DEF Unfinished
    <2>3. CASE ~Lost(r, p)
      <3>1. work'[r][p] = work[r][p]
        BY <1>2, <2>3
      <3>2. attempts'[r][p] = [n \in DOMAIN attempts[r][p] |-> attempts[r][p][n]]
        BY <1>2, <2>3
      <3>3. attempts'[r][p] = attempts[r][p]
        BY <2>1, <3>2
      <3>4. QED
        BY <2>1, <3>1, <3>3
    <2>4. QED
      BY <2>2, <2>3
  <1>4. /\ work' = [r \in Revisions |-> [p \in Phases |-> work'[r][p]]]
        /\ attempts' = [r \in Revisions |-> [p \in Phases |-> attempts'[r][p]]]
    BY <1>2
  <1>5. /\ work' \in [Revisions -> [Phases -> Work]]
        /\ attempts' \in [Revisions -> [Phases -> Seq(AttemptRow)]]
    BY <1>3, <1>4
  <1>6. AttemptsAgree'
    BY <1>3 DEF AttemptsAgree
  <1>7. UNCHANGED <<content, revision, draft, artifacts, steps, invoked>>
    BY DEF Recover
  <1>8. StagesAgree'
    BY <1>3, <1>7, StagesKept
  <1>9. Moves(w)
    BY <1>7, BecomePollingMoves DEF Recover
  <1>10. QED
    BY <1>5, <1>6, <1>7, <1>8, <1>9, QueueStep

LEMMA ClaimInvariant ==
    ASSUME IInv, NEW w \in Workers, Claim(w)
    PROVE  IInv'
  <1>1. PICK p \in Phases : p = worker[w].work
    BY WorkerFacts
  <1> DEFINE number(r) == work[r][p].attempts + 1
             row(r) == [work[r][p] EXCEPT !.status = "leased", !.attempts = number(r),
                          !.owner = w, !.fence = number(r), !.version = revision[r].version]
             q(r) == [Idle EXCEPT !.phase = "claimed", !.revision = r, !.work = p,
                        !.fence = number(r)]
  <1>2. PICK r \in Eligible(p) :
          /\ work' = [work EXCEPT ![r] = [@ EXCEPT ![p] = row(r)]]
          /\ attempts' = [attempts EXCEPT ![r] =
                            [@ EXCEPT ![p] = Append(attempts[r][p], "active")]]
          /\ Hold(w, q(r))
    BY <1>1 DEF Claim, IInv, TypeOK, Eligible
  <1>3. r \in Revisions /\ work[r][p].status = "available" /\ work[r][p].attempts < MaxAttempts
    BY DEF Eligible
  <1>4. /\ work[r][p] \in Work /\ attempts[r][p] \in Seq(AttemptRow)
        /\ Agrees(work[r][p], attempts[r][p])
        /\ revision[r] \in Revision /\ revision[r].version \in Nat
    BY <1>3 DEF IInv, TypeOK, AttemptsAgree, Revision
  <1>5. UNCHANGED <<content, revision, draft, artifacts, steps, invoked>>
    BY DEF Claim
  <1>6. number(r) \in Nat
    BY <1>4 DEF Work
  <1>7. /\ row(r) \in Work /\ row(r).status = "leased"
        /\ row(r).attempts = work[r][p].attempts + 1
    BY <1>4, <1>6 DEF Work
  <1>8. Append(attempts[r][p], "active") \in Seq(AttemptRow)
    BY <1>4 DEF AttemptRow
  <1> HIDE DEF row
  <1>9. Agrees(row(r), Append(attempts[r][p], "active"))
    BY <1>3, <1>4, <1>7, AgreesClaimed
  <1>10. /\ work' \in [Revisions -> [Phases -> Work]]
         /\ attempts' \in [Revisions -> [Phases -> Seq(AttemptRow)]]
         /\ AttemptsAgree' /\ StagesAgree'
    BY <1>2, <1>3, <1>5, <1>7, <1>8, <1>9, RowReplaced DEF Unfinished
  <1>11. Moves(w)
    <2>1. PICK idle \in Claimed, n \in Nat : idle = Idle /\ n = number(r)
      BY <1>6, IdleFacts
    <2>2. q(r) = [idle EXCEPT !.phase = "claimed", !.revision = r, !.work = p, !.fence = n]
      BY <2>1
    <2>3. /\ q(r) \in Claimed /\ q(r).phase = "claimed" /\ q(r).revision = r
          /\ q(r).outcome = idle.outcome /\ q(r).index = idle.index
          /\ q(r).calls = idle.calls /\ q(r).results = idle.results
          /\ q(r).version = idle.version /\ q(r).metadata = idle.metadata
      BY <1>3, <2>2 DEF Claimed
    <2> HIDE DEF q
    <2>4. Holds(idle, content[r], revision[r]) /\ idle.phase = "idle"
      BY <1>4, <2>1, IdleFacts
    <2>5. Holds(q(r), content[r], revision[r])
      BY <2>3, <2>4 DEF Holds, Snapshot, Progress, Found, Before, Computing, Mapping
    <2>6. QED
      BY <1>2, <1>5, <2>3, <2>5 DEF Moves, Calling
  <1>12. QED
    BY <1>5, <1>10, <1>11, QueueStep

(* An attempt that is given up as ambiguous                                *)
LEMMA MarkFacts ==
    ASSUME IInv, NEW w \in Workers, Owned(w), MarkReconciliation(w), revision' = revision
    PROVE  /\ work' \in [Revisions -> [Phases -> Work]]
           /\ attempts' \in [Revisions -> [Phases -> Seq(AttemptRow)]]
           /\ AttemptsAgree' /\ StagesAgree'
  <1>1. PICK r \in Revisions, p \in Phases : r = worker[w].revision /\ p = worker[w].work
    BY WorkerFacts
  <1> DEFINE row == Unleased(work[r][p], "reconciliation_required")
             log == Ended(attempts[r][p], "failed")
  <1>2. work[r][p].status = "leased"
    BY <1>1 DEF Owned, Row
  <1>3. /\ work[r][p] \in Work /\ attempts[r][p] \in Seq(AttemptRow)
        /\ Agrees(work[r][p], attempts[r][p])
    BY DEF IInv, TypeOK, AttemptsAgree
  <1>4. /\ row \in Work /\ row.status = "reconciliation_required"
        /\ row.attempts = work[r][p].attempts
    BY <1>3, UnleasedFacts DEF Unfinished
  <1>5. work' = [work EXCEPT ![r] = [@ EXCEPT ![p] = row]]
    BY <1>1 DEF MarkReconciliation, IInv, TypeOK
  <1>6. attempts' = [attempts EXCEPT ![r] = [@ EXCEPT ![p] = log]]
    BY <1>1, EndedLog DEF MarkReconciliation, IInv
  <1> HIDE DEF row
  <1>7. log \in Seq(AttemptRow) /\ Agrees(row, log)
    BY <1>2, <1>3, <1>4, AgreesEnded, EndedType DEF Unfinished
  <1> HIDE DEF log
  <1>8. QED
    BY <1>2, <1>4, <1>5, <1>6, <1>7, RowReplaced DEF Unfinished

LEMMA ReconcileInvariant ==
    ASSUME IInv, NEW w \in Workers, Reconcile(w)
    PROVE  IInv'
  <1>1. UNCHANGED <<content, revision, draft, artifacts, steps, invoked>>
    BY DEF Reconcile
  <1>2. Moves(w)
    BY <1>1, ForgetMoves DEF Reconcile, IInv, TypeOK
  <1>3. CASE Owned(w) /\ MarkReconciliation(w)
    BY <1>1, <1>2, <1>3, MarkFacts, QueueStep
  <1>4. CASE UNCHANGED <<work, attempts>>
    BY <1>1, <1>2, <1>4, WorkerOnly DEF rows
  <1>5. QED
    BY <1>3, <1>4 DEF Reconcile

-----------------------------------------------------------------------------
(* Steps that write the row of a MAP step or make its call                 *)

LEMMA MappingFacts ==
    ASSUME IInv, NEW v \in Workers, worker[v].phase \in Mapping
    PROVE  /\ worker[v].index \in Nat
           /\ worker[v].index + 1 \in Artifacts(worker[v].revision)
           /\ Artifacts(worker[v].revision) = 1..Len(content[worker[v].revision])
           /\ MapStep(v) \in Step
           /\ invoked[worker[v].revision][worker[v].index + 1] \in Nat
           /\ Counted(MapStep(v), invoked[worker[v].revision][worker[v].index + 1],
                      revision[worker[v].revision].status)
           /\ worker[v].work = "deterministic_extract"
  <1>1. /\ worker[v].index \in Nat /\ worker[v].index < Len(content[worker[v].revision])
        /\ worker[v].work = "deterministic_extract"
    BY WorkerFacts DEF Holds, Progress, Claimed
  <1>2. PICK r \in Revisions : r = worker[v].revision
    BY WorkerFacts
  <1>3. PICK a \in Nat : a = worker[v].index + 1
    BY <1>1
  <1>4. Artifacts(r) = 1..Len(content[r]) /\ a \in Artifacts(r)
    BY <1>1, <1>2, <1>3, WorkerFacts DEF Artifacts
  <1>5. /\ steps[r] \in Seq(Step) /\ DOMAIN steps[r] = Artifacts(r)
        /\ invoked[r] \in Seq(Nat) /\ DOMAIN invoked[r] = Artifacts(r)
    BY DEF IInv, TypeOK, ShapesAgree
  <1>6. steps[r][a] \in Step /\ invoked[r][a] \in Nat
    BY <1>4, <1>5
  <1>7. Counted(steps[r][a], invoked[r][a], revision[r].status)
    BY <1>4 DEF IInv, StepsAgree
  <1>8. QED
    BY <1>1, <1>2, <1>3, <1>4, <1>6, <1>7 DEF MapStep

(* One element of a sequence is replaced.                                  *)
LEMMA ReplacedElement ==
    ASSUME NEW S, NEW table \in [Revisions -> Seq(S)], NEW r \in Revisions,
           NEW a \in DOMAIN table[r], NEW x \in S, NEW next,
           next = [table EXCEPT ![r] = [@ EXCEPT ![a] = x]]
    PROVE  /\ next \in [Revisions -> Seq(S)]
           /\ \A s \in Revisions : DOMAIN next[s] = DOMAIN table[s]
           /\ \A s \in Revisions : \A b \in DOMAIN table[s] :
                next[s][b] = IF s = r /\ b = a THEN x ELSE table[s][b]
  <1>1. table[r] \in Seq(S)
    OBVIOUS
  <1>2. /\ [table[r] EXCEPT ![a] = x] \in Seq(S)
        /\ DOMAIN [table[r] EXCEPT ![a] = x] = DOMAIN table[r]
        /\ \A b \in DOMAIN table[r] :
             [table[r] EXCEPT ![a] = x][b] = IF b = a THEN x ELSE table[r][b]
    BY <1>1
  <1>3. \A s \in Revisions : next[s] = IF s = r THEN [table[r] EXCEPT ![a] = x] ELSE table[s]
    OBVIOUS
  <1>4. next \in [Revisions -> Seq(S)]
    BY <1>2, <1>3
  <1>5. QED
    BY <1>2, <1>3, <1>4

(* The row of the step of worker w is replaced.                            *)
LEMMA StepReplaced ==
    ASSUME IInv, NEW w \in Workers, worker[w].phase \in Mapping, NEW step \in Step,
           SetMapStep(w, step), UNCHANGED <<content, revision, invoked>>,
           Counted(step, invoked[worker[w].revision][worker[w].index + 1],
                   revision[worker[w].revision].status)
    PROVE  /\ steps' \in [Revisions -> Seq(Step)]
           /\ \A r \in Revisions : DOMAIN steps'[r] = Artifacts(r)
           /\ StepsAgree'
           /\ steps'[worker[w].revision][worker[w].index + 1] = step
           /\ \A v \in Workers :
                worker[v].phase \in Mapping /\ ~SameArtifact(worker[v], worker[w]) =>
                  steps'[worker[v].revision][worker[v].index + 1] = MapStep(v)
  <1>1. PICK r \in Revisions : r = worker[w].revision
    BY WorkerFacts
  <1>2. PICK a \in Artifacts(r) : a = worker[w].index + 1
    BY <1>1, MappingFacts
  <1>3. /\ steps \in [Revisions -> Seq(Step)]
        /\ \A s \in Revisions : DOMAIN steps[s] = Artifacts(s)
    BY DEF IInv, TypeOK, ShapesAgree
  <1>4. steps' = [steps EXCEPT ![r] = [@ EXCEPT ![a] = step]]
    BY <1>1, <1>2, <1>3 DEF SetMapStep
  <1>5. /\ steps' \in [Revisions -> Seq(Step)]
        /\ \A s \in Revisions : DOMAIN steps'[s] = DOMAIN steps[s]
        /\ \A s \in Revisions : \A b \in DOMAIN steps[s] :
             steps'[s][b] = IF s = r /\ b = a THEN step ELSE steps[s][b]
    BY <1>2, <1>3, <1>4, ReplacedElement
  <1>6. StepsAgree'
    <2> SUFFICES ASSUME NEW s \in Revisions, NEW b \in Artifacts(s)
                 PROVE  Counted(steps'[s][b], invoked[s][b], revision[s].status)
      BY DEF StepsAgree, Artifacts
    <2>1. Counted(steps[s][b], invoked[s][b], revision[s].status)
      BY DEF IInv, StepsAgree
    <2>2. QED
      BY <1>1, <1>2, <1>3, <1>5, <2>1
  <1>7. ASSUME NEW v \in Workers, worker[v].phase \in Mapping,
               ~SameArtifact(worker[v], worker[w])
        PROVE  steps'[worker[v].revision][worker[v].index + 1] = MapStep(v)
    <2>1. PICK s \in Revisions : s = worker[v].revision
      BY WorkerFacts
    <2>2. PICK b \in Artifacts(s) : b = worker[v].index + 1
      BY <1>7, <2>1, MappingFacts
    <2>3. ~(s = r /\ b = a)
      BY <1>1, <1>2, <1>7, <2>1, <2>2, MappingFacts DEF SameArtifact
    <2>4. QED
      BY <1>3, <1>5, <2>1, <2>2, <2>3 DEF MapStep
  <1>8. QED
    BY <1>1, <1>2, <1>3, <1>5, <1>6, <1>7

LEMMA ReservedMoves ==
    ASSUME IInv, NEW w \in Workers, worker[w].phase = "mapping", Become(w, "reserved"),
           revision' = revision
    PROVE  Moves(w)
  <1> DEFINE q == [worker[w] EXCEPT !.phase = "reserved"]
  <1>1. worker[w] \in Claimed
    BY WorkerFacts
  <1>2. /\ q \in Claimed /\ q.phase = "reserved" /\ q.revision = worker[w].revision
        /\ q.outcome = worker[w].outcome /\ q.index = worker[w].index
        /\ q.calls = worker[w].calls /\ q.results = worker[w].results
        /\ q.work = worker[w].work
        /\ q.version = worker[w].version /\ q.metadata = worker[w].metadata
    BY <1>1 DEF Claimed
  <1>3. Hold(w, q)
    BY DEF Become
  <1> HIDE DEF q
  <1>4. Holds(q, content[q.revision], revision[q.revision])
    BY <1>2, WorkerFacts DEF Holds, Snapshot, Progress, Found, Before, Computing, Mapping
  <1>5. QED
    BY <1>2, <1>3, <1>4 DEF Moves, Calling

(* The row of a step changes, and its worker makes no call.                *)
LEMMA StepWritten ==
    ASSUME IInv, NEW w \in Workers, worker[w].phase \in Mapping, Moves(w),
           NEW step \in Step, SetMapStep(w, step),
           UNCHANGED <<content, revision, draft, artifacts, invoked>>,
           work' \in [Revisions -> [Phases -> Work]],
           attempts' \in [Revisions -> [Phases -> Seq(AttemptRow)]],
           AttemptsAgree', StagesAgree',
           Counted(step, invoked[worker[w].revision][worker[w].index + 1],
                   revision[worker[w].revision].status),
           \A v \in Workers \ {w} :
             Calling(worker[v]) /\ SameArtifact(worker[v], worker[w]) =>
               step.status = "reconciliation_required"
    PROVE  IInv'
  <1>1. TypeOK'
    BY MovesFacts, StepReplaced DEF IInv, TypeOK
  <1>2. ShapesAgree'
    BY StepReplaced DEF IInv, ShapesAgree, Artifacts
  <1>3. StepsAgree' /\ DraftsAgree'
    BY StepReplaced DEF IInv, DraftsAgree
  <1>4. WorkersHold'
    BY <1>1, MovesFacts, WorkersKept DEF RevisionsGrow, Grows
  <1>5. ASSUME NEW v \in Workers \ {w}, Calling(worker[v])
        PROVE  Recorded(worker[v], steps'[worker[v].revision][worker[v].index + 1],
                        invoked'[worker[v].revision][worker[v].index + 1])
    <2>1. /\ worker[v].phase \in Mapping
          /\ Recorded(worker[v], MapStep(v), invoked[worker[v].revision][worker[v].index + 1])
      BY <1>5 DEF IInv, CallsRecorded, Calling, Mapping
    <2>2. CASE SameArtifact(worker[v], worker[w])
      BY <1>5, <2>1, <2>2, StepReplaced DEF SameArtifact, Recorded
    <2>3. CASE ~SameArtifact(worker[v], worker[w])
      BY <2>1, <2>3, StepReplaced
    <2>4. QED
      BY <2>2, <2>3
  <1>6. CallsRecorded' /\ OneCaller'
    BY <1>5, MovesFacts, CallsKept
  <1>7. QED
    BY <1>1, <1>2, <1>3, <1>4, <1>6 DEF IInv

LEMMA ReserveInvariant ==
    ASSUME IInv, NEW w \in Workers, Reserve(w)
    PROVE  IInv'
  <1> DEFINE calls == invoked[worker[w].revision][worker[w].index + 1]
             status == revision[worker[w].revision].status
  <1>1. /\ worker[w].phase = "mapping" /\ worker[w].phase \in Mapping /\ Owned(w)
        /\ UNCHANGED <<content, revision, draft, artifacts, invoked>>
    BY DEF Reserve, Current, Mapping
  <1>2. MapStep(w) \in Step /\ Counted(MapStep(w), calls, status)
    BY <1>1, MappingFacts
  <1>3. status # "awaiting_confirmation"
    <2>1. PICK r \in Revisions : r = worker[w].revision
      BY WorkerFacts
    <2>2. work[r]["deterministic_extract"].status = "leased"
      BY <1>1, <2>1, MappingFacts DEF Owned, Row
    <2>3. QED
      BY <2>1, <2>2 DEF IInv, StagesAgree, Stage
  <1>4. CASE /\ MapStep(w).status = "none"
             /\ SetMapStep(w, [NoStep EXCEPT !.status = "reserved",
                                             !.digest = worker[w].version])
             /\ Become(w, "reserved")
             /\ UNCHANGED <<work, attempts>>
    <2> DEFINE step == [NoStep EXCEPT !.status = "reserved", !.digest = worker[w].version]
    <2>1. PICK version \in Nat : version = worker[w].version
      BY WorkerFacts DEF Claimed
    <2>2. PICK none \in Step : none = NoStep /\ none.calls = 0
      <3>1. NoStep \in Step
        BY DEF NoStep, Step
      <3>2. NoStep.calls = 0
        BY DEF NoStep
      <3>3. QED
        BY <3>1, <3>2
    <2>3. step \in Step /\ step.status = "reserved" /\ step.calls = 0
      <3>1. step = [none EXCEPT !.status = "reserved", !.digest = version]
        BY <2>1, <2>2
      <3>2. QED
        BY <2>2, <3>1 DEF Step
    <2> HIDE DEF step
    <2>4. Counted(step, calls, status)
      BY <1>2, <1>3, <1>4, <2>3 DEF Counted
    <2>5. \A v \in Workers : Calling(worker[v]) => ~SameArtifact(worker[v], worker[w])
      BY <1>4 DEF IInv, CallsRecorded, Recorded, SameArtifact, MapStep
    <2>6. SetMapStep(w, step) /\ Moves(w)
      BY <1>1, <1>4, ReservedMoves DEF step
    <2>7. /\ work' \in [Revisions -> [Phases -> Work]]
          /\ attempts' \in [Revisions -> [Phases -> Seq(AttemptRow)]]
          /\ AttemptsAgree' /\ StagesAgree'
      BY <1>1, <1>4 DEF IInv, TypeOK, AttemptsAgree, StagesAgree
    <2>8. QED
      BY <1>1, <2>3, <2>4, <2>5, <2>6, <2>7, StepWritten
  <1>5. CASE /\ MapStep(w).status = "reserved"
             /\ Become(w, "reserved") \/ Become(w, "reconciling")
             /\ UNCHANGED <<work, attempts, steps>>
    BY <1>1, <1>5, ReservedMoves, ReconcilingMoves, WorkerOnly DEF rows
  <1>6. CASE /\ MapStep(w).status \notin {"none", "reserved"}
             /\ MarkReconciliation(w)
             /\ SetMapStep(w, [MapStep(w) EXCEPT !.status = "reconciliation_required"])
             /\ Forget(w)
    <2> DEFINE step == [MapStep(w) EXCEPT !.status = "reconciliation_required"]
    <2>1. /\ step \in Step /\ step.status = "reconciliation_required"
          /\ step.calls = MapStep(w).calls
      BY <1>2 DEF Step
    <2> HIDE DEF step
    <2>2. Counted(step, calls, status)
      BY <1>2, <1>3, <2>1 DEF Counted
    <2>3. SetMapStep(w, step) /\ Moves(w)
      BY <1>1, <1>6, ForgetMoves DEF step, IInv, TypeOK
    <2>4. /\ work' \in [Revisions -> [Phases -> Work]]
          /\ attempts' \in [Revisions -> [Phases -> Seq(AttemptRow)]]
          /\ AttemptsAgree' /\ StagesAgree'
      BY <1>1, <1>6, MarkFacts
    <2>5. QED
      BY <1>1, <2>1, <2>2, <2>3, <2>4, StepWritten
  <1>7. QED
    BY <1>4, <1>5, <1>6 DEF Reserve

LEMMA BeforeCallInvariant ==
    ASSUME IInv, NEW w \in Workers, BeforeCall(w)
    PROVE  IInv'
  <1> DEFINE made == invoked[worker[w].revision][worker[w].index + 1]
             status == revision[worker[w].revision].status
  <1>1. /\ worker[w].phase \in {"reserved", "repairing"} /\ worker[w].phase \in Mapping
        /\ Owned(w)
        /\ UNCHANGED <<content, revision, draft, artifacts, work, attempts, invoked>>
    BY DEF BeforeCall, Current, Mapping
  <1>2. CASE Become(w, "reconciling") /\ UNCHANGED steps
    BY <1>1, <1>2, ReconcilingMoves, WorkerOnly DEF rows
  <1>3. CASE /\ \/ worker[w].phase = "reserved" /\ MapStep(w).status = "reserved"
                \/ /\ worker[w].phase = "repairing"
                   /\ MapStep(w).status = "running" /\ MapStep(w).calls = 1
             /\ SetMapStep(w, [MapStep(w) EXCEPT !.status = "running", !.calls = @ + 1])
             /\ Become(w, "calling")
    <2> DEFINE step == [MapStep(w) EXCEPT !.status = "running", !.calls = @ + 1]
               q == [worker[w] EXCEPT !.phase = "calling"]
    <2>1. MapStep(w) \in Step /\ Counted(MapStep(w), made, status) /\ made \in Nat
      BY <1>1, MappingFacts
    <2>2. /\ Holds(worker[w], content[worker[w].revision], revision[worker[w].revision])
          /\ worker[w] \in Claimed
      BY WorkerFacts
    <2>3. /\ worker[w].phase = "repairing" =>
               MapStep(w).calls = 1 /\ made = 1 /\ worker[w].calls = 1
          /\ worker[w].phase = "reserved" =>
               MapStep(w).calls = 0 /\ made = 0 /\ worker[w].calls = 0
      <3>1. CASE worker[w].phase = "repairing"
        BY <1>3, <2>2, <3>1 DEF IInv, CallsRecorded, Calling, Recorded, Holds, Progress
      <3>2. CASE worker[w].phase = "reserved"
        BY <1>3, <2>1, <2>2, <3>2 DEF Counted, Holds, Progress
      <3>3. QED
        BY <3>1, <3>2
    <2>4. /\ step \in Step /\ step.status = "running" /\ step.calls = MapStep(w).calls + 1
      <3>1. PICK n \in 0..2 : n = MapStep(w).calls + 1
        BY <1>1, <2>3
      <3>2. step = [MapStep(w) EXCEPT !.status = "running", !.calls = n]
        BY <2>1, <3>1 DEF Step
      <3>3. QED
        BY <2>1, <3>1, <3>2 DEF Step
    <2>5. SetMapStep(w, step) /\ Hold(w, q)
      BY <1>3 DEF Become
    <2>6. /\ q \in Claimed /\ q.phase = "calling" /\ q.revision = worker[w].revision
          /\ q.outcome = worker[w].outcome /\ q.index = worker[w].index
          /\ q.calls = worker[w].calls /\ q.results = worker[w].results
          /\ q.work = worker[w].work
          /\ q.version = worker[w].version /\ q.metadata = worker[w].metadata
      BY <2>2 DEF Claimed
    <2> HIDE DEF step, q
    <2>7. Holds(q, content[q.revision], revision[q.revision])
      <3>1. Progress(q, content[q.revision])
        BY <1>1, <2>2, <2>6 DEF Holds, Progress, Before, Computing, Mapping
      <3>2. Found(q, content[q.revision]) /\ Snapshot(q, revision[q.revision])
        BY <2>2, <2>6 DEF Holds, Found, Snapshot
      <3>3. QED
        BY <3>1, <3>2 DEF Holds
    <2>8. Counted(step, made, status)
      <3>1. made <= step.calls
        BY <1>1, <2>3, <2>4
      <3>2. status # "awaiting_confirmation"
        <4>1. PICK r \in Revisions : r = worker[w].revision
          BY WorkerFacts
        <4>2. work[r]["deterministic_extract"].status = "leased"
          BY <1>1, <4>1, MappingFacts DEF Owned, Row
        <4>3. QED
          BY <4>1, <4>2 DEF IInv, StagesAgree, Stage
      <3>3. QED
        BY <2>1, <2>4, <3>1, <3>2 DEF Counted
    <2>9. /\ worker' \in [Workers -> Claimed] /\ worker'[w] = q
          /\ \A v \in Workers \ {w} : worker'[v] = worker[v]
      BY <2>5, <2>6, HeldType
    <2>10. \A v \in Workers \ {w} :
             Calling(worker[v]) => ~SameArtifact(worker[v], worker[w])
      <3> SUFFICES ASSUME NEW v \in Workers \ {w}, Calling(worker[v]),
                          SameArtifact(worker[v], worker[w])
                   PROVE  FALSE
        OBVIOUS
      <3>1. CASE worker[w].phase = "repairing"
        BY <3>1 DEF IInv, OneCaller, Calling
      <3>2. CASE worker[w].phase = "reserved"
        BY <1>3, <3>2 DEF IInv, CallsRecorded, Recorded, SameArtifact, MapStep
      <3>3. QED
        BY <1>1, <3>1, <3>2
    <2>11. TypeOK' /\ ShapesAgree' /\ StepsAgree' /\ DraftsAgree'
      <3>1. TypeOK'
        BY <1>1, <2>4, <2>5, <2>8, <2>9, StepReplaced DEF IInv, TypeOK
      <3>2. ShapesAgree' /\ StepsAgree' /\ DraftsAgree'
        BY <1>1, <2>4, <2>5, <2>8, StepReplaced DEF IInv, ShapesAgree, DraftsAgree, Artifacts
      <3>3. QED
        BY <3>1, <3>2
    <2>12. AttemptsAgree' /\ StagesAgree'
      BY <1>1 DEF IInv, AttemptsAgree, StagesAgree
    <2>13. WorkersHold'
      BY <1>1, <2>7, <2>9, <2>11, WorkersKept DEF RevisionsGrow, Grows
    <2>14. CallsRecorded'
      <3> SUFFICES ASSUME NEW v \in Workers, Calling(worker'[v])
                   PROVE  Recorded(worker'[v],
                            steps'[worker'[v].revision][worker'[v].index + 1],
                            invoked'[worker'[v].revision][worker'[v].index + 1])
        BY DEF CallsRecorded, MapStep
      <3>1. CASE v = w
        <4>1. steps'[worker[w].revision][worker[w].index + 1] = step
          BY <1>1, <2>4, <2>5, <2>8, StepReplaced
        <4>2. Recorded(q, step, made)
          BY <1>1, <2>3, <2>4, <2>6 DEF Recorded
        <4>3. QED
          BY <1>1, <2>6, <2>9, <3>1, <4>1, <4>2
      <3>2. CASE v # w
        <4>1. worker'[v] = worker[v] /\ Calling(worker[v]) /\ worker[v].phase \in Mapping
          BY <2>9, <3>2 DEF Calling, Mapping
        <4>2. steps'[worker[v].revision][worker[v].index + 1] = MapStep(v)
          BY <1>1, <2>4, <2>5, <2>8, <2>10, <3>2, <4>1, StepReplaced
        <4>3. Recorded(worker[v], MapStep(v), invoked[worker[v].revision][worker[v].index + 1])
          BY <4>1 DEF IInv, CallsRecorded
        <4>4. QED
          BY <1>1, <4>1, <4>2, <4>3
      <3>3. QED
        BY <3>1, <3>2
    <2>15. OneCaller'
      BY <2>6, <2>9, <2>10 DEF IInv, OneCaller, SameArtifact
    <2>16. QED
      BY <2>11, <2>12, <2>13, <2>14, <2>15 DEF IInv
  <1>4. QED
    BY <1>2, <1>3 DEF BeforeCall

LEMMA CallInvariant ==
    ASSUME IInv, NEW w \in Workers, Call(w)
    PROVE  IInv'
  <1> DEFINE number == worker[w].calls + 1
  <1>1. /\ worker[w].phase = "calling" /\ worker[w].phase \in Mapping
        /\ UNCHANGED <<content, revision, draft, artifacts, work, attempts, steps>>
    BY DEF Call, rows, Mapping
  <1>2. PICK r \in Revisions : r = worker[w].revision
    BY WorkerFacts
  <1>3. PICK a \in Artifacts(r) : a = worker[w].index + 1
    BY <1>1, <1>2, MappingFacts
  <1>4. PICK made \in Nat : made = invoked[r][a]
    BY <1>1, <1>2, <1>3, MappingFacts
  <1>5. invoked' = [invoked EXCEPT ![r] = [@ EXCEPT ![a] = made + 1]]
    BY <1>2, <1>3, <1>4 DEF Call, IInv, TypeOK
  <1>6. /\ worker[w].calls \in 0..1 /\ made = worker[w].calls
        /\ steps[r][a].status \notin {"none", "reserved"}
        /\ steps[r][a].status = "running" => steps[r][a].calls >= made + 1
    BY <1>1, <1>2, <1>3, <1>4, WorkerFacts
       DEF IInv, CallsRecorded, Calling, Recorded, MapStep, Claimed
  <1>7. /\ invoked \in [Revisions -> Seq(Nat)]
        /\ \A s \in Revisions : DOMAIN invoked[s] = Artifacts(s)
    BY DEF IInv, TypeOK, ShapesAgree
  <1>8. /\ invoked' \in [Revisions -> Seq(Nat)]
        /\ \A s \in Revisions : DOMAIN invoked'[s] = DOMAIN invoked[s]
        /\ \A s \in Revisions : \A b \in DOMAIN invoked[s] :
             invoked'[s][b] = IF s = r /\ b = a THEN made + 1 ELSE invoked[s][b]
    <2>1. made + 1 \in Nat /\ a \in DOMAIN invoked[r]
      BY <1>3, <1>7
    <2>2. QED
      BY <1>5, <1>7, <2>1, ReplacedElement
  <1>9. StepsAgree'
    <2> SUFFICES ASSUME NEW s \in Revisions, NEW b \in Artifacts(s)
                 PROVE  Counted(steps[s][b], invoked'[s][b], revision[s].status)
      BY <1>1 DEF StepsAgree, Artifacts
    <2>1. Counted(steps[s][b], invoked[s][b], revision[s].status)
      BY DEF IInv, StepsAgree
    <2>2. CASE s = r /\ b = a
      BY <1>6, <1>7, <1>8, <2>1, <2>2 DEF Counted
    <2>3. CASE ~(s = r /\ b = a)
      BY <1>7, <1>8, <2>1, <2>3
    <2>4. QED
      BY <2>2, <2>3
  <1>10. ASSUME NEW v \in Workers \ {w}, Calling(worker[v])
         PROVE  /\ ~SameArtifact(worker[v], worker[w])
                /\ Recorded(worker[v], steps'[worker[v].revision][worker[v].index + 1],
                            invoked'[worker[v].revision][worker[v].index + 1])
    <2>1. ~SameArtifact(worker[v], worker[w]) /\ worker[v].phase \in Mapping
      BY <1>1, <1>10 DEF IInv, OneCaller, Calling, Mapping
    <2>2. PICK s \in Revisions : s = worker[v].revision
      BY WorkerFacts
    <2>3. PICK b \in Artifacts(s) : b = worker[v].index + 1
      BY <2>1, <2>2, MappingFacts
    <2>4. ~(s = r /\ b = a)
      BY <1>1, <1>2, <1>3, <2>1, <2>2, <2>3, MappingFacts DEF SameArtifact
    <2>5. Recorded(worker[v], steps[s][b], invoked[s][b])
      BY <1>10, <2>2, <2>3 DEF IInv, CallsRecorded, MapStep
    <2>6. QED
      BY <1>1, <1>7, <1>8, <2>1, <2>2, <2>3, <2>4, <2>5
  <1>11. AttemptsAgree' /\ StagesAgree' /\ DraftsAgree' /\ ShapesAgree'
    BY <1>1, <1>7, <1>8
       DEF IInv, AttemptsAgree, StagesAgree, DraftsAgree, ShapesAgree, Artifacts
  <1>12. RevisionsGrow
    BY <1>1 DEF RevisionsGrow, Grows
  <1>13. CASE Moves(w)
    <2>1. TypeOK'
      BY <1>1, <1>8, <1>13, MovesFacts DEF IInv, TypeOK
    <2>2. WorkersHold'
      BY <1>1, <1>12, <1>13, <2>1, MovesFacts, WorkersKept
    <2>3. CallsRecorded' /\ OneCaller'
      BY <1>10, <1>13, MovesFacts, CallsKept
    <2>4. QED
      BY <1>9, <1>11, <2>1, <2>2, <2>3 DEF IInv
  <1>14. CASE worker[w].calls = 0 /\ Hold(w, [worker[w] EXCEPT !.phase = "repairing", !.calls = 1])
    <2> DEFINE q == [worker[w] EXCEPT !.phase = "repairing", !.calls = 1]
    <2>1. /\ worker[w] \in Claimed
          /\ Holds(worker[w], content[r], revision[r])
      BY <1>2, WorkerFacts
    <2>2. /\ q \in Claimed /\ q.phase = "repairing" /\ q.calls = 1 /\ q.revision = r
          /\ q.outcome = worker[w].outcome /\ q.index = worker[w].index
          /\ q.results = worker[w].results /\ q.work = worker[w].work
          /\ q.version = worker[w].version /\ q.metadata = worker[w].metadata
      <3>1. PICK n \in 0..1 : n = 1
        OBVIOUS
      <3>2. q = [worker[w] EXCEPT !.phase = "repairing", !.calls = n]
        BY <3>1
      <3>3. QED
        BY <1>2, <2>1, <3>1, <3>2 DEF Claimed
    <2>3. /\ worker' \in [Workers -> Claimed] /\ worker'[w] = q
          /\ \A v \in Workers \ {w} : worker'[v] = worker[v]
      BY <1>14, <2>2, HeldType
    <2> HIDE DEF q
    <2>4. Holds(q, content[r], revision[r])
      <3>1. Progress(q, content[r])
        BY <1>1, <2>1, <2>2 DEF Holds, Progress, Before, Computing, Mapping
      <3>2. Found(q, content[r]) /\ Snapshot(q, revision[r])
        BY <2>1, <2>2 DEF Holds, Found, Snapshot
      <3>3. QED
        BY <3>1, <3>2 DEF Holds
    <2>5. TypeOK'
      BY <1>1, <1>8, <2>3 DEF IInv, TypeOK
    <2>6. WorkersHold'
      BY <1>1, <1>12, <2>2, <2>3, <2>4, <2>5, WorkersKept
    <2>7. CallsRecorded'
      <3> SUFFICES ASSUME NEW v \in Workers, Calling(worker'[v])
                   PROVE  Recorded(worker'[v],
                            steps'[worker'[v].revision][worker'[v].index + 1],
                            invoked'[worker'[v].revision][worker'[v].index + 1])
        BY DEF CallsRecorded, MapStep
      <3>1. CASE v = w
        <4>1. invoked'[r][a] = made + 1
          BY <1>3, <1>7, <1>8
        <4>2. Recorded(q, steps[r][a], made + 1)
          BY <1>6, <1>14, <2>2 DEF Recorded
        <4>3. QED
          BY <1>1, <1>3, <2>2, <2>3, <3>1, <4>1, <4>2
      <3>2. CASE v # w
        BY <1>10, <2>3, <3>2
      <3>3. QED
        BY <3>1, <3>2
    <2>8. OneCaller'
      BY <1>2, <1>10, <2>2, <2>3 DEF IInv, OneCaller, SameArtifact
    <2>9. QED
      BY <1>9, <1>11, <2>5, <2>6, <2>7, <2>8 DEF IInv
  <1>15. Moves(w) \/ (worker[w].calls = 0
                       /\ Hold(w, [worker[w] EXCEPT !.phase = "repairing", !.calls = 1]))
    <2>1. PICK answer \in Answers :
            IF answer = "uncaught" THEN Forget(w)
            ELSE IF Outcome(number, answer) = "repair"
              THEN Hold(w, [worker[w] EXCEPT !.phase = "repairing", !.calls = 1])
            ELSE Finish(w, TerminalStatus(Outcome(number, answer)),
                        RecordedCalls(number, answer))
      BY DEF Call
    <2>2. number \in 1..2
      BY <1>6
    <2>3. CASE Forget(w)
      BY <1>1, <2>3, ForgetMoves DEF IInv, TypeOK
    <2>4. CASE Finish(w, TerminalStatus(Outcome(number, answer)),
                      RecordedCalls(number, answer))
      BY <1>1, <2>2, <2>4, OutcomeFacts, FinishMoves
    <2>5. CASE /\ Outcome(number, answer) = "repair"
               /\ Hold(w, [worker[w] EXCEPT !.phase = "repairing", !.calls = 1])
      BY <1>6, <2>2, <2>5, OutcomeFacts
    <2>6. QED
      BY <2>1, <2>3, <2>4, <2>5
  <1>16. QED
    BY <1>13, <1>14, <1>15

-----------------------------------------------------------------------------
(* Steps that move a revision on                                           *)

(* A revision gets a status, and a version that no worker has seen.        *)
MovedTo(r, status) ==
    /\ revision' \in [Revisions -> Revision]
    /\ RevisionsGrow
    /\ revision'[r].status = status
    /\ \A s \in Revisions \ {r} : revision'[s].status = revision[s].status
    /\ \A s \in Revisions : revision'[s].metadata = revision[s].metadata

LEMMA RevisionMoved ==
    ASSUME IInv, NEW r \in Revisions, NEW status \in Statuses,
           revision' = [revision EXCEPT ![r].status = status, ![r].version = @ + 1]
    PROVE  MovedTo(r, status)
  <1>1. revision \in [Revisions -> Revision] /\ revision[r] \in Revision
    BY DEF IInv, TypeOK
  <1>2. PICK version \in Nat \ {0} : version = revision[r].version + 1
    BY <1>1 DEF Revision
  <1> DEFINE row == [revision[r] EXCEPT !.status = status, !.version = version]
  <1>3. /\ row \in Revision /\ row.status = status /\ row.version = version
        /\ row.metadata = revision[r].metadata
    BY <1>1 DEF Revision
  <1>4. revision' = [revision EXCEPT ![r] = row]
    BY <1>1, <1>2 DEF Revision
  <1> HIDE DEF row
  <1>5. \A s \in Revisions : revision'[s] = IF s = r THEN row ELSE revision[s]
    BY <1>1, <1>4
  <1>6. revision' \in [Revisions -> Revision]
    BY <1>1, <1>3, <1>4
  <1>7. RevisionsGrow
    BY <1>1, <1>2, <1>3, <1>5 DEF RevisionsGrow, Grows, Revision
  <1>8. QED
    BY <1>3, <1>5, <1>6, <1>7 DEF MovedTo

(* Finalize: the first work row of a revision                              *)
LEMMA FinalizeInvariant ==
    ASSUME IInv, NEW r \in Revisions, Finalize(r)
    PROVE  IInv'
  <1>1. /\ revision[r].status = "uploading"
        /\ UNCHANGED <<content, draft, artifacts, attempts, steps, invoked, worker>>
        /\ "malware_scan" \in Phases /\ "deterministic_extract" \in Phases
    BY DEF Finalize, Phases
  <1>2. /\ revision' \in [Revisions -> Revision]
        /\ RevisionsGrow
        /\ \A s \in Revisions :
             revision'[s].status = IF s = r THEN "scanning" ELSE revision[s].status
    <2>1. MovedTo(r, "scanning")
      BY RevisionMoved DEF Finalize, Statuses
    <2>2. QED
      BY <2>1 DEF MovedTo
  <1>3. PICK row \in Work : /\ row = Bootstrapped(r)
                            /\ row.status = "available" /\ row.attempts = 0
    BY BootstrappedFacts DEF IInv, TypeOK
  <1>4. /\ work' \in [Revisions -> [Phases -> Work]]
        /\ \A s \in Revisions, p \in Phases :
             work'[s][p] = IF s = r /\ p = "malware_scan" THEN row ELSE work[s][p]
    BY <1>1, <1>3 DEF Finalize, IInv, TypeOK
  <1>5. TypeOK'
    BY <1>1, <1>2, <1>4 DEF IInv, TypeOK
  <1>6. AttemptsAgree'
    <2>1. /\ work[r]["malware_scan"].status = "none"
          /\ Agrees(work[r]["malware_scan"], attempts[r]["malware_scan"])
      BY <1>1 DEF IInv, StagesAgree, Stage, AttemptsAgree
    <2>2. attempts[r]["malware_scan"] = <<>>
      BY <2>1 DEF Agrees
    <2>3. Agrees(row, <<>>)
      BY <1>3, CountsAssumption DEF Agrees
    <2>4. QED
      BY <1>1, <1>4, <2>2, <2>3 DEF IInv, AttemptsAgree
  <1>7. StagesAgree'
    BY <1>1, <1>2, <1>3, <1>4 DEF IInv, StagesAgree, Stage, Unfinished
  <1>8. DraftsAgree' /\ ShapesAgree'
    BY <1>1, <1>2 DEF IInv, DraftsAgree, ShapesAgree, Artifacts
  <1>9. StepsAgree'
    BY <1>1, <1>2 DEF IInv, StepsAgree, Counted, Artifacts
  <1>10. WorkersHold'
    BY <1>1, <1>2, <1>5, WorkersKept
  <1>11. CallsRecorded' /\ OneCaller'
    BY <1>1 DEF IInv, CallsRecorded, OneCaller, MapStep
  <1>12. QED
    BY <1>5, <1>6, <1>7, <1>8, <1>9, <1>10, <1>11 DEF IInv

(* Patch: a new version, and an existing draft stays one.                  *)
LEMMA PatchInvariant ==
    ASSUME IInv, NEW r \in Revisions, Patch(r)
    PROVE  IInv'
  <1>1. UNCHANGED <<content, artifacts, work, attempts, steps, invoked, worker>>
    BY DEF Patch
  <1>2. revision[r] \in Revision /\ revision \in [Revisions -> Revision]
    BY DEF IInv, TypeOK
  <1>3. PICK row \in Revision :
          /\ revision' = [revision EXCEPT ![r] = row]
          /\ row.status = revision[r].status /\ row.version > revision[r].version
    <2>1. PICK version \in Nat \ {0}, metadata \in Nat :
            /\ version = revision[r].version + 1
            /\ metadata = revision[r].metadata + 1
      BY <1>2 DEF Revision
    <2>2. CASE revision' = [revision EXCEPT ![r].version = @ + 1]
      <3> DEFINE row == [revision[r] EXCEPT !.version = version]
      <3>1. row \in Revision /\ row.status = revision[r].status /\ row.version > revision[r].version
        <4>1. row \in Revision /\ row.status = revision[r].status /\ row.version = version
          BY <1>2, <2>1 DEF Revision
        <4>2. version > revision[r].version
          BY <1>2, <2>1 DEF Revision
        <4>3. QED
          BY <4>1, <4>2
      <3>2. revision' = [revision EXCEPT ![r] = row]
        BY <1>2, <2>1, <2>2
      <3>3. QED
        BY <3>1, <3>2
    <2>3. CASE revision' = [revision EXCEPT ![r].version = @ + 1, ![r].metadata = @ + 1]
      <3> DEFINE row == [revision[r] EXCEPT !.version = version, !.metadata = metadata]
      <3>1. row \in Revision /\ row.status = revision[r].status /\ row.version > revision[r].version
        <4>1. row \in Revision /\ row.status = revision[r].status /\ row.version = version
          BY <1>2, <2>1 DEF Revision
        <4>2. version > revision[r].version
          BY <1>2, <2>1 DEF Revision
        <4>3. QED
          BY <4>1, <4>2
      <3>2. revision' = [revision EXCEPT ![r] = row]
        BY <1>2, <2>1, <2>3
      <3>3. QED
        BY <3>1, <3>2
    <2>4. QED
      BY <2>2, <2>3 DEF Patch
  <1>4. /\ revision' \in [Revisions -> Revision]
        /\ RevisionsGrow
        /\ \A s \in Revisions : revision'[s].status = revision[s].status
    BY <1>2, <1>3 DEF RevisionsGrow, Grows
  <1>5. /\ draft' \in [Revisions -> SUBSET Nat]
        /\ \A s \in Revisions : draft'[s] = {} <=> draft[s] = {}
    <2>1. draft \in [Revisions -> SUBSET Nat] /\ revision[r].metadata + 1 \in Nat
      BY <1>2 DEF IInv, TypeOK, Revision
    <2>2. CASE draft' = draft
      BY <2>1, <2>2
    <2>3. CASE draft' = [draft EXCEPT ![r] = {revision[r].metadata + 1 : m \in @}]
      <3>1. PICK synced \in SUBSET Nat : synced = {revision[r].metadata + 1 : m \in draft[r]}
        BY <2>1
      <3>2. synced = {} <=> draft[r] = {}
        BY <3>1
      <3>3. draft' = [draft EXCEPT ![r] = synced]
        BY <2>1, <2>3, <3>1
      <3>4. QED
        BY <2>1, <3>2, <3>3
    <2>4. QED
      BY <2>2, <2>3 DEF Patch
  <1>6. TypeOK'
    BY <1>1, <1>4, <1>5 DEF IInv, TypeOK
  <1>7. AttemptsAgree' /\ StagesAgree' /\ DraftsAgree' /\ ShapesAgree'
    BY <1>1, <1>4, <1>5
       DEF IInv, AttemptsAgree, StagesAgree, DraftsAgree, ShapesAgree, Artifacts
  <1>8. StepsAgree'
    BY <1>1, <1>4 DEF IInv, StepsAgree, Artifacts
  <1>9. WorkersHold'
    BY <1>1, <1>4, <1>6, WorkersKept
  <1>10. CallsRecorded' /\ OneCaller'
    BY <1>1 DEF IInv, CallsRecorded, OneCaller, MapStep
  <1>11. QED
    BY <1>6, <1>7, <1>8, <1>9, <1>10 DEF IInv

(* The locked rows of a commit                                             *)
LEMMA LockedFacts ==
    ASSUME IInv, NEW w \in Workers, Locked(w)
    PROVE  /\ worker[w].phase = "persisting"
           /\ Row(w) \in Work /\ Row(w).status = "leased"
           /\ revision[worker[w].revision].status = Expected(worker[w].work)
           /\ revision[worker[w].revision].metadata = worker[w].metadata
           /\ draft[worker[w].revision] = {}
           /\ Found(worker[w], content[worker[w].revision])
  <1>1. PICK r \in Revisions, p \in Phases : r = worker[w].revision /\ p = worker[w].work
    BY WorkerFacts
  <1>2. work[r][p] \in Work
    BY DEF IInv, TypeOK
  <1>3. work[r][p].status = "leased" /\ revision[r].status = Expected(p)
    BY <1>1 DEF Locked, Current, Owned, Row
  <1>4. draft[r] = {}
    BY <1>3 DEF IInv, DraftsAgree, Expected
  <1>5. worker[w].metadata = revision[r].metadata
    BY <1>1, WorkerFacts DEF Locked, Current, Holds, Snapshot
  <1>6. QED
    BY <1>1, <1>2, <1>3, <1>4, <1>5, WorkerFacts DEF Row, Locked, Holds

(* The statuses a phase ends with when no other begins                     *)
Last(p) == IF p = "malware_scan" THEN {"quarantined", "invalid"}
           ELSE {"awaiting_confirmation", "invalid"}

(* One phase of a revision is completed, and no other begins.              *)
LEMMA PhaseCompleted ==
    ASSUME IInv, NEW w \in Workers, Locked(w), NEW status, Complete(w, status),
           NEW r \in Revisions, r = worker[w].revision,
           NEW p \in Phases, p = worker[w].work,
           work' = [work EXCEPT ![r][p] = CompletedRow(w)], status \in Last(p)
    PROVE  /\ work' \in [Revisions -> [Phases -> Work]]
           /\ attempts' \in [Revisions -> [Phases -> Seq(AttemptRow)]]
           /\ MovedTo(r, status)
           /\ AttemptsAgree' /\ StagesAgree'
  <1>1. /\ work[r][p] \in Work /\ work[r][p].status = "leased"
        /\ attempts[r][p] \in Seq(AttemptRow) /\ Agrees(work[r][p], attempts[r][p])
        /\ revision[r].status = Expected(p)
    BY LockedFacts DEF Row, IInv, TypeOK, AttemptsAgree
  <1> DEFINE row == Unleased(work[r][p], "completed")
             log == Ended(attempts[r][p], "succeeded")
  <1>2. row \in Work /\ row.status = "completed" /\ row.attempts = work[r][p].attempts
    BY <1>1, UnleasedFacts
  <1>3. work' = [work EXCEPT ![r] = [@ EXCEPT ![p] = row]]
    BY DEF CompletedRow, Row, IInv, TypeOK
  <1>4. attempts' = [attempts EXCEPT ![r] = [@ EXCEPT ![p] = log]]
    BY EndedLog DEF Complete, IInv
  <1> HIDE DEF row
  <1>5. log \in Seq(AttemptRow) /\ Agrees(row, log)
    <2>1. log \in Seq(AttemptRow)
      BY <1>1, EndedType
    <2>2. Agrees(row, log)
      BY <1>1, <1>2, AgreesEnded DEF Unfinished
    <2>3. QED
      BY <2>1, <2>2
  <1> HIDE DEF log
  <1>6. /\ work' \in [Revisions -> [Phases -> Work]]
        /\ \A s \in Revisions, o \in Phases :
             work'[s][o] = IF s = r /\ o = p THEN row ELSE work[s][o]
    BY <1>2, <1>3 DEF IInv, TypeOK
  <1>7. /\ attempts' \in [Revisions -> [Phases -> Seq(AttemptRow)]]
        /\ \A s \in Revisions, o \in Phases :
             attempts'[s][o] = IF s = r /\ o = p THEN log ELSE attempts[s][o]
    BY <1>4, <1>5 DEF IInv, TypeOK
  <1>8. MovedTo(r, status)
    <2>1. revision' = [revision EXCEPT ![r].status = status, ![r].version = @ + 1]
      BY DEF Complete
    <2>2. status \in Statuses
      BY DEF Statuses, Last
    <2>3. QED
      BY <2>1, <2>2, RevisionMoved
  <1>9. AttemptsAgree'
    BY <1>5, <1>6, <1>7 DEF IInv, AttemptsAgree
  <1>10. StagesAgree'
    <2> SUFFICES ASSUME NEW s \in Revisions
                 PROVE  Stage(revision'[s].status, work'[s]["malware_scan"].status,
                              work'[s]["deterministic_extract"].status)
      BY DEF StagesAgree
    <2>1. /\ Stage(revision[s].status, work[s]["malware_scan"].status,
                   work[s]["deterministic_extract"].status)
          /\ "malware_scan" \in Phases /\ "deterministic_extract" \in Phases
      BY DEF IInv, StagesAgree, Phases
    <2>2. CASE s # r
      BY <1>6, <1>8, <2>1, <2>2 DEF MovedTo
    <2>3. CASE s = r /\ p = "malware_scan"
      <3>1. revision[s].status = "scanning" /\ revision'[s].status \in {"quarantined", "invalid"}
        BY <1>1, <1>8, <2>3 DEF Expected, Last, MovedTo
      <3>2. /\ work'[s]["malware_scan"].status = "completed"
            /\ work'[s]["deterministic_extract"] = work[s]["deterministic_extract"]
        BY <1>2, <1>6, <2>1, <2>3
      <3>3. QED
        BY <2>1, <3>1, <3>2 DEF Stage
    <2>4. CASE s = r /\ p = "deterministic_extract"
      <3>1. /\ revision[s].status = "extracting"
            /\ revision'[s].status \in {"awaiting_confirmation", "invalid"}
        BY <1>1, <1>8, <2>4 DEF Expected, Last, MovedTo
      <3>2. /\ work'[s]["deterministic_extract"].status = "completed"
            /\ work'[s]["malware_scan"] = work[s]["malware_scan"]
        BY <1>2, <1>6, <2>1, <2>4
      <3>3. QED
        BY <2>1, <3>1, <3>2 DEF Stage
    <2>5. QED
      BY <2>2, <2>3, <2>4 DEF Phases
  <1>11. QED
    BY <1>6, <1>7, <1>8, <1>9, <1>10

(* A commit: the tables agree again, the worker forgets its claim, and a   *)
(* step row is left alone or terminal.                                     *)
LEMMA CommitStep ==
    ASSUME IInv, NEW w \in Workers, Forget(w), UNCHANGED <<content, invoked>>,
           revision' \in [Revisions -> Revision], RevisionsGrow,
           draft' \in [Revisions -> SUBSET Nat],
           artifacts' \in [Revisions -> ArtifactRows],
           work' \in [Revisions -> [Phases -> Work]],
           attempts' \in [Revisions -> [Phases -> Seq(AttemptRow)]],
           steps' \in [Revisions -> Seq(Step)],
           \A r \in Revisions : /\ DOMAIN artifacts'[r].scan = Artifacts(r)
                                /\ DOMAIN steps'[r] = Artifacts(r),
           AttemptsAgree', StagesAgree', DraftsAgree', StepsAgree',
           \A r \in Revisions : \A a \in Artifacts(r) :
             \/ steps'[r][a] = steps[r][a]
             \/ steps'[r][a].status \in {"completed", "failed", "policy_blocked"}
    PROVE  IInv'
  <1>1. Moves(w)
    BY ForgetMoves
  <1>2. TypeOK'
    BY <1>1, MovesFacts DEF IInv, TypeOK
  <1>3. ShapesAgree'
    BY DEF IInv, ShapesAgree, Artifacts
  <1>4. WorkersHold'
    BY <1>1, <1>2, MovesFacts, WorkersKept
  <1>5. ASSUME NEW v \in Workers \ {w}, Calling(worker[v])
        PROVE  Recorded(worker[v], steps'[worker[v].revision][worker[v].index + 1],
                        invoked'[worker[v].revision][worker[v].index + 1])
    <2>1. Recorded(worker[v], MapStep(v), invoked[worker[v].revision][worker[v].index + 1])
      BY <1>5 DEF IInv, CallsRecorded
    <2>2. PICK r \in Revisions : r = worker[v].revision
      BY WorkerFacts
    <2>3. PICK a \in Artifacts(r) : a = worker[v].index + 1
      BY <1>5, <2>2, MappingFacts DEF Calling, Mapping
    <2>4. CASE steps'[r][a] = steps[r][a]
      BY <2>1, <2>2, <2>3, <2>4 DEF MapStep
    <2>5. CASE steps'[r][a].status \in {"completed", "failed", "policy_blocked"}
      BY <2>1, <2>2, <2>3, <2>5 DEF Recorded
    <2>6. QED
      BY <2>4, <2>5
  <1>6. CallsRecorded' /\ OneCaller'
    BY <1>1, <1>5, MovesFacts, CallsKept
  <1>7. QED
    BY <1>2, <1>3, <1>4, <1>6 DEF IInv

(* The artifact rows of a revision are replaced: new scans, or a new state *)
(* of the extraction.                                                      *)
LEMMA ScansReplaced ==
    ASSUME IInv, NEW r \in Revisions, NEW scan,
           scan \in [Artifacts(r) -> {"pending", "clean", "infected", "error"}],
           artifacts' = [artifacts EXCEPT ![r] = [@ EXCEPT !.scan = scan]]
    PROVE  /\ artifacts' \in [Revisions -> ArtifactRows]
           /\ \A s \in Revisions : DOMAIN artifacts'[s].scan = Artifacts(s)
  <1>1. content[r] \in Packages /\ artifacts \in [Revisions -> ArtifactRows]
    BY DEF IInv, TypeOK
  <1>2. scan \in Seq({"pending", "clean", "infected", "error"})
    BY <1>1, PackageFacts DEF Artifacts
  <1> DEFINE row == [artifacts[r] EXCEPT !.scan = scan]
  <1>3. row \in ArtifactRows /\ row.scan = scan
    BY <1>1, <1>2 DEF ArtifactRows
  <1>4. artifacts' = [artifacts EXCEPT ![r] = row]
    OBVIOUS
  <1> HIDE DEF row
  <1>5. artifacts' \in [Revisions -> ArtifactRows]
    BY <1>1, <1>3, <1>4
  <1>6. \A s \in Revisions : artifacts'[s] = IF s = r THEN row ELSE artifacts[s]
    BY <1>1, <1>4
  <1>7. DOMAIN scan = Artifacts(r)
    OBVIOUS
  <1>8. QED
    BY <1>3, <1>5, <1>6, <1>7 DEF IInv, ShapesAgree

LEMMA ExtractionReplaced ==
    ASSUME IInv, NEW r \in Revisions, NEW extraction \in {"succeeded", "failed"},
           artifacts' = [artifacts EXCEPT ![r] = [@ EXCEPT !.extraction = extraction]]
    PROVE  /\ artifacts' \in [Revisions -> ArtifactRows]
           /\ \A s \in Revisions : DOMAIN artifacts'[s].scan = Artifacts(s)
  <1>1. artifacts \in [Revisions -> ArtifactRows] /\ artifacts[r] \in ArtifactRows
    BY DEF IInv, TypeOK
  <1> DEFINE row == [artifacts[r] EXCEPT !.extraction = extraction]
  <1>2. row \in ArtifactRows /\ row.scan = artifacts[r].scan
    BY <1>1 DEF ArtifactRows
  <1>3. artifacts' = [artifacts EXCEPT ![r] = row]
    OBVIOUS
  <1> HIDE DEF row
  <1>4. artifacts' \in [Revisions -> ArtifactRows]
    BY <1>1, <1>2, <1>3
  <1>5. \A s \in Revisions : artifacts'[s] = IF s = r THEN row ELSE artifacts[s]
    BY <1>1, <1>3
  <1>6. QED
    BY <1>2, <1>4, <1>5 DEF IInv, ShapesAgree

(* A phase ends and nothing of the extraction is published: no draft       *)
(* appears and no step row changes.                                        *)
LEMMA RejectInvariant ==
    ASSUME IInv, NEW w \in Workers, Locked(w), NEW status,
           Complete(w, status),
           NEW r \in Revisions, r = worker[w].revision,
           NEW p \in Phases, p = worker[w].work,
           work' = [work EXCEPT ![r][p] = CompletedRow(w)],
           status \in Last(p), status # "awaiting_confirmation",
           artifacts' \in [Revisions -> ArtifactRows],
           \A s \in Revisions : DOMAIN artifacts'[s].scan = Artifacts(s),
           Forget(w), UNCHANGED <<content, draft, steps, invoked>>
    PROVE  IInv'
  <1>1. /\ work' \in [Revisions -> [Phases -> Work]]
        /\ attempts' \in [Revisions -> [Phases -> Seq(AttemptRow)]]
        /\ MovedTo(r, status)
        /\ AttemptsAgree' /\ StagesAgree'
    BY PhaseCompleted
  <1>2. draft \in [Revisions -> SUBSET Nat] /\ draft[r] = {} /\ steps \in [Revisions -> Seq(Step)]
    BY LockedFacts DEF IInv, TypeOK
  <1>3. DraftsAgree'
    BY <1>1, <1>2 DEF IInv, DraftsAgree, MovedTo
  <1>4. StepsAgree'
    <2> SUFFICES ASSUME NEW s \in Revisions, NEW a \in Artifacts(s)
                 PROVE  Counted(steps[s][a], invoked[s][a], revision'[s].status)
      BY DEF StepsAgree, Artifacts
    <2>1. Counted(steps[s][a], invoked[s][a], revision[s].status)
      BY DEF IInv, StepsAgree
    <2>2. QED
      BY <1>1, <2>1 DEF Counted, MovedTo
  <1>5. \A s \in Revisions : DOMAIN steps'[s] = Artifacts(s)
    BY DEF IInv, ShapesAgree
  <1>6. QED
    BY <1>1, <1>2, <1>3, <1>4, <1>5, CommitStep DEF MovedTo

LEMMA CommitQuarantinedScanInvariant ==
    ASSUME IInv, NEW w \in Workers, CommitQuarantinedScan(w)
    PROVE  IInv'
  <1>1. PICK r \in Revisions, p \in Phases : r = worker[w].revision /\ p = worker[w].work
    BY WorkerFacts
  <1>2. /\ Locked(w) /\ Complete(w, "quarantined") /\ Forget(w)
        /\ UNCHANGED <<content, draft, steps, invoked>>
        /\ worker[w].outcome = "quarantined"
    BY DEF CommitQuarantinedScan
  <1>3. /\ p = "malware_scan" /\ worker[w].index < Len(content[r])
        /\ worker[w].index \in Nat
    BY <1>1, <1>2, LockedFacts, WorkerFacts DEF Found, Claimed
  <1>4. PICK a \in Artifacts(r) : a = worker[w].index + 1
    BY <1>1, <1>3, WorkerFacts DEF Artifacts
  <1>5. /\ artifacts[r] \in ArtifactRows /\ DOMAIN artifacts[r].scan = Artifacts(r)
        /\ artifacts \in [Revisions -> ArtifactRows]
    BY DEF IInv, TypeOK, ShapesAgree
  <1> DEFINE scan == [artifacts[r].scan EXCEPT ![a] = "infected"]
  <1>6. artifacts[r].scan \in [Artifacts(r) -> {"pending", "clean", "infected", "error"}]
    BY <1>5 DEF ArtifactRows
  <1>7. scan \in [Artifacts(r) -> {"pending", "clean", "infected", "error"}]
    BY <1>6
  <1>8. artifacts' = [artifacts EXCEPT ![r] = [@ EXCEPT !.scan = scan]]
    BY <1>1, <1>4 DEF CommitQuarantinedScan
  <1> HIDE DEF scan
  <1>9. /\ artifacts' \in [Revisions -> ArtifactRows]
        /\ \A s \in Revisions : DOMAIN artifacts'[s].scan = Artifacts(s)
    BY <1>7, <1>8, ScansReplaced
  <1>10. work' = [work EXCEPT ![r][p] = CompletedRow(w)]
    BY <1>1, <1>3 DEF CommitQuarantinedScan
  <1>11. QED
    BY <1>1, <1>2, <1>3, <1>9, <1>10, RejectInvariant DEF Last

LEMMA CommitInvalidScanInvariant ==
    ASSUME IInv, NEW w \in Workers, CommitInvalidScan(w)
    PROVE  IInv'
  <1>1. PICK r \in Revisions, p \in Phases : r = worker[w].revision /\ p = worker[w].work
    BY WorkerFacts
  <1>2. /\ Locked(w) /\ Complete(w, "invalid") /\ Forget(w)
        /\ UNCHANGED <<content, draft, steps, invoked>>
        /\ p = "malware_scan"
    BY <1>1 DEF CommitInvalidScan
  <1>3. /\ artifacts[r] \in ArtifactRows /\ DOMAIN artifacts[r].scan = Artifacts(r)
        /\ artifacts \in [Revisions -> ArtifactRows]
    BY DEF IInv, TypeOK, ShapesAgree
  <1> DEFINE scan == [a \in Artifacts(r) |-> IF artifacts[r].scan[a] = "pending"
                                            THEN "error" ELSE artifacts[r].scan[a]]
  <1>4. artifacts[r].scan \in [Artifacts(r) -> {"pending", "clean", "infected", "error"}]
    BY <1>3 DEF ArtifactRows
  <1>5. scan \in [Artifacts(r) -> {"pending", "clean", "infected", "error"}]
    BY <1>4
  <1>6. artifacts' = [artifacts EXCEPT ![r] = [@ EXCEPT !.scan = scan]]
    BY <1>1 DEF CommitInvalidScan
  <1> HIDE DEF scan
  <1>7. /\ artifacts' \in [Revisions -> ArtifactRows]
        /\ \A s \in Revisions : DOMAIN artifacts'[s].scan = Artifacts(s)
    BY <1>5, <1>6, ScansReplaced
  <1>8. work' = [work EXCEPT ![r][p] = CompletedRow(w)]
    BY <1>1, <1>2 DEF CommitInvalidScan
  <1>9. QED
    BY <1>1, <1>2, <1>7, <1>8, RejectInvariant DEF Last

LEMMA CommitInvalidExtractInvariant ==
    ASSUME IInv, NEW w \in Workers, CommitInvalidExtract(w)
    PROVE  IInv'
  <1>1. PICK r \in Revisions, p \in Phases : r = worker[w].revision /\ p = worker[w].work
    BY WorkerFacts
  <1>2. /\ Locked(w) /\ Complete(w, "invalid") /\ Forget(w)
        /\ UNCHANGED <<content, draft, steps, invoked>>
        /\ p = "deterministic_extract"
    BY <1>1 DEF CommitInvalidExtract
  <1>3. artifacts' = [artifacts EXCEPT ![r] = [@ EXCEPT !.extraction = "failed"]]
    BY <1>1 DEF CommitInvalidExtract
  <1>4. /\ artifacts' \in [Revisions -> ArtifactRows]
        /\ \A s \in Revisions : DOMAIN artifacts'[s].scan = Artifacts(s)
    BY <1>3, ExtractionReplaced
  <1>5. work' = [work EXCEPT ![r][p] = CompletedRow(w)]
    BY <1>1, <1>2 DEF CommitInvalidExtract
  <1>6. QED
    BY <1>1, <1>2, <1>4, <1>5, RejectInvariant DEF Last

(* The scan is clean: the row of the extraction appears with the end of    *)
(* the scan.                                                               *)
LEMMA CommitCleanScanInvariant ==
    ASSUME IInv, NEW w \in Workers, CommitCleanScan(w)
    PROVE  IInv'
  <1>1. PICK r \in Revisions : r = worker[w].revision
    BY WorkerFacts
  <1>2. /\ Locked(w) /\ Complete(w, "extracting") /\ Forget(w)
        /\ UNCHANGED <<content, draft, steps, invoked>>
        /\ worker[w].outcome = "all_clean"
    BY DEF CommitCleanScan
  <1>3. /\ worker[w].work = "malware_scan" /\ draft[r] = {}
        /\ work[r]["malware_scan"].status = "leased"
        /\ revision[r].status = "scanning"
    BY <1>1, <1>2, LockedFacts DEF Found, Row, Expected
  <1>4. /\ "malware_scan" \in Phases /\ "deterministic_extract" \in Phases
        /\ "malware_scan" # "deterministic_extract"
    BY DEF Phases
  <1>5. /\ work[r]["malware_scan"] \in Work
        /\ attempts[r]["malware_scan"] \in Seq(AttemptRow)
        /\ Agrees(work[r]["malware_scan"], attempts[r]["malware_scan"])
    BY <1>4 DEF IInv, TypeOK, AttemptsAgree
  <1> DEFINE row == Unleased(work[r]["malware_scan"], "completed")
             log == Ended(attempts[r]["malware_scan"], "succeeded")
  <1>6. /\ row \in Work /\ row.status = "completed"
        /\ row.attempts = work[r]["malware_scan"].attempts
    BY <1>5, UnleasedFacts
  <1>7. PICK next \in Work : /\ next = Bootstrapped(r)
                             /\ next.status = "available" /\ next.attempts = 0
    BY BootstrappedFacts DEF IInv, TypeOK
  <1>8. work' = [work EXCEPT ![r] = [@ EXCEPT !["malware_scan"] = row,
                                              !["deterministic_extract"] = next]]
    BY <1>1, <1>3, <1>7 DEF CommitCleanScan, CompletedRow, Row
  <1>9. attempts' = [attempts EXCEPT ![r] = [@ EXCEPT !["malware_scan"] = log]]
    BY <1>1, <1>2, <1>3, <1>4, EndedLog DEF Complete, IInv
  <1> HIDE DEF row
  <1>10. log \in Seq(AttemptRow) /\ Agrees(row, log)
    <2>1. log \in Seq(AttemptRow)
      BY <1>5, EndedType
    <2>2. Agrees(row, log)
      BY <1>3, <1>5, <1>6, AgreesEnded
    <2>3. QED
      BY <2>1, <2>2
  <1> HIDE DEF log
  <1>11. /\ work' \in [Revisions -> [Phases -> Work]]
         /\ \A s \in Revisions, p \in Phases :
              work'[s][p] = IF s # r THEN work[s][p]
                            ELSE IF p = "malware_scan" THEN row ELSE next
    <2>1. work \in [Revisions -> [Phases -> Work]]
      BY DEF IInv, TypeOK
    <2>2. [work[r] EXCEPT !["malware_scan"] = row, !["deterministic_extract"] = next]
            = [p \in Phases |-> IF p = "malware_scan" THEN row ELSE next]
      BY <2>1 DEF Phases
    <2>3. work' = [work EXCEPT ![r] = [p \in Phases |->
                                         IF p = "malware_scan" THEN row ELSE next]]
      BY <1>8, <2>1, <2>2
    <2>4. QED
      BY <1>6, <2>1, <2>3
  <1>12. /\ attempts' \in [Revisions -> [Phases -> Seq(AttemptRow)]]
         /\ \A s \in Revisions, p \in Phases :
              attempts'[s][p] = IF s = r /\ p = "malware_scan" THEN log ELSE attempts[s][p]
    BY <1>9, <1>10 DEF IInv, TypeOK
  <1>13. /\ revision' \in [Revisions -> Revision]
         /\ RevisionsGrow
         /\ \A s \in Revisions :
              revision'[s].status = IF s = r THEN "extracting" ELSE revision[s].status
    <2>1. revision' = [revision EXCEPT ![r].status = "extracting", ![r].version = @ + 1]
      BY <1>1, <1>2 DEF Complete
    <2>2. MovedTo(r, "extracting")
      BY <2>1, RevisionMoved DEF Statuses
    <2>3. QED
      BY <2>2 DEF MovedTo
  <1>14. Stage("scanning", work[r]["malware_scan"].status,
               work[r]["deterministic_extract"].status)
    BY <1>3 DEF IInv, StagesAgree
  <1>15. AttemptsAgree'
    <2>1. Agrees(next, attempts[r]["deterministic_extract"])
      <3>1. work[r]["deterministic_extract"].status = "none"
        BY <1>14 DEF Stage
      <3>2. attempts[r]["deterministic_extract"] = <<>>
        BY <1>4, <3>1 DEF IInv, AttemptsAgree, Agrees
      <3>3. QED
        BY <1>7, <3>2, CountsAssumption DEF Agrees
    <2> SUFFICES ASSUME NEW s \in Revisions, NEW p \in Phases
                 PROVE  Agrees(work'[s][p], attempts'[s][p])
      BY DEF AttemptsAgree
    <2>2. CASE s # r
      BY <1>11, <1>12, <2>2 DEF IInv, AttemptsAgree
    <2>3. CASE s = r /\ p = "malware_scan"
      BY <1>10, <1>11, <1>12, <2>3
    <2>4. CASE s = r /\ p = "deterministic_extract"
      BY <1>4, <1>11, <1>12, <2>1, <2>4
    <2>5. QED
      BY <2>2, <2>3, <2>4 DEF Phases
  <1>16. StagesAgree'
    <2> SUFFICES ASSUME NEW s \in Revisions
                 PROVE  Stage(revision'[s].status, work'[s]["malware_scan"].status,
                              work'[s]["deterministic_extract"].status)
      BY DEF StagesAgree
    <2>1. CASE s # r
      BY <1>4, <1>11, <1>13, <2>1 DEF IInv, StagesAgree
    <2>2. CASE s = r
      BY <1>4, <1>6, <1>7, <1>11, <1>13, <2>2 DEF Stage, Unfinished
    <2>3. QED
      BY <2>1, <2>2
  <1>17. DraftsAgree'
    BY <1>2, <1>3, <1>13 DEF IInv, DraftsAgree
  <1>18. StepsAgree'
    <2> SUFFICES ASSUME NEW s \in Revisions, NEW a \in Artifacts(s)
                 PROVE  Counted(steps[s][a], invoked[s][a], revision'[s].status)
      BY <1>2 DEF StepsAgree, Artifacts
    <2>1. Counted(steps[s][a], invoked[s][a], revision[s].status)
      BY DEF IInv, StepsAgree
    <2>2. QED
      BY <1>13, <2>1 DEF Counted
  <1>19. /\ artifacts' \in [Revisions -> ArtifactRows]
         /\ \A s \in Revisions : DOMAIN artifacts'[s].scan = Artifacts(s)
    <2> DEFINE scan == [a \in Artifacts(r) |-> "clean"]
    <2>1. scan \in [Artifacts(r) -> {"pending", "clean", "infected", "error"}]
      OBVIOUS
    <2>2. artifacts' = [artifacts EXCEPT ![r] = [@ EXCEPT !.scan = scan]]
      BY <1>1 DEF CommitCleanScan
    <2> HIDE DEF scan
    <2>3. QED
      BY <2>1, <2>2, ScansReplaced
  <1>20. /\ draft' \in [Revisions -> SUBSET Nat] /\ steps' \in [Revisions -> Seq(Step)]
         /\ \A s \in Revisions : DOMAIN steps'[s] = Artifacts(s)
    BY <1>2 DEF IInv, TypeOK, ShapesAgree
  <1>21. \A s \in Revisions : \A a \in Artifacts(s) : steps'[s][a] = steps[s][a]
    BY <1>2
  <1>22. QED
    BY <1>2, <1>11, <1>12, <1>13, <1>15, <1>16, <1>17, <1>18, <1>19, <1>20, <1>21, CommitStep

(* The draft is published: every step row becomes terminal.                *)
LEMMA CommitSuccessfulExtractInvariant ==
    ASSUME IInv, NEW w \in Workers, CommitSuccessfulExtract(w)
    PROVE  IInv'
  <1>1. PICK r \in Revisions, p \in Phases : r = worker[w].revision /\ p = worker[w].work
    BY WorkerFacts
  <1>2. /\ Locked(w) /\ Complete(w, "awaiting_confirmation") /\ Forget(w)
        /\ UNCHANGED <<content, invoked>>
        /\ worker[w].outcome = "succeeded"
    BY DEF CommitSuccessfulExtract
  <1>3. /\ p = "deterministic_extract" /\ Len(worker[w].results) = Len(content[r])
        /\ draft[r] = {}
    BY <1>1, <1>2, LockedFacts DEF Found
  <1>4. work' = [work EXCEPT ![r][p] = CompletedRow(w)]
    BY <1>1, <1>3 DEF CommitSuccessfulExtract
  <1>5. /\ work' \in [Revisions -> [Phases -> Work]]
        /\ attempts' \in [Revisions -> [Phases -> Seq(AttemptRow)]]
        /\ MovedTo(r, "awaiting_confirmation")
        /\ AttemptsAgree' /\ StagesAgree'
    <2>1. "awaiting_confirmation" \in Last(p)
      BY <1>3 DEF Last
    <2>2. QED
      BY <1>1, <1>2, <1>4, <2>1, PhaseCompleted
  <1>6. /\ artifacts' \in [Revisions -> ArtifactRows]
        /\ \A s \in Revisions : DOMAIN artifacts'[s].scan = Artifacts(s)
    <2>1. artifacts' = [artifacts EXCEPT ![r] = [@ EXCEPT !.extraction = "succeeded"]]
      BY <1>1 DEF CommitSuccessfulExtract
    <2>2. QED
      BY <2>1, ExtractionReplaced
  <1>7. draft' \in [Revisions -> SUBSET Nat] /\ DraftsAgree'
    <2>1. draft \in [Revisions -> SUBSET Nat] /\ worker[w].metadata \in Nat
      BY WorkerFacts DEF IInv, TypeOK, Claimed
    <2>2. draft' = [draft EXCEPT ![r] = {worker[w].metadata}]
      BY <1>1 DEF CommitSuccessfulExtract
    <2>3. \A s \in Revisions : draft'[s] = IF s = r THEN {worker[w].metadata} ELSE draft[s]
      BY <2>1, <2>2
    <2>4. DraftsAgree'
      BY <1>5, <2>3 DEF IInv, DraftsAgree, MovedTo
    <2>5. QED
      BY <2>1, <2>2, <2>4
  <1> DEFINE ended == [a \in Artifacts(r) |-> Terminal(steps[r][a], worker[w].results[a])]
  <1>8. steps' = [steps EXCEPT ![r] = ended]
    BY <1>1 DEF CommitSuccessfulExtract
  <1>9. /\ steps \in [Revisions -> Seq(Step)]
        /\ \A s \in Revisions : DOMAIN steps[s] = Artifacts(s)
        /\ content[r] \in Packages
    BY DEF IInv, TypeOK, ShapesAgree
  <1>10. /\ Artifacts(r) = 1..Len(content[r]) /\ Len(content[r]) \in Nat
         /\ worker[w].results \in Seq(Result)
    BY <1>9, PackageFacts, WorkerFacts DEF Artifacts, Claimed
  <1>11. ASSUME NEW a \in Artifacts(r)
         PROVE  /\ Terminal(steps[r][a], worker[w].results[a]) \in Step
                /\ Terminal(steps[r][a], worker[w].results[a]).status
                     \in {"completed", "failed", "policy_blocked"}
    <2>1. PICK step \in Step : step = steps[r][a]
      BY <1>9
    <2>2. PICK result \in Result : result = worker[w].results[a]
      BY <1>3, <1>10
    <2>3. PICK status \in {"completed", "failed", "policy_blocked"}, calls \in 0..2 :
            status = result.status /\ calls = result.calls
      BY <2>2 DEF Result
    <2>4. Terminal(step, result) = [step EXCEPT !.status = status, !.calls = calls]
      BY <2>3 DEF Terminal
    <2>5. QED
      BY <2>1, <2>2, <2>4 DEF Step
  <1>12. /\ ended \in Seq(Step) /\ DOMAIN ended = Artifacts(r)
         /\ \A a \in Artifacts(r) :
              ended[a].status \in {"completed", "failed", "policy_blocked"}
    <2>1. ended \in [1..Len(content[r]) -> Step]
      BY <1>10, <1>11
    <2>2. ended \in Seq(Step)
      BY <1>10, <2>1
    <2>3. QED
      BY <1>11, <2>2
  <1> HIDE DEF ended
  <1>13. /\ steps' \in [Revisions -> Seq(Step)]
         /\ steps'[r] = ended /\ \A s \in Revisions \ {r} : steps'[s] = steps[s]
    BY <1>8, <1>9, <1>12
  <1>14. \A s \in Revisions : DOMAIN steps'[s] = Artifacts(s)
    BY <1>9, <1>12, <1>13
  <1>15. StepsAgree'
    <2> SUFFICES ASSUME NEW s \in Revisions, NEW a \in Artifacts(s)
                 PROVE  Counted(steps'[s][a], invoked[s][a], revision'[s].status)
      BY <1>2 DEF StepsAgree, Artifacts
    <2>1. Counted(steps[s][a], invoked[s][a], revision[s].status)
      BY DEF IInv, StepsAgree
    <2>2. CASE s = r
      BY <1>12, <1>13, <2>1, <2>2 DEF Counted
    <2>3. CASE s # r
      BY <1>5, <1>13, <2>1, <2>3 DEF MovedTo
    <2>4. QED
      BY <2>2, <2>3
  <1>16. \A s \in Revisions : \A a \in Artifacts(s) :
           \/ steps'[s][a] = steps[s][a]
           \/ steps'[s][a].status \in {"completed", "failed", "policy_blocked"}
    BY <1>12, <1>13
  <1>17. revision' \in [Revisions -> Revision] /\ RevisionsGrow
    BY <1>5 DEF MovedTo
  <1>18. QED
    BY <1>2, <1>5, <1>6, <1>7, <1>13, <1>14, <1>15, <1>16, <1>17, CommitStep

LEMMA CommitRetryableFailureInvariant ==
    ASSUME IInv, NEW w \in Workers, CommitRetryableFailure(w)
    PROVE  IInv'
  <1>1. PICK r \in Revisions, p \in Phases : r = worker[w].revision /\ p = worker[w].work
    BY WorkerFacts
  <1>2. /\ Locked(w) /\ EndAttempt(r, p, "failed") /\ Forget(w)
        /\ work' = [work EXCEPT ![r][p] = FailedRow(@)]
        /\ UNCHANGED <<content, revision, draft, artifacts, steps, invoked>>
    BY <1>1 DEF CommitRetryableFailure
  <1>3. /\ work[r][p] \in Work /\ work[r][p].status = "leased"
        /\ attempts[r][p] \in Seq(AttemptRow) /\ Agrees(work[r][p], attempts[r][p])
    BY <1>1, <1>2, LockedFacts DEF Row, IInv, TypeOK, AttemptsAgree
  <1>4. PICK row \in Work :
          /\ row = FailedRow(work[r][p]) /\ row.status \in Unfinished \ {"leased"}
          /\ row.attempts = work[r][p].attempts
    <2> DEFINE retry == work[r][p].attempts < MaxAttempts
    <2>1. PICK status \in Unfinished \ {"leased"} :
            status = IF retry THEN "available" ELSE "failed"
      BY DEF Unfinished
    <2>2. PICK freed \in Work : /\ freed = Unleased(work[r][p], status)
                                /\ freed.status = status
                                /\ freed.attempts = work[r][p].attempts
      BY <1>3, UnleasedFacts
    <2>3. FailedRow(work[r][p]) = [freed EXCEPT !.delayed = retry]
      BY <2>1, <2>2 DEF FailedRow
    <2>4. ASSUME NEW delayed \in BOOLEAN
          PROVE  /\ [freed EXCEPT !.delayed = delayed] \in Work
                 /\ [freed EXCEPT !.delayed = delayed].status = freed.status
                 /\ [freed EXCEPT !.delayed = delayed].attempts = freed.attempts
      BY DEF Work
    <2>5. retry \in BOOLEAN
      OBVIOUS
    <2> HIDE DEF retry
    <2>6. /\ [freed EXCEPT !.delayed = retry] \in Work
          /\ [freed EXCEPT !.delayed = retry].status = freed.status
          /\ [freed EXCEPT !.delayed = retry].attempts = freed.attempts
      BY <2>4, <2>5
    <2>7. /\ FailedRow(work[r][p]) \in Work
          /\ FailedRow(work[r][p]).status \in Unfinished \ {"leased"}
      BY <2>1, <2>2, <2>3, <2>6
    <2>8. FailedRow(work[r][p]).attempts = work[r][p].attempts
      BY <2>2, <2>3, <2>6
    <2>9. QED
      BY <2>7, <2>8
  <1> DEFINE log == Ended(attempts[r][p], "failed")
  <1>5. log \in Seq(AttemptRow) /\ Agrees(row, log)
    <2>1. log \in Seq(AttemptRow)
      BY <1>3, EndedType
    <2>2. Agrees(row, log)
      BY <1>3, <1>4, AgreesEnded
    <2>3. QED
      BY <2>1, <2>2
  <1>6. attempts' = [attempts EXCEPT ![r] = [@ EXCEPT ![p] = log]]
    BY <1>2, EndedLog DEF IInv
  <1>7. work' = [work EXCEPT ![r] = [@ EXCEPT ![p] = row]]
    BY <1>2, <1>4 DEF IInv, TypeOK
  <1> HIDE DEF log
  <1>8. /\ work' \in [Revisions -> [Phases -> Work]]
        /\ attempts' \in [Revisions -> [Phases -> Seq(AttemptRow)]]
        /\ AttemptsAgree' /\ StagesAgree'
    BY <1>2, <1>3, <1>4, <1>5, <1>6, <1>7, RowReplaced DEF Unfinished
  <1>9. Moves(w)
    BY <1>2, ForgetMoves DEF IInv, TypeOK
  <1>10. QED
    BY <1>2, <1>8, <1>9, QueueStep

-----------------------------------------------------------------------------
(* The theorems                                                            *)

LEMMA InitInvariant == Init => IInv
  <1> SUFFICES ASSUME Init PROVE IInv
    OBVIOUS
  <1>1. ASSUME NEW r \in Revisions
        PROVE  /\ content[r] \in Packages /\ Artifacts(r) = 1..Len(content[r])
               /\ Len(content[r]) \in Nat
    <2>1. content[r] \in Packages
      BY DEF Init
    <2>2. QED
      BY <2>1, PackageFacts DEF Artifacts
  <1>2. NoWork \in Work /\ NoWork.attempts = 0 /\ NoWork.status = "none"
    BY DEF NoWork, Work
  <1>3. NoStep \in Step /\ NoStep.status = "none" /\ NoStep.calls = 0
    <2>1. NoStep \in Step
      BY DEF NoStep, Step
    <2>2. QED
      BY <2>1 DEF NoStep
  <1>4. ASSUME NEW r \in Revisions
        PROVE  /\ Pending(r) \in ArtifactRows /\ DOMAIN Pending(r).scan = Artifacts(r)
               /\ [a \in Artifacts(r) |-> NoStep] \in Seq(Step)
               /\ [a \in Artifacts(r) |-> 0] \in Seq(Nat)
    <2>1. [a \in Artifacts(r) |-> "pending"] \in Seq({"pending", "clean", "infected", "error"})
      BY <1>1
    <2>2. Pending(r) \in ArtifactRows
      BY <2>1 DEF Pending, ArtifactRows
    <2>3. DOMAIN Pending(r).scan = Artifacts(r)
      BY DEF Pending
    <2>4. QED
      BY <1>1, <1>3, <2>2, <2>3
  <1>5. ASSUME NEW r \in Revisions
        PROVE  /\ revision[r] \in Revision /\ revision[r].status = "uploading"
               /\ revision[r].metadata = 0
    BY DEF Init, Revision, Statuses
  <1>6. TypeOK
    <2>1. content \in [Revisions -> Packages] /\ revision \in [Revisions -> Revision]
      BY DEF Init, Revision, Statuses
    <2>2. artifacts \in [Revisions -> ArtifactRows]
      BY <1>4 DEF Init
    <2>3. steps \in [Revisions -> Seq(Step)] /\ invoked \in [Revisions -> Seq(Nat)]
      BY <1>4 DEF Init
    <2>4. work \in [Revisions -> [Phases -> Work]]
      BY <1>2 DEF Init
    <2>5. /\ attempts \in [Revisions -> [Phases -> Seq(AttemptRow)]]
          /\ draft \in [Revisions -> SUBSET Nat]
      BY DEF Init
    <2>6. worker \in [Workers -> Claimed]
      BY IdleFacts DEF Init
    <2>7. QED
      BY <2>1, <2>2, <2>3, <2>4, <2>5, <2>6 DEF TypeOK
  <1>7. ShapesAgree
    BY <1>4 DEF Init, ShapesAgree
  <1>8. AttemptsAgree
    BY <1>2, CountsAssumption DEF Init, AttemptsAgree, Agrees
  <1>9. StagesAgree
    BY <1>2, <1>5 DEF Init, StagesAgree, Stage, Phases
  <1>10. DraftsAgree
    BY <1>5 DEF Init, DraftsAgree
  <1>11. StepsAgree
    BY <1>3, <1>5 DEF Init, StepsAgree, Counted
  <1>12. WorkersHold
    <2>1. Idle.revision \in Revisions
      BY IdleFacts DEF Claimed
    <2>2. QED
      BY <1>5, <2>1, IdleFacts DEF Init, WorkersHold
  <1>13. CallsRecorded /\ OneCaller
    BY IdleFacts DEF Init, CallsRecorded, OneCaller
  <1>14. QED
    BY <1>6, <1>7, <1>8, <1>9, <1>10, <1>11, <1>12, <1>13 DEF IInv

LEMMA StepInvariant == IInv /\ [Next]_vars => IInv'
  <1> SUFFICES ASSUME IInv, [Next]_vars PROVE IInv'
    OBVIOUS
  <1>1. CASE UNCHANGED vars
    BY <1>1
       DEF vars, IInv, TypeOK, ShapesAgree, AttemptsAgree, StagesAgree, DraftsAgree,
           StepsAgree, WorkersHold, CallsRecorded, OneCaller, MapStep, Artifacts
  <1>2. ASSUME NEW r \in Revisions, Finalize(r) \/ Patch(r) PROVE IInv'
    BY <1>2, FinalizeInvariant, PatchInvariant
  <1>3. ASSUME NEW r \in Revisions, NEW p \in Phases, Expire(r, p) \/ Elapse(r, p)
        PROVE  IInv'
    BY <1>3, TimeInvariant
  <1>4. ASSUME NEW w \in Workers, WorkerStep(w) \/ Crash(w) PROVE IInv'
    BY <1>4, RecoverInvariant, ClaimInvariant, PollNextInvariant, LoadSnapshotInvariant,
       HeartbeatInvariant, ScanArtifactInvariant, ExtractArtifactInvariant,
       MapLostInvariant, ReserveInvariant, SkipInvariant, BeforeCallInvariant,
       CallInvariant, DiscardInvariant, RefuseInvariant, ReconcileInvariant,
       CommitCleanScanInvariant, CommitQuarantinedScanInvariant,
       CommitInvalidScanInvariant, CommitInvalidExtractInvariant,
       CommitSuccessfulExtractInvariant, CommitRetryableFailureInvariant
       DEF WorkerStep
  <1>5. QED
    BY <1>1, <1>2, <1>3, <1>4 DEF Next

(* The tables of the queue and what the workers hold, in every order of    *)
(* claims, crashes, expiries, recoveries, edits and model calls.           *)
THEOREM IntakeInvariant == Spec => []IInv
  <1>1. QED
    BY InitInvariant, StepInvariant, PTL DEF Spec

(* The types of the tables and of what the workers hold                    *)
THEOREM IntakeTypeOK == Spec => []TypeOK
  <1>1. IInv => TypeOK
    BY DEF IInv
  <1>2. QED
    BY <1>1, IntakeInvariant, PTL

(* The attempts agree with their work row and the work rows with the       *)
(* status of the revision, whatever claims, crashes and recoveries come.   *)
THEOREM IntakeQueueAgrees == Spec => []QueueAgrees
  <1>1. IInv => QueueAgrees
    <2> SUFFICES ASSUME IInv PROVE QueueAgrees
      OBVIOUS
    <2>1. AttemptsMatchWork
      BY DEF IInv, AttemptsAgree, Agrees, AttemptsMatchWork, ActiveAttempts
    <2>2. WorkMatchesRevision
      BY DEF IInv, StagesAgree, Stage, Unfinished, WorkMatchesRevision
    <2>3. QED
      BY <2>1, <2>2 DEF QueueAgrees
  <1>2. QED
    BY <1>1, IntakeInvariant, PTL

(* The model is called at most twice for an artifact, over all attempts    *)
(* and crashes, and a running step has every call in its row.              *)
THEOREM IntakeTwoCalls == Spec => []TwoCallsPerArtifact
  <1>1. IInv => TwoCallsPerArtifact
    BY DEF IInv, StepsAgree, Counted, TwoCallsPerArtifact
  <1>2. QED
    BY <1>1, IntakeInvariant, PTL

(* The report names what the queue does, and none is refused.              *)
THEOREM IntakeReportMatches == Spec => []ReportMatchesQueue
  <1>1. IInv => ReportMatchesQueue
    <2> SUFFICES ASSUME IInv, NEW r \in Revisions, NEW merged \in BOOLEAN
                 PROVE  LET stage == IntakeStage(r, merged) IN
                        /\ ReportConsistent(r) /\ stage # "intake_map"
                        /\ stage \in {"malware_scan", "extract"} =>
                             \E p \in Phases :
                               work[r][p].status \in {"available", "leased", "failed"}
                        /\ stage = "awaiting_human_review" =>
                             /\ draft[r] # {} /\ Gaps(r) \subseteq {"normalization_blocked"}
                             /\ ContextComplete(r) <=> Gaps(r) = {}
                        /\ revision[r].status \in {"scanning", "extracting"} =>
                             Gaps(r) \cap {"intake_work_pending",
                                           "intake_reconciliation_required"} # {}
      BY DEF ReportMatchesQueue
    <2> DEFINE stage == IntakeStage(r, merged)
               status == revision[r].status
    <2>1. /\ "malware_scan" \in Phases /\ "deterministic_extract" \in Phases
          /\ Phases = {"malware_scan", "deterministic_extract"}
      BY DEF Phases
    <2>2. /\ Stage(status, work[r]["malware_scan"].status,
                   work[r]["deterministic_extract"].status)
          /\ draft[r] # {} <=> status = "awaiting_confirmation"
          /\ \A a \in Artifacts(r) : status = "awaiting_confirmation" =>
               steps[r][a].status \in {"completed", "failed", "policy_blocked"}
      BY DEF IInv, StagesAgree, DraftsAgree, StepsAgree, Counted
    <2>3. ReportConsistent(r)
      BY <2>2 DEF ReportConsistent
    <2>4. CASE status = "awaiting_confirmation"
      <3>1. ActiveSteps(r) = {}
        BY <2>2, <2>4 DEF ActiveSteps
      <3>2. \A p \in Phases : work[r][p].status = "completed"
        BY <2>1, <2>2, <2>4 DEF Stage
      <3>3. stage \in {"blocked", "intake_reduce", "awaiting_human_review"}
        BY <2>4, <3>1 DEF IntakeStage
      <3>4. Gaps(r) \subseteq {"normalization_blocked"}
        BY <3>1, <3>2 DEF Gaps
      <3>5. ContextComplete(r) <=> Gaps(r) = {}
        BY <2>2, <2>4, <3>1, <3>2 DEF ContextComplete, Gaps
      <3>6. QED
        BY <2>2, <2>3, <2>4, <3>3, <3>4, <3>5
    <2>5. CASE status \in {"scanning", "extracting"}
      <3>1. PICK p \in Phases : work[r][p].status \in Unfinished
        BY <2>1, <2>2, <2>5 DEF Stage
      <3>2. stage \in {"blocked", "malware_scan", "extract"}
        BY <2>5 DEF IntakeStage
      <3>3. stage # "blocked" => work[r][p].status # "reconciliation_required"
        BY <2>5 DEF IntakeStage, Reconciling
      <3>4. Gaps(r) \cap {"intake_work_pending", "intake_reconciliation_required"} # {}
        <4>1. CASE work[r][p].status = "reconciliation_required"
          BY <4>1 DEF Gaps
        <4>2. CASE work[r][p].status \in {"available", "leased", "failed"}
          BY <4>2 DEF Gaps
        <4>3. QED
          BY <3>1, <4>1, <4>2 DEF Unfinished
      <3>5. QED
        BY <2>3, <3>1, <3>2, <3>3, <3>4 DEF Unfinished
    <2>6. CASE status \in {"uploading", "quarantined", "invalid"}
      <3>1. stage \in {"blocked", "upload_open"}
        BY <2>6 DEF IntakeStage
      <3>2. QED
        BY <2>3, <2>6, <3>1
    <2>7. QED
      BY <2>2, <2>4, <2>5, <2>6 DEF Stage
  <1>2. QED
    BY <1>1, IntakeInvariant, PTL

-----------------------------------------------------------------------------
(* Intake implements its lifecycle                                         *)

LEMMA LifecycleInit == Init => Lifecycle!Init
  <1> SUFFICES ASSUME Init PROVE Lifecycle!Init
    OBVIOUS
  <1>1. \A r \in Revisions : revision[r].status = "uploading" /\ revision[r].metadata = 0
    BY DEF Init
  <1>2. QED
    BY <1>1 DEF Init, Lifecycle!Init

(* What the lifecycle sees of a revision does not change.                  *)
Unseen ==
    /\ UNCHANGED <<content, draft>>
    /\ \A r \in Revisions : /\ revision'[r].status = revision[r].status
                             /\ revision'[r].metadata = revision[r].metadata

LEMMA LifecycleStutters == Unseen => UNCHANGED Lifecycle!vars
  BY DEF Unseen, Lifecycle!vars

(* A revision moves on.                                                    *)
LEMMA LifecycleMove ==
    ASSUME NEW r \in Revisions, NEW from, NEW to, revision[r].status = from,
           MovedTo(r, to), content' = content
    PROVE  Lifecycle!Move(r, from, to)
  <1>1. \A s \in Revisions :
          revision'[s].status = IF s = r THEN to ELSE revision[s].status
    BY DEF MovedTo
  <1>2. [s \in Revisions |-> revision'[s].status]
          = [[s \in Revisions |-> revision[s].status] EXCEPT ![r] = to]
    BY <1>1
  <1>3. [s \in Revisions |-> revision'[s].metadata] = [s \in Revisions |-> revision[s].metadata]
    BY DEF MovedTo
  <1>4. QED
    BY <1>2, <1>3 DEF Lifecycle!Move

LEMMA FinalizeMaps ==
    ASSUME IInv, NEW r \in Revisions, Finalize(r)
    PROVE  Lifecycle!Finalize(r)
  <1>1. MovedTo(r, "scanning")
    BY RevisionMoved DEF Finalize, Statuses
  <1>2. revision[r].status = "uploading" /\ UNCHANGED <<content, draft>>
    BY DEF Finalize
  <1>3. Lifecycle!Move(r, "uploading", "scanning")
    BY <1>1, <1>2, LifecycleMove
  <1>4. QED
    BY <1>2, <1>3 DEF Lifecycle!Finalize

(* A patch of the labels alone is not seen, any other is followed by the   *)
(* draft.                                                                  *)
LEMMA PatchMaps ==
    ASSUME IInv, NEW r \in Revisions, Patch(r)
    PROVE  Unseen \/ Lifecycle!Patch(r)
  <1>1. /\ revision \in [Revisions -> Revision] /\ draft \in [Revisions -> SUBSET Nat]
        /\ revision[r] \in Revision
    BY DEF IInv, TypeOK
  <1>2. PICK version \in Nat \ {0}, metadata \in Nat :
          /\ version = revision[r].version + 1
          /\ metadata = revision[r].metadata + 1
    BY <1>1 DEF Revision
  <1>3. CASE /\ revision' = [revision EXCEPT ![r].version = @ + 1]
             /\ UNCHANGED draft
    <2> DEFINE row == [revision[r] EXCEPT !.version = version]
    <2>1. row.status = revision[r].status /\ row.metadata = revision[r].metadata
      BY <1>1 DEF Revision
    <2>2. revision' = [revision EXCEPT ![r] = row]
      BY <1>1, <1>2, <1>3
    <2> HIDE DEF row
    <2>3. QED
      BY <1>1, <1>3, <2>1, <2>2 DEF Unseen, Patch
  <1>4. CASE /\ revision' = [revision EXCEPT ![r].version = @ + 1, ![r].metadata = @ + 1]
             /\ draft' = [draft EXCEPT ![r] = {revision[r].metadata + 1 : m \in @}]
    <2> DEFINE row == [revision[r] EXCEPT !.version = version, !.metadata = metadata]
    <2>1. row.status = revision[r].status /\ row.metadata = metadata
      BY <1>1 DEF Revision
    <2>2. revision' = [revision EXCEPT ![r] = row]
      BY <1>1, <1>2, <1>4
    <2> HIDE DEF row
    <2>3. \A s \in Revisions : revision'[s] = IF s = r THEN row ELSE revision[s]
      BY <1>1, <2>2
    <2>4. \A s \in Revisions :
            /\ revision'[s].status = revision[s].status
            /\ revision'[s].metadata = IF s = r THEN metadata ELSE revision[s].metadata
      BY <2>1, <2>3
    <2>5. [s \in Revisions |-> revision'[s].status] = [s \in Revisions |-> revision[s].status]
      BY <2>4
    <2>6. [s \in Revisions |-> revision'[s].metadata]
            = [[s \in Revisions |-> revision[s].metadata] EXCEPT ![r] = @ + 1]
      BY <1>2, <2>4
    <2>7. /\ revision[r].status \in {"uploading", "scanning", "extracting",
                                     "awaiting_confirmation"}
          /\ UNCHANGED content
      BY DEF Patch
    <2>8. QED
      BY <1>4, <2>5, <2>6, <2>7 DEF Lifecycle!Patch
  <1>5. QED
    BY <1>3, <1>4 DEF Patch

LEMMA CommitMoves ==
    ASSUME IInv, NEW w \in Workers, Locked(w), NEW to \in Statuses, Complete(w, to),
           content' = content, NEW r \in Revisions, r = worker[w].revision
    PROVE  Lifecycle!Move(r, Expected(worker[w].work), to)
  <1>1. revision' = [revision EXCEPT ![r].status = to, ![r].version = @ + 1]
    BY DEF Complete
  <1>2. MovedTo(r, to)
    BY <1>1, RevisionMoved
  <1>3. revision[r].status = Expected(worker[w].work)
    BY LockedFacts
  <1>4. QED
    BY <1>2, <1>3, LifecycleMove

(* What a commit has found is what the lifecycle asks for.                 *)
LEMMA CommitMaps ==
    ASSUME IInv, NEW w \in Workers, NEW r \in Revisions, r = worker[w].revision
    PROVE  /\ CommitCleanScan(w) => Lifecycle!Pass(r)
           /\ CommitQuarantinedScan(w) => Lifecycle!Quarantine(r)
           /\ CommitInvalidScan(w) => Lifecycle!RejectType(r)
           /\ CommitInvalidExtract(w) => Lifecycle!RejectContent(r)
           /\ CommitSuccessfulExtract(w) => Lifecycle!Publish(r)
  <1>1. ASSUME CommitCleanScan(w) PROVE Lifecycle!Pass(r)
    <2>1. /\ Locked(w) /\ Complete(w, "extracting") /\ UNCHANGED <<content, draft>>
          /\ worker[w].outcome = "all_clean"
      BY <1>1 DEF CommitCleanScan
    <2>2. worker[w].work = "malware_scan" /\ \A a \in DOMAIN content[r] : content[r][a] = "clean"
      BY <2>1, LockedFacts DEF Found
    <2>3. Lifecycle!Move(r, "scanning", "extracting")
      BY <2>1, <2>2, CommitMoves DEF Expected, Statuses
    <2>4. QED
      BY <2>1, <2>2, <2>3 DEF Lifecycle!Pass, Lifecycle!All
  <1>2. ASSUME CommitQuarantinedScan(w) PROVE Lifecycle!Quarantine(r)
    <2>1. /\ Locked(w) /\ Complete(w, "quarantined") /\ UNCHANGED <<content, draft>>
          /\ worker[w].outcome = "quarantined"
      BY <1>2 DEF CommitQuarantinedScan
    <2>2. /\ worker[w].work = "malware_scan"
          /\ worker[w].index \in Nat /\ worker[w].index < Len(content[r])
          /\ content[r][worker[w].index + 1] = "infected"
      BY <2>1, LockedFacts, WorkerFacts DEF Found, Claimed
    <2>3. worker[w].index + 1 \in DOMAIN content[r]
      BY <2>2, WorkerFacts
    <2>4. Lifecycle!Move(r, "scanning", "quarantined")
      BY <2>1, <2>2, CommitMoves DEF Expected, Statuses
    <2>5. QED
      BY <2>1, <2>2, <2>3, <2>4 DEF Lifecycle!Quarantine, Lifecycle!Some
  <1>3. ASSUME CommitInvalidScan(w) PROVE Lifecycle!RejectType(r)
    <2>1. /\ Locked(w) /\ Complete(w, "invalid") /\ UNCHANGED <<content, draft>>
          /\ worker[w].outcome = "invalid" /\ worker[w].work = "malware_scan"
      BY <1>3 DEF CommitInvalidScan
    <2>2. \E a \in DOMAIN content[r] : content[r][a] = "mistyped"
      BY <2>1, LockedFacts DEF Found
    <2>3. Lifecycle!Move(r, "scanning", "invalid")
      BY <2>1, CommitMoves DEF Expected, Statuses
    <2>4. QED
      BY <2>1, <2>2, <2>3 DEF Lifecycle!RejectType, Lifecycle!Some
  <1>4. ASSUME CommitInvalidExtract(w) PROVE Lifecycle!RejectContent(r)
    <2>1. /\ Locked(w) /\ Complete(w, "invalid") /\ UNCHANGED <<content, draft>>
          /\ worker[w].work = "deterministic_extract"
      BY <1>4 DEF CommitInvalidExtract
    <2>2. Lifecycle!Move(r, "extracting", "invalid")
      BY <2>1, CommitMoves DEF Expected, Statuses
    <2>3. QED
      BY <2>1, <2>2 DEF Lifecycle!RejectContent
  <1>5. ASSUME CommitSuccessfulExtract(w) PROVE Lifecycle!Publish(r)
    <2>1. /\ Locked(w) /\ Complete(w, "awaiting_confirmation") /\ UNCHANGED content
          /\ worker[w].outcome = "succeeded"
          /\ draft' = [draft EXCEPT ![r] = {worker[w].metadata}]
      BY <1>5 DEF CommitSuccessfulExtract
    <2>2. /\ worker[w].work = "deterministic_extract" /\ draft[r] = {}
          /\ worker[w].metadata = revision[r].metadata
      BY <2>1, LockedFacts DEF Found
    <2>3. Lifecycle!Move(r, "extracting", "awaiting_confirmation")
      BY <2>1, <2>2, CommitMoves DEF Expected, Statuses
    <2>4. QED
      BY <2>1, <2>2, <2>3 DEF Lifecycle!Publish
  <1>6. QED
    BY <1>1, <1>2, <1>3, <1>4, <1>5

LEMMA LifecycleStep == IInv /\ [Next]_vars => [Lifecycle!Next]_(Lifecycle!vars)
  <1> SUFFICES ASSUME IInv, [Next]_vars PROVE Lifecycle!Next \/ Unseen
    BY LifecycleStutters
  <1>1. CASE UNCHANGED vars
    BY <1>1 DEF vars, Unseen
  <1>2. ASSUME NEW r \in Revisions, Finalize(r) \/ Patch(r)
        PROVE  Lifecycle!Next \/ Unseen
    BY <1>2, FinalizeMaps, PatchMaps DEF Lifecycle!Next
  <1>3. ASSUME NEW r \in Revisions, NEW p \in Phases, Expire(r, p) \/ Elapse(r, p)
        PROVE  Unseen
    BY <1>3 DEF Expire, Elapse, Unseen
  <1>4. ASSUME NEW w \in Workers, WorkerStep(w) \/ Crash(w)
        PROVE  Lifecycle!Next \/ Unseen
    <2>1. PICK r \in Revisions : r = worker[w].revision
      BY WorkerFacts
    <2>2. CASE \/ CommitCleanScan(w) \/ CommitQuarantinedScan(w) \/ CommitInvalidScan(w)
               \/ CommitInvalidExtract(w) \/ CommitSuccessfulExtract(w)
      BY <2>1, <2>2, CommitMaps DEF Lifecycle!Next
    <2>3. CASE \/ Recover(w) \/ Claim(w) \/ PollNext(w) \/ LoadSnapshot(w) \/ Heartbeat(w)
               \/ ScanArtifact(w) \/ ExtractArtifact(w) \/ MapLost(w) \/ Reserve(w)
               \/ Skip(w) \/ BeforeCall(w) \/ Call(w) \/ Discard(w) \/ Refuse(w)
               \/ Reconcile(w) \/ CommitRetryableFailure(w) \/ Crash(w)
      <3>1. UNCHANGED <<content, revision, draft>>
        BY <2>3 DEF Recover, Claim, PollNext, LoadSnapshot, Heartbeat, ScanArtifact,
           ExtractArtifact, MapLost, Reserve, Skip, BeforeCall, Call, Discard, Refuse,
           Reconcile, CommitRetryableFailure, Crash, rows
      <3>2. QED
        BY <3>1 DEF Unseen
    <2>4. QED
      BY <1>4, <2>2, <2>3 DEF WorkerStep
  <1>5. QED
    BY <1>1, <1>2, <1>3, <1>4 DEF Next

(* Intake implements its lifecycle: extraction starts only on content that *)
(* is clean, only infected content is quarantined, and the draft appears   *)
(* with its transition and reflects the metadata of that moment.           *)
THEOREM IntakeImplementsLifecycle == Spec => ImplementsLifecycle
  <1>1. IInv /\ [Next]_vars => [Lifecycle!Next]_(Lifecycle!vars)
    BY LifecycleStep
  <1>2. QED
    BY <1>1, LifecycleInit, IntakeInvariant, PTL DEF Spec, ImplementsLifecycle, Lifecycle!Spec
=============================================================================
