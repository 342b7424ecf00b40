----------------------------- MODULE ChatTurns -----------------------------
(***************************************************************************)
(* Private chat of one actor in one workspace: the reservation, model call *)
(* and completion of a turn (ssp_workspace/chat.py), the route that        *)
(* commits it (post_chat in ssp_workspace/api.py) and the retention purge  *)
(* (ato_operator/chat_retention.py).                                       *)
(*                                                                         *)
(* A call of send_chat_message samples "now" once, loads the canonical     *)
(* context, and then waits for the actor's advisory lock; what it decides  *)
(* under the lock uses the early sample.  The model call runs with no      *)
(* transaction open.  The completion locks the workspace row, reads the    *)
(* clock and the context, and then waits for the actor lock; it holds both *)
(* to the commit.                                                          *)
(*                                                                         *)
(* The unique constraints of ssp_chat_turns are not guards here: turns is  *)
(* a set, and DatabaseConstraints says that no insert ever relies on them. *)
(***************************************************************************)
EXTENDS Naturals, FiniteSets

CONSTANTS Calls,         \* API calls, one session each
          RequestIds,    \* request_id of the payload
          MaxTime,       \* bound: clock
          MaxContext,    \* bound: changes of the revision and of other records
          MaxSequence,   \* bound: expected_sequence a client may send
          Lease,         \* CHAT_RESERVATION_LEASE_SECONDS
          Retention,     \* CHAT_RETENTION_YEARS
          Activations    \* whether an administrator activates profiles meanwhile

ASSUME LeaseAssumption == Lease \in Nat \ {0}
ASSUME RetentionAssumption == Retention \in Nat \ {0}
ASSUME BoundsAssumption == /\ MaxTime \in Nat
                           /\ MaxContext \in Nat
                           /\ MaxSequence \in Nat
ASSUME ActivationsAssumption == Activations \in BOOLEAN

VARIABLES clock,         \* wall clock
          context,       \* what _load_context fingerprints
          conversation,  \* the conversation row
          lastSequence,  \* its last_sequence
          turns,         \* rows of ssp_chat_turns
          call           \* what each call holds in memory

vars == <<clock, context, conversation, lastSequence, turns, call>>
chatVars == <<conversation, lastSequence, turns>>

(* The fingerprint tells apart the current revision and everything else    *)
(* it covers: approvals, evidence, the pinned profile's status.            *)
Context == [revision : 0..MaxContext, records : 0..MaxContext]

(* A payload; _request_fingerprint covers all of it.                       *)
Payload == [id : RequestIds, sequence : 0..MaxSequence, revision : 0..MaxContext]

(* A turn row.  The call that reserved it stands for turn_id and for       *)
(* lease_token; expires is the lease while pending, the retention after.   *)
Turn == [call : Calls, token : Calls, sequence : Nat \ {0}, payload : Payload,
         context : Context, status : {"pending", "completed"},
         expires : Nat]

(* The conversation row: which one it is, whether it is stored, updated_at. *)
Conversation == [id : Nat, stored : BOOLEAN, updated : Nat]

Phases == {"new", "started", "loaded", "asking", "asked", "completing",
           "releasing", "answered", "over"}

NoCall == [phase |-> "new"]

TypeOK ==
    /\ clock \in 0..MaxTime
    /\ context \in Context
    /\ conversation \in Conversation
    /\ lastSequence \in Nat
    /\ turns \subseteq Turn
    /\ \A c \in Calls : call[c].phase \in Phases

Become(c, phase) == call' = [call EXCEPT ![c].phase = phase]

(* An error response, a replay or a crash: nothing of the call is left.    *)
GiveUp(c) == call' = [call EXCEPT ![c] = [phase |-> "over"]]

Pending == {t \in turns : t.status = "pending"}

-----------------------------------------------------------------------------
(* Time and the rest of the system                                         *)

Tick ==
    /\ clock < MaxTime
    /\ clock' = clock + 1
    /\ UNCHANGED <<context, chatVars, call>>

(* The workspace row, locked by the completion of a turn.                  *)
WorkspaceLocked == \E c \in Calls : call[c].phase = "completing"

(* A save, an approval or an evidence change commits; each locks the       *)
(* workspace row.                                                          *)
ChangeWorkspace ==
    /\ ~WorkspaceLocked
    /\ \/ /\ context.revision < MaxContext
          /\ context' = [context EXCEPT !.revision = @ + 1]
       \/ /\ context.records < MaxContext
          /\ context' = [context EXCEPT !.records = @ + 1]
    /\ UNCHANGED <<clock, chatVars, call>>

(* activate_profile changes the status of the pinned profile version and   *)
(* locks profile rows only.                                                *)
ActivateProfile ==
    /\ Activations
    /\ context.records < MaxContext
    /\ context' = [context EXCEPT !.records = @ + 1]
    /\ UNCHANGED <<clock, chatVars, call>>

-----------------------------------------------------------------------------
(* send_chat_message, up to the reservation                                *)

(* post_chat samples now; a client may repeat a payload it sent before.    *)
Start(c) ==
    /\ call[c] = NoCall
    /\ \E p \in Payload :
         /\ p.revision <= context.revision
         /\ call' = [call EXCEPT ![c] = [phase |-> "started", now |-> clock,
                                         payload |-> p, context |-> context,
                                         sequence |-> 0, at |-> 0]]
    /\ UNCHANGED <<clock, context, chatVars>>

LoadContext(c) ==
    /\ call[c].phase = "started"
    /\ call' = [call EXCEPT ![c].phase = "loaded", ![c].context = context]
    /\ UNCHANGED <<clock, context, chatVars>>

(* The expired reservations at the conversation's tail, newest first and   *)
(* without a gap.                                                          *)
Reclaimable(now) ==
    LET expired == {t \in Pending : t.expires <= now} IN
    {t \in expired : \A s \in t.sequence..lastSequence :
                        \E u \in expired : u.sequence = s}

(* A turn that already carries the request id.                             *)
SameRequest(p, rows) == {t \in rows : t.payload.id = p.id}

(* A completed turn of the same payload whose retention has not ended.     *)
Answered(p, now) ==
    \E t \in SameRequest(p, turns) :
       t.payload = p /\ t.status = "completed" /\ t.expires > now

Replay(c) ==
    /\ call[c].phase = "loaded"
    /\ Answered(call[c].payload, call[c].now)
    /\ GiveUp(c)
    /\ UNCHANGED <<clock, context, chatVars>>

(* The checks of send_chat_message and _reserve_turn, in the transaction   *)
(* that holds the actor lock, apart from the usage limits.  The branch     *)
(* that leases an expired reservation again needs one that is not at the   *)
(* tail; PendingIsTail says there is none, so it is not an action.         *)
MayReserve(c) ==
    LET q    == call[c]
        gone == Reclaimable(q.now)
        kept == turns \ gone IN
    /\ \A t \in SameRequest(q.payload, turns) :
          t.payload = q.payload /\ t.status = "pending" /\ t.expires <= q.now
    /\ q.context.revision = q.payload.revision
    /\ SameRequest(q.payload, kept) = {}
    /\ \A t \in kept : t.status = "pending" => t.expires <= q.now
    /\ lastSequence - Cardinality(gone) = q.payload.sequence

(* _reserve_turn: the reservation is committed.                            *)
Reserve(c) ==
    LET q   == call[c]
        seq == q.payload.sequence + 1 IN
    /\ q.phase = "loaded"
    /\ MayReserve(c)
    /\ turns' = (turns \ Reclaimable(q.now)) \cup
                  {[call |-> c, token |-> c, sequence |-> seq,
                    payload |-> q.payload, context |-> q.context,
                    status |-> "pending", expires |-> q.now + Lease]}
    /\ lastSequence' = seq
    /\ conversation' = [conversation EXCEPT !.stored = TRUE, !.updated = q.now]
    /\ call' = [call EXCEPT ![c].phase = "asking", ![c].sequence = seq]
    /\ UNCHANGED <<clock, context>>

(* A conflict, a stale revision or sequence, or a usage limit: the         *)
(* transaction is rolled back.                                             *)
Refuse(c) ==
    /\ call[c].phase = "loaded"
    /\ ~Answered(call[c].payload, call[c].now)
    /\ GiveUp(c)
    /\ UNCHANGED <<clock, context, chatVars>>

-----------------------------------------------------------------------------
(* The model call and what follows it                                      *)

(* _invoke_model and _parse_model_output                                   *)
ModelAnswers(c) ==
    /\ call[c].phase = "asking"
    /\ Become(c, "asked")
    /\ UNCHANGED <<clock, context, chatVars>>

(* Any exception, cancellation included.                                   *)
ModelFails(c) ==
    /\ call[c].phase = "asking"
    /\ Become(c, "releasing")
    /\ UNCHANGED <<clock, context, chatVars>>

Owned(c) == {t \in turns : t.token = c /\ t.sequence = call[c].sequence
                             /\ t.status = "pending"}

(* Mutant: the context is not compared.                                    *)
LockWorkspaceBlindly(c) ==
    /\ call[c].phase = "asked"
    /\ ~WorkspaceLocked
    /\ call' = [call EXCEPT ![c].phase = "completing", ![c].at = clock]
    /\ UNCHANGED <<clock, context, chatVars>>

(* The workspace row is locked, the clock read and the context compared.   *)
LockWorkspace(c) ==
    /\ call[c].phase = "asked"
    /\ ~WorkspaceLocked
    /\ context = call[c].context
    /\ call' = [call EXCEPT ![c].phase = "completing", ![c].at = clock]
    /\ UNCHANGED <<clock, context, chatVars>>

ContextChanged(c) ==
    /\ call[c].phase = "asked"
    /\ ~WorkspaceLocked
    /\ context # call[c].context
    /\ Become(c, "releasing")
    /\ UNCHANGED <<clock, context, chatVars>>

(* The checks of _complete_turn on the reserved turn.                      *)
MayComplete(c, t) ==
    /\ t.expires > call[c].at
    /\ lastSequence = t.sequence

(* _complete_turn, and the access check of post_chat that passes.          *)
Complete(c) ==
    /\ call[c].phase = "completing"
    /\ \E t \in Owned(c) :
         /\ MayComplete(c, t)
         /\ turns' = (turns \ {t}) \cup
                       {[t EXCEPT !.status = "completed",
                                  !.expires = call[c].at + Retention]}
    /\ conversation' = [conversation EXCEPT !.updated = call[c].at]
    /\ call' = [call EXCEPT ![c] = [phase |-> "answered", at |-> call[c].at,
                                    conversation |-> conversation.id]]
    /\ UNCHANGED <<clock, context, lastSequence>>

(* The access check fails: the completion is rolled back and the           *)
(* reservation stays until its lease ends.                                 *)
CompleteDenied(c) ==
    /\ call[c].phase = "completing"
    /\ \E t \in Owned(c) : MayComplete(c, t)
    /\ GiveUp(c)
    /\ UNCHANGED <<clock, context, chatVars>>

(* A check of _complete_turn fails, or any other exception is raised       *)
(* before send_chat_message returns.                                       *)
CompleteFails(c) ==
    /\ call[c].phase = "completing"
    /\ Become(c, "releasing")
    /\ UNCHANGED <<clock, context, chatVars>>

(* Mutant: the row is deleted and the counter kept.                        *)
ReleaseKeepsCounter(c) ==
    /\ call[c].phase = "releasing"
    /\ turns' = turns \ Owned(c)
    /\ GiveUp(c)
    /\ UNCHANGED <<clock, context, conversation, lastSequence>>

(* Mutant: the row is found by its sequence, whatever its token.           *)
ReleaseBySequence(c) ==
    LET gone == {t \in turns : /\ t.sequence = call[c].sequence
                               /\ t.sequence = lastSequence} IN
    /\ call[c].phase = "releasing"
    /\ turns' = turns \ gone
    /\ lastSequence' = lastSequence - Cardinality(gone)
    /\ GiveUp(c)
    /\ UNCHANGED <<clock, context, conversation>>

(* _release_reservation                                                    *)
Release(c) ==
    LET gone == {t \in Owned(c) : t.sequence = lastSequence} IN
    /\ call[c].phase = "releasing"
    /\ turns' = turns \ gone
    /\ lastSequence' = lastSequence - Cardinality(gone)
    /\ GiveUp(c)
    /\ UNCHANGED <<clock, context, conversation>>

(* The process dies; open transactions are rolled back.                    *)
Crash(c) ==
    /\ call[c].phase \in {"started", "loaded", "asking", "asked",
                         "completing", "releasing"}
    /\ GiveUp(c)
    /\ UNCHANGED <<clock, context, chatVars>>

-----------------------------------------------------------------------------
PurgeReady == {t \in turns : t.status = "completed" /\ t.expires <= clock}

(* _run_purge deletes a batch of completed turns past their retention,     *)
(* then the conversation if no turn is left and it is as old.  A batch may *)
(* be cut short, and locked rows are skipped.                              *)
Purge ==
    \E batch \in SUBSET PurgeReady :
       /\ turns' = turns \ batch
       /\ \/ /\ turns' = {} /\ conversation.stored
             /\ conversation.updated + Retention <= clock
             /\ conversation' = [id |-> conversation.id + 1, stored |-> FALSE,
                                 updated |-> 0]
             /\ lastSequence' = 0
          \/ batch # {} /\ UNCHANGED <<conversation, lastSequence>>
       /\ UNCHANGED <<clock, context, call>>

-----------------------------------------------------------------------------
Init ==
    /\ clock = 0
    /\ context = [revision |-> 0, records |-> 0]
    /\ conversation = [id |-> 0, stored |-> FALSE, updated |-> 0]
    /\ lastSequence = 0
    /\ turns = {}
    /\ call = [c \in Calls |-> NoCall]

Next ==
    \/ Tick
    \/ ChangeWorkspace
    \/ ActivateProfile
    \/ Purge
    \/ \E c \in Calls :
         \/ Start(c)        \/ LoadContext(c)    \/ Replay(c)
         \/ Reserve(c)      \/ Refuse(c)
         \/ ModelAnswers(c) \/ ModelFails(c)
         \/ LockWorkspace(c) \/ ContextChanged(c)
         \/ Complete(c)     \/ CompleteDenied(c) \/ CompleteFails(c)
         \/ Release(c)      \/ Crash(c)

Spec == Init /\ [][Next]_vars

-----------------------------------------------------------------------------
(* Properties                                                              *)

(* No interleaving of reservations, releases and completions makes an      *)
(* insert depend on a unique constraint of ssp_chat_turns: a sequence      *)
(* number and a request id name one turn, and one turn is pending          *)
(* (_reserve_turn).                                                        *)
DatabaseConstraints ==
    /\ \A t, u \in turns :
          t.sequence = u.sequence \/ t.payload.id = u.payload.id => t = u
    /\ Cardinality(Pending) <= 1

(* A reservation is always the conversation's last turn, so a crashed one  *)
(* can be reclaimed and never blocks the conversation for good             *)
(* (_reserve_turn, _release_reservation).                                  *)
PendingIsTail == \A t \in Pending : t.sequence = lastSequence

(* A call that reported success has its turn stored until the retention    *)
(* ends, whatever other calls reclaimed or released meanwhile.             *)
AnswersAreStored ==
    \A c \in Calls : call[c].phase = "answered" =>
       \/ \E t \in turns : t.call = c /\ t.status = "completed"
       \/ clock >= call[c].at + Retention

(* Sequence numbers count the conversation's answers and its reservation:  *)
(* failed, reclaimed and crashed attempts leave no gap, and the retention  *)
(* purge neither reuses nor skips a number (_release_reservation,          *)
(* _reserve_turn, _run_purge).                                             *)
NoSequenceGaps ==
    lastSequence = Cardinality({c \in Calls : /\ call[c].phase = "answered"
                                              /\ call[c].conversation = conversation.id})
                     + Cardinality(Pending)

(* The rows of a conversation stay in sequence whatever reservations,      *)
(* releases, reclaims, crashes and purges meet: no insert depends on a     *)
(* unique constraint, a reservation is the last turn, and no number is     *)
(* skipped or used again (_reserve_turn, _release_reservation).            *)
TurnsInSequence == DatabaseConstraints /\ PendingIsTail /\ NoSequenceGaps

(* An answer is stored only for the revision that is current when it is    *)
(* committed: a save that lands during the model call discards it          *)
(* (send_chat_message).                                                    *)
AnswersMatchRevision ==
    [][\A t \in turns' \ turns : t.status = "completed" =>
          t.payload.revision = context'.revision]_vars
=============================================================================
