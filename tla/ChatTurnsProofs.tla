-------------------------- MODULE ChatTurnsProofs --------------------------
(***************************************************************************)
(* Proofs about the private chat of one actor, for any number of calls,    *)
(* request ids and clock ticks and any lease and retention: the turns of a *)
(* conversation stay in sequence, a reported answer is stored until its    *)
(* retention ends, and an answer is stored for the current revision only.  *)
(***************************************************************************)
EXTENDS ChatTurns, FiniteSetTheorems, TLAPS

(* What a call holds between its start and its answer or its end.          *)
Busy == {"started", "loaded", "asking", "asked", "completing", "releasing"}

Working == [phase : Busy, now : Nat, payload : Payload, context : Context,
            sequence : Nat, at : Nat]

Answer == [phase : {"answered"}, at : Nat, conversation : Nat]

CallState == {NoCall} \cup Working \cup [phase : {"over"}] \cup Answer

(* The phases after _reserve_turn, and those that still count on the       *)
(* context the call loaded.                                                *)
Reserved == {"asking", "asked", "completing", "releasing"}
Counting == {"asking", "asked", "completing"}

(* The calls that reported an answer in the conversation that is stored.   *)
AnsweredHere == {c \in Calls : /\ call[c].phase = "answered"
                               /\ call[c].conversation = conversation.id}

CallsShaped == call \in [Calls -> CallState]

(* A row's call and token agree; a completed row is the answer its call    *)
(* reported, with the retention counted from there; a pending row carries  *)
(* the payload its call still holds.                                       *)
RowsMatchCalls ==
    \A t \in turns :
       /\ t.token = t.call
       /\ t.status = "completed" =>
             /\ call[t.call].phase = "answered"
             /\ t.expires = call[t.call].at + Retention
       /\ t.status = "pending" /\ call[t.call].phase \in Reserved =>
             t.payload = call[t.call].payload

BelowTail == \A t \in turns : t.sequence <= lastSequence

(* No answer belongs to a conversation that does not exist yet, so a new   *)
(* conversation starts with none; finitely many are counted.               *)
AnswersBelong ==
    /\ \A c \in Calls : call[c].phase = "answered" =>
          call[c].conversation <= conversation.id
    /\ IsFiniteSet(AnsweredHere)

(* The revision a call asks about is the one in the context it loaded, and *)
(* while it holds the workspace row that one is current.                   *)
RevisionsHeld ==
    \A c \in Calls :
       /\ call[c].phase \in Counting =>
             call[c].context.revision = call[c].payload.revision
       /\ call[c].phase = "completing" =>
             call[c].context.revision = context.revision

Unique == \A t, u \in turns :
             t.sequence = u.sequence \/ t.payload.id = u.payload.id => t = u

IInv == /\ TypeOK /\ CallsShaped
        /\ Unique /\ PendingIsTail /\ BelowTail
        /\ NoSequenceGaps /\ AnswersBelong
        /\ RowsMatchCalls /\ AnswersAreStored /\ RevisionsHeld

-----------------------------------------------------------------------------
(* Rows and calls                                                          *)

(* Two pending rows would both be the last turn, so there is at most one.  *)
LEMMA OnePending ==
    ASSUME Unique, PendingIsTail
    PROVE  \/ Pending = {} /\ Cardinality(Pending) = 0
           \/ \E t \in Pending : Pending = {t} /\ Cardinality(Pending) = 1
<1>1. \A t, u \in Pending : t = u
  BY DEF Unique, PendingIsTail, Pending
<1>2. CASE Pending = {}
  BY <1>2, FS_EmptySet
<1>3. CASE Pending # {}
  <2>1. PICK t \in Pending : TRUE
    BY <1>3
  <2>2. Pending = {t}
    BY <1>1, <2>1
  <2> QED
    BY <2>2, FS_Singleton
<1> QED
  BY <1>2, <1>3

(* What TypeOK says without its bounds, and no call in an unknown phase.   *)
LEMMA Facts ==
    ASSUME IInv
    PROVE  /\ clock \in Nat /\ lastSequence \in Nat
           /\ Retention \in Nat /\ Lease \in Nat
           /\ context \in Context /\ conversation \in Conversation
           /\ conversation.id \in Nat
           /\ turns \subseteq Turn
           /\ \A c \in Calls : call[c] \in CallState
  BY BoundsAssumption, RetentionAssumption, LeaseAssumption
     DEF IInv, TypeOK, CallsShaped, Conversation

(* A call in a phase of its own has every field of one at work.            *)
LEMMA BusyCalls ==
    ASSUME NEW q \in CallState, q.phase \in Busy
    PROVE  /\ q \in Working
           /\ q.now \in Nat /\ q.at \in Nat /\ q.sequence \in Nat
           /\ q.payload \in Payload /\ q.context \in Context
<1>1. q \in Working
  <2>1. NoCall.phase \notin Busy
    BY DEF NoCall, Busy
  <2>2. \A a \in Answer : a.phase \notin Busy
    BY DEF Answer, Busy
  <2>3. \A o \in [phase : {"over"}] : o.phase \notin Busy
    BY DEF Busy
  <2> QED
    BY <2>1, <2>2, <2>3 DEF CallState
<1> QED
  BY <1>1 DEF Working

LEMMA AnsweredCalls ==
    ASSUME NEW q \in CallState, q.phase = "answered"
    PROVE  q \in Answer /\ q.at \in Nat /\ q.conversation \in Nat
<1>1. q \notin Working /\ q # NoCall /\ q \notin [phase : {"over"}]
  BY DEF NoCall, Working, Busy
<1> QED
  BY <1>1 DEF CallState, Answer

(* Every state a call can be in has one of the phases of the module.       *)
LEMMA PhasesKnown ==
    ASSUME NEW q \in CallState
    PROVE  q.phase \in Phases
<1>1. NoCall.phase \in Phases
  BY DEF NoCall, Phases
<1>2. \A w \in Working : w.phase \in Phases
  BY DEF Working, Busy, Phases
<1>3. \A a \in Answer : a.phase \in Phases
  BY DEF Answer, Phases
<1>4. \A o \in [phase : {"over"}] : o.phase \in Phases
  BY DEF Phases
<1> QED
  BY <1>1, <1>2, <1>3, <1>4 DEF CallState

-----------------------------------------------------------------------------
(* Steps that leave the stored turns alone                                 *)

(* A call that neither reserves nor completes moves on: no row and no      *)
(* answer changes.                                                         *)
LEMMA CallMoves ==
    ASSUME IInv, NEW c \in Calls, NEW r \in CallState,
           call[c].phase # "answered", r.phase # "answered",
           call' = [call EXCEPT ![c] = r],
           UNCHANGED <<clock, context, chatVars>>,
           r.phase \in Reserved => /\ call[c].phase \in Reserved
                                   /\ r.payload = call[c].payload,
           r.phase \in Counting => r.context.revision = r.payload.revision,
           r.phase = "completing" => r.context.revision = context.revision
    PROVE  IInv'
<1>1. \A d \in Calls : call'[d] = IF d = c THEN r ELSE call[d]
  BY DEF IInv, CallsShaped
<1>2. UNCHANGED clock /\ UNCHANGED context /\ UNCHANGED conversation
      /\ UNCHANGED lastSequence /\ UNCHANGED turns
  BY DEF chatVars
<1>3. CallsShaped'
  BY DEF IInv, CallsShaped
<1>4. TypeOK'
  BY <1>2, <1>3, PhasesKnown DEF IInv, TypeOK, CallsShaped
<1>5. Pending' = Pending
  BY <1>2 DEF Pending
<1>6. AnsweredHere' = AnsweredHere
  BY <1>1, <1>2 DEF AnsweredHere
<1>7. Unique' /\ PendingIsTail' /\ BelowTail'
  BY <1>2, <1>5 DEF IInv, Unique, PendingIsTail, BelowTail
<1>8. NoSequenceGaps'
  BY <1>2, <1>5, <1>6 DEF IInv, NoSequenceGaps, AnsweredHere
<1>9. AnswersBelong'
  BY <1>1, <1>2, <1>6 DEF IInv, AnswersBelong
<1>10. RowsMatchCalls'
  <2>1. turns \subseteq Turn
    BY Facts
  <2>2. \A t \in turns : t.call \in Calls
    BY <2>1 DEF Turn
  <2> QED
    BY <1>1, <1>2, <2>2 DEF IInv, RowsMatchCalls
<1>11. AnswersAreStored'
  BY <1>1, <1>2 DEF IInv, AnswersAreStored
<1>12. RevisionsHeld'
  BY <1>1, <1>2 DEF IInv, RevisionsHeld
<1> QED
  BY <1>3, <1>4, <1>7, <1>8, <1>9, <1>10, <1>11, <1>12 DEF IInv

(* An error response, a replay or a crash.                                 *)
LEMMA CallGivesUp ==
    ASSUME IInv, NEW c \in Calls, call[c].phase # "answered", GiveUp(c),
           UNCHANGED <<clock, context, chatVars>>
    PROVE  IInv'
<1> DEFINE over == [phase |-> "over"]
<1>1. over \in CallState /\ over.phase = "over"
  BY DEF CallState
<1>2. call' = [call EXCEPT ![c] = over]
  BY DEF GiveUp
<1>3. over.phase \notin Reserved /\ over.phase \notin Counting
  BY <1>1 DEF Reserved, Counting
<1> HIDE DEF over
<1> QED
  BY <1>1, <1>2, <1>3, CallMoves

(* A call enters a later phase and keeps what it holds.                    *)
LEMMA CallAdvances ==
    ASSUME IInv, NEW c \in Calls, NEW phase,
           call[c].phase \in Counting,
           phase \in {"asked", "releasing"}, Become(c, phase),
           UNCHANGED <<clock, context, chatVars>>
    PROVE  IInv'
<1> DEFINE r == [call[c] EXCEPT !.phase = phase]
<1>1. call[c] \in Working
  BY Facts, BusyCalls DEF Counting, Busy
<1>2. /\ r \in Working /\ r.phase = phase
      /\ r.payload = call[c].payload /\ r.context = call[c].context
  BY <1>1 DEF Working, Busy
<1>3. call' = [call EXCEPT ![c] = r]
  BY DEF Become, IInv, CallsShaped
<1>4. r \in CallState
  BY <1>2 DEF CallState
<1>5. call[c].context.revision = call[c].payload.revision
  BY DEF IInv, RevisionsHeld
<1>6. call[c].phase \in Reserved /\ call[c].phase # "answered"
  BY DEF Counting, Reserved
<1> HIDE DEF r
<1> QED
  BY <1>2, <1>3, <1>4, <1>5, <1>6, CallMoves

LEMMA StartStep ==
    ASSUME IInv, NEW c \in Calls, Start(c)
    PROVE  IInv'
<1>1. PICK p \in Payload :
         call' = [call EXCEPT ![c] = [phase |-> "started", now |-> clock,
                                      payload |-> p, context |-> context,
                                      sequence |-> 0, at |-> 0]]
  BY DEF Start
<1> DEFINE r == [phase |-> "started", now |-> clock, payload |-> p,
                 context |-> context, sequence |-> 0, at |-> 0]
<1>2. r \in Working /\ r.phase = "started"
  BY Facts DEF Working, Busy
<1>3. r \in CallState
  BY <1>2 DEF CallState
<1>4. call[c].phase = "new"
  BY DEF Start, NoCall
<1>5. call' = [call EXCEPT ![c] = r] /\ UNCHANGED <<clock, context, chatVars>>
  BY <1>1 DEF Start
<1>6. r.phase \notin Reserved /\ r.phase \notin Counting
  BY <1>2 DEF Reserved, Counting
<1> HIDE DEF r
<1> QED
  BY <1>2, <1>3, <1>4, <1>5, <1>6, CallMoves

LEMMA LoadContextStep ==
    ASSUME IInv, NEW c \in Calls, LoadContext(c)
    PROVE  IInv'
<1> DEFINE r == [call[c] EXCEPT !.phase = "loaded", !.context = context]
<1>1. call[c] \in Working /\ call[c].phase = "started"
  BY Facts, BusyCalls DEF LoadContext, Busy
<1>2. r \in Working /\ r.phase = "loaded"
  BY <1>1, Facts DEF Working, Busy
<1>3. call' = [call EXCEPT ![c] = r] /\ UNCHANGED <<clock, context, chatVars>>
  BY DEF LoadContext, IInv, CallsShaped
<1>4. r \in CallState
  BY <1>2 DEF CallState
<1>5. r.phase \notin Reserved /\ r.phase \notin Counting
  BY <1>2 DEF Reserved, Counting
<1> HIDE DEF r
<1> QED
  BY <1>1, <1>2, <1>3, <1>4, <1>5, CallMoves

(* The call that takes the workspace row compared the context just now.    *)
LEMMA LockWorkspaceStep ==
    ASSUME IInv, NEW c \in Calls, LockWorkspace(c)
    PROVE  IInv'
<1> DEFINE r == [call[c] EXCEPT !.phase = "completing", !.at = clock]
<1>1. call[c] \in Working /\ call[c].phase = "asked"
  BY Facts, BusyCalls DEF LockWorkspace, Busy
<1>2. /\ r \in Working /\ r.phase = "completing"
      /\ r.payload = call[c].payload /\ r.context = call[c].context
  BY <1>1, Facts DEF Working, Busy
<1>3. call' = [call EXCEPT ![c] = r] /\ UNCHANGED <<clock, context, chatVars>>
  BY DEF LockWorkspace, IInv, CallsShaped
<1>4. r \in CallState
  BY <1>2 DEF CallState
<1>5. call[c].context.revision = call[c].payload.revision
  BY <1>1 DEF IInv, RevisionsHeld, Counting
<1>6. call[c].phase \in Reserved
  BY <1>1 DEF Reserved
<1>7. context = call[c].context
  BY DEF LockWorkspace
<1> HIDE DEF r
<1> QED
  BY <1>1, <1>2, <1>3, <1>4, <1>5, <1>6, <1>7, CallMoves

(* Time passes; an answer only gets closer to the end of its retention.    *)
LEMMA TickStep ==
    ASSUME IInv, Tick
    PROVE  IInv'
<1>1. UNCHANGED <<context, conversation, lastSequence, turns, call>>
  BY DEF Tick, chatVars
<1>2. clock' \in 0..MaxTime /\ clock' >= clock /\ clock \in Nat /\ clock' \in Nat
  BY Facts, BoundsAssumption DEF Tick
<1>3. TypeOK'
  BY <1>1, <1>2 DEF IInv, TypeOK
<1>4. Pending' = Pending /\ AnsweredHere' = AnsweredHere
  BY <1>1 DEF Pending, AnsweredHere
<1>5. (CallsShaped /\ Unique /\ PendingIsTail /\ BelowTail /\ RowsMatchCalls)'
  BY <1>1, <1>4
     DEF IInv, CallsShaped, Unique, PendingIsTail, BelowTail, RowsMatchCalls
<1>6. NoSequenceGaps'
  BY <1>1, <1>4 DEF IInv, NoSequenceGaps
<1>7. AnswersBelong'
  BY <1>1, <1>4 DEF IInv, AnswersBelong
<1>8. RevisionsHeld'
  BY <1>1 DEF IInv, RevisionsHeld
<1>9. AnswersAreStored'
  <2> SUFFICES ASSUME NEW c \in Calls, call[c].phase = "answered",
                      clock >= call[c].at + Retention
               PROVE  clock' >= call[c].at + Retention
    BY <1>1 DEF IInv, AnswersAreStored
  <2>1. call[c].at + Retention \in Nat
    BY Facts, AnsweredCalls
  <2> QED
    BY <1>2, <2>1
<1> QED
  BY <1>3, <1>5, <1>6, <1>7, <1>8, <1>9 DEF IInv

(* Other work changes what the context fingerprints, and its revision only *)
(* while no call holds the workspace row.                                  *)
LEMMA ContextStep ==
    ASSUME IInv, context' \in Context,
           UNCHANGED <<clock, chatVars, call>>,
           WorkspaceLocked => context'.revision = context.revision
    PROVE  IInv'
<1>1. UNCHANGED <<clock, conversation, lastSequence, turns, call>>
  BY DEF chatVars
<1>2. TypeOK'
  BY <1>1 DEF IInv, TypeOK
<1>3. Pending' = Pending /\ AnsweredHere' = AnsweredHere
  BY <1>1 DEF Pending, AnsweredHere
<1>4. (CallsShaped /\ Unique /\ PendingIsTail /\ BelowTail /\ RowsMatchCalls)'
  BY <1>1, <1>3
     DEF IInv, CallsShaped, Unique, PendingIsTail, BelowTail, RowsMatchCalls
<1>5. NoSequenceGaps' /\ AnswersBelong'
  BY <1>1, <1>3 DEF IInv, NoSequenceGaps, AnswersBelong
<1>6. AnswersAreStored'
  BY <1>1 DEF IInv, AnswersAreStored
<1>7. RevisionsHeld'
  BY <1>1 DEF IInv, RevisionsHeld, WorkspaceLocked
<1> QED
  BY <1>2, <1>4, <1>5, <1>6, <1>7 DEF IInv

LEMMA ChangeWorkspaceStep ==
    ASSUME IInv, ChangeWorkspace
    PROVE  IInv'
<1>1. context' \in Context
  BY Facts, BoundsAssumption DEF ChangeWorkspace, Context
<1> QED
  BY <1>1, ContextStep DEF ChangeWorkspace

LEMMA ActivateProfileStep ==
    ASSUME IInv, ActivateProfile
    PROVE  IInv'
<1>1. context' \in Context /\ context'.revision = context.revision
  BY Facts, BoundsAssumption DEF ActivateProfile, Context
<1> QED
  BY <1>1, ContextStep DEF ActivateProfile

-----------------------------------------------------------------------------
(* The reservation                                                         *)

(* A reservation that no live call can hold is the only thing a new one    *)
(* replaces: afterwards no pending row is left.                            *)
LEMMA ReservableTail ==
    ASSUME IInv, NEW c \in Calls, call[c].phase = "loaded", MayReserve(c)
    PROVE  Reclaimable(call[c].now) = Pending
<1> DEFINE now == call[c].now
           expired == {t \in Pending : t.expires <= now}
<1>1. \A t \in turns : t.sequence \in Nat /\ t.status \in {"pending", "completed"}
  BY Facts DEF Turn
<1>2. lastSequence \in Nat
  BY Facts
<1>3. \A t \in expired : t.sequence..lastSequence = {lastSequence}
  BY <1>1, <1>2 DEF IInv, PendingIsTail, Pending
<1>4. \A t \in expired : \A q \in t.sequence..lastSequence :
         \E u \in expired : u.sequence = q
  BY <1>3 DEF IInv, PendingIsTail
<1>5. Reclaimable(now) = expired
  BY <1>4 DEF Reclaimable
<1>6. \A t \in turns \ Reclaimable(now) : t.status = "pending" => t.expires <= now
  BY DEF MayReserve
<1>7. expired = Pending
  BY <1>5, <1>6 DEF Pending
<1> QED
  BY <1>5, <1>7

LEMMA ReserveStep ==
    ASSUME IInv, NEW c \in Calls, Reserve(c)
    PROVE  IInv'
<1> DEFINE p == call[c].payload
           seq == p.sequence + 1
           row == [call |-> c, token |-> c, sequence |-> seq, payload |-> p,
                   context |-> call[c].context, status |-> "pending",
                   expires |-> call[c].now + Lease]
           kept == turns \ Pending
           r == [call[c] EXCEPT !.phase = "asking", !.sequence = seq]
<1>1. /\ call[c] \in Working /\ call[c].phase = "loaded"
      /\ p \in Payload /\ p.sequence \in Nat
      /\ call[c].now \in Nat /\ call[c].context \in Context
  BY Facts, BusyCalls, BoundsAssumption DEF Reserve, Busy, Payload
<1>2. seq \in Nat \ {0} /\ seq \in Nat
  BY <1>1
<1>3. Reclaimable(call[c].now) = Pending
  BY <1>1, ReservableTail DEF Reserve
<1>4. /\ turns' = kept \cup {row}
      /\ lastSequence' = seq
      /\ conversation' = [conversation EXCEPT !.stored = TRUE, !.updated = call[c].now]
      /\ UNCHANGED clock /\ UNCHANGED context
  BY <1>3 DEF Reserve
<1>5. /\ SameRequest(p, kept) = {}
      /\ lastSequence - Cardinality(Pending) = p.sequence
      /\ call[c].context.revision = p.revision
  BY <1>3 DEF Reserve, MayReserve
<1>6. /\ row \in Turn /\ row.status = "pending" /\ row.sequence = seq
      /\ row.call = c /\ row.token = c /\ row.payload = p
  BY <1>1, <1>2, Facts DEF Turn
<1>7. /\ r \in Working /\ r.phase = "asking" /\ r.payload = p
      /\ r.context = call[c].context
  BY <1>1, <1>2 DEF Working, Busy
<1>8. call' = [call EXCEPT ![c] = r]
  BY DEF Reserve, IInv, CallsShaped
<1>9. /\ conversation' \in Conversation /\ conversation'.id = conversation.id
  BY <1>1, <1>4, Facts DEF Conversation
<1> HIDE DEF r, row
<1>10. \A d \in Calls : call'[d] = IF d = c THEN r ELSE call[d]
  BY <1>8 DEF IInv, CallsShaped
<1>11. kept \subseteq turns /\ \A t \in kept : t.status = "completed"
  BY Facts DEF Pending, Turn
<1>12. CallsShaped'
  BY <1>7, <1>8 DEF IInv, CallsShaped, CallState
<1>13. TypeOK'
  <2>1. turns' \subseteq Turn
    BY <1>4, <1>6, <1>11, Facts
  <2> QED
    BY <1>2, <1>4, <1>9, <1>12, <2>1, PhasesKnown DEF IInv, TypeOK, CallsShaped
<1>14. Pending' = {row}
  BY <1>4, <1>6, <1>11 DEF Pending
<1>15. \A t \in kept : t.sequence \in Nat /\ t.sequence < seq
  <2> SUFFICES ASSUME NEW t \in kept
               PROVE  t.sequence \in Nat /\ t.sequence < seq
    OBVIOUS
  <2>1. t.sequence \in Nat /\ t.sequence <= lastSequence /\ lastSequence \in Nat
    BY <1>11, Facts DEF IInv, BelowTail, Turn
  <2>2. CASE Pending = {} /\ Cardinality(Pending) = 0
    BY <1>1, <1>5, <2>1, <2>2
  <2>3. CASE \E u \in Pending : Pending = {u} /\ Cardinality(Pending) = 1
    <3>1. PICK u \in Pending : Cardinality(Pending) = 1
      BY <2>3
    <3>2. u.sequence = lastSequence /\ u \in turns /\ u # t
      BY <1>11 DEF IInv, PendingIsTail, Pending
    <3>3. t.sequence # lastSequence
      BY <1>11, <3>2 DEF IInv, Unique
    <3> QED
      BY <1>1, <1>5, <2>1, <3>1, <3>3
  <2> QED
    BY <2>2, <2>3, OnePending DEF IInv
<1>16. Unique'
  <2>1. \A t \in kept : t.sequence # row.sequence /\ t.payload.id # row.payload.id
    BY <1>2, <1>5, <1>6, <1>15 DEF SameRequest
  <2> QED
    BY <1>4, <1>11, <2>1 DEF IInv, Unique
<1>17. PendingIsTail'
  BY <1>4, <1>6, <1>14 DEF PendingIsTail
<1>18. BelowTail'
  BY <1>2, <1>4, <1>6, <1>15 DEF BelowTail
<1>19. AnsweredHere' = AnsweredHere
  BY <1>1, <1>7, <1>9, <1>10 DEF AnsweredHere
<1>20. NoSequenceGaps'
  <2>1. lastSequence = Cardinality(AnsweredHere) + Cardinality(Pending)
    BY DEF IInv, NoSequenceGaps, AnsweredHere
  <2>2. Cardinality(AnsweredHere) \in Nat
    BY FS_CardinalityType DEF IInv, AnswersBelong
  <2>3. Cardinality(Pending) \in Nat
    BY OnePending DEF IInv
  <2>4. p.sequence = Cardinality(AnsweredHere)
    BY <1>5, <2>1, <2>2, <2>3
  <2>5. Cardinality(Pending') = 1
    BY <1>14, FS_Singleton
  <2>6. lastSequence' = Cardinality(AnsweredHere') + Cardinality(Pending')
    BY <1>4, <1>19, <2>4, <2>5
  <2> QED
    BY <2>6 DEF NoSequenceGaps, AnsweredHere
<1>21. AnswersBelong'
  BY <1>7, <1>9, <1>10, <1>19 DEF IInv, AnswersBelong
<1>22. RowsMatchCalls'
  <2>1. \A t \in kept : t.call \in Calls /\ t.status # "pending"
    BY <1>11, Facts DEF Turn
  <2>2. \A t \in kept : /\ t.token = t.call /\ call[t.call].phase = "answered"
                         /\ t.expires = call[t.call].at + Retention
    BY <1>11 DEF IInv, RowsMatchCalls
  <2>3. \A t \in kept : call'[t.call] = call[t.call]
    BY <1>1, <1>10, <2>1, <2>2
  <2> QED
    BY <1>4, <1>6, <1>7, <1>10, <2>1, <2>2, <2>3 DEF RowsMatchCalls
<1>23. AnswersAreStored'
  <2>1. \A t \in turns : t.status = "completed" => t \in turns'
    BY <1>4 DEF Pending
  <2> QED
    BY <1>4, <1>7, <1>10, <2>1 DEF IInv, AnswersAreStored
<1>24. RevisionsHeld'
  BY <1>4, <1>5, <1>7, <1>10 DEF IInv, RevisionsHeld
<1> QED
  BY <1>12, <1>13, <1>16, <1>17, <1>18, <1>20, <1>21, <1>22, <1>23, <1>24 DEF IInv

-----------------------------------------------------------------------------
(* The answer and the release                                              *)

LEMMA CompleteStep ==
    ASSUME IInv, NEW c \in Calls, Complete(c)
    PROVE  IInv'
<1> DEFINE r == [phase |-> "answered", at |-> call[c].at,
                 conversation |-> conversation.id]
<1>1. PICK t \in Owned(c) :
         turns' = (turns \ {t}) \cup
                    {[t EXCEPT !.status = "completed",
                               !.expires = call[c].at + Retention]}
  BY DEF Complete
<1> DEFINE row == [t EXCEPT !.status = "completed",
                            !.expires = call[c].at + Retention]
<1>2. /\ t \in turns /\ t \in Turn /\ t \in Pending /\ t.status = "pending"
      /\ t.token = c /\ t.call = c
  BY <1>1, Facts DEF Owned, Pending, IInv, RowsMatchCalls
<1>3. call[c].phase = "completing" /\ call[c].at \in Nat
  BY Facts, BusyCalls DEF Complete, Busy
<1>4. /\ row \in Turn /\ row.status = "completed"
      /\ row.expires = call[c].at + Retention
      /\ row.call = c /\ row.token = c
      /\ row.sequence = t.sequence /\ row.payload = t.payload
  <2>1. PICK kept \in Nat : kept = call[c].at + Retention
    BY <1>3, Facts
  <2>2. PICK done \in {"pending", "completed"} : done = "completed"
    OBVIOUS
  <2>3. row = [t EXCEPT !.status = done, !.expires = kept]
    BY <2>1, <2>2
  <2>4. row \in Turn /\ row.status = done /\ row.expires = kept
    BY <1>2, <2>3 DEF Turn
  <2>5. /\ row.call = t.call /\ row.token = t.token
        /\ row.sequence = t.sequence /\ row.payload = t.payload
    BY <1>2, <2>3 DEF Turn
  <2> HIDE DEF row
  <2> QED
    BY <1>2, <2>1, <2>2, <2>4, <2>5
<1>5. /\ r \in Answer /\ r.phase = "answered" /\ r.at = call[c].at
      /\ r.conversation = conversation.id
  BY <1>3, Facts DEF Answer
<1>6. /\ call' = [call EXCEPT ![c] = r]
      /\ conversation' = [conversation EXCEPT !.updated = call[c].at]
      /\ UNCHANGED clock /\ UNCHANGED context /\ UNCHANGED lastSequence
  BY DEF Complete
<1>7. turns' = (turns \ {t}) \cup {row}
  BY <1>1
<1> HIDE DEF r, row
<1>8. conversation' \in Conversation /\ conversation'.id = conversation.id
  BY <1>3, <1>6, Facts DEF Conversation
<1>9. \A d \in Calls : call'[d] = IF d = c THEN r ELSE call[d]
  BY <1>6 DEF IInv, CallsShaped
<1>10. CallsShaped'
  BY <1>5, <1>6 DEF IInv, CallsShaped, CallState
<1>11. TypeOK'
  <2>1. turns' \subseteq Turn
    BY <1>4, <1>7, Facts
  <2> QED
    BY <1>6, <1>8, <1>10, <2>1, PhasesKnown DEF IInv, TypeOK, CallsShaped
<1>12. Pending = {t} /\ Cardinality(Pending) = 1
  BY <1>2, OnePending DEF IInv
<1>13. Pending' = {}
  BY <1>4, <1>7, <1>12 DEF Pending
<1>14. AnsweredHere' = AnsweredHere \cup {c} /\ c \notin AnsweredHere
  BY <1>3, <1>5, <1>8, <1>9 DEF AnsweredHere
<1>15. Unique'
  BY <1>2, <1>4, <1>7 DEF IInv, Unique
<1>16. PendingIsTail'
  BY <1>13 DEF PendingIsTail
<1>17. BelowTail'
  BY <1>2, <1>4, <1>6, <1>7 DEF IInv, BelowTail
<1>18. IsFiniteSet(AnsweredHere)
  BY DEF IInv, AnswersBelong
<1>19. NoSequenceGaps'
  <2>1. lastSequence = Cardinality(AnsweredHere) + 1
    BY <1>12 DEF IInv, NoSequenceGaps, AnsweredHere
  <2>2. Cardinality(AnsweredHere') = Cardinality(AnsweredHere) + 1
    BY <1>14, <1>18, FS_AddElement
  <2>3. Cardinality(Pending') = 0
    BY <1>13, FS_EmptySet
  <2>4. Cardinality(AnsweredHere) \in Nat
    BY <1>18, FS_CardinalityType
  <2>5. lastSequence' = Cardinality(AnsweredHere') + Cardinality(Pending')
    BY <1>6, <2>1, <2>2, <2>3, <2>4
  <2> QED
    BY <2>5 DEF NoSequenceGaps, AnsweredHere
<1>20. AnswersBelong'
  <2>1. IsFiniteSet(AnsweredHere')
    BY <1>14, <1>18, FS_AddElement
  <2>2. conversation.id \in Nat
    BY Facts
  <2> QED
    BY <1>5, <1>8, <1>9, <2>1, <2>2 DEF IInv, AnswersBelong
<1>21. RowsMatchCalls'
  <2>1. \A u \in turns \ {t} : u.call \in Calls /\ u.status = "completed"
    BY <1>12, Facts DEF Turn, Pending
  <2>2. \A u \in turns \ {t} : /\ u.token = u.call /\ call[u.call].phase = "answered"
                               /\ u.expires = call[u.call].at + Retention
    BY <2>1 DEF IInv, RowsMatchCalls
  <2>3. \A u \in turns \ {t} : call'[u.call] = call[u.call]
    BY <1>3, <1>9, <2>1, <2>2
  <2> QED
    BY <1>4, <1>5, <1>7, <1>9, <2>1, <2>2, <2>3 DEF RowsMatchCalls
<1>22. AnswersAreStored'
  <2>1. \A u \in turns : u.status = "completed" => u \in turns'
    BY <1>2, <1>7
  <2>2. row \in turns'
    BY <1>7
  <2> QED
    BY <1>4, <1>6, <1>9, <2>1, <2>2 DEF IInv, AnswersAreStored
<1>23. RevisionsHeld'
  BY <1>5, <1>6, <1>9 DEF IInv, RevisionsHeld, Counting
<1> QED
  BY <1>10, <1>11, <1>15, <1>16, <1>17, <1>19, <1>20, <1>21, <1>22, <1>23 DEF IInv

(* A call deletes its own reservation, or finds that another call took it. *)
LEMMA ReleaseStep ==
    ASSUME IInv, NEW c \in Calls, Release(c)
    PROVE  IInv'
<1> DEFINE gone == {t \in Owned(c) : t.sequence = lastSequence}
<1>1. /\ turns' = turns \ gone
      /\ lastSequence' = lastSequence - Cardinality(gone)
      /\ UNCHANGED <<clock, context, conversation>>
      /\ GiveUp(c) /\ call[c].phase = "releasing"
  BY DEF Release
<1>2. gone \subseteq Pending
  BY DEF Owned, Pending
<1> HIDE DEF gone
<1>3. CASE gone = {}
  <2>1. Cardinality(gone) = 0 /\ lastSequence \in Nat
    BY <1>3, FS_EmptySet, Facts
  <2>2. UNCHANGED <<clock, context, chatVars>>
    BY <1>1, <1>3, <2>1 DEF chatVars
  <2> QED
    BY <1>1, <2>2, CallGivesUp
<1>4. CASE gone # {}
  <2> DEFINE over == [phase |-> "over"]
  <2>1. over \in CallState /\ over.phase = "over"
    BY DEF CallState
  <2>2. call' = [call EXCEPT ![c] = over]
    BY <1>1 DEF GiveUp
  <2> HIDE DEF over
  <2>3. \A d \in Calls : call'[d] = IF d = c THEN over ELSE call[d]
    BY <2>2 DEF IInv, CallsShaped
  <2>4. gone = Pending /\ Cardinality(Pending) = 1
    BY <1>2, <1>4, OnePending DEF IInv
  <2>5. PICK t \in Pending : Pending = {t}
    BY <2>4, OnePending, <1>4 DEF IInv
  <2>6. lastSequence' = lastSequence - 1 /\ lastSequence \in Nat
    BY <1>1, <2>4, Facts
  <2>7. lastSequence = Cardinality(AnsweredHere) + 1
    BY <2>4 DEF IInv, NoSequenceGaps, AnsweredHere
  <2>8. Cardinality(AnsweredHere) \in Nat /\ IsFiniteSet(AnsweredHere)
    BY FS_CardinalityType DEF IInv, AnswersBelong
  <2>9. CallsShaped'
    BY <2>1, <2>2 DEF IInv, CallsShaped
  <2>10. TypeOK'
    <3>1. lastSequence' \in Nat /\ turns' \subseteq Turn
      BY <1>1, <2>6, <2>7, <2>8, Facts
    <3> QED
      BY <1>1, <2>9, <3>1, PhasesKnown DEF IInv, TypeOK, CallsShaped
  <2>11. Pending' = {}
    BY <1>1, <2>4 DEF Pending
  <2>12. AnsweredHere' = AnsweredHere
    BY <1>1, <2>1, <2>3 DEF AnsweredHere
  <2>13. Unique' /\ PendingIsTail'
    BY <1>1, <2>11 DEF IInv, Unique, PendingIsTail
  <2>14. BelowTail'
    <3> SUFFICES ASSUME NEW u \in turns \ Pending
                 PROVE  u.sequence <= lastSequence - 1
      BY <1>1, <2>4, <2>6 DEF BelowTail
    <3>1. u.sequence \in Nat /\ u.sequence <= lastSequence
      BY Facts DEF Turn, IInv, BelowTail
    <3>2. t.sequence = lastSequence /\ t \in turns /\ t # u
      BY <2>5 DEF IInv, PendingIsTail, Pending
    <3>3. u.sequence # lastSequence
      BY <3>2 DEF IInv, Unique
    <3> QED
      BY <2>6, <3>1, <3>3
  <2>15. NoSequenceGaps'
    <3>1. Cardinality(Pending') = 0
      BY <2>11, FS_EmptySet
    <3>2. lastSequence' = Cardinality(AnsweredHere') + Cardinality(Pending')
      BY <2>6, <2>7, <2>8, <2>12, <3>1
    <3> QED
      BY <3>2 DEF NoSequenceGaps, AnsweredHere
  <2>16. AnswersBelong'
    BY <1>1, <2>1, <2>3, <2>8, <2>12 DEF IInv, AnswersBelong
  <2>17. RowsMatchCalls'
    <3>1. \A u \in turns : u.call \in Calls
      BY Facts DEF Turn
    <3>2. \A u \in turns' : u \in turns /\ u.status # "pending"
      BY <1>1, <2>4 DEF Pending
    <3> QED
      BY <1>1, <2>1, <2>3, <3>1, <3>2 DEF IInv, RowsMatchCalls
  <2>18. AnswersAreStored'
    <3>1. \A u \in turns : u.status = "completed" => u \in turns'
      BY <1>1, <2>4 DEF Pending
    <3> QED
      BY <1>1, <2>1, <2>3, <3>1 DEF IInv, AnswersAreStored
  <2>19. RevisionsHeld'
    BY <1>1, <2>1, <2>3 DEF IInv, RevisionsHeld, Counting
  <2> QED
    BY <2>9, <2>10, <2>13, <2>14, <2>15, <2>16, <2>17, <2>18, <2>19 DEF IInv
<1> QED
  BY <1>3, <1>4

-----------------------------------------------------------------------------
(* The retention purge                                                     *)

LEMMA PurgeStep ==
    ASSUME IInv, Purge
    PROVE  IInv'
<1>1. PICK batch \in SUBSET PurgeReady :
        /\ turns' = turns \ batch
        /\ \/ /\ turns' = {} /\ conversation.stored
              /\ conversation.updated + Retention <= clock
              /\ conversation' = [id |-> conversation.id + 1, stored |-> FALSE,
                                  updated |-> 0]
              /\ lastSequence' = 0
           \/ batch # {} /\ UNCHANGED <<conversation, lastSequence>>
        /\ UNCHANGED <<clock, context, call>>
  BY DEF Purge
<1>2. \A t \in batch : t \in turns /\ t.status = "completed" /\ t.expires <= clock
  BY DEF PurgeReady
<1>3. CallsShaped' /\ RevisionsHeld'
  BY <1>1 DEF IInv, CallsShaped, RevisionsHeld
<1>4. Pending' = Pending
  BY <1>1, <1>2 DEF Pending
<1>5. Unique' /\ RowsMatchCalls'
  BY <1>1 DEF IInv, Unique, RowsMatchCalls
<1>6. AnswersAreStored'
  <2> SUFFICES ASSUME NEW c \in Calls, call[c].phase = "answered",
                      ~(clock >= call[c].at + Retention)
               PROVE  \E t \in turns' : t.call = c /\ t.status = "completed"
    BY <1>1 DEF AnswersAreStored
  <2>1. PICK t \in turns : t.call = c /\ t.status = "completed"
    BY DEF IInv, AnswersAreStored
  <2>2. t.expires = call[c].at + Retention
    BY <2>1 DEF IInv, RowsMatchCalls
  <2>3. t.expires \in Nat /\ clock \in Nat
    BY Facts DEF Turn
  <2>4. t \notin batch
    BY <1>2, <2>2, <2>3
  <2> QED
    BY <1>1, <2>1, <2>4
<1>7. CASE UNCHANGED <<conversation, lastSequence>>
  <2>1. TypeOK'
    BY <1>1, <1>7 DEF IInv, TypeOK
  <2>2. AnsweredHere' = AnsweredHere
    BY <1>1, <1>7 DEF AnsweredHere
  <2>3. PendingIsTail' /\ BelowTail'
    BY <1>1, <1>4, <1>7 DEF IInv, PendingIsTail, BelowTail
  <2>4. NoSequenceGaps'
    BY <1>4, <1>7, <2>2 DEF IInv, NoSequenceGaps, AnsweredHere
  <2>5. AnswersBelong'
    BY <1>1, <1>7, <2>2 DEF IInv, AnswersBelong
  <2> QED
    BY <1>3, <1>5, <1>6, <2>1, <2>3, <2>4, <2>5 DEF IInv
<1>8. CASE /\ turns' = {} /\ lastSequence' = 0
           /\ conversation' = [id |-> conversation.id + 1, stored |-> FALSE,
                               updated |-> 0]
  <2>1. conversation.id \in Nat
    BY Facts
  <2>2. conversation' \in Conversation /\ conversation'.id = conversation.id + 1
    BY <1>8, <2>1 DEF Conversation
  <2>3. TypeOK'
    BY <1>1, <1>8, <2>2 DEF IInv, TypeOK
  <2>4. \A c \in Calls : call[c].phase = "answered" =>
           /\ call[c].conversation \in Nat
           /\ call[c].conversation <= conversation.id
    BY Facts, AnsweredCalls DEF IInv, AnswersBelong
  <2>5. AnsweredHere' = {}
    BY <1>1, <2>1, <2>2, <2>4 DEF AnsweredHere
  <2>6. Pending' = {} /\ PendingIsTail' /\ BelowTail'
    BY <1>8 DEF Pending, PendingIsTail, BelowTail
  <2>7. NoSequenceGaps'
    <3>1. lastSequence' = Cardinality(AnsweredHere') + Cardinality(Pending')
      BY <1>8, <2>5, <2>6, FS_EmptySet
    <3> QED
      BY <3>1 DEF NoSequenceGaps, AnsweredHere
  <2>8. AnswersBelong'
    BY <1>1, <2>1, <2>2, <2>4, <2>5, FS_EmptySet DEF AnswersBelong
  <2> QED
    BY <1>3, <1>5, <1>6, <2>3, <2>6, <2>7, <2>8 DEF IInv
<1> QED
  BY <1>1, <1>7, <1>8

-----------------------------------------------------------------------------
(* The theorems                                                            *)

LEMMA InvInit == Init => IInv
<1> SUFFICES ASSUME Init
             PROVE  IInv
  OBVIOUS
<1>1. /\ clock = 0 /\ lastSequence = 0 /\ turns = {}
      /\ context = [revision |-> 0, records |-> 0]
      /\ conversation = [id |-> 0, stored |-> FALSE, updated |-> 0]
      /\ call = [c \in Calls |-> NoCall]
  BY DEF Init
<1>2. NoCall \in CallState /\ NoCall.phase = "new"
  BY DEF CallState, NoCall
<1>3. CallsShaped /\ \A c \in Calls : call[c].phase = "new"
  BY <1>1, <1>2 DEF CallsShaped
<1>4. TypeOK
  BY <1>1, <1>3, BoundsAssumption DEF TypeOK, Context, Conversation, Phases
<1>5. Pending = {} /\ AnsweredHere = {}
  BY <1>1, <1>3 DEF Pending, AnsweredHere
<1>6. NoSequenceGaps /\ AnswersBelong
  <2>1. lastSequence = Cardinality(AnsweredHere) + Cardinality(Pending)
    BY <1>1, <1>5, FS_EmptySet
  <2> QED
    BY <1>3, <1>5, <2>1, FS_EmptySet DEF NoSequenceGaps, AnswersBelong, AnsweredHere
<1>7. Unique /\ PendingIsTail /\ BelowTail /\ RowsMatchCalls
  BY <1>1, <1>5 DEF Unique, PendingIsTail, BelowTail, RowsMatchCalls
<1>8. AnswersAreStored /\ RevisionsHeld
  BY <1>3 DEF AnswersAreStored, RevisionsHeld, Counting
<1> QED
  BY <1>3, <1>4, <1>6, <1>7, <1>8 DEF IInv

LEMMA InvNext == IInv /\ [Next]_vars => IInv'
<1> SUFFICES ASSUME IInv, [Next]_vars
             PROVE  IInv'
  OBVIOUS
<1>1. CASE UNCHANGED vars
  <2>1. UNCHANGED <<clock, context, conversation, lastSequence, turns, call>>
    BY <1>1 DEF vars
  <2>2. UNCHANGED <<clock, chatVars, call>> /\ context' \in Context
        /\ context'.revision = context.revision
    BY <2>1, Facts DEF chatVars
  <2> QED
    BY <2>2, ContextStep
<1>2. CASE Tick
  BY <1>2, TickStep
<1>3. CASE ChangeWorkspace
  BY <1>3, ChangeWorkspaceStep
<1>4. CASE ActivateProfile
  BY <1>4, ActivateProfileStep
<1>5. CASE Purge
  BY <1>5, PurgeStep
<1>6. ASSUME NEW c \in Calls
      PROVE  /\ Start(c) \/ LoadContext(c) \/ LockWorkspace(c) => IInv'
             /\ Reserve(c) \/ Complete(c) \/ Release(c) => IInv'
  BY StartStep, LoadContextStep, LockWorkspaceStep, ReserveStep, CompleteStep,
     ReleaseStep
<1>7. ASSUME NEW c \in Calls,
             \/ Replay(c) \/ Refuse(c) \/ CompleteDenied(c) \/ Crash(c)
      PROVE  IInv'
  <2>1. GiveUp(c) /\ UNCHANGED <<clock, context, chatVars>>
    BY <1>7 DEF Replay, Refuse, CompleteDenied, Crash
  <2>2. call[c].phase # "answered"
    BY <1>7 DEF Replay, Refuse, CompleteDenied, Crash
  <2> QED
    BY <2>1, <2>2, CallGivesUp
<1>8. ASSUME NEW c \in Calls,
             \/ ModelAnswers(c) \/ ModelFails(c) \/ ContextChanged(c)
             \/ CompleteFails(c)
      PROVE  IInv'
  <2>1. PICK phase \in {"asked", "releasing"} : Become(c, phase)
    BY <1>8 DEF ModelAnswers, ModelFails, ContextChanged, CompleteFails
  <2>2. call[c].phase \in Counting /\ UNCHANGED <<clock, context, chatVars>>
    BY <1>8 DEF ModelAnswers, ModelFails, ContextChanged, CompleteFails, Counting
  <2> QED
    BY <2>1, <2>2, CallAdvances
<1> QED
  BY <1>1, <1>2, <1>3, <1>4, <1>5, <1>6, <1>7, <1>8 DEF Next

(* The strengthened invariant holds in every reachable state, for any set  *)
(* of calls (send_chat_message, _reserve_turn, _complete_turn,             *)
(* _release_reservation, _run_purge).                                      *)
THEOREM ChatInvariant == Spec => []IInv
  BY InvInit, InvNext, PTL DEF Spec

(* The rows, the conversation and the calls keep their types.              *)
THEOREM ChatTypeOK == Spec => []TypeOK
<1>1. IInv => TypeOK
  BY DEF IInv
<1> QED
  BY <1>1, ChatInvariant, PTL

(* Whatever reservations, releases, reclaims, crashes and purges meet, no  *)
(* insert depends on a unique constraint, a reservation is the last turn   *)
(* and no sequence number is skipped or used again (_reserve_turn).        *)
THEOREM ChatTurnsInSequence == Spec => []TurnsInSequence
<1>1. ASSUME IInv
      PROVE  TurnsInSequence
  <2>1. Cardinality(Pending) <= 1
    BY <1>1, OnePending DEF IInv
  <2> QED
    BY <1>1, <2>1 DEF IInv, TurnsInSequence, DatabaseConstraints, Unique
<1> QED
  BY <1>1, ChatInvariant, PTL

(* A call that reported success has its turn stored until the retention    *)
(* ends (_complete_turn, _run_purge).                                      *)
THEOREM ChatAnswersAreStored == Spec => []AnswersAreStored
<1>1. IInv => AnswersAreStored
  BY DEF IInv
<1> QED
  BY <1>1, ChatInvariant, PTL

(* A step that stores an answer stores it for the current revision, since  *)
(* the completing call holds the workspace row from the comparison of the  *)
(* context to the commit (send_chat_message).                              *)
THEOREM ChatAnswersMatchRevision == Spec => AnswersMatchRevision
<1> DEFINE Match == \A t \in turns' \ turns : t.status = "completed" =>
                       t.payload.revision = context'.revision
<1>1. ASSUME IInv, [Next]_vars
      PROVE  [Match]_vars
  <2>1. ASSUME NEW c \in Calls, Complete(c)
        PROVE  Match
    <3>1. PICK t \in Owned(c) :
             turns' = (turns \ {t}) \cup
                        {[t EXCEPT !.status = "completed",
                                   !.expires = call[c].at + Retention]}
      BY <2>1 DEF Complete
    <3>2. /\ t \in turns /\ t \in Turn /\ t.status = "pending"
          /\ t.call = c
      BY <1>1, <3>1, Facts DEF Owned, IInv, RowsMatchCalls
    <3>3. call[c].phase = "completing" /\ UNCHANGED context
      BY <2>1 DEF Complete
    <3>4. t.payload = call[c].payload
      BY <1>1, <3>2, <3>3 DEF IInv, RowsMatchCalls, Reserved
    <3>5. call[c].payload.revision = context'.revision
      BY <1>1, <3>3 DEF IInv, RevisionsHeld, Counting
    <3>6. \A u \in turns' \ turns : u.payload = t.payload
      BY <3>1, <3>2 DEF Turn
    <3> QED
      BY <3>4, <3>5, <3>6
  <2>2. ASSUME NEW c \in Calls, Reserve(c)
        PROVE  Match
    <3>1. \A u \in turns' \ turns : u.status = "pending"
      BY <2>2 DEF Reserve
    <3> QED
      BY <3>1
  <2>3. CASE turns' \subseteq turns
    BY <2>3
  <2>4. Purge \/ (\E c \in Calls : Release(c)) => turns' \subseteq turns
    BY DEF Purge, Release
  <2>5. Tick \/ ChangeWorkspace \/ ActivateProfile => turns' \subseteq turns
    BY DEF Tick, ChangeWorkspace, ActivateProfile, chatVars
  <2>6. ASSUME NEW c \in Calls
        PROVE  /\ Start(c) \/ LoadContext(c) \/ Replay(c) \/ Refuse(c)
                     => turns' \subseteq turns
               /\ ModelAnswers(c) \/ ModelFails(c) \/ LockWorkspace(c)
                     => turns' \subseteq turns
               /\ ContextChanged(c) \/ CompleteDenied(c) \/ CompleteFails(c)
                     => turns' \subseteq turns
               /\ Crash(c) => turns' \subseteq turns
    <3>1. UNCHANGED <<clock, context, chatVars>> => turns' \subseteq turns
      BY DEF chatVars
    <3> QED
      BY <3>1 DEF Start, LoadContext, Replay, Refuse, ModelAnswers, ModelFails,
                  LockWorkspace, ContextChanged, CompleteDenied, CompleteFails, Crash
  <2>7. Next => \/ turns' \subseteq turns
                \/ \E c \in Calls : Complete(c) \/ Reserve(c)
    BY <2>4, <2>5, <2>6 DEF Next
  <2>8. Next => Match
    BY <2>1, <2>2, <2>3, <2>7
  <2> QED
    BY <1>1, <2>8
<1>2. IInv /\ [Next]_vars => [Match]_vars
  BY <1>1
<1>3. Spec => [][Match]_vars
  BY <1>2, ChatInvariant, PTL DEF Spec
<1> QED
  BY <1>3 DEF AnswersMatchRevision

=============================================================================
