----------------------------- MODULE ChatBudget -----------------------------
(***************************************************************************)
(* The model-attempt budget of one actor: _reserve_usage in                *)
(* ssp_workspace/chat.py, which sums the counters that each of the actor's *)
(* conversations keeps.                                                    *)
(*                                                                         *)
(* post_chat samples "now" and send_chat_message loads the context before  *)
(* it asks for the actor's advisory lock, so calls reach the counters in   *)
(* another order than their samples: nothing compares the two.             *)
(***************************************************************************)
EXTENDS Naturals, FiniteSets, FiniteSetsExt

CONSTANTS Calls,          \* calls of send_chat_message that reach the budget
          Conversations,  \* workspaces the actor chats in
          MaxTime,        \* bound: clock
          DayLength,      \* a calendar day
          Window,         \* rate_limit_window_seconds
          MaxRequests,    \* rate_limit_max_requests
          DailyLimit,     \* daily_token_limit_per_user
          MaxCost         \* largest estimated_tokens

ASSUME PositiveAssumption ==
    {DayLength, Window, MaxRequests, DailyLimit, MaxCost} \subseteq Nat \ {0}
ASSUME MaxTimeAssumption == MaxTime \in Nat
ASSUME ConversationsAssumption == IsFiniteSet(Conversations)

VARIABLES clock,
          usage,          \* counters of each conversation row
          call,           \* what each call holds in memory
          charges         \* history: every charge that was committed

budgetVars == <<clock, usage, call, charges>>

Times == 0..MaxTime
Day(t) == t \div DayLength

Usage == [date : Nat, tokens : Nat, start : Times, requests : Nat]

(* No conversation row yet: it is inserted by the transaction that charges *)
(* it first.                                                               *)
NoRow == [date |-> 0, tokens |-> 0, start |-> MaxTime + 1, requests |-> 0]

Waiting == [phase : {"sampled"}, now : Times, conversation : Conversations,
            cost : 1..MaxCost]
New     == [phase |-> "new"]
Over    == [phase |-> "over"]

BudgetTypeOK ==
    /\ clock \in Times
    /\ usage \in [Conversations -> Usage \cup {NoRow}]
    /\ call \in [Calls -> Waiting \cup {New, Over}]
    /\ charges \subseteq [call : Calls, conversation : Conversations, now : Times,
                          newest : Times, cost : 1..MaxCost]

Tick ==
    /\ clock < MaxTime
    /\ clock' = clock + 1
    /\ UNCHANGED <<usage, call, charges>>

(* post_chat samples the clock.                                            *)
Sample(c) ==
    /\ call[c] = New
    /\ \E v \in Conversations, n \in 1..MaxCost :
         call' = [call EXCEPT ![c] = [phase |-> "sampled", now |-> clock,
                                      conversation |-> v, cost |-> n]]
    /\ UNCHANGED <<clock, usage, charges>>

(* A row's counters as _reserve_usage leaves them for the date and window  *)
(* of this call.                                                           *)
Normalized(u, now) ==
    [date     |-> Day(now),
     tokens   |-> IF u.date = Day(now) THEN u.tokens ELSE 0,
     start    |-> IF now >= u.start + Window THEN now ELSE u.start,
     requests |-> IF now >= u.start + Window THEN 0 ELSE u.requests]

(* _ensure_conversation                                                    *)
NewRow(now) == [date |-> Day(now), tokens |-> 0, start |-> now, requests |-> 0]

(* History: the newest time that reached the counters, of those charged    *)
(* before (past) and of a call that is charged now                         *)
NewestOf(past, now) == Max({x.now : x \in past} \cup {now})

(* Mutant: the daily limit is compared with the conversation's own counter. *)
WithinOwnTokens(q, rows) ==
    /\ MapThenSumSet(LAMBDA v : rows[v].requests, Conversations) < MaxRequests
    /\ rows[q.conversation].tokens + q.cost <= DailyLimit

(* The limits, over all conversations of the actor.                        *)
WithinBudget(q, rows) ==
    /\ MapThenSumSet(LAMBDA v : rows[v].requests, Conversations) < MaxRequests
    /\ MapThenSumSet(LAMBDA v : rows[v].tokens, Conversations) + q.cost
          <= DailyLimit

(* The locked part: every row is normalized, the sums are compared, and    *)
(* the call's own conversation is charged.  A refused call rolls back.     *)
Reserve(c) ==
    LET q    == call[c]
        rows == [v \in Conversations |->
                   IF usage[v] # NoRow THEN Normalized(usage[v], q.now)
                   ELSE IF v = q.conversation THEN NewRow(q.now) ELSE NoRow] IN
    /\ q.phase = "sampled"
    /\ \/ /\ WithinBudget(q, rows)
          /\ usage' = [rows EXCEPT ![q.conversation].requests = @ + 1,
                                   ![q.conversation].tokens = @ + q.cost]
          /\ charges' = charges \cup {[call |-> c, conversation |-> q.conversation,
                                       now |-> q.now, newest |-> NewestOf(charges, q.now),
                                       cost |-> q.cost]}
       \/ ~WithinBudget(q, rows) /\ UNCHANGED <<usage, charges>>
    /\ call' = [call EXCEPT ![c] = Over]
    /\ UNCHANGED clock

(* A call that fails before it reaches the budget.                         *)
GiveUp(c) ==
    /\ call[c].phase = "sampled"
    /\ call' = [call EXCEPT ![c] = Over]
    /\ UNCHANGED <<clock, usage, charges>>

BudgetInit ==
    /\ clock = 0
    /\ usage = [v \in Conversations |-> NoRow]
    /\ call = [c \in Calls |-> New]
    /\ charges = {}

BudgetNext ==
    \/ Tick
    \/ \E c \in Calls : Sample(c) \/ Reserve(c) \/ GiveUp(c)

BudgetSpec == BudgetInit /\ [][BudgetNext]_budgetVars

-----------------------------------------------------------------------------
(* Properties                                                              *)

ChargedOn(d) == {x \in charges : Day(x.now) = d}

(* A call that a newer sample overtook on the way to the counters          *)
Late(x) == x.now < x.newest

(* The calls that were overtaken over a midnight and turned the counters   *)
(* back from day d, or from a later day to d or to an earlier one          *)
Overnight(X, d) ==
    {x \in X : /\ Day(x.now) <= d /\ d <= Day(x.newest)
               /\ Day(x.now) < Day(x.newest)}

(* The tokens charged for one day, across all conversations of the actor.  *)
(* The rows know one date, so a call that was sampled before midnight and  *)
(* charged after a newer one makes them forget the new day, and the next   *)
(* call the old one: the limit is not kept then, but every such call is    *)
(* worth one limit more at most, and without one the limit holds           *)
(* (_reserve_usage).                                                       *)
DailyBudgetHolds ==
    \A d \in 0..Day(MaxTime) :
       MapThenSumSet(LAMBDA x : x.cost, ChargedOn(d))
         <= DailyLimit * (1 + Cardinality(Overnight(charges, d)))

(* Each conversation keeps a window of its own, which any call of the      *)
(* actor moves, and its requests are forgotten when that window ends.      *)
(* Within one window length an actor therefore gets what the windows allow *)
(* together, plus what the windows of the conversations that it used then  *)
(* held when they ended, plus the calls that were overtaken: those are     *)
(* charged to windows that began after them, or begin one in the past      *)
(* (_reserve_usage).                                                       *)
RequestsPerWindow ==
    \A t \in Times :
       LET burst == {x \in charges : x.now \in t..(t + Window - 1)}
       IN Cardinality(burst)
            <= MaxRequests * (Cardinality({x.conversation : x \in burst}) + 1)
                 + Cardinality({x \in burst : Late(x)})

(* What the two limits of the SSP assistant are worth for what it really   *)
(* charged, in whatever order calls are sampled, overtake each other,      *)
(* reserve, are refused, fail and cross midnight (_reserve_usage).         *)
BudgetHolds == DailyBudgetHolds /\ RequestsPerWindow
=============================================================================
