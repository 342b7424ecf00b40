--------------------------- MODULE ModelRuntime ---------------------------
(* The model adapter that the SSP steps share (ssp_workspace/              *)
(* model_runtime.py): at most MaxSlots calls at a time, one client that    *)
(* the first call builds under a lock, a deadline for each call, and a     *)
(* close that waits for the admitted calls before it closes the client.    *)
(* The vision adapter is another instance of the same class.               *)
(*                                                                         *)
(* A semaphore of asyncio serves its waiters in order: a process joins the *)
(* queue and Grant hands a free slot to the head.                          *)
EXTENDS Integers, Sequences, FiniteSets

CONSTANTS
  Calls,     \* tasks that call the adapter, one call at a time
  Closers,   \* tasks that call aclose
  MaxSlots   \* MAX_CONCURRENT_MODEL_CALLS

ASSUME RuntimeAssumption ==
  MaxSlots \in Nat \ {0} /\ Calls \cap Closers = {}

VARIABLES
  call,      \* where each call is
  closer,    \* where each close is
  held,      \* slots that each close has acquired
  queue,     \* waiters of the semaphore
  closed,    \* _closed
  client     \* the shared client: "none", "open" or "closed"

runtimeVars == <<call, closer, held, queue, closed, client>>

\* phases of a call that hold a slot
Holding == {"admitted", "building", "running"}

SlotsTyped ==
  /\ call \in [Calls -> {"idle", "waiting"} \cup Holding]
  /\ closer \in [Closers -> {"idle", "locking", "draining", "closing", "done",
                             "cancelled"}]
  /\ held \in [Closers -> 0..MaxSlots]
  /\ closed \in BOOLEAN
  /\ client \in {"none", "open", "closed"}

RuntimeTypeOK ==
  SlotsTyped /\ \A i \in DOMAIN queue : queue[i] \in Calls \cup Closers

\* __init__
RuntimeInit ==
  /\ call = [c \in Calls |-> "idle"]
  /\ closer = [k \in Closers |-> "idle"]
  /\ held = [k \in Closers |-> 0]
  /\ queue = <<>> /\ closed = FALSE /\ client = "none"

\* who holds which slots: a call one, a close one after the other
CallSlots == {c \in Calls : call[c] \in Holding}
CloserSlots == {s \in Closers \X (1..MaxSlots) : s[2] <= held[s[1]]}

Free == MaxSlots - Cardinality(CallSlots) - Cardinality(CloserSlots)

\* _initialization: held across an await while the client is built or closed
InitializationFree ==
  /\ \A c \in Calls : call[c] # "building"
  /\ \A k \in Closers : closer[k] # "closing"

\* __call__, once the policy and the prompt budget have let it through
Ask(c) ==
  /\ call[c] = "idle"
  /\ call' = [call EXCEPT ![c] = "waiting"]
  /\ queue' = Append(queue, c)
  /\ UNCHANGED <<closer, held, closed, client>>

\* _slots: the head of the queue gets a free slot
Grant ==
  /\ queue # <<>> /\ Free > 0
  /\ queue' = Tail(queue)
  /\ LET p == Head(queue)
     IN  IF p \in Calls
         THEN call' = [call EXCEPT ![p] = "admitted"] /\ UNCHANGED held
         ELSE held' = [held EXCEPT ![p] = @ + 1] /\ UNCHANGED call
  /\ UNCHANGED <<closer, closed, client>>

\* _resolve_model: a second call finds the model that the first one built
Resolve(c) ==
  /\ call[c] = "admitted" /\ InitializationFree /\ ~closed
  /\ call' = [call EXCEPT ![c] = IF client = "none" THEN "building" ELSE "running"]
  /\ UNCHANGED <<closer, held, queue, closed, client>>

\* the client exists from here on, whether or not a close has begun
Built(c) ==
  /\ call[c] = "building"
  /\ client' = "open"
  /\ call' = [call EXCEPT ![c] = "running"]
  /\ UNCHANGED <<closer, held, queue, closed>>

\* the call is over: its slot and its place in the queue are given back
Leave(c) ==
  /\ call' = [call EXCEPT ![c] = "idle"]
  /\ queue' = SelectSeq(queue, LAMBDA p : p # c)
  /\ UNCHANGED <<closer, held, closed, client>>

\* run_structured_step returns text that satisfies the output schema
Answer(c) == call[c] = "running" /\ Leave(c)

\* an admitted call sees that the runtime is closed
Refused(c) == call[c] = "admitted" /\ InitializationFree /\ closed /\ Leave(c)

\* credentials or configuration are missing, or the response is truncated,
\* refused, too long or off schema
Errs(c) == call[c] \in {"building", "running"} /\ Leave(c)

(* Mutant: the deadline covers the request only, not the wait or the build. *)
ExpiresRunning(c) == call[c] = "running" /\ Leave(c)

\* asyncio.timeout around the slot, the client and the request
Expires(c) == call[c] \in {"waiting"} \cup Holding /\ Leave(c)

\* how a call may end without an answer
Fails(c) == Refused(c) \/ Errs(c) \/ Expires(c)

\* aclose: the flag is set before anything is awaited
CloseBegins(k) ==
  /\ closer[k] = "idle"
  /\ closed' = TRUE
  /\ closer' = [closer EXCEPT ![k] = "locking"]
  /\ UNCHANGED <<call, held, queue, client>>

\* _shutdown, and the first slot is asked for
LockShutdown(k) ==
  /\ closer[k] = "locking"
  /\ \A j \in Closers : closer[j] \notin {"draining", "closing"}
  /\ closer' = [closer EXCEPT ![k] = "draining"]
  /\ queue' = Append(queue, k)
  /\ UNCHANGED <<call, held, closed, client>>

\* the next slot is asked for once the last one was granted
DrainNext(k) ==
  /\ closer[k] = "draining" /\ held[k] < MaxSlots
  /\ k \notin {queue[i] : i \in DOMAIN queue}
  /\ queue' = Append(queue, k)
  /\ UNCHANGED <<call, closer, held, closed, client>>

(* Mutant: the drain is one slot short. *)
DrainedButOne(k) ==
  /\ closer[k] = "draining" /\ held[k] >= MaxSlots - 1 /\ InitializationFree
  /\ closer' = [closer EXCEPT ![k] = "closing"]
  /\ UNCHANGED <<call, held, queue, closed, client>>

\* every admitted call is over, and the initialization lock is free
Drained(k) ==
  /\ closer[k] = "draining" /\ held[k] = MaxSlots /\ InitializationFree
  /\ closer' = [closer EXCEPT ![k] = "closing"]
  /\ UNCHANGED <<call, held, queue, closed, client>>

\* the client is closed and the slots are given back
CloseClient(k) ==
  /\ closer[k] = "closing"
  /\ client' = IF client = "open" THEN "closed" ELSE client
  /\ closer' = [closer EXCEPT ![k] = "done"]
  /\ held' = [held EXCEPT ![k] = 0]
  /\ UNCHANGED <<call, queue, closed>>

\* the shutdown task is cancelled: the slots are given back all the same
CancelClose(k) ==
  /\ closer[k] \in {"locking", "draining", "closing"}
  /\ closer' = [closer EXCEPT ![k] = "cancelled"]
  /\ held' = [held EXCEPT ![k] = 0]
  /\ queue' = SelectSeq(queue, LAMBDA p : p # k)
  /\ UNCHANGED <<call, closed, client>>

CloseStep(k) ==
  CloseBegins(k) \/ LockShutdown(k) \/ DrainNext(k) \/ Drained(k)
    \/ CloseClient(k) \/ CancelClose(k)

\* the steps of the adapter that no caller sees
RuntimeStep ==
  \/ Grant
  \/ \E c \in Calls : Resolve(c) \/ Built(c)
  \/ \E k \in Closers : CloseStep(k)
=============================================================================
