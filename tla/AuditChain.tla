----------------------------- MODULE AuditChain -----------------------------
(***************************************************************************)
(* The append-only audit chain (ato_service/audit.py) and its verifier     *)
(* (ato_service/audit_chain_verify.py).                                    *)
(*                                                                         *)
(* Every mutation of the service appends audit events in its own database  *)
(* transaction.  An append takes a transaction-scoped advisory lock, reads *)
(* the latest event and stores an event that carries that event's hash.    *)
(* "Latest" means the greatest (occurred_at, audit_event_id): the time was *)
(* sampled by the caller before it waited for the lock, and the identifier *)
(* is a random UUID.  The verifier walks the stored events in the same     *)
(* order, batch by batch, while other transactions commit, and expects     *)
(* each to carry the hash of the one before.                               *)
(*                                                                         *)
(* The hash of an event is injective and is represented by the event's     *)
(* identifier.  Rows are never altered: HMAC mismatches, which only an     *)
(* altered row or a wrong key can produce, are out of the model.           *)
(*                                                                         *)
(* Nothing makes an append carry the newest time: an event may sort before *)
(* the one whose hash it carries, when its caller sampled the clock before *)
(* and got the lock after another, or got a lower identifier for the same  *)
(* time.                                                                   *)
(***************************************************************************)
EXTENDS Naturals, FiniteSets

CONSTANTS
    Txns,        \* transactions that append events
    Ids,         \* audit_event_id values, ordered as uuid columns are
    Genesis,     \* GENESIS_PREVIOUS_EVENT_HASH
    Nobody,      \* nobody holds the advisory lock
    NoEvent,     \* the verifier has read nothing yet
    BatchSize,   \* rows the verifier reads per query
    MaxTime      \* bound on the clock

Event == [id : Ids, at : Nat, previous : Ids \cup {Genesis}]

ASSUME IdsAssumption == Ids \subseteq Nat /\ Genesis \notin Ids
ASSUME OwnersAssumption == Nobody \notin Txns /\ NoEvent \notin Event
ASSUME BoundsAssumption == BatchSize \in Nat \ {0} /\ MaxTime \in Nat

VARIABLES
    now,       \* the clock every process reads
    chain,     \* committed rows of audit_events
    txn,       \* per transaction: its phase, sampled time and uncommitted rows
    lock,      \* holder of AUDIT_CHAIN_ADVISORY_LOCK_ID
    verifier   \* one run of verify_audit_chain_session

chainVars == <<now, chain, txn, lock, verifier>>

Transaction == [phase : {"idle", "open", "ended"}, at : Nat, own : SUBSET Event]
Verification == [outcome : {"none", "reading", "passed", "chain_break"},
                 last : Event \cup {NoEvent},
                 found : SUBSET Event]    \* history: the rows when it started

(* ORDER BY occurred_at, audit_event_id *)
Before(e, o) == e.at < o.at \/ (e.at = o.at /\ e.id < o.id)

(* What a statement of transaction t sees under READ COMMITTED. *)
Visible(t) == chain \cup txn[t].own

UsedIds == {e.id : e \in chain \cup UNION {txn[t].own : t \in Txns}}

LockFree(t) == lock \in {Nobody, t}

(* The hash of the last of the rows (one value: the order is total), or    *)
(* the genesis hash if there are none.                                     *)
LastHash(rows) ==
    {e.id : e \in {l \in rows : \A o \in rows : ~ Before(l, o)}}
        \cup {g \in {Genesis} : rows = {}}

(* Mutant: pending rows are not flushed before the query.                  *)
LatestCommittedHash(t) == LastHash(chain)

(* What _load_latest_audit_event_statement can yield                       *)
LatestHash(t) == LastHash(Visible(t))

ChainInit ==
    /\ now = 0
    /\ chain = {}
    /\ txn = [t \in Txns |-> [phase |-> "idle", at |-> 0, own |-> {}]]
    /\ lock = Nobody
    /\ verifier = [outcome |-> "none", last |-> NoEvent, found |-> {}]

-----------------------------------------------------------------------------
Tick ==
    /\ now < MaxTime
    /\ now' = now + 1
    /\ UNCHANGED <<chain, txn, lock, verifier>>

(* The caller samples the clock: once per request, or again before a later *)
(* append of the same transaction.                                         *)
Sample(t) ==
    /\ txn[t].phase \in {"idle", "open"}
    /\ txn' = [txn EXCEPT ![t].phase = "open", ![t].at = now]
    /\ UNCHANGED <<now, chain, lock, verifier>>

(* Mutant: a transaction keeps one pending event.                          *)
AppendReplacingPending(t) ==
    /\ txn[t].phase = "open"
    /\ LockFree(t)
    /\ \E id \in Ids \ UsedIds, hash \in LatestHash(t) :
         txn' = [txn EXCEPT ![t].own =
                   {[id |-> id, at |-> txn[t].at, previous |-> hash]}]
    /\ lock' = t
    /\ UNCHANGED <<now, chain, verifier>>

AppendEvent(t) ==
    /\ txn[t].phase = "open"
    /\ LockFree(t)
    /\ \E id \in Ids \ UsedIds, hash \in LatestHash(t) :
         txn' = [txn EXCEPT ![t].own =
                   @ \cup {[id |-> id, at |-> txn[t].at, previous |-> hash]}]
    /\ lock' = t
    /\ UNCHANGED <<now, chain, verifier>>

(* The end of a transaction releases its advisory locks. *)
Released(t) == IF lock = t THEN Nobody ELSE lock

Commit(t) ==
    /\ txn[t].phase = "open"
    /\ chain' = chain \cup txn[t].own
    /\ txn' = [txn EXCEPT ![t].phase = "ended", ![t].own = {}]
    /\ lock' = Released(t)
    /\ UNCHANGED <<now, verifier>>

(* An error or a crash: the rows of the transaction never existed. *)
Rollback(t) ==
    /\ txn[t].phase = "open"
    /\ txn' = [txn EXCEPT ![t].phase = "ended", ![t].own = {}]
    /\ lock' = Released(t)
    /\ UNCHANGED <<now, chain, verifier>>

-----------------------------------------------------------------------------
VerifyStart ==
    /\ verifier.outcome = "none"
    /\ verifier' = [verifier EXCEPT !.outcome = "reading", !.found = chain]
    /\ UNCHANGED <<now, chain, txn, lock>>

(* Rows after the cursor, at most BatchSize of them, lowest first. *)
Unread == {e \in chain : verifier.last = NoEvent \/ Before(verifier.last, e)}
Batch == {e \in Unread : Cardinality({o \in Unread : Before(o, e)}) < BatchSize}

(* The hash the verifier expects e to carry: that of the row before it in  *)
(* this batch, else that of the last row of the batch before.              *)
Preceding(e) == {o \in Batch \cup ({verifier.last} \ {NoEvent}) : Before(o, e)}
Expected(e) == LastHash(Preceding(e))

VerifyBatch ==
    /\ verifier.outcome = "reading"
    /\ \/ /\ Unread = {}
          /\ verifier' = [verifier EXCEPT !.outcome = "passed"]
       \/ \E e \in Batch :
            /\ e.previous \notin Expected(e)
            /\ verifier' = [verifier EXCEPT !.outcome = "chain_break"]
       \/ /\ \A e \in Batch : e.previous \in Expected(e)
          /\ \E e \in Batch :
               /\ \A o \in Batch : ~ Before(e, o)
               /\ verifier' = [verifier EXCEPT !.last = e]
    /\ UNCHANGED <<now, chain, txn, lock>>

TransactionStep(t) == Sample(t) \/ AppendEvent(t) \/ Commit(t) \/ Rollback(t)

ChainNext == Tick \/ VerifyStart \/ VerifyBatch \/ \E t \in Txns : TransactionStep(t)

ChainSpec == ChainInit /\ [][ChainNext]_chainVars

-----------------------------------------------------------------------------
(* Rows, transactions, lock and verifier have the shapes of the code, and  *)
(* rows that are not committed yet are the lock holder's.                  *)
ChainTypeOK ==
    /\ now \in 0..MaxTime
    /\ chain \subseteq Event
    /\ txn \in [Txns -> Transaction]
    /\ lock \in Txns \cup {Nobody}
    /\ verifier \in Verification
    /\ \A t \in Txns : txn[t].own # {} => lock = t

(* "Concurrent genesis appends cannot observe an empty table without       *)
(* serialization": whatever transactions roll back and in whatever order   *)
(* the lock is granted, at most one stored event starts the chain.         *)
OneGenesis ==
    \A e, o \in chain : e.previous = Genesis /\ o.previous = Genesis => e = o

(* Every stored event carries the genesis hash or the hash of an event     *)
(* that is stored too, never of one that was rolled back.                  *)
LinksResolve ==
    \A e \in chain : e.previous # Genesis => \E o \in chain : o.id = e.previous

(* An event that sorts before the one whose hash it carries                *)
OutOfOrder(e) == \E p \in chain : p.id = e.previous /\ Before(e, p)

(* Of rows nobody altered, the verifier reports a break only when an event *)
(* was stored out of order: rollbacks, the order of the lock, the edges of *)
(* its batches and what commits while it reads never cause one.  And it    *)
(* never passes over an event out of order that was there when it started, *)
(* so the first such event makes every later verification fail             *)
(* (append_audit_event, verify_audit_chain_session).                       *)
BreaksAreOutOfOrder ==
    /\ verifier.outcome = "chain_break" => \E e \in chain : OutOfOrder(e)
    /\ verifier.outcome = "passed" => \A e \in verifier.found : ~ OutOfOrder(e)
=============================================================================
