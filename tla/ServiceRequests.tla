--------------------------- MODULE ServiceRequests ---------------------------
(***************************************************************************)
(* What every portal request goes through: the login and session rows      *)
(* (session_auth.py, auth_router.py, auth_middleware.py, the operator's    *)
(* auth_purge.py), the idempotency records that make a retried mutation    *)
(* safe (idempotency.py), and the system registry (systems.py) as the      *)
(* resource the requests create, archive and list page by page.            *)
(*                                                                         *)
(* A request is three transactions or fewer.  The middleware reads the     *)
(* session row without a lock (Load) and writes last_seen_at (Touch); the  *)
(* handler then runs in a session of its own (Handle), serialised with     *)
(* requests of the same key by an advisory lock held to the commit.  The   *)
(* handler's "now" was sampled before it waited for that lock, at any      *)
(* moment since the principal was attached.                                *)
(*                                                                         *)
(* The client may repeat any request at any time, whether or not it got an *)
(* answer; what the server did and what it said are kept as history.       *)
(***************************************************************************)
EXTENDS Naturals, FiniteSets

CONSTANTS Clients,       \* browser tabs, each with one request at a time
          Actors,        \* subjects the identity provider knows
          Groups,
          GroupsOf,      \* GroupsOf[a]: the groups claim of actor a
          Keys,          \* Idempotency-Key values
          Names,         \* what tells two create-system bodies apart
          ViewersOf,     \* ViewersOf[n]: the viewer_groups of the body named n
          Registered,    \* systems somebody registered at time 0
          PageLimit,     \* limit of a page of systems
          Retention, Idle, Absolute, LoginTtl,   \* in ticks of the clock
          MaxClock, MaxLogins, MaxSystems        \* bounds

ASSUME GroupsOfAssumption == GroupsOf \in [Actors -> SUBSET Groups \ {{}}]
ASSUME ViewersOfAssumption == ViewersOf \in [Names -> SUBSET Groups]
ASSUME RegisteredAssumption == Registered \subseteq 1..MaxSystems
ASSUME NamesAssumption == "none" \notin Names
ASSUME TimesAssumption ==
    /\ {PageLimit, Retention, Idle, Absolute, LoginTtl} \subseteq Nat \ {0}
    /\ {MaxClock, MaxLogins, MaxSystems} \subseteq Nat

VARIABLES clock,
          logins,        \* oidc_login_states: expires_at by token, 0 when no row
          spent,         \* codes the identity provider has exchanged
          sessions,      \* auth_sessions rows
          systems,       \* systems rows
          records,       \* idempotency_records rows
          req,           \* the request of each client
          page,          \* one traversal of the list of systems
          ended,         \* history: sessions whose logout was committed
          served,        \* history: when requests of each session were admitted
          effects,       \* history: mutations committed
          answers        \* history: answers to mutations

registryVars == <<systems, records, effects, answers>>
loginVars    == <<logins, spent>>
vars == <<clock, logins, spent, sessions, systems, records, req, page, ended,
          served, effects, answers>>

Times    == 0..MaxClock + Retention + Absolute + LoginTtl
Tokens   == 1..MaxLogins
Systems  == 1..MaxSystems
Ops      == {"systems.create", "systems.archive"}

(* A digest of the normalised request: the create body or the system id.   *)
Digests  == [name : Names, owner : Groups] \cup [system : Systems]

(* The models AuthSession, System and IdempotencyRecord; an actor's session *)
(* is named by the login it came from.                                      *)
NoSession == [actor |-> "none", seen |-> 0, absolute |-> 0]
Session   == [actor : Actors, seen : 0..MaxClock, absolute : Times]
NoSystem  == [name |-> "none", owner |-> "none", created |-> 0, archived |-> 0]
System    == [name : Names, owner : Groups, created : 0..MaxClock,
              archived : 0..MaxClock + 1]      \* 0: not archived, else time + 1
Record    == [actor : Actors, op : Ops, key : Keys, digest : Digests,
              body : Systems, expires : Times]

(* A request holds the session row it read, later the principal, and while *)
(* it archives, the advisory lock of its key and the row it read.          *)
Free       == [at |-> "free", of |-> 0, actor |-> "none", now |-> 0, key |-> "none",
               system |-> 0, was |-> 0]
Request    == [at : {"free", "loaded", "admitted", "callback", "archiving"},
               of : Tokens \cup {0}, actor : Actors \cup {"none"}, now : 0..MaxClock,
               key : Keys \cup {"none"}, system : Systems \cup {0}, was : 0..MaxClock + 1]
NoPage     == [actor |-> "none", all |-> FALSE, after |-> <<0, 0>>, due |-> {},
               listed |-> {}, again |-> FALSE]

TypeOK ==
    /\ clock \in 0..MaxClock
    /\ logins \in [Tokens -> Times]
    /\ spent \subseteq Tokens
    /\ sessions \in [Tokens -> Session \cup {NoSession}]
    /\ systems \in [Systems -> System \cup {NoSystem}]
    /\ records \subseteq Record
    /\ req \in [Clients -> Request]
    /\ page.due \cup page.listed \subseteq Systems
    /\ ended \subseteq Tokens
    /\ served \in [Tokens -> SUBSET (0..MaxClock)]
    /\ effects \subseteq [actor : Actors, op : Ops, key : Keys, digest : Digests,
                          body : Systems, now : 0..MaxClock]
    /\ answers \subseteq [actor : Actors, op : Ops, key : Keys, digest : Digests,
                          body : Systems]

Init ==
    /\ clock = 0
    /\ logins = [t \in Tokens |-> 0]
    /\ spent = {}
    /\ sessions = [t \in Tokens |-> NoSession]
    /\ systems \in [Systems -> {x \in System : x.created = 0 /\ x.archived = 0} \cup {NoSystem}]
    /\ \A s \in Systems : systems[s] # NoSystem <=> s \in Registered
    /\ records = {}
    /\ req = [c \in Clients |-> Free]
    /\ page = NoPage
    /\ ended = {}
    /\ served = [t \in Tokens |-> {}]
    /\ effects = {}
    /\ answers = {}

-----------------------------------------------------------------------------
(* Login and callback                                                      *)

(* get_auth_login and create_oidc_login_state                              *)
BeginLogin(t) ==
    /\ t \notin spent /\ logins[t] = 0 /\ sessions[t] = NoSession /\ served[t] = {}
    /\ logins' = [logins EXCEPT ![t] = clock + LoginTtl]
    /\ UNCHANGED <<clock, spent, sessions, req, page, ended, served>>
    /\ UNCHANGED registryVars

(* consume_oidc_login_state reads the row; the deletion it flushes takes   *)
(* the row lock and is committed with the session or rolled back.          *)
ReadLogin(c, t) ==
    /\ req[c] = Free
    /\ logins[t] # 0 /\ clock < logins[t]
    /\ req' = [req EXCEPT ![c] = [@ EXCEPT !.at = "callback", !.of = t, !.now = clock]]
    /\ UNCHANGED <<clock, sessions, page, ended, served>>
    /\ UNCHANGED loginVars /\ UNCHANGED registryVars

(* exchange_code_for_identity: the provider exchanges a code once.         *)
Exchange(t, a) == t \notin spent /\ a \in Actors

(* create_auth_session                                                     *)
NewSession(a, now) == [actor |-> a, seen |-> now, absolute |-> now + Absolute]

(* get_auth_callback after the login state was read; a duplicate callback  *)
(* finds no row to delete, which SQLAlchemy only warns of, and then a code *)
(* that is spent.                                                          *)
Callback(c) ==
    /\ req[c].at = "callback"
    /\ req' = [req EXCEPT ![c] = Free]
    /\ LET t == req[c].of IN
       \/ \E a \in Actors :
            /\ Exchange(t, a)
            /\ spent' = spent \cup {t}
            /\ logins' = [logins EXCEPT ![t] = 0]
            /\ sessions' = [sessions EXCEPT ![t] = NewSession(a, clock)]
            /\ served' = [served EXCEPT ![t] = {clock}]
       \/ /\ ~ \E a \in Actors : Exchange(t, a)
          /\ UNCHANGED <<logins, spent, sessions, served>>
    /\ UNCHANGED <<clock, page, ended>> /\ UNCHANGED registryVars

-----------------------------------------------------------------------------
(* The session middleware                                                  *)

(* load_valid_session                                                      *)
Valid(row, now) == /\ row # NoSession
                   /\ now < row.absolute
                   /\ now < row.seen + Idle

(* dispatch: a request without a valid session is anonymous and every      *)
(* route of the API refuses it.  The row of an expired session is deleted  *)
(* and the deletion is rolled back, so only the refusal is left (and an    *)
(* audit event that calls the session revoked).                            *)
Load(c, t) ==
    /\ req[c] = Free
    /\ Valid(sessions[t], clock)
    /\ req' = [req EXCEPT ![c] =
          [@ EXCEPT !.at = "loaded", !.of = t, !.actor = sessions[t].actor, !.now = clock]]
    /\ UNCHANGED <<clock, sessions, page, ended, served>>
    /\ UNCHANGED loginVars /\ UNCHANGED registryVars

(* Mutant: the row is written whether or not it still exists.              *)
TouchUpserts(c) ==
    LET t == req[c].of IN
    /\ req[c].at = "loaded"
    /\ sessions' = [sessions EXCEPT ![t] =
          [actor |-> req[c].actor, seen |-> req[c].now, absolute |-> req[c].now + Absolute]]
    /\ served' = [served EXCEPT ![t] = @ \cup {req[c].now}]
    /\ req' = [req EXCEPT ![c] = [@ EXCEPT !.at = "admitted", !.now = clock]]
    /\ UNCHANGED <<clock, page, ended>>
    /\ UNCHANGED loginVars /\ UNCHANGED registryVars

(* last_seen_at is written and committed: the UPDATE of a row that was     *)
(* deleted since fails the request, and of two requests the later commit   *)
(* wins, whichever was sampled first.                                      *)
Touch(c) ==
    LET t == req[c].of IN
    /\ req[c].at = "loaded"
    /\ \/ /\ sessions[t] # NoSession
          /\ sessions' = [sessions EXCEPT ![t].seen = req[c].now]
          /\ served' = [served EXCEPT ![t] = @ \cup {req[c].now}]
          /\ req' = [req EXCEPT ![c] = [@ EXCEPT !.at = "admitted", !.now = clock]]
       \/ /\ sessions[t] = NoSession
          /\ req' = [req EXCEPT ![c] = Free]
          /\ UNCHANGED <<sessions, served>>
    /\ UNCHANGED <<clock, page, ended>>
    /\ UNCHANGED loginVars /\ UNCHANGED registryVars

-----------------------------------------------------------------------------
(* Idempotent mutations                                                    *)

RecordsOf(a, op, k) == {r \in records : r.actor = a /\ r.op = op /\ r.key = k}

(* Mutant: a record is dropped in the tick before it expires.              *)
ExpiredEarly(r, now) == r.expires <= now + 1

(* load_idempotency_replay and record_idempotency_outcome                  *)
Expired(r, now) == r.expires <= now
Replay(a, op, k, d, now) ==
    {r \in RecordsOf(a, op, k) : ~Expired(r, now) /\ r.digest = d}
Outcome(a, op, k, d, s, now) ==
    [actor |-> a, op |-> op, key |-> k, digest |-> d, body |-> s,
     expires |-> now + Retention]

Conflict(a, op, k, d, now) ==
    \E r \in RecordsOf(a, op, k) : ~Expired(r, now) /\ r.digest # d

Answer(a, op, k, d, s) ==
    answers' = answers \cup {[actor |-> a, op |-> op, key |-> k, digest |-> d, body |-> s]}

(* The mutation, its record and the removal of an expired one are one      *)
(* commit.                                                                 *)
Commit(a, op, k, d, s, now) ==
    /\ records' = (records \ RecordsOf(a, op, k)) \cup {Outcome(a, op, k, d, s, now)}
    /\ effects' = effects \cup {[actor |-> a, op |-> op, key |-> k, digest |-> d,
                                 body |-> s, now |-> now]}
    /\ Answer(a, op, k, d, s)

(* require_system_mutation_access and require_system_read_access           *)
MayMutate(a, owner) == owner \in GroupsOf[a]
MayRead(a, s) == MayMutate(a, systems[s].owner)
                 \/ ViewersOf[systems[s].name] \cap GroupsOf[a] # {}

(* The advisory lock of (principal, operation, key)                        *)
KeyIsFree(a, k) == \A c \in Clients :
    req[c].at = "archiving" => ~(req[c].actor = a /\ req[c].key = k)

(* create_system; bodies that fail _validate_create_system_inputs are      *)
(* refused before anything is read                                         *)
CreateSystem(c) ==
    LET a == req[c].actor
        op == "systems.create"
    IN /\ req[c].at = "admitted"
       /\ \E k \in Keys, n \in Names, g \in Groups, now \in req[c].now..clock :
            LET d == [name |-> n, owner |-> g] IN
            /\ MayMutate(a, g)
            /\ \/ \E r \in Replay(a, op, k, d, now) :
                    /\ Answer(a, op, k, d, r.body)
                    /\ UNCHANGED <<systems, records, effects>>
               \/ /\ Replay(a, op, k, d, now) = {} /\ ~Conflict(a, op, k, d, now)
                  /\ \E s \in Systems :
                       /\ systems[s] = NoSystem
                       /\ systems' = [systems EXCEPT ![s] =
                             [name |-> n, owner |-> g, created |-> now, archived |-> 0]]
                       /\ Commit(a, op, k, d, s, now)
       /\ req' = [req EXCEPT ![c] = Free]
       /\ UNCHANGED <<clock, sessions, page, ended, served>> /\ UNCHANGED loginVars

(* archive_system up to the read of the row, which takes no lock           *)
ReplayArchive(c) ==
    LET a == req[c].actor
        op == "systems.archive"
    IN /\ req[c].at = "admitted"
       /\ \E k \in Keys, s \in Systems, now \in req[c].now..clock :
            /\ KeyIsFree(a, k)
            /\ \E r \in Replay(a, op, k, [system |-> s], now) :
                 Answer(a, op, k, [system |-> s], r.body)
       /\ req' = [req EXCEPT ![c] = Free]
       /\ UNCHANGED <<clock, sessions, page, ended, served, systems, records, effects>>
       /\ UNCHANGED loginVars

ReadArchive(c) ==
    LET a == req[c].actor
        op == "systems.archive"
    IN /\ req[c].at = "admitted"
       /\ \E k \in Keys, s \in Systems, now \in req[c].now..clock :
            /\ KeyIsFree(a, k)
            /\ Replay(a, op, k, [system |-> s], now) = {}
            /\ ~Conflict(a, op, k, [system |-> s], now)
            /\ systems[s] # NoSystem /\ MayMutate(a, systems[s].owner)
            /\ req' = [req EXCEPT ![c] = [@ EXCEPT !.at = "archiving", !.now = now, !.key = k,
                                             !.system = s, !.was = systems[s].archived]]
       /\ UNCHANGED <<clock, sessions, page, ended, served>>
       /\ UNCHANGED loginVars /\ UNCHANGED registryVars

(* The rest of archive_system: a system read as archived is only answered  *)
(* for, and of two archives that both read it as open the second           *)
(* overwrites archived_at.                                                 *)
Archive(c) ==
    LET q == req[c] IN
    /\ q.at = "archiving"
    /\ systems' = [systems EXCEPT ![q.system].archived = IF q.was = 0 THEN q.now + 1 ELSE @]
    /\ Commit(q.actor, "systems.archive", q.key, [system |-> q.system], q.system, q.now)
    /\ req' = [req EXCEPT ![c] = Free]
    /\ UNCHANGED <<clock, sessions, page, ended, served>> /\ UNCHANGED loginVars

(* A request that is refused, fails or dies with the process commits       *)
(* nothing more.                                                           *)
Refuse(c) ==
    /\ req[c] # Free
    /\ req' = [req EXCEPT ![c] = Free]
    /\ UNCHANGED <<clock, sessions, page, ended, served>>
    /\ UNCHANGED loginVars /\ UNCHANGED registryVars

-----------------------------------------------------------------------------
(* The list of systems, page by page                                       *)

(* The order of the pages, and of the cursor that names the last row shown *)
Position(s) == <<systems[s].created, s>>
(* Mutant: the cursor compares the creation time alone.                    *)
AfterTime(p, q) == q[1] > p[1]
After(p, q) == q[1] > p[1] \/ (q[1] = p[1] /\ q[2] > p[2])

(* _list_systems_select_statement                                          *)
Listed(a, all) ==
    {s \in Systems : /\ systems[s] # NoSystem /\ MayRead(a, s)
                     /\ all \/ systems[s].archived = 0}
Rest(a, all, p) == {s \in Listed(a, all) : After(p, Position(s))}

(* The first page of a traversal starts before every row.                  *)
OpenList(c) ==
    /\ req[c].at = "admitted" /\ page = NoPage
    /\ \E all \in BOOLEAN :
         page' = [NoPage EXCEPT !.actor = req[c].actor, !.all = all,
                                !.due = Listed(req[c].actor, all)]
    /\ UNCHANGED <<clock, sessions, req, ended, served>>
    /\ UNCHANGED loginVars /\ UNCHANGED registryVars

(* list_systems: one page of at most PageLimit rows and the next cursor    *)
ListPage(c) ==
    LET a == page.actor
        rest == Rest(a, page.all, page.after)
        Shown(rows) == /\ rows \subseteq rest
                       /\ Cardinality(rows) = IF Cardinality(rest) < PageLimit
                                              THEN Cardinality(rest) ELSE PageLimit
                       /\ \A s \in rows, t \in rest \ rows : After(Position(s), Position(t))
    IN /\ req[c].at = "admitted" /\ page # NoPage /\ req[c].actor = a
       /\ \E rows \in SUBSET rest :
            /\ Shown(rows)
            /\ page' = IF rows # rest
                       THEN [page EXCEPT
                               !.after = CHOOSE p \in {Position(s) : s \in rows} :
                                           \A s \in rows : ~After(p, Position(s)),
                               !.listed = @ \cup rows,
                               !.again = @ \/ rows \cap page.listed # {}]
                       ELSE NoPage
       /\ req' = [req EXCEPT ![c] = Free]
       /\ UNCHANGED <<clock, sessions, ended, served>>
       /\ UNCHANGED loginVars /\ UNCHANGED registryVars

-----------------------------------------------------------------------------
(* Logout, the operator's purge, time                                      *)

(* post_auth_logout and delete_auth_session                                *)
Logout(c) ==
    LET t == req[c].of IN
    /\ req[c].at = "admitted"
    /\ sessions' = [sessions EXCEPT ![t] = NoSession]
    /\ ended' = ended \cup {t}
    /\ req' = [req EXCEPT ![c] = Free]
    /\ UNCHANGED <<clock, page, served>>
    /\ UNCHANGED loginVars /\ UNCHANGED registryVars

(* purge_expired_auth_artifacts                                            *)
Purge ==
    /\ sessions' = [t \in Tokens |-> IF sessions[t].absolute <= clock THEN NoSession
                                     ELSE sessions[t]]
    /\ logins' = [t \in Tokens |-> IF logins[t] <= clock THEN 0 ELSE logins[t]]
    /\ <<sessions', logins'>> # <<sessions, logins>>
    /\ UNCHANGED <<clock, spent, req, page, ended, served>>
    /\ UNCHANGED registryVars

Tick ==
    /\ clock < MaxClock
    /\ clock' = clock + 1
    /\ UNCHANGED <<sessions, req, page, ended, served>>
    /\ UNCHANGED loginVars /\ UNCHANGED registryVars

Next ==
    \/ Tick \/ Purge
    \/ \E t \in Tokens : BeginLogin(t)
    \/ \E c \in Clients :
         \/ \E t \in Tokens : ReadLogin(c, t) \/ Load(c, t)
         \/ Callback(c) \/ Touch(c) \/ CreateSystem(c) \/ ReplayArchive(c) \/ ReadArchive(c)
         \/ Archive(c) \/ Refuse(c) \/ OpenList(c) \/ ListPage(c) \/ Logout(c)

Spec == Init /\ [][Next]_vars

-----------------------------------------------------------------------------
(* Properties                                                              *)

(* However often and from however many tabs a mutation is repeated, and    *)
(* however long a repetition waited for the advisory lock, one key of one  *)
(* actor has one effect within the retention: two effects are at least the *)
(* retention apart by the times the handlers took.                         *)
OneEffectPerKey ==
    \A e, f \in effects :
      (e.actor = f.actor /\ e.op = f.op /\ e.key = f.key /\ e # f) =>
        e.now >= f.now + Retention \/ f.now >= e.now + Retention

(* Every answer, given at once or replayed after another request expired   *)
(* and replaced the record, is the outcome of that actor's own request,    *)
(* and names a system that still is what the request asked for.            *)
AnswersAreOwn ==
    \A x \in answers :
      /\ \E e \in effects : /\ e.actor = x.actor /\ e.op = x.op /\ e.key = x.key
                            /\ e.digest = x.digest /\ e.body = x.body
      /\ x.op = "systems.create" =>
           systems[x.body].name = x.digest.name /\ systems[x.body].owner = x.digest.owner
      /\ x.op = "systems.archive" => systems[x.body].archived # 0

(* A session that was logged out stays out although requests that loaded   *)
(* it before may write last_seen_at after, and no request is admitted at   *)
(* or after the absolute deadline or an idle period after the last one.    *)
SessionsEnd ==
    \A t \in Tokens :
      /\ t \in ended => sessions[t] = NoSession
      /\ \A n \in served[t] : \E m \in served[t] :
           /\ \A x \in served[t] : m <= x
           /\ n < m + Absolute
           /\ n > m => \E x \in served[t] : x < n /\ n < x + Idle

(* A traversal of the list shows no system twice and, when it ends, has    *)
(* shown every system that could be listed when it began and still can,    *)
(* although systems are created and archived between its pages.            *)
PagesAreComplete ==
    [][/\ ~page'.again
       /\ (page # NoPage /\ page' = NoPage) =>
            \A s \in page.due : \/ s \in page.listed
                                \/ s \in Rest(page.actor, page.all, page.after)
                                \/ s \notin Listed(page.actor, page.all)]_vars

(* A repeated mutation is one mutation: it has one effect, and every       *)
(* answer about it is the outcome of that effect (idempotency.py).         *)
RepeatsAreIdempotent == OneEffectPerKey /\ AnswersAreOwn
=============================================================================
