------------------------ MODULE ServiceRequestsProofs ------------------------
(***************************************************************************)
(* Proofs about ServiceRequests for every set of clients, actors, keys and *)
(* bodies and every retention, idle and absolute time: a repeated mutation *)
(* has one effect, its answers are its own, a session that ended stays     *)
(* ended, and a traversal of the list is complete.                         *)
(***************************************************************************)
EXTENDS ServiceRequests, FiniteSetTheorems, WellFoundedInduction, TLAPS

-----------------------------------------------------------------------------
(* The inductive invariant                                                 *)

(* The fields of a traversal; `after' is a position the cursor names.      *)
PageShape ==
    page = [actor |-> page.actor, all |-> page.all, after |-> page.after,
            due |-> page.due, listed |-> page.listed, again |-> page.again]

(* The admissions of a session that was opened at m.                       *)
SessionFrom(t, m) ==
    /\ m \in served[t] /\ \A x \in served[t] : m <= x
    /\ sessions[t] # NoSession =>
         sessions[t].absolute = m + Absolute /\ sessions[t].seen \in served[t]
    /\ \A n \in served[t] : /\ n < m + Absolute
                            /\ n > m => \E x \in served[t] : x < n /\ n < x + Idle

(* A session comes from a code that was spent once, and was admitted only  *)
(* in the past.                                                            *)
TokenOK(t) ==
    /\ t \notin spent => sessions[t] = NoSession /\ served[t] = {} /\ t \notin ended
    /\ t \in spent => \E m \in served[t] : SessionFrom(t, m)
    /\ t \in ended => sessions[t] = NoSession
    /\ \A n \in served[t] : n <= clock

(* What a request relies on between its transactions: the session it       *)
(* loaded was valid at its `now', against times that are still on record.  *)
SessionRequestOK(q) ==
    /\ q.now <= clock
    /\ q.at # "free" => q.of \in Tokens
    /\ q.at \in {"loaded", "admitted", "archiving"} => q.actor \in Actors
    /\ q.at \in {"loaded", "admitted"} => q.of \in spent
    /\ q.at = "loaded" =>
         /\ \E x \in served[q.of] : x <= q.now /\ q.now < x + Idle
         /\ \A m \in served[q.of] :
              (\A x \in served[q.of] : m <= x) => q.now < m + Absolute

SessionInv ==
    /\ \A t \in Tokens : TokenOK(t)
    /\ \A c \in Clients : SessionRequestOK(req[c])

SameKey(x, y) == x.actor = y.actor /\ x.op = y.op /\ x.key = y.key

(* A record outlasts the retention of every effect of its key, and tells   *)
(* of one of them.                                                         *)
RecordsOK ==
    /\ \A e \in effects : \E r \in records :
          SameKey(e, r) /\ e.now + Retention <= r.expires
    /\ \A r \in records : \E e \in effects :
          SameKey(e, r) /\ e.digest = r.digest /\ e.body = r.body

(* The system an effect names is still what it made of it.                 *)
EffectOK(e) ==
    /\ systems[e.body] # NoSystem
    /\ e.op = "systems.create" =>
         systems[e.body].name = e.digest.name /\ systems[e.body].owner = e.digest.owner
    /\ e.op = "systems.archive" => systems[e.body].archived # 0

AnswersOK ==
    \A x \in answers : \E e \in effects :
        SameKey(e, x) /\ e.digest = x.digest /\ e.body = x.body

(* While a request archives it holds the lock of its key, so the records   *)
(* it found expired stay the only ones.                                    *)
ArchiveOK(q) ==
    q.at = "archiving" =>
        /\ q.key \in Keys /\ q.system \in Systems
        /\ systems[q.system] # NoSystem
        /\ q.was # 0 => systems[q.system].archived # 0
        /\ \A r \in records :
              r.actor = q.actor /\ r.op = "systems.archive" /\ r.key = q.key =>
                  r.expires <= q.now

LocksHeldOnce ==
    \A c, d \in Clients :
        /\ req[c].at = "archiving" /\ req[d].at = "archiving"
        /\ req[c].actor = req[d].actor /\ req[c].key = req[d].key
        => c = d

RegistryInv ==
    /\ RecordsOK /\ OneEffectPerKey /\ AnswersOK
    /\ \A e \in effects : EffectOK(e)
    /\ \A c \in Clients : ArchiveOK(req[c])
    /\ LocksHeldOnce

IInv == TypeOK /\ PageShape /\ SessionInv /\ RegistryInv

-----------------------------------------------------------------------------
(* Facts the steps share                                                   *)

LEMMA TimeFacts ==
    /\ MaxClock \in Nat /\ MaxLogins \in Nat /\ MaxSystems \in Nat
    /\ Retention \in Nat \ {0} /\ Idle \in Nat \ {0}
    /\ Absolute \in Nat \ {0} /\ LoginTtl \in Nat \ {0}
    /\ 0 \in Times /\ 0 \notin Tokens
    /\ \A n \in 0..MaxClock : /\ n + Retention \in Times /\ n + Absolute \in Times
                              /\ n + LoginTtl \in Times /\ n \in Nat
  BY TimesAssumption DEF Times, Tokens

LEMMA FreeFacts ==
    /\ Free \in Request /\ Free.at = "free" /\ Free.now = 0
    /\ ArchiveOK(Free)
    /\ TypeOK => SessionRequestOK(Free)
  <1>1. Free \in Request /\ Free.at = "free" /\ Free.now = 0
    BY TimeFacts DEF Free, Request
  <1>2. TypeOK => SessionRequestOK(Free)
    BY <1>1, TimeFacts DEF SessionRequestOK, TypeOK
  <1>3. QED
    BY <1>1, <1>2 DEF ArchiveOK

(* A system that somebody created is not the null row.                     *)
LEMMA CreatedIsSome ==
    ASSUME NEW n \in Names, NEW g, NEW now, NEW a
    PROVE  [name |-> n, owner |-> g, created |-> now, archived |-> a] # NoSystem
  BY NamesAssumption DEF NoSystem

LEMMA OpenedIsSome ==
    ASSUME NEW a \in Actors, NEW now \in 0..MaxClock
    PROVE  /\ NewSession(a, now) # NoSession /\ NewSession(a, now) \in Session
           /\ NewSession(a, now).seen = now /\ NewSession(a, now).absolute = now + Absolute
  <1>1. now + Absolute # 0 /\ now + Absolute \in Times
    BY TimeFacts
  <1>2. QED
    BY <1>1 DEF NewSession, NoSession, Session

(* Steps that leave the sessions and the registry alone.                   *)
LEMMA SessionFrame ==
    ASSUME TypeOK, SessionInv, UNCHANGED <<sessions, spent, ended, served>>,
           clock' \in 0..MaxClock, clock <= clock',
           \A c \in Clients : req'[c] = req[c] \/ SessionRequestOK(req[c])'
    PROVE  SessionInv'
  <1>1. ASSUME NEW t \in Tokens PROVE TokenOK(t)'
    <2>1. \A n \in served[t] : n \in Nat
      BY TimeFacts DEF TypeOK
    <2>2. clock \in Nat /\ clock' \in Nat
      BY TimeFacts DEF TypeOK
    <2>3. QED
      BY <2>1, <2>2 DEF SessionInv, TokenOK, SessionFrom
  <1>2. ASSUME NEW c \in Clients PROVE SessionRequestOK(req[c])'
    <2>1. CASE req'[c] = req[c]
      <3>1. req[c].now \in Nat /\ clock \in Nat /\ clock' \in Nat
        BY TimeFacts DEF TypeOK, Request
      <3>2. QED
        BY <2>1, <3>1 DEF SessionInv, SessionRequestOK
    <2>2. QED
      BY <2>1
  <1>3. QED
    BY <1>1, <1>2 DEF SessionInv

LEMMA RegistryFrame ==
    ASSUME RegistryInv, UNCHANGED registryVars,
           \A c \in Clients : req'[c] = req[c] \/ req'[c].at # "archiving"
    PROVE  RegistryInv'
  <1>1. RecordsOK' /\ OneEffectPerKey' /\ AnswersOK' /\ (\A e \in effects : EffectOK(e))'
    BY DEF RegistryInv, RecordsOK, OneEffectPerKey, AnswersOK, EffectOK, registryVars
  <1>2. \A c \in Clients : ArchiveOK(req[c])'
    BY DEF RegistryInv, ArchiveOK, registryVars
  <1>3. LocksHeldOnce'
    BY DEF RegistryInv, LocksHeldOnce
  <1>4. QED
    BY <1>1, <1>2, <1>3 DEF RegistryInv

-----------------------------------------------------------------------------
LEMMA InitInvariant == Init => IInv
  <1> SUFFICES ASSUME Init PROVE IInv
    OBVIOUS
  <1>1. TypeOK
    BY TimeFacts, FreeFacts DEF Init, TypeOK, NoPage
  <1>2. PageShape
    BY DEF Init, PageShape, NoPage
  <1>3. SessionInv
    <2>1. \A t \in Tokens : TokenOK(t)
      BY DEF Init, TokenOK
    <2>2. QED
      BY <1>1, <2>1, FreeFacts DEF Init, SessionInv
  <1>4. RegistryInv
    <2>1. RecordsOK /\ OneEffectPerKey /\ AnswersOK
      BY DEF Init, RecordsOK, OneEffectPerKey, AnswersOK
    <2>2. LocksHeldOnce
      BY FreeFacts DEF Init, LocksHeldOnce
    <2>3. QED
      BY <2>1, <2>2, FreeFacts DEF Init, RegistryInv
  <1>5. QED
    BY <1>1, <1>2, <1>3, <1>4 DEF IInv

(* Time passes; a login is begun; a request ends without an effect.        *)
LEMMA TickInvariant ==
    ASSUME IInv, Tick
    PROVE  IInv'
  <1>1. /\ clock' = clock + 1 /\ clock < MaxClock
        /\ UNCHANGED <<sessions, req, page, ended, served, logins, spent>>
        /\ UNCHANGED registryVars
    BY DEF Tick, loginVars
  <1>2. clock' \in 0..MaxClock /\ clock <= clock'
    BY <1>1, TimeFacts DEF IInv, TypeOK
  <1>3. TypeOK'
    BY <1>1, <1>2 DEF IInv, TypeOK, registryVars
  <1>4. SessionInv'
    BY <1>1, <1>2, SessionFrame DEF IInv
  <1>5. RegistryInv'
    BY <1>1, RegistryFrame DEF IInv
  <1>6. QED
    BY <1>1, <1>3, <1>4, <1>5 DEF IInv, PageShape

LEMMA BeginLoginInvariant ==
    ASSUME IInv, NEW t \in Tokens, BeginLogin(t)
    PROVE  IInv'
  <1>1. /\ logins' = [logins EXCEPT ![t] = clock + LoginTtl]
        /\ UNCHANGED <<clock, spent, sessions, req, page, ended, served>>
        /\ UNCHANGED registryVars
    BY DEF BeginLogin
  <1>2. clock \in 0..MaxClock /\ clock <= clock /\ clock + LoginTtl \in Times
    BY TimeFacts DEF IInv, TypeOK
  <1>3. TypeOK'
    BY <1>1, <1>2 DEF IInv, TypeOK, registryVars
  <1>4. SessionInv'
    BY <1>1, <1>2, SessionFrame DEF IInv
  <1>5. RegistryInv'
    BY <1>1, RegistryFrame DEF IInv
  <1>6. QED
    BY <1>1, <1>3, <1>4, <1>5 DEF IInv, PageShape

(* A step that only moves one request on, inside its transaction.          *)
LEMMA RequestStep ==
    ASSUME IInv, NEW c \in Clients, NEW q \in Request,
           req' = [req EXCEPT ![c] = q], q.at # "archiving", SessionRequestOK(q),
           UNCHANGED <<clock, sessions, logins, spent, page, ended, served>>,
           UNCHANGED registryVars
    PROVE  IInv'
  <1>1. req'[c] = q /\ \A d \in Clients \ {c} : req'[d] = req[d]
    BY DEF IInv, TypeOK
  <1>2. TypeOK'
    BY DEF IInv, TypeOK, registryVars
  <1>3. SessionInv'
    <2>1. \A d \in Clients : req'[d] = req[d] \/ SessionRequestOK(req[d])'
      BY <1>1 DEF SessionRequestOK
    <2>2. clock \in 0..MaxClock /\ clock <= clock
      BY TimeFacts DEF IInv, TypeOK
    <2>3. QED
      BY <2>1, <2>2, SessionFrame DEF IInv
  <1>4. RegistryInv'
    BY <1>1, RegistryFrame DEF IInv
  <1>5. QED
    BY <1>2, <1>3, <1>4 DEF IInv, PageShape

LEMMA RefuseInvariant ==
    ASSUME IInv, NEW c \in Clients, Refuse(c)
    PROVE  IInv'
  BY FreeFacts, RequestStep DEF Refuse, IInv, loginVars

LEMMA ReadLoginInvariant ==
    ASSUME IInv, NEW c \in Clients, NEW t \in Tokens, ReadLogin(c, t)
    PROVE  IInv'
  <1> DEFINE q == [Free EXCEPT !.at = "callback", !.of = t, !.now = clock]
  <1>1. /\ req[c] = Free /\ req' = [req EXCEPT ![c] = q]
        /\ UNCHANGED <<clock, sessions, page, ended, served, logins, spent>>
        /\ UNCHANGED registryVars
    BY DEF ReadLogin, loginVars, IInv, TypeOK
  <1>2. /\ q \in Request /\ q.at = "callback" /\ q.of = t /\ q.now = clock
    BY FreeFacts DEF IInv, TypeOK, Request
  <1>3. SessionRequestOK(q)
    BY <1>2, TimeFacts DEF SessionRequestOK, IInv, TypeOK
  <1> HIDE DEF q
  <1>4. QED
    BY <1>1, <1>2, <1>3, RequestStep

-----------------------------------------------------------------------------
(* Sessions                                                                *)

(* The session row a request loads vouches for its `now': the deadline is  *)
(* counted from the first admission and last_seen_at is one of them.       *)
LEMMA LoadInvariant ==
    ASSUME IInv, NEW c \in Clients, NEW t \in Tokens, Load(c, t)
    PROVE  IInv'
  <1> DEFINE q == [Free EXCEPT !.at = "loaded", !.of = t, !.actor = sessions[t].actor,
                               !.now = clock]
  <1>1. /\ req[c] = Free /\ req' = [req EXCEPT ![c] = q]
        /\ sessions[t] # NoSession
        /\ clock < sessions[t].absolute /\ clock < sessions[t].seen + Idle
        /\ UNCHANGED <<clock, sessions, page, ended, served, logins, spent>>
        /\ UNCHANGED registryVars
    BY DEF Load, Valid, loginVars, IInv, TypeOK
  <1>2. sessions[t] \in Session
    BY <1>1 DEF IInv, TypeOK
  <1>3. sessions[t].actor \in Actors
    BY <1>2 DEF Session
  <1>4. /\ q \in Request /\ q.at = "loaded" /\ q.of = t /\ q.now = clock
        /\ q.actor = sessions[t].actor
    BY <1>3, FreeFacts DEF IInv, TypeOK, Request
  <1> HIDE DEF q
  <1>5. t \in spent /\ TokenOK(t)
    BY <1>1 DEF IInv, SessionInv, TokenOK
  <1>6. PICK m \in served[t] : SessionFrom(t, m)
    BY <1>5 DEF TokenOK
  <1>7. clock \in Nat /\ \A x \in served[t] : x \in Nat
    BY TimeFacts DEF IInv, TypeOK
  <1>8. SessionRequestOK(q)
    <2>1. sessions[t].seen \in served[t] /\ sessions[t].seen <= clock
      BY <1>1, <1>5, <1>6 DEF SessionFrom, TokenOK
    <2>2. \E x \in served[t] : x <= clock /\ clock < x + Idle
      BY <1>1, <2>1
    <2>3. ASSUME NEW k \in served[t], \A x \in served[t] : k <= x
          PROVE  clock < k + Absolute
      <3>1. k = m
        BY <1>6, <1>7, <2>3 DEF SessionFrom
      <3>2. QED
        BY <1>1, <1>6, <3>1 DEF SessionFrom
    <2>4. QED
      BY <1>3, <1>4, <1>5, <1>7, <2>2, <2>3 DEF SessionRequestOK
  <1>9. QED
    BY <1>1, <1>4, <1>8, RequestStep

(* The identity provider exchanges a code once, so a callback opens a      *)
(* session no request can have loaded.                                     *)
LEMMA CallbackInvariant ==
    ASSUME IInv, NEW c \in Clients, Callback(c)
    PROVE  IInv'
  <1>1. PICK t \in Tokens : t = req[c].of
    BY DEF Callback, IInv, SessionInv, SessionRequestOK
  <1>2. /\ req' = [req EXCEPT ![c] = Free]
        /\ UNCHANGED <<clock, page, ended>> /\ UNCHANGED registryVars
    BY DEF Callback
  <1>3. CASE \E a \in Actors : Exchange(t, a)
    <2>1. PICK a \in Actors :
              /\ t \notin spent /\ spent' = spent \cup {t}
              /\ logins' = [logins EXCEPT ![t] = 0]
              /\ sessions' = [sessions EXCEPT ![t] = NewSession(a, clock)]
              /\ served' = [served EXCEPT ![t] = {clock}]
      BY <1>1, <1>3 DEF Callback, Exchange
    <2>2. clock \in 0..MaxClock /\ clock \in Nat
      BY TimeFacts DEF IInv, TypeOK
    <2>3. /\ sessions'[t] = NewSession(a, clock) /\ served'[t] = {clock}
          /\ \A u \in Tokens \ {t} : sessions'[u] = sessions[u] /\ served'[u] = served[u]
          /\ req'[c] = Free /\ \A d \in Clients \ {c} : req'[d] = req[d]
      BY <1>2, <2>1 DEF IInv, TypeOK
    <2>4. TypeOK'
      BY <1>2, <2>1, <2>2, OpenedIsSome, TimeFacts, FreeFacts
         DEF IInv, TypeOK, registryVars
    <2>5. ASSUME NEW u \in Tokens PROVE TokenOK(u)'
      <3>1. CASE u = t
        <4>1. SessionFrom(t, clock)'
          BY <1>2, <2>2, <2>3, OpenedIsSome, TimeFacts DEF SessionFrom
        <4>2. t \notin ended
          BY <2>1 DEF IInv, SessionInv, TokenOK
        <4>3. QED
          BY <1>2, <2>1, <2>2, <2>3, <3>1, <4>1, <4>2 DEF TokenOK
      <3>2. CASE u # t
        BY <1>2, <2>1, <2>3, <3>2 DEF IInv, SessionInv, TokenOK, SessionFrom
      <3>3. QED
        BY <3>1, <3>2
    <2>6. ASSUME NEW d \in Clients PROVE SessionRequestOK(req[d])'
      <3>1. CASE d = c
        BY <1>2, <2>3, <3>1, FreeFacts DEF SessionRequestOK, IInv, TypeOK
      <3>2. CASE d # c
        BY <1>2, <2>1, <2>3, <3>2 DEF IInv, SessionInv, SessionRequestOK
      <3>3. QED
        BY <3>1, <3>2
    <2>7. RegistryInv'
      BY <1>2, <2>3, FreeFacts, RegistryFrame DEF IInv
    <2>8. QED
      BY <1>2, <2>4, <2>5, <2>6, <2>7 DEF IInv, PageShape, SessionInv
  <1>4. CASE ~ \E a \in Actors : Exchange(t, a)
    <2>1. UNCHANGED <<logins, spent, sessions, served>>
      BY <1>1, <1>4 DEF Callback
    <2>2. SessionRequestOK(Free)
      BY FreeFacts DEF IInv
    <2>3. QED
      BY <1>2, <2>1, <2>2, FreeFacts, RequestStep
  <1>5. QED
    BY <1>3, <1>4

(* last_seen_at may be overwritten by an earlier time and still names an   *)
(* admission.                                                              *)
LEMMA TouchInvariant ==
    ASSUME IInv, NEW c \in Clients, Touch(c)
    PROVE  IInv'
  <1>1. PICK t \in Tokens : t = req[c].of /\ t \in spent
    BY DEF Touch, IInv, SessionInv, SessionRequestOK
  <1>2. CASE sessions[t] = NoSession
    <2>1. /\ req' = [req EXCEPT ![c] = Free]
          /\ UNCHANGED <<clock, sessions, logins, spent, page, ended, served>>
          /\ UNCHANGED registryVars
      BY <1>1, <1>2 DEF Touch, loginVars
    <2>2. QED
      BY <2>1, FreeFacts, RequestStep DEF IInv
  <1>3. CASE sessions[t] # NoSession
    <2> PICK n \in 0..MaxClock : n = req[c].now
      BY DEF IInv, TypeOK, Request
    <2> DEFINE q == [req[c] EXCEPT !.at = "admitted", !.now = clock]
    <2>1. /\ req[c].at = "loaded"
          /\ sessions' = [sessions EXCEPT ![t].seen = n]
          /\ served' = [served EXCEPT ![t] = @ \cup {n}]
          /\ req' = [req EXCEPT ![c] = q]
          /\ UNCHANGED <<clock, logins, spent, page, ended>> /\ UNCHANGED registryVars
      BY <1>1, <1>3 DEF Touch, loginVars, IInv, TypeOK
    <2>2. /\ SessionRequestOK(req[c]) /\ TokenOK(t) /\ req[c] \in Request
          /\ sessions[t] \in Session
      BY <1>3 DEF IInv, SessionInv, TypeOK
    <2>3. /\ q \in Request /\ q.at = "admitted" /\ q.now = clock
          /\ q.of = t /\ q.actor = req[c].actor
      BY <1>1, <2>2 DEF IInv, TypeOK, Request
    <2> HIDE DEF q
    <2>4. PICK m \in served[t] : SessionFrom(t, m)
      BY <1>1, <2>2 DEF TokenOK
    <2>5. /\ clock \in Nat /\ n \in Nat /\ n <= clock /\ \A x \in served[t] : x \in Nat
          /\ Idle \in Nat /\ Absolute \in Nat
      BY <2>2, TimeFacts DEF IInv, TypeOK, SessionRequestOK
    <2>6. PICK x0 \in served[t] : x0 <= n /\ n < x0 + Idle
      BY <1>1, <2>1, <2>2 DEF SessionRequestOK
    <2>7. m <= n /\ n < m + Absolute
      <3>1. m <= x0 /\ \A x \in served[t] : m <= x
        BY <2>4 DEF SessionFrom
      <3>2. m <= n
        BY <2>5, <2>6, <3>1
      <3>3. n < m + Absolute
        BY <1>1, <2>1, <2>2, <3>1 DEF SessionRequestOK
      <3>4. QED
        BY <3>2, <3>3
    <2>8. /\ sessions'[t] \in Session /\ sessions'[t] # NoSession
          /\ sessions'[t].seen = n /\ sessions'[t].absolute = sessions[t].absolute
          /\ served'[t] = served[t] \cup {n}
          /\ \A u \in Tokens \ {t} : sessions'[u] = sessions[u] /\ served'[u] = served[u]
          /\ req'[c] = q /\ \A d \in Clients \ {c} : req'[d] = req[d]
      <3>1. sessions'[t] = [sessions[t] EXCEPT !.seen = n]
        BY <2>1 DEF IInv, TypeOK
      <3>2. sessions'[t] \in Session /\ sessions'[t].seen = n
            /\ sessions'[t].absolute = sessions[t].absolute
        BY <2>2, <3>1 DEF Session
      <3>3. sessions[t].absolute = m + Absolute /\ sessions[t].absolute # 0
        BY <1>3, <2>4, <2>5, TimeFacts DEF SessionFrom
      <3>4. sessions'[t] # NoSession
        BY <3>2, <3>3 DEF NoSession
      <3>5. QED
        BY <2>1, <3>2, <3>4 DEF IInv, TypeOK
    <2>9. TypeOK'
      <3>1. sessions' \in [Tokens -> Session \cup {NoSession}]
        BY <2>1, <2>8 DEF IInv, TypeOK
      <3>2. req' \in [Clients -> Request] /\ served' \in [Tokens -> SUBSET (0..MaxClock)]
        BY <2>1, <2>3 DEF IInv, TypeOK
      <3>3. QED
        BY <2>1, <3>1, <3>2 DEF IInv, TypeOK, registryVars
    <2>10. ASSUME NEW u \in Tokens PROVE TokenOK(u)'
      <3>1. CASE u = t
        <4>1. SessionFrom(t, m)'
          <5>1. m \in served'[t] /\ \A x \in served'[t] : m <= x
            BY <2>4, <2>7, <2>8 DEF SessionFrom
          <5>2. sessions'[t].absolute = m + Absolute /\ sessions'[t].seen \in served'[t]
            BY <1>3, <2>4, <2>8 DEF SessionFrom
          <5>3. ASSUME NEW k \in served'[t]
                PROVE  /\ k < m + Absolute
                       /\ k > m => \E x \in served'[t] : x < k /\ k < x + Idle
            <6>1. CASE k \in served[t]
              BY <2>4, <2>8, <6>1 DEF SessionFrom
            <6>2. CASE k = n /\ n \notin served[t]
              BY <2>5, <2>6, <2>7, <2>8, <6>2
            <6>3. QED
              BY <2>8, <6>1, <6>2
          <5>4. QED
            BY <5>1, <5>2, <5>3 DEF SessionFrom
        <4>2. t \notin ended
          BY <1>3, <2>2 DEF TokenOK
        <4>3. \A k \in served'[t] : k <= clock
          BY <2>2, <2>5, <2>8 DEF TokenOK
        <4>4. QED
          BY <1>1, <2>1, <3>1, <4>1, <4>2, <4>3 DEF TokenOK, SessionFrom
      <3>2. CASE u # t
        BY <2>1, <2>8, <3>2 DEF IInv, SessionInv, TokenOK, SessionFrom
      <3>3. QED
        BY <3>1, <3>2
    <2>11. ASSUME NEW d \in Clients PROVE SessionRequestOK(req[d])'
      <3>1. CASE d = c
        BY <1>1, <2>1, <2>2, <2>3, <2>5, <2>8, <3>1 DEF SessionRequestOK
      <3>2. CASE d # c
        <4>1. SessionRequestOK(req[d]) /\ req'[d] = req[d]
          BY <2>8, <3>2 DEF IInv, SessionInv
        <4>2. CASE req[d].at = "loaded" /\ req[d].of = t
          <5>1. \E x \in served'[t] : x <= req[d].now /\ req[d].now < x + Idle
            BY <2>8, <4>1, <4>2 DEF SessionRequestOK
          <5>2. ASSUME NEW k \in served'[t], \A x \in served'[t] : k <= x
                PROVE  req[d].now < k + Absolute
            <6>1. k = m
              BY <2>4, <2>5, <2>7, <2>8, <5>2 DEF SessionFrom
            <6>2. QED
              BY <2>4, <4>1, <4>2, <6>1 DEF SessionFrom, SessionRequestOK
          <5>3. QED
            BY <2>1, <4>1, <4>2, <5>1, <5>2 DEF SessionRequestOK
        <4>3. CASE ~(req[d].at = "loaded" /\ req[d].of = t)
          BY <2>1, <2>8, <4>1, <4>3 DEF SessionRequestOK
        <4>4. QED
          BY <4>2, <4>3
      <3>3. QED
        BY <3>1, <3>2
    <2>12. RegistryInv'
      BY <2>1, <2>3, <2>8, RegistryFrame DEF IInv
    <2>13. QED
      BY <2>1, <2>9, <2>10, <2>11, <2>12 DEF IInv, PageShape, SessionInv
  <1>4. QED
    BY <1>2, <1>3

(* A session is deleted before it is history; its code stays spent.        *)
LEMMA LogoutInvariant ==
    ASSUME IInv, NEW c \in Clients, Logout(c)
    PROVE  IInv'
  <1>1. PICK t \in Tokens : t = req[c].of /\ t \in spent
    BY DEF Logout, IInv, SessionInv, SessionRequestOK
  <1>2. /\ sessions' = [sessions EXCEPT ![t] = NoSession] /\ ended' = ended \cup {t}
        /\ req' = [req EXCEPT ![c] = Free]
        /\ UNCHANGED <<clock, page, served, logins, spent>> /\ UNCHANGED registryVars
    BY <1>1 DEF Logout, loginVars
  <1>3. /\ sessions'[t] = NoSession
        /\ \A u \in Tokens \ {t} : sessions'[u] = sessions[u]
        /\ req'[c] = Free /\ \A d \in Clients \ {c} : req'[d] = req[d]
    BY <1>2 DEF IInv, TypeOK
  <1>4. TypeOK'
    BY <1>2, FreeFacts DEF IInv, TypeOK, registryVars
  <1>5. ASSUME NEW u \in Tokens PROVE TokenOK(u)'
    BY <1>1, <1>2, <1>3 DEF IInv, SessionInv, TokenOK, SessionFrom
  <1>6. ASSUME NEW d \in Clients PROVE SessionRequestOK(req[d])'
    <2>1. CASE d = c
      BY <1>2, <1>3, <2>1, FreeFacts DEF SessionRequestOK, IInv, TypeOK
    <2>2. CASE d # c
      BY <1>2, <1>3, <2>2 DEF IInv, SessionInv, SessionRequestOK
    <2>3. QED
      BY <2>1, <2>2
  <1>7. RegistryInv'
    BY <1>2, <1>3, FreeFacts, RegistryFrame DEF IInv
  <1>8. QED
    BY <1>2, <1>4, <1>5, <1>6, <1>7 DEF IInv, PageShape, SessionInv

(* The purge deletes rows nobody could load any more; a request that       *)
(* loaded one before keeps what it knows, and its update will fail.        *)
LEMMA PurgeInvariant ==
    ASSUME IInv, Purge
    PROVE  IInv'
  <1>1. /\ sessions' = [t \in Tokens |-> IF sessions[t].absolute <= clock THEN NoSession
                                         ELSE sessions[t]]
        /\ logins' = [t \in Tokens |-> IF logins[t] <= clock THEN 0 ELSE logins[t]]
        /\ UNCHANGED <<clock, spent, req, page, ended, served>>
        /\ UNCHANGED registryVars
    BY DEF Purge
  <1>2. \A t \in Tokens : sessions'[t] \in {sessions[t], NoSession}
    BY <1>1
  <1>3. TypeOK'
    BY <1>1, TimeFacts DEF IInv, TypeOK, registryVars
  <1>4. \A t \in Tokens : TokenOK(t)'
    BY <1>1, <1>2 DEF IInv, SessionInv, TokenOK, SessionFrom
  <1>5. \A c \in Clients : SessionRequestOK(req[c])'
    BY <1>1 DEF IInv, SessionInv, SessionRequestOK
  <1>6. RegistryInv'
    BY <1>1, RegistryFrame DEF IInv
  <1>7. QED
    BY <1>1, <1>3, <1>4, <1>5, <1>6 DEF IInv, PageShape, SessionInv

-----------------------------------------------------------------------------
(* Pages                                                                   *)

LEMMA OpenListInvariant ==
    ASSUME IInv, NEW c \in Clients, OpenList(c)
    PROVE  IInv'
  <1>1. PICK all \in BOOLEAN :
            page' = [NoPage EXCEPT !.actor = req[c].actor, !.all = all,
                                   !.due = Listed(req[c].actor, all)]
    BY DEF OpenList
  <1>2. UNCHANGED <<clock, sessions, req, ended, served, logins, spent>>
        /\ UNCHANGED registryVars
    BY DEF OpenList, loginVars
  <1> DEFINE a == req[c].actor
             due == Listed(a, all)
  <1>3. due \subseteq Systems
    BY DEF Listed
  <1> HIDE DEF a, due
  <1>4. page' = [actor |-> a, all |-> all, after |-> <<0, 0>>, due |-> due,
                 listed |-> {}, again |-> FALSE]
    BY <1>1 DEF NoPage, a, due
  <1>5. PageShape'
    BY <1>4 DEF PageShape
  <1>6. TypeOK'
    BY <1>2, <1>3, <1>4 DEF IInv, TypeOK, registryVars
  <1>7. clock \in 0..MaxClock /\ clock <= clock
    BY TimeFacts DEF IInv, TypeOK
  <1>8. SessionInv' /\ RegistryInv'
    BY <1>2, <1>7, SessionFrame, RegistryFrame DEF IInv
  <1>9. QED
    BY <1>5, <1>6, <1>8 DEF IInv

LEMMA ListPageInvariant ==
    ASSUME IInv, NEW c \in Clients, ListPage(c)
    PROVE  IInv'
  <1>1. /\ req' = [req EXCEPT ![c] = Free]
        /\ UNCHANGED <<clock, sessions, ended, served, logins, spent>>
        /\ UNCHANGED registryVars
    BY DEF ListPage, loginVars
  <1>2. \/ page' = NoPage
        \/ \E rows \in SUBSET Systems : \E p, again :
              page' = [page EXCEPT !.after = p, !.listed = @ \cup rows, !.again = again]
    <2> DEFINE rest == Rest(page.actor, page.all, page.after)
               Last(rows) == CHOOSE p \in {Position(s) : s \in rows} :
                                \A s \in rows : ~After(p, Position(s))
    <2>1. rest \subseteq Systems
      BY DEF Rest, Listed
    <2>2. PICK rows \in SUBSET rest :
            page' = IF rows # rest
                    THEN [page EXCEPT !.after = Last(rows), !.listed = @ \cup rows,
                                      !.again = @ \/ rows \cap page.listed # {}]
                    ELSE NoPage
      BY DEF ListPage
    <2> HIDE DEF rest, Last
    <2>3. QED
      BY <2>1, <2>2
  <1>3. PageShape' /\ page'.due \cup page'.listed \subseteq Systems
    <2>1. CASE page' = NoPage
      BY <2>1 DEF NoPage, PageShape
    <2>2. CASE page' # NoPage
      <3>1. PICK rows \in SUBSET Systems : \E p, again :
              page' = [page EXCEPT !.after = p, !.listed = @ \cup rows, !.again = again]
        BY <1>2, <2>2
      <3>2. PICK p, again :
              page' = [page EXCEPT !.after = p, !.listed = @ \cup rows, !.again = again]
        BY <3>1
      <3>3. page' = [actor |-> page.actor, all |-> page.all, after |-> p,
                     due |-> page.due, listed |-> page.listed \cup rows, again |-> again]
        BY <3>2 DEF IInv, PageShape
      <3>4. QED
        BY <3>3 DEF PageShape, IInv, TypeOK
    <2>3. QED
      BY <2>1, <2>2
  <1>4. TypeOK'
    BY <1>1, <1>3, FreeFacts DEF IInv, TypeOK, registryVars
  <1>5. SessionInv'
    <2>1. \A d \in Clients : req'[d] = req[d] \/ SessionRequestOK(req[d])'
      BY <1>1, <1>4, FreeFacts DEF SessionRequestOK, IInv, TypeOK
    <2>2. clock \in 0..MaxClock /\ clock <= clock
      BY TimeFacts DEF IInv, TypeOK
    <2>3. QED
      BY <1>1, <2>1, <2>2, SessionFrame DEF IInv
  <1>6. RegistryInv'
    <2>1. \A d \in Clients : req'[d] = req[d] \/ req'[d].at # "archiving"
      BY <1>1, FreeFacts DEF IInv, TypeOK
    <2>2. QED
      BY <1>1, <2>1, RegistryFrame DEF IInv
  <1>7. QED
    BY <1>3, <1>4, <1>5, <1>6 DEF IInv

-----------------------------------------------------------------------------
(* Idempotent mutations                                                    *)

LEMMA EffectTypes ==
    ASSUME TypeOK
    PROVE  /\ \A e \in effects : /\ e.now \in Nat /\ e.body \in Systems
                                 /\ e.op \in Ops /\ e.digest \in Digests
           /\ \A r \in records : r.expires \in Nat /\ r.body \in Systems /\ r.digest \in Digests
  BY TimeFacts DEF TypeOK, Record, Times

(* A commit whose handler found the records of its key expired: they       *)
(* outlast every earlier effect, so the new effect is that much later.     *)
LEMMA CommitStep ==
    ASSUME TypeOK, RegistryInv, NEW a, NEW op, NEW k, NEW d, NEW s, NEW now \in 0..MaxClock,
           \A r \in RecordsOf(a, op, k) : r.expires <= now,
           Commit(a, op, k, d, s, now)
    PROVE  RecordsOK' /\ OneEffectPerKey' /\ AnswersOK'
  <1> DEFINE new == [actor |-> a, op |-> op, key |-> k, digest |-> d, body |-> s, now |-> now]
             out == [actor |-> a, op |-> op, key |-> k, digest |-> d, body |-> s,
                     expires |-> now + Retention]
             ans == [actor |-> a, op |-> op, key |-> k, digest |-> d, body |-> s]
  <1>1. /\ records' = (records \ RecordsOf(a, op, k)) \cup {out}
        /\ effects' = effects \cup {new} /\ answers' = answers \cup {ans}
    BY DEF Commit, Answer, Outcome
  <1>2. /\ now \in Nat /\ Retention \in Nat \ {0} /\ \A e \in effects : e.now \in Nat
        /\ \A r \in records : r.expires \in Nat
    BY EffectTypes, TimeFacts
  <1>3. /\ SameKey(new, out) /\ SameKey(new, ans)
        /\ new.now = now /\ out.expires = now + Retention
        /\ new.digest = out.digest /\ new.body = out.body
        /\ new.digest = ans.digest /\ new.body = ans.body
    BY DEF SameKey
  <1>4. ASSUME NEW e \in effects, SameKey(e, new)
        PROVE  e.now + Retention <= now
    <2>1. PICK r \in records : SameKey(e, r) /\ e.now + Retention <= r.expires
      BY DEF RegistryInv, RecordsOK
    <2>2. r \in RecordsOf(a, op, k)
      BY <1>4, <2>1 DEF SameKey, RecordsOf
    <2>3. QED
      BY <1>2, <2>1, <2>2
  <1>5. \A r \in records : r \in RecordsOf(a, op, k) <=> SameKey(r, new)
    BY DEF RecordsOf, SameKey
  <1> HIDE DEF new, out, ans
  <1>6. RecordsOK'
    <2>1. ASSUME NEW e \in effects'
          PROVE  \E r \in records' : SameKey(e, r) /\ e.now + Retention <= r.expires
      <3>1. CASE e = new
        BY <1>1, <1>2, <1>3, <3>1
      <3>2. CASE e \in effects /\ SameKey(e, new)
        <4>1. SameKey(e, out)
          BY <1>3, <3>2 DEF SameKey
        <4>2. e.now + Retention <= out.expires
          BY <1>2, <1>3, <1>4, <3>2
        <4>3. QED
          BY <1>1, <4>1, <4>2
      <3>3. CASE e \in effects /\ ~SameKey(e, new)
        <4>1. PICK r \in records : SameKey(e, r) /\ e.now + Retention <= r.expires
          BY <3>3 DEF RegistryInv, RecordsOK
        <4>2. ~SameKey(r, new)
          BY <3>3, <4>1 DEF SameKey
        <4>3. QED
          BY <1>1, <1>5, <4>1, <4>2
      <3>4. QED
        BY <1>1, <2>1, <3>1, <3>2, <3>3
    <2>2. ASSUME NEW r \in records'
          PROVE  \E e \in effects' :
                    SameKey(e, r) /\ e.digest = r.digest /\ e.body = r.body
      BY <1>1, <1>3 DEF RegistryInv, RecordsOK
    <2>3. QED
      BY <2>1, <2>2 DEF RecordsOK
  <1>7. OneEffectPerKey'
    <2>1. ASSUME NEW e \in effects', NEW f \in effects', SameKey(e, f), e # f
          PROVE  e.now >= f.now + Retention \/ f.now >= e.now + Retention
      <3>1. CASE e \in effects /\ f \in effects
        BY <2>1, <3>1 DEF RegistryInv, OneEffectPerKey, SameKey
      <3>2. CASE e = new /\ f \in effects
        <4>1. SameKey(f, new)
          BY <2>1, <3>2 DEF SameKey
        <4>2. QED
          BY <1>2, <1>3, <1>4, <3>2, <4>1
      <3>3. CASE e \in effects /\ f = new
        <4>1. SameKey(e, new)
          BY <2>1, <3>3 DEF SameKey
        <4>2. QED
          BY <1>2, <1>3, <1>4, <3>3, <4>1
      <3>4. QED
        BY <1>1, <2>1, <3>1, <3>2, <3>3
    <2>2. QED
      BY <2>1 DEF OneEffectPerKey, SameKey
  <1>8. AnswersOK'
    BY <1>1, <1>3 DEF RegistryInv, AnswersOK
  <1>9. QED
    BY <1>6, <1>7, <1>8

(* An answer taken from a record repeats the answer of its effect.         *)
LEMMA ReplayStep ==
    ASSUME TypeOK, RegistryInv, NEW a, NEW op, NEW k, NEW d, NEW now,
           NEW r \in Replay(a, op, k, d, now), Answer(a, op, k, d, r.body),
           UNCHANGED effects
    PROVE  AnswersOK'
  <1> DEFINE ans == [actor |-> a, op |-> op, key |-> k, digest |-> d, body |-> r.body]
  <1>1. answers' = answers \cup {ans}
    BY DEF Answer
  <1>2. r \in records /\ r.actor = a /\ r.op = op /\ r.key = k /\ r.digest = d
    BY DEF Replay, RecordsOf
  <1>3. PICK e \in effects : SameKey(e, r) /\ e.digest = r.digest /\ e.body = r.body
    BY <1>2 DEF RegistryInv, RecordsOK
  <1>4. SameKey(e, ans) /\ e.digest = ans.digest /\ e.body = ans.body
    BY <1>2, <1>3 DEF SameKey
  <1> HIDE DEF ans
  <1>5. QED
    BY <1>1, <1>4 DEF RegistryInv, AnswersOK

(* A key without a live record: neither a replay nor a conflict.           *)
LEMMA AllExpired ==
    ASSUME NEW a, NEW op, NEW k, NEW d, NEW now,
           Replay(a, op, k, d, now) = {}, ~Conflict(a, op, k, d, now)
    PROVE  \A r \in RecordsOf(a, op, k) : r.expires <= now
  BY DEF Replay, Conflict, Expired

(* Steps that answer, and give the session nothing to do with.             *)
LEMMA ReleaseSession ==
    ASSUME IInv, NEW c \in Clients, TypeOK',
           req' = [req EXCEPT ![c] = Free],
           UNCHANGED <<clock, sessions, page, ended, served, logins, spent>>
    PROVE  SessionInv' /\ PageShape'
  <1>1. \A d \in Clients : req'[d] = req[d] \/ SessionRequestOK(req[d])'
    BY FreeFacts DEF SessionRequestOK, IInv, TypeOK
  <1>2. clock \in 0..MaxClock /\ clock <= clock
    BY TimeFacts DEF IInv, TypeOK
  <1>3. SessionInv'
    BY <1>1, <1>2, SessionFrame DEF IInv
  <1>4. QED
    BY <1>3 DEF IInv, PageShape

LEMMA ReplayArchiveInvariant ==
    ASSUME IInv, NEW c \in Clients, ReplayArchive(c)
    PROVE  IInv'
  <1> DEFINE a == req[c].actor
             op == "systems.archive"
  <1>1. PICK k \in Keys, s \in Systems, now \in req[c].now..clock :
            \E r \in Replay(a, op, k, [system |-> s], now) :
                Answer(a, op, k, [system |-> s], r.body)
    BY DEF ReplayArchive
  <1>2. PICK r \in Replay(a, op, k, [system |-> s], now) :
                Answer(a, op, k, [system |-> s], r.body)
    BY <1>1
  <1>3. /\ req' = [req EXCEPT ![c] = Free]
        /\ UNCHANGED <<clock, sessions, page, ended, served, systems, records, effects,
                       logins, spent>>
    BY DEF ReplayArchive, loginVars
  <1>4. TypeOK'
    <2>1. a \in Actors
      BY DEF ReplayArchive, IInv, SessionInv, SessionRequestOK
    <2>2. r.body \in Systems /\ [system |-> s] \in Digests /\ op \in Ops
      BY <1>2, EffectTypes DEF IInv, Replay, RecordsOf, Digests, Ops
    <2>3. answers' \subseteq [actor : Actors, op : Ops, key : Keys, digest : Digests,
                              body : Systems]
      BY <1>2, <2>1, <2>2 DEF Answer, IInv, TypeOK
    <2>4. QED
      BY <1>3, <2>3, FreeFacts DEF IInv, TypeOK
  <1>5. SessionInv' /\ PageShape'
    BY <1>3, <1>4, ReleaseSession
  <1>6. RegistryInv'
    <2>1. AnswersOK'
      BY <1>2, <1>3, ReplayStep DEF IInv
    <2>2. RecordsOK' /\ OneEffectPerKey' /\ (\A e \in effects : EffectOK(e))'
      BY <1>3 DEF IInv, RegistryInv, RecordsOK, OneEffectPerKey, EffectOK
    <2>3. \A d \in Clients : req'[d] \in {req[d], Free}
      BY <1>3 DEF IInv, TypeOK
    <2>4. \A d \in Clients : ArchiveOK(req[d])'
      BY <1>3, <2>3, FreeFacts DEF IInv, RegistryInv, ArchiveOK
    <2>5. LocksHeldOnce'
      BY <2>3, FreeFacts DEF IInv, RegistryInv, LocksHeldOnce
    <2>6. QED
      BY <2>1, <2>2, <2>4, <2>5 DEF RegistryInv
  <1>7. QED
    BY <1>4, <1>5, <1>6 DEF IInv

(* A system is created in a place no effect names.                         *)
LEMMA CreateSystemInvariant ==
    ASSUME IInv, NEW c \in Clients, CreateSystem(c)
    PROVE  IInv'
  <1> PICK a \in Actors : a = req[c].actor
    BY DEF CreateSystem, IInv, SessionInv, SessionRequestOK
  <1> DEFINE op == "systems.create"
             D(n, g) == [name |-> n, owner |-> g]
  <1>1. /\ req' = [req EXCEPT ![c] = Free] /\ req[c].at = "admitted"
        /\ UNCHANGED <<clock, sessions, page, ended, served, logins, spent>>
    BY DEF CreateSystem, loginVars
  <1>2. PICK k \in Keys, n \in Names, g \in Groups, now \in req[c].now..clock :
            \/ \E r \in Replay(a, op, k, D(n, g), now) :
                 /\ Answer(a, op, k, D(n, g), r.body)
                 /\ UNCHANGED <<systems, records, effects>>
            \/ /\ Replay(a, op, k, D(n, g), now) = {} /\ ~Conflict(a, op, k, D(n, g), now)
               /\ \E s \in Systems :
                    /\ systems[s] = NoSystem
                    /\ systems' = [systems EXCEPT ![s] =
                          [name |-> n, owner |-> g, created |-> now, archived |-> 0]]
                    /\ Commit(a, op, k, D(n, g), s, now)
    BY DEF CreateSystem
  <1> DEFINE d == D(n, g)
  <1>3. d \in Digests /\ op \in Ops /\ d.name = n /\ d.owner = g
    BY DEF Digests, Ops
  <1>4. now \in 0..MaxClock
    BY TimeFacts DEF IInv, TypeOK, Request
  <1>5. \A e \in Clients : req'[e] \in {req[e], Free}
    BY <1>1 DEF IInv, TypeOK
  <1>6. LocksHeldOnce'
    BY <1>5, FreeFacts DEF IInv, RegistryInv, LocksHeldOnce
  <1> HIDE DEF D
  <1>7. CASE \E r \in Replay(a, op, k, d, now) :
                 /\ Answer(a, op, k, d, r.body)
                 /\ UNCHANGED <<systems, records, effects>>
    <2>1. PICK r \in Replay(a, op, k, d, now) : Answer(a, op, k, d, r.body)
      BY <1>7
    <2>2. UNCHANGED <<systems, records, effects>>
      BY <1>7
    <2>3. TypeOK'
      <3>1. r.body \in Systems
        BY <2>1, EffectTypes DEF IInv, Replay, RecordsOf
      <3>2. answers' \subseteq [actor : Actors, op : Ops, key : Keys, digest : Digests,
                                body : Systems]
        BY <1>3, <2>1, <3>1 DEF Answer, IInv, TypeOK
      <3>3. QED
        BY <1>1, <2>2, <3>2, FreeFacts DEF IInv, TypeOK
    <2>4. SessionInv' /\ PageShape'
      BY <1>1, <2>3, ReleaseSession
    <2>5. AnswersOK'
      BY <2>1, <2>2, ReplayStep DEF IInv
    <2>6. RecordsOK' /\ OneEffectPerKey' /\ (\A e \in effects : EffectOK(e))'
      BY <2>2 DEF IInv, RegistryInv, RecordsOK, OneEffectPerKey, EffectOK
    <2>7. \A e \in Clients : ArchiveOK(req[e])'
      BY <1>5, <2>2, FreeFacts DEF IInv, RegistryInv, ArchiveOK
    <2>8. QED
      BY <1>6, <2>3, <2>4, <2>5, <2>6, <2>7 DEF IInv, RegistryInv
  <1>8. CASE /\ Replay(a, op, k, d, now) = {} /\ ~Conflict(a, op, k, d, now)
             /\ \E s \in Systems :
                    /\ systems[s] = NoSystem
                    /\ systems' = [systems EXCEPT ![s] =
                          [name |-> n, owner |-> g, created |-> now, archived |-> 0]]
                    /\ Commit(a, op, k, d, s, now)
    <2> PICK s \in Systems :
          /\ systems[s] = NoSystem
          /\ systems' = [systems EXCEPT ![s] =
                [name |-> n, owner |-> g, created |-> now, archived |-> 0]]
          /\ Commit(a, op, k, d, s, now)
      BY <1>8
    <2> DEFINE row == [name |-> n, owner |-> g, created |-> now, archived |-> 0]
    <2>1. row \in System /\ row # NoSystem /\ row.name = n /\ row.owner = g
      BY <1>4, CreatedIsSome, TimeFacts DEF System
    <2> HIDE DEF row, d
    <2>2. systems'[s] = row /\ \A u \in Systems \ {s} : systems'[u] = systems[u]
      BY DEF IInv, TypeOK, row
    <2>3. /\ records' = (records \ RecordsOf(a, op, k)) \cup {Outcome(a, op, k, d, s, now)}
          /\ effects' = effects \cup {[actor |-> a, op |-> op, key |-> k, digest |-> d,
                                       body |-> s, now |-> now]}
          /\ answers' = answers \cup {[actor |-> a, op |-> op, key |-> k, digest |-> d,
                                       body |-> s]}
      BY DEF Commit, Answer
    <2>4. TypeOK'
      <3>1. records' \subseteq Record
        <4>1. now + Retention \in Times
          BY <1>4, TimeFacts
        <4>2. Outcome(a, op, k, d, s, now) \in Record
          BY <1>3, <4>1 DEF Outcome, Record
        <4>3. QED
          BY <2>3, <4>2 DEF IInv, TypeOK
      <3>2. /\ effects' \subseteq [actor : Actors, op : Ops, key : Keys, digest : Digests,
                                   body : Systems, now : 0..MaxClock]
            /\ answers' \subseteq [actor : Actors, op : Ops, key : Keys, digest : Digests,
                                   body : Systems]
        BY <1>3, <1>4, <2>3 DEF IInv, TypeOK
      <3>3. systems' \in [Systems -> System \cup {NoSystem}]
        BY <2>1 DEF IInv, TypeOK, row
      <3>4. QED
        BY <1>1, <3>1, <3>2, <3>3, FreeFacts DEF IInv, TypeOK
    <2>5. SessionInv' /\ PageShape'
      BY <1>1, <2>4, ReleaseSession
    <2>6. RecordsOK' /\ OneEffectPerKey' /\ AnswersOK'
      BY <1>4, <1>8, AllExpired, CommitStep DEF IInv
    <2>7. ASSUME NEW e \in effects' PROVE EffectOK(e)'
      <3>1. CASE e \in effects
        BY <2>2, <3>1 DEF IInv, RegistryInv, EffectOK, TypeOK
      <3>2. CASE e \notin effects
        <4>1. e.body = s /\ e.op = op /\ e.digest = d
          BY <2>3, <3>2
        <4>2. QED
          BY <1>3, <2>1, <2>2, <4>1 DEF EffectOK
      <3>3. QED
        BY <3>1, <3>2
    <2>8. ASSUME NEW e \in Clients PROVE ArchiveOK(req[e])'
      <3>1. CASE req'[e] = Free
        BY <3>1, FreeFacts DEF ArchiveOK
      <3>2. CASE req'[e] = req[e]
        <4>1. ArchiveOK(req[e])
          BY DEF IInv, RegistryInv
        <4>2. \A r \in records' : r.op = "systems.archive" => r \in records
          BY <2>3 DEF Outcome
        <4>3. QED
          BY <2>2, <3>2, <4>1, <4>2 DEF ArchiveOK
      <3>3. QED
        BY <1>5, <3>1, <3>2
    <2>9. QED
      BY <1>6, <2>4, <2>5, <2>6, <2>7, <2>8 DEF IInv, RegistryInv
  <1>9. QED
    BY <1>2, <1>7, <1>8

(* The request takes the lock of its key and finds its records expired.    *)
LEMMA ReadArchiveInvariant ==
    ASSUME IInv, NEW c \in Clients, ReadArchive(c)
    PROVE  IInv'
  <1> PICK a \in Actors : a = req[c].actor
    BY DEF ReadArchive, IInv, SessionInv, SessionRequestOK
  <1> DEFINE op == "systems.archive"
  <1>1. PICK k \in Keys, s \in Systems, now \in req[c].now..clock :
            /\ KeyIsFree(a, k)
            /\ Replay(a, op, k, [system |-> s], now) = {}
            /\ ~Conflict(a, op, k, [system |-> s], now)
            /\ systems[s] # NoSystem
            /\ req' = [req EXCEPT ![c] = [@ EXCEPT !.at = "archiving", !.now = now, !.key = k,
                                             !.system = s, !.was = systems[s].archived]]
    BY DEF ReadArchive
  <1> DEFINE q == [req[c] EXCEPT !.at = "archiving", !.now = now, !.key = k,
                                 !.system = s, !.was = systems[s].archived]
  <1>2. /\ UNCHANGED <<clock, sessions, page, ended, served, logins, spent>>
        /\ UNCHANGED registryVars /\ req[c].at = "admitted"
    BY DEF ReadArchive, loginVars
  <1>3. /\ now \in 0..MaxClock /\ now <= clock /\ clock \in 0..MaxClock
        /\ systems[s].archived \in 0..MaxClock + 1
        /\ req[c] \in Request
    BY <1>1, TimeFacts DEF IInv, TypeOK, Request, System
  <1>4. /\ q \in Request /\ q.at = "archiving" /\ q.now = now /\ q.key = k /\ q.system = s
        /\ q.was = systems[s].archived /\ q.actor = a /\ q.of = req[c].of
    BY <1>3 DEF Request
  <1>5. req'[c] = q /\ \A d \in Clients \ {c} : req'[d] = req[d]
    BY <1>1 DEF IInv, TypeOK
  <1>6. TypeOK'
    BY <1>1, <1>2, <1>4 DEF IInv, TypeOK, registryVars
  <1> HIDE DEF q
  <1>7. SessionInv'
    <2>1. SessionRequestOK(req[c])
      BY DEF IInv, SessionInv
    <2>2. SessionRequestOK(req[c])'
      BY <1>2, <1>3, <1>4, <1>5, <2>1 DEF SessionRequestOK
    <2>3. \A d \in Clients : req'[d] = req[d] \/ SessionRequestOK(req[d])'
      BY <1>5, <2>2
    <2>4. clock \in 0..MaxClock /\ clock <= clock
      BY <1>3, TimeFacts
    <2>5. QED
      BY <1>2, <2>3, <2>4, SessionFrame DEF IInv
  <1>8. RegistryInv'
    <2>1. RecordsOK' /\ OneEffectPerKey' /\ AnswersOK' /\ (\A e \in effects : EffectOK(e))'
      BY <1>2
         DEF IInv, RegistryInv, RecordsOK, OneEffectPerKey, AnswersOK, EffectOK, registryVars
    <2>2. ASSUME NEW d \in Clients PROVE ArchiveOK(req[d])'
      <3>1. CASE d = c
        <4>1. \A r \in RecordsOf(a, op, k) : r.expires <= now
          BY <1>1, AllExpired
        <4>2. QED
          BY <1>1, <1>2, <1>4, <1>5, <3>1, <4>1 DEF ArchiveOK, RecordsOf, registryVars
      <3>2. CASE d # c
        BY <1>2, <1>5, <3>2 DEF IInv, RegistryInv, ArchiveOK, registryVars
      <3>3. QED
        BY <3>1, <3>2
    <2>3. LocksHeldOnce'
      <3>1. \A d \in Clients : req[d].at = "archiving" => ~(req[d].actor = a /\ req[d].key = k)
        BY <1>1 DEF KeyIsFree
      <3>2. QED
        BY <1>4, <1>5, <3>1 DEF IInv, RegistryInv, LocksHeldOnce
    <2>4. QED
      BY <2>1, <2>2, <2>3 DEF RegistryInv
  <1>9. QED
    BY <1>2, <1>6, <1>7, <1>8 DEF IInv, PageShape

(* Of two archives that both read the system as open the later overwrites  *)
(* archived_at, never back to open.                                        *)
LEMMA ArchiveInvariant ==
    ASSUME IInv, NEW c \in Clients, Archive(c)
    PROVE  IInv'
  <1> PICK q \in Request : q = req[c]
    BY DEF IInv, TypeOK
  <1> PICK a \in Actors, k \in Keys, s \in Systems, now \in 0..MaxClock :
          a = q.actor /\ k = q.key /\ s = q.system /\ now = q.now
    BY DEF Archive, IInv, SessionInv, SessionRequestOK, RegistryInv, ArchiveOK, Request
  <1> DEFINE op   == "systems.archive"
             d    == [system |-> s]
             then == IF q.was = 0 THEN now + 1 ELSE systems[s].archived
  <1>1. /\ q.at = "archiving"
        /\ systems' = [systems EXCEPT ![s].archived = then]
        /\ Commit(a, op, k, d, s, now)
        /\ req' = [req EXCEPT ![c] = Free]
        /\ UNCHANGED <<clock, sessions, page, ended, served, logins, spent>>
    BY DEF Archive, loginVars
  <1>2. /\ systems[s] # NoSystem /\ systems[s] \in System
        /\ q.was # 0 => systems[s].archived # 0
        /\ \A r \in RecordsOf(a, op, k) : r.expires <= now
    BY <1>1 DEF IInv, TypeOK, RegistryInv, ArchiveOK, RecordsOf
  <1>3. then \in 0..MaxClock + 1 /\ then # 0
    BY <1>2, TimeFacts DEF System
  <1>4. op \in Ops /\ d \in Digests
    BY DEF Ops, Digests
  <1> HIDE DEF then, d
  <1>5. /\ systems'[s] \in System /\ systems'[s] # NoSystem
        /\ systems'[s].name = systems[s].name /\ systems'[s].owner = systems[s].owner
        /\ systems'[s].archived # 0
        /\ \A u \in Systems \ {s} : systems'[u] = systems[u]
    <2>1. systems'[s] = [systems[s] EXCEPT !.archived = then]
      BY <1>1 DEF IInv, TypeOK
    <2>2. /\ systems'[s] \in System /\ systems'[s].archived = then
          /\ systems'[s].name = systems[s].name /\ systems'[s].owner = systems[s].owner
      BY <1>2, <1>3, <2>1 DEF System
    <2>3. systems'[s] # NoSystem
      BY <1>3, <2>2 DEF NoSystem
    <2>4. QED
      BY <1>1, <1>3, <2>2, <2>3 DEF IInv, TypeOK
  <1>6. /\ records' = (records \ RecordsOf(a, op, k)) \cup {Outcome(a, op, k, d, s, now)}
        /\ effects' = effects \cup {[actor |-> a, op |-> op, key |-> k, digest |-> d,
                                     body |-> s, now |-> now]}
        /\ answers' = answers \cup {[actor |-> a, op |-> op, key |-> k, digest |-> d,
                                     body |-> s]}
    BY <1>1 DEF Commit, Answer
  <1>7. TypeOK'
    <2>1. records' \subseteq Record
      <3>1. now + Retention \in Times
        BY TimeFacts
      <3>2. Outcome(a, op, k, d, s, now) \in Record
        BY <1>4, <3>1 DEF Outcome, Record
      <3>3. QED
        BY <1>6, <3>2 DEF IInv, TypeOK
    <2>2. /\ effects' \subseteq [actor : Actors, op : Ops, key : Keys, digest : Digests,
                                 body : Systems, now : 0..MaxClock]
          /\ answers' \subseteq [actor : Actors, op : Ops, key : Keys, digest : Digests,
                                 body : Systems]
      BY <1>4, <1>6 DEF IInv, TypeOK
    <2>3. systems' \in [Systems -> System \cup {NoSystem}]
      BY <1>1, <1>5 DEF IInv, TypeOK
    <2>4. QED
      BY <1>1, <2>1, <2>2, <2>3, FreeFacts DEF IInv, TypeOK
  <1>8. SessionInv' /\ PageShape'
    BY <1>1, <1>7, ReleaseSession
  <1>9. RecordsOK' /\ OneEffectPerKey' /\ AnswersOK'
    BY <1>1, <1>2, CommitStep DEF IInv
  <1>10. ASSUME NEW e \in effects' PROVE EffectOK(e)'
    <2>1. CASE e \in effects
      BY <1>5, <2>1 DEF IInv, RegistryInv, EffectOK, TypeOK
    <2>2. CASE e \notin effects
      BY <1>5, <1>6, <2>2 DEF EffectOK
    <2>3. QED
      BY <2>1, <2>2
  <1>11. req'[c] = Free /\ \A e \in Clients \ {c} : req'[e] = req[e]
    BY <1>1 DEF IInv, TypeOK
  <1>12. LocksHeldOnce'
    BY <1>11, FreeFacts DEF IInv, RegistryInv, LocksHeldOnce
  <1>13. ASSUME NEW e \in Clients PROVE ArchiveOK(req[e])'
    <2>1. CASE e = c
      BY <1>11, <2>1, FreeFacts DEF ArchiveOK
    <2>2. CASE e # c /\ req[e].at = "archiving"
      <3>1. ArchiveOK(req[e]) /\ req'[e] = req[e]
        BY <1>11, <2>2 DEF IInv, RegistryInv
      <3>2. ~(req[e].actor = a /\ req[e].key = k)
        BY <1>1, <2>2 DEF IInv, RegistryInv, LocksHeldOnce
      <3>3. \A r \in records' :
               r.actor = req[e].actor /\ r.key = req[e].key => r \in records
        BY <1>6, <3>2 DEF Outcome
      <3>4. QED
        BY <1>5, <3>1, <3>3 DEF ArchiveOK
    <2>3. CASE e # c /\ req[e].at # "archiving"
      BY <1>11, <2>3 DEF ArchiveOK
    <2>4. QED
      BY <2>1, <2>2, <2>3
  <1>14. QED
    BY <1>7, <1>8, <1>9, <1>10, <1>12, <1>13 DEF IInv, RegistryInv

-----------------------------------------------------------------------------
LEMMA NextInvariant == IInv /\ [Next]_vars => IInv'
  <1> SUFFICES ASSUME IInv, [Next]_vars PROVE IInv'
    OBVIOUS
  <1>1. CASE Tick \/ Purge
    BY <1>1, TickInvariant, PurgeInvariant
  <1>2. CASE \E t \in Tokens : BeginLogin(t)
    BY <1>2, BeginLoginInvariant
  <1>3. ASSUME NEW c \in Clients, \E t \in Tokens : ReadLogin(c, t) \/ Load(c, t)
        PROVE  IInv'
    BY <1>3, ReadLoginInvariant, LoadInvariant
  <1>4. ASSUME NEW c \in Clients, Callback(c) \/ Touch(c) \/ Logout(c) \/ Refuse(c)
        PROVE  IInv'
    BY <1>4, CallbackInvariant, TouchInvariant, LogoutInvariant, RefuseInvariant
  <1>5. ASSUME NEW c \in Clients,
               CreateSystem(c) \/ ReplayArchive(c) \/ ReadArchive(c) \/ Archive(c)
        PROVE  IInv'
    BY <1>5, CreateSystemInvariant, ReplayArchiveInvariant, ReadArchiveInvariant,
       ArchiveInvariant
  <1>6. ASSUME NEW c \in Clients, OpenList(c) \/ ListPage(c)
        PROVE  IInv'
    BY <1>6, OpenListInvariant, ListPageInvariant
  <1>7. CASE UNCHANGED vars
    <2>1. TypeOK' /\ PageShape'
      BY <1>7 DEF IInv, TypeOK, PageShape, vars
    <2>2. clock \in 0..MaxClock /\ clock <= clock
      BY TimeFacts DEF IInv, TypeOK
    <2>3. SessionInv' /\ RegistryInv'
      BY <1>7, <2>2, SessionFrame, RegistryFrame DEF IInv, vars, registryVars
    <2>4. QED
      BY <2>1, <2>3 DEF IInv
  <1>8. QED
    BY <1>1, <1>2, <1>3, <1>4, <1>5, <1>6, <1>7 DEF Next

(* Every state has the types, and every session, request, record and       *)
(* effect relies only on what is still so.                                 *)
THEOREM RequestsInvariant == Spec => []IInv
  BY InitInvariant, NextInvariant, PTL DEF Spec

(* One key of one actor has one effect within the retention, and every     *)
(* answer about it, replayed or not, is that effect's and still true       *)
(* (load_idempotency_replay, record_idempotency_outcome, archive_system).  *)
THEOREM RequestsAreIdempotent == Spec => []RepeatsAreIdempotent
  <1>1. ASSUME IInv, NEW x \in answers
        PROVE  /\ \E e \in effects : /\ e.actor = x.actor /\ e.op = x.op /\ e.key = x.key
                                     /\ e.digest = x.digest /\ e.body = x.body
               /\ x.op = "systems.create" =>
                    systems[x.body].name = x.digest.name /\ systems[x.body].owner = x.digest.owner
               /\ x.op = "systems.archive" => systems[x.body].archived # 0
    <2>1. PICK e \in effects : SameKey(e, x) /\ e.digest = x.digest /\ e.body = x.body
      BY <1>1 DEF IInv, RegistryInv, AnswersOK
    <2>2. EffectOK(e)
      BY <1>1 DEF IInv, RegistryInv
    <2>3. QED
      BY <2>1, <2>2 DEF SameKey, EffectOK
  <1>2. IInv => AnswersAreOwn
    BY <1>1 DEF AnswersAreOwn
  <1>3. IInv => RepeatsAreIdempotent
    BY <1>2 DEF RepeatsAreIdempotent, IInv, RegistryInv
  <1>4. QED
    BY <1>3, RequestsInvariant, PTL

(* A session that was logged out stays out, and none is admitted after its *)
(* deadlines, whatever order last_seen_at is written in                    *)
(* (load_valid_session, delete_auth_session, get_auth_callback).           *)
THEOREM RequestsSessionsEnd == Spec => []SessionsEnd
  <1>1. ASSUME IInv, NEW t \in Tokens, NEW n \in served[t]
        PROVE  \E m \in served[t] :
                  /\ \A x \in served[t] : m <= x
                  /\ n < m + Absolute
                  /\ n > m => \E x \in served[t] : x < n /\ n < x + Idle
    <2>1. TokenOK(t) /\ t \in spent
      BY <1>1 DEF IInv, SessionInv, TokenOK
    <2>2. PICK m \in served[t] : SessionFrom(t, m)
      BY <2>1 DEF TokenOK
    <2>3. QED
      BY <2>2 DEF SessionFrom
  <1>2. IInv => SessionsEnd
    BY <1>1 DEF SessionsEnd, IInv, SessionInv, TokenOK
  <1>3. QED
    BY <1>2, RequestsInvariant, PTL

(* Rows, requests and histories keep their types.                          *)
THEOREM RequestsTypeOK == Spec => []TypeOK
  BY RequestsInvariant, PTL DEF IInv

-----------------------------------------------------------------------------
(* The pages                                                               *)

(* What a traversal knows between two pages: what it has shown lies at or  *)
(* before the cursor, and what was due and not shown lies after it.        *)
PagesOK ==
    /\ ~page.again
    /\ page.after \in Nat \X Nat
    /\ \A s \in page.due : systems[s] # NoSystem
    /\ \A s \in page.listed : systems[s] # NoSystem /\ ~After(page.after, Position(s))
    /\ \A s \in page.due : \/ s \in page.listed
                           \/ s \in Rest(page.actor, page.all, page.after)
                           \/ s \notin Listed(page.actor, page.all)

(* The natural numbers in the form the library's theorem on least elements *)
(* of well-founded relations takes.                                        *)
LEMMA NatOrder ==
    \E R : IsWellFoundedOn(R, Nat) /\ \A y, x \in Nat : <<y, x>> \in R <=> y < x
  <1>1. IsWellFoundedOn(OpToRel(<, Nat), Nat)
    BY NatLessThanWellFounded
  <1>2. \A y, x \in Nat : <<y, x>> \in OpToRel(<, Nat) <=> y < x
    BY DEF OpToRel
  <1>3. QED
    BY <1>1, <1>2, Zenon

(* A nonempty set of natural numbers has a least element.                  *)
LEMMA LeastNumber ==
    ASSUME NEW T, T \subseteq Nat, T # {}
    PROVE  \E x \in T : \A y \in T : x <= y
  <1>1. PICK R : IsWellFoundedOn(R, Nat) /\ \A y, x \in Nat : <<y, x>> \in R <=> y < x
    BY NatOrder
  <1>2. IsWellFoundedOn(R, Nat)
    BY <1>1
  <1>3. \A y, x \in Nat : <<y, x>> \in R <=> y < x
    BY <1>1
  <1>4. \E x \in T : \A y \in T : ~(<<y, x>> \in R)
    BY <1>2, WFMin
  <1>5. PICK x \in T : \A y \in T : ~(<<y, x>> \in R)
    BY <1>4
  <1>6. ASSUME NEW y \in T PROVE x <= y
    <2>1. x \in Nat /\ y \in Nat
      OBVIOUS
    <2>2. ~(<<y, x>> \in R)
      BY <1>5
    <2>3. ~(y < x)
      BY <1>3, <2>1, <2>2, Zenon
    <2>4. QED
      BY <2>1, <2>3
  <1>7. QED
    BY <1>6

LEMMA PositionType ==
    ASSUME TypeOK, NEW s \in Systems
    PROVE  /\ systems[s].created \in Nat /\ systems[s].created <= MaxClock
           /\ s \in Nat /\ s <= MaxSystems
           /\ Position(s) = <<systems[s].created, s>> /\ Position(s) \in Nat \X Nat
  <1>1. systems[s].created \in 0..MaxClock
    BY TimeFacts DEF TypeOK, System, NoSystem
  <1>2. QED
    BY <1>1, TimeFacts DEF Position, Systems

(* The rows of a page have a last one, by time and then by identifier:     *)
(* the cursor of list_systems names a row.                                 *)
LEMMA LastRow ==
    ASSUME TypeOK, NEW rows, rows \subseteq Systems, rows # {}
    PROVE  \E p \in {Position(s) : s \in rows} : \A s \in rows : ~After(p, Position(s))
  <1> DEFINE C(s) == systems[s].created
             ages == {MaxClock - C(s) : s \in rows}
  <1>1. \A s \in rows : /\ C(s) \in Nat /\ C(s) <= MaxClock /\ s \in Nat /\ s <= MaxSystems
                        /\ Position(s) = <<C(s), s>>
    BY PositionType
  <1>2. MaxClock \in Nat /\ MaxSystems \in Nat
    BY TimeFacts
  <1> HIDE DEF C
  <1>3. ages \subseteq Nat /\ ages # {}
    BY <1>1, <1>2
  <1>4. PICK x \in ages : \A y \in ages : x <= y
    BY <1>3, LeastNumber
  <1>5. PICK newest \in rows : x = MaxClock - C(newest)
    BY <1>4
  <1>6. \A s \in rows : C(s) <= C(newest)
    <2>1. ASSUME NEW s \in rows PROVE C(s) <= C(newest)
      <3>1. MaxClock - C(s) \in ages
        OBVIOUS
      <3>2. x <= MaxClock - C(s)
        BY <1>4, <3>1
      <3>3. QED
        BY <1>1, <1>2, <1>5, <3>2
    <2>2. QED
      BY <2>1
  <1> DEFINE latest == {s \in rows : C(s) = C(newest)}
             ranks  == {MaxSystems - s : s \in latest}
  <1>7. ranks \subseteq Nat /\ ranks # {}
    BY <1>1, <1>2
  <1>8. PICK z \in ranks : \A y \in ranks : z <= y
    BY <1>7, LeastNumber
  <1>9. PICK last \in latest : z = MaxSystems - last
    BY <1>8
  <1>10. \A s \in latest : s <= last
    <2>1. ASSUME NEW s \in latest PROVE s <= last
      <3>1. MaxSystems - s \in ranks
        OBVIOUS
      <3>2. z <= MaxSystems - s
        BY <1>8, <3>1
      <3>3. QED
        BY <1>1, <1>2, <1>9, <3>2
    <2>2. QED
      BY <2>1
  <1>11. last \in rows /\ C(last) = C(newest)
    OBVIOUS
  <1>12. ASSUME NEW s \in rows PROVE ~After(Position(last), Position(s))
    <2>1. C(s) <= C(last)
      BY <1>6, <1>11
    <2>2. C(s) = C(last) => s <= last
      BY <1>10, <1>11
    <2>3. Position(s) = <<C(s), s>> /\ Position(last) = <<C(last), last>>
      BY <1>1, <1>11
    <2>4. C(s) \in Nat /\ C(last) \in Nat /\ s \in Nat /\ last \in Nat
      BY <1>1, <1>11
    <2>5. QED
      BY <2>1, <2>2, <2>3, <2>4 DEF After
  <1>13. QED
    BY <1>11, <1>12

LEMMA AfterTransitive ==
    ASSUME NEW p \in Nat \X Nat, NEW q \in Nat \X Nat, NEW r \in Nat \X Nat,
           After(p, q), After(q, r)
    PROVE  After(p, r)
  BY DEF After

(* A system keeps its name, owner and age, and is never taken back out of  *)
(* the archive.                                                            *)
SystemsOnlyGrow ==
    \A s \in Systems : systems[s] # NoSystem =>
        /\ systems'[s] # NoSystem
        /\ systems'[s].name = systems[s].name /\ systems'[s].owner = systems[s].owner
        /\ systems'[s].created = systems[s].created
        /\ systems[s].archived # 0 => systems'[s].archived # 0

LEMMA RegistryGrows ==
    ASSUME IInv, [Next]_vars
    PROVE  SystemsOnlyGrow
  <1>1. CASE UNCHANGED systems
    BY <1>1 DEF SystemsOnlyGrow
  <1>2. ASSUME NEW c \in Clients, CreateSystem(c) PROVE SystemsOnlyGrow
    <2>1. CASE \E s \in Systems : \E row :
                 /\ systems[s] = NoSystem
                 /\ systems' = [systems EXCEPT ![s] = row]
      BY <2>1 DEF SystemsOnlyGrow, IInv, TypeOK
    <2>2. \/ UNCHANGED systems
          \/ \E s \in Systems : \E row :
               /\ systems[s] = NoSystem
               /\ systems' = [systems EXCEPT ![s] = row]
      BY <1>2 DEF CreateSystem
    <2>3. QED
      BY <1>1, <2>1, <2>2
  <1>3. ASSUME NEW c \in Clients, Archive(c) PROVE SystemsOnlyGrow
    <2> DEFINE q == req[c]
               then == IF q.was = 0 THEN q.now + 1 ELSE systems[q.system].archived
    <2>1. /\ q.at = "archiving" /\ systems' = [systems EXCEPT ![q.system].archived = then]
      BY <1>3 DEF Archive
    <2>2. /\ q.system \in Systems /\ systems[q.system] # NoSystem
          /\ q.was # 0 => systems[q.system].archived # 0
          /\ q.now \in Nat
      BY <2>1, TimeFacts DEF IInv, RegistryInv, ArchiveOK, TypeOK, Request
    <2>3. systems[q.system] \in System
      BY <2>2 DEF IInv, TypeOK
    <2>4. then # 0
      BY <2>2
    <2> HIDE DEF q, then
    <2>5. systems'[q.system] = [systems[q.system] EXCEPT !.archived = then]
          /\ \A s \in Systems \ {q.system} : systems'[s] = systems[s]
      BY <2>1, <2>2 DEF IInv, TypeOK
    <2>6. /\ systems'[q.system].archived = then
          /\ systems'[q.system].name = systems[q.system].name
          /\ systems'[q.system].owner = systems[q.system].owner
          /\ systems'[q.system].created = systems[q.system].created
      BY <2>3, <2>5 DEF System
    <2>7. systems'[q.system] # NoSystem
      BY <2>4, <2>6 DEF NoSystem
    <2>8. QED
      BY <2>4, <2>5, <2>6, <2>7 DEF SystemsOnlyGrow
  <1>4. CASE UNCHANGED vars
    BY <1>1, <1>4 DEF vars
  <1>5. CASE Tick \/ Purge \/ \E t \in Tokens : BeginLogin(t)
    BY <1>1, <1>5 DEF Tick, Purge, BeginLogin, registryVars
  <1>6. ASSUME NEW c \in Clients,
               \/ \E t \in Tokens : ReadLogin(c, t) \/ Load(c, t)
               \/ Callback(c) \/ Touch(c) \/ ReplayArchive(c) \/ ReadArchive(c)
               \/ Refuse(c) \/ OpenList(c) \/ ListPage(c) \/ Logout(c)
        PROVE  SystemsOnlyGrow
    BY <1>1, <1>6 DEF ReadLogin, Load, Callback, Touch, ReplayArchive, ReadArchive,
                      Refuse, OpenList, ListPage, Logout, registryVars
  <1>7. QED
    BY <1>2, <1>3, <1>4, <1>5, <1>6 DEF Next

(* Creating and archiving between two pages disturbs no traversal.         *)
LEMMA PagesFrame ==
    ASSUME IInv, PagesOK, SystemsOnlyGrow, UNCHANGED page
    PROVE  PagesOK'
  <1>1. page.due \subseteq Systems /\ page.listed \subseteq Systems
    BY DEF IInv, TypeOK
  <1>2. ASSUME NEW s \in Systems, systems[s] # NoSystem
        PROVE  /\ systems'[s] # NoSystem /\ Position(s)' = Position(s)
               /\ s \in Listed(page.actor, page.all)' => s \in Listed(page.actor, page.all)
    BY <1>2 DEF SystemsOnlyGrow, Position, Listed, MayRead, MayMutate
  <1>3. ASSUME NEW s \in page.listed
        PROVE  systems'[s] # NoSystem /\ ~After(page.after, Position(s))'
    <2>1. s \in Systems /\ systems[s] # NoSystem /\ ~After(page.after, Position(s))
      BY <1>1 DEF PagesOK
    <2>2. After(page.after, Position(s))' <=> After(page.after', Position(s)')
      BY DEF After
    <2>3. QED
      BY <1>2, <2>1, <2>2
  <1>4. ASSUME NEW s \in page.due
        PROVE  /\ systems'[s] # NoSystem
               /\ \/ s \in page.listed'
                  \/ s \in Rest(page.actor, page.all, page.after)'
                  \/ s \notin Listed(page.actor, page.all)'
    <2>1. s \in Systems /\ systems[s] # NoSystem
      BY <1>1 DEF PagesOK
    <2>2. CASE s \in page.listed \/ s \notin Listed(page.actor, page.all)
      BY <1>2, <2>1, <2>2
    <2>3. CASE s \in Rest(page.actor, page.all, page.after)
      <3>1. After(page.after, Position(s))
        BY <2>3 DEF Rest
      <3>2. After(page.after', Position(s)')
        BY <1>2, <2>1, <3>1
      <3>3. QED
        BY <1>2, <2>1, <3>2 DEF Rest
    <2>4. QED
      BY <2>2, <2>3 DEF PagesOK
  <1>5. QED
    BY <1>3, <1>4 DEF PagesOK

LEMMA OpenListPages ==
    ASSUME IInv, NEW c \in Clients, OpenList(c)
    PROVE  PagesOK'
  <1>1. PICK all \in BOOLEAN :
            page' = [NoPage EXCEPT !.actor = req[c].actor, !.all = all,
                                   !.due = Listed(req[c].actor, all)]
    BY DEF OpenList
  <1>2. UNCHANGED systems
    BY DEF OpenList, registryVars
  <1> DEFINE a == req[c].actor
             due == Listed(a, all)
  <1>3. \A s \in due : s \in Systems /\ systems[s] # NoSystem
    BY DEF Listed
  <1> HIDE DEF a, due
  <1>4. page' = [actor |-> a, all |-> all, after |-> <<0, 0>>, due |-> due,
                 listed |-> {}, again |-> FALSE]
    BY <1>1 DEF NoPage, a, due
  <1>5. /\ page'.after = <<0, 0>> /\ page'.due = due /\ page'.actor = a /\ page'.all = all
        /\ page'.listed = {} /\ page'.again = FALSE
    BY <1>4
  <1>6. ASSUME NEW s \in page.due'
        PROVE  /\ systems'[s] # NoSystem
               /\ \/ s \in Rest(page.actor, page.all, page.after)'
                  \/ s \notin Listed(page.actor, page.all)'
    <2>1. s \in Systems /\ systems[s] # NoSystem /\ TypeOK
      BY <1>3, <1>5 DEF IInv
    <2>2. Position(s) = <<systems[s].created, s>> /\ systems[s].created \in Nat /\ s \in Nat
      BY <2>1, PositionType
    <2>3. s > 0
      BY <2>1, TimeFacts DEF Systems
    <2>4. After(<<0, 0>>, Position(s))
      BY <2>2, <2>3 DEF After
    <2>5. Position(s)' = Position(s)
      BY <1>2 DEF Position
    <2>6. QED
      BY <1>2, <1>5, <2>1, <2>4, <2>5 DEF Rest
  <1>7. QED
    BY <1>5, <1>6 DEF PagesOK

(* A page moves the cursor to its last row: what it shows lies before, and *)
(* what it leaves lies after.                                              *)
LEMMA ListPagePages ==
    ASSUME IInv, PagesOK, NEW c \in Clients, ListPage(c)
    PROVE  PagesOK'
  <1> DEFINE rest == Rest(page.actor, page.all, page.after)
             Last(rows) == CHOOSE p \in {Position(s) : s \in rows} :
                              \A s \in rows : ~After(p, Position(s))
  <1>1. rest \subseteq Systems /\ IsFiniteSet(rest) /\ page.listed \subseteq Systems
        /\ \A s \in rest : systems[s] # NoSystem /\ After(page.after, Position(s))
    <2>1. rest \subseteq Systems /\ \A s \in rest : systems[s] # NoSystem
                                                    /\ After(page.after, Position(s))
      BY DEF Rest, Listed
    <2>2. IsFiniteSet(Systems)
      BY TimeFacts, FS_Interval DEF Systems
    <2>3. QED
      BY <2>1, <2>2, FS_Subset DEF IInv, TypeOK
  <1>2. PICK rows \in SUBSET rest :
          /\ Cardinality(rows) = IF Cardinality(rest) < PageLimit
                                 THEN Cardinality(rest) ELSE PageLimit
          /\ \A s \in rows, t \in rest \ rows : After(Position(s), Position(t))
          /\ page' = IF rows # rest
                     THEN [page EXCEPT !.after = Last(rows), !.listed = @ \cup rows,
                                       !.again = @ \/ rows \cap page.listed # {}]
                     ELSE NoPage
    BY DEF ListPage
  <1>3. UNCHANGED systems
    BY DEF ListPage, registryVars
  <1>4. \A s \in Systems : Position(s)' = Position(s)
    BY <1>3 DEF Position
  <1>5. CASE rows = rest
    <2>1. page' = NoPage
      BY <1>2, <1>5
    <2>2. /\ page'.again = FALSE /\ page'.after = <<0, 0>>
          /\ page'.due = {} /\ page'.listed = {}
      BY <2>1 DEF NoPage
    <2>3. QED
      BY <2>2 DEF PagesOK
  <1>6. CASE rows # rest
    <2>1. rows # {}
      <3>1. SUFFICES ASSUME rows = {} PROVE FALSE
        OBVIOUS
      <3>2. Cardinality(rows) = 0
        BY <3>1, FS_EmptySet
      <3>3. PageLimit \in Nat \ {0} /\ Cardinality(rest) \in Nat
        BY <1>1, TimesAssumption, FS_CardinalityType
      <3>4. Cardinality(rest) = 0
        BY <1>2, <3>2, <3>3
      <3>5. rest = {}
        BY <1>1, <3>4, FS_EmptySet
      <3>6. QED
        BY <1>6, <3>1, <3>5
    <2> DEFINE p == Last(rows)
    <2>2. \E x \in {Position(s) : s \in rows} : \A s \in rows : ~After(x, Position(s))
      BY <1>1, <2>1, LastRow DEF IInv
    <2>3. p \in {Position(s) : s \in rows} /\ \A s \in rows : ~After(p, Position(s))
      BY <2>2
    <2>4. page' = [page EXCEPT !.after = p, !.listed = @ \cup rows,
                               !.again = @ \/ rows \cap page.listed # {}]
      BY <1>2, <1>6
    <2> HIDE DEF p, Last, rest
    <2>5. /\ page'.after = p /\ page'.listed = page.listed \cup rows
          /\ page'.again = (page.again \/ rows \cap page.listed # {})
          /\ page'.due = page.due /\ page'.actor = page.actor /\ page'.all = page.all
      BY <2>4 DEF IInv, PageShape
    <2>6. PICK last \in rows : p = Position(last)
      BY <2>3
    <2>7. /\ p \in Nat \X Nat /\ page.after \in Nat \X Nat
          /\ After(page.after, p)
          /\ \A s \in Systems : Position(s) \in Nat \X Nat
      BY <1>1, <2>6, PositionType DEF IInv, PagesOK
    <2>8. rows \cap page.listed = {}
      BY <1>1 DEF PagesOK
    <2>9. ASSUME NEW s \in page.listed'
          PROVE  systems'[s] # NoSystem /\ ~After(page.after, Position(s))'
      <3>1. s \in Systems /\ systems[s] # NoSystem
        BY <1>1, <2>5 DEF PagesOK
      <3>2. ~After(p, Position(s))
        <4>1. CASE s \in rows
          BY <2>3, <4>1
        <4>2. CASE s \in page.listed
          <5>1. ~After(page.after, Position(s))
            BY <4>2 DEF PagesOK
          <5>2. QED
            BY <2>7, <3>1, <5>1, AfterTransitive
        <4>3. QED
          BY <2>5, <4>1, <4>2
      <3>3. ~After(page'.after, Position(s)')
        BY <1>4, <2>5, <3>1, <3>2
      <3>4. QED
        BY <1>3, <3>1, <3>3 DEF After
    <2>10. ASSUME NEW s \in page.due'
           PROVE  /\ systems'[s] # NoSystem
                  /\ \/ s \in page.listed'
                     \/ s \in Rest(page.actor, page.all, page.after)'
                     \/ s \notin Listed(page.actor, page.all)'
      <3>1. s \in Systems /\ systems[s] # NoSystem
        BY <2>5 DEF IInv, TypeOK, PagesOK
      <3>2. Listed(page.actor, page.all)' = Listed(page.actor, page.all)
        BY <1>3, <2>5 DEF Listed, MayRead, MayMutate
      <3>3. CASE s \in page.listed \/ s \in rows
        BY <1>3, <2>5, <3>1, <3>3
      <3>4. CASE s \notin Listed(page.actor, page.all)
        BY <1>3, <3>1, <3>2, <3>4
      <3>5. CASE s \in rest \ rows
        <4>1. After(p, Position(s))
          BY <1>2, <2>6, <3>5
        <4>2. After(page'.after, Position(s)')
          BY <1>4, <2>5, <3>1, <4>1
        <4>3. s \in Listed(page.actor, page.all)
          BY <3>5 DEF rest, Rest
        <4>4. s \in Rest(page.actor, page.all, page.after)'
          BY <3>2, <4>2, <4>3 DEF Rest
        <4>5. QED
          BY <1>3, <3>1, <4>4
      <3>6. QED
        BY <2>5, <3>3, <3>4, <3>5 DEF PagesOK, rest
    <2>11. QED
      BY <2>5, <2>7, <2>8, <2>9, <2>10 DEF PagesOK
  <1>7. QED
    BY <1>5, <1>6

LEMMA PagesInvariant ==
    ASSUME IInv, PagesOK, [Next]_vars
    PROVE  PagesOK'
  <1>1. CASE UNCHANGED page
    BY <1>1, RegistryGrows, PagesFrame
  <1>2. CASE \E c \in Clients : OpenList(c) \/ ListPage(c)
    BY <1>2, OpenListPages, ListPagePages
  <1>3. UNCHANGED page \/ \E c \in Clients : OpenList(c) \/ ListPage(c)
    <2>1. CASE UNCHANGED vars
      BY <2>1 DEF vars
    <2>2. CASE Tick \/ Purge \/ \E t \in Tokens : BeginLogin(t)
      BY <2>2 DEF Tick, Purge, BeginLogin
    <2>3. ASSUME NEW c \in Clients,
                 \/ \E t \in Tokens : ReadLogin(c, t) \/ Load(c, t)
                 \/ Callback(c) \/ Touch(c) \/ CreateSystem(c) \/ ReplayArchive(c)
                 \/ ReadArchive(c) \/ Archive(c) \/ Refuse(c) \/ Logout(c)
          PROVE  UNCHANGED page
      BY <2>3 DEF ReadLogin, Load, Callback, Touch, CreateSystem, ReplayArchive,
                  ReadArchive, Archive, Refuse, Logout
    <2>4. QED
      BY <2>1, <2>2, <2>3 DEF Next
  <1>4. QED
    BY <1>1, <1>2, <1>3

(* A traversal of the list, page by page, shows no system twice and leaves *)
(* out none that was there all along (list_systems and its cursor).        *)
THEOREM RequestsPagesAreComplete == Spec => PagesAreComplete
  <1> DEFINE Complete == /\ ~page'.again
                         /\ (page # NoPage /\ page' = NoPage) =>
                              \A s \in page.due :
                                  \/ s \in page.listed
                                  \/ s \in Rest(page.actor, page.all, page.after)
                                  \/ s \notin Listed(page.actor, page.all)
  <1>1. Init => PagesOK
    BY DEF Init, NoPage, PagesOK
  <1>2. IInv /\ PagesOK /\ [Next]_vars => PagesOK'
    BY PagesInvariant
  <1>3. PagesOK /\ PagesOK' => Complete
    BY DEF PagesOK
  <1>4. Spec => [][Complete]_vars
    BY <1>1, <1>2, <1>3, RequestsInvariant, PTL DEF Spec
  <1>5. QED
    BY <1>4 DEF PagesAreComplete
=============================================================================
