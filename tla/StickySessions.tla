--------------------------- MODULE StickySessions ---------------------------
(***************************************************************************)
(* The sticky sessions (src/src/pool/sticky_sessions.rs): get, which drops *)
(* its guard before it removes an expired session, set_or_touch, the       *)
(* dynamic TTL and the cleanup loop of main.  Time is counted in the unit  *)
(* of the bonus (60 s).  Which proxies a session names is in Transparent;  *)
(* here only whether a connection used the same one matters.               *)
(***************************************************************************)
EXTENDS DashMap, Naturals

CONSTANTS
  Peers,     \* client socket addresses
  Tasks,     \* connections that use a session at once
  Ttls,      \* values of sticky_session_ttl
  PerBonus,  \* successes for one unit of bonus  (10)
  MaxCount,  \* bound on success_count
  MaxAge     \* bound on the age of a session

ASSUME StickyAssumption ==
  /\ Ttls \subseteq Nat /\ Ttls # {}
  /\ PerBonus \in Nat \ {0} /\ MaxCount \in Nat \ {0} /\ MaxAge \in Nat
  /\ \A base \in Ttls : 3 * base < MaxAge /\ 2 * base <= MaxCount \div PerBonus

VARIABLES
  sessions,  \* peer -> [age: since last_access, count: success_count]
  using,     \* task -> [pc, peer], see Use
  ttl,       \* ttl_secs
  overtaken  \* history: the tasks in a get whose finding is out of date,
             \* because the session was refreshed or the TTL set since

stickyVars == <<sessions, using, ttl, overtaken>>

Session == [age : 0..MaxAge, count : 1..MaxCount]

(* A connection between two calls: get has found its session expired and has
   dropped the guard, or set_or_touch has found none and is to insert one.  *)
Use == [pc : {"idle", "expired", "none"}, peer : Peers]

(* The connections whose get has found the session of p expired. *)
Lookers(p) == {t \in Tasks : using[t] = [pc |-> "expired", peer |-> p]}

NewSession == [age |-> 0, count |-> 1]

(* Mutant: the bonus is not capped. *)
EffectiveTtlUncapped(s) == ttl + s.count \div PerBonus

EffectiveTtl(s) ==
  LET bonus == s.count \div PerBonus IN
  ttl + (IF bonus < 2 * ttl THEN bonus ELSE 2 * ttl)

StickyInit ==
  /\ sessions = EmptyMap
  /\ using \in [Tasks -> {u \in Use : u.pc = "idle"}]
  /\ ttl \in Ttls
  /\ overtaken = {}

-----------------------------------------------------------------------------
(* Mutant: get forgets the bonus. *)
GetExpiredByBase(t, p) ==
  /\ using[t].pc = "idle"
  /\ p \in DOMAIN sessions
  /\ sessions[p].age > ttl
  /\ using' = [using EXCEPT ![t] = [pc |-> "expired", peer |-> p]]
  /\ UNCHANGED <<sessions, ttl, overtaken>>

(* get: a session past its TTL; any other one is only read. *)
GetExpired(t, p) ==
  /\ using[t].pc = "idle"
  /\ p \in DOMAIN sessions
  /\ sessions[p].age > EffectiveTtl(sessions[p])
  /\ using' = [using EXCEPT ![t] = [pc |-> "expired", peer |-> p]]
  /\ UNCHANGED <<sessions, ttl, overtaken>>

(* remove takes whatever is there by now. *)
GetRemoves(t) ==
  /\ using[t].pc = "expired"
  /\ sessions' = Drop(sessions, {using[t].peer})
  /\ using' = [using EXCEPT ![t].pc = "idle"]
  /\ overtaken' = overtaken \ {t}
  /\ UNCHANGED ttl

(* set_or_touch with a session: the same proxy, or another one. *)
Touched(s, same) ==
  [age |-> 0,
   count |-> IF ~same THEN 1 ELSE IF s.count < MaxCount THEN s.count + 1 ELSE MaxCount]

Touches(t, p, same) ==
  /\ using[t].pc = "idle"
  /\ p \in DOMAIN sessions
  /\ sessions' = Put(sessions, p, Touched(sessions[p], same))
  /\ overtaken' = overtaken \cup Lookers(p)
  /\ UNCHANGED <<using, ttl>>

FindsNone(t, p) ==
  /\ using[t].pc = "idle"
  /\ p \notin DOMAIN sessions
  /\ using' = [using EXCEPT ![t] = [pc |-> "none", peer |-> p]]
  /\ UNCHANGED <<sessions, ttl, overtaken>>

Inserts(t) ==
  /\ using[t].pc = "none"
  /\ sessions' = Put(sessions, using[t].peer, NewSession)
  /\ overtaken' = overtaken \cup Lookers(using[t].peer)
  /\ using' = [using EXCEPT ![t].pc = "idle"]
  /\ UNCHANGED ttl

Outdated == {p \in DOMAIN sessions : sessions[p].age >= EffectiveTtl(sessions[p])}

(* cleanup, every 60 s: retain. *)
Cleanup ==
  /\ sessions' = Drop(sessions, Outdated)
  /\ UNCHANGED <<using, ttl, overtaken>>

Tick ==
  /\ sessions' = [p \in DOMAIN sessions |->
                    [sessions[p] EXCEPT !.age = IF @ < MaxAge THEN @ + 1 ELSE @]]
  /\ UNCHANGED <<using, ttl, overtaken>>

StickyNext ==
  \/ \E t \in Tasks :
       \/ GetRemoves(t) \/ Inserts(t)
       \/ \E p \in Peers :
            \/ GetExpired(t, p) \/ FindsNone(t, p)
            \/ \E same \in BOOLEAN : Touches(t, p, same)
  \/ Cleanup \/ Tick

(* Time passes and the cleanup loop ticks.  Nothing is assumed of clients. *)
StickyFairness ==
  /\ WF_stickyVars(Tick)
  /\ WF_stickyVars(Cleanup)

-----------------------------------------------------------------------------
(* Types of the sessions and of the tasks that use them. *)
StickyTypeOK ==
  /\ DOMAIN sessions \subseteq Peers
  /\ \A p \in DOMAIN sessions : sessions[p] \in Session
  /\ using \in [Tasks -> Use]
  /\ ttl \in Ttls
  /\ overtaken \subseteq Tasks
=============================================================================
