------------------------- MODULE ConfigReloadProofs -------------------------
(***************************************************************************)
(* What is proved of the hot reload and of the sticky sessions, for any    *)
(* peers, connections, TTLs, capacity of the channel and merging of file   *)
(* events: types, that between two reloads the TTL and the excluded        *)
(* countries are those of one configuration, and that no session is        *)
(* removed before its effective TTL but by a get that has been overtaken   *)
(* by a refresh or a new TTL since its look.                               *)
(***************************************************************************)
EXTENDS ConfigReload, TLAPS

(* How far the reload loop has applied the configuration that it has loaded.
   Only the loop sets ttl and countries, and only it loads.                 *)
Applied ==
  /\ loop \in {"recv", "reload"} => countries = config
  /\ loop \in {"recv", "reload", "countries"} => ttl = config

(* What a get has found expired stays so, if it is still there, unless the get
   is overtaken: time only adds to the age, cleanup and other gets only
   remove, and the bonus changes with a refresh only.                       *)
Found(t) == LET s == sessions[using[t].peer] IN s.age > EffectiveTtl(s)

LookOK ==
  \A t \in Tasks :
    /\ using[t].pc = "expired" /\ using[t].peer \in DOMAIN sessions
    /\ t \notin overtaken
    => Found(t)

CInv == TypeOK /\ Applied /\ LookOK

-----------------------------------------------------------------------------
(* Sticky sessions: what the calls do to the map. *)

(* insert in set_or_touch: the map of sessions keeps its type. *)
LEMMA PutTyped ==
  ASSUME NEW m, NEW p \in Peers, NEW s \in Session,
         DOMAIN m \subseteq Peers, \A x \in DOMAIN m : m[x] \in Session
  PROVE  /\ DOMAIN Put(m, p, s) \subseteq Peers
         /\ \A x \in DOMAIN Put(m, p, s) : Put(m, p, s)[x] \in Session
  BY DEF Put

(* remove and retain: the map of sessions keeps its type. *)
LEMMA DropTyped ==
  ASSUME NEW m, NEW ks,
         DOMAIN m \subseteq Peers, \A x \in DOMAIN m : m[x] \in Session
  PROVE  /\ DOMAIN Drop(m, ks) \subseteq Peers
         /\ \A x \in DOMAIN Drop(m, ks) : Drop(m, ks)[x] \in Session
  BY DEF Drop

(* set_or_touch resets the age and counts up to the bound or from 1. *)
LEMMA TouchedTyped ==
  ASSUME NEW s \in Session, NEW same \in BOOLEAN
  PROVE  Touched(s, same) \in Session
  BY StickyAssumption DEF Touched, Session

(* A first session is one. *)
LEMMA NewTyped == NewSession \in Session
  BY StickyAssumption DEF NewSession, Session

(* The age of a session stops at its bound. *)
LEMMA OlderTyped ==
  ASSUME NEW s \in Session
  PROVE  [s EXCEPT !.age = IF @ < MaxAge THEN @ + 1 ELSE @] \in Session
  BY StickyAssumption DEF Session

(* Every call of the sticky sessions, the cleanup loop and the clock keep the
   types and leave ttl alone.                                               *)
LEMMA StickyStep ==
  ASSUME StickyTypeOK, StickyNext
  PROVE  StickyTypeOK' /\ ttl' = ttl
  <1> USE DEF StickyTypeOK
  <1>1. ASSUME NEW t \in Tasks, GetRemoves(t) PROVE StickyTypeOK' /\ ttl' = ttl
    BY <1>1, DropTyped DEF GetRemoves, Use
  <1>2. ASSUME NEW t \in Tasks, Inserts(t) PROVE StickyTypeOK' /\ ttl' = ttl
    BY <1>2, PutTyped, NewTyped DEF Inserts, Use, Lookers
  <1>3. ASSUME NEW t \in Tasks, NEW p \in Peers, GetExpired(t, p)
        PROVE  StickyTypeOK' /\ ttl' = ttl
    BY <1>3 DEF GetExpired, Use
  <1>4. ASSUME NEW t \in Tasks, NEW p \in Peers, FindsNone(t, p)
        PROVE  StickyTypeOK' /\ ttl' = ttl
    BY <1>4 DEF FindsNone, Use
  <1>5. ASSUME NEW t \in Tasks, NEW p \in Peers, NEW same \in BOOLEAN,
               Touches(t, p, same)
        PROVE  StickyTypeOK' /\ ttl' = ttl
    BY <1>5, PutTyped, TouchedTyped DEF Touches, Lookers
  <1>6. CASE Cleanup
    BY <1>6, DropTyped DEF Cleanup
  <1>7. CASE Tick
    BY <1>7, OlderTyped DEF Tick
  <1> QED BY <1>1, <1>2, <1>3, <1>4, <1>5, <1>6, <1>7 DEF StickyNext

(* A step that leaves the TTL alone keeps a finding about a session that it
   leaves alone or only makes older.                                        *)
LEMMA FoundKept ==
  ASSUME StickyTypeOK, NEW t \in Tasks, Found(t), ttl' = ttl,
         using[t].peer \in DOMAIN sessions, using'[t].peer = using[t].peer,
         sessions'[using[t].peer].count = sessions[using[t].peer].count,
         \/ sessions'[using[t].peer].age = sessions[using[t].peer].age
         \/ sessions'[using[t].peer].age = sessions[using[t].peer].age + 1
  PROVE  Found(t)'
  <1> DEFINE s == sessions[using[t].peer]
             e == EffectiveTtl(s)
  <1>1. s.age \in Nat /\ s.count \in Nat /\ ttl \in Nat
    BY StickyAssumption DEF StickyTypeOK, Session
  <1>2. e \in Nat
    <2>1. s.count \div PerBonus \in Nat
      BY <1>1, StickyAssumption
    <2> QED BY <1>1, <2>1 DEF EffectiveTtl
  <1>3. s.age > e
    BY DEF Found
  <1>4. EffectiveTtl(sessions[using[t].peer])' = e
    BY DEF EffectiveTtl
  <1>5. sessions'[using'[t].peer].age \in {s.age, s.age + 1}
    OBVIOUS
  <1> HIDE DEF e
  <1>6. sessions'[using'[t].peer].age > e
    BY <1>1, <1>2, <1>3, <1>5
  <1> QED BY <1>4, <1>6 DEF Found

(* No call of the sticky sessions makes a get's finding wrong without
   overtaking it.                                                           *)
LEMMA LookKept ==
  ASSUME StickyTypeOK, LookOK, StickyNext
  PROVE  LookOK'
  <1> SUFFICES ASSUME NEW u \in Tasks, using'[u].pc = "expired",
                      using'[u].peer \in DOMAIN sessions', u \notin overtaken'
               PROVE  Found(u)'
    BY DEF LookOK
  <1>0. ttl' = ttl
    BY StickyStep
  <1>u. using \in [Tasks -> Use]
    BY DEF StickyTypeOK
  <1>k. ASSUME using'[u] = using[u], using[u].peer \in DOMAIN sessions,
               u \notin overtaken,
               sessions'[using[u].peer].count = sessions[using[u].peer].count,
               \/ sessions'[using[u].peer].age = sessions[using[u].peer].age
               \/ sessions'[using[u].peer].age = sessions[using[u].peer].age + 1
        PROVE  Found(u)'
    <2>1. Found(u)
      BY <1>k DEF LookOK
    <2> QED BY <1>0, <1>k, <2>1, FoundKept
  <1>1. ASSUME NEW t \in Tasks, GetRemoves(t) PROVE Found(u)'
    BY <1>1, <1>k, <1>u DEF GetRemoves, Drop, Use
  <1>2. ASSUME NEW t \in Tasks, Inserts(t) PROVE Found(u)'
    <2>1. u # t /\ using'[u] = using[u] /\ u \notin overtaken
      BY <1>2, <1>u DEF Inserts, Use
    <2>2. using[u] = [pc |-> "expired", peer |-> using[u].peer]
      BY <1>u, <2>1 DEF Use
    <2>3. using[u].peer # using[t].peer
      BY <1>2, <2>1, <2>2 DEF Inserts, Lookers
    <2> QED BY <1>2, <1>k, <2>1, <2>3 DEF Inserts, Put
  <1>3. ASSUME NEW t \in Tasks, NEW p \in Peers, GetExpired(t, p) PROVE Found(u)'
    <2>1. CASE u = t
      <3>1. using'[u].peer = p /\ sessions' = sessions
        BY <1>3, <1>u, <2>1 DEF GetExpired
      <3>2. EffectiveTtl(sessions[using[u].peer])' = EffectiveTtl(sessions[p])
        BY <1>0, <3>1 DEF EffectiveTtl
      <3> QED BY <1>3, <3>1, <3>2 DEF GetExpired, Found
    <2>2. CASE u # t
      BY <1>3, <1>k, <1>u, <2>2 DEF GetExpired
    <2> QED BY <2>1, <2>2
  <1>4. ASSUME NEW t \in Tasks, NEW p \in Peers, FindsNone(t, p) PROVE Found(u)'
    BY <1>4, <1>k, <1>u DEF FindsNone
  <1>5. ASSUME NEW t \in Tasks, NEW p \in Peers, NEW same \in BOOLEAN,
               Touches(t, p, same)
        PROVE  Found(u)'
    <2>1. using'[u] = using[u] /\ u \notin overtaken
      BY <1>5 DEF Touches
    <2>2. using[u] = [pc |-> "expired", peer |-> using[u].peer]
      BY <1>u, <2>1 DEF Use
    <2>3. using[u].peer # p
      BY <1>5, <2>1, <2>2 DEF Touches, Lookers
    <2> QED BY <1>5, <1>k, <2>1, <2>3 DEF Touches, Put
  <1>6. CASE Cleanup
    BY <1>6, <1>k DEF Cleanup, Drop
  <1>7. CASE Tick
    BY <1>7, <1>k DEF Tick, StickyTypeOK, Session
  <1> QED BY <1>1, <1>2, <1>3, <1>4, <1>5, <1>6, <1>7 DEF StickyNext

(* Which sessions a step of the sticky sessions may remove: what cleanup finds
   past the effective TTL, and what a get has found so and let go of before
   the removal.  Every other call keeps or adds entries.                    *)
LEMMA StickyRemoves ==
  ASSUME StickyTypeOK, LookOK, StickyNext,
         NEW p \in DOMAIN sessions, p \notin DOMAIN sessions'
  PROVE  \/ sessions[p].age >= EffectiveTtl(sessions[p])
         \/ \E t \in overtaken : using[t].peer = p /\ using'[t] # using[t]
  <1>1. ASSUME NEW t \in Tasks, GetRemoves(t)
        PROVE  \/ sessions[p].age >= EffectiveTtl(sessions[p])
               \/ t \in overtaken /\ using[t].peer = p /\ using'[t] # using[t]
    <2>1. using[t].pc = "expired" /\ using[t].peer = p /\ using'[t] # using[t]
      BY <1>1 DEF GetRemoves, Drop, StickyTypeOK, Use
    <2>2. CASE t \notin overtaken
      <3>1. sessions[p].age > EffectiveTtl(sessions[p])
        BY <2>1, <2>2 DEF LookOK, Found
      <3>2. sessions[p].age \in Nat /\ EffectiveTtl(sessions[p]) \in Nat
        <4>1. sessions[p].age \in Nat /\ sessions[p].count \in Nat /\ ttl \in Nat
          BY StickyAssumption DEF StickyTypeOK, Session
        <4>2. sessions[p].count \div PerBonus \in Nat
          BY <4>1, StickyAssumption
        <4> QED BY <4>1, <4>2 DEF EffectiveTtl
      <3> QED BY <3>1, <3>2
    <2> QED BY <2>1, <2>2
  <1>2. ASSUME NEW t \in Tasks, Inserts(t) PROVE FALSE
    BY <1>2 DEF Inserts, Put
  <1>3. ASSUME NEW t \in Tasks, NEW q \in Peers,
               GetExpired(t, q) \/ FindsNone(t, q)
        PROVE  FALSE
    BY <1>3 DEF GetExpired, FindsNone
  <1>4. ASSUME NEW t \in Tasks, NEW q \in Peers, NEW same \in BOOLEAN,
               Touches(t, q, same)
        PROVE  FALSE
    BY <1>4 DEF Touches, Put
  <1>5. CASE Cleanup
    BY <1>5 DEF Cleanup, Drop, Outdated
  <1>6. CASE Tick
    BY <1>6 DEF Tick
  <1> QED BY <1>1, <1>2, <1>3, <1>4, <1>5, <1>6 DEF StickyNext

-----------------------------------------------------------------------------
(* At start the first configuration is applied as a whole. *)
LEMMA InitCInv == Init => CInv
  <1> SUFFICES ASSUME Init PROVE CInv
    OBVIOUS
  <1>1. DOMAIN sessions = {}
    BY DEF Init, StickyInit, EmptyMap
  <1>2. using \in [Tasks -> Use]
    BY DEF Init, StickyInit
  <1>3. StickyTypeOK
    BY <1>1, <1>2 DEF Init, StickyInit, StickyTypeOK
  <1>4. config \in Ttls
    BY ReloadAssumption DEF Init, Loaded
  <1>5. kernel \in 0..MaxKernel /\ channel \in 0..Channel
    BY ReloadAssumption DEF Init
  <1>6. edited \in BOOLEAN /\ countries = config /\ ttl = config
    BY DEF Init
  <1>7. /\ loop \in {"recv", "reload", "ttl", "countries", "ended"}
        /\ watch \in {"starting", "on", "lost", "failed", "stopped"}
        /\ file \in Ttls \cup {Partial, Absent}
    BY DEF Init
  <1>8. LookOK
    BY <1>1 DEF LookOK
  <1> QED BY <1>3, <1>4, <1>5, <1>6, <1>7, <1>8 DEF CInv, TypeOK, Applied

(* Every step of the watcher, the reload loop, the sessions and main. *)
LEMMA StepCInv ==
  ASSUME CInv, Next
  PROVE  CInv'
  <1> USE ReloadAssumption DEF CInv, TypeOK, Applied
  <1>a. ASSUME UNCHANGED stickyVars
        PROVE  StickyTypeOK' /\ LookOK' /\ ttl' = ttl
    BY <1>a DEF stickyVars, StickyTypeOK, LookOK, Found, EffectiveTtl
  <1>n. Notices \in 0..MaxKernel
    BY DEF Notices
  <1>1. CASE StickyNext /\ UNCHANGED reloadVars
    BY <1>1, StickyStep, LookKept DEF reloadVars
  <1>2. CASE Truncates
    BY <1>2, <1>a, <1>n DEF Truncates
  <1>3. ASSUME NEW c \in Ttls, Completes(c) PROVE CInv'
    BY <1>3, <1>a, <1>n DEF Completes
  <1>4. ASSUME NEW c \in Ttls, Replaced(c) PROVE CInv'
    BY <1>4, <1>a, <1>n DEF Replaced
  <1>5. CASE Watches
    BY <1>5, <1>a DEF Watches
  <1>6. CASE Forwards
    BY <1>6, <1>a DEF Forwards
  <1>7. CASE Receives
    BY <1>7, <1>a DEF Receives
  <1>8. CASE ChannelClosed
    BY <1>8, <1>a DEF ChannelClosed
  <1>9. CASE Reloads
    BY <1>9, <1>a DEF Reloads
  <1>10. CASE SetsTtl
    <2>1. LookOK'
      BY <1>10 DEF SetsTtl, LookOK
    <2> QED BY <1>10, <2>1 DEF SetsTtl, StickyTypeOK
  <1>11. CASE SetsCountries
    BY <1>11, <1>a DEF SetsCountries
  <1>12. CASE Stops
    <2>1. LookOK'
      BY <1>12 DEF Stops, LookOK, EmptyMap
    <2> QED BY <1>12, <2>1 DEF Stops, StickyTypeOK, EmptyMap
  <1> QED BY <1>1, <1>2, <1>3, <1>4, <1>5, <1>6, <1>7, <1>8, <1>9, <1>10,
             <1>11, <1>12 DEF Next, ReloadLoop

(* A step that changes nothing. *)
LEMMA StutterCInv ==
  ASSUME CInv, UNCHANGED vars
  PROVE  CInv'
  BY DEF CInv, TypeOK, Applied, LookOK, Found, EffectiveTtl, StickyTypeOK,
         vars, stickyVars, reloadVars

(* The inductive invariant. *)
LEMMA AlwaysCInv == Spec => []CInv
  <1>1. CInv /\ [Next]_vars => CInv'
    BY StepCInv, StutterCInv
  <1> QED BY InitCInv, <1>1, PTL DEF Spec

(* Sessions, configuration, file events and loops have their types: success
   counts stop at their bound, the channel holds no more than its capacity.  *)
THEOREM ReloadTypeCorrect == Spec => []TypeOK
  BY AlwaysCInv, PTL DEF CInv

(* Between two reloads ttl_secs and exclude_countries are those of the one
   configuration that the manager has, after any sequence of edits, failed
   reloads and file events: for any TTLs and any capacity of the channel.    *)
THEOREM ReloadsApplyTogether == Spec => []AppliedTogether
  <1>1. CInv => AppliedTogether
    BY DEF CInv, Applied, AppliedTogether
  <1> QED BY AlwaysCInv, <1>1, PTL

(* What a step may remove of the sessions, main's clear at shutdown included. *)
LEMMA StepRemoves ==
  ASSUME CInv, [Next]_vars,
         NEW p \in DOMAIN sessions, p \notin DOMAIN sessions',
         watch' # "stopped"
  PROVE  \/ sessions[p].age >= EffectiveTtl(sessions[p])
         \/ \E t \in overtaken : using[t].peer = p /\ using'[t] # using[t]
  <1>1. CASE StickyNext /\ UNCHANGED reloadVars
    BY <1>1, StickyRemoves DEF CInv, TypeOK
  <1>2. CASE Stops
    BY <1>2 DEF Stops
  <1>3. CASE UNCHANGED sessions
    BY <1>3
  <1> QED BY <1>1, <1>2, <1>3
          DEF Next, ReloadLoop, Truncates, Completes, Replaced, Watches, Forwards,
              Receives, ChannelClosed, Reloads, SetsTtl, SetsCountries, vars,
              stickyVars

(* While the gateway runs no session is removed before its effective TTL, by
   cleanup or by get, unless another connection refreshed it or a reload set
   the TTL between the look and the remove of that get: for any number of
   connections of one peer, any TTLs and any bonus.                          *)
THEOREM RemovedOnlyWhenIdle == Spec => RemovedWhenIdle
  <1>1. CInv /\ [Next]_vars =>
          [\A p \in DOMAIN sessions :
             p \notin DOMAIN sessions' /\ watch' # "stopped" =>
               \/ sessions[p].age >= EffectiveTtl(sessions[p])
               \/ \E t \in overtaken : using[t].peer = p /\ using'[t] # using[t]]_vars
    BY StepRemoves
  <1> QED BY AlwaysCInv, <1>1, PTL DEF Spec, RemovedWhenIdle
=============================================================================
