-------------------------- MODULE ProxyPoolProofs --------------------------
(***************************************************************************)
(* The shared pool, for any set of keys, any limits and any number of API  *)
(* requests at once.                                                       *)
(***************************************************************************)
EXTENDS ProxyPool, CircuitBreakerProofs, FiniteSetTheorems

(* A DashMap from proxy keys to sound records. *)
MapSound(m) ==
  /\ DOMAIN m \subseteq Keys
  /\ \A k \in DOMAIN m : Sound(m[k])

RequestSound(r) ==
  /\ r \in [op : {"add", "ban", "unban"}, key : Keys, proxy : ProxyRecord]
  /\ Sound(r.proxy)

RequestsSound(q) ==
  /\ DOMAIN q \subseteq Handlers
  /\ \A h \in DOMAIN q : RequestSound(q[h])

TasksOK ==
  /\ inserting \subseteq Keys /\ sweep \subseteq Keys
  /\ batch \subseteq Keys /\ found \in BOOLEAN
  /\ verified \subseteq Keys \X {"true", "false"}
  /\ lookups \subseteq Keys /\ located \subseteq Keys /\ uses \subseteq Keys
  /\ \A k \in located : CountryOf[k] \in Countries

(* Inductive: every record that is anywhere in the process is sound, so a
   late result finds a sound record, and a handler puts back a sound one;
   and a GeoIP task only has a country to store if it found one.            *)
IInv ==
  /\ MapSound(proxies)
  /\ MapSound(banned)
  /\ RequestsSound(requests)
  /\ TasksOK

-----------------------------------------------------------------------------
(* DashMap::insert keeps a map sound. *)
LEMMA PutSound ==
  ASSUME NEW m, MapSound(m), NEW k \in Keys, NEW v, Sound(v)
  PROVE  MapSound(Put(m, k, v))
  BY DEF MapSound, Put

(* DashMap::remove and retain. *)
LEMMA DropSound ==
  ASSUME NEW m, MapSound(m), NEW ks
  PROVE  MapSound(Drop(m, ks))
  BY DEF MapSound, Drop

(* An update through get_mut, which happens only if the key is there. *)
LEMMA ModifySound ==
  ASSUME NEW m, MapSound(m), NEW k, NEW v, k \in DOMAIN m => Sound(v)
  PROVE  MapSound(Modify(m, k, v))
  BY DEF MapSound, Modify

(* What the tasks that report an outcome do to the pool. *)
LEMMA OutcomeSound ==
  ASSUME NEW m, MapSound(m), NEW k \in Keys
  PROVE  /\ MapSound(Modify(m, k, RecordSuccess(m[k])))
         /\ MapSound(Modify(m, k, RecordFail(m[k])))
         /\ \A verdict \in {"true", "false"} :
              MapSound(Modify(m, k, SetTlsClean(m[k], verdict)))
         /\ \A c \in Countries : MapSound(Modify(m, k, SetCountry(m[k], c)))
  <1>1. k \in DOMAIN m => Sound(m[k])
    BY DEF MapSound
  <1>2. MapSound(Modify(m, k, RecordSuccess(m[k])))
    BY <1>1, RecordSuccessSound, ModifySound
  <1>3. MapSound(Modify(m, k, RecordFail(m[k])))
    BY <1>1, RecordFailSound, ModifySound
  <1>4. ASSUME NEW verdict \in {"true", "false"}
        PROVE  MapSound(Modify(m, k, SetTlsClean(m[k], verdict)))
    BY <1>1, SetTlsCleanSound, ModifySound
  <1>5. ASSUME NEW c \in Countries
        PROVE  MapSound(Modify(m, k, SetCountry(m[k], c)))
    BY <1>1, SetCountrySound, ModifySound
  <1> QED BY <1>2, <1>3, <1>4, <1>5

(* A new request in a free handler. *)
LEMMA RequestPut ==
  ASSUME NEW q, RequestsSound(q), NEW h \in Handlers,
         NEW op \in {"add", "ban", "unban"}, NEW k \in Keys, NEW p, Sound(p)
  PROVE  RequestsSound(Put(q, h, [op |-> op, key |-> k, proxy |-> p]))
  <1>1. p \in ProxyRecord
    BY DEF Sound
  <1> DEFINE r == [op |-> op, key |-> k, proxy |-> p]
  <1>2. r \in [op : {"add", "ban", "unban"}, key : Keys, proxy : ProxyRecord]
    BY <1>1
  <1>3. RequestSound(r)
    BY <1>2 DEF RequestSound
  <1> HIDE DEF r
  <1> QED BY <1>3 DEF RequestsSound, Put, r

(* A request that ends. *)
LEMMA RequestDrop ==
  ASSUME NEW q, RequestsSound(q), NEW hs
  PROVE  RequestsSound(Drop(q, hs))
  BY DEF RequestsSound, Drop

-----------------------------------------------------------------------------
(* What load_state leaves in the pool is sound. *)
LEMMA InitIInv == Init => IInv
  <1> SUFFICES ASSUME Init PROVE IInv
    OBVIOUS
  <1>1. ASSUME NEW k \in Keys, NEW r \in SavedRecords(k) PROVE Sound(r)
    <2>1. PICK n \in 0..MaxFails, s \in SuccessAge,
               t \in {"None", "true", "false"}, c \in {"None", CountryOf[k]} :
            r = SavedRecord(n, s, t, c)
      BY <1>1 DEF SavedRecords, SuccessAge
    <2>0. c \in Countries \cup {"None"}
      BY PoolAssumption
    <2>2. NewProxy \in ProxyRecord
      BY NewProxySound DEF Sound
    <2>3. r \in ProxyRecord
      BY <2>0, <2>1, <2>2 DEF SavedRecord, ProxyRecord, Status, CheckAge
    <2>4. /\ r.consecutive_fails = n /\ r.status = "None" /\ r.circuit = -1
      BY <2>1 DEF SavedRecord, NewProxy, NoCircuit
    <2>5. n \in Nat
      OBVIOUS
    <2>6. DisableMinutes(n) \in Nat
      BY <2>5, DisableMinutesGrows
    <2>7. BreakerConsistent(r)
      BY <2>4, <2>6 DEF BreakerConsistent, NoCircuit
    <2> QED BY <2>3, <2>7 DEF Sound
  <1>2. MapSound(proxies)
    <2>1. PICK ks \in SUBSET Keys : \E file \in
                 {m \in [ks -> UNION {SavedRecords(k) : k \in ks}] :
                    \A k \in ks : m[k] \in SavedRecords(k)} :
            proxies = [k \in ks |-> Restored(file[k])]
      BY DEF Init, LoadState
    <2>2. PICK file \in {m \in [ks -> UNION {SavedRecords(k) : k \in ks}] :
                          \A k \in ks : m[k] \in SavedRecords(k)} :
            proxies = [k \in ks |-> Restored(file[k])]
      BY <2>1
    <2>3. /\ \A k \in ks : file[k] \in SavedRecords(k)
          /\ proxies = [k \in ks |-> Restored(file[k])]
      BY <2>2
    <2> QED BY <1>1, <2>3, RestoredSound DEF MapSound
  <1>3. MapSound(banned) /\ RequestsSound(requests) /\ TasksOK
    BY DEF Init, MapSound, RequestsSound, TasksOK, EmptyMap
  <1> QED BY <1>2, <1>3 DEF IInv

(* The source refresher. *)
LEMMA RefresherStep == IInv /\ Refresher => IInv'
  <1> SUFFICES ASSUME IInv, Refresher PROVE IInv'
    OBVIOUS
  <1> USE DEF IInv, srcVars
  <1>1. ASSUME NEW k \in Keys, CleanupStale(k) PROVE IInv'
    <2>1. MapSound(proxies')
      BY <1>1, DropSound DEF CleanupStale
    <2>2. sweep' \subseteq Keys
      BY <1>1 DEF CleanupStale, TasksOK
    <2> QED
      BY <1>1, <2>1, <2>2
         DEF CleanupStale, TasksOK, apiVars, checkVars, geoVars
  <1>2. ASSUME NEW k \in Keys, InsertChecks(k) PROVE IInv'
    BY <1>2 DEF InsertChecks, TasksOK, apiVars, checkVars, geoVars
  <1>3. ASSUME NEW k \in Keys, InsertFills(k) PROVE IInv'
    <2>1. MapSound(Put(proxies, k, NewProxy))
      BY NewProxySound, PutSound
    <2>2. MapSound(proxies')
      BY <1>3, <2>1 DEF InsertFills
    <2> QED
      BY <1>3, <2>2 DEF InsertFills, TasksOK, apiVars, checkVars, geoVars
  <1> QED BY <1>1, <1>2, <1>3 DEF Refresher

(* The health checker, whose results are applied by key to whatever record
   is there.                                                                *)
LEMMA HealthCheckerStep == IInv /\ HealthChecker => IInv'
  <1> SUFFICES ASSUME IInv, HealthChecker PROVE IInv'
    OBVIOUS
  <1> USE DEF IInv, srcVars
  <1>1. CASE StartBatch
    <2>1. ProxiesNeedingCheck \subseteq Keys
      BY DEF ProxiesNeedingCheck, Listed, MapSound
    <2> QED BY <1>1, <2>1 DEF StartBatch, TasksOK, apiVars, geoVars
  <1>2. ASSUME NEW k \in Keys, ProbeDead(k) PROVE IInv'
    <2>1. MapSound(proxies')
      BY <1>2, OutcomeSound DEF ProbeDead
    <2> QED BY <1>2, <2>1 DEF ProbeDead, TasksOK, apiVars, geoVars
  <1>3. ASSUME NEW k \in Keys, NEW result \in {"Ok", "OkNoTls"},
               ProbeAlive(k, result)
        PROVE  IInv'
    <2>1. MapSound(proxies')
      BY <1>3, OutcomeSound DEF ProbeAlive
    <2> QED BY <1>3, <2>1 DEF ProbeAlive, TasksOK, apiVars, geoVars
  <1>4. ASSUME NEW k \in Keys, NEW verdict \in {"true", "false"},
               ProbeTls(k, verdict)
        PROVE  IInv'
    <2>1. MapSound(proxies')
      BY <1>4, OutcomeSound DEF ProbeTls
    <2> QED BY <1>4, <2>1 DEF ProbeTls, TasksOK, apiVars
  <1> QED BY <1>1, <1>2, <1>3, <1>4 DEF HealthChecker

(* GeoIP lookups and connections. *)
LEMMA ReportersStep == IInv /\ (GeoTasks \/ Connections) => IInv'
  <1> SUFFICES ASSUME IInv, GeoTasks \/ Connections PROVE IInv'
    OBVIOUS
  <1> USE DEF IInv, srcVars
  <1>1. ASSUME NEW k \in Keys, GeoReads(k) PROVE IInv'
    <2>1. CountryOf[k] # "None" => CountryOf[k] \in Countries
      BY PoolAssumption
    <2> QED BY <1>1, <2>1 DEF GeoReads, TasksOK, apiVars, checkVars
  <1>2. ASSUME NEW k \in Keys, GeoStores(k) PROVE IInv'
    <2>0. CountryOf[k] \in Countries
      BY <1>2 DEF GeoStores, TasksOK
    <2>1. MapSound(proxies')
      BY <1>2, <2>0, OutcomeSound DEF GeoStores
    <2> QED BY <1>2, <2>1 DEF GeoStores, TasksOK, apiVars, checkVars
  <1>3. ASSUME NEW k \in Keys, Use(k) PROVE IInv'
    BY <1>3 DEF Use, TasksOK, apiVars, checkVars, geoVars
  <1>4. ASSUME NEW k \in Keys, UseSucceeds(k) PROVE IInv'
    <2>1. MapSound(proxies')
      BY <1>4, OutcomeSound DEF UseSucceeds
    <2> QED BY <1>4, <2>1 DEF UseSucceeds, TasksOK, apiVars, checkVars, geoVars
  <1>5. ASSUME NEW k \in Keys, UseFails(k) PROVE IInv'
    <2>1. MapSound(proxies')
      BY <1>5, OutcomeSound DEF UseFails
    <2> QED BY <1>5, <2>1 DEF UseFails, TasksOK, apiVars, checkVars, geoVars
  <1> QED BY <1>1, <1>2, <1>3, <1>4, <1>5 DEF GeoTasks, Connections

(* The API: what a handler holds between its two calls is sound, and so is
   every map after each of them.                                            *)
LEMMA ApiStep == IInv /\ Api => IInv'
  <1> SUFFICES ASSUME IInv, Api PROVE IInv'
    OBVIOUS
  <1> USE DEF IInv, srcVars
  <1>0. PICK h \in Handlers, k \in Keys :
          \/ AddChecks(h, k)    \/ AddInserts(h, k)
          \/ BanRemoves(h, k)   \/ BanInserts(h, k)
          \/ UnbanRemoves(h, k) \/ UnbanInserts(h, k)
    BY DEF Api
  <1>t. srcVars' = srcVars /\ checkVars' = checkVars /\ geoVars' = geoVars
        /\ uses' = uses => TasksOK'
    BY DEF TasksOK, checkVars, geoVars
  <1>1. CASE AddChecks(h, k)
    <2>1. RequestsSound(requests')
      BY <1>1, NewProxySound, RequestPut DEF AddChecks, Begin
    <2> QED BY <1>1, <1>t, <2>1 DEF AddChecks
  <1>r. ASSUME NEW op, Pending(h, op, k) PROVE Sound(requests[h].proxy)
    BY <1>r DEF Pending, RequestsSound, RequestSound
  <1>2. CASE AddInserts(h, k)
    <2>1. MapSound(proxies')
      BY <1>2, <1>r, PutSound DEF AddInserts
    <2> QED BY <1>2, <1>t, <2>1, RequestDrop DEF AddInserts
  <1>3. CASE BanRemoves(h, k)
    <2>0. Sound(proxies[k])
      BY <1>3 DEF BanRemoves, MapSound
    <2>1. RequestsSound(requests')
      BY <1>3, <2>0, RequestPut DEF BanRemoves, Begin
    <2> QED BY <1>3, <1>t, <2>1, DropSound DEF BanRemoves
  <1>4. CASE BanInserts(h, k)
    <2>1. MapSound(banned')
      BY <1>4, <1>r, PutSound DEF BanInserts
    <2> QED BY <1>4, <1>t, <2>1, RequestDrop DEF BanInserts
  <1>5. CASE UnbanRemoves(h, k)
    <2>0. Sound(banned[k])
      BY <1>5 DEF UnbanRemoves, MapSound
    <2>1. RequestsSound(requests')
      BY <1>5, <2>0, RequestPut DEF UnbanRemoves, Begin
    <2> QED BY <1>5, <1>t, <2>1, DropSound DEF UnbanRemoves
  <1>6. CASE UnbanInserts(h, k)
    <2>1. MapSound(proxies')
      BY <1>6, <1>r, PutSound DEF UnbanInserts
    <2> QED BY <1>6, <1>t, <2>1, RequestDrop DEF UnbanInserts
  <1> QED BY <1>0, <1>1, <1>2, <1>3, <1>4, <1>5, <1>6

(* The clock ages the records of a set of keys, wherever they are. *)
LEMMA ClockStep == IInv /\ ClockTicks => IInv'
  <1> SUFFICES ASSUME IInv, ClockTicks PROVE IInv'
    OBVIOUS
  <1> USE DEF IInv, srcVars
  <1>r. ASSUME NEW r, RequestSound(r), NEW p, Sound(p)
        PROVE  RequestSound([r EXCEPT !.proxy = p])
    <2>1. [r EXCEPT !.proxy = p]
            \in [op : {"add", "ban", "unban"}, key : Keys, proxy : ProxyRecord]
      BY <1>r DEF RequestSound, Sound
    <2>2. [r EXCEPT !.proxy = p].proxy = p
      BY <1>r DEF RequestSound
    <2> QED BY <1>r, <2>1, <2>2 DEF RequestSound
  <1>q. ASSUME NEW h \in DOMAIN requests
        PROVE  RequestSound(requests[h]) /\ Sound(requests[h].proxy)
    BY DEF RequestsSound, RequestSound
  <1>1. CASE Minute
    <2>1. MapSound(proxies') /\ MapSound(banned')
      BY <1>1, MinuteSound DEF Minute, Pass, Aged, MapSound
    <2>2. RequestsSound(requests')
      <3>1. ASSUME NEW h \in DOMAIN requests
            PROVE  RequestSound([requests[h] EXCEPT
                                   !.proxy = MinutePasses(requests[h].proxy)])
        BY <1>q, <1>r, MinuteSound
      <3> QED BY <1>1, <1>q, <3>1 DEF Minute, Pass, RequestsSound
    <2> QED BY <1>1, <2>1, <2>2
            DEF Minute, Pass, TasksOK, checkVars, geoVars
  <1>2. ASSUME NEW k \in Keys, Hour(k) PROVE IInv'
    <2>1. MapSound(proxies') /\ MapSound(banned')
      BY <1>2, HourSound DEF Hour, Pass, Aged, MapSound
    <2>2. RequestsSound(requests')
      <3>1. ASSUME NEW h \in DOMAIN requests
            PROVE  RequestSound([requests[h] EXCEPT
                                   !.proxy = HourPasses(requests[h].proxy)])
        BY <1>q, <1>r, HourSound
      <3> QED BY <1>2, <1>q, <3>1 DEF Hour, Pass, RequestsSound
    <2> QED BY <1>2, <2>1, <2>2
            DEF Hour, Pass, TasksOK, checkVars, geoVars
  <1>3. ASSUME NEW k \in Keys, Day(k) PROVE IInv'
    <2>1. MapSound(proxies') /\ MapSound(banned')
      BY <1>3, DaySound DEF Day, Pass, Aged, MapSound
    <2>2. RequestsSound(requests')
      <3>1. ASSUME NEW h \in DOMAIN requests
            PROVE  RequestSound([requests[h] EXCEPT
                                   !.proxy = DayPasses(requests[h].proxy)])
        BY <1>q, <1>r, DaySound
      <3> QED BY <1>3, <1>q, <3>1 DEF Day, Pass, RequestsSound
    <2> QED BY <1>3, <2>1, <2>2
            DEF Day, Pass, TasksOK, checkVars, geoVars
  <1> QED BY <1>1, <1>2, <1>3 DEF ClockTicks

(* Every step of every task preserves the invariant. *)
LEMMA NextIInv == IInv /\ [Next]_vars => IInv'
  <1> SUFFICES ASSUME IInv, [Next]_vars PROVE IInv'
    OBVIOUS
  <1>1. CASE UNCHANGED vars
    BY <1>1 DEF vars, IInv, TasksOK
  <1> QED
    BY <1>1, RefresherStep, HealthCheckerStep, ReportersStep, ApiStep,
       ClockStep DEF Next

(* It holds in every reachable state. *)
LEMMA InvariantHolds == Spec => []IInv
  BY InitIInv, NextIInv, PTL DEF Spec

(* Every map, request and task of the process has its type, however the
   tasks interleave.                                                        *)
THEOREM PoolTypeCorrect == Spec => []TypeOK
  <1>1. IInv => TypeOK
    BY DEF IInv, MapSound, RequestsSound, RequestSound, TasksOK, Sound,
           TypeOK, Request
  <1> QED BY <1>1, InvariantHolds, PTL

(* The breaker fields of every record agree wherever the record is: no
   interleaving of probes, connections, bans, insertions and the clock
   leaves a circuit on a proxy that is not Failed, or one that runs for
   longer than the number of failures prescribes.                           *)
THEOREM PoolStaysConsistent == Spec => []PoolConsistent
  <1>1. IInv => PoolConsistent
    BY DEF IInv, MapSound, RequestsSound, RequestSound, Sound, PoolConsistent
  <1> QED BY <1>1, InvariantHolds, PTL
-----------------------------------------------------------------------------
(* Nothing is lost between the maps. *)

(* What the API holds of a key: it is banned, or a handler that takes it out
   of one map has not put it into the other.                                *)
InHands(b, q, k) ==
  \/ k \in DOMAIN b
  \/ \E h \in DOMAIN q : q[h].op # "add" /\ q[h].key = k

(* Held, without the pairs, in a state and in the next one. *)
LEMMA HeldMeans ==
  /\ \A k : k \in Held <=> k \in DOMAIN proxies \/ InHands(banned, requests, k)
  /\ \A k : k \in Held' <=> \/ k \in DOMAIN proxies'
                            \/ InHands(banned', requests', k)
  <1>1. ASSUME NEW b, NEW q, NEW k
        PROVE  k \in {x[1] : x \in {<<j, b[j]>> : j \in DOMAIN b} \cup
                                   {<<q[h].key, q[h].proxy>> :
                                      h \in {g \in DOMAIN q : q[g].op # "add"}}}
               <=> InHands(b, q, k)
    <2> DEFINE B == {<<j, b[j]>> : j \in DOMAIN b}
               Q == {<<q[h].key, q[h].proxy>> :
                       h \in {g \in DOMAIN q : q[g].op # "add"}}
    <2>1. (\E x \in B : x[1] = k) <=> k \in DOMAIN b
      <3>1. ASSUME k \in DOMAIN b PROVE \E x \in B : x[1] = k
        <4>1. <<k, b[k]>> \in B
          BY <3>1
        <4> QED BY <4>1
      <3>2. ASSUME NEW x \in B, x[1] = k PROVE k \in DOMAIN b
        BY <3>2
      <3> QED BY <3>1, <3>2
    <2>2. (\E x \in Q : x[1] = k)
            <=> \E h \in DOMAIN q : q[h].op # "add" /\ q[h].key = k
      <3>1. ASSUME NEW h \in DOMAIN q, q[h].op # "add", q[h].key = k
            PROVE  \E x \in Q : x[1] = k
        <4>1. <<q[h].key, q[h].proxy>> \in Q
          BY <3>1
        <4> QED BY <3>1, <4>1
      <3>2. ASSUME NEW x \in Q, x[1] = k
            PROVE  \E h \in DOMAIN q : q[h].op # "add" /\ q[h].key = k
        BY <3>2
      <3> QED BY <3>1, <3>2
    <2> HIDE DEF B, Q
    <2>3. k \in {x[1] : x \in B \cup Q}
            <=> (\E x \in B : x[1] = k) \/ (\E x \in Q : x[1] = k)
      OBVIOUS
    <2> QED BY <2>1, <2>2, <2>3 DEF InHands, B, Q
  <1> QED BY <1>1 DEF Held, Aside

(* A step that takes nothing out of the pool and leaves the API alone. *)
LEMMA PoolOnlyGrows ==
  ASSUME DOMAIN proxies \subseteq DOMAIN proxies', UNCHANGED apiVars
  PROVE  \A k \in Held : k \in Held'
  BY HeldMeans DEF apiVars

(* Every step keeps what was held, except for what cleanup_stale drops. *)
LEMMA NothingLost ==
  ASSUME IInv, Next
  PROVE  \A k \in Held : k \in Held' \/ (k \in DOMAIN proxies /\ Stale(proxies[k]))
  <1> DEFINE Kept == \A k \in Held :
                       k \in Held' \/ (k \in DOMAIN proxies /\ Stale(proxies[k]))
  <1>1. ASSUME NEW k \in Keys, CleanupStale(k) PROVE Kept
    BY <1>1, HeldMeans DEF CleanupStale, Drop, apiVars
  <1>2. ASSUME NEW k \in Keys, InsertChecks(k) \/ InsertFills(k) PROVE Kept
    BY <1>2, PoolOnlyGrows DEF InsertChecks, InsertFills, Put
  <1>3. CASE HealthChecker
    BY <1>3, PoolOnlyGrows
       DEF HealthChecker, StartBatch, ProbeDead, ProbeAlive, ProbeTls, Modify
  <1>4. CASE GeoTasks \/ Connections
    BY <1>4, PoolOnlyGrows
       DEF GeoTasks, GeoReads, GeoStores, Connections, Use, UseSucceeds,
           UseFails, Modify
  <1>5. ASSUME NEW h \in Handlers, NEW j \in Keys,
               \/ AddChecks(h, j) \/ AddInserts(h, j)
               \/ BanRemoves(h, j) \/ BanInserts(h, j)
               \/ UnbanRemoves(h, j) \/ UnbanInserts(h, j)
        PROVE  Kept
    <2>1. ASSUME NEW op, NEW p, Begin(h, op, j, p), NEW k,
                 \E g \in DOMAIN requests :
                   requests[g].op # "add" /\ requests[g].key = k
          PROVE  InHands(banned', requests', k)
      BY <2>1 DEF Begin, Put, InHands
    <2>2. ASSUME NEW op \in {"ban", "unban"}, NEW p, Begin(h, op, j, p)
          PROVE  InHands(banned', requests', j)
      BY <2>2 DEF Begin, Put, InHands
    <2>3. ASSUME NEW op, Pending(h, op, j), requests' = Drop(requests, {h}),
                 NEW k, \E g \in DOMAIN requests :
                          requests[g].op # "add" /\ requests[g].key = k
          PROVE  InHands(banned', requests', k) \/ (k = j /\ op # "add")
      BY <2>3 DEF Pending, Drop, InHands
    <2>4. CASE AddChecks(h, j)
      BY <2>4, <2>1, HeldMeans DEF AddChecks, InHands
    <2>5. CASE AddInserts(h, j)
      BY <2>5, <2>3, HeldMeans DEF AddInserts, InHands, Put
    <2>6. CASE BanRemoves(h, j)
      BY <2>6, <2>1, <2>2, HeldMeans DEF BanRemoves, InHands, Drop
    <2>7. CASE BanInserts(h, j)
      BY <2>7, <2>3, HeldMeans DEF BanInserts, InHands, Put
    <2>8. CASE UnbanRemoves(h, j)
      BY <2>8, <2>1, <2>2, HeldMeans DEF UnbanRemoves, InHands, Drop
    <2>9. CASE UnbanInserts(h, j)
      BY <2>9, <2>3, HeldMeans DEF UnbanInserts, InHands, Put
    <2> QED BY <1>5, <2>4, <2>5, <2>6, <2>7, <2>8, <2>9
  <1>6. CASE ClockTicks
    <2>1. /\ DOMAIN proxies' = DOMAIN proxies
          /\ DOMAIN banned' = DOMAIN banned
          /\ DOMAIN requests' = DOMAIN requests
          /\ \A h \in DOMAIN requests : /\ requests'[h].op = requests[h].op
                                        /\ requests'[h].key = requests[h].key
      <3>1. \A h \in DOMAIN requests :
              requests[h] \in [op : {"add", "ban", "unban"}, key : Keys,
                               proxy : ProxyRecord]
        BY DEF IInv, RequestsSound, RequestSound
      <3> QED BY <1>6, <3>1 DEF ClockTicks, Minute, Hour, Day, Pass, Aged
    <2> QED BY <2>1, HeldMeans DEF InHands
  <1> QED
    BY <1>1, <1>2, <1>3, <1>4, <1>5, <1>6 DEF Next, Refresher, Api

(* A proxy once known stays in one of the maps or in the hands of a handler,
   however bans, unbans, insertions and the late results of probes and
   connections interleave; only cleanup_stale ends it, and only for a proxy
   that never worked.                                                       *)
THEOREM ProxiesNeverLost == Spec => NeverLost
  <1>1. IInv /\ [Next]_vars =>
          [\A k \in Held : k \in Held' \/ (k \in DOMAIN proxies
                                            /\ Stale(proxies[k]))]_vars
    BY NothingLost
  <1> QED BY <1>1, InvariantHolds, PTL DEF Spec, NeverLost

-----------------------------------------------------------------------------
(* The size limit. *)

(* Inductive: while insert_if_absent is between the length check and the
   entry, there is room for the one key that it adds.                       *)
LimitInv ==
  MaxProxies > 0 =>
    /\ Cardinality(DOMAIN proxies) <= MaxProxies
    /\ inserting # {} => Cardinality(DOMAIN proxies) < MaxProxies

(* Every part of the pool is finite. *)
LEMMA PoolFinite ==
  ASSUME NEW ks \in SUBSET Keys
  PROVE  IsFiniteSet(ks) /\ Cardinality(ks) \in Nat
  BY PoolAssumption, FS_Subset, FS_CardinalityType

(* Without connections and API requests every step keeps the limit. *)
LEMMA QuietKeepsLimit ==
  ASSUME IInv, LimitInv, [QuietNext]_vars
  PROVE  LimitInv'
  <1>0. DOMAIN proxies \subseteq Keys /\ MaxProxies \in Nat
    BY PoolAssumption DEF IInv, MapSound
  <1>f. IsFiniteSet(DOMAIN proxies) /\ Cardinality(DOMAIN proxies) \in Nat
    BY <1>0, PoolFinite
  <1> USE DEF srcVars
  <1>s. DOMAIN proxies' = DOMAIN proxies /\ inserting' = inserting => LimitInv'
    BY DEF LimitInv
  <1>1. ASSUME NEW k \in Keys, CleanupStale(k) PROVE LimitInv'
    <2> DEFINE gone == IF k \in DOMAIN proxies /\ Stale(proxies[k]) THEN {k}
                       ELSE {}
    <2>1. DOMAIN proxies' = DOMAIN proxies \ gone /\ inserting' = {}
      BY <1>1 DEF CleanupStale, Drop
    <2>2. Cardinality(DOMAIN proxies \ gone) <= Cardinality(DOMAIN proxies)
      BY <1>f, FS_Subset
    <2>3. Cardinality(DOMAIN proxies') \in Nat
      BY <1>0, <2>1, PoolFinite
    <2> QED BY <1>0, <1>f, <2>1, <2>2, <2>3 DEF LimitInv
  <1>2. ASSUME NEW k \in Keys, InsertChecks(k) PROVE LimitInv'
    BY <1>2, <1>0, <1>f DEF InsertChecks, BelowLimit, LimitInv
  <1>3. ASSUME NEW k \in Keys, InsertFills(k) PROVE LimitInv'
    <2>1. inserting # {} /\ inserting' = {}
      BY <1>3 DEF InsertFills
    <2>2. CASE k \in DOMAIN proxies
      BY <1>3, <2>1, <2>2 DEF InsertFills, LimitInv
    <2>3. CASE k \notin DOMAIN proxies
      <3>1. DOMAIN proxies' = DOMAIN proxies \cup {k}
        BY <1>3, <2>3 DEF InsertFills, Put
      <3>2. Cardinality(DOMAIN proxies') = Cardinality(DOMAIN proxies) + 1
        BY <1>f, <2>3, <3>1, FS_AddElement
      <3> QED BY <1>0, <1>f, <2>1, <3>2 DEF LimitInv
    <2> QED BY <2>2, <2>3
  <1>4. CASE HealthChecker
    BY <1>4, <1>s
       DEF HealthChecker, StartBatch, ProbeDead, ProbeAlive, ProbeTls, Modify
  <1>5. CASE GeoTasks
    BY <1>5, <1>s DEF GeoTasks, GeoReads, GeoStores, Modify
  <1>6. CASE ClockTicks
    BY <1>6, <1>s DEF ClockTicks, Minute, Hour, Day, Pass, Aged
  <1>7. CASE UNCHANGED vars
    BY <1>7, <1>s DEF vars
  <1> QED
    BY <1>1, <1>2, <1>3, <1>4, <1>5, <1>6, <1>7 DEF QuietNext, Refresher

(* The pool never holds more than max_proxies as long as only the refresher
   inserts, although insert_if_absent reads the length and takes the entry
   in two calls: for any limit and any sources.                             *)
THEOREM LimitHolds == QuietSpec => []WithinLimit
  <1>1. Init => LimitInv
    <2> SUFFICES ASSUME Init PROVE LimitInv
      OBVIOUS
    <2>1. PICK ks \in SUBSET Keys :
            /\ MaxProxies = 0 \/ Cardinality(ks) <= MaxProxies
            /\ DOMAIN proxies = ks
      BY DEF Init, LoadState
    <2> QED BY <2>1 DEF Init, LimitInv
  <1>2. IInv /\ [QuietNext]_vars => IInv'
    BY NextIInv DEF QuietNext, Next
  <1>3. LimitInv => WithinLimit
    BY DEF LimitInv, WithinLimit
  <1> QED
    BY <1>1, <1>2, <1>3, InitIInv, QuietKeepsLimit, PTL DEF QuietSpec

-----------------------------------------------------------------------------
(* The pool implements PoolContract. *)

(* An add request carries a proxy that nothing has touched, not even the
   clock, which has no timestamp to age in it.                              *)
AddsNew ==
  \A h \in DOMAIN requests :
    requests[h].op = "add" => requests[h].proxy = NewProxy

(* No clock event changes a proxy that was never used or checked. *)
LEMMA NewProxyAgeless ==
  /\ MinutePasses(NewProxy) = NewProxy
  /\ HourPasses(NewProxy) = NewProxy
  /\ DayPasses(NewProxy) = NewProxy
  <1>1. NewProxy \in ProxyRecord
    BY NewProxySound DEF Sound
  <1>2. /\ ~(NewProxy.circuit > 0)
        /\ NewProxy.last_check = "none" /\ NewProxy.last_success = "none"
    BY DEF NewProxy, NoCircuit
  <1>3. ASSUME NEW p \in ProxyRecord
        PROVE  /\ [p EXCEPT !.circuit = p.circuit, !.last_check = p.last_check] = p
               /\ [p EXCEPT !.last_success = p.last_success] = p
    BY DEF ProxyRecord
  <1>4. MinutePasses(NewProxy) = NewProxy
    BY <1>1, <1>2, <1>3 DEF MinutePasses
  <1>5. HourPasses(NewProxy) = NewProxy
    BY <1>1, <1>2, <1>3 DEF HourPasses
  <1>6. DayPasses(NewProxy) = NewProxy
    BY <1>1, <1>2, <1>3, <1>5 DEF DayPasses
  <1> QED BY <1>4, <1>5, <1>6

(* Every step keeps it so: the clock through NewProxyAgeless. *)
LEMMA AddsNewStep ==
  ASSUME IInv, AddsNew, [Next]_vars
  PROVE  AddsNew'
  <1>u. requests' = requests => AddsNew'
    BY DEF AddsNew
  <1>1. CASE Refresher \/ HealthChecker \/ GeoTasks \/ Connections
    BY <1>1, <1>u
       DEF Refresher, CleanupStale, InsertChecks, InsertFills, apiVars,
           HealthChecker, StartBatch, ProbeDead, ProbeAlive, ProbeTls,
           GeoTasks, GeoReads, GeoStores, Connections, Use, UseSucceeds,
           UseFails
  <1>2. CASE Api
    <2>1. PICK h \in Handlers, k \in Keys :
            \/ AddChecks(h, k)    \/ AddInserts(h, k)
            \/ BanRemoves(h, k)   \/ BanInserts(h, k)
            \/ UnbanRemoves(h, k) \/ UnbanInserts(h, k)
      BY <1>2 DEF Api
    <2>2. CASE AddChecks(h, k)
      BY <2>2 DEF AddChecks, Begin, Put, AddsNew
    <2>3. CASE BanRemoves(h, k) \/ UnbanRemoves(h, k)
      BY <2>3 DEF BanRemoves, UnbanRemoves, Begin, Put, AddsNew
    <2>4. CASE AddInserts(h, k) \/ BanInserts(h, k) \/ UnbanInserts(h, k)
      BY <2>4 DEF AddInserts, BanInserts, UnbanInserts, Drop, AddsNew
    <2> QED BY <2>1, <2>2, <2>3, <2>4
  <1>3. CASE ClockTicks
    <2>1. \A h \in DOMAIN requests :
            requests[h] \in [op : {"add", "ban", "unban"}, key : Keys,
                             proxy : ProxyRecord]
      BY DEF IInv, RequestsSound, RequestSound
    <2>2. DOMAIN requests' = DOMAIN requests
      BY <1>3 DEF ClockTicks, Minute, Hour, Day, Pass
    <2>3. ASSUME NEW h \in DOMAIN requests, requests'[h].op = "add"
          PROVE  requests'[h].proxy = NewProxy
      <3> DEFINE r == requests[h]
      <3>1. requests'[h] \in {r, [r EXCEPT !.proxy = MinutePasses(r.proxy)],
                              [r EXCEPT !.proxy = HourPasses(r.proxy)],
                              [r EXCEPT !.proxy = DayPasses(r.proxy)]}
        BY <1>3 DEF ClockTicks, Minute, Hour, Day, Pass
      <3>2. r.op = "add"
        BY <2>1, <2>3, <3>1
      <3>3. r.proxy = NewProxy
        BY <3>2 DEF AddsNew
      <3>4. [r EXCEPT !.proxy = NewProxy].proxy = NewProxy
        BY <2>1
      <3> QED BY <3>1, <3>3, <3>4, NewProxyAgeless
    <2> QED BY <2>2, <2>3 DEF AddsNew
  <1>4. CASE UNCHANGED vars
    BY <1>4, <1>u DEF vars
  <1> QED BY <1>1, <1>2, <1>3, <1>4 DEF Next

(* PoolContract reads the same Proxy and DashMap as the pool. *)
LEMMA SameMethods ==
  /\ Contract!NewProxy = NewProxy
  /\ Contract!ProxyRecord = ProxyRecord
  /\ \A p : /\ Contract!RecordSuccess(p) = RecordSuccess(p)
            /\ Contract!RecordFail(p) = RecordFail(p)
            /\ Contract!MinutePasses(p) = MinutePasses(p)
            /\ Contract!HourPasses(p) = HourPasses(p)
            /\ Contract!DayPasses(p) = DayPasses(p)
            /\ Contract!Stale(p) = Stale(p)
            /\ Contract!BreakerConsistent(p) = BreakerConsistent(p)
  /\ \A p, x : /\ Contract!SetTlsClean(p, x) = SetTlsClean(p, x)
               /\ Contract!SetCountry(p, x) = SetCountry(p, x)
  /\ \A m, k, v : /\ Contract!Put(m, k, v) = Put(m, k, v)
                  /\ Contract!Modify(m, k, v) = Modify(m, k, v)
  /\ \A m, ks : Contract!Drop(m, ks) = Drop(m, ks)
  <1>1. Contract!NewProxy = NewProxy
    BY DEF Contract!NewProxy, NewProxy, Contract!NoCircuit, NoCircuit
  <1>2. Contract!ProxyRecord = ProxyRecord
    BY DEF Contract!ProxyRecord, ProxyRecord, Contract!NoCircuit, NoCircuit,
           Contract!Status, Status, Contract!CheckAge, CheckAge,
           Contract!SuccessAge, SuccessAge
  <1>3. ASSUME NEW p
        PROVE  /\ Contract!RecordSuccess(p) = RecordSuccess(p)
               /\ Contract!RecordFail(p) = RecordFail(p)
               /\ Contract!Stale(p) = Stale(p)
               /\ Contract!BreakerConsistent(p) = BreakerConsistent(p)
    BY DEF Contract!RecordSuccess, RecordSuccess, Contract!RecordFail,
           RecordFail, Contract!DisableMinutes, DisableMinutes,
           Contract!Capped, Capped, Contract!NoCircuit, NoCircuit,
           Contract!Stale, Stale, Contract!BreakerConsistent,
           BreakerConsistent
  <1>4. ASSUME NEW p
        PROVE  /\ Contract!MinutePasses(p) = MinutePasses(p)
               /\ Contract!HourPasses(p) = HourPasses(p)
               /\ Contract!DayPasses(p) = DayPasses(p)
    BY DEF Contract!MinutePasses, MinutePasses, Contract!HourPasses,
           HourPasses, Contract!DayPasses, DayPasses
  <1>5. ASSUME NEW p, NEW x
        PROVE  /\ Contract!SetTlsClean(p, x) = SetTlsClean(p, x)
               /\ Contract!SetCountry(p, x) = SetCountry(p, x)
    BY DEF Contract!SetTlsClean, SetTlsClean, Contract!SetCountry, SetCountry
  <1>6. ASSUME NEW m, NEW k, NEW v
        PROVE  /\ Contract!Put(m, k, v) = Put(m, k, v)
               /\ Contract!Modify(m, k, v) = Modify(m, k, v)
    BY DEF Contract!Put, Put, Contract!Modify, Modify
  <1>7. ASSUME NEW m, NEW ks
        PROVE  Contract!Drop(m, ks) = Drop(m, ks)
    BY DEF Contract!Drop, Drop
  <1> QED BY <1>1, <1>2, <1>3, <1>4, <1>5, <1>6, <1>7

(* Aside, of any banned map b and any requests q. *)
AsideOf(b, q) ==
  {<<k, b[k]>> : k \in DOMAIN b} \cup
  {<<q[h].key, q[h].proxy>> : h \in {g \in DOMAIN q : q[g].op # "add"}}

(* It is Aside, in a state and in the next one. *)
LEMMA AsideMeans ==
  /\ Aside = AsideOf(banned, requests)
  /\ Aside' = AsideOf(banned', requests')
  BY DEF Aside, AsideOf

(* Membership in it. *)
LEMMA InAside ==
  ASSUME NEW b, NEW q, NEW x
  PROVE  x \in AsideOf(b, q) <=>
           \/ \E k \in DOMAIN b : x = <<k, b[k]>>
           \/ \E h \in DOMAIN q :
                q[h].op # "add" /\ x = <<q[h].key, q[h].proxy>>
  BY DEF AsideOf

(* A handler starts: an add sets nothing aside, a ban and an unban hold the
   record from now on.                                                      *)
LEMMA AsideBegins ==
  ASSUME NEW b, NEW q, NEW h, h \notin DOMAIN q, NEW r
  PROVE  AsideOf(b, Put(q, h, r)) =
           IF r.op = "add" THEN AsideOf(b, q)
           ELSE AsideOf(b, q) \cup {<<r.key, r.proxy>>}
  <1> DEFINE q2 == Put(q, h, r)
  <1>1. /\ DOMAIN q2 = DOMAIN q \cup {h} /\ q2[h] = r
        /\ \A g \in DOMAIN q : q2[g] = q[g]
    BY DEF Put
  <1> HIDE DEF q2
  <1>2. ASSUME NEW x
        PROVE  x \in AsideOf(b, q2) <=>
                 x \in AsideOf(b, q) \/ (r.op # "add" /\ x = <<r.key, r.proxy>>)
    BY <1>1, InAside
  <1>3. AsideOf(b, q2) = IF r.op = "add" THEN AsideOf(b, q)
                         ELSE AsideOf(b, q) \cup {<<r.key, r.proxy>>}
    BY <1>2
  <1> QED BY <1>3 DEF q2

(* A handler ends: what it held is no longer set aside, unless a handler
   that is still at work or the banned map holds the same.                  *)
LEMMA AsideEnds ==
  ASSUME NEW b, NEW q, NEW h \in DOMAIN q
  PROVE  /\ q[h].op = "add" => AsideOf(b, Drop(q, {h})) = AsideOf(b, q)
         /\ AsideOf(b, Drop(q, {h})) \subseteq AsideOf(b, q)
         /\ AsideOf(b, q) \ {<<q[h].key, q[h].proxy>>}
              \subseteq AsideOf(b, Drop(q, {h}))
         /\ q[h].op # "add" => <<q[h].key, q[h].proxy>> \in AsideOf(b, q)
  <1> DEFINE q2 == Drop(q, {h})
  <1>1. /\ DOMAIN q2 = DOMAIN q \ {h}
        /\ \A g \in DOMAIN q2 : q2[g] = q[g]
    BY DEF Drop
  <1> HIDE DEF q2
  <1>2. ASSUME NEW x
        PROVE  /\ x \in AsideOf(b, q2) => x \in AsideOf(b, q)
               /\ x \in AsideOf(b, q) =>
                    \/ x \in AsideOf(b, q2)
                    \/ q[h].op # "add" /\ x = <<q[h].key, q[h].proxy>>
    BY <1>1, InAside
  <1>3. q[h].op # "add" => <<q[h].key, q[h].proxy>> \in AsideOf(b, q)
    BY InAside
  <1>4. /\ q[h].op = "add" => AsideOf(b, q2) = AsideOf(b, q)
        /\ AsideOf(b, q2) \subseteq AsideOf(b, q)
        /\ AsideOf(b, q) \ {<<q[h].key, q[h].proxy>>} \subseteq AsideOf(b, q2)
    BY <1>2
  <1> QED BY <1>3, <1>4 DEF q2

(* Banning overwrites what was banned under the key, unbanning removes it. *)
LEMMA AsideBanned ==
  ASSUME NEW b, NEW q, NEW k, NEW p
  PROVE  /\ AsideOf(Put(b, k, p), q) \subseteq AsideOf(b, q) \cup {<<k, p>>}
         /\ k \in DOMAIN b => AsideOf(Drop(b, {k}), q) \cup {<<k, b[k]>>}
                                = AsideOf(b, q)
  <1>1. ASSUME NEW x
        PROVE  x \in AsideOf(Put(b, k, p), q) => x \in AsideOf(b, q) \cup {<<k, p>>}
    BY InAside DEF Put
  <1>2. ASSUME k \in DOMAIN b, NEW x
        PROVE  x \in AsideOf(Drop(b, {k}), q) \cup {<<k, b[k]>>}
                 <=> x \in AsideOf(b, q)
    <2> DEFINE b2 == Drop(b, {k})
    <2>1. /\ DOMAIN b2 = DOMAIN b \ {k}
          /\ \A j \in DOMAIN b2 : b2[j] = b[j]
      BY DEF Drop
    <2> HIDE DEF b2
    <2>2. (\E j \in DOMAIN b2 : x = <<j, b2[j]>>) \/ x = <<k, b[k]>>
            <=> \E j \in DOMAIN b : x = <<j, b[j]>>
      BY <1>2, <2>1
    <2>3. x \in AsideOf(b2, q) \/ x = <<k, b[k]>> <=> x \in AsideOf(b, q)
      BY <2>2, InAside
    <2> QED BY <2>3 DEF b2
  <1> QED BY <1>1, <1>2

(* The three clock events. *)
AgedBy(c, p) ==
  CASE c = "minute" -> MinutePasses(p)
    [] c = "hour" -> HourPasses(p)
    [] c = "day" -> DayPasses(p)

(* What such an event does to the record of one key, to a map and to the
   requests.                                                                *)
AgedAt(c, ks, k, p) == IF k \in ks THEN AgedBy(c, p) ELSE p

MapAged(c, ks, b, b2) ==
  /\ DOMAIN b2 = DOMAIN b
  /\ \A k \in DOMAIN b : b2[k] = AgedAt(c, ks, k, b[k])

RequestsAged(c, ks, q, q2) ==
  /\ DOMAIN q2 = DOMAIN q
  /\ \A h \in DOMAIN q :
       /\ q2[h].op = q[h].op /\ q2[h].key = q[h].key
       /\ q2[h].proxy = AgedAt(c, ks, q[h].key, q[h].proxy)

(* The clock ages what is set aside just as the contract says. *)
LEMMA AsideAges ==
  ASSUME NEW b, NEW q, NEW b2, NEW q2, NEW c, NEW ks,
         MapAged(c, ks, b, b2), RequestsAged(c, ks, q, q2)
  PROVE  AsideOf(b2, q2) = {<<x[1], AgedAt(c, ks, x[1], x[2])>> :
                              x \in AsideOf(b, q)}
  <1> DEFINE older(x) == <<x[1], AgedAt(c, ks, x[1], x[2])>>
  <1>0. DOMAIN b2 = DOMAIN b /\ DOMAIN q2 = DOMAIN q
        /\ \A h \in DOMAIN q : q2[h].op = q[h].op
    BY DEF MapAged, RequestsAged
  <1>1. \A k \in DOMAIN b : <<k, b2[k]>> = older(<<k, b[k]>>)
    BY DEF MapAged
  <1>2. \A h \in DOMAIN q :
          <<q2[h].key, q2[h].proxy>> = older(<<q[h].key, q[h].proxy>>)
    BY DEF RequestsAged
  <1> HIDE DEF older
  <1>3. ASSUME NEW x \in AsideOf(b, q) PROVE older(x) \in AsideOf(b2, q2)
    <2>1. CASE \E k \in DOMAIN b : x = <<k, b[k]>>
      BY <2>1, <1>0, <1>1, InAside
    <2>2. CASE \E h \in DOMAIN q :
                 q[h].op # "add" /\ x = <<q[h].key, q[h].proxy>>
      <3>1. PICK h \in DOMAIN q :
              q[h].op # "add" /\ x = <<q[h].key, q[h].proxy>>
        BY <2>2
      <3>2. older(x) = <<q2[h].key, q2[h].proxy>> /\ q2[h].op # "add"
            /\ h \in DOMAIN q2
        BY <3>1, <1>0, <1>2
      <3> QED BY <3>2, InAside
    <2> QED BY <2>1, <2>2, InAside
  <1>4. ASSUME NEW y \in AsideOf(b2, q2) PROVE \E x \in AsideOf(b, q) : y = older(x)
    <2>1. CASE \E k \in DOMAIN b2 : y = <<k, b2[k]>>
      <3>1. PICK k \in DOMAIN b : y = older(<<k, b[k]>>)
        BY <2>1, <1>0, <1>1
      <3>2. <<k, b[k]>> \in AsideOf(b, q)
        BY InAside
      <3> QED BY <3>1, <3>2
    <2>2. CASE \E h \in DOMAIN q2 :
                 q2[h].op # "add" /\ y = <<q2[h].key, q2[h].proxy>>
      <3>1. PICK h \in DOMAIN q : /\ q[h].op # "add"
                                  /\ y = older(<<q[h].key, q[h].proxy>>)
        BY <2>2, <1>0, <1>2
      <3>2. <<q[h].key, q[h].proxy>> \in AsideOf(b, q)
        BY <3>1, InAside
      <3> QED BY <3>1, <3>2
    <2> QED BY <2>1, <2>2, InAside
  <1>5. AsideOf(b2, q2) = {older(x) : x \in AsideOf(b, q)}
    BY <1>3, <1>4
  <1> QED BY <1>5 DEF older

(* A step of a handler is a step of the contract, or changes nothing that
   the contract speaks of.                                                  *)
LEMMA ApiKeepsContract ==
  ASSUME IInv, AddsNew, Api
  PROVE  Contract!CNext \/ UNCHANGED <<proxies, Aside>>
  <1> DEFINE Allowed == Contract!CNext \/ UNCHANGED <<proxies, Aside>>
  <1>0. PICK h \in Handlers, k \in Keys :
          \/ AddChecks(h, k)    \/ AddInserts(h, k)
          \/ BanRemoves(h, k)   \/ BanInserts(h, k)
          \/ UnbanRemoves(h, k) \/ UnbanInserts(h, k)
    BY DEF Api
  <1> DEFINE r == requests[h]
             Fresh(op, p) == [op |-> op, key |-> k, proxy |-> p]
  <1>h. \A op, p : /\ Fresh(op, p).op = op /\ Fresh(op, p).key = k
                   /\ Fresh(op, p).proxy = p
    OBVIOUS
  <1> HIDE DEF Fresh
  <1>a. Aside = AsideOf(banned, requests) /\ Aside' = AsideOf(banned', requests')
    BY AsideMeans
  <1>1. CASE AddChecks(h, k)
    <2>1. /\ h \notin DOMAIN requests /\ banned' = banned
          /\ requests' = Put(requests, h, Fresh("add", NewProxy))
      BY <1>1 DEF AddChecks, Begin, Fresh
    <2>2. Aside' = Aside
      BY <1>a, <1>h, <2>1, AsideBegins
    <2> QED BY <1>1, <2>2 DEF AddChecks
  <1>2. CASE AddInserts(h, k)
    <2>1. h \in DOMAIN requests /\ r.op = "add" /\ r.proxy = NewProxy
      BY <1>2 DEF AddInserts, Pending, AddsNew
    <2>2. Aside' = Aside
      BY <1>2, <1>a, <2>1, AsideEnds DEF AddInserts
    <2>3. Contract!Appear(k)
      BY <1>2, <2>1, <2>2, SameMethods DEF AddInserts, Contract!Appear
    <2> QED BY <2>3 DEF Contract!CNext
  <1>3. CASE BanRemoves(h, k)
    <2>0. /\ h \notin DOMAIN requests /\ banned' = banned
          /\ requests' = Put(requests, h, Fresh("ban", proxies[k]))
      BY <1>3 DEF BanRemoves, Begin, Fresh
    <2>1. Aside' = Aside \cup {<<k, proxies[k]>>}
      BY <1>a, <1>h, <2>0, AsideBegins
    <2>2. Contract!SetAside(k)
      BY <1>3, <2>1, SameMethods DEF BanRemoves, Contract!SetAside
    <2> QED BY <2>2 DEF Contract!CNext
  <1>4. CASE BanInserts(h, k)
    <2>1. h \in DOMAIN requests /\ r.op # "add" /\ r.key = k
      BY <1>4 DEF BanInserts, Pending
    <2>2. /\ requests' = Drop(requests, {h})
          /\ banned' = Put(banned, k, r.proxy) /\ proxies' = proxies
      BY <1>4 DEF BanInserts
    <2>3. Aside' \subseteq AsideOf(banned, requests') \cup {<<k, r.proxy>>}
      BY <1>a, <2>2, AsideBanned
    <2>4. /\ AsideOf(banned, requests') \subseteq Aside
          /\ <<k, r.proxy>> \in Aside
      BY <1>a, <2>1, <2>2, AsideEnds
    <2>5. Contract!Discard
      BY <2>2, <2>3, <2>4 DEF Contract!Discard
    <2> QED BY <2>5 DEF Contract!CNext
  <1>5. CASE UnbanRemoves(h, k)
    <2>1. /\ h \notin DOMAIN requests /\ k \in DOMAIN banned
          /\ requests' = Put(requests, h, Fresh("unban", banned[k]))
          /\ banned' = Drop(banned, {k}) /\ proxies' = proxies
      BY <1>5 DEF UnbanRemoves, Begin, Fresh
    <2>2. Aside' = AsideOf(banned', requests) \cup {<<k, banned[k]>>}
      BY <1>a, <1>h, <2>1, AsideBegins
    <2>3. Aside' = Aside
      BY <1>a, <2>1, <2>2, AsideBanned
    <2> QED BY <2>1, <2>3
  <1>6. CASE UnbanInserts(h, k)
    <2>1. h \in DOMAIN requests /\ r.op # "add" /\ r.key = k
      BY <1>6 DEF UnbanInserts, Pending
    <2>2. /\ requests' = Drop(requests, {h})
          /\ proxies' = Put(proxies, k, r.proxy) /\ banned' = banned
      BY <1>6 DEF UnbanInserts
    <2> DEFINE x == <<k, r.proxy>>
    <2>3. /\ Aside' \subseteq Aside /\ Aside \ {x} \subseteq Aside' /\ x \in Aside
      BY <1>a, <2>1, <2>2, AsideEnds
    <2>4. x[1] = k /\ x[2] = r.proxy
      OBVIOUS
    <2> HIDE DEF x
    <2>5. Aside' \in {Aside, Aside \ {x}}
      <3>1. CASE x \in Aside'
        BY <2>3, <3>1
      <3>2. CASE x \notin Aside'
        BY <2>3, <3>2
      <3> QED BY <3>1, <3>2
    <2>6. Contract!Return(k, r.proxy)
      BY <2>2, <2>3, <2>5, SameMethods DEF Contract!Return, x
    <2>7. Contract!Return(x[1], x[2])
      BY <2>4, <2>6
    <2> QED BY <2>3, <2>7 DEF Contract!CNext
  <1> QED BY <1>0, <1>1, <1>2, <1>3, <1>4, <1>5, <1>6

(* So is a clock event. *)
LEMMA ClockKeepsContract ==
  ASSUME IInv, ClockTicks
  PROVE  Contract!CNext
  <1>0. \A h \in DOMAIN requests :
          requests[h] \in [op : {"add", "ban", "unban"}, key : Keys,
                           proxy : ProxyRecord]
    BY DEF IInv, RequestsSound, RequestSound
  <1>a. Aside = AsideOf(banned, requests) /\ Aside' = AsideOf(banned', requests')
    BY AsideMeans
  <1>1. CASE Minute
    <2>0. \A k, p : AgedAt("minute", Keys, k, p) =
                      IF k \in Keys THEN MinutePasses(p) ELSE p
      BY DEF AgedAt, AgedBy
    <2>1. MapAged("minute", Keys, banned, banned')
      BY <1>1, <2>0 DEF Minute, Pass, Aged, MapAged
    <2>2. RequestsAged("minute", Keys, requests, requests')
      BY <1>1, <1>0, <2>0 DEF Minute, Pass, RequestsAged
    <2>3. Aside' = {<<x[1], AgedAt("minute", Keys, x[1], x[2])>> : x \in Aside}
      BY <1>a, <2>1, <2>2, AsideAges
    <2>4. \A k, p : AgedAt("minute", Keys, k, p) =
                      IF k \in Keys THEN Contract!MinutePasses(p) ELSE p
      BY <2>0, SameMethods
    <2>5. Aside' = {<<x[1], IF x[1] \in Keys THEN Contract!MinutePasses(x[2])
                            ELSE x[2]>> : x \in Aside}
      BY <2>3, <2>4
    <2>6. proxies' = [x \in DOMAIN proxies |->
                        IF x \in Keys THEN Contract!MinutePasses(proxies[x])
                        ELSE proxies[x]]
      BY <1>1, SameMethods DEF Minute, Pass, Aged
    <2>7. Contract!Clock(Contract!MinutePasses, Keys)
      BY <2>5, <2>6 DEF Contract!Clock, Contract!Aged
    <2> QED BY <2>7 DEF Contract!CNext
  <1>2. ASSUME NEW j \in Keys, Hour(j) PROVE Contract!CNext
    <2>0. \A k, p : AgedAt("hour", {j}, k, p) =
                      IF k \in {j} THEN HourPasses(p) ELSE p
      BY DEF AgedAt, AgedBy
    <2>1. MapAged("hour", {j}, banned, banned')
      BY <1>2, <2>0 DEF Hour, Pass, Aged, MapAged
    <2>2. RequestsAged("hour", {j}, requests, requests')
      BY <1>2, <1>0, <2>0 DEF Hour, Pass, RequestsAged
    <2>3. Aside' = {<<x[1], AgedAt("hour", {j}, x[1], x[2])>> : x \in Aside}
      BY <1>a, <2>1, <2>2, AsideAges
    <2>4. \A k, p : AgedAt("hour", {j}, k, p) =
                      IF k \in {j} THEN Contract!HourPasses(p) ELSE p
      BY <2>0, SameMethods
    <2>5. Aside' = {<<x[1], IF x[1] \in {j} THEN Contract!HourPasses(x[2])
                            ELSE x[2]>> : x \in Aside}
      BY <2>3, <2>4
    <2>6. proxies' = [x \in DOMAIN proxies |->
                        IF x \in {j} THEN Contract!HourPasses(proxies[x])
                        ELSE proxies[x]]
      BY <1>2, SameMethods DEF Hour, Pass, Aged
    <2>7. Contract!Clock(Contract!HourPasses, {j})
      BY <2>5, <2>6 DEF Contract!Clock, Contract!Aged
    <2> QED BY <2>7 DEF Contract!CNext
  <1>3. ASSUME NEW j \in Keys, Day(j) PROVE Contract!CNext
    <2>0. \A k, p : AgedAt("day", {j}, k, p) =
                      IF k \in {j} THEN DayPasses(p) ELSE p
      BY DEF AgedAt, AgedBy
    <2>1. MapAged("day", {j}, banned, banned')
      BY <1>3, <2>0 DEF Day, Pass, Aged, MapAged
    <2>2. RequestsAged("day", {j}, requests, requests')
      BY <1>3, <1>0, <2>0 DEF Day, Pass, RequestsAged
    <2>3. Aside' = {<<x[1], AgedAt("day", {j}, x[1], x[2])>> : x \in Aside}
      BY <1>a, <2>1, <2>2, AsideAges
    <2>4. \A k, p : AgedAt("day", {j}, k, p) =
                      IF k \in {j} THEN Contract!DayPasses(p) ELSE p
      BY <2>0, SameMethods
    <2>5. Aside' = {<<x[1], IF x[1] \in {j} THEN Contract!DayPasses(x[2])
                            ELSE x[2]>> : x \in Aside}
      BY <2>3, <2>4
    <2>6. proxies' = [x \in DOMAIN proxies |->
                        IF x \in {j} THEN Contract!DayPasses(proxies[x])
                        ELSE proxies[x]]
      BY <1>3, SameMethods DEF Day, Pass, Aged
    <2>7. Contract!Clock(Contract!DayPasses, {j})
      BY <2>5, <2>6 DEF Contract!Clock, Contract!Aged
    <2> QED BY <2>7 DEF Contract!CNext
  <1> QED BY <1>1, <1>2, <1>3 DEF ClockTicks

(* So is every step. *)
LEMMA ContractStep ==
  ASSUME IInv, AddsNew, [Next]_vars
  PROVE  Contract!CNext \/ UNCHANGED <<proxies, Aside>>
  <1> DEFINE Allowed == Contract!CNext \/ UNCHANGED <<proxies, Aside>>
  <1> SUFFICES Allowed
    OBVIOUS
  <1>a. UNCHANGED apiVars => Aside' = Aside
    BY AsideMeans DEF apiVars
  <1>u. UNCHANGED <<proxies, apiVars>> => Allowed
    BY <1>a
  <1>o. ASSUME NEW k \in Keys, UNCHANGED apiVars, NEW c \in Countries \cup {"None"},
               NEW verdict \in {"true", "false"},
               \/ proxies' = Modify(proxies, k, RecordSuccess(proxies[k]))
               \/ proxies' = Modify(proxies, k, RecordFail(proxies[k]))
               \/ proxies' = Modify(proxies, k, SetTlsClean(proxies[k], verdict))
               \/ /\ c # "None"
                  /\ proxies' = Modify(proxies, k, SetCountry(proxies[k], c))
        PROVE  Allowed
    <2>1. CASE k \notin DOMAIN proxies
      BY <1>o, <1>u, <2>1 DEF Modify
    <2>2. CASE k \in DOMAIN proxies
      <3>1. \E v \in Contract!Outcomes(proxies[k]) :
              proxies' = Modify(proxies, k, v)
        BY <1>o, SameMethods DEF Contract!Outcomes
      <3>2. Contract!Change(k)
        BY <1>o, <1>a, <2>2, <3>1, SameMethods DEF Contract!Change
      <3> QED BY <3>2 DEF Contract!CNext
    <2> QED BY <2>1, <2>2
  <1>p. ASSUME NEW k \in Keys, UNCHANGED apiVars, NEW verdict \in {"true", "false"},
               \/ proxies' = Modify(proxies, k, RecordSuccess(proxies[k]))
               \/ proxies' = Modify(proxies, k, RecordFail(proxies[k]))
               \/ proxies' = Modify(proxies, k, SetTlsClean(proxies[k], verdict))
        PROVE  Allowed
    <2>1. "None" \in Countries \cup {"None"}
      OBVIOUS
    <2> QED BY <1>o, <1>p, <2>1
  <1>1. ASSUME NEW k \in Keys, CleanupStale(k) PROVE Allowed
    <2>1. CASE k \in DOMAIN proxies /\ Stale(proxies[k])
      <3>1. Contract!Forget(k)
        BY <1>1, <1>a, <2>1, SameMethods DEF CleanupStale, Contract!Forget
      <3> QED BY <3>1 DEF Contract!CNext
    <2>2. CASE ~(k \in DOMAIN proxies /\ Stale(proxies[k]))
      BY <1>1, <1>u, <2>2 DEF CleanupStale
    <2> QED BY <2>1, <2>2
  <1>2. ASSUME NEW k \in Keys, InsertChecks(k) PROVE Allowed
    BY <1>2, <1>u DEF InsertChecks
  <1>3. ASSUME NEW k \in Keys, InsertFills(k) PROVE Allowed
    <2>1. CASE k \in DOMAIN proxies
      BY <1>3, <2>1, <1>u DEF InsertFills
    <2>2. CASE k \notin DOMAIN proxies
      <3>1. Contract!Appear(k)
        BY <1>3, <2>2, <1>a, SameMethods DEF InsertFills, Contract!Appear
      <3> QED BY <3>1 DEF Contract!CNext
    <2> QED BY <2>1, <2>2
  <1>8. CASE Api
    BY <1>8, ApiKeepsContract
  <1>9. CASE ClockTicks
    BY <1>9, ClockKeepsContract
  <1> HIDE DEF Allowed
  <1>4. CASE HealthChecker
    BY <1>4, <1>p, <1>u
       DEF HealthChecker, StartBatch, ProbeDead, ProbeAlive, ProbeTls
  <1>5. ASSUME NEW k \in Keys, GeoReads(k) \/ GeoStores(k) PROVE Allowed
    <2>1. CASE GeoReads(k)
      BY <2>1, <1>u DEF GeoReads
    <2>2. CASE GeoStores(k)
      <3>1. CountryOf[k] \in Countries /\ CountryOf[k] # "None"
        BY <2>2, CountryAssumption DEF GeoStores, IInv, TasksOK
      <3>2. "true" \in {"true", "false"}
        OBVIOUS
      <3>3. UNCHANGED apiVars
            /\ proxies' = Modify(proxies, k, SetCountry(proxies[k], CountryOf[k]))
        BY <2>2 DEF GeoStores
      <3> QED BY <1>o, <3>1, <3>2, <3>3
    <2> QED BY <1>5, <2>1, <2>2
  <1>6. CASE Connections
    BY <1>6, <1>p, <1>u DEF Connections, Use, UseSucceeds, UseFails
  <1>7. CASE UNCHANGED vars
    BY <1>7, <1>u DEF vars, apiVars
  <1> QED
    BY <1>1, <1>2, <1>3, <1>4, <1>5, <1>6, <1>7, <1>8, <1>9
       DEF Next, Refresher, GeoTasks

(* The pool keeps its contract for any number of tasks, handlers and
   connections: a key comes in only as a new proxy or as the record that was
   set aside, its record changes only by the methods of Proxy, and it leaves
   only into the hands of the API or as stale.                              *)
THEOREM PoolImplementsContract == Spec => ImplementsContract
  <1>1. Init => Contract!CInit /\ AddsNew
    <2> SUFFICES ASSUME Init PROVE Contract!CInit /\ AddsNew
      OBVIOUS
    <2>1. MapSound(proxies)
      BY InitIInv DEF IInv
    <2>2. Aside = {}
      BY DEF Init, Aside, EmptyMap
    <2>3. AddsNew
      BY DEF Init, AddsNew, EmptyMap
    <2> QED
      BY <2>1, <2>2, <2>3, SameMethods DEF Contract!CInit, MapSound, Sound
  <1>2. IInv /\ AddsNew /\ [Next]_vars => [Contract!CNext]_(Contract!cvars)
    BY ContractStep DEF Contract!cvars
  <1> QED
    BY <1>1, <1>2, InvariantHolds, AddsNewStep, PTL
       DEF Spec, ImplementsContract, Contract!CSpec
-----------------------------------------------------------------------------
(* The pool implements PoolView: every step that the contract allows changes
   what is seen in one of the ways of PoolView.                             *)

(* A view follows the calls on its map: DashMap::insert, *)
LEMMA ViewPut ==
  ASSUME NEW m, NEW k, NEW v
  PROVE  ViewOf(Put(m, k, v)) = View!Put(ViewOf(m), k, Visible(v))
  BY DEF ViewOf, Put, View!Put

(* remove, *)
LEMMA ViewDrop ==
  ASSUME NEW m, NEW ks
  PROVE  ViewOf(Drop(m, ks)) = View!Drop(ViewOf(m), ks)
  BY DEF ViewOf, Drop, View!Drop

(* and an update through get_mut. *)
LEMMA ViewModify ==
  ASSUME NEW m, NEW k, NEW v
  PROVE  ViewOf(Modify(m, k, v)) = View!Modify(ViewOf(m), k, Visible(v))
  BY DEF ViewOf, Modify, View!Modify

(* What each method of Proxy changes in what is seen of the record. *)
LEMMA VisibleOf ==
  ASSUME NEW p, Sound(p)
  PROVE  /\ Visible(p) \in View!ViewRecord
         /\ Visible(RecordSuccess(p)) = [Visible(p) EXCEPT !.status = "Verified"]
         /\ Visible(RecordFail(p)) \in
              {Visible(p), [Visible(p) EXCEPT !.status = "Failed"]}
         /\ \A verdict \in {"true", "false"} :
              Visible(SetTlsClean(p, verdict)) =
                [Visible(p) EXCEPT !.clean = (verdict = "true")]
         /\ \A c \in Countries :
              Visible(SetCountry(p, c)) = [Visible(p) EXCEPT !.country = c]
         /\ Visible(MinutePasses(p)) = Visible(p)
         /\ Visible(HourPasses(p)) = Visible(p)
         /\ Visible(DayPasses(p)) = Visible(p)
         /\ Stale(p) => Visible(p).status \in {"Unchecked", "Failed"}
  <1>0. p \in ProxyRecord
    BY DEF Sound
  <1>1. Visible(p) \in View!ViewRecord
    BY <1>0 DEF Visible, ProxyRecord, Status, View!ViewRecord
  <1>2. Visible(RecordSuccess(p)) = [Visible(p) EXCEPT !.status = "Verified"]
    BY <1>0 DEF Visible, ProxyRecord, RecordSuccess
  <1>3. Visible(RecordFail(p)) \in
              {Visible(p), [Visible(p) EXCEPT !.status = "Failed"]}
    <2>1. /\ RecordFail(p).status \in {p.status, "Failed"}
          /\ RecordFail(p).tls_clean = p.tls_clean
          /\ RecordFail(p).country = p.country
      BY <1>0 DEF ProxyRecord, RecordFail
    <2> QED BY <2>1 DEF Visible
  <1>4. \A verdict \in {"true", "false"} :
              Visible(SetTlsClean(p, verdict)) =
                [Visible(p) EXCEPT !.clean = (verdict = "true")]
    BY <1>0 DEF Visible, ProxyRecord, SetTlsClean
  <1>5. \A c \in Countries :
              Visible(SetCountry(p, c)) = [Visible(p) EXCEPT !.country = c]
    BY <1>0 DEF Visible, ProxyRecord, SetCountry
  <1>6. /\ Visible(MinutePasses(p)) = Visible(p)
        /\ Visible(HourPasses(p)) = Visible(p)
        /\ Visible(DayPasses(p)) = Visible(p)
    BY <1>0 DEF Visible, ProxyRecord, MinutePasses, HourPasses, DayPasses
  <1>7. Stale(p) => Visible(p).status \in {"Unchecked", "Failed"}
    BY <1>0 DEF Sound, BreakerConsistent, Stale, Visible, ProxyRecord, Status
  <1> QED BY <1>1, <1>2, <1>3, <1>4, <1>5, <1>6, <1>7

(* Membership in what is seen of the records that are set aside. *)
LEMMA InAsideView ==
  ASSUME NEW a, NEW y
  PROVE  y \in AsideView(a) <=> \E x \in a : y = <<x[1], Visible(x[2])>>
  BY DEF AsideView

(* Every record that the API holds is sound. *)
LEMMA AsideSound ==
  ASSUME IInv, NEW x \in Aside
  PROVE  Sound(x[2])
  <1>1. x \in AsideOf(banned, requests)
    BY AsideMeans
  <1>2. CASE \E k \in DOMAIN banned : x = <<k, banned[k]>>
    BY <1>2 DEF IInv, MapSound
  <1>3. CASE \E h \in DOMAIN requests :
               requests[h].op # "add" /\ x = <<requests[h].key, requests[h].proxy>>
    BY <1>3 DEF IInv, RequestsSound, RequestSound
  <1> QED BY <1>1, <1>2, <1>3, InAside

(* A change of one record is seen as one of the changes of PoolView. *)
LEMMA ChangeSeen ==
  ASSUME IInv, NEW k \in Keys, Contract!Change(k)
  PROVE  View!VNext
  <1> DEFINE w == ViewOf(proxies)
             p == proxies[k]
  <1>1. k \in DOMAIN proxies /\ Sound(p) /\ k \in DOMAIN w /\ w[k] = Visible(p)
    BY DEF Contract!Change, IInv, MapSound, ViewOf
  <1>2. Aside' = Aside
    BY DEF Contract!Change
  <1>3. PICK r : /\ proxies' = Modify(proxies, k, r)
                 /\ \/ r = RecordSuccess(p) \/ r = RecordFail(p)
                    \/ \E verdict \in {"true", "false"} : r = SetTlsClean(p, verdict)
                    \/ \E c \in Countries : r = SetCountry(p, c)
    BY SameMethods DEF Contract!Change, Contract!Outcomes
  <1>4. /\ ViewOf(proxies') = View!Modify(w, k, Visible(r))
        /\ AsideView(Aside') = AsideView(Aside)
    BY <1>2, <1>3, ViewModify
  <1>w. View!Modify(w, k, w[k]) = w
    BY DEF View!Modify, w, ViewOf
  <1> HIDE DEF w, p
  <1>5. CASE r = RecordSuccess(p)
    <2>1. Visible(r) = [w[k] EXCEPT !.status = "Verified"]
      BY <1>1, <1>5, VisibleOf
    <2>2. View!Works(k)
      BY <1>4, <2>1 DEF View!Works, View!Sees, w
    <2> QED BY <2>2 DEF View!VNext
  <1>6. CASE r = RecordFail(p)
    <2>1. Visible(r) \in {w[k], [w[k] EXCEPT !.status = "Failed"]}
      BY <1>1, <1>6, VisibleOf
    <2>2. View!FailsOnce(k)
      BY <1>1, <1>4, <1>w, <2>1
         DEF View!FailsOnce, View!Sees, View!viewVars, w
    <2> QED BY <2>2 DEF View!VNext
  <1>7. ASSUME NEW verdict \in {"true", "false"}, r = SetTlsClean(p, verdict)
        PROVE  View!VNext
    <2>1. Visible(r) = [w[k] EXCEPT !.clean = (verdict = "true")]
      BY <1>1, <1>7, VisibleOf
    <2>2. View!Judged(k, verdict = "true") /\ (verdict = "true") \in BOOLEAN
      BY <1>4, <2>1 DEF View!Judged, View!Sees, w
    <2> QED BY <2>2 DEF View!VNext
  <1>8. ASSUME NEW c \in Countries, r = SetCountry(p, c) PROVE View!VNext
    <2>1. Visible(r) = [w[k] EXCEPT !.country = c]
      BY <1>1, <1>8, VisibleOf
    <2>2. View!Located(k, c)
      BY <1>4, <2>1 DEF View!Located, View!Sees, w
    <2> QED BY <2>2 DEF View!VNext
  <1> QED BY <1>3, <1>5, <1>6, <1>7, <1>8

(* Growing older is not seen. *)
LEMMA AgingUnseen ==
  ASSUME IInv, NEW ks, NEW c \in {"minute", "hour", "day"},
         proxies' = [x \in DOMAIN proxies |-> AgedAt(c, ks, x, proxies[x])],
         Aside' = {<<x[1], AgedAt(c, ks, x[1], x[2])>> : x \in Aside}
  PROVE  ViewOf(proxies') = ViewOf(proxies) /\ AsideView(Aside') = AsideView(Aside)
  <1>2. ASSUME NEW j, NEW p, Sound(p)
        PROVE  Visible(AgedAt(c, ks, j, p)) = Visible(p)
    BY <1>2, VisibleOf DEF AgedAt, AgedBy
  <1>3. ViewOf(proxies') = ViewOf(proxies)
    <2>1. \A x \in DOMAIN proxies : Sound(proxies[x])
      BY DEF IInv, MapSound
    <2> QED BY <1>2, <2>1 DEF ViewOf
  <1>4. ASSUME NEW y PROVE y \in AsideView(Aside') <=> y \in AsideView(Aside)
    <2> DEFINE Older(x) == <<x[1], AgedAt(c, ks, x[1], x[2])>>
    <2>1. \A x \in Aside : /\ Older(x)[1] = x[1]
                           /\ Visible(Older(x)[2]) = Visible(x[2])
      BY <1>2, AsideSound
    <2>2. Aside' = {Older(x) : x \in Aside}
      OBVIOUS
    <2> HIDE DEF Older
    <2>3. y \in AsideView(Aside') <=>
            \E x \in Aside : y = <<Older(x)[1], Visible(Older(x)[2])>>
      BY <2>2, InAsideView
    <2>4. y \in AsideView(Aside) <=> \E x \in Aside : y = <<x[1], Visible(x[2])>>
      BY InAsideView
    <2> QED BY <2>1, <2>3, <2>4
  <1> QED BY <1>3, <1>4

(* So no clock event is. *)
LEMMA ClockUnseen ==
  ASSUME IInv, NEW k,
         \/ Contract!Clock(Contract!MinutePasses, Keys)
         \/ Contract!Clock(Contract!HourPasses, {k})
         \/ Contract!Clock(Contract!DayPasses, {k})
  PROVE  ViewOf(proxies') = ViewOf(proxies) /\ AsideView(Aside') = AsideView(Aside)
  <1>1. CASE Contract!Clock(Contract!MinutePasses, Keys)
    <2>1. \A j, p : AgedAt("minute", Keys, j, p) =
                      IF j \in Keys THEN Contract!MinutePasses(p) ELSE p
      BY SameMethods DEF AgedAt, AgedBy
    <2>2. proxies' = [x \in DOMAIN proxies |->
                        IF x \in Keys THEN Contract!MinutePasses(proxies[x])
                        ELSE proxies[x]]
      BY <1>1 DEF Contract!Clock, Contract!Aged
    <2>3. Aside' = {<<x[1], IF x[1] \in Keys THEN Contract!MinutePasses(x[2])
                            ELSE x[2]>> : x \in Aside}
      BY <1>1 DEF Contract!Clock
    <2>4. proxies' = [x \in DOMAIN proxies |-> AgedAt("minute", Keys, x, proxies[x])]
      BY <2>1, <2>2
    <2>5. Aside' = {<<x[1], AgedAt("minute", Keys, x[1], x[2])>> : x \in Aside}
      BY <2>1, <2>3
    <2> QED BY <2>4, <2>5, AgingUnseen
  <1>2. CASE Contract!Clock(Contract!HourPasses, {k})
    <2>1. \A j, p : AgedAt("hour", {k}, j, p) =
                      IF j \in {k} THEN Contract!HourPasses(p) ELSE p
      BY SameMethods DEF AgedAt, AgedBy
    <2>2. proxies' = [x \in DOMAIN proxies |->
                        IF x \in {k} THEN Contract!HourPasses(proxies[x])
                        ELSE proxies[x]]
      BY <1>2 DEF Contract!Clock, Contract!Aged
    <2>3. Aside' = {<<x[1], IF x[1] \in {k} THEN Contract!HourPasses(x[2])
                            ELSE x[2]>> : x \in Aside}
      BY <1>2 DEF Contract!Clock
    <2>4. proxies' = [x \in DOMAIN proxies |-> AgedAt("hour", {k}, x, proxies[x])]
      BY <2>1, <2>2
    <2>5. Aside' = {<<x[1], AgedAt("hour", {k}, x[1], x[2])>> : x \in Aside}
      BY <2>1, <2>3
    <2> QED BY <2>4, <2>5, AgingUnseen
  <1>3. CASE Contract!Clock(Contract!DayPasses, {k})
    <2>1. \A j, p : AgedAt("day", {k}, j, p) =
                      IF j \in {k} THEN Contract!DayPasses(p) ELSE p
      BY SameMethods DEF AgedAt, AgedBy
    <2>2. proxies' = [x \in DOMAIN proxies |->
                        IF x \in {k} THEN Contract!DayPasses(proxies[x])
                        ELSE proxies[x]]
      BY <1>3 DEF Contract!Clock, Contract!Aged
    <2>3. Aside' = {<<x[1], IF x[1] \in {k} THEN Contract!DayPasses(x[2])
                            ELSE x[2]>> : x \in Aside}
      BY <1>3 DEF Contract!Clock
    <2>4. proxies' = [x \in DOMAIN proxies |-> AgedAt("day", {k}, x, proxies[x])]
      BY <2>1, <2>2
    <2>5. Aside' = {<<x[1], AgedAt("day", {k}, x[1], x[2])>> : x \in Aside}
      BY <2>1, <2>3
    <2> QED BY <2>4, <2>5, AgingUnseen
  <1> QED BY <1>1, <1>2, <1>3

(* Every step of the contract is seen as a step of PoolView, or not at all. *)
LEMMA ViewStep ==
  ASSUME IInv, Contract!CNext
  PROVE  \/ View!VNext
         \/ ViewOf(proxies') = ViewOf(proxies) /\ AsideView(Aside') = AsideView(Aside)
  <1> DEFINE w == ViewOf(proxies)
             a == AsideView(Aside)
  <1>d. DOMAIN w = DOMAIN proxies /\ \A j \in DOMAIN proxies : w[j] = Visible(proxies[j])
    BY DEF ViewOf
  <1>1. ASSUME NEW k \in Keys, Contract!Appear(k) PROVE View!VNext
    <2>1. Visible(NewProxy) = View!NewView
      BY DEF Visible, NewProxy, View!NewView
    <2>2. ViewOf(proxies') = View!Put(w, k, View!NewView)
      BY <1>1, <2>1, ViewPut, SameMethods DEF Contract!Appear
    <2>3. AsideView(Aside') = a
      BY <1>1 DEF Contract!Appear
    <2>4. View!Appears(k)
      BY <2>2, <2>3 DEF View!Appears
    <2> QED BY <2>4 DEF View!VNext
  <1>2. ASSUME NEW k \in Keys, Contract!SetAside(k) PROVE View!VNext
    <2>1. ViewOf(proxies') = View!Drop(w, {k})
      BY <1>2, ViewDrop, SameMethods DEF Contract!SetAside
    <2>2. Aside' = Aside \cup {<<k, proxies[k]>>} /\ k \in DOMAIN proxies
      BY <1>2 DEF Contract!SetAside
    <2>3. AsideView(Aside') = a \cup {<<k, w[k]>>}
      <3>1. ASSUME NEW y
            PROVE  y \in AsideView(Aside') <=> y \in a \/ y = <<k, Visible(proxies[k])>>
        <4> DEFINE x == <<k, proxies[k]>>
        <4>1. <<x[1], Visible(x[2])>> = <<k, Visible(proxies[k])>>
          OBVIOUS
        <4>2. Aside' = Aside \cup {x}
          BY <2>2
        <4> HIDE DEF x
        <4>3. /\ y \in AsideView(Aside') <=> \E u \in Aside' : y = <<u[1], Visible(u[2])>>
              /\ y \in a <=> \E u \in Aside : y = <<u[1], Visible(u[2])>>
          BY InAsideView
        <4> QED BY <4>1, <4>2, <4>3
      <3> QED BY <1>d, <2>2, <3>1
    <2>4. View!Banned(k)
      BY <1>d, <2>1, <2>2, <2>3 DEF View!Banned
    <2> QED BY <2>4 DEF View!VNext
  <1>3. ASSUME NEW x \in Aside, Contract!Return(x[1], x[2]) PROVE View!VNext
    <2> DEFINE y == <<x[1], Visible(x[2])>>
    <2>0. y[1] = x[1] /\ y[2] = Visible(x[2])
      OBVIOUS
    <2>1. ViewOf(proxies') = View!Put(w, x[1], Visible(x[2]))
      BY <1>3, ViewPut, SameMethods DEF Contract!Return
    <2>2. <<x[1], x[2]>> \in Aside /\ Aside' \in {Aside, Aside \ {<<x[1], x[2]>>}}
      BY <1>3 DEF Contract!Return
    <2>3. y \in a
      BY InAsideView
    <2> HIDE DEF y, a
    <2>4. AsideView(Aside') \in {a, a \ {y}}
      <3>1. \A z : z \in AsideView(Aside') => z \in a
        BY <2>2, InAsideView DEF a
      <3>2. \A z : z \in a /\ z # y => z \in AsideView(Aside')
        <4>1. ASSUME NEW z, z \in a, z # y PROVE z \in AsideView(Aside')
          <5>1. PICK u \in Aside : z = <<u[1], Visible(u[2])>>
            BY <4>1, InAsideView DEF a
          <5>2. u # <<x[1], x[2]>>
            BY <4>1, <5>1 DEF y
          <5>3. u \in Aside'
            BY <2>2, <5>2
          <5> QED BY <5>1, <5>3, InAsideView
        <4> QED BY <4>1
      <3>3. CASE y \in AsideView(Aside')
        <4>1. AsideView(Aside') = a
          BY <3>1, <3>2, <3>3
        <4> QED BY <4>1
      <3>4. CASE y \notin AsideView(Aside')
        <4>1. AsideView(Aside') = a \ {y}
          BY <3>1, <3>2, <3>4
        <4> QED BY <4>1
      <3> QED BY <3>3, <3>4
    <2>5. View!Returns(y[1], y[2])
      <3>1. View!Returns(x[1], Visible(x[2]))
        BY <2>1, <2>3, <2>4 DEF View!Returns, y, a
      <3> QED BY <2>0, <3>1
    <2> QED BY <2>3, <2>5 DEF View!VNext, a
  <1>4. CASE Contract!Discard
    <2>1. Aside' \subseteq Aside /\ proxies' = proxies
      BY <1>4 DEF Contract!Discard
    <2>2. AsideView(Aside') \subseteq a
      BY <2>1, InAsideView
    <2>3. View!Discards
      BY <2>1, <2>2 DEF View!Discards
    <2> QED BY <2>3 DEF View!VNext
  <1>5. ASSUME NEW k \in Keys, Contract!Forget(k) PROVE View!VNext
    <2>1. k \in DOMAIN proxies /\ Stale(proxies[k]) /\ Sound(proxies[k])
      BY <1>5, SameMethods DEF Contract!Forget, IInv, MapSound
    <2>2. w[k].status \in {"Unchecked", "Failed"}
      BY <1>d, <2>1, VisibleOf
    <2>3. ViewOf(proxies') = View!Drop(w, {k}) /\ AsideView(Aside') = a
      BY <1>5, ViewDrop, SameMethods DEF Contract!Forget
    <2>4. View!Forgotten(k)
      BY <1>d, <2>1, <2>2, <2>3 DEF View!Forgotten
    <2> QED BY <2>4 DEF View!VNext
  <1>6. ASSUME NEW k \in Keys, Contract!Change(k) PROVE View!VNext
    BY <1>6, ChangeSeen
  <1>7. CASE Contract!Clock(Contract!MinutePasses, Keys)
    BY <1>7, ClockUnseen
  <1>8. ASSUME NEW k \in Keys,
               Contract!Clock(Contract!HourPasses, {k}) \/ Contract!Clock(Contract!DayPasses, {k})
        PROVE  ViewOf(proxies') = w /\ AsideView(Aside') = a
    BY <1>8, ClockUnseen
  <1> QED BY <1>1, <1>2, <1>3, <1>4, <1>5, <1>6, <1>7, <1>8 DEF Contract!CNext

(* What the selection sees changes only as PoolView says, for any number of
   tasks, handlers and connections.                                         *)
THEOREM PoolImplementsView == Spec => ImplementsView
  <1>1. Init => View!VInit /\ AddsNew
    <2> SUFFICES ASSUME Init PROVE View!VInit /\ AddsNew
      OBVIOUS
    <2>0. PICK ks \in SUBSET Keys :
            \E file \in {m \in [ks -> UNION {SavedRecords(k) : k \in ks}] :
                         \A k \in ks : m[k] \in SavedRecords(k)} :
              proxies = [k \in ks |-> Restored(file[k])]
      BY DEF Init, LoadState
    <2>1. PICK file : /\ \A k \in ks : file[k] \in SavedRecords(k)
                      /\ proxies = [k \in ks |-> Restored(file[k])]
      BY <2>0
    <2>2. IInv
      BY InitIInv
    <2>3. ASSUME NEW k \in DOMAIN proxies
          PROVE  Visible(proxies[k]) \in View!LoadedViews
      <3>1. Visible(proxies[k]) \in View!ViewRecord
        BY <2>2, VisibleOf DEF IInv, MapSound
      <3>2. file[k] \in SavedRecords(k) /\ proxies[k] = Restored(file[k])
        BY <2>1
      <3>3. ASSUME NEW n, NEW s, NEW t, NEW c
            PROVE  Restored(SavedRecord(n, s, t, c)).status
                     \in {"None", "PresumedAlive"}
        BY DEF Restored, MarkPresumedAlive, SavedRecord, NewProxy
      <3>4. proxies[k].status \in {"None", "PresumedAlive"}
        BY <3>2, <3>3 DEF SavedRecords
      <3> QED BY <3>1, <3>4 DEF Visible, View!LoadedViews
    <2>4. DOMAIN proxies \subseteq Keys
      BY <2>1
    <2>5. Aside = {}
      BY DEF Init, Aside, EmptyMap
    <2>6. AsideView(Aside) = {}
      BY <2>5, InAsideView
    <2>7. AddsNew
      BY DEF Init, AddsNew, EmptyMap
    <2> QED BY <2>3, <2>4, <2>6, <2>7 DEF View!VInit, ViewOf
  <1>2. IInv /\ AddsNew /\ [Next]_vars => [View!VNext]_(View!viewVars)
    BY ContractStep, ViewStep DEF View!viewVars
  <1> QED
    BY <1>1, <1>2, InvariantHolds, AddsNewStep, PTL
       DEF Spec, ImplementsView, View!VSpec
=============================================================================
