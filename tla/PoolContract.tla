---------------------------- MODULE PoolContract ----------------------------
(***************************************************************************)
(* What the shared map of proxies promises to the tasks that use it,       *)
(* whatever the source refresher, the health checker, the API, the         *)
(* connections and the GeoIP lookups do to it concurrently:                *)
(*                                                                         *)
(*   - a key comes into the pool only as a new proxy, or as the record     *)
(*     that the API took out of the pool earlier; a late result for a key  *)
(*     that is gone brings nothing back;                                   *)
(*   - while it is in the pool its record changes only by the methods of   *)
(*     Proxy, one at a time;                                               *)
(*   - it leaves the pool only by being set aside, or as a proxy that      *)
(*     never worked and was not checked for a day.                         *)
(*                                                                         *)
(* ProxyPool implements this specification.                                *)
(***************************************************************************)
EXTENDS Proxy, DashMap

CONSTANT Keys     \* host:port of every proxy that any source may list

VARIABLES
  proxies,   \* SharedState::proxies: a partial function on Keys
  aside      \* <<key, record>>: taken out of the pool, may be put back

cvars == <<proxies, aside>>

-----------------------------------------------------------------------------
(* The records of the keys ks after some time has passed. *)
Aged(m, Age(_), ks) == [x \in DOMAIN m |-> IF x \in ks THEN Age(m[x]) ELSE m[x]]

-----------------------------------------------------------------------------
CInit ==
  /\ DOMAIN proxies \subseteq Keys
  /\ \A k \in DOMAIN proxies :
       proxies[k] \in ProxyRecord /\ BreakerConsistent(proxies[k])
  /\ aside = {}

(* A source or an operator adds a proxy. *)
Appear(k) ==
  /\ proxies' = Put(proxies, k, NewProxy)
  /\ aside' = aside

(* A proxy that was set aside comes back as it was. *)
Return(k, r) ==
  /\ <<k, r>> \in aside
  /\ proxies' = Put(proxies, k, r)
  /\ aside' \in {aside, aside \ {<<k, r>>}}

SetAside(k) ==
  /\ k \in DOMAIN proxies
  /\ aside' = aside \cup {<<k, proxies[k]>>}
  /\ proxies' = Drop(proxies, {k})

Discard ==
  /\ aside' \subseteq aside
  /\ proxies' = proxies

(* cleanup_stale comes to this key *)
Stale(p) == p.last_success = "none" /\ p.last_check = "old"

Forget(k) ==
  /\ k \in DOMAIN proxies /\ Stale(proxies[k])
  /\ proxies' = Drop(proxies, {k})
  /\ aside' = aside

(* One method of Proxy on a record that is in the pool. *)
Outcomes(p) ==
  {RecordSuccess(p), RecordFail(p), SetTlsClean(p, "true"),
   SetTlsClean(p, "false")} \cup {SetCountry(p, c) : c \in Countries}

Change(k) ==
  /\ k \in DOMAIN proxies
  /\ \E r \in Outcomes(proxies[k]) : proxies' = Modify(proxies, k, r)
  /\ aside' = aside

(* Minutes pass for all; the hour since its last success and the day since
   its last check end for each proxy at its own time.                       *)
Clock(Age(_), ks) ==
  /\ proxies' = Aged(proxies, Age, ks)
  /\ aside' = {<<x[1], IF x[1] \in ks THEN Age(x[2]) ELSE x[2]>> : x \in aside}

CNext ==
  \/ \E k \in Keys : Appear(k) \/ SetAside(k) \/ Change(k) \/ Forget(k)
  \/ \E x \in aside : Return(x[1], x[2])
  \/ Discard
  \/ Clock(MinutePasses, Keys)
  \/ \E k \in Keys : Clock(HourPasses, {k}) \/ Clock(DayPasses, {k})

CSpec == CInit /\ [][CNext]_cvars
=============================================================================
