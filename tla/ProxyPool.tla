----------------------------- MODULE ProxyPool -----------------------------
(***************************************************************************)
(* The shared pool (src/src/pool/state.rs) and the tasks that write to it: *)
(* the source refresher, the health checker with the GeoIP lookups that it *)
(* spawns, the API requests, and the connections that report how a proxy   *)
(* did.  All of them are tasks of one process; a step is what a task does  *)
(* to the DashMaps in one call, and between two calls any other task may   *)
(* run.                                                                    *)
(***************************************************************************)
EXTENDS Proxy, DashMap, FiniteSets

CONSTANTS
  Keys,          \* host:port of every proxy that any source may list
  Position,      \* where iterating the DashMap meets each key
  MaxProxies,    \* max_proxies, 0 for no limit
  Limit,         \* size of a batch of the health checker  (100, 50)
  Answers,       \* what probing a key can give: a subset of CheckResult
  CountryOf,     \* what GeoIP finds for a key, "None" if nothing
  Handlers,      \* API requests that may be in progress at once
  Clocks         \* which of the three clock events can happen

CheckResult == {"Ok", "OkNoTls", "Dead"}

ASSUME PoolAssumption ==
  /\ IsFiniteSet(Keys)
  /\ Position \in [Keys -> Nat]
  /\ \A j, k \in Keys : Position[j] = Position[k] => j = k
  /\ MaxProxies \in Nat /\ Limit \in Nat \ {0}
  /\ Answers \in [Keys -> SUBSET CheckResult]
  /\ CountryOf \in [Keys -> Countries \cup {"None"}]
  /\ Clocks \subseteq {"minute", "hour", "day"}

VARIABLES
  proxies,    \* SharedState::proxies
  banned,     \* SharedState::banned
  requests,   \* handler -> the request that is between its two map calls
  inserting,  \* key for which insert_if_absent has passed the length check
  sweep,      \* keys that the retain of cleanup_stale has still to come to
  batch,      \* keys that fast_probe is checking
  verified,   \* <<key, verdict>> between record_success and set_tls_clean
  found,      \* fast_probe: some proxy of the batch works
  lookups,    \* keys whose GeoIP task has not read the pool yet
  located,    \* keys whose GeoIP task has the country and not stored it yet
  uses        \* keys that a connection is being made or used through

vars == <<proxies, banned, requests, inserting, sweep, batch, verified, found,
          lookups, located, uses>>

apiVars   == <<banned, requests>>
srcVars   == <<inserting, sweep>>
checkVars == <<batch, verified, found>>
geoVars   == <<lookups, located>>

Request == [op : {"add", "ban", "unban"}, key : Keys, proxy : ProxyRecord]

-----------------------------------------------------------------------------
(* The pool when services start: load_state_from has put in what the file
   had, up to max_proxies.  A saved record was checked at least once.       *)
SavedRecord(fails, success, clean, country) ==
  [NewProxy EXCEPT !.status = "None", !.consecutive_fails = fails,
                   !.last_check = "stale", !.last_success = success,
                   !.tls_clean = clean, !.country = country]

SavedRecords(k) ==
  {SavedRecord(n, "none", "None", "None") : n \in 0..MaxFails} \cup
  {SavedRecord(n, s, t, c) : n \in 0..MaxFails, s \in {"recent", "old"},
                             t \in {"None", "true", "false"},
                             c \in {"None", CountryOf[k]}}

LoadState ==
  \E ks \in SUBSET Keys :
    /\ MaxProxies = 0 \/ Cardinality(ks) <= MaxProxies
    /\ \E file \in {m \in [ks -> UNION {SavedRecords(k) : k \in ks}] :
                     \A k \in ks : m[k] \in SavedRecords(k)} :
         proxies = [k \in ks |-> Restored(file[k])]

Init ==
  /\ LoadState
  /\ banned = EmptyMap
  /\ requests = EmptyMap
  /\ inserting = {} /\ sweep = {}
  /\ batch = {} /\ verified = {} /\ found = FALSE
  /\ lookups = {} /\ located = {}
  /\ uses = {}

-----------------------------------------------------------------------------
(* The source refresher: fast_bootstrap, then full_refresh_with_sources over
   and over, in one task at a time.  A source lists any keys in any order.  *)

(* Mutant: > for >=. *)
AtLimitToo == MaxProxies = 0 \/ Cardinality(DOMAIN proxies) <= MaxProxies

BelowLimit == MaxProxies = 0 \/ Cardinality(DOMAIN proxies) < MaxProxies

(* insert_if_absent: the length is read ... *)
InsertChecks(k) ==
  /\ inserting = {} /\ sweep = {}
  /\ BelowLimit
  /\ inserting' = {k}
  /\ UNCHANGED <<proxies, apiVars, sweep, checkVars, geoVars, uses>>

(* ... and then the entry is taken, and filled if it is vacant. *)
InsertFills(k) ==
  /\ k \in inserting
  /\ inserting' = {}
  /\ proxies' = IF k \in DOMAIN proxies THEN proxies
                ELSE Put(proxies, k, NewProxy)
  /\ UNCHANGED <<apiVars, sweep, checkVars, geoVars, uses>>

(* cleanup_stale, at the end of a full refresh: retain goes through the map
   in its order and locks only the part that it is at.  Every proxy that
   ever worked is kept.                                                     *)
Stale(p) == p.last_success = "none" /\ p.last_check = "old"

CleanupStale(k) ==
  LET todo == IF sweep = {} THEN Keys ELSE sweep IN
  /\ inserting = {}
  /\ k \in todo /\ \A j \in todo : Position[k] <= Position[j]
  /\ sweep' = todo \ {k}
  /\ proxies' = IF k \in DOMAIN proxies /\ Stale(proxies[k])
                THEN Drop(proxies, {k}) ELSE proxies
  /\ UNCHANGED <<apiVars, inserting, checkVars, geoVars, uses>>

-----------------------------------------------------------------------------
(* The health checker: one task, one batch at a time. *)

(* Mutant: working proxies first, to keep them Verified. *)
PriorityVerifiedFirst(p) ==
  CASE p.status = "Verified"              -> 0
    [] p.status = "PresumedAlive"         -> 1
    [] p.status \in {"Unchecked", "None"} -> 2
    [] p.status = "Failed"                -> 3

Priority(p) ==
  CASE p.status \in {"Unchecked", "None"} -> 0
    [] p.status = "PresumedAlive"         -> 1
    [] p.status = "Verified"              -> 2
    [] p.status = "Failed"                -> 3

(* proxies_needing_check(Limit): listed in the order of the map, sorted
   (stably) by priority, truncated.                                         *)
Listed == {k \in DOMAIN proxies : NeedsCheck(proxies[k])}

Precedes(j, k) ==
  \/ Priority(proxies[j]) < Priority(proxies[k])
  \/ /\ Priority(proxies[j]) = Priority(proxies[k])
     /\ Position[j] < Position[k]

ProxiesNeedingCheck ==
  {k \in Listed : Cardinality({j \in Listed : Precedes(j, k)}) < Limit}

(* run_health_loop: a tick, when the batch before it is done. *)
StartBatch ==
  /\ batch = {} /\ verified = {}
  /\ ProxiesNeedingCheck # {}
  /\ batch' = ProxiesNeedingCheck
  /\ found' = FALSE
  /\ UNCHANGED <<proxies, apiVars, srcVars, verified, geoVars, uses>>

(* fast_probe: the checks run in parallel and their results are applied in
   the order in which they end, by key, to whatever the pool now has there. *)
ProbeDead(k) ==
  /\ k \in batch /\ verified = {}
  /\ "Dead" \in Answers[k]
  /\ batch' = batch \ {k}
  /\ proxies' = Modify(proxies, k, RecordFail(proxies[k]))
  /\ UNCHANGED <<apiVars, srcVars, verified, found, geoVars, uses>>

ProbeAlive(k, result) ==
  /\ k \in batch /\ verified = {}
  /\ result \in Answers[k] \ {"Dead"}
  /\ batch' = batch \ {k}
  /\ proxies' = Modify(proxies, k, RecordSuccess(proxies[k]))
  /\ verified' = {<<k, IF result = "Ok" THEN "true" ELSE "false">>}
  /\ UNCHANGED <<apiVars, srcVars, found, geoVars, uses>>

(* set_tls_clean; found += 1, and the step that makes it 1 is the one that
   calls first_ready.notify_waiters; spawn_geoip_lookup.                    *)
ProbeTls(k, verdict) ==
  /\ <<k, verdict>> \in verified
  /\ verified' = {}
  /\ proxies' = Modify(proxies, k, SetTlsClean(proxies[k], verdict))
  /\ found' = TRUE
  /\ lookups' = lookups \cup {k}
  /\ UNCHANGED <<apiVars, srcVars, batch, located, uses>>

(* spawn_geoip_lookup: reads the host from the pool, looks it up ... *)
GeoReads(k) ==
  /\ k \in lookups
  /\ lookups' = lookups \ {k}
  /\ located' = IF k \in DOMAIN proxies /\ CountryOf[k] # "None"
                THEN located \cup {k} ELSE located
  /\ UNCHANGED <<proxies, apiVars, srcVars, checkVars, uses>>

(* ... and stores the country, if the proxy is still there. *)
GeoStores(k) ==
  /\ k \in located
  /\ located' = located \ {k}
  /\ proxies' = Modify(proxies, k, SetCountry(proxies[k], CountryOf[k]))
  /\ UNCHANGED <<apiVars, srcVars, checkVars, lookups, uses>>

-----------------------------------------------------------------------------
(* Connections.  Which proxy a connection takes is the business of module
   Transparent; what matters here is that it keeps only the key.            *)
Use(k) ==
  /\ k \in DOMAIN proxies
  /\ uses' = uses \cup {k}
  /\ UNCHANGED <<proxies, apiVars, srcVars, checkVars, geoVars>>

UseSucceeds(k) ==
  /\ k \in uses
  /\ uses' = uses \ {k}
  /\ proxies' = Modify(proxies, k, RecordSuccess(proxies[k]))
  /\ UNCHANGED <<apiVars, srcVars, checkVars, geoVars>>

(* Mutant: entry().or_insert instead of get_mut. *)
UseFailsUpserts(k) ==
  /\ k \in uses
  /\ uses' = uses \ {k}
  /\ proxies' = Put(proxies, k, RecordFail(IF k \in DOMAIN proxies
                                           THEN proxies[k] ELSE NewProxy))
  /\ UNCHANGED <<apiVars, srcVars, checkVars, geoVars>>

UseFails(k) ==
  /\ k \in uses
  /\ uses' = uses \ {k}
  /\ proxies' = Modify(proxies, k, RecordFail(proxies[k]))
  /\ UNCHANGED <<apiVars, srcVars, checkVars, geoVars>>

-----------------------------------------------------------------------------
(* The API.  Each handler makes two calls on the maps. *)

Begin(h, op, k, p) ==
  /\ h \notin DOMAIN requests
  /\ requests' = Put(requests, h, [op |-> op, key |-> k, proxy |-> p])

Pending(h, op, k) ==
  h \in DOMAIN requests /\ requests[h].op = op /\ requests[h].key = k

(* add_proxy: contains_key, then insert. *)
AddChecks(h, k) ==
  /\ k \notin DOMAIN proxies
  /\ Begin(h, "add", k, NewProxy)
  /\ UNCHANGED <<proxies, banned, srcVars, checkVars, geoVars, uses>>

AddInserts(h, k) ==
  /\ Pending(h, "add", k)
  /\ requests' = Drop(requests, {h})
  /\ proxies' = Put(proxies, k, requests[h].proxy)
  /\ UNCHANGED <<banned, srcVars, checkVars, geoVars, uses>>

(* ban_proxy: proxies.remove, then banned.insert. *)
BanRemoves(h, k) ==
  /\ k \in DOMAIN proxies
  /\ Begin(h, "ban", k, proxies[k])
  /\ proxies' = Drop(proxies, {k})
  /\ UNCHANGED <<banned, srcVars, checkVars, geoVars, uses>>

(* Mutant: only removes. *)
BanOnlyRemoves(h, k) ==
  /\ Pending(h, "ban", k)
  /\ requests' = Drop(requests, {h})
  /\ UNCHANGED <<proxies, banned, srcVars, checkVars, geoVars, uses>>

BanInserts(h, k) ==
  /\ Pending(h, "ban", k)
  /\ requests' = Drop(requests, {h})
  /\ banned' = Put(banned, k, requests[h].proxy)
  /\ UNCHANGED <<proxies, srcVars, checkVars, geoVars, uses>>

(* unban_proxy: banned.remove, then proxies.insert. *)
UnbanRemoves(h, k) ==
  /\ k \in DOMAIN banned
  /\ Begin(h, "unban", k, banned[k])
  /\ banned' = Drop(banned, {k})
  /\ UNCHANGED <<proxies, srcVars, checkVars, geoVars, uses>>

UnbanInserts(h, k) ==
  /\ Pending(h, "unban", k)
  /\ requests' = Drop(requests, {h})
  /\ proxies' = Put(proxies, k, requests[h].proxy)
  /\ UNCHANGED <<banned, srcVars, checkVars, geoVars, uses>>

-----------------------------------------------------------------------------
(* The clock: see PoolContract!Clock.  Records in the banned map and in the
   hands of a handler grow older too.                                       *)
Aged(m, Age(_), ks) == [x \in DOMAIN m |-> IF x \in ks THEN Age(m[x]) ELSE m[x]]

Pass(Age(_), ks) ==
  /\ proxies' = Aged(proxies, Age, ks)
  /\ banned' = Aged(banned, Age, ks)
  /\ requests' = [h \in DOMAIN requests |->
                    IF requests[h].key \in ks
                    THEN [requests[h] EXCEPT !.proxy = Age(requests[h].proxy)]
                    ELSE requests[h]]
  /\ UNCHANGED <<srcVars, checkVars, geoVars, uses>>

Minute  == "minute" \in Clocks /\ Pass(MinutePasses, Keys)
Hour(k) == "hour" \in Clocks /\ Pass(HourPasses, {k})
Day(k)  == "day" \in Clocks /\ Pass(DayPasses, {k})

-----------------------------------------------------------------------------
Refresher ==
  \E k \in Keys : InsertChecks(k) \/ InsertFills(k) \/ CleanupStale(k)

HealthChecker ==
  \/ StartBatch
  \/ \E k \in Keys :
       \/ ProbeDead(k)
       \/ \E result \in {"Ok", "OkNoTls"} : ProbeAlive(k, result)
       \/ \E verdict \in {"true", "false"} : ProbeTls(k, verdict)

GeoTasks == \E k \in Keys : GeoReads(k) \/ GeoStores(k)

Connections == \E k \in Keys : Use(k) \/ UseSucceeds(k) \/ UseFails(k)

Api ==
  \E h \in Handlers, k \in Keys :
    \/ AddChecks(h, k)    \/ AddInserts(h, k)
    \/ BanRemoves(h, k)   \/ BanInserts(h, k)
    \/ UnbanRemoves(h, k) \/ UnbanInserts(h, k)

ClockTicks == Minute \/ \E k \in Keys : Hour(k) \/ Day(k)

Next ==
  Refresher \/ HealthChecker \/ GeoTasks \/ Connections \/ Api \/ ClockTicks

Spec == Init /\ [][Next]_vars

(* The pool when nobody connects and no operator touches it. *)
QuietNext == Refresher \/ HealthChecker \/ GeoTasks \/ ClockTicks

(* The timer of the health loop ticks for ever, a result is applied to its
   end, and the clock runs.  That a check ends is not among these: the drain
   of a proxy's header has a timeout for each line and none for all.        *)
ProbeTlsDone == \E k \in Keys, v \in {"true", "false"} : ProbeTls(k, v)

QuietSpec ==
  /\ Init /\ [][QuietNext]_vars
  /\ WF_vars(StartBatch) /\ WF_vars(ProbeTlsDone) /\ WF_vars(Minute)

-----------------------------------------------------------------------------
(* Types. *)
TypeOK ==
  /\ DOMAIN proxies \subseteq Keys
  /\ \A k \in DOMAIN proxies : proxies[k] \in ProxyRecord
  /\ DOMAIN banned \subseteq Keys
  /\ \A k \in DOMAIN banned : banned[k] \in ProxyRecord
  /\ DOMAIN requests \subseteq Handlers
  /\ \A h \in DOMAIN requests : requests[h] \in Request
  /\ inserting \subseteq Keys /\ sweep \subseteq Keys
  /\ batch \subseteq Keys /\ found \in BOOLEAN
  /\ verified \subseteq Keys \X {"true", "false"}
  /\ lookups \subseteq Keys /\ located \subseteq Keys /\ uses \subseteq Keys

(* The breaker fields of every record agree, in the pool, in the banned map
   and in the hands of a handler, although the results of probes and
   connections are applied late, by key, to whatever record is there now.   *)
PoolConsistent ==
  /\ \A k \in DOMAIN proxies : BreakerConsistent(proxies[k])
  /\ \A k \in DOMAIN banned : BreakerConsistent(banned[k])
  /\ \A h \in DOMAIN requests : BreakerConsistent(requests[h].proxy)

(* What the API has taken out of the pool and not put back. *)
Aside ==
  {<<k, banned[k]>> : k \in DOMAIN banned} \cup
  {<<requests[h].key, requests[h].proxy>> :
     h \in {g \in DOMAIN requests : requests[g].op # "add"}}

Contract == INSTANCE PoolContract WITH aside <- Aside

(* The pool keeps its contract: see PoolContract. *)
ImplementsContract == Contract!CSpec

(* What the selection of a proxy sees of the pool. *)
Visible(p) ==
  [status  |-> IF p.status = "None" THEN "Unchecked" ELSE p.status,
   clean   |-> p.tls_clean = "true",
   country |-> p.country]

ViewOf(m) == [k \in DOMAIN m |-> Visible(m[k])]

AsideView(a) == {<<x[1], Visible(x[2])>> : x \in a}

View == INSTANCE PoolView WITH view <- ViewOf(proxies), aside <- AsideView(Aside)

(* What the selection sees changes only in the ways that module Transparent
   is checked against, one at a time: see PoolView.  Neither the end of a
   circuit nor the passage of time changes any of it, no proxy becomes
   selectable but by a success, by a source, or as it was when the API took
   it out, and a proxy that worked leaves only by a ban.                    *)
ImplementsView == View!VSpec

(* A proxy is never lost between the maps: once known it stays in one of
   them or in the hands of a handler, until cleanup_stale drops it.         *)
Held == DOMAIN proxies \cup {x[1] : x \in Aside}

NeverLost ==
  [][\A k \in Held : k \in Held' \/ (k \in DOMAIN proxies /\ Stale(proxies[k]))]_vars

(* The size limit holds as long as only the refresher inserts. *)
WithinLimit == MaxProxies > 0 => Cardinality(DOMAIN proxies) <= MaxProxies

(* The order of proxies_needing_check: a proxy that was never checked is
   probed before any other one is probed again and again, although a batch
   has no room for all that is due, and although the proxies that were probed
   become due once more.  It holds as long as no check hangs.               *)
NoCheckHangs == []<>(batch = {})

IsNew(k) == k \in DOMAIN proxies /\ proxies[k].status \in {"Unchecked", "None"}

NewAreProbed ==
  NoCheckHangs => \A k \in Keys : IsNew(k) ~> (k \in batch \/ ~IsNew(k))
=============================================================================
