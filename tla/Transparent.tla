---------------------------- MODULE Transparent ----------------------------
(***************************************************************************)
(* The transparent proxy: run_with_max_connections and handle_connection   *)
(* (src/src/proxy/transparent.rs), with the selection of a proxy           *)
(* (select_best, select_best_for_tls in src/src/pool/state.rs), the sticky *)
(* sessions (src/src/pool/sticky_sessions.rs) and the wake-up of waiting   *)
(* clients by the health checker (fast_probe).  The pool changes under the *)
(* handlers in the ways that PoolView lists.                               *)
(***************************************************************************)
EXTENDS PoolView, Integers, FiniteSets

CONSTANTS
  Conns,           \* client connections that may be open at once
  Peers,           \* client socket addresses
  MaxConnections,  \* permits of the semaphore
  MaxRetries,      \* attempts per connection   (3)
  Events,          \* what else can happen, see Environment
  MaxAside,        \* bound on the records that are out of the pool by a ban
  NoKey            \* no proxy

ASSUME TransparentAssumption ==
  /\ MaxConnections \in Nat \ {0} /\ MaxRetries \in Nat \ {0}
  /\ NoKey \notin Keys /\ Peers # {}
  /\ IsFiniteSet(Conns) /\ MaxAside \in Nat

VARIABLES
  excluded,  \* exclude_countries
  conn,      \* the task of each connection, see ConnRecord
  sessions,  \* peer -> [proxy_key, backup_proxy_key]
  permits,   \* available permits of the semaphore
  active,    \* active_connections
  batch,     \* health checker: keys being probed
  pending,   \* health checker: <<key, verdict>> before set_tls_clean
  found      \* health checker: the batch has had a working proxy

vars == <<view, aside, excluded, conn, sessions, permits, active,
          batch, pending, found>>

(* Where handle_connection is:
     idle     no connection                 sniff   before the counters
     lookup   proxies.get(key) for the sticky or the backup key
     scan     in select_best or select_best_for_tls, at a tier
     unlisted select returned None, notified() not yet called
     wait     in first_ready.notified()     rescan  select_best after it
     connect  taking a warm stream to key and its handshake, or dialling
     cold     in the handshake on a new connection to key
     retry    before another attempt
     joined   recorded as a success, session not yet set
     insert   in set_or_touch, which has found no session
     relay    copy_bidirectional            done    counted out, has permit
   key: the proxy that the connection goes through; barred: the countries
   that were excluded when the selection began.                             *)
Stage == {"idle", "sniff", "lookup", "scan", "unlisted", "wait", "rescan",
          "connect", "cold", "joined", "insert", "retry", "relay", "done"}

ConnRecord ==
  [pc : Stage, peer : Peers, https : BOOLEAN, attempt : 0..(MaxRetries - 1),
   tier : 1..5, barred : SUBSET Countries, key : Keys \cup {NoKey}]

Idle(c) == conn[c].pc = "idle"

Session == [proxy_key : Keys, backup_proxy_key : Keys \cup {NoKey}]

SomePeer == CHOOSE p \in Peers : TRUE

IdleConn == [pc |-> "idle", peer |-> SomePeer, https |-> FALSE, attempt |-> 0,
             tier |-> 1, barred |-> {}, key |-> NoKey]

Init ==
  /\ \E ks \in SUBSET Keys : view \in [ks -> LoadedViews]
  /\ aside = {}
  /\ excluded \in SUBSET Countries
  /\ conn = [c \in Conns |-> IdleConn]
  /\ sessions = EmptyMap
  /\ permits = MaxConnections
  /\ active = 0
  /\ batch = {} /\ pending = {} /\ found = FALSE

At(c, stage) == conn[c].pc = stage
Goto(c, stage) == conn' = [conn EXCEPT ![c].pc = stage]
probeVars == <<batch, pending, found>>
poolVars == <<view, aside, excluded, probeVars>>

-----------------------------------------------------------------------------
(* Accepting: try_acquire_owned.  Without a permit the connection is dropped
   and nothing changes.                                                     *)
Accept(c, peer, https) ==
  /\ At(c, "idle")
  /\ permits > 0
  /\ permits' = permits - 1
  /\ conn' = [conn EXCEPT ![c] = [IdleConn EXCEPT !.pc = "sniff",
                                                  !.peer = peer,
                                                  !.https = https]]
  /\ UNCHANGED <<poolVars, sessions, active>>

(* No original destination, or nothing to peek at within 5 s. *)
DropEarly(c) ==
  /\ At(c, "sniff")
  /\ Goto(c, "done")
  /\ UNCHANGED <<poolVars, sessions, permits, active>>

(* Counted, then the sticky session is looked up.  For HTTPS its proxy is
   taken only if it is TLS-clean.                                           *)
StickyUsable(c) ==
  LET p == conn[c].peer IN
  /\ p \in DOMAIN sessions
  /\ sessions[p].proxy_key \in DOMAIN view
  /\ conn[c].https => view[sessions[p].proxy_key].clean

Begin(c) ==
  /\ At(c, "sniff")
  /\ active' = active + 1
  /\ conn' = IF StickyUsable(c)
             THEN [conn EXCEPT ![c].pc = "lookup",
                               ![c].key = sessions[conn[c].peer].proxy_key]
             ELSE [conn EXCEPT ![c].pc = "scan"]
  /\ UNCHANGED <<poolVars, sessions, permits>>

(* proxies.get(key) for a sticky or backup key: None if it left the pool. *)
Lookup(c) ==
  /\ At(c, "lookup")
  /\ conn' = IF conn[c].key \in DOMAIN view
             THEN [conn EXCEPT ![c].pc = "connect"]
             ELSE [conn EXCEPT ![c].pc = "unlisted", ![c].key = NoKey]
  /\ UNCHANGED <<poolVars, sessions, permits, active>>

-----------------------------------------------------------------------------
(* Selection.  exclude_countries is read once, before the first tier; the
   fallback of select_best_for_tls calls select_best, which reads it again.
   Each tier is a pass of its own over the map: collect_top_n for a status,
   or iter().find() for the last one.  Any candidate may come out of the
   weighted random choice.                                                  *)
Begins(c) ==
  conn[c].tier = 1 \/ (At(c, "scan") /\ conn[c].https /\ conn[c].tier = 3)

Barred(c) == IF Begins(c) THEN excluded ELSE conn[c].barred

Allowed(barred) == {k \in DOMAIN view : view[k].country \notin barred}
WithStatus(s) == {k \in DOMAIN view : view[k].status = s}
Clean == {k \in DOMAIN view : view[k].clean}

PlainTier(i, barred) ==
  Allowed(barred) \cap
  WithStatus(CASE i = 1 -> "Verified" [] i = 2 -> "PresumedAlive"
               [] i = 3 -> "Unchecked")

TlsTier(i, barred) ==
  IF i <= 2 THEN PlainTier(i, barred) \cap Clean ELSE PlainTier(i - 2, barred)

Tier(c) ==
  IF At(c, "scan") /\ conn[c].https THEN TlsTier(conn[c].tier, Barred(c))
  ELSE PlainTier(conn[c].tier, Barred(c))

LastTier(c) == IF At(c, "scan") /\ conn[c].https THEN 5 ELSE 3

Picks(c) ==
  /\ At(c, "scan") \/ At(c, "rescan")
  /\ \E k \in Tier(c) :
       conn' = [conn EXCEPT ![c].pc = "connect", ![c].key = k, ![c].tier = 1,
                            ![c].barred = {}]
  /\ UNCHANGED <<poolVars, sessions, permits, active>>

NextTier(c) ==
  /\ At(c, "scan") \/ At(c, "rescan")
  /\ Tier(c) = {} /\ conn[c].tier < LastTier(c)
  /\ conn' = [conn EXCEPT ![c].tier = @ + 1, ![c].barred = Barred(c)]
  /\ UNCHANGED <<poolVars, sessions, permits, active>>

SelectsNone(c) ==
  /\ At(c, "scan")
  /\ Tier(c) = {} /\ conn[c].tier = LastTier(c)
  /\ conn' = [conn EXCEPT ![c].pc = "unlisted", ![c].tier = 1, ![c].barred = {}]
  /\ UNCHANGED <<poolVars, sessions, permits, active>>

(* first_ready.notified(): from here on notify_waiters reaches it. *)
Waits(c) ==
  /\ At(c, "unlisted")
  /\ Goto(c, "wait")
  /\ UNCHANGED <<poolVars, sessions, permits, active>>

(* The two ways out of the loop of attempts that give up: active_connections
   is decremented at the end of the function.                               *)
Ends(c) ==
  /\ active' = active - 1
  /\ conn' = [conn EXCEPT ![c] = [IdleConn EXCEPT !.pc = "done"]]

(* Mutant: return instead of break. *)
WaitTimesOutUncounted(c) ==
  /\ At(c, "wait")
  /\ Goto(c, "done")
  /\ UNCHANGED <<poolVars, sessions, permits, active>>

(* 10 s without a signal: break. *)
WaitTimesOut(c) ==
  /\ At(c, "wait")
  /\ Ends(c)
  /\ UNCHANGED <<poolVars, sessions, permits>>

(* Woken, and still nothing to select: break. *)
StillNone(c) ==
  /\ At(c, "rescan")
  /\ Tier(c) = {} /\ conn[c].tier = LastTier(c)
  /\ Ends(c)
  /\ UNCHANGED <<poolVars, sessions, permits>>

-----------------------------------------------------------------------------
(* No warm stream: TcpStream::connect, which has a timeout, and then the
   handshake on the new stream, which has none.                             *)
Dials(c) ==
  /\ At(c, "connect")
  /\ Goto(c, "cold")
  /\ UNCHANGED <<poolVars, sessions, permits, active>>

(* The tunnel is up, over a warm stream or a new one: record_success, *)
Connects(c) ==
  /\ At(c, "connect") \/ At(c, "cold")
  /\ Works(conn[c].key)
  /\ Goto(c, "joined")
  /\ UNCHANGED <<excluded, probeVars, sessions, permits, active>>

StartsRelay(c) == conn' = [conn EXCEPT ![c] = [IdleConn EXCEPT !.pc = "relay"]]

(* Mutant: the arm for the same proxy is missing. *)
AlwaysDemotes(peer, key) ==
  [proxy_key |-> key, backup_proxy_key |-> sessions[peer].proxy_key]

(* then StickySessionManager::set_or_touch, whose get_mut finds a session, *)
TouchedSession(peer, key) ==
  IF sessions[peer].proxy_key = key THEN sessions[peer]
  ELSE [proxy_key |-> key, backup_proxy_key |-> sessions[peer].proxy_key]

Touches(c) ==
  LET p == conn[c].peer IN
  /\ At(c, "joined")
  /\ p \in DOMAIN sessions
  /\ sessions' = Put(sessions, p, TouchedSession(p, conn[c].key))
  /\ StartsRelay(c)
  /\ UNCHANGED <<poolVars, permits, active>>

(* or finds none, after which insert overwrites whatever is there by then. *)
FindsNoSession(c) ==
  /\ At(c, "joined")
  /\ conn[c].peer \notin DOMAIN sessions
  /\ Goto(c, "insert")
  /\ UNCHANGED <<poolVars, sessions, permits, active>>

InsertsSession(c) ==
  /\ At(c, "insert")
  /\ sessions' = Put(sessions, conn[c].peer, [proxy_key |-> conn[c].key,
                                              backup_proxy_key |-> NoKey])
  /\ StartsRelay(c)
  /\ UNCHANGED <<poolVars, permits, active>>

(* Mutant: one attempt too many. *)
ConnectFailsOnceMore(c) ==
  /\ At(c, "connect") \/ At(c, "cold")
  /\ FailsOnce(conn[c].key)
  /\ IF conn[c].attempt + 1 <= MaxRetries
     THEN /\ conn' = [conn EXCEPT ![c].pc = "retry", ![c].attempt = @ + 1,
                                 ![c].key = NoKey]
          /\ active' = active
     ELSE Ends(c)
  /\ UNCHANGED <<excluded, probeVars, sessions, permits>>

(* Mutant: attempts are not counted. *)
ConnectFailsUncounted(c) ==
  /\ At(c, "connect") \/ At(c, "cold")
  /\ FailsOnce(conn[c].key)
  /\ conn' = [conn EXCEPT ![c].pc = "retry", ![c].key = NoKey]
  /\ UNCHANGED <<excluded, probeVars, sessions, permits, active>>

(* Dialling or the handshake failed or timed out: record_fail, then another
   attempt or, after the last one, the end.                                 *)
ConnectFails(c) ==
  /\ At(c, "connect") \/ At(c, "cold")
  /\ FailsOnce(conn[c].key)
  /\ IF conn[c].attempt + 1 < MaxRetries
     THEN /\ conn' = [conn EXCEPT ![c].pc = "retry", ![c].attempt = @ + 1,
                                 ![c].key = NoKey]
          /\ active' = active
     ELSE Ends(c)
  /\ UNCHANGED <<excluded, probeVars, sessions, permits>>

(* The next attempt: the backup of the session on the second one, else a
   fresh selection.                                                         *)
HasBackup(peer) ==
  peer \in DOMAIN sessions /\ sessions[peer].backup_proxy_key # NoKey

Retries(c) ==
  LET p == conn[c].peer IN
  /\ At(c, "retry")
  /\ conn' = IF conn[c].attempt = 1 /\ HasBackup(p)
             THEN [conn EXCEPT ![c].pc = "lookup",
                               ![c].key = sessions[p].backup_proxy_key]
             ELSE [conn EXCEPT ![c].pc = "scan"]
  /\ UNCHANGED <<poolVars, sessions, permits, active>>

(* copy_bidirectional ends by EOF or error, or is cut by the timeout around
   it.                                                                      *)
RelayEnds(c) ==
  /\ At(c, "relay")
  /\ Ends(c)
  /\ UNCHANGED <<poolVars, sessions, permits>>

(* The task ends and drops the permit. *)
Release(c) ==
  /\ At(c, "done")
  /\ permits' = permits + 1
  /\ conn' = [conn EXCEPT ![c] = IdleConn]
  /\ UNCHANGED <<poolVars, sessions, active>>

-----------------------------------------------------------------------------
(* A session that is past its TTL: cleanup(), or get() that finds it so. *)
SessionExpires(p) ==
  /\ "expire" \in Events
  /\ p \in DOMAIN sessions
  /\ sessions' = Drop(sessions, {p})
  /\ UNCHANGED <<poolVars, conn, permits, active>>

(* fast_probe.  A new batch; a dead proxy; a working one, in two calls, the
   second of which wakes all that wait if it is the first of the batch.     *)
StartBatch ==
  /\ "probe" \in Events
  /\ batch = {} /\ pending = {}
  /\ batch' \in SUBSET DOMAIN view \ {{}}
  /\ found' = FALSE
  /\ UNCHANGED <<viewVars, excluded, pending, conn, sessions, permits, active>>

ProbeDead(k) ==
  /\ k \in batch /\ pending = {}
  /\ batch' = batch \ {k}
  /\ FailsOnce(k)
  /\ UNCHANGED <<excluded, pending, found, conn, sessions, permits, active>>

ProbeAlive(k, verdict) ==
  /\ k \in batch /\ pending = {}
  /\ batch' = batch \ {k}
  /\ Works(k)
  /\ pending' = {<<k, verdict>>}
  /\ UNCHANGED <<excluded, found, conn, sessions, permits, active>>

NotifyWaiters ==
  [c \in Conns |-> IF At(c, "wait") THEN [conn[c] EXCEPT !.pc = "rescan"]
                   ELSE conn[c]]

ProbeTls(k, verdict) ==
  /\ <<k, verdict>> \in pending
  /\ pending' = {}
  /\ Judged(k, verdict)
  /\ conn' = IF found THEN conn ELSE NotifyWaiters
  /\ found' = TRUE
  /\ UNCHANGED <<excluded, batch, sessions, permits, active>>

(* What the other tasks do to the pool: PoolView. *)
PoolGains(k) ==
  /\ "gain" \in Events
  /\ Appears(k)
  /\ UNCHANGED <<excluded, probeVars, conn, sessions, permits, active>>

PoolBans(k) ==
  /\ "ban" \in Events
  /\ Cardinality(aside) < MaxAside
  /\ Banned(k)
  /\ UNCHANGED <<excluded, probeVars, conn, sessions, permits, active>>

PoolRegains(k, v) ==
  /\ Returns(k, v)
  /\ UNCHANGED <<excluded, probeVars, conn, sessions, permits, active>>

PoolDiscards ==
  /\ Discards
  /\ UNCHANGED <<excluded, probeVars, conn, sessions, permits, active>>

PoolForgets(k) ==
  /\ "forget" \in Events
  /\ Forgotten(k)
  /\ UNCHANGED <<excluded, probeVars, conn, sessions, permits, active>>

PoolLocates(k, c) ==
  /\ "locate" \in Events
  /\ k \in DOMAIN view /\ Located(k, c)
  /\ UNCHANGED <<excluded, probeVars, conn, sessions, permits, active>>

(* The configuration is reloaded with other excluded countries. *)
Reloads(countries) ==
  /\ "reload" \in Events
  /\ excluded' = countries
  /\ UNCHANGED <<viewVars, probeVars, conn, sessions, permits, active>>

-----------------------------------------------------------------------------
(* What the task of a connection does once it is accepted. *)
Proceeds(c) ==
  \/ DropEarly(c) \/ Begin(c) \/ Lookup(c)
  \/ Picks(c) \/ NextTier(c) \/ SelectsNone(c)
  \/ Waits(c) \/ WaitTimesOut(c) \/ StillNone(c)
  \/ Dials(c) \/ Connects(c) \/ Touches(c) \/ FindsNoSession(c) \/ InsertsSession(c)
  \/ ConnectFails(c) \/ Retries(c)
  \/ RelayEnds(c) \/ Release(c)

Environment ==
  \/ StartBatch \/ PoolDiscards
  \/ \E p \in Peers : SessionExpires(p)
  \/ \E countries \in SUBSET Countries : Reloads(countries)
  \/ \E x \in aside : PoolRegains(x[1], x[2])
  \/ \E k \in Keys :
       \/ ProbeDead(k) \/ PoolGains(k) \/ PoolBans(k) \/ PoolForgets(k)
       \/ \E c \in Countries : PoolLocates(k, c)
       \/ \E verdict \in BOOLEAN :
            ProbeAlive(k, verdict) \/ ProbeTls(k, verdict)

Next ==
  \/ Environment
  \/ \E c \in Conns :
       \/ Proceeds(c)
       \/ \E p \in Peers, https \in BOOLEAN : Accept(c, p, https)

Spec == Init /\ [][Next]_vars

(* The runtime polls every task that can go on; the timers of peek, wait,
   dialling, the handshake on a warm stream and the relay fire; and take
   gets its warm stream or none.  Nothing is assumed of a proxy: the
   handshake on a new connection ends only if the proxy ends it.            *)
Fairness == \A c \in Conns : WF_vars(~At(c, "cold") /\ Proceeds(c))

FairSpec == Spec /\ Fairness

-----------------------------------------------------------------------------
(* Types. *)
TypeOK ==
  /\ DOMAIN view \subseteq Keys /\ \A k \in DOMAIN view : view[k] \in ViewRecord
  /\ aside \subseteq Keys \X ViewRecord /\ excluded \subseteq Countries
  /\ conn \in [Conns -> ConnRecord]
  /\ DOMAIN sessions \subseteq Peers
  /\ \A p \in DOMAIN sessions : sessions[p] \in Session
  /\ permits \in 0..MaxConnections
  /\ active \in 0..MaxConnections
  /\ batch \subseteq Keys
  /\ pending \subseteq Keys \X BOOLEAN /\ found \in BOOLEAN

(* The gauge and the semaphore agree with the tasks on every path through
   handle_connection: early returns, the breaks out of the wait, the last
   failed attempt, the end of the relay.                                    *)
Accounting ==
  /\ active = Cardinality({c \in Conns : conn[c].pc \notin {"idle", "sniff", "done"}})
  /\ permits = MaxConnections - Cardinality({c \in Conns : ~Idle(c)})

(* A failover never goes to the proxy that has just failed because the
   session names it twice, although several connections of one client
   address update its session at once.                                      *)
BackupDiffers ==
  \A p \in DOMAIN sessions :
    sessions[p].proxy_key # sessions[p].backup_proxy_key

(* Every accepted connection ends and gives its permit back, however the pool
   changes and whatever fails, unless it hangs for ever in the handshake on a
   new connection, to a proxy that took it and says nothing.                *)
ConnectionsEnd == \A c \in Conns : []<>Idle(c) \/ <>[]At(c, "cold")

(* README: a client waits until the first healthy proxy becomes available.
   It does not give up when the health checker has found a working proxy and
   signalled it, and a Verified one that is not excluded is there.          *)
NeverMissesReady ==
  [][\A c \in Conns :
       WaitTimesOut(c) /\ found /\ pending = {} => PlainTier(1, excluded) = {}]_vars
=============================================================================
