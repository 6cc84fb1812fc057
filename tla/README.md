# A verification project for vpn-gateway

TLA+ models of the gateway in `src/`, model-checked with TLC; what they say about
safety is also proved with TLAPS. Source paths below are relative to the repository; Rust files are
under `src/src/`.

## 1. The system

The gateway accepts the TCP connections of VPN clients that netfilter redirects
to it, and tunnels each of them through one of many unreliable public proxies.
It is one tokio process on several threads; tasks share state through
`DashMap`s and atomics.

| Component | State | Operations | Talks to |
|---|---|---|---|
| Proxy record `pool/proxy.rs` | latency, counters, timestamps, status, `circuit_open_until`, TLS verdict, country | `new`, `record_success`, `record_fail`, `is_available`, `mark_presumed_alive`, `score` | lives in the pool |
| Shared pool `pool/state.rs` | maps `proxies` and `banned`, geo index, `first_ready`, counters | `insert_if_absent`, `cleanup_stale`, `record_*`, `set_tls_clean`, `select_best*`, `proxies_needing_check` | everybody |
| Source manager `pool/source_manager.rs` | none | `fast_bootstrap`, full refresh, periodic loop | inserts into the pool |
| Health checker `pool/health_checker.rs` | the batch it is checking | `proxies_needing_check` → parallel 3-stage checks → results by key; wakes waiting clients; spawns GeoIP lookups | pool, network |
| Persistence `pool/persistence.rs` | `state.json` | load at start, save every 300 s and at shutdown | pool, files |
| Transparent proxy `proxy/transparent.rs` | one task per connection, semaphore, `active_connections` | accept, sniff, select, connect with up to 3 attempts, relay | pool, sessions, warm pool, upstream |
| Sticky sessions `pool/sticky_sessions.rs` | client address → proxy and backup, with a TTL | `get`, `set_or_touch`, `get_backup`, `cleanup` | transparent proxy |
| Upstream `proxy/upstream.rs` | none | HTTP CONNECT and SOCKS5 handshakes | network |
| Warm pool `pool/warm_pool.rs` | queues of idle connections behind mutexes | `take`, `refresh` | transparent proxy, network |
| UDP relay `proxy/udp.rs` | client address → upstream socket | per packet task, cleanup | network |
| Web API `api/web.rs` | none | add, ban, unban; queries | pool |
| Configuration `config.rs`, start and shutdown `main.rs` | current configuration | hot reload; task handles | everybody |
| net-manager `services/net-manager/` | UPnP lease, status file | lease loop | router, WireGuard |

What is hard here:

* **Results by key.** Probes, connections and GeoIP lookups take a copy of a
  record or only its key, run for seconds, and then apply their result to
  whatever the pool has under that key.
* **Two calls for one operation.** Ban, unban, add, `insert_if_absent`,
  `set_or_touch` and the recording of a probe are each two calls on shared maps.
* **A selection without a snapshot.** `select_best` passes over the map once
  per tier, while proxies move between the tiers.
* **Wake-ups without memory.** `notify_waiters` reaches only tasks that wait.
* **A breaker spread over three methods**, the fields that serde skips, and the
  clock.
* **Accounting on many exits** of one long handler.
* **Guards across awaits.** The warm pool and the UDP relay keep a lock while
  they wait for another one or for the network.
* **Aborted tasks.** Ctrl+C aborts the persistence loop, but a file operation
  that has begun goes on beside the save that main makes.
* **Reads whose result is not looked at.** The health check ignores errors of
  several reads and goes on with what is in the buffer.
* **A file that is read while it is written**, by the hot reload.

What makes each component correct: the fields of a record agree, and a failed
proxy is backed off and re-tested; the pool never loses a proxy and never brings
one back that was removed; it respects its limits; the health checker reaches
every proxy; a client is served when a proxy is there, HTTPS only over proxies
whose TLS is clean; every connection ends and is counted out once; what is saved
can be restored, and a crash does not damage it; a proxy that intercepts TLS is
never judged clean, and one that does not is judged so; an answer by UDP goes
to the client that asked; an edit of the configuration takes effect as a whole.

## 2. Modules

| Module | Models | State |
|---|---|---|
| `Proxy` | the record and its methods, serde, the clock as the code reads it | none (operators) |
| `CircuitBreaker` | one record under outcomes, saves, restarts, time | `proxy`, `saved`, `inFile` |
| `DashMap` | the map calls (external crate) | none |
| `PoolContract` | abstract: what the pool promises to its users | `proxies`, `aside` |
| `PoolView` | abstract: what the selection sees of the pool and how it may change | `view`, `aside` |
| `ProxyPool` | the pool with refresher, health checker, GeoIP tasks, API handlers and reporting connections; implements the two above | see the module |
| `Transparent` | connection handlers, sessions, semaphore, selection, waiting, in an environment of `PoolView` steps and reloads of the excluded countries | `conn`, `sessions`, `permits`, `active`, `excluded`, `batch`, … |
| `WarmPool` | `take` and `refresh` with the mutex of each queue, the shards of the map and the worker threads | `queues`, `line`, `taking`, `stage`, `top`, `swept`, `slot` |
| `Upstream` | the HTTP CONNECT and SOCKS5 handshakes and the proxy at the other end | `pc`, `net`, `buf`, `server`, … |
| `CheckSingle` | one health check after the other: TCP, HTTP CONNECT, tunnel and TLS, and the proxy at the other end | `pc`, `net`, `server`, … |
| `Persistence` | `state.json`, its temporary file, the two saves, failures, Ctrl+C, crashes and starts | `writer`, `tmp`, `path`, `disk`, `phase`, … |
| `UdpRelay` | the task of each packet, the session table and its lock, answers under way, the cleanup | `task`, `sessions`, `lock`, `net` |
| `StickySessions` | the sessions with their ages, uses and the dynamic TTL | `sessions`, `using`, `ttl`, and the history variable `overtaken` |
| `ConfigReload` | the configuration file, its watch, the channel and the reload loop; composed with `StickySessions`, whose TTL it sets | `file`, `config`, `watch`, `channel`, `loop`, … |
| `MCProxyPool`, `MCTransparent` | instances for TLC | |
| `CircuitBreakerProofs`, `ProxyPoolProofs`, `TransparentProofs`, `PersistenceProofs`, `ConfigReloadProofs`, `CheckSingleProofs`, `UpstreamProofs` | proofs about the module of that name | |
| `LockProofs` | proofs about `UdpRelay` and `WarmPool` | |

**Data.** A record keeps what control flow reads: failure count, TLS verdict,
country, status, the minutes left of its circuit (`NoCircuit` is the code's
`None`), and the age classes the code compares timestamps with (60 s and 24 h for
`last_check`, 1 h for `last_success`). `success_count > 0` is the same as a
`last_success`. Latency, uptime streak and score only weigh candidates of one
tier; every candidate has a positive weight, so the choice is free. Minutes
are exact for circuits, because all durations are whole minutes. The failure
count saturates at `MaxFails`, at or above the last threshold.

**Steps.** A step is one call on a shared map by one task. In
`CircuitBreaker` one outcome is one step because only one record is there.
In `Transparent` the look at the sticky session in `Begin` (`get`,
`contains_key`, `get`, without an `await`) is one step; the later `Lookup` reads
the pool again, so a proxy that leaves in between is seen there. `ProbeTls` sets
the verdict and signals in one step. A probe's three network stages are a free
choice among its results, an upstream handshake in `Transparent` among success
and failure.

`cleanup_stale` goes through the map in its order, and every other task may
run between two of its keys (`sweep`): DashMap's `retain` locks one shard
after the other, and where the borders of the shards are is not assumed.

In `Transparent` the countries to leave out are read once for a selection
(`barred`), and once more where the selection for TLS falls back to the plain
one, so a reload in the middle of a selection shows. The handshake on a new
connection is a place of its own (`cold`), because it is the only one that no
timer ends. A run switches off what it does not need of the environment
(`Events`) and bounds the records that a ban has taken out (`MaxAside`).

In `WarmPool` the retain on a queue is written out as the n-th stream that is
kept, instead of with `SelectSeq`, so that it can be reasoned about; the two
agree on all queues of up to four streams. A client that is in `take` holds a
read guard on the shard of its key. The DashMap lock lets readers in while a
writer waits, so `get` never waits for the refresh. `line[k]` is the fair queue
of tokio's mutex: its first member has it. While the refresh is between two
awaits (`retain`, `entry`) it has a worker thread; if the shard that it wants to
write to is guarded, the thread stands still. tokio puts a task that is woken
into a slot of the thread that wakes it, from which no other thread takes it:
the client that gets a mutex from the refresh stays there (`slot`) until the
refresh gives its thread back or wakes another one. Time is a tick that ages every
stream up to `max_age`.

In `Upstream` the stream from the proxy is a sequence of bytes for SOCKS5; for
HTTP it is lines of one token of text and the bytes CR and LF, up to a blank
line, which a read may split anywhere; then bytes of the target follow. `read` takes any part of what has come, which is how a header comes in
pieces and how bytes behind it are swallowed; `read_exact` is one step, because
its partial reads are visible only if the stream ends or the time is up, and
both of these are errors. The real lengths of bound addresses are kept; the
limit of 1024 is scaled.

In `CheckSingle` a stream is a sequence of tokens, of whole lines for HTTP, as
the check reads by lines. Each of the three
connections starts with an empty one. `trouble` records what would excuse a
verdict of not clean: the proxy refused or closed, sent a line that is not text,
or time ran out. `read_exact` at the end of the stream leaves the zeros that the
buffer had, and since only the timeout is looked at, the check reads them as the
answer. The bytes of TLS itself are not modelled: with anything of the proxy left
in the stream, or a foreign certificate, the handshake fails.

In `Persistence` a file is an inode with pieces, and a name leads to an inode:
`File::create` truncates the inode that the name leads to, a writer keeps its
own position, and `rename` moves the name. Versions have JSON of two lengths, so
a shorter file over a longer one shows. tokio runs each file operation on a
blocking thread: aborting the task stops it only between two operations.
`overlap` is a history variable that says that Ctrl+C has met a save of the loop.
The order of the data and the rename on disk after a power failure is not
modelled (the code calls no `fsync`).

In `UdpRelay` the lock is tokio's: a queue in which readers share the front up
to the first writer; who drops its guard or gives up leaves the queue wherever
it is (`Without`). A session is stale or not; time may make it stale at any
moment. An answer may be lost, late, or come more than once. When a socket is
closed, the answers to it stay under way, marked `late`, and the system may give
its port to the next socket at once. All packets go to the one DNS upstream (`detect_upstream` returns it in
both branches).

In `StickySessions` the unit of time is the 60 s of a bonus, and `PerBonus`
stands for the 10 successes. A connection that finds its session expired drops
its guard before it removes it; one that finds none inserts it in another step.
`overtaken` is a history variable: the connections between that look and that
remove whose session was refreshed, or the TTL set, since.
In `ConfigReload` a configuration is told by its TTL, and the excluded countries
go with it. An editor truncates the file and completes it, or renames another
file over it, which ends the watch of the inode.

**Composition.** `Transparent` does not carry whole records. Its environment is
`PoolView`: a proxy appears as new; is banned, and returns as it was; is dropped,
if it is Unchecked or Failed; becomes Verified by a success or Failed by a
failure; is judged; is located. Apart from coming and going, each of these changes
one of status, TLS verdict and country, which are all that the selection looks at. `ProxyPool`
implements `PoolView` (`ImplementsView`), where the key fact is that a proxy which
is not Failed has no circuit, so `is_available` decides nothing in the selection
and the passage of time changes nothing there. `ConfigReload` extends
`StickySessions`: the sessions are used, cleaned up and cleared while reloads
change their TTL. `ProxyPool` takes the result of a check as a free choice;
`CheckSingle` says which results a proxy can get.

## 3. Runs

Constants are small. The breaker run keeps the real thresholds (5, 10, 20, 50),
with cooldowns of 1, 3 and 6 minutes in place of 1, 5 and 60, which keep their
order; elsewhere thresholds are 1 and 2, so that a proxy opens its circuit and
then goes past the last threshold.

| Run | Bounds | Shows |
|---|---|---|
| `breaker` | one record, real thresholds, counts up to 51 | fields agree (`BreakerInv`), failures never shorten a cooldown, a proxy with fewer than 50 failures comes back to the list of the health checker |
| `pool` | one key, one API request at a time, clocks of hours and days | `PoolConsistent`, `ImplementsContract`, `ImplementsView`, `NeverLost` |
| `pool_quiet` | three keys, room for two, batches of one, no API, clock of minutes | `WithinLimit`, `NewAreProbed`: a proxy that was never checked is probed |
| `transparent` | two proxies, two connections of one address, three attempts | attempts bounded, backup differs from the proxy |
| `transparent_live` | one proxy, located or banned at any time, one country, two clients for one permit, two attempts | `Accounting`, `ConnectionsEnd` |
| `warm` | three keys in two shards, room for two, two clients, two worker threads | `Bounded`, `WaitersTracked`, `TakeReturns` |
| `check` | proxies of all eight kinds, listed as either protocol, 3 unread lines of a header, names of 3 bytes | `VerdictEarned`, `NoFalseBlame`, `CheckEnds` |
| `persistence` | three changes of the pool, JSON of one or two pieces | `FileComplete`, `ShutdownSaved`, `ShutdownEnds` |
| `udp` | two permits, two clients, two ports, two answers under way | `SocketStaysOpen`, `AnswersToAsker`, `TasksEnd`, `SessionsExpire` |
| `reload` | one client address with two connections, TTLs 1 and 2, up to 6 uses and age 7, a channel of one | `AppliedTogether`, `EditsArrive`, `RemovedWhenIdle`, `IdleSessionsGo` |
| `upstream` | responses of up to 8 bytes, 2 bytes of the target, bound names of 0 and 255 bytes | `OkMeansGranted`, `TunnelAligned`, `HandshakeEnds` |

One key is enough in `pool` for what those properties say, since each of them
speaks of one key at a time and tasks on different keys touch different entries;
several are needed where keys compete for places (`pool_quiet`). A key in use by
several connections is one member of `uses`, which can be entered again and
again. What the runs show of few keys, tasks and connections is, except for
liveness, proved for any number of them (section 4); the bounds matter for
liveness, and for the mistakes that a run would show. In `pool_quiet` two proxies
compete for one place in a batch. In `transparent` both connections run the whole
handler and update one session, in every order; connections are interchangeable,
and so are proxies, which makes the run symmetric. In `warm` three keys with room for two
make the top set change, and two keys in one shard make the guard of one stop the
refresh at the other. In `upstream` a header may be shorter or longer than the
limit, or end at it. In `persistence` three versions allow one in the file, one
in the loop's save and one in that of shutdown, of different lengths, and starts
may follow without a limit. In `udp` two tasks are enough for two packets of one
client and for a packet that meets another client's wait; with two ports one that
was closed is soon given away again, while an answer to it is under way. In
`reload` six uses go past the cap of the bonus (twice a TTL of 2), and age 7 past
three times that TTL; a channel of one is full while a reload is under way.

A run that finds what a document says contradicted by the code:

| Run | The code | The text |
|---|---|---|
| `transparent_missed` | a proxy promoted between two passes is seen by neither, its signal is lost | README 454 |

Also met while modelling, without a run of their own:

* the candidates of a batch are sorted stably by status and truncated
  (`state.rs` 562-570): if more are due than a batch holds, the same ones may be
  picked every time, and others, failed ones above all, are never re-tested
  (README 473 says that they are). `NewAreProbed` holds because what was never
  checked comes first;
* the failure that reaches 50 sets no circuit and the proxy stays in the pool,
  always due for a check; one success makes it Verified again. README 15 and 471
  say permanently banned and removed. `FailedIsRetested` ends its promise there;
* `insert_if_absent` does not look at `banned`: a refresh puts a banned proxy
  back while it is listed as banned (`CODE_REVIEW_PLAN.md` 48);
* a sticky or backup proxy that has left the pool is handled as "no proxies":
  the client waits, although others could be selected (`transparent.rs` 129);
* the retry of an HTTPS connection over the backup of the session does not look
  at its TLS verdict (README 9);
* if Ctrl+C meets a save of the loop, both write the same temporary file, and the
  renamed file may be a mixture that does not parse, so that the next start has
  an empty pool: without `~overlap` TLC refutes `FileComplete` and
  `ShutdownSaved` ("Atomic write", `persistence.rs` 90). A container is stopped
  by SIGTERM, for which there is no handler: nothing is saved then;
* a file that does not parse is not kept: the next save of the loop replaces it;
* a UDP task that has given up leaves its answer to the next query of the client,
  whose own answer is then late in turn: every query gets the answer to the one
  before. `AnswersToAsker` speaks of clients, not of queries, for this reason;
* an answer that comes after its session was cleaned up or replaced goes to
  whoever has got the port: `udp.rs` 94 binds any free port, unconnected, and 118
  looks at no sender. Without its exception for late answers TLC refutes
  `AnswersToAsker`;
* the read guard of the UDP table is kept while an answer is awaited, and the
  lock is fair: with one upstream that does not answer, a packet of a new client
  waits up to 5 s, and so does everybody behind it;
* a session refreshed between the look of `get` and its `remove` is lost
  (`sticky_sessions.rs` 56); `RemovedWhenIdle` shows that no other one is lost
  before its time;
* the configuration is read before the watch is set up: an edit in between is
  missed until the next one. An editor that replaces the file by a rename
  ends the watch, and without a file at start there is none. Ports and limits
  keep the value of the start whatever the file says (README 317 and 640);
* a proxy that speaks only SOCKS5 is always found dead, as the second stage of
  the check is an HTTP CONNECT (`health_checker.rs` 281; README 19 lists SOCKS5
  proxies as supported). `VerdictEarned` does not claim that this is right: it
  says which protocols Ok and OkNoTls need at least;
* a proxy that sends header lines without end, each within the timeout, keeps
  the check and with it `fast_probe` and the health loop for ever
  (`health_checker.rs` 175);
* `add_proxy` overwrites a proxy that was inserted after its check, and neither
  it nor `unban_proxy` looks at `max_proxies`;
* the 300 s around the relay are its life, not its silence (`transparent.rs`
  200);
* a retry may select the proxy that has just failed (`transparent.rs` 236);
* bytes of a target that speaks first are lost if they come in the same read as
  the end of the response to CONNECT (`upstream.rs` 92); `TunnelAligned` says so
  by promising completeness for SOCKS5 only;
* a SOCKS5 proxy that asks for a password is sent the request all the same
  (`upstream.rs` 135); on a new connection, unless it closes, the handler waits
  for ever;
* the warm pool can stand still for good, with any number of worker threads. A
  client holds its guard and awaits the mutex; the refresh releases the mutex
  (`warm_pool.rs` 136), which puts the client into the slot of its own thread,
  and goes on, without an await in between, to ask for the shard that the client
  guards (104, or 99 at the next tick). The thread waits for the client and the
  client for the thread. `TakeReturns` names this circle, and shows that it is
  the only one with two threads or more; without the exception TLC refutes it.

**Fairness.** `breaker`: the clock runs. `pool_quiet`: the clock runs, the
timer of the health loop ticks for ever and a result is applied to its end. That
a check ends is not assumed; `NewAreProbed` has it as a premise (`NoCheckHangs`),
since a proxy that sends header lines without end keeps its batch for ever
(`CheckEnds`). No fairness is assumed of the refresher, and none of single proxies
or results. `transparent_live`: one condition per connection, as a task is at one
place at a time. The runtime polls every task that can go on, and the timers of
the peek, the wait, dialling, the handshake on a warm stream and the relay fire.
Nothing is assumed of the proxies: `upstream.rs` 44-49 has no timeout, so in `cold` a
connection may stay for ever, and `ConnectionsEnd` says that it can stay nowhere
else. That taking a warm stream returns is assumed there; `TakeReturns` says how
far it does. In `upstream` nothing is assumed of the proxy either, and the
end is promised for a warm stream, after a close, and after a granted tunnel.
`warm`: tasks that hold what they wait for, and for which there is a thread, are
polled, and connecting ends within 5 s; that a proxy accepts is not assumed. That
the refresh ends is not claimed: readers that overlap without a gap may keep it
from its shard. `check`: the task is polled and its timers fire, the one for each
header line too; nothing is assumed of the proxy. `persistence`: a file operation
ends, with success or an error, and main goes on; the ticks of the loop are not
assumed. `udp`: tasks that can go on are polled, the timeout of 5 s fires, and
the cleanup's timer ticks; nothing is assumed of the upstream or the clients.
`reload`: time passes, the cleanup loop ticks, and the watcher thread and the
reload loop go on; nothing is assumed of connections or of the editor.

**Deadlock** is checked in all runs but `upstream`, which models one handshake
and stops after it: every other model can always take another step.

## 4. Proofs

Every invariant and every action property of the runs, and both refinements, are
also theorems of TLAPS: for every value of the constants that satisfies the
named assumptions of its module, where TLC shows one small instance. The
assumptions are on constants only: thresholds and durations in the order of the
match in `record_fail`, limits that are numbers, model values for "none" that
differ from the values, shards of a map that do not overlap. `PoolAssumption`
also says that the set of possible keys is finite: a key is a `host:port`, and
without it the pool's length, which `WithinLimit` bounds, is not a number.

Each theorem rests on an inductive invariant, which TLC has checked before. What
each one adds to the property, and why:

* `CircuitBreakerProofs` (`BreakerTypeCorrect`, `BreakerStaysConsistent`,
  `FailuresNeverShorten`): each method keeps a record *sound*, that is of its
  type and with fields that agree (`BreakerConsistent`). The step that needs work
  is `record_fail`: a circuit in force was set for at most the duration of the
  present count, and durations do not decrease with the count, so the new one is
  at least as long; past the last threshold the old one stays. The inductive
  invariant is that the record in memory and the one in the file are both
  sound. `BreakerInv` alone is not inductive, as it says nothing of types.
* `ProxyPoolProofs`:
  * `PoolTypeCorrect`, `PoolStaysConsistent`: every record anywhere in the
    process (pool, banned map, in the hands of a handler) is sound, and a GeoIP
    task with a result has a country. A late result then finds a sound record or
    none, and a handler puts back a sound one.
  * `ProxiesNeverLost`: action by action, a key leaves one of the three places
    only for another one, or through `cleanup_stale`.
  * `LimitHolds` (`QuietSpec`, without connections and API requests): while an
    insertion is between its look at the length and its entry, there is still
    room for it, because there is one refresher; without that the invariant is
    not inductive, and with a second inserter it does not hold.
  * `PoolImplementsView`: a view follows the calls on the map (`ViewPut`,
    `ViewDrop`, `ViewModify`), and what each method of a sound record changes in
    it is one of the changes of `PoolView`; clocks and circuits change nothing in
    it. What is out by a ban is carried along, so that a proxy returns only as it
    was, and one that `cleanup_stale` drops is shown to be Unchecked or Failed, as
    it has never worked.
  * `PoolImplementsContract`: what is set aside, in the banned map and with
    the handlers of ban and unban, changes with each call of a handler and with
    each clock event as the contract says; an add holds a new proxy, which no
    clock changes (`NewProxyAgeless`).
* `TransparentProofs` (`TransparentTypeCorrect`, `AccountsBalance`,
  `BackupAlwaysDiffers`): the inductive invariant adds two facts to the types and
  the two properties: from the lookup to the session a task has a proxy, without
  which the session that it stores has no type; and the free permits are not
  negative, without which the gauge has no upper bound. A step moves one task
  from one record to another, so it changes the set of counted tasks and that of
  tasks with a permit by at most one element, and one of five lemmas on
  cardinalities applies; waking all waiters changes neither.
* `PersistenceProofs` (`PersistenceTypeCorrect`, which includes that memory holds
  only versions that the pool has had, `FileStaysComplete`,
  `ShutdownStaysSaved`): the file under the name `state.json` is never the
  inode under the temporary name; and as long as no Ctrl+C has met a save of the
  loop, one writer at a time has the temporary file, which then holds exactly
  the pieces that it has written, and all of them once it comes to the rename.
* `ConfigReloadProofs` (`ReloadTypeCorrect`, `ReloadsApplyTogether`,
  `RemovedOnlyWhenIdle`): the TTL and the countries agree with the
  configuration up to the point where the loop is between its assignments. For
  `RemovedWhenIdle`, the session that a get has found expired, and that nothing
  has overtaken since, is still past its TTL, or is gone: time only makes it
  older.
* `CheckSingleProofs` (`CheckTypeCorrect`, `VerdictsEarned`,
  `NobodyFalselyBlamed`): the invariant describes the bytes under way at each
  place of the check and state of the proxy: which answer they are part of, how
  much of it has been read. For `NoFalseBlame` this says that at the TLS
  handshake, unless there was trouble, nothing is left in the stream; for
  `VerdictEarned` it says which protocols the proxy must speak to have got there.
* `UpstreamProofs` (`UpstreamTypeCorrect`, `OkAlwaysGranted`,
  `TunnelStaysAligned`): over HTTP, what has been read and what is under way are
  together one response whose end of the header has not been read, and only the
  target's bytes follow it; over SOCKS5, what is under way is the rest of one
  reply and then exactly the bytes that the target has sent.
* `LockProofs`:
  * `UdpTypeCorrect`, `SocketsStayOpen`, `AnswersReachAsker`: nobody is in the
    line for the lock twice; a task that awaits an answer is among the readers at
    its front, so that nobody writes to the table; open sockets have different
    ports; an answer that is under way to an open socket was asked for by the
    client that the socket belongs to, or is marked late, because closing a
    socket marks what is under way to it (`ClosingMarks`) before its port can be
    given away.
  * `WarmPoolBounded`, `WaitersStayTracked`: during retain, what is not in the
    new list is in a shard that retain has not come to; afterwards the keys in
    the map and those still to be added come from one list of at most
    `max_proxies`, although the model forgets the part of it that is done. A
    client's key is in the map while it is in `take`, because its guard keeps
    retain out of the shard.

`ProxyPoolProofs` uses the lemmas of `CircuitBreakerProofs` on the methods of a
record, and `LockProofs` is about two modules at once; so the definitions of
`CircuitBreaker` and `WarmPool` have names of their own (`BreakerInit`,
`WarmNext` and so on), as those of `StickySessions` do.

Checked by TLC only: liveness (`FailedIsRetested`, `NewAreProbed`, `ConnectionsEnd`,
`TakeReturns`, `HandshakeEnds`, `CheckEnds`, `ShutdownEnds`,
`TasksEnd`, `SessionsExpire`, `EditsArrive`, `IdleSessionsGo`), which depends on
fairness and `ENABLED` and is out of the prover's reach, and the violation.

## 5. Not modelled, and the plan

Not modelled: the dashboard and the query endpoints (they change nothing),
metrics, sniffing (a parser without state), the unused connection pool,
deployment. `geo_index` is written but its only reader, `select_best_by_country`,
has no caller.

Next, in this order:

1. Facts beyond the properties of the runs that the inductive invariants already
   give, stated as theorems of their own: among them, that an answer of the
   proxy is never read past its end over SOCKS5, and that the two saves never
   both write outside an overlap.
2. Lemmas towards liveness that need no fairness: the steps of a handler lower a
   rank, for instance that of the attempts of a connection.
3. `NetManager`: the lease of the port mapping and the status file of the
   separate Python service.
