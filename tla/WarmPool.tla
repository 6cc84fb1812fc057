------------------------------ MODULE WarmPool ------------------------------
(***************************************************************************)
(* The warm pool (src/src/pool/warm_pool.rs) and its refresh loop in main: *)
(* queues of connected streams, each under an async mutex of its own, in a *)
(* DashMap whose shards are under blocking locks.  A client holds a read   *)
(* guard on the shard for the whole of take, its wait for the mutex        *)
(* included.  The refresh holds no guard while it awaits, but the thread   *)
(* that runs it stands still while it wants to write to a guarded shard.   *)
(***************************************************************************)
EXTENDS DashMap, Naturals, Sequences, SequencesExt, FiniteSets

CONSTANTS
  Keys,         \* proxies
  Takers,       \* tasks that call take
  Shards,       \* the shards of the map, each the set of keys it has
  Workers,      \* threads of the runtime that can run a task that is woken
  MaxPerProxy,  \* max_per_proxy   (2)
  MaxProxies,   \* max_proxies   (5)
  MaxAge,       \* max_age, in clock ticks   (45 s)
  Refresh,      \* the task of the refresh loop
  NoKey,        \* not in take
  NoTask        \* no task

ASSUME WarmPoolAssumption ==
  /\ UNION Shards = Keys
  /\ \A s, t \in Shards : s # t => s \cap t = {}
  /\ Workers \in Nat \ {0} /\ MaxAge \in Nat \ {0}
  /\ MaxPerProxy \in Nat /\ MaxProxies \in Nat
  /\ Refresh \notin Takers /\ NoKey \notin Keys /\ NoTask \notin Takers

VARIABLES
  queues,  \* connections: key -> streams, the oldest first
  line,    \* key -> who has the mutex of the queue, then who awaits it
  taking,  \* client -> the key that it takes a stream for
  stage,   \* refresh: sleep, retain, entry, lock or fill
  top,     \* refresh: keys still to be filled, the next one first
  swept,   \* refresh: shards that retain has not come to
  slot     \* client in the LIFO slot of the thread that runs the refresh

warmVars == <<queues, line, taking, stage, top, swept, slot>>

Stream == [age : 0..MaxAge, alive : BOOLEAN]

WarmInit ==
  /\ queues = EmptyMap
  /\ line = [k \in Keys |-> <<>>]
  /\ taking = [c \in Takers |-> NoKey]
  /\ stage = "sleep" /\ top = <<>> /\ swept = {} /\ slot = NoTask

(* A client in take keeps the others from writing to the shard. *)
Guarded(s) == \E c \in Takers : taking[c] \in s

(* From the tick or from the release of a mutex to the next await, the
   refresh has a thread of its own.                                         *)
FreeWorker == Workers > IF stage \in {"retain", "entry"} THEN 1 ELSE 0

(* tokio puts a task that is woken into the LIFO slot of the thread that wakes
   it, from which no other thread takes it: it has to wait until the task
   that woke it gives the thread back.                                      *)
CanRun(c) == FreeWorker /\ slot # c

HasMutex(task, k) == line[k] # <<>> /\ Head(line[k]) = task

(* tokio's mutex is fair: the first of those who wait gets it. *)
Unlock(k) == line' = [line EXCEPT ![k] = Tail(@)]

-----------------------------------------------------------------------------
(* take: the guard of the shard, then the mutex.  For a key that is not
   there it returns None at once, and nothing changes.                      *)
TakeGets(c, k) ==
  /\ taking[c] = NoKey /\ CanRun(c)
  /\ k \in DOMAIN queues
  /\ taking' = [taking EXCEPT ![c] = k]
  /\ line' = [line EXCEPT ![k] = Append(@, c)]
  /\ UNCHANGED <<queues, stage, top, swept, slot>>

(* is_connection_alive is FALSE after EOF or an error. *)
Usable(s) == s.age < MaxAge /\ s.alive

(* Streams are dropped up to the first one that can be used, which is
   returned; None if there is no such one.                                  *)
AfterTake(q) ==
  LET usable == {i \in DOMAIN q : Usable(q[i])} IN
  IF usable = {} THEN <<>>
  ELSE SubSeq(q, 1 + CHOOSE i \in usable : \A j \in usable : i <= j, Len(q))

TakePops(c) ==
  LET k == taking[c] IN
  /\ k # NoKey /\ CanRun(c)
  /\ HasMutex(c, k)
  /\ queues' = [queues EXCEPT ![k] = AfterTake(@)]
  /\ Unlock(k)
  /\ taking' = [taking EXCEPT ![c] = NoKey]
  /\ UNCHANGED <<stage, top, swept, slot>>

-----------------------------------------------------------------------------
(* The refresh loop.  top_stable_proxies lists the best Verified proxies in
   order of their score: as the pool changes, any few of them.              *)
Tops == {t \in SeqOf(Keys, MaxProxies) : IsInjective(t)}

(* The tick is over at once if the refresh before took longer than the
   interval; else the thread is given back.                                 *)
Yields ==
  /\ stage = "sleep" /\ slot # NoTask
  /\ slot' = NoTask
  /\ UNCHANGED <<queues, line, taking, stage, top, swept>>

Tick(t) ==
  /\ stage = "sleep"
  /\ top' = t /\ swept' = Shards
  /\ stage' = "retain"
  /\ UNCHANGED <<queues, line, taking, slot>>

(* The shard that retain comes to next; the order is always the same. *)
NextShard == CHOOSE s \in swept : TRUE

(* Mutant: the guards of clients are not respected. *)
RetainUnguarded ==
  /\ stage = "retain"
  /\ queues' = Drop(queues, NextShard \ Range(top))
  /\ swept' = swept \ {NextShard}
  /\ stage' = IF swept' # {} THEN "retain"
              ELSE IF top = <<>> THEN "sleep" ELSE "entry"
  /\ UNCHANGED <<line, taking, top, slot>>

(* Mutant: proxies that left the top are kept. *)
RetainAll ==
  /\ stage = "retain"
  /\ ~Guarded(NextShard)
  /\ swept' = swept \ {NextShard}
  /\ stage' = IF swept' # {} THEN "retain"
              ELSE IF top = <<>> THEN "sleep" ELSE "entry"
  /\ UNCHANGED <<queues, line, taking, top, slot>>

(* retain locks one shard after the other for writing. *)
Retain ==
  /\ stage = "retain"
  /\ ~Guarded(NextShard)
  /\ queues' = Drop(queues, NextShard \ Range(top))
  /\ swept' = swept \ {NextShard}
  /\ stage' = IF swept' # {} THEN "retain"
              ELSE IF top = <<>> THEN "sleep" ELSE "entry"
  /\ UNCHANGED <<line, taking, top, slot>>

(* entry(key).or_insert_with(..).value().clone(), then lock().await, which
   gives the thread back only if it has to wait.                            *)
Entry ==
  LET k == Head(top) IN
  /\ stage = "entry"
  /\ \A s \in Shards : k \in s => ~Guarded(s)
  /\ queues' = IF k \in DOMAIN queues THEN queues ELSE Put(queues, k, <<>>)
  /\ line' = [line EXCEPT ![k] = Append(@, Refresh)]
  /\ stage' = "lock"
  /\ slot' = IF line[k] = <<>> THEN slot ELSE NoTask
  /\ UNCHANGED <<taking, top, swept>>

(* retain on a queue: the streams that are not too old, in their order. *)
Young(q) ==
  LET kept    == {i \in 1..Len(q) : q[i].age < MaxAge}
      Rank(i) == Cardinality({j \in kept : j <= i})
  IN  [n \in 1..Cardinality(kept) |-> q[CHOOSE i \in kept : Rank(i) = n]]

(* The mutex is there: streams that are too old go.  If one is missing then,
   the refresh awaits a connection.                                         *)
Evict ==
  LET k == Head(top) IN
  /\ stage = "lock"
  /\ HasMutex(Refresh, k)
  /\ queues' = [queues EXCEPT ![k] = Young(@)]
  /\ stage' = "fill"
  /\ slot' = IF Len(Young(queues[k])) < MaxPerProxy THEN NoTask ELSE slot
  /\ UNCHANGED <<line, taking, top, swept>>

(* Another stream is connected, with the mutex held. *)
Connects ==
  LET k == Head(top) IN
  /\ stage = "fill"
  /\ Len(queues[k]) < MaxPerProxy
  /\ queues' = [queues EXCEPT ![k] = Append(@, [age |-> 0, alive |-> TRUE])]
  /\ UNCHANGED <<line, taking, stage, top, swept, slot>>

(* The client that gets the mutex from the refresh is put into the slot; one
   that is there already goes to the queue of the thread, which all share.  *)
Wakes(k) == slot' = IF Len(line[k]) > 1 THEN line[k][2] ELSE slot

(* Mutant: an unreachable proxy is tried again. *)
FillEndsWhenFull ==
  LET k == Head(top) IN
  /\ stage = "fill"
  /\ Len(queues[k]) = MaxPerProxy
  /\ Unlock(k) /\ Wakes(k)
  /\ top' = Tail(top)
  /\ stage' = IF Len(top) = 1 THEN "sleep" ELSE "entry"
  /\ UNCHANGED <<queues, taking, swept>>

(* The queue is full, or the proxy does not answer within 5 s. *)
FillEnds ==
  /\ stage = "fill"
  /\ Unlock(Head(top)) /\ Wakes(Head(top))
  /\ top' = Tail(top)
  /\ stage' = IF Len(top) = 1 THEN "sleep" ELSE "entry"
  /\ UNCHANGED <<queues, taking, swept>>

-----------------------------------------------------------------------------
(* Streams age up to max_age, beyond which it makes no difference, *)
Ages ==
  /\ queues' = [k \in DOMAIN queues |->
                  [i \in DOMAIN queues[k] |->
                     [queues[k][i] EXCEPT !.age = IF @ < MaxAge THEN @ + 1
                                                  ELSE @]]]
  /\ UNCHANGED <<line, taking, stage, top, swept, slot>>

(* and proxies close them. *)
Closes(k, i) ==
  /\ queues' = [queues EXCEPT ![k][i].alive = FALSE]
  /\ UNCHANGED <<line, taking, stage, top, swept, slot>>

WarmNext ==
  \/ \E c \in Takers : TakePops(c) \/ \E k \in Keys : TakeGets(c, k)
  \/ Yields \/ \E t \in Tops : Tick(t)
  \/ Retain \/ Entry \/ Evict \/ Connects \/ FillEnds
  \/ Ages
  \/ \E k \in DOMAIN queues : \E i \in DOMAIN queues[k] : Closes(k, i)

(* Tasks that can go on are polled, and connecting has a timeout.  That a
   proxy accepts is not assumed, nor that a refresh ends in time.           *)
WarmFairness ==
  /\ \A c \in Takers : WF_warmVars(TakePops(c))
  /\ WF_warmVars(Yields) /\ WF_warmVars(Retain) /\ WF_warmVars(Entry)
  /\ WF_warmVars(Evict) /\ WF_warmVars(FillEnds)

WarmSpec == WarmInit /\ [][WarmNext]_warmVars /\ WarmFairness

-----------------------------------------------------------------------------
(* What the gateway keeps open is bounded, although the proxies at the top
   change from one refresh to the next and clients take streams meanwhile.  *)
Bounded ==
  /\ Cardinality(DOMAIN queues) <= MaxProxies
  /\ \A k \in DOMAIN queues : Len(queues[k]) <= MaxPerProxy

(* A client that waits for the mutex of a queue still finds the queue in the
   map when it gets it: the refresh has not thrown it away meanwhile.       *)
WaitersTracked == \A c \in Takers : taking[c] # NoKey => taking[c] \in DOMAIN queues

(* A client has the mutex and its guard on the shard, and waits for the thread
   of the refresh, which woke it.                                           *)
Pinned(c) == slot = c /\ taking[c] # NoKey

(* take returns, however the clients and the refresh contend for the mutexes
   and the shards and although no proxy need accept a connection.  There is
   one circle: the refresh comes, before its next await, to the shard that
   the client which it woke is guarding, and both stand still.  Nothing else
   keeps a client in take.                                                  *)
TakeReturns ==
  \A c \in Takers : \/ taking[c] # NoKey ~> taking[c] = NoKey
                    \/ \E d \in Takers : <>[]Pinned(d)
=============================================================================
