----------------------------- MODULE LockProofs -----------------------------
(***************************************************************************)
(* The two components that keep a lock while they await something: the UDP *)
(* relay for any number of permits, clients and ports, and the warm pool   *)
(* for any number of proxies, shards and clients.                          *)
(***************************************************************************)
EXTENDS UdpRelay, WarmPool, FiniteSetTheorems, WellFoundedInduction, TLAPS

(* A task of the relay, or the cleanup task. *)
Actor == Tasks \cup {Cleaner}

Line == Seq([who : Actor, mode : {"read", "write"}])

(* Nobody is in the line twice. *)
Unique(waiting) ==
  \A i, j \in 1..Len(waiting) : waiting[i].who = waiting[j].who => i = j

(* who shares the lock with the readers before it, if any. *)
Reads(waiting, who) ==
  \E i \in 1..Len(waiting) :
    /\ waiting[i].who = who
    /\ \A j \in 1..i : waiting[j].mode = "read"

LockOK ==
  /\ lock \in Line
  /\ Unique(lock)

(* What a task asks for depends on where it is; the cleanup writes. *)
ModesOK ==
  \A i \in 1..Len(lock) :
    lock[i].mode = "write" <=>
      \/ lock[i].who = Cleaner
      \/ task[lock[i].who].pc \in {"insert", "touch"}

(* A task that awaits an answer has the lock, and the session's socket. *)
GuardHeld ==
  \A t \in Tasks : At(t, "recv") => Reads(lock, t)

(* No two open sockets have one port. *)
PortsOK ==
  /\ \A c, d \in DOMAIN sessions : sessions[c].port = sessions[d].port => c = d
  /\ \A t \in Tasks : At(t, "insert") =>
       /\ task[t].port \in Ports
       /\ \A c \in DOMAIN sessions : sessions[c].port # task[t].port
       /\ \A u \in Tasks : At(u, "insert") /\ task[u].port = task[t].port => u = t

(* An answer that is not late is on its way to the socket of its client's
   session.                                                                 *)
NetOK ==
  \A a \in net :
    ~a.late => a.client \in DOMAIN sessions /\ sessions[a.client].port = a.port

(* Inductive: an answer reaches its asker because open sockets have distinct
   ports, a socket that closes makes its answers late, and it closes only
   under the write lock, which a task that waits for an answer keeps
   everybody from having.                                                   *)
UInv ==
  TypeOK /\ LockOK /\ ModesOK /\ GuardHeld /\ SocketStaysOpen /\ PortsOK /\ NetOK
-----------------------------------------------------------------------------
(* The lock. *)

(* A guard that is dropped, or a request that is given up, takes its owner
   out of the line and nobody else, and keeps the readers that hold the lock. *)
LEMMA WithoutOne ==
  ASSUME NEW waiting \in Line, Unique(waiting), NEW who
  PROVE  /\ Without(waiting, who) \in Line
         /\ Unique(Without(waiting, who))
         /\ \A i \in 1..Len(Without(waiting, who)) :
              /\ Without(waiting, who)[i].who # who
              /\ \E j \in 1..Len(waiting) : Without(waiting, who)[i] = waiting[j]
         /\ \A t : t # who /\ Reads(waiting, t) => Reads(Without(waiting, who), t)
  <1> DEFINE places == {i \in 1..Len(waiting) : waiting[i].who = who}
             place  == CHOOSE i \in places : TRUE
             w == Without(waiting, who)
  <1> DEFINE R == [who : Actor, mode : {"read", "write"}]
  <1>z. waiting \in Seq(R)
    BY DEF Line
  <1> HIDE DEF R
  <1>0. /\ Len(waiting) \in Nat /\ DOMAIN waiting = 1..Len(waiting)
        /\ \A i \in 1..Len(waiting) : waiting[i] \in R
    BY <1>z
  <1>1. CASE places = {}
    <2>1. w = waiting
      BY <1>1 DEF Without
    <2> QED BY <1>1, <2>1
  <1>2. CASE places # {}
    <2>1. place \in 1..Len(waiting) /\ waiting[place].who = who
      BY <1>2
    <2>2. w = [j \in 1..(Len(waiting) - 1) |->
                 IF j < place THEN waiting[j] ELSE waiting[j + 1]]
      BY <1>2 DEF Without
    <2> HIDE DEF place, places, w
    <2>3. /\ Len(waiting) - 1 \in Nat
          /\ \A j \in 1..(Len(waiting) - 1) :
               /\ j \in 1..Len(waiting) /\ j + 1 \in 1..Len(waiting)
               /\ w[j] = IF j < place THEN waiting[j] ELSE waiting[j + 1]
      BY <1>0, <2>1, <2>2
    <2>4. w \in Line /\ Len(w) = Len(waiting) - 1
      BY <1>0, <2>2, <2>3 DEF Line, R
    <2>5. ASSUME NEW i \in 1..Len(w)
          PROVE  /\ w[i].who # who
                 /\ \E j \in 1..Len(waiting) : w[i] = waiting[j]
      <3>1. i \in 1..(Len(waiting) - 1) /\ i \in Nat
        BY <2>4
      <3>2. CASE i < place
        BY <1>0, <2>1, <2>3, <3>1, <3>2 DEF Unique
      <3>3. CASE ~(i < place)
        BY <1>0, <2>1, <2>3, <3>1, <3>3 DEF Unique
      <3> QED BY <3>2, <3>3
    <2>6. Unique(w)
      <3> SUFFICES ASSUME NEW i \in 1..Len(w), NEW j \in 1..Len(w),
                          w[i].who = w[j].who
                   PROVE  i = j
        BY DEF Unique
      <3>1. i \in 1..(Len(waiting) - 1) /\ j \in 1..(Len(waiting) - 1)
        BY <2>4
      <3> QED BY <1>0, <2>1, <2>3, <3>1 DEF Unique
    <2>7. ASSUME NEW t, t # who, Reads(waiting, t)
          PROVE  Reads(w, t)
      <3>1. PICK i \in 1..Len(waiting) :
              waiting[i].who = t /\ \A j \in 1..i : waiting[j].mode = "read"
        BY <2>7 DEF Reads
      <3>2. i # place
        BY <2>1, <2>7, <3>1
      <3>3. CASE i < place
        <4>1. i \in 1..(Len(waiting) - 1) /\ w[i] = waiting[i]
          BY <1>0, <2>1, <2>3, <3>3
        <4>2. ASSUME NEW j \in 1..i PROVE w[j].mode = "read"
          <5>1. j \in 1..(Len(waiting) - 1) /\ j < place
            BY <1>0, <2>1, <4>1, <3>3
          <5> QED BY <2>3, <3>1, <5>1
        <4> QED BY <2>4, <3>1, <4>1, <4>2 DEF Reads
      <3>4. CASE i > place
        <4>1. /\ i - 1 \in 1..(Len(waiting) - 1) /\ ~(i - 1 < place)
              /\ (i - 1) + 1 = i
          BY <1>0, <2>1, <3>4
        <4>2. w[i - 1] = waiting[i]
          BY <2>3, <4>1
        <4>3. ASSUME NEW j \in 1..(i - 1) PROVE w[j].mode = "read"
          <5>1. j \in 1..(Len(waiting) - 1) /\ j \in 1..i /\ j + 1 \in 1..i
            BY <1>0, <4>1
          <5> QED BY <2>3, <3>1, <5>1
        <4> QED BY <2>4, <3>1, <4>1, <4>2, <4>3 DEF Reads
      <3> QED BY <1>0, <2>1, <3>2, <3>3, <3>4
    <2> QED BY <2>4, <2>5, <2>6, <2>7 DEF w
  <1> QED BY <1>1, <1>2

(* The next request goes to the end of the line. *)
LEMMA AppendOne ==
  ASSUME NEW waiting \in Line, Unique(waiting), NEW who \in Actor,
         NEW mode \in {"read", "write"},
         \A i \in 1..Len(waiting) : waiting[i].who # who
  PROVE  /\ Append(waiting, Request(who, mode)) \in Line
         /\ Unique(Append(waiting, Request(who, mode)))
         /\ \A i \in 1..Len(Append(waiting, Request(who, mode))) :
              \/ i \in 1..Len(waiting)
                 /\ Append(waiting, Request(who, mode))[i] = waiting[i]
              \/ Append(waiting, Request(who, mode))[i] = Request(who, mode)
         /\ \A t : Reads(waiting, t) => Reads(Append(waiting, Request(who, mode)), t)
  <1> DEFINE r == Request(who, mode)
             w == Append(waiting, r)
  <1>0. r \in [who : Actor, mode : {"read", "write"}] /\ r.who = who
    BY DEF Request
  <1> HIDE DEF r
  <1>1. /\ w \in Line /\ Len(waiting) \in Nat /\ Len(w) = Len(waiting) + 1
        /\ \A i \in 1..Len(waiting) : w[i] = waiting[i]
        /\ w[Len(waiting) + 1] = r
    BY <1>0 DEF Line
  <1> HIDE DEF w
  <1>2. \A i \in 1..Len(w) : i \in 1..Len(waiting) \/ i = Len(waiting) + 1
    BY <1>1
  <1>3. Unique(w)
    BY <1>0, <1>1, <1>2 DEF Unique
  <1>4. ASSUME NEW t, Reads(waiting, t) PROVE Reads(w, t)
    <2>1. PICK i \in 1..Len(waiting) :
            waiting[i].who = t /\ \A j \in 1..i : waiting[j].mode = "read"
      BY <1>4 DEF Reads
    <2>2. i \in 1..Len(w) /\ \A j \in 1..i : j \in 1..Len(waiting)
      BY <1>1
    <2> QED BY <1>1, <2>1, <2>2 DEF Reads
  <1> QED BY <1>1, <1>2, <1>3, <1>4 DEF w, r
(* What Leave and Then do to the lock. *)
LEMMA LockMoves ==
  ASSUME LockOK, NEW who \in Actor, NEW mode \in {"read", "write"},
         Leave(who) \/ Then(who, mode)
  PROVE  /\ LockOK'
         /\ \A i \in 1..Len(lock') :
              \/ lock'[i] = Request(who, mode)
              \/ /\ lock'[i].who # who
                 /\ \E j \in 1..Len(lock) : lock'[i] = lock[j]
         /\ \A t : t # who /\ Reads(lock, t) => Reads(lock', t)
  <1> DEFINE w == Without(lock, who)
  <1>1. /\ w \in Line /\ Unique(w)
        /\ \A i \in 1..Len(w) : /\ w[i].who # who
                                /\ \E j \in 1..Len(lock) : w[i] = lock[j]
        /\ \A t : t # who /\ Reads(lock, t) => Reads(w, t)
    BY WithoutOne DEF LockOK
  <1>2. CASE Leave(who)
    <2>1. lock' = w
      BY <1>2 DEF Leave, Released
    <2> QED BY <1>1, <2>1 DEF LockOK
  <1>3. CASE Then(who, mode)
    <2>1. lock' = Append(w, Request(who, mode))
      BY <1>3 DEF Then, Released
    <2> HIDE DEF w
    <2>2. /\ lock' \in Line /\ Unique(lock')
          /\ \A i \in 1..Len(lock') : \/ i \in 1..Len(w) /\ lock'[i] = w[i]
                                      \/ lock'[i] = Request(who, mode)
          /\ \A t : Reads(w, t) => Reads(lock', t)
      BY <1>1, <2>1, AppendOne
    <2> QED BY <1>1, <2>2 DEF LockOK
  <1> QED BY <1>2, <1>3

(* A line has the types that TypeOK asks for. *)
LEMMA LineTyped ==
  ASSUME NEW waiting \in Line
  PROVE  \A i \in 1..Len(waiting) :
           /\ waiting[i] \in [who : Actor, mode : {"read", "write"}]
           /\ waiting[i].mode \in {"read", "write"}
           /\ waiting[i].who \in Tasks \cup {Cleaner}
  <1> DEFINE R == [who : Actor, mode : {"read", "write"}]
  <1>1. waiting \in Seq(R)
    BY DEF Line
  <1> HIDE DEF R
  <1>2. \A i \in 1..Len(waiting) : waiting[i] \in R
    BY <1>1
  <1> QED BY <1>2 DEF R, Actor

(* While somebody writes, nobody awaits an answer. *)
LEMMA WriterAlone ==
  ASSUME UInv, NEW who \in Actor, Holds(who),
         who = Cleaner \/ task[who].pc \in {"insert", "touch"}
  PROVE  \A u \in Tasks : ~At(u, "recv")
  <1>1. PICK i \in 1..Len(lock) :
          /\ lock[i].who = who
          /\ IF lock[i].mode = "write" THEN i = 1
             ELSE \A j \in 1..i : lock[j].mode = "read"
    BY DEF Holds
  <1>2. lock[1].mode = "write"
    BY <1>1 DEF UInv, ModesOK
  <1>3. ASSUME NEW u \in Tasks, At(u, "recv") PROVE FALSE
    <2>1. PICK k \in 1..Len(lock) : \A j \in 1..k : lock[j].mode = "read"
      BY <1>3 DEF UInv, GuardHeld, Reads
    <2>2. 1 \in 1..k
      OBVIOUS
    <2> QED BY <1>2, <2>1, <2>2
  <1> QED BY <1>3

(* A reader that is let in is a reader. *)
LEMMA ReaderIn ==
  ASSUME UInv, NEW t \in Tasks, Holds(t), At(t, "send")
  PROVE  Reads(lock, t)
  <1>1. PICK i \in 1..Len(lock) :
          /\ lock[i].who = t
          /\ IF lock[i].mode = "write" THEN i = 1
             ELSE \A j \in 1..i : lock[j].mode = "read"
    BY DEF Holds
  <1>2. t # Cleaner
    BY UdpAssumption
  <1>3. lock[i].mode # "write"
    BY <1>1, <1>2 DEF UInv, ModesOK, At
  <1> QED BY <1>1, <1>3 DEF Reads

-----------------------------------------------------------------------------
(* A task goes on to x and to the request that goes with it, or ends: the
   line stays in order and the guards of the others are kept.               *)
LEMMA TaskMoves ==
  ASSUME UInv, NEW t \in Tasks, NEW x \in TaskRecord, x.pc # "recv",
         task' = [task EXCEPT ![t] = x],
         \/ Leave(t)
         \/ Then(t, IF x.pc \in {"insert", "touch"} THEN "write" ELSE "read")
  PROVE  /\ task' \in [Tasks -> TaskRecord]
         /\ LockOK' /\ ModesOK' /\ GuardHeld'
         /\ \A u \in Tasks : At(u, "recv")' =>
              u # t /\ At(u, "recv") /\ task'[u] = task[u]
  <1> DEFINE mode == IF x.pc \in {"insert", "touch"} THEN "write" ELSE "read"
  <1>0. /\ task \in [Tasks -> TaskRecord] /\ LockOK
        /\ t \in Actor /\ t # Cleaner /\ mode \in {"read", "write"}
    BY UdpAssumption DEF UInv, TypeOK, Actor
  <1>1. /\ task' \in [Tasks -> TaskRecord] /\ task'[t] = x
        /\ \A u \in Tasks : u # t => task'[u] = task[u]
    BY <1>0
  <1>2. /\ LockOK'
        /\ \A i \in 1..Len(lock') :
              \/ lock'[i] = Request(t, mode)
              \/ /\ lock'[i].who # t
                 /\ \E j \in 1..Len(lock) : lock'[i] = lock[j]
        /\ \A u : u # t /\ Reads(lock, u) => Reads(lock', u)
    BY <1>0, LockMoves
  <1>3. Request(t, mode).who = t /\ Request(t, mode).mode = mode
    BY DEF Request
  <1>4. ModesOK'
    <2> SUFFICES ASSUME NEW i \in 1..Len(lock')
                 PROVE  lock'[i].mode = "write" <=>
                          \/ lock'[i].who = Cleaner
                          \/ task'[lock'[i].who].pc \in {"insert", "touch"}
      BY DEF ModesOK
    <2>1. CASE lock'[i] = Request(t, mode)
      BY <1>0, <1>1, <1>3, <2>1
    <2>2. CASE /\ lock'[i].who # t
               /\ \E j \in 1..Len(lock) : lock'[i] = lock[j]
      <3>1. lock'[i].who \in Tasks \cup {Cleaner}
        BY <1>2, LineTyped DEF LockOK
      <3>2. lock'[i].mode = "write" <=>
              \/ lock'[i].who = Cleaner
              \/ task[lock'[i].who].pc \in {"insert", "touch"}
        BY <2>2 DEF UInv, ModesOK
      <3>3. lock'[i].who # Cleaner => task'[lock'[i].who] = task[lock'[i].who]
        BY <1>1, <2>2, <3>1
      <3> QED BY <3>2, <3>3
    <2> QED BY <1>2, <2>1, <2>2
  <1>5. \A u \in Tasks : At(u, "recv")' =>
              u # t /\ At(u, "recv") /\ task'[u] = task[u]
    BY <1>1 DEF At
  <1>6. GuardHeld'
    BY <1>2, <1>5 DEF UInv, GuardHeld
  <1> QED BY <1>1, <1>2, <1>4, <1>5, <1>6

(* Such a move, when the sessions keep their sockets and no socket is bound. *)
LEMMA PlainMove ==
  ASSUME UInv, NEW t \in Tasks, NEW x \in TaskRecord,
         x.pc \notin {"recv", "insert"},
         task' = [task EXCEPT ![t] = x],
         \/ Leave(t)
         \/ Then(t, IF x.pc \in {"insert", "touch"} THEN "write" ELSE "read"),
         DOMAIN sessions' = DOMAIN sessions,
         \A c \in DOMAIN sessions : /\ sessions'[c] \in Session
                                    /\ sessions'[c].port = sessions[c].port,
         net' \subseteq net
  PROVE  UInv'
  <1>1. /\ task' \in [Tasks -> TaskRecord]
        /\ LockOK' /\ ModesOK' /\ GuardHeld'
        /\ \A u \in Tasks : At(u, "recv")' =>
              u # t /\ At(u, "recv") /\ task'[u] = task[u]
    BY TaskMoves
  <1>2. TypeOK'
    BY <1>1, LineTyped DEF TypeOK, LockOK, UInv
  <1>3. SocketStaysOpen'
    BY <1>1 DEF UInv, SocketStaysOpen, Client
  <1>4. \A u \in Tasks : At(u, "insert")' => At(u, "insert") /\ task'[u] = task[u]
    BY DEF At, UInv, TypeOK
  <1>5. PortsOK'
    <2>1. \A c, d \in DOMAIN sessions' :
            sessions'[c].port = sessions'[d].port => c = d
      BY DEF UInv, PortsOK
    <2>2. ASSUME NEW u \in Tasks, At(u, "insert")'
          PROVE  /\ task'[u].port \in Ports
                 /\ \A c \in DOMAIN sessions' : sessions'[c].port # task'[u].port
                 /\ \A v \in Tasks : At(v, "insert")' /\ task'[v].port = task'[u].port
                                       => v = u
      BY <1>4, <2>2 DEF UInv, PortsOK
    <2> QED BY <2>1, <2>2 DEF PortsOK
  <1>6. NetOK'
    BY DEF UInv, NetOK
  <1> QED BY <1>1, <1>2, <1>3, <1>5, <1>6 DEF UInv
(* The record of a task that has ended. *)
LEMMA IdleTyped == IdleTask \in TaskRecord /\ IdleTask.pc = "idle"
  <1>1. SomeClient \in Clients
    BY UdpAssumption DEF SomeClient
  <1> QED BY <1>1 DEF IdleTask, TaskRecord

(* handle_udp_packet, except for the steps that make and use a socket. *)
LEMMA PlainSteps ==
  ASSUME UInv, NEW t \in Tasks,
         \/ Checks(t) \/ BindFails(t) \/ SendFails(t) \/ FindsNone(t)
         \/ GivesUp(t) \/ Touches(t)
         \/ \E a \in net : \/ ReplyFails(t, a)
                           \/ \E more \in BOOLEAN : Receives(t, a, more)
         \/ \E c \in Clients : Accept(t, c)
  PROVE  UInv'
  <1>0. /\ task \in [Tasks -> TaskRecord] /\ task[t] \in TaskRecord
        /\ \A c \in DOMAIN sessions : sessions[c] \in Session
    BY DEF UInv, TypeOK
  <1>s. sessions' = sessions => /\ DOMAIN sessions' = DOMAIN sessions
                                /\ \A c \in DOMAIN sessions :
                                     /\ sessions'[c] \in Session
                                     /\ sessions'[c].port = sessions[c].port
    BY <1>0
  <1>e. ASSUME Ends(t), sessions' = sessions, net' \subseteq net PROVE UInv'
    BY <1>e, <1>s, IdleTyped, PlainMove DEF Ends
  <1>1. CASE Checks(t)
    <2> DEFINE pc == IF Client(t) \in DOMAIN sessions THEN "send" ELSE "bind"
               x == [task[t] EXCEPT !.pc = pc]
    <2>1. x \in TaskRecord /\ x.pc \in {"send", "bind"}
      BY <1>0 DEF TaskRecord
    <2>2. task' = [task EXCEPT ![t] = x]
      BY <1>1, <1>0 DEF Checks
    <2>3. Leave(t) \/ Then(t, "read")
      BY <1>1 DEF Checks
    <2>4. sessions' = sessions /\ net' = net
      BY <1>1 DEF Checks
    <2> HIDE DEF x
    <2> QED BY <1>s, <2>1, <2>2, <2>3, <2>4, PlainMove
  <1>2. CASE BindFails(t)
    BY <1>2, <1>e DEF BindFails
  <1>3. CASE SendFails(t)
    BY <1>3, <1>e DEF SendFails
  <1>4. CASE FindsNone(t)
    <2> DEFINE x == [task[t] EXCEPT !.pc = "touch"]
    <2>1. x \in TaskRecord /\ x.pc = "touch"
      BY <1>0 DEF TaskRecord
    <2>2. task' = [task EXCEPT ![t] = x]
      BY <1>4, <1>0 DEF FindsNone
    <2> QED BY <1>4, <1>s, <2>1, <2>2, PlainMove DEF FindsNone
  <1>x. ASSUME task' = [task EXCEPT ![t].pc = "touch", ![t].port = NoPort],
               Then(t, "write"), sessions' = sessions, net' \subseteq net
        PROVE  UInv'
    <2> DEFINE x == [task[t] EXCEPT !.pc = "touch", !.port = NoPort]
    <2>1. x \in TaskRecord /\ x.pc = "touch"
      BY <1>0 DEF TaskRecord
    <2>2. task' = [task EXCEPT ![t] = x]
      BY <1>x, <1>0
    <2> QED BY <1>x, <1>s, <2>1, <2>2, PlainMove
  <1>5. CASE GivesUp(t)
    BY <1>5, <1>x DEF GivesUp
  <1>6. ASSUME NEW a \in net, NEW more \in BOOLEAN, Receives(t, a, more)
        PROVE  UInv'
    BY <1>6, <1>x DEF Receives
  <1>7. ASSUME NEW a \in net, ReplyFails(t, a) PROVE UInv'
    BY <1>7, <1>e DEF ReplyFails
  <1>8. CASE Touches(t)
    <2>1. /\ DOMAIN sessions' = DOMAIN sessions
          /\ \A c \in DOMAIN sessions : /\ sessions'[c] \in Session
                                        /\ sessions'[c].port = sessions[c].port
      BY <1>8, <1>0 DEF Touches, Modify, Session
    <2> QED BY <1>8, <2>1, IdleTyped, PlainMove DEF Touches, Ends
  <1>9. ASSUME NEW c \in Clients, Accept(t, c) PROVE UInv'
    <2> DEFINE x == [IdleTask EXCEPT !.pc = "check", !.client = c]
    <2>1. x \in TaskRecord /\ x.pc = "check"
      BY IdleTyped DEF TaskRecord
    <2>2. task' = [task EXCEPT ![t] = x] /\ Then(t, "read")
      BY <1>9 DEF Accept
    <2> HIDE DEF x
    <2> QED BY <1>9, <1>s, <2>1, <2>2, PlainMove DEF Accept
  <1> QED BY <1>1, <1>2, <1>3, <1>4, <1>5, <1>6, <1>7, <1>8, <1>9

(* UdpSocket::bind gives a port that no open socket has. *)
LEMMA BindsStep == ASSUME UInv, NEW t \in Tasks, Binds(t) PROVE UInv'
  <1>1. PICK p \in Ports \ Open :
          task' = [task EXCEPT ![t].pc = "insert", ![t].port = p]
    BY DEF Binds
  <1> DEFINE x == [task[t] EXCEPT !.pc = "insert", !.port = p]
  <1>0. /\ task \in [Tasks -> TaskRecord] /\ task[t] \in TaskRecord
        /\ sessions' = sessions /\ net' = net /\ At(t, "bind")
    BY DEF UInv, TypeOK, Binds
  <1>2. task' = [task EXCEPT ![t] = x] /\ Then(t, "write")
    BY <1>0, <1>1 DEF Binds
  <1>3. x \in TaskRecord /\ x.pc = "insert" /\ x.port = p
    BY <1>0, <1>1 DEF TaskRecord
  <1> HIDE DEF x
  <1>4. /\ task' \in [Tasks -> TaskRecord]
        /\ LockOK' /\ ModesOK' /\ GuardHeld'
        /\ \A u \in Tasks : At(u, "recv")' =>
              u # t /\ At(u, "recv") /\ task'[u] = task[u]
    BY <1>2, <1>3, TaskMoves
  <1>5. TypeOK'
    BY <1>0, <1>4, LineTyped DEF TypeOK, LockOK, UInv
  <1>6. SocketStaysOpen'
    BY <1>0, <1>4 DEF UInv, SocketStaysOpen, Client
  <1>7. /\ \A u \in Tasks : At(u, "insert") => task[u].port # p
        /\ \A c \in DOMAIN sessions : sessions[c].port # p
    BY <1>1 DEF Open
  <1>8. \A u \in Tasks : At(u, "insert")' =>
          \/ u = t /\ task'[u].port = p
          \/ u # t /\ At(u, "insert") /\ task'[u] = task[u]
    BY <1>0, <1>2, <1>3 DEF At
  <1>9. PortsOK'
    <2>1. \A c, d \in DOMAIN sessions' :
            sessions'[c].port = sessions'[d].port => c = d
      BY <1>0 DEF UInv, PortsOK
    <2>2. ASSUME NEW u \in Tasks, At(u, "insert")'
          PROVE  /\ task'[u].port \in Ports
                 /\ \A c \in DOMAIN sessions' : sessions'[c].port # task'[u].port
                 /\ \A v \in Tasks : At(v, "insert")' /\ task'[v].port = task'[u].port
                                       => v = u
      BY <1>0, <1>1, <1>7, <1>8, <2>2 DEF UInv, PortsOK
    <2> QED BY <2>1, <2>2 DEF PortsOK
  <1>10. NetOK'
    BY <1>0 DEF UInv, NetOK
  <1> QED BY <1>4, <1>5, <1>6, <1>9, <1>10 DEF UInv

(* When sockets close, the answers that are not late are those to the
   others.                                                                  *)
LEMMA ClosingMarks ==
  ASSUME NEW closed, net \subseteq Answer
  PROVE  /\ Closing(closed) \subseteq Answer
         /\ \A a \in Closing(closed) :
              ~a.late => a \in net /\ a.port \notin closed
  <1> SUFFICES ASSUME NEW b \in net,
                      NEW a, a = IF b.port \in closed
                                 THEN [b EXCEPT !.late = TRUE] ELSE b
               PROVE  a \in Answer /\ (~a.late => a \in net /\ a.port \notin closed)
    BY DEF Closing
  <1>1. b \in Answer
    OBVIOUS
  <1> QED BY <1>1 DEF Answer

(* The new session replaces whatever there was: nobody can be waiting on
   the socket that this closes, because the write lock is held.             *)
LEMMA InsertsStep == ASSUME UInv, NEW t \in Tasks, Inserts(t) PROVE UInv'
  <1> DEFINE c == Client(t)
             p == task[t].port
             x == [task[t] EXCEPT !.pc = "send", !.port = NoPort]
             old == IF c \in DOMAIN sessions THEN {sessions[c].port} ELSE {}
  <1>0. /\ task \in [Tasks -> TaskRecord] /\ task[t] \in TaskRecord
        /\ DOMAIN sessions \subseteq Clients /\ c \in Clients
        /\ \A d \in DOMAIN sessions : sessions[d] \in Session
        /\ t \in Actor /\ At(t, "insert") /\ Holds(t)
        /\ net \subseteq Answer
    BY DEF UInv, TypeOK, Inserts, Actor, TaskRecord, Client
  <1>1. task' = [task EXCEPT ![t] = x] /\ Then(t, "read")
    BY <1>0 DEF Inserts
  <1>2. x \in TaskRecord /\ x.pc = "send"
    BY <1>0 DEF TaskRecord
  <1>3. /\ sessions' = Put(sessions, c, [port |-> p, stale |-> FALSE])
        /\ net' = Closing(old)
    BY DEF Inserts
  <1>4. p \in Ports /\ \A d \in DOMAIN sessions : sessions[d].port # p
    BY <1>0 DEF UInv, PortsOK
  <1>5. /\ DOMAIN sessions' = DOMAIN sessions \cup {c}
        /\ sessions'[c] \in Session /\ sessions'[c].port = p
        /\ \A d \in DOMAIN sessions : d # c => sessions'[d] = sessions[d]
    BY <1>3, <1>4 DEF Put, Session
  <1>6. \A u \in Tasks : ~At(u, "recv")
    BY <1>0, WriterAlone DEF At
  <1> HIDE DEF x
  <1>7. /\ task' \in [Tasks -> TaskRecord]
        /\ LockOK' /\ ModesOK' /\ GuardHeld'
        /\ \A u \in Tasks : At(u, "recv")' =>
              u # t /\ At(u, "recv") /\ task'[u] = task[u]
    BY <1>1, <1>2, TaskMoves
  <1>8. SocketStaysOpen'
    BY <1>6, <1>7 DEF SocketStaysOpen
  <1> HIDE DEF c, p, old
  <1>9. TypeOK'
    BY <1>0, <1>3, <1>5, <1>7, LineTyped, ClosingMarks DEF TypeOK, LockOK
  <1>10. \A u \in Tasks : At(u, "insert")' =>
           u # t /\ At(u, "insert") /\ task'[u] = task[u]
    BY <1>0, <1>1, <1>2 DEF At
  <1>11. PortsOK'
    <2>1. ASSUME NEW d \in DOMAIN sessions', NEW e \in DOMAIN sessions',
                 sessions'[d].port = sessions'[e].port
          PROVE  d = e
      BY <1>4, <1>5, <2>1 DEF UInv, PortsOK
    <2>2. ASSUME NEW u \in Tasks, At(u, "insert")'
          PROVE  /\ task'[u].port \in Ports
                 /\ \A d \in DOMAIN sessions' : sessions'[d].port # task'[u].port
                 /\ \A v \in Tasks : At(v, "insert")' /\ task'[v].port = task'[u].port
                                       => v = u
      <3>1. u # t /\ At(u, "insert") /\ task'[u] = task[u]
        BY <1>10, <2>2
      <3>2. task[u].port # p
        BY <1>0, <3>1 DEF UInv, PortsOK, p
      <3> QED BY <1>5, <1>10, <3>1, <3>2 DEF UInv, PortsOK
    <2> QED BY <2>1, <2>2 DEF PortsOK
  <1>12. NetOK'
    <2> SUFFICES ASSUME NEW a \in net', ~a.late
                 PROVE  a.client \in DOMAIN sessions'
                        /\ sessions'[a.client].port = a.port
      BY DEF NetOK
    <2>1. /\ a \in net /\ a.port \notin old
          /\ a.client \in DOMAIN sessions /\ sessions[a.client].port = a.port
      BY <1>0, <1>3, ClosingMarks DEF UInv, NetOK
    <2>2. a.client # c
      BY <2>1 DEF old
    <2> QED BY <1>5, <2>1, <2>2
  <1> QED BY <1>7, <1>8, <1>9, <1>11, <1>12 DEF UInv

(* The query goes out from the session's socket, with the guard held. *)
LEMMA SendsStep == ASSUME UInv, NEW t \in Tasks, Sends(t) PROVE UInv'
  <1> DEFINE c == Client(t)
             x == [task[t] EXCEPT !.pc = "recv", !.port = sessions[c].port]
  <1>0. /\ task \in [Tasks -> TaskRecord] /\ task[t] \in TaskRecord
        /\ c \in DOMAIN sessions /\ c \in Clients
        /\ sessions[c] \in Session /\ sessions[c].port \in Ports
        /\ At(t, "send") /\ Holds(t) /\ sessions' = sessions /\ lock' = lock
        /\ net \subseteq Answer
        /\ net' \subseteq
             net \cup {[port |-> sessions[c].port, client |-> c, late |-> FALSE]}
    BY DEF UInv, TypeOK, Sends, Session, Asked
  <1>1. task' = [task EXCEPT ![t] = x]
    BY <1>0 DEF Sends
  <1>2. x \in TaskRecord /\ x.pc = "recv" /\ x.client = c
        /\ x.port = sessions[c].port
    BY <1>0 DEF TaskRecord, Client
  <1> HIDE DEF x
  <1>3. /\ task' \in [Tasks -> TaskRecord] /\ task'[t] = x
        /\ \A u \in Tasks : u # t => task'[u] = task[u]
    BY <1>0, <1>1, <1>2
  <1>a. [port |-> sessions[c].port, client |-> c, late |-> FALSE] \in Answer
    BY <1>0 DEF Answer
  <1>b. net' \subseteq Answer
    BY <1>0, <1>a
  <1>4. TypeOK'
    BY <1>0, <1>3, <1>b DEF TypeOK, UInv
  <1>5. LockOK' /\ GuardHeld'
    BY <1>0, <1>3, ReaderIn DEF UInv, LockOK, GuardHeld, At
  <1>6. ModesOK'
    <2> SUFFICES ASSUME NEW i \in 1..Len(lock)
                 PROVE  lock[i].mode = "write" <=>
                          \/ lock[i].who = Cleaner
                          \/ task'[lock[i].who].pc \in {"insert", "touch"}
      BY <1>0 DEF ModesOK
    <2>1. lock[i].who \in Tasks \cup {Cleaner}
      BY DEF UInv, TypeOK
    <2> QED BY <1>0, <1>2, <1>3, <2>1 DEF UInv, ModesOK, At
  <1>7. SocketStaysOpen'
    BY <1>0, <1>2, <1>3 DEF UInv, SocketStaysOpen, At, Client
  <1>8. \A u \in Tasks : At(u, "insert")' => At(u, "insert") /\ task'[u] = task[u]
    BY <1>2, <1>3 DEF At
  <1>9. PortsOK'
    BY <1>0, <1>8 DEF UInv, PortsOK
  <1>10. NetOK'
    BY <1>0 DEF UInv, NetOK
  <1> QED BY <1>4, <1>5, <1>6, <1>7, <1>9, <1>10 DEF UInv

(* The cleanup waits for its turn, *)
LEMMA TicksStep == ASSUME UInv, CleanupTicks PROVE UInv'
  <1>0. /\ Cleaner \in Actor /\ LockOK /\ Then(Cleaner, "write")
        /\ task' = task /\ sessions' = sessions /\ net' = net
        /\ Cleaner \notin Tasks
    BY UdpAssumption DEF CleanupTicks, Actor, UInv
  <1>1. /\ LockOK'
        /\ \A i \in 1..Len(lock') :
              \/ lock'[i] = Request(Cleaner, "write")
              \/ /\ lock'[i].who # Cleaner
                 /\ \E j \in 1..Len(lock) : lock'[i] = lock[j]
        /\ \A u : u # Cleaner /\ Reads(lock, u) => Reads(lock', u)
    BY <1>0, LockMoves
  <1>2. Request(Cleaner, "write").who = Cleaner
        /\ Request(Cleaner, "write").mode = "write"
    BY DEF Request
  <1>3. ModesOK' /\ GuardHeld'
    BY <1>0, <1>1, <1>2 DEF UInv, ModesOK, GuardHeld, At
  <1>4. TypeOK'
    BY <1>0, <1>1, LineTyped DEF TypeOK, LockOK, UInv
  <1>5. SocketStaysOpen' /\ PortsOK' /\ NetOK'
    BY <1>0 DEF UInv, SocketStaysOpen, PortsOK, NetOK, At, Client
  <1> QED BY <1>1, <1>3, <1>4, <1>5 DEF UInv

(* and then closes the sockets of idle sessions, on which nobody waits. *)
LEMMA CleansUpStep == ASSUME UInv, CleansUp PROVE UInv'
  <1>0. /\ Cleaner \in Actor /\ LockOK /\ Leave(Cleaner) /\ Holds(Cleaner)
        /\ task' = task /\ Cleaner \notin Tasks
        /\ "write" \in {"read", "write"}
    BY UdpAssumption DEF CleansUp, Actor, UInv
  <1>1. \A u \in Tasks : ~At(u, "recv")
    BY <1>0, WriterAlone
  <1>2. /\ LockOK'
        /\ \A i \in 1..Len(lock') :
              \/ lock'[i] = Request(Cleaner, "write")
              \/ /\ lock'[i].who # Cleaner
                 /\ \E j \in 1..Len(lock) : lock'[i] = lock[j]
    BY <1>0, LockMoves
  <1>3. Request(Cleaner, "write").who = Cleaner
        /\ Request(Cleaner, "write").mode = "write"
    BY DEF Request
  <1>4. ModesOK'
    BY <1>0, <1>2, <1>3 DEF UInv, ModesOK
  <1>5. GuardHeld' /\ SocketStaysOpen'
    BY <1>0, <1>1 DEF GuardHeld, SocketStaysOpen, At
  <1>6. /\ DOMAIN sessions' = DOMAIN sessions \ Stale
        /\ \A c \in DOMAIN sessions' : sessions'[c] = sessions[c]
        /\ net' = Closing({sessions[c].port : c \in Stale})
    BY DEF CleansUp, Drop
  <1>7. TypeOK'
    BY <1>0, <1>2, <1>6, LineTyped, ClosingMarks DEF TypeOK, LockOK, UInv
  <1>8. PortsOK'
    BY <1>0, <1>6 DEF UInv, PortsOK, At
  <1>9. NetOK'
    <2> SUFFICES ASSUME NEW a \in net', ~a.late
                 PROVE  a.client \in DOMAIN sessions'
                        /\ sessions'[a.client].port = a.port
      BY DEF NetOK
    <2>0. a \in net /\ a.port \notin {sessions[c].port : c \in Stale}
      BY <1>6, ClosingMarks DEF UInv, TypeOK
    <2>1. a.client \in DOMAIN sessions /\ sessions[a.client].port = a.port
      BY <2>0 DEF UInv, NetOK
    <2>2. a.client \notin Stale
      BY <2>0, <2>1
    <2> QED BY <1>6, <2>1, <2>2
  <1> QED BY <1>2, <1>4, <1>5, <1>7, <1>8, <1>9 DEF UInv

(* A session that gets old keeps its socket, and an answer may be lost. *)
LEMMA OutsideStep ==
  ASSUME UInv, (\E c \in Clients : GetsStale(c)) \/ (\E a \in net : Loses(a))
  PROVE  UInv'
  <1>1. /\ task' = task /\ lock' = lock /\ net' \subseteq net
        /\ DOMAIN sessions' = DOMAIN sessions
        /\ \A c \in DOMAIN sessions : /\ sessions'[c] \in Session
                                      /\ sessions'[c].port = sessions[c].port
    <2>1. \A c \in DOMAIN sessions : sessions[c] \in Session
      BY DEF UInv, TypeOK
    <2> QED BY <2>1 DEF GetsStale, Loses, Session
  <1>2. TypeOK' /\ LockOK' /\ ModesOK' /\ GuardHeld'
    BY <1>1 DEF UInv, TypeOK, LockOK, ModesOK, GuardHeld, At
  <1>3. SocketStaysOpen' /\ NetOK'
    BY <1>1 DEF UInv, SocketStaysOpen, NetOK, At, Client
  <1>4. PortsOK'
    BY <1>1 DEF UInv, PortsOK, At
  <1> QED BY <1>2, <1>3, <1>4 DEF UInv

-----------------------------------------------------------------------------
(* The invariant holds when the relay starts. *)
LEMMA InitUInv == Init => UInv
  <1> SUFFICES ASSUME Init PROVE UInv
    OBVIOUS
  <1>1. /\ task = [t \in Tasks |-> IdleTask] /\ lock = <<>> /\ net = {}
        /\ DOMAIN sessions = {} /\ Len(lock) = 0
    BY DEF Init, EmptyMap
  <1>2. TypeOK
    BY <1>1, IdleTyped DEF TypeOK
  <1>3. LockOK
    BY <1>1 DEF LockOK, Line, Unique
  <1>4. ModesOK
    BY <1>1 DEF ModesOK
  <1>5. \A t \in Tasks : task[t].pc = "idle"
    BY <1>1, IdleTyped
  <1>6. GuardHeld /\ SocketStaysOpen /\ PortsOK /\ NetOK
    BY <1>1, <1>5 DEF GuardHeld, SocketStaysOpen, PortsOK, NetOK, At
  <1> QED BY <1>2, <1>3, <1>4, <1>6 DEF UInv

(* Every step of every task preserves it. *)
LEMMA NextUInv == UInv /\ [Next]_vars => UInv'
  <1> SUFFICES ASSUME UInv, [Next]_vars PROVE UInv'
    OBVIOUS
  <1>1. ASSUME NEW t \in Tasks, Runs(t) \/ \E c \in Clients : Accept(t, c)
        PROVE  UInv'
    BY <1>1, PlainSteps, BindsStep, InsertsStep, SendsStep DEF Runs
  <1>2. CASE UNCHANGED vars
    BY <1>2 DEF vars, UInv, TypeOK, LockOK, ModesOK, GuardHeld,
                SocketStaysOpen, PortsOK, NetOK, At, Client
  <1> QED
    BY <1>1, <1>2, TicksStep, CleansUpStep, OutsideStep DEF Next

(* So it holds in every reachable state. *)
LEMMA UdpInvariant == Spec => []UInv
  BY InitUInv, NextUInv, PTL DEF Spec

(* Tasks, sessions, the line at the lock and the answers on their way have
   their types, for any number of permits, clients and ports.               *)
THEOREM UdpTypeCorrect == Spec => []TypeOK
  <1>1. UInv => TypeOK
    BY DEF UInv
  <1> QED BY <1>1, UdpInvariant, PTL

(* Nobody closes a socket on which a task awaits an answer: the read guard
   that the task keeps through the await shuts out the cleanup and every
   task that would replace the session.                                     *)
THEOREM SocketsStayOpen == Spec => []SocketStaysOpen
  <1>1. UInv => SocketStaysOpen
    BY DEF UInv
  <1> QED BY <1>1, UdpInvariant, PTL

(* An answer goes to the client that asked, also when it is one to an earlier
   query of the client: no two sessions have one port at a time, and an
   answer to a socket which is still open belongs to the session of that
   socket.  Only an answer that has outlived its socket, whose port may have
   been given to another client's socket since, can go astray.              *)
THEOREM AnswersReachAsker == Spec => []AnswersToAsker
  <1>1. UInv => AnswersToAsker
    <2> SUFFICES ASSUME UInv, NEW t \in Tasks, NEW a \in net,
                        At(t, "recv"), a.port = task[t].port,
                        ~a.late
                 PROVE  a.client = Client(t)
      BY DEF AnswersToAsker
    <2>1. /\ Client(t) \in DOMAIN sessions
          /\ sessions[Client(t)].port = task[t].port
      BY DEF UInv, SocketStaysOpen
    <2>2. a.client \in DOMAIN sessions /\ sessions[a.client].port = a.port
      BY DEF UInv, NetOK
    <2> QED BY <2>1, <2>2 DEF UInv, PortsOK
  <1> QED BY <1>1, UdpInvariant, PTL
-----------------------------------------------------------------------------
(***************************************************************************)
(* The warm pool.                                                          *)
(***************************************************************************)
(* A sequence of at most max_per_proxy streams. *)
IsQueue(q) == \E n \in 0..MaxPerProxy : q = [i \in 1..n |-> q[i]]

(* A set of at most max_proxies keys. *)
Fits(T) == T \subseteq Keys /\ IsFiniteSet(T) /\ Cardinality(T) <= MaxProxies

WMapOK ==
  /\ Fits(DOMAIN queues)
  /\ \A k \in DOMAIN queues : IsQueue(queues[k])

WTakeOK ==
  /\ taking \in [Takers -> Keys \cup {NoKey}]
  /\ WaitersTracked

(* The keys of the list. *)
Listed == {top[i] : i \in 1..Len(top)}

WStageOK ==
  /\ stage \in {"sleep", "retain", "entry", "lock", "fill"}
  /\ top \in Seq(Keys) /\ swept \subseteq Shards

(* What is left of the old top is in shards that retain has not come to. *)
WRetainOK ==
  stage = "retain" => Fits(Listed) /\ DOMAIN queues \subseteq Listed \cup UNION swept

(* Later the keys in the map and those that may still be added come from one
   list.  The list loses its keys one after the other, the map does not.    *)
WFillOK ==
  stage \in {"entry", "lock", "fill"} =>
    /\ top # <<>>
    /\ \E T : Fits(T) /\ DOMAIN queues \cup Listed \subseteq T

WHeadOK == stage \in {"lock", "fill"} => Head(top) \in DOMAIN queues

WInv == WMapOK /\ WTakeOK /\ WStageOK /\ WRetainOK /\ WFillOK /\ WHeadOK

-----------------------------------------------------------------------------
(* A set of natural numbers has a least one. *)
LEMMA LeastNumber ==
  ASSUME NEW S, S \subseteq Nat, S # {}
  PROVE  \E i \in S : \A j \in S : i <= j
  <1>1. PICK i \in S : \A j \in S : ~(<<j, i>> \in OpToRel(<, Nat))
    BY WFMin, NatLessThanWellFounded
  <1>2. ASSUME NEW j \in S PROVE i <= j
    <2>1. i \in Nat /\ j \in Nat
      OBVIOUS
    <2>2. ~(<<j, i>> \in OpToRel(<, Nat))
      BY <1>1
    <2>3. <<j, i>> \in OpToRel(<, Nat) <=> j < i
      BY <2>1 DEF OpToRel
    <2>4. ~(j < i)
      BY <2>2, <2>3, Zenon
    <2> QED BY <2>1, <2>4
  <1> QED BY <1>2

(* A queue is a sequence in the sense of Len. *)
LEMMA QueueLen ==
  ASSUME NEW n \in Nat, NEW q, q = [i \in 1..n |-> q[i]]
  PROVE  Len(q) = n /\ q \in Seq({q[i] : i \in 1..n}) /\ DOMAIN q = 1..n
  <1>1. q \in [1..n -> {q[i] : i \in 1..n}]
    OBVIOUS
  <1> QED BY <1>1

(* It has its length within the limit. *)
LEMMA QueueBound ==
  ASSUME MaxPerProxy \in Nat, NEW q, IsQueue(q)
  PROVE  Len(q) \in 0..MaxPerProxy /\ q = [i \in 1..Len(q) |-> q[i]]
  BY QueueLen DEF IsQueue

(* The keys of a list that top_stable_proxies may give. *)
LEMMA ListFits ==
  ASSUME MaxProxies \in Nat, NEW t \in Tops
  PROVE  t \in Seq(Keys) /\ Fits({t[i] : i \in 1..Len(t)})
  <1>1. PICK m \in 0..MaxProxies : t \in [1..m -> Keys]
    BY DEF Tops, SeqOf
  <1>2. t \in Seq(Keys) /\ Len(t) = m /\ m \in Nat
    BY <1>1
  <1> DEFINE T == {t[i] : i \in 1..m}
  <1>3. t \in Surjection(1..m, T)
    BY <1>1 DEF Surjection
  <1>4. IsFiniteSet(1..m) /\ Cardinality(1..m) = m
    BY <1>2, FS_Interval
  <1>5. IsFiniteSet(T) /\ Cardinality(T) <= m /\ Cardinality(T) \in Nat
    BY <1>3, <1>4, FS_Surjection, FS_CardinalityType
  <1> QED BY <1>1, <1>2, <1>5 DEF Fits

(* A part of a set that fits, fits. *)
LEMMA PartFits ==
  ASSUME MaxProxies \in Nat, NEW T, Fits(T), NEW U, U \subseteq T
  PROVE  Fits(U)
  <1>1. IsFiniteSet(U) /\ Cardinality(U) <= Cardinality(T)
    BY FS_Subset DEF Fits
  <1>2. Cardinality(U) \in Nat /\ Cardinality(T) \in Nat
    BY <1>1, FS_CardinalityType DEF Fits
  <1> QED BY <1>1, <1>2 DEF Fits

(* The pops of take leave a queue, *)
LEMMA TakeQueue ==
  ASSUME MaxPerProxy \in Nat, NEW q, IsQueue(q)
  PROVE  IsQueue(AfterTake(q))
  <1>1. PICK n \in 0..MaxPerProxy : q = [i \in 1..n |-> q[i]]
    BY DEF IsQueue
  <1>2. n \in Nat /\ Len(q) = n /\ DOMAIN q = 1..n /\ q \in Seq({q[i] : i \in 1..n})
    BY <1>1, QueueLen
  <1> DEFINE usable == {i \in DOMAIN q : Usable(q[i])}
             first == CHOOSE i \in usable : \A j \in usable : i <= j
  <1>3. CASE usable = {}
    <2>1. AfterTake(q) = <<>>
      BY <1>3 DEF AfterTake
    <2> DEFINE r == AfterTake(q)
    <2>2. r \in [1..0 -> {}]
      BY <2>1
    <2>3. r = [i \in 1..0 |-> r[i]] /\ 0 \in 0..MaxPerProxy
      BY <2>2
    <2> HIDE DEF r
    <2>4. IsQueue(r)
      BY <2>3 DEF IsQueue
    <2> QED BY <2>4 DEF r
  <1>4. CASE usable # {}
    <2>1. first \in usable
      <3>1. usable \subseteq Nat
        BY <1>2
      <3>2. \E i \in usable : \A j \in usable : i <= j
        BY <1>4, <3>1, LeastNumber
      <3> QED BY <3>2
    <2>2. first \in 1..n
      BY <1>2, <2>1
    <2>3. AfterTake(q) = SubSeq(q, 1 + first, Len(q))
      BY <1>4 DEF AfterTake
    <2> HIDE DEF first
    <2> DEFINE r == SubSeq(q, 1 + first, Len(q))
    <2>4. r \in Seq({q[i] : i \in 1..n}) /\ Len(r) = n - first
      BY <1>2, <2>2
    <2>5. r = [i \in 1..(n - first) |-> r[i]]
      BY <2>4
    <2>6. n - first \in 0..MaxPerProxy
      BY <2>2
    <2> HIDE DEF r
    <2>7. IsQueue(r)
      BY <2>5, <2>6 DEF IsQueue
    <2> QED BY <2>3, <2>7 DEF r
  <1> QED BY <1>3, <1>4

(* and so does the retain of the eviction. *)
LEMMA YoungQueue ==
  ASSUME MaxPerProxy \in Nat, NEW q, IsQueue(q)
  PROVE  IsQueue(Young(q))
  <1>1. Len(q) \in 0..MaxPerProxy /\ Len(q) \in Nat
    BY QueueBound
  <1> DEFINE kept == {i \in 1..Len(q) : q[i].age < MaxAge}
             c == Cardinality(kept)
  <1>2. IsFiniteSet(1..Len(q)) /\ Cardinality(1..Len(q)) = Len(q)
    <2> DEFINE n == Len(q)
    <2>1. n \in Int /\ n >= 0
      BY <1>1
    <2> HIDE DEF n
    <2>2. IsFiniteSet(1..n) /\ Cardinality(1..n) = n
      BY <2>1, FS_Interval
    <2> QED BY <2>2 DEF n
  <1>3. c \in Nat /\ c <= Len(q)
    <2>1. kept \in SUBSET (1..Len(q))
      OBVIOUS
    <2> HIDE DEF kept
    <2> QED BY <1>2, <2>1, FS_Subset, FS_CardinalityType
  <1>4. c \in 0..MaxPerProxy
    BY <1>1, <1>3
  <1> DEFINE r == Young(q)
  <1>5. r = [n \in 1..c |-> r[n]]
    BY DEF Young
  <1> HIDE DEF c, r
  <1> QED BY <1>4, <1>5 DEF IsQueue, r
-----------------------------------------------------------------------------
(* Nothing is in the map. *)
LEMMA WInitInv ==
  ASSUME WarmInit
  PROVE  WInv
  <1>1. queues = EmptyMap /\ DOMAIN queues = {}
    BY DEF WarmInit, EmptyMap
  <1>2. Fits({})
    BY FS_EmptySet, WarmPoolAssumption DEF Fits
  <1>3. taking = [c \in Takers |-> NoKey] /\ stage = "sleep" /\ top = <<>> /\ swept = {}
    BY DEF WarmInit
  <1> QED
    BY <1>1, <1>2, <1>3
    DEF WInv, WMapOK, WTakeOK, WStageOK, WRetainOK, WFillOK, WHeadOK,
        WaitersTracked

(* What take, the eviction, the filling, time and the proxies do to one queue
   or to each of them leaves the keys of the map alone.                     *)
LEMMA WQueuesInv ==
  ASSUME WInv, DOMAIN queues' = DOMAIN queues,
         \A k \in DOMAIN queues : IsQueue(queues'[k]),
         WTakeOK',
         UNCHANGED <<top, swept>>,
         stage' = stage \/ (stage = "lock" /\ stage' = "fill")
  PROVE  WInv'
  <1>1. Listed' = Listed
    BY DEF Listed
  <1> QED
    BY <1>1 DEF WInv, WMapOK, WStageOK, WRetainOK, WFillOK, WHeadOK, Fits, IsQueue

(* A client comes only for a key that is there, *)
LEMMA WTakeGetsInv ==
  ASSUME WInv, NEW c \in Takers, NEW k \in Keys, TakeGets(c, k)
  PROVE  WInv'
  <1>1. taking' = [taking EXCEPT ![c] = k] /\ k \in DOMAIN queues
        /\ UNCHANGED <<queues, stage, top, swept>>
    BY DEF TakeGets
  <1>2. WTakeOK'
    BY <1>1 DEF WInv, WTakeOK, WaitersTracked
  <1> QED BY <1>1, <1>2, WQueuesInv DEF WInv, WMapOK

(* and what it takes leaves a shorter queue. *)
LEMMA WTakePopsInv ==
  ASSUME WInv, NEW c \in Takers, TakePops(c)
  PROVE  WInv'
  <1> DEFINE k == taking[c]
  <1>1. /\ k # NoKey /\ taking' = [taking EXCEPT ![c] = NoKey]
        /\ queues' = [queues EXCEPT ![k] = AfterTake(@)]
        /\ UNCHANGED <<stage, top, swept>>
    BY DEF TakePops
  <1>2. k \in DOMAIN queues
    BY <1>1 DEF WInv, WTakeOK, WaitersTracked
  <1>3. IsQueue(AfterTake(queues[k]))
    BY <1>2, TakeQueue, WarmPoolAssumption DEF WInv, WMapOK
  <1>4. DOMAIN queues' = DOMAIN queues
        /\ \A x \in DOMAIN queues :
             queues'[x] = IF x = k THEN AfterTake(queues[k]) ELSE queues[x]
    BY <1>1
  <1>5. WTakeOK'
    BY <1>1, <1>4 DEF WInv, WTakeOK, WaitersTracked
  <1> HIDE DEF k
  <1>6. \A x \in DOMAIN queues : IsQueue(queues'[x])
    BY <1>3, <1>4 DEF WInv, WMapOK
  <1> QED BY <1>1, <1>4, <1>5, <1>6, WQueuesInv

(* A new list of at most max_proxies keys. *)
LEMMA WTickInv ==
  ASSUME WInv, NEW t \in Tops, Tick(t)
  PROVE  WInv'
  <1>1. top' = t /\ swept' = Shards /\ stage' = "retain"
        /\ UNCHANGED <<queues, line, taking>>
    BY DEF Tick
  <1>2. t \in Seq(Keys) /\ Fits({t[i] : i \in 1..Len(t)})
    BY ListFits, WarmPoolAssumption
  <1>3. Fits(Listed')
    BY <1>1, <1>2 DEF Listed
  <1>4. DOMAIN queues' \subseteq UNION Shards
    BY <1>1, WarmPoolAssumption DEF WInv, WMapOK, Fits
  <1>5. WTakeOK' /\ WMapOK'
    BY <1>1 DEF WInv, WTakeOK, WMapOK, WaitersTracked, Fits, IsQueue
  <1> QED
    BY <1>1, <1>2, <1>3, <1>4, <1>5
    DEF WInv, WStageOK, WRetainOK, WFillOK, WHeadOK, Fits

(* retain throws away no queue that a client waits for: it holds the guard. *)
LEMMA WRetainInv ==
  ASSUME WInv, Retain
  PROVE  WInv'
  <1> DEFINE s == NextShard
  <1>1. /\ stage = "retain" /\ ~Guarded(s)
        /\ queues' = Drop(queues, s \ Range(top))
        /\ swept' = swept \ {s}
        /\ UNCHANGED <<line, taking, top>>
        /\ stage' = IF swept' # {} THEN "retain"
                    ELSE IF top = <<>> THEN "sleep" ELSE "entry"
    BY DEF Retain
  <1> HIDE DEF s
  <1>2. top \in Seq(Keys) /\ DOMAIN top = 1..Len(top)
    BY DEF WInv, WStageOK
  <1>3. Range(top) = Listed /\ Listed' = Listed
    BY <1>1, <1>2 DEF Range, Listed
  <1>4. /\ DOMAIN queues' = DOMAIN queues \ (s \ Listed)
        /\ \A k \in DOMAIN queues' : queues'[k] = queues[k]
    BY <1>1, <1>3 DEF Drop
  <1>5. Fits(Listed) /\ DOMAIN queues \subseteq Listed \cup UNION swept
    BY <1>1 DEF WInv, WRetainOK
  <1>6. DOMAIN queues' \subseteq Listed \cup UNION swept'
    BY <1>1, <1>4, <1>5
  <1>7. WMapOK'
    <2>1. Fits(DOMAIN queues')
      BY <1>4, PartFits, WarmPoolAssumption DEF WInv, WMapOK
    <2>2. \A k \in DOMAIN queues' : IsQueue(queues'[k])
      BY <1>4 DEF WInv, WMapOK
    <2> QED BY <2>1, <2>2 DEF WMapOK, Fits, IsQueue
  <1>8. WTakeOK'
    BY <1>1, <1>4 DEF WInv, WTakeOK, WaitersTracked, Guarded
  <1>9. WStageOK'
    BY <1>1 DEF WInv, WStageOK
  <1>10. WRetainOK'
    BY <1>3, <1>5, <1>6 DEF WRetainOK, Fits
  <1>11. WFillOK'
    <2>1. stage' = "entry" => top # <<>> /\ DOMAIN queues' \subseteq Listed
      BY <1>1, <1>6
    <2>2. stage' \notin {"lock", "fill"}
      BY <1>1
    <2> QED BY <1>1, <1>3, <1>5, <2>1, <2>2 DEF WFillOK, Fits
  <1>12. WHeadOK'
    BY <1>1 DEF WHeadOK
  <1> QED BY <1>7, <1>8, <1>9, <1>10, <1>11, <1>12 DEF WInv
(* A key of the list comes into the map. *)
LEMMA WEntryInv ==
  ASSUME WInv, Entry
  PROVE  WInv'
  <1> DEFINE k == Head(top)
  <1>1. /\ stage = "entry" /\ stage' = "lock"
        /\ queues' = IF k \in DOMAIN queues THEN queues ELSE Put(queues, k, <<>>)
        /\ UNCHANGED <<taking, top, swept>>
    BY DEF Entry
  <1>2. PICK T : Fits(T) /\ DOMAIN queues \cup Listed \subseteq T
    BY <1>1 DEF WInv, WFillOK
  <1>3. top \in Seq(Keys) /\ top # <<>>
    BY <1>1 DEF WInv, WFillOK, WStageOK
  <1>4. k \in Listed /\ Listed' = Listed
    BY <1>1, <1>3 DEF Listed
  <1> HIDE DEF k
  <1>5. /\ DOMAIN queues' = DOMAIN queues \cup {k}
        /\ \A x \in DOMAIN queues : queues'[x] = queues[x]
        /\ k \notin DOMAIN queues => queues'[k] = <<>>
    BY <1>1 DEF Put
  <1>6. IsQueue(<<>>)
    <2> DEFINE r == <<>>
    <2>1. r \in [1..0 -> {}]
      OBVIOUS
    <2>2. r = [i \in 1..0 |-> r[i]] /\ 0 \in 0..MaxPerProxy
      BY <2>1, WarmPoolAssumption
    <2> HIDE DEF r
    <2>3. IsQueue(r)
      BY <2>2 DEF IsQueue
    <2> QED BY <2>3 DEF r
  <1>7. DOMAIN queues' \cup Listed' \subseteq T
    BY <1>2, <1>4, <1>5
  <1>8. WMapOK'
    <2>1. Fits(DOMAIN queues')
      BY <1>2, <1>7, PartFits, WarmPoolAssumption
    <2>2. \A x \in DOMAIN queues' : IsQueue(queues'[x])
      BY <1>5, <1>6 DEF WInv, WMapOK
    <2> QED BY <2>1, <2>2 DEF WMapOK, Fits, IsQueue
  <1>9. WTakeOK'
    BY <1>1, <1>5 DEF WInv, WTakeOK, WaitersTracked
  <1>10. WFillOK'
    BY <1>1, <1>2, <1>3, <1>7 DEF WFillOK, Fits
  <1>11. WHeadOK'
    BY <1>1, <1>5 DEF WHeadOK, k
  <1> QED
    BY <1>1, <1>8, <1>9, <1>10, <1>11 DEF WInv, WStageOK, WRetainOK

(* The eviction and the filling work on the queue of the first key. *)
LEMMA WFillsInv ==
  ASSUME WInv, Evict \/ Connects
  PROVE  WInv'
  <1> DEFINE k == Head(top)
             new == [age |-> 0, alive |-> TRUE]
  <1>1. /\ stage \in {"lock", "fill"} /\ k \in DOMAIN queues
        /\ UNCHANGED <<taking, top, swept>>
        /\ stage' = stage \/ (stage = "lock" /\ stage' = "fill")
    BY DEF Evict, Connects, WInv, WHeadOK
  <1> DEFINE q == queues[k]
  <1>2. IsQueue(q) /\ MaxPerProxy \in Nat
    BY <1>1, WarmPoolAssumption DEF WInv, WMapOK
  <1>3. PICK r : queues' = [queues EXCEPT ![k] = r] /\ IsQueue(r)
    <2>1. CASE Evict
      BY <1>2, <2>1, YoungQueue DEF Evict
    <2>2. CASE Connects
      <3>1. queues' = [queues EXCEPT ![k] = Append(q, new)] /\ Len(q) < MaxPerProxy
        BY <1>1, <2>2 DEF Connects
      <3> HIDE DEF k, q, new
      <3>2. Len(q) \in 0..MaxPerProxy /\ q = [i \in 1..Len(q) |-> q[i]]
        BY <1>2, QueueBound
      <3> DEFINE S == {q[i] : i \in 1..Len(q)} \cup {new}
                 r == Append(q, new)
      <3>3. q \in Seq(S)
        <4>1. q \in [1..Len(q) -> S]
          BY <3>2
        <4> QED BY <3>2, <4>1
      <3>4. r \in Seq(S) /\ Len(r) = Len(q) + 1
        BY <3>3
      <3> HIDE DEF r, S
      <3>5. r = [i \in 1..(Len(q) + 1) |-> r[i]]
        BY <3>4
      <3>6. Len(q) + 1 \in 0..MaxPerProxy
        BY <1>2, <3>1, <3>2
      <3>7. IsQueue(r)
        BY <3>5, <3>6 DEF IsQueue
      <3> QED BY <3>1, <3>7 DEF r
    <2> QED BY <2>1, <2>2
  <1> HIDE DEF k
  <1>4. /\ DOMAIN queues' = DOMAIN queues
        /\ \A x \in DOMAIN queues : IsQueue(queues'[x])
    BY <1>3 DEF WInv, WMapOK
  <1>5. WTakeOK'
    BY <1>1, <1>4 DEF WInv, WTakeOK, WaitersTracked
  <1> QED BY <1>1, <1>4, <1>5, WQueuesInv

(* The refresh goes on to the next key of the list. *)
LEMMA WFillEndsInv ==
  ASSUME WInv, FillEnds
  PROVE  WInv'
  <1>1. /\ stage = "fill" /\ top' = Tail(top)
        /\ stage' = IF Len(top) = 1 THEN "sleep" ELSE "entry"
        /\ UNCHANGED <<queues, taking, swept>>
    BY DEF FillEnds
  <1>2. top \in Seq(Keys) /\ top # <<>>
    BY <1>1 DEF WInv, WFillOK, WStageOK
  <1>3. /\ top' \in Seq(Keys) /\ Len(top') = Len(top) - 1
        /\ \A i \in 1..Len(top') : top'[i] = top[i + 1] /\ i + 1 \in 1..Len(top)
    BY <1>1, <1>2
  <1>4. Listed' \subseteq Listed
    BY <1>3 DEF Listed
  <1>5. stage' = "entry" => top' # <<>>
    <2>1. Len(top) # 1 => Len(top') # 0
      BY <1>2, <1>3
    <2>2. Len(<<>>) = 0
      OBVIOUS
    <2> QED BY <1>1, <2>1, <2>2
  <1>6. WMapOK' /\ WTakeOK' /\ WStageOK'
    BY <1>1, <1>3
    DEF WInv, WMapOK, WTakeOK, WStageOK, WaitersTracked, Fits, IsQueue
  <1>7. WFillOK'
    BY <1>1, <1>4, <1>5 DEF WInv, WFillOK, Fits
  <1> QED BY <1>1, <1>6, <1>7 DEF WInv, WRetainOK, WHeadOK

(* Time, proxies that close, the thread given back, and nothing at all. *)
LEMMA WOutsideInv ==
  ASSUME WInv,
         \/ Ages \/ Yields
         \/ \E k \in DOMAIN queues : \E i \in DOMAIN queues[k] : Closes(k, i)
         \/ UNCHANGED warmVars
  PROVE  WInv'
  <1>1. UNCHANGED <<taking, stage, top, swept>>
    BY DEF Ages, Yields, Closes, warmVars
  <1>2. /\ DOMAIN queues' = DOMAIN queues
        /\ \A k \in DOMAIN queues : IsQueue(queues'[k])
    <2>1. CASE Ages
      <3> DEFINE older(q) == [i \in DOMAIN q |->
                    [q[i] EXCEPT !.age = IF @ < MaxAge THEN @ + 1 ELSE @]]
      <3>1. queues' = [k \in DOMAIN queues |-> older(queues[k])]
        BY <2>1 DEF Ages
      <3>2. ASSUME NEW q, IsQueue(q) PROVE IsQueue(older(q))
        <4>1. PICK n \in 0..MaxPerProxy : q = [i \in 1..n |-> q[i]]
          BY <3>2 DEF IsQueue
        <4>2. DOMAIN q = 1..n
          BY <4>1
        <4> DEFINE r == older(q)
        <4>3. r = [i \in 1..n |-> r[i]]
          BY <4>2
        <4> HIDE DEF r
        <4>4. IsQueue(r)
          BY <4>3 DEF IsQueue
        <4> QED BY <4>4 DEF r
      <3> HIDE DEF older
      <3> QED BY <3>1, <3>2 DEF WInv, WMapOK
    <2>2. ASSUME NEW k \in DOMAIN queues, NEW i \in DOMAIN queues[k], Closes(k, i)
          PROVE  /\ DOMAIN queues' = DOMAIN queues
                 /\ \A x \in DOMAIN queues : IsQueue(queues'[x])
      <3> DEFINE q == queues[k]
                 r == [q EXCEPT ![i] = [@ EXCEPT !.alive = FALSE]]
      <3>1. queues' = [queues EXCEPT ![k] = r]
        BY <2>2 DEF Closes
      <3>2. PICK n \in 0..MaxPerProxy : q = [j \in 1..n |-> q[j]]
        BY DEF WInv, WMapOK, IsQueue
      <3>3. DOMAIN q = 1..n
        BY <3>2
      <3>4. r = [j \in 1..n |-> r[j]]
        BY <3>3
      <3> HIDE DEF r
      <3>5. IsQueue(r)
        BY <3>4 DEF IsQueue
      <3> QED BY <3>1, <3>5 DEF WInv, WMapOK
    <2>3. CASE Yields \/ UNCHANGED warmVars
      BY <2>3 DEF Yields, warmVars, WInv, WMapOK
    <2> QED BY <2>1, <2>2, <2>3
  <1>3. WTakeOK'
    BY <1>1, <1>2 DEF WInv, WTakeOK, WaitersTracked
  <1> QED BY <1>1, <1>2, <1>3, WQueuesInv

(* The invariant of the warm pool. *)
LEMMA WAlwaysInv ==
  WarmSpec => []WInv
  <1>1. WarmInit => WInv
    BY WInitInv
  <1>2. ASSUME WInv, WarmNext PROVE WInv'
    BY <1>2, WTakeGetsInv, WTakePopsInv, WTickInv, WRetainInv, WEntryInv,
       WFillsInv, WFillEndsInv, WOutsideInv DEF WarmNext
  <1>3. WInv /\ [WarmNext]_warmVars => WInv'
    BY <1>2, WOutsideInv
  <1> QED BY <1>1, <1>3, PTL DEF WarmSpec

(* The gateway never keeps warm connections to more than max_proxies proxies,
   nor more than max_per_proxy to one of them, although take, retain and the
   filling of refresh meet in every order: for all limits, any proxies and
   shards of the map, and any number of clients.                           *)
THEOREM WarmPoolBounded ==
  WarmSpec => []Bounded
  <1>1. WInv => Bounded
    <2> SUFFICES ASSUME WInv PROVE Bounded
      OBVIOUS
    <2>1. MaxPerProxy \in Nat
      BY WarmPoolAssumption
    <2>2. Cardinality(DOMAIN queues) <= MaxProxies
      BY DEF WInv, WMapOK, Fits
    <2>3. \A k \in DOMAIN queues : Len(queues[k]) <= MaxPerProxy
      BY <2>1, QueueBound DEF WInv, WMapOK
    <2> QED BY <2>2, <2>3 DEF Bounded
  <1> QED BY <1>1, WAlwaysInv, PTL

(* retain never throws away the queue for whose mutex a client waits in take,
   because of the guard on the shard that take keeps meanwhile: for any shards
   and any number of clients.                                               *)
THEOREM WaitersStayTracked ==
  WarmSpec => []WaitersTracked
  <1>1. WInv => WaitersTracked
    BY DEF WInv, WTakeOK
  <1> QED BY <1>1, WAlwaysInv, PTL
=============================================================================
