------------------------------ MODULE UdpRelay ------------------------------
(***************************************************************************)
(* The UDP relay (src/src/proxy/udp.rs): start, handle_udp_packet and      *)
(* cleanup_sessions.  One task per packet; the tasks share the session     *)
(* table behind a tokio RwLock and, for one client, the upstream socket.   *)
(***************************************************************************)
EXTENDS DashMap, Naturals, Sequences, FiniteSets

CONSTANTS
  Tasks,    \* permits of the semaphore (MAX_UDP_TASKS)
  Clients,  \* client addresses
  Ports,    \* local ports of upstream sockets
  MaxNet,   \* bound on the answers that are on their way
  Cleaner,  \* the cleanup task
  NoPort

ASSUME UdpAssumption ==
  /\ Cleaner \notin Tasks /\ NoPort \notin Ports /\ Clients # {}
  /\ MaxNet \in Nat

VARIABLES
  task,      \* the task of each permit, see TaskRecord
  sessions,  \* client -> [port, stale]
  lock,      \* the RwLock: who holds it and who waits for it, in order
  net        \* answers on their way, see Answer

vars == <<task, sessions, lock, net>>

(* Where handle_udp_packet is:
     idle   no packet              check   at the first read()
     bind   in UdpSocket::bind     insert  at write(), with a new socket
     send   at the second read()   recv    waiting for an answer, with guard
     touch  at the last write()
   port: the socket that the task has bound or is using.                   *)
TaskRecord ==
  [pc : {"idle", "check", "bind", "insert", "send", "recv", "touch"},
   client : Clients, port : Ports \cup {NoPort}]

Session == [port : Ports, stale : BOOLEAN]

(* An answer to the query of a client that was sent from a port; late if the
   socket that sent it is closed.  Several alike are one member.            *)
Answer == [port : Ports, client : Clients, late : BOOLEAN]

SomeClient == CHOOSE c \in Clients : TRUE
IdleTask == [pc |-> "idle", client |-> SomeClient, port |-> NoPort]

At(t, stage) == task[t].pc = stage
Client(t) == task[t].client

Init ==
  /\ task = [t \in Tasks |-> IdleTask]
  /\ sessions = EmptyMap
  /\ lock = <<>>
  /\ net = {}

-----------------------------------------------------------------------------
(* tokio's RwLock is first come, first served: readers share it up to the
   first writer in the line.                                               *)
Request(who, mode) == [who |-> who, mode |-> mode]

Holds(who) ==
  \E i \in 1..Len(lock) :
    /\ lock[i].who = who
    /\ IF lock[i].mode = "write" THEN i = 1
       ELSE \A j \in 1..i : lock[j].mode = "read"

(* A line without who, who is in it at most once. *)
Without(line, who) ==
  LET places == {i \in 1..Len(line) : line[i].who = who}
      place  == CHOOSE i \in places : TRUE
  IN  IF places = {} THEN line
      ELSE [j \in 1..(Len(line) - 1) |->
              IF j < place THEN line[j] ELSE line[j + 1]]

Released(who) == Without(lock, who)

(* The guard is dropped, and the task goes on to its next read or write. *)
Then(who, mode) == lock' = Append(Released(who), Request(who, mode))
Leave(who) == lock' = Released(who)

(* The task returns, and its permit is free. *)
Ends(t) ==
  /\ task' = [task EXCEPT ![t] = IdleTask]
  /\ Leave(t)

(* The ports of the sockets that are open. *)
Open ==
  {task[t].port : t \in {u \in Tasks : At(u, "insert")}}
    \cup {sessions[c].port : c \in DOMAIN sessions}

(* A socket is closed while answers to it are under way: they still come to
   its port, which the system may have given to another socket by then.     *)
Closing(closed) ==
  {IF a.port \in closed THEN [a EXCEPT !.late = TRUE] ELSE a : a \in net}

(* A query is sent; beyond the bound its answer is lost. *)
Asked(p, c) ==
  IF Cardinality(net) < MaxNet
  THEN net \cup {[port |-> p, client |-> c, late |-> FALSE]} ELSE net

-----------------------------------------------------------------------------
(* start: a packet is received and a permit is free; else it is dropped. *)
Accept(t, c) ==
  /\ At(t, "idle")
  /\ task' = [task EXCEPT ![t] = [IdleTask EXCEPT !.pc = "check", !.client = c]]
  /\ Then(t, "read")
  /\ UNCHANGED <<sessions, net>>

(* contains_key *)
Checks(t) ==
  /\ At(t, "check") /\ Holds(t)
  /\ IF Client(t) \in DOMAIN sessions
     THEN /\ task' = [task EXCEPT ![t].pc = "send"]
          /\ Then(t, "read")
     ELSE /\ task' = [task EXCEPT ![t].pc = "bind"]
          /\ Leave(t)
  /\ UNCHANGED <<sessions, net>>

(* Mutant: every socket gets the same port. *)
BindsShared(t) ==
  /\ At(t, "bind")
  /\ task' = [task EXCEPT ![t].pc = "insert", ![t].port = CHOOSE p \in Ports : TRUE]
  /\ Then(t, "write")
  /\ UNCHANGED <<sessions, net>>

Binds(t) ==
  /\ At(t, "bind")
  /\ \E p \in Ports \ Open :
       task' = [task EXCEPT ![t].pc = "insert", ![t].port = p]
  /\ Then(t, "write")
  /\ UNCHANGED <<sessions, net>>

BindFails(t) ==
  /\ At(t, "bind")
  /\ Ends(t)
  /\ UNCHANGED <<sessions, net>>

(* insert, over a session that another task has made since the check: its
   socket is closed.                                                        *)
Inserts(t) ==
  LET c == Client(t) IN
  /\ At(t, "insert") /\ Holds(t)
  /\ sessions' = Put(sessions, c, [port |-> task[t].port, stale |-> FALSE])
  /\ net' = Closing(IF c \in DOMAIN sessions THEN {sessions[c].port} ELSE {})
  /\ task' = [task EXCEPT ![t].pc = "send", ![t].port = NoPort]
  /\ Then(t, "read")

(* Mutant: the guard is dropped before the answer is awaited. *)
SendsAndUnlocks(t) ==
  LET c == Client(t) IN
  /\ At(t, "send") /\ Holds(t)
  /\ c \in DOMAIN sessions
  /\ task' = [task EXCEPT ![t].pc = "recv", ![t].port = sessions[c].port]
  /\ net' = Asked(sessions[c].port, c)
  /\ Leave(t)
  /\ UNCHANGED sessions

(* The query is sent; the guard is kept. *)
Sends(t) ==
  LET c == Client(t) IN
  /\ At(t, "send") /\ Holds(t)
  /\ c \in DOMAIN sessions
  /\ task' = [task EXCEPT ![t].pc = "recv", ![t].port = sessions[c].port]
  /\ net' = Asked(sessions[c].port, c)
  /\ UNCHANGED <<sessions, lock>>

SendFails(t) ==
  /\ At(t, "send") /\ Holds(t)
  /\ Client(t) \in DOMAIN sessions
  /\ Ends(t)
  /\ UNCHANGED <<sessions, net>>

(* The session was cleaned up since: the packet is dropped. *)
FindsNone(t) ==
  /\ At(t, "send") /\ Holds(t)
  /\ Client(t) \notin DOMAIN sessions
  /\ task' = [task EXCEPT ![t].pc = "touch"]
  /\ Then(t, "write")
  /\ UNCHANGED <<sessions, net>>

(* Something comes to the port: recv_from asks neither who sent it nor for
   which query.  It is passed on to the client.                              *)
Receives(t, a, more) ==
  /\ At(t, "recv")
  /\ a \in net /\ a.port = task[t].port
  /\ net' = IF more THEN net ELSE net \ {a}
  /\ task' = [task EXCEPT ![t].pc = "touch", ![t].port = NoPort]
  /\ Then(t, "write")
  /\ UNCHANGED sessions

(* The answer cannot be passed on: the error is returned. *)
ReplyFails(t, a) ==
  /\ At(t, "recv")
  /\ a \in net /\ a.port = task[t].port
  /\ net' = net \ {a}
  /\ Ends(t)
  /\ UNCHANGED sessions

(* Mutant: after the timeout the query is sent again, without a limit. *)
AsksAgain(t) ==
  /\ At(t, "recv")
  /\ net' = Asked(task[t].port, Client(t))
  /\ UNCHANGED <<task, sessions, lock>>

(* 5 s are over, or the socket reports an error: both only logged. *)
GivesUp(t) ==
  /\ At(t, "recv")
  /\ task' = [task EXCEPT ![t].pc = "touch", ![t].port = NoPort]
  /\ Then(t, "write")
  /\ UNCHANGED <<sessions, net>>

(* Mutant: a session that is gone is made anew, without a socket. *)
TouchesAnyway(t) ==
  LET c == Client(t) IN
  /\ At(t, "touch") /\ Holds(t)
  /\ sessions' = Put(sessions, c,
       [port |-> IF c \in DOMAIN sessions THEN sessions[c].port ELSE NoPort,
        stale |-> FALSE])
  /\ Ends(t)
  /\ UNCHANGED net

(* last_activity = now *)
Touches(t) ==
  /\ At(t, "touch") /\ Holds(t)
  /\ sessions' = Modify(sessions, Client(t),
                         [sessions[Client(t)] EXCEPT !.stale = FALSE])
  /\ Ends(t)
  /\ UNCHANGED net

-----------------------------------------------------------------------------
(* The cleanup task: every 30 s write() and retain. *)
CleanupTicks ==
  /\ \A i \in 1..Len(lock) : lock[i].who # Cleaner
  /\ Then(Cleaner, "write")
  /\ UNCHANGED <<task, sessions, net>>

Stale == {c \in DOMAIN sessions : sessions[c].stale}

(* Mutant: retain keeps what it should drop. *)
CleansNone ==
  /\ Holds(Cleaner)
  /\ Leave(Cleaner)
  /\ UNCHANGED <<task, sessions, net>>

CleansUp ==
  /\ Holds(Cleaner)
  /\ sessions' = Drop(sessions, Stale)
  /\ net' = Closing({sessions[c].port : c \in Stale})
  /\ Leave(Cleaner)
  /\ UNCHANGED task

(* 300 s since the last activity. *)
GetsStale(c) ==
  /\ c \in DOMAIN sessions /\ ~sessions[c].stale
  /\ sessions' = [sessions EXCEPT ![c].stale = TRUE]
  /\ UNCHANGED <<task, lock, net>>

(* An answer is lost, or was never given. *)
Loses(a) ==
  /\ a \in net
  /\ net' = net \ {a}
  /\ UNCHANGED <<task, sessions, lock>>

-----------------------------------------------------------------------------
Runs(t) ==
  \/ Checks(t) \/ Binds(t) \/ BindFails(t) \/ Inserts(t)
  \/ Sends(t) \/ SendFails(t) \/ FindsNone(t)
  \/ GivesUp(t) \/ Touches(t)
  \/ \E a \in net : ReplyFails(t, a) \/ \E more \in BOOLEAN : Receives(t, a, more)

Next ==
  \/ \E t \in Tasks : Runs(t) \/ \E c \in Clients : Accept(t, c)
  \/ CleanupTicks \/ CleansUp
  \/ \E c \in Clients : GetsStale(c)
  \/ \E a \in net : Loses(a)

Spec == Init /\ [][Next]_vars

(* The runtime polls every task that can go on, and timers fire.  Nothing is
   assumed of the upstream.                                                 *)
Fairness ==
  /\ \A t \in Tasks : WF_vars(Runs(t))
  /\ WF_vars(CleanupTicks) /\ WF_vars(CleansUp)

FairSpec == Spec /\ Fairness

-----------------------------------------------------------------------------
(* Types: the tasks, the table, the line at the lock and the answers. *)
TypeOK ==
  /\ task \in [Tasks -> TaskRecord]
  /\ DOMAIN sessions \subseteq Clients
  /\ \A c \in DOMAIN sessions : sessions[c] \in Session
  /\ \A i \in 1..Len(lock) : lock[i].mode \in {"read", "write"}
  /\ \A i \in 1..Len(lock) : lock[i].who \in Tasks \cup {Cleaner}
  /\ net \subseteq Answer

(* The socket that a task awaits an answer on is the one of the session, and
   open: neither the cleanup nor a task that replaces the session closes it
   under the task.                                                          *)
SocketStaysOpen ==
  \A t \in Tasks : At(t, "recv") =>
    Client(t) \in DOMAIN sessions /\ sessions[Client(t)].port = task[t].port

(* Clients never share a socket: whatever answer a task receives, whether to
   its own packet or to an earlier one, the client it passes it on to is the
   one that asked.  The only exception is an answer that outlives the socket
   which asked for it, by the cleanup or because another task of the client
   has replaced the session, and whose port the system has given away again. *)
AnswersToAsker ==
  \A t \in Tasks, a \in net :
    At(t, "recv") /\ a.port = task[t].port => a.client = Client(t) \/ a.late

(* Every packet is done with in the end, and its permit free again, although
   the tasks await answers with the lock held and nobody may answer.        *)
TasksEnd == \A t \in Tasks : ~At(t, "idle") ~> At(t, "idle")

(* A session without activity does not stay: it is removed or used again. *)
SessionsExpire == \A c \in Clients : c \in Stale ~> c \notin Stale
=============================================================================
