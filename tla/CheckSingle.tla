---------------------------- MODULE CheckSingle ----------------------------
(***************************************************************************)
(* One health check: check_single and its three stages                     *)
(* (src/src/pool/health_checker.rs), each on a connection of its own.      *)
(* Stage 1 connects; stage 2 asks for a tunnel by HTTP CONNECT, whatever   *)
(* the protocol that the proxy is listed with; stage 3 opens a tunnel by   *)
(* that protocol and validates the certificate of a known host.  The proxy *)
(* answers, refuses, intercepts TLS, stays silent or closes at any point.  *)
(***************************************************************************)
EXTENDS Naturals, Sequences

CONSTANTS
  MaxUnread,  \* bound: lines of a header that are on their way at once
  NameLen     \* length of a bound address that is a name

ASSUME CheckAssumption == MaxUnread \in Nat \ {0} /\ NameLen \in 0..255

VARIABLES
  pc,          \* the check, see Stage, or its result
  skip,        \* bytes of the bound address to be skipped
  listed,      \* proxy.protocol
  speaks,      \* the protocols that the proxy really understands
  intercepts,  \* the proxy presents certificates of its own
  net,         \* what the proxy has sent and the check has not read
  server,      \* the proxy on this connection, see ServerState
  closed,      \* the proxy has closed this connection
  trouble      \* stage 3: the proxy refused or closed, its header was not UTF-8,
               \* or time ran out

vars == <<pc, skip, listed, speaks, intercepts, net, server, closed, trouble>>
proxy == <<listed, speaks, intercepts>>

(* What a stream is made of: bytes of SOCKS5, and the lines of HTTP, of which
   a status line stands as its number.                                      *)
HeaderLine == 900
BadLine == 901      \* not UTF-8
BlankLine == 1000
Token == 0..BlankLine

Protocols == {"http", "socks5"}
Result == {"Ok", "OkNoTls", "Dead"}

(* tcp     stage 1, connecting         connect2, status2  stage 2
   connect3, status3, drain            stage 3, HTTP CONNECT
   connect3, method, head, length, skip  stage 3, SOCKS5
   tls     the TLS handshake                                               *)
Stage == {"tcp", "connect2", "status2", "connect3", "status3", "drain",
          "method", "head", "length", "skip", "tls"}

(* silent before a request; then asked or greeted, header (status sent, blank
   line not yet), ready, requested, bound (address not yet sent), granted or
   refused.                                                                 *)
ServerState == {"silent", "asked", "header", "greeted", "ready", "requested",
                "bound4", "bound16", "boundname", "granted", "refused"}

NewConnection == net' = <<>> /\ closed' = FALSE

Init ==
  /\ pc = "idle" /\ skip = 0 /\ listed = "http" /\ speaks = {} /\ intercepts = FALSE
  /\ net = <<>> /\ server = "silent" /\ closed = FALSE /\ trouble = FALSE

-----------------------------------------------------------------------------
(* The next check, of any proxy. *)
Begins(l, s, i) ==
  /\ pc \notin Stage
  /\ pc' = "tcp"
  /\ listed' = l /\ speaks' = s /\ intercepts' = i
  /\ server' = "silent" /\ trouble' = FALSE /\ skip' = 0
  /\ NewConnection

(* Stage 1: connecting is all. *)
TcpConnects ==
  /\ pc = "tcp"
  /\ pc' = "connect2"
  /\ UNCHANGED <<skip, proxy, net, server, closed, trouble>>

(* Stage 2: a new connection, and the CONNECT request on it. *)
Asks ==
  /\ pc = "connect2"
  /\ pc' = "status2" /\ server' = "asked"
  /\ NewConnection
  /\ UNCHANGED <<skip, proxy, trouble>>

(* read_line: the next line, or nothing at the end of the stream, which is
   not an error.                                                            *)
Line == IF net # <<>> THEN Head(net) ELSE 0
ReadLine ==
  /\ net # <<>> \/ closed
  /\ net' = IF net # <<>> THEN Tail(net) ELSE net

(* starts_with("HTTP/1.1 200") *)
Granted == Line = 200

ReadsStatus2 ==
  /\ pc = "status2"
  /\ ReadLine
  /\ pc' = IF Granted THEN "connect3" ELSE "Dead"
  /\ UNCHANGED <<skip, proxy, server, closed, trouble>>

(* Stage 3: a new connection, and the CONNECT request or the greeting. *)
Opens ==
  /\ pc = "connect3"
  /\ IF listed = "http" THEN pc' = "status3" /\ server' = "asked"
     ELSE pc' = "method" /\ server' = "greeted"
  /\ NewConnection /\ trouble' = FALSE
  /\ UNCHANGED <<skip, proxy>>

ReadsStatus3 ==
  /\ pc = "status3"
  /\ ReadLine
  /\ pc' = IF Granted THEN "drain" ELSE "OkNoTls"
  /\ UNCHANGED <<skip, proxy, server, closed, trouble>>

(* Mutant: the first line of the header ends it. *)
DrainsOne ==
  /\ pc = "drain"
  /\ ReadLine
  /\ pc' = "tls"
  /\ UNCHANGED <<skip, proxy, server, closed, trouble>>

(* The rest of the header, to the blank line or the end of the stream. *)
Drains ==
  /\ pc = "drain" /\ Line # BadLine
  /\ ReadLine
  /\ pc' = IF Line = BlankLine \/ net = <<>> THEN "tls" ELSE "drain"
  /\ UNCHANGED <<skip, proxy, server, closed, trouble>>

(* A line that is not UTF-8 is an error, which ends the loop as well; what the
   reader has in its buffer, any part of the rest, is lost.                 *)
DrainBreaks ==
  /\ pc = "drain" /\ Line = BadLine
  /\ pc' = "tls"
  /\ \E n \in 1..Len(net) : net' = SubSeq(net, n + 1, Len(net))
  /\ UNCHANGED <<skip, proxy, server, closed, trouble>>

-----------------------------------------------------------------------------
(* SOCKS5.  Only the timeout around read_exact is looked at, not its result:
   at the end of the stream the buffer keeps its zeros.                     *)
Filled(n) == [i \in 1..n |-> IF i <= Len(net) THEN net[i] ELSE 0]
ReadExact(n) ==
  /\ Len(net) >= n \/ closed
  /\ net' = IF Len(net) >= n THEN SubSeq(net, n + 1, Len(net)) ELSE <<>>

ReadsMethod ==
  /\ pc = "method"
  /\ ReadExact(2)
  /\ IF Filled(2)[1] # 5 \/ Filled(2)[2] = 255
     THEN pc' = "OkNoTls" /\ server' = server
     ELSE pc' = "head" /\ server' = IF server = "ready" THEN "requested" ELSE server
  /\ UNCHANGED <<skip, proxy, closed, trouble>>

ReadsHead ==
  LET h == Filled(4) IN
  /\ pc = "head"
  /\ ReadExact(4)
  /\ IF h[1] # 5 \/ h[2] # 0 \/ h[4] \notin {1, 3, 4}
     THEN pc' = "OkNoTls" /\ skip' = 0
     ELSE /\ pc' = IF h[4] = 3 THEN "length" ELSE "skip"
          /\ skip' = CASE h[4] = 1 -> 6 [] h[4] = 3 -> 0 [] h[4] = 4 -> 18
  /\ UNCHANGED <<proxy, server, closed, trouble>>

(* Mutant: the port behind a name is forgotten. *)
ReadsNameLength ==
  /\ pc = "length"
  /\ ReadExact(1)
  /\ pc' = "skip" /\ skip' = Filled(1)[1]
  /\ UNCHANGED <<proxy, server, closed, trouble>>

ReadsLength ==
  /\ pc = "length"
  /\ ReadExact(1)
  /\ pc' = "skip" /\ skip' = Filled(1)[1] + 2
  /\ UNCHANGED <<proxy, server, closed, trouble>>

Skips ==
  /\ pc = "skip"
  /\ ReadExact(skip)
  /\ pc' = "tls" /\ skip' = 0
  /\ UNCHANGED <<proxy, server, closed, trouble>>

-----------------------------------------------------------------------------
(* The TLS handshake through what is taken for a tunnel.  Bytes of the proxy
   that are still in it, a foreign certificate or the end of the stream are
   errors.                                                                  *)
CertificateValid ==
  /\ pc = "tls"
  /\ server = "granted" /\ net = <<>> /\ ~closed /\ ~intercepts
  /\ pc' = "Ok"
  /\ UNCHANGED <<skip, proxy, net, server, closed, trouble>>

CertificateInvalid ==
  /\ pc = "tls"
  /\ closed \/ net # <<>> \/ (server = "granted" /\ intercepts)
  /\ pc' = "OkNoTls"
  /\ UNCHANGED <<skip, proxy, net, server, closed, trouble>>

(* Mutant: a TLS handshake that times out is given the benefit of the doubt. *)
AfterTimeoutLenient ==
  CASE pc \in {"tcp", "connect2", "status2"} -> "Dead"
    [] pc \in {"connect3", "status3", "method", "head"} -> "OkNoTls"
    [] pc \in {"drain", "skip"} -> "tls"
    [] pc = "length" -> "skip"
    [] pc = "tls" -> "Ok"

(* Where a stage goes when its time is up: the header is taken for read, the
   length of a name for 0, and the bound address for skipped.               *)
AfterTimeout ==
  CASE pc \in {"tcp", "connect2", "status2"} -> "Dead"
    [] pc \in {"connect3", "status3", "method", "head", "tls"} -> "OkNoTls"
    [] pc \in {"drain", "skip"} -> "tls"
    [] pc = "length" -> "skip"

(* Mutant: no timeout in the loop that drains the header. *)
TimesOutExceptInDrain ==
  /\ pc \in Stage \ {"drain"}
  /\ pc' = AfterTimeout
  /\ trouble' = TRUE
  /\ skip' = IF pc = "length" THEN 2 ELSE 0
  /\ net' = IF pc = "skip" THEN <<>> ELSE net
  /\ UNCHANGED <<proxy, server, closed>>

(* Every connect and every read has the timeout.  A connect that fails ends
   the same way; so does a request that cannot be written.  What has come of
   a bound address is lost.                                                 *)
TimesOut ==
  /\ pc \in Stage
  /\ pc' = AfterTimeout
  /\ trouble' = TRUE
  /\ skip' = IF pc = "length" THEN 2 ELSE 0
  /\ net' = IF pc = "skip" THEN <<>> ELSE net
  /\ UNCHANGED <<proxy, server, closed>>

-----------------------------------------------------------------------------
(* The proxy. *)
Sends(tokens, next) ==
  /\ ~closed
  /\ net' = net \o tokens
  /\ server' = next
  /\ trouble' = (trouble \/ next = "refused" \/ tokens = <<BadLine>>)
  /\ UNCHANGED <<pc, skip, proxy, closed>>

Zeros(n) == [i \in 1..n |-> 0]

(* A request that it does not understand is answered like one it refuses. *)
AnswersConnect ==
  /\ server = "asked"
  /\ \/ "http" \in speaks /\ Sends(<<200>>, "header")
     \/ Sends(<<403>>, "refused")

ContinuesHeader ==
  /\ server = "header"
  /\ Len(net) < MaxUnread
  /\ \/ Sends(<<HeaderLine>>, "header")
     \/ Sends(<<BadLine>>, "header")
     \/ Sends(<<BlankLine>>, "granted")

AnswersGreeting ==
  /\ server = "greeted"
  /\ \/ "socks5" \in speaks /\ Sends(<<5, 0>>, "ready")
     \/ Sends(<<5, 255>>, "refused")
     \/ Sends(<<400>>, "refused")

AnswersRequest ==
  /\ server = "requested"
  /\ \/ Sends(<<5, 5, 0, 1>>, "refused")
     \/ Sends(<<5, 0, 0, 1>>, "bound4")
     \/ Sends(<<5, 0, 0, 4>>, "bound16")
     \/ Sends(<<5, 0, 0, 3>>, "boundname")

SendsBound ==
  \/ server = "bound4" /\ Sends(Zeros(6), "granted")
  \/ server = "bound16" /\ Sends(Zeros(18), "granted")
  \/ server = "boundname" /\ Sends(<<NameLen>> \o Zeros(NameLen + 2), "granted")

Closes ==
  /\ pc \in Stage /\ ~closed
  /\ closed' = TRUE /\ trouble' = TRUE
  /\ UNCHANGED <<pc, skip, proxy, net, server>>

-----------------------------------------------------------------------------
Check ==
  \/ TcpConnects \/ Asks \/ ReadsStatus2
  \/ Opens \/ ReadsStatus3 \/ Drains \/ DrainBreaks
  \/ ReadsMethod \/ ReadsHead \/ ReadsLength \/ Skips
  \/ CertificateValid \/ CertificateInvalid \/ TimesOut

Peer ==
  \/ AnswersConnect \/ ContinuesHeader
  \/ AnswersGreeting \/ AnswersRequest \/ SendsBound \/ Closes

Next ==
  \/ \E l \in Protocols, s \in SUBSET Protocols, i \in BOOLEAN : Begins(l, s, i)
  \/ Check \/ Peer

(* The task is polled and timers fire.  Nothing is assumed of the proxy. *)
Spec == Init /\ [][Next]_vars /\ WF_vars(Check)

-----------------------------------------------------------------------------
(* Types, and the numbers of bytes that the check skips. *)
TypeOK ==
  /\ pc \in Stage \cup Result \cup {"idle"}
  /\ skip \in {0, 2, 6, 18, NameLen + 2}
  /\ listed \in Protocols /\ speaks \subseteq Protocols
  /\ intercepts \in BOOLEAN /\ closed \in BOOLEAN /\ trouble \in BOOLEAN
  /\ net \in Seq(Token) /\ server \in ServerState

(* A proxy counts as working only if it speaks a protocol of the gateway at
   all, however its answers are timed.  Ok, on which select_best_for_tls
   relies, is given only to one that does not intercept TLS and opened a
   tunnel by the protocol it is listed with.                                *)
VerdictEarned ==
  /\ pc \in {"Ok", "OkNoTls"} => speaks # {}
  /\ pc = "Ok" => ~intercepts /\ listed \in speaks

(* The check misplaces no byte of an answer: a proxy that does not intercept
   is found unclean only if it refused or closed, was too slow, or sent a
   header that is not text.                                                 *)
NoFalseBlame == pc = "OkNoTls" => intercepts \/ trouble

(* Every check ends, whatever the proxy does and wherever it falls silent, in
   the middle of a header too; unless it sends header lines without end, each
   of which the drain loop waits for anew.  fast_probe waits for all checks of
   its batch.                                                               *)
CheckEnds == (pc \in Stage ~> pc \in Result) \/ []<><<Drains>>_vars
=============================================================================
