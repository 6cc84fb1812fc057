------------------------------ MODULE Upstream ------------------------------
(***************************************************************************)
(* The handshake with an upstream proxy (src/src/proxy/upstream.rs): HTTP  *)
(* CONNECT, read in pieces of any size up to a limit, and SOCKS5, read     *)
(* field by field; on a new connection without a timeout, on one from the  *)
(* warm pool with one.  The proxy answers as its protocol lets it, refuses,*)
(* stays silent or closes at any point.                                    *)
(***************************************************************************)
EXTENDS Naturals, Sequences, SequencesExt

CONSTANTS
  MaxResponse,  \* bytes that the response to CONNECT may have   (1024)
  MaxData,      \* bound: bytes that the target sends by itself
  DomainLens    \* lengths of a bound address that is a name

ASSUME UpstreamAssumption ==
  /\ MaxResponse \in Nat \ {0} /\ MaxData \in Nat
  /\ DomainLens \subseteq 0..255

VARIABLES
  pc,      \* handler: idle, connect, start, http, method, head, bound, ok, err
  proto,   \* the proxy's protocol
  warm,    \* the stream came from the warm pool
  long,    \* the name of the target has more than 255 bytes
  skip,    \* bytes of the bound address to be read, 0 if not known yet
  buf,     \* response to CONNECT as far as it has been read
  net,     \* bytes that the proxy has sent and the handler has not read
  server,  \* proxy: idle, greeted, ready, auth, asked, granted, refused
  closed,  \* the proxy has closed the connection
  sent     \* bytes of the target that the proxy has passed on

vars == <<pc, proto, warm, long, skip, buf, net, server, closed, sent>>
task == <<proto, warm, long>>
peer == <<net, server, closed, sent>>

(* What the handler tells apart in a stream: the bytes of SOCKS5, the text of
   a status line, which stands as its number, the two bytes that end a line,
   and bytes of the target.                                                 *)
CR == 13
LF == 10
TargetByte == 1001

Handshake == {"start", "http", "method", "head", "bound"}
Ended == pc \in {"ok", "err"}

Init ==
  /\ pc = "idle" /\ proto = "http" /\ warm = FALSE /\ long = FALSE
  /\ skip = 0 /\ buf = <<>>
  /\ net = <<>> /\ server = "idle" /\ closed = FALSE /\ sent = 0

-----------------------------------------------------------------------------
(* handshake_on_stream for a warm stream, else connect_to_target, which
   connects first.                                                          *)
Begin(p, w, l) ==
  /\ pc = "idle"
  /\ proto' = p /\ warm' = w /\ long' = l
  /\ pc' = IF w THEN "start" ELSE "connect"
  /\ UNCHANGED <<skip, buf, peer>>

Connected ==
  /\ pc = "connect"
  /\ pc' = "start"
  /\ UNCHANGED <<task, skip, buf, peer>>

ConnectFails ==
  /\ pc = "connect"
  /\ pc' = "err"
  /\ UNCHANGED <<task, skip, buf, peer>>

(* The first write: the CONNECT request or the greeting. *)
Writes ==
  /\ pc = "start"
  /\ IF proto = "http" THEN pc' = "http" /\ server' = "asked"
     ELSE pc' = "method" /\ server' = "greeted"
  /\ UNCHANGED <<task, skip, buf, net, closed, sent>>

-----------------------------------------------------------------------------
(* A blank line ends at place i. *)
BlankAt(b, i) == b[i - 3] = CR /\ b[i - 2] = LF /\ b[i - 1] = CR /\ b[i] = LF

(* It may have come in several pieces, split anywhere. *)
FindHeaderEnd(b) == \E i \in 4..Len(b) : BlankAt(b, i)

(* Mutant: the buffer has no limit. *)
HttpReadsUnlimited(n) ==
  /\ pc = "http"
  /\ LET b == buf \o SubSeq(net, 1, n) IN
     IF FindHeaderEnd(b)
     THEN /\ pc' = IF b[1] = 200 THEN "ok" ELSE "err"
          /\ buf' = <<>>
     ELSE buf' = b /\ pc' = pc
  /\ net' = SubSeq(net, n + 1, Len(net))
  /\ UNCHANGED <<task, skip, server, closed, sent>>

(* The response to CONNECT.  A read returns what has come, up to the room in
   the buffer; the target's bytes that it finds behind the header are lost.
   The status is in the first line.                                         *)
HttpReads(n) ==
  /\ pc = "http"
  /\ Len(buf) + n <= MaxResponse
  /\ LET b == buf \o SubSeq(net, 1, n) IN
     IF FindHeaderEnd(b)
     THEN /\ pc' = IF b[1] = 200 THEN "ok" ELSE "err"
          /\ buf' = <<>>
     ELSE buf' = b /\ pc' = pc
  /\ net' = SubSeq(net, n + 1, Len(net))
  /\ UNCHANGED <<task, skip, server, closed, sent>>

TooLarge ==
  /\ pc = "http"
  /\ Len(buf) = MaxResponse
  /\ pc' = "err" /\ buf' = <<>>
  /\ UNCHANGED <<task, skip, peer>>

-----------------------------------------------------------------------------
(* SOCKS5.  read_exact waits until all n bytes have come. *)
ReadExact(n) ==
  /\ Len(net) >= n
  /\ net' = SubSeq(net, n + 1, Len(net))

(* The method, then the request.  Any method but 0xFF is taken for no
   authentication.                                                          *)
ReadsMethod ==
  /\ pc = "method"
  /\ ReadExact(2)
  /\ IF net[1] # 5 \/ net[2] = 255 \/ long
     THEN pc' = "err" /\ server' = server
     ELSE /\ pc' = "head"
          /\ server' = IF server = "ready" THEN "asked" ELSE server
  /\ UNCHANGED <<task, skip, buf, closed, sent>>

(* Mutant: the reply code is not looked at. *)
ReadsHeadUnchecked ==
  /\ pc = "head"
  /\ ReadExact(4)
  /\ IF net[1] # 5 \/ net[4] \notin {1, 3, 4}
     THEN pc' = "err" /\ skip' = skip
     ELSE /\ pc' = "bound"
          /\ skip' = CASE net[4] = 1 -> 6 [] net[4] = 3 -> 0 [] net[4] = 4 -> 18
  /\ UNCHANGED <<task, buf, server, closed, sent>>

(* The head of the reply: version, code, reserved, type of the address. *)
ReadsHead ==
  /\ pc = "head"
  /\ ReadExact(4)
  /\ IF net[1] # 5 \/ net[2] # 0 \/ net[4] \notin {1, 3, 4}
     THEN pc' = "err" /\ skip' = skip
     ELSE /\ pc' = "bound"
          /\ skip' = CASE net[4] = 1 -> 6 [] net[4] = 3 -> 0 [] net[4] = 4 -> 18
  /\ UNCHANGED <<task, buf, server, closed, sent>>

(* Mutant: the port behind a name is forgotten. *)
ReadsNameOnly ==
  /\ pc = "bound" /\ skip = 0
  /\ ReadExact(1)
  /\ skip' = net[1]
  /\ UNCHANGED <<pc, task, buf, server, closed, sent>>

(* The bound address: a name has its length in front, *)
ReadsLength ==
  /\ pc = "bound" /\ skip = 0
  /\ ReadExact(1)
  /\ skip' = net[1] + 2
  /\ UNCHANGED <<pc, task, buf, server, closed, sent>>

(* and all of it is read and discarded. *)
Skips ==
  /\ pc = "bound" /\ skip > 0
  /\ ReadExact(skip)
  /\ pc' = "ok" /\ skip' = 0
  /\ UNCHANGED <<task, buf, server, closed, sent>>

-----------------------------------------------------------------------------
(* The proxy has closed: a read finds the end of the stream before what it
   is for, or a reset, or a write fails.                                    *)
Fails ==
  /\ pc \in Handshake /\ closed
  /\ pc' = "err" /\ skip' = 0 /\ buf' = <<>>
  /\ UNCHANGED <<task, peer>>

(* Mutant: no timeout on a warm stream either. *)
NeverTimesOut == FALSE /\ UNCHANGED vars

(* 10 s around the handshake on a warm stream only. *)
TimesOut ==
  /\ pc \in Handshake /\ warm
  /\ pc' = "err" /\ skip' = 0 /\ buf' = <<>>
  /\ UNCHANGED <<task, peer>>

-----------------------------------------------------------------------------
(* The proxy. *)
Sends(bytes, next) ==
  /\ ~closed
  /\ net' = net \o bytes
  /\ server' = next
  /\ UNCHANGED <<pc, task, skip, buf, closed, sent>>

Zeros(n) == [i \in 1..n |-> 0]

(* The status line, n more lines and the blank line; the text of a line is
   one byte.                                                                *)
Header(status, n) ==
  [i \in 1..(3 * n + 5) |->
     CASE i = 1         -> status
       [] i = 3 * n + 4 -> CR
       [] i = 3 * n + 5 -> LF
       [] OTHER         -> CASE i % 3 = 1 -> 0
                             [] i % 3 = 2 -> CR
                             [] i % 3 = 0 -> LF]

HttpAnswers ==
  /\ server = "asked" /\ proto = "http"
  /\ \E n \in 0..MaxResponse :
       \/ Sends(Header(200, n), "granted")
       \/ Sends(Header(403, n), "refused")

(* The method: none needed, a password, none acceptable; or another
   protocol altogether.                                                     *)
ChoosesMethod ==
  /\ server = "greeted"
  /\ \/ Sends(<<5, 0>>, "ready")
     \/ Sends(<<5, 2>>, "auth")
     \/ Sends(<<5, 255>>, "refused")
     \/ Sends(<<4, 0>>, "refused")

(* The request is read as a password and rejected. *)
AuthFails ==
  /\ server = "auth" /\ pc = "head"
  /\ Sends(<<1, 1>>, "refused")

SocksAnswers ==
  /\ server = "asked" /\ proto = "socks5"
  /\ \/ Sends(<<5, 5, 0, 1>> \o Zeros(6), "refused")
     \/ Sends(<<5, 0, 0, 1>> \o Zeros(6), "granted")
     \/ Sends(<<5, 0, 0, 4>> \o Zeros(18), "granted")
     \/ \E n \in DomainLens :
          Sends(<<5, 0, 0, 3, n>> \o Zeros(n + 2), "granted")

(* A target that speaks first. *)
TargetSends ==
  /\ server = "granted" /\ ~closed /\ sent < MaxData
  /\ sent' = sent + 1
  /\ net' = Append(net, TargetByte)
  /\ UNCHANGED <<pc, task, skip, buf, server, closed>>

Closes ==
  /\ pc # "idle" /\ ~closed
  /\ closed' = TRUE
  /\ UNCHANGED <<pc, task, skip, buf, net, server, sent>>

-----------------------------------------------------------------------------
Handler ==
  \/ Connected \/ ConnectFails \/ Writes
  \/ \E n \in 1..Len(net) : HttpReads(n)
  \/ TooLarge \/ ReadsMethod \/ ReadsHead \/ ReadsLength \/ Skips
  \/ Fails \/ TimesOut

Peer ==
  \/ HttpAnswers \/ ChoosesMethod \/ AuthFails \/ SocksAnswers
  \/ TargetSends \/ Closes

Next ==
  \/ \E p \in {"http", "socks5"}, w, l \in BOOLEAN : Begin(p, w, l)
  \/ Handler \/ Peer

(* The task is polled when bytes have come or a timer has fired.  Nothing is
   assumed of the proxy.                                                    *)
Spec == Init /\ [][Next]_vars /\ WF_vars(Handler)

-----------------------------------------------------------------------------
(* Types. *)
TypeOK ==
  /\ pc \in Handshake \cup {"idle", "connect", "ok", "err"}
  /\ proto \in {"http", "socks5"} /\ warm \in BOOLEAN /\ long \in BOOLEAN
  /\ skip \in Nat
  /\ buf \in Seq(0..TargetByte) /\ Len(buf) <= MaxResponse
  /\ net \in Seq(0..TargetByte) /\ sent \in 0..MaxData
  /\ server \in {"idle", "greeted", "ready", "auth", "asked", "granted",
                 "refused"}
  /\ closed \in BOOLEAN

(* The stream is taken for a tunnel only if the proxy has granted it,
   whatever it answered before and however its answer came in.              *)
OkMeansGranted == pc = "ok" => server = "granted"

(* upstream.rs: the stream that is returned is tunneled to the target.  No
   byte of the proxy's answer is left in it for the client; and of a target
   that speaks first nothing is missing over SOCKS5.                        *)
TunnelAligned ==
  pc = "ok" => /\ Range(net) \subseteq {TargetByte}
               /\ proto = "socks5" => Len(net) = sent

(* The handshake ends: with a proxy that closes or gives a complete answer,
   and on a warm stream with every proxy.                                   *)
HandshakeEnds ==
  /\ pc \in Handshake /\ (warm \/ closed) ~> Ended
  /\ pc \in Handshake /\ server = "granted" ~> Ended
=============================================================================
