------------------------- MODULE CheckSingleProofs -------------------------
(***************************************************************************)
(* The health check, for names and headers of any length.  The invariant   *)
(* says, for every place at which the check reads, how far the proxy can   *)
(* be and which of its bytes can be on their way; so that no byte of an    *)
(* answer is misplaced.                                                    *)
(***************************************************************************)
EXTENDS CheckSingle, SequenceTheorems, TLAPS

Stage3 == {"status3", "drain", "method", "head", "length", "skip", "tls"}
Socks == {"method", "head", "length", "skip"}

(* How many bytes follow the four of a SOCKS5 answer, by type of address. *)
BoundLen(atyp) == IF atyp = 1 THEN 6 ELSE IF atyp = 4 THEN 18 ELSE NameLen + 3

(* Bytes of a SOCKS5 answer that grants, with nothing behind the first four;
   or with all of the bound address.                                        *)
AnswerHead(atyp) ==
  Len(net) = 4 /\ net[1] = 5 /\ net[2] = 0 /\ net[4] = atyp
WholeAnswer(atyp) ==
  /\ Len(net) = 4 + BoundLen(atyp)
  /\ net[1] = 5 /\ net[2] = 0 /\ net[4] = atyp
  /\ atyp = 3 => net[5] = NameLen

-----------------------------------------------------------------------------
(* HTTP CONNECT in either stage: nothing comes before an answer, a refusal is
   one line, and only a proxy that speaks HTTP goes on to a header.         *)
HttpOK ==
  pc \in {"status2", "status3", "drain"} =>
    /\ server \in {"asked", "header", "granted", "refused"}
    /\ server = "asked" => net = <<>> /\ pc # "drain"
    /\ server = "refused" => net = <<403>> /\ pc # "drain"
    /\ server \in {"header", "granted"} => "http" \in speaks

(* The lines from number n on are those of a header; its blank line is the
   last one, and has been sent once the server has granted.                 *)
HeaderFrom(n) ==
  /\ server = "granted" => Len(net) >= n
  /\ \A i \in n..Len(net) :
       net[i] = IF server = "granted" /\ i = Len(net) THEN BlankLine ELSE HeaderLine

(* Stage 3 by HTTP CONNECT, without trouble. *)
HeaderOK ==
  ~trouble =>
    /\ pc = "status3" /\ server \in {"header", "granted"} =>
         Len(net) >= 1 /\ net[1] = 200 /\ HeaderFrom(2)
    /\ pc = "drain" => HeaderFrom(1)

(* Stage 3 by SOCKS5: the greeting, *)
MethodOK ==
  pc = "method" =>
    \/ server = "greeted" /\ net = <<>>
    \/ server = "ready" /\ net = <<5, 0>>
    \/ server = "refused" /\ net \in {<<5, 255>>, <<400>>}

(* the answer to the request, *)
HeadOK ==
  pc = "head" =>
    \/ server = "requested" /\ net = <<>>
    \/ server = "refused" /\ net = <<5, 5, 0, 1>>
    \/ server = "bound4" /\ AnswerHead(1)
    \/ server = "bound16" /\ AnswerHead(4)
    \/ server = "boundname" /\ AnswerHead(3)
    \/ server = "granted" /\ \E atyp \in {1, 3, 4} : WholeAnswer(atyp)

(* the bound address that follows. *)
LengthOK ==
  pc = "length" =>
    \/ server = "boundname" /\ net = <<>>
    \/ server = "granted" /\ Len(net) = NameLen + 3 /\ net[1] = NameLen

SkipOK ==
  pc = "skip" =>
    /\ server \in {"bound4", "bound16", "boundname", "granted"}
    /\ skip > 0
    /\ ~trouble =>
         \/ server = "bound4" /\ skip = 6 /\ net = <<>>
         \/ server = "bound16" /\ skip = 18 /\ net = <<>>
         \/ server = "granted" /\ Len(net) = skip

(* The tunnel: every byte of the proxy's answer has been read. *)
TlsOK == pc = "tls" /\ ~trouble => server = "granted" /\ net = <<>>

(* Stage 3 uses the protocol that is listed, and in SOCKS5 only a proxy that
   speaks it gets past the greeting.                                        *)
ProtocolOK ==
  /\ pc \in {"status3", "drain"} => listed = "http"
  /\ pc \in Socks => listed = "socks5"
  /\ pc \in Socks \cup {"tls"} /\ listed = "socks5"
       /\ server \notin {"greeted", "refused"} => "socks5" \in speaks

(* Stage 2 is passed only by a proxy that grants an HTTP CONNECT. *)
PassedOK == pc \in Stage3 \cup {"connect3", "Ok", "OkNoTls"} => "http" \in speaks

TroubleOK ==
  pc \in Stage3 /\ (closed \/ server = "refused") => trouble

KInv ==
  /\ TypeOK /\ VerdictEarned /\ NoFalseBlame
  /\ HttpOK /\ HeaderOK /\ MethodOK /\ HeadOK /\ LengthOK /\ SkipOK /\ TlsOK
  /\ ProtocolOK /\ PassedOK /\ TroubleOK
-----------------------------------------------------------------------------
(* What a read does to the bytes on their way. *)

(* read_line takes the first line, or nothing at the end of the stream. *)
LEMMA ReadLineEffect ==
  ASSUME net \in Seq(Token), ReadLine
  PROVE  /\ net' \in Seq(Token)
         /\ net = <<>> => closed /\ net' = <<>> /\ Line = 0
         /\ net # <<>> => /\ Len(net) >= 1 /\ Line = net[1]
                          /\ Len(net') = Len(net) - 1
                          /\ \A i \in 1..Len(net') : net'[i] = net[i + 1]
  BY DEF ReadLine, Line

(* read_exact takes n bytes; at the end of the stream it takes what is left. *)
LEMMA ReadExactEffect ==
  ASSUME net \in Seq(Token), NEW n \in Nat, ReadExact(n)
  PROVE  /\ net' \in Seq(Token)
         /\ Len(net) >= n => /\ Len(net') = Len(net) - n
                             /\ \A i \in 1..Len(net') : net'[i] = net[i + n]
         /\ ~(Len(net) >= n) => closed /\ net' = <<>>
  <1>1. CASE Len(net) >= n
    <2>1. net' = SubSeq(net, n + 1, Len(net))
      BY <1>1 DEF ReadExact
    <2> QED BY <1>1, <2>1
  <1>2. CASE ~(Len(net) >= n)
    BY <1>2 DEF ReadExact
  <1> QED BY <1>1, <1>2

(* The buffer of read_exact: what has come, then zeros. *)
LEMMA FilledByte ==
  ASSUME net \in Seq(Token), NEW n \in Nat, NEW i \in 1..n
  PROVE  Filled(n)[i] = IF i <= Len(net) THEN net[i] ELSE 0
  BY DEF Filled

(* What the proxy sends comes behind what it has sent. *)
LEMMA SendsEffect ==
  ASSUME net \in Seq(Token), NEW tokens \in Seq(Token), NEW next, Sends(tokens, next)
  PROVE  /\ net' \in Seq(Token)
         /\ Len(net') = Len(net) + Len(tokens)
         /\ \A i \in 1..Len(net) : net'[i] = net[i]
         /\ \A i \in 1..Len(tokens) : net'[Len(net) + i] = tokens[i]
         /\ net = <<>> => net' = tokens
  <1>1. net' = net \o tokens
    BY DEF Sends
  <1> QED BY <1>1
-----------------------------------------------------------------------------
(* A new connection has its types. *)
LEMMA NewConnectionTyped ==
  ASSUME NewConnection
  PROVE  net' \in Seq(Token) /\ closed' \in BOOLEAN
  <1>1. <<>> \in Seq(Token)
    OBVIOUS
  <1> QED BY <1>1 DEF NewConnection

(* The first check has not begun. *)
LEMMA InitKInv == Init => KInv
  <1> SUFFICES ASSUME Init PROVE KInv
    OBVIOUS
  <1>1. <<>> \in Seq(Token)
    OBVIOUS
  <1>2. net \in Seq(Token)
    BY <1>1 DEF Init
  <1>3. intercepts \in BOOLEAN /\ closed \in BOOLEAN /\ trouble \in BOOLEAN
    BY DEF Init
  <1> QED
  BY <1>2, <1>3, CheckAssumption
  DEF Init, KInv, TypeOK, VerdictEarned, NoFalseBlame, HttpOK, HeaderOK, MethodOK,
      HeadOK, LengthOK, SkipOK, TlsOK, ProtocolOK, PassedOK, TroubleOK, Stage,
      Stage3, Socks, Result, Protocols, ServerState

(* A check begins; stages 1 and 2 up to the request. *)
LEMMA BeginsKInv ==
  ASSUME KInv,
         \/ \E l \in Protocols, s \in SUBSET Protocols, i \in BOOLEAN : Begins(l, s, i)
         \/ TcpConnects \/ Asks
  PROVE  KInv'
  <1> USE CheckAssumption DEF KInv, Stage, Stage3, Socks
  <1>1. ASSUME NEW l \in Protocols, NEW s \in SUBSET Protocols, NEW i \in BOOLEAN,
               Begins(l, s, i)
        PROVE  KInv'
    <2>1. TypeOK'
      <3>1. intercepts' \in BOOLEAN /\ trouble' \in BOOLEAN
        BY <1>1 DEF Begins
      <3> QED BY <1>1, <3>1, NewConnectionTyped DEF Begins, TypeOK, ServerState
    <2> QED
      BY <1>1, <2>1
      DEF Begins, VerdictEarned, NoFalseBlame, HttpOK, HeaderOK, MethodOK, HeadOK,
          LengthOK, SkipOK, TlsOK, ProtocolOK, PassedOK, TroubleOK
  <1>2. CASE TcpConnects
    <2>1. TypeOK'
      BY <1>2 DEF TcpConnects, proxy, TypeOK
    <2> QED
      BY <1>2, <2>1
      DEF TcpConnects, proxy, VerdictEarned, NoFalseBlame, HttpOK, HeaderOK,
          MethodOK, HeadOK, LengthOK, SkipOK, TlsOK, ProtocolOK, PassedOK, TroubleOK
  <1>3. CASE Asks
    <2>1. TypeOK'
      BY <1>3, NewConnectionTyped DEF Asks, proxy, TypeOK, ServerState
    <2> QED
      BY <1>3, <2>1
      DEF Asks, NewConnection, proxy, VerdictEarned, NoFalseBlame, HttpOK, HeaderOK,
          MethodOK, HeadOK, LengthOK, SkipOK, TlsOK, ProtocolOK, PassedOK, TroubleOK
  <1> QED BY <1>1, <1>2, <1>3

(* Stage 2 is passed by a status line 200, which only a proxy sends that speaks
   HTTP.                                                                    *)
LEMMA Status2KInv ==
  ASSUME KInv, ReadsStatus2
  PROVE  KInv'
  <1> USE DEF KInv, Stage, Stage3, Socks
  <1>1. TypeOK'
    BY ReadLineEffect DEF ReadsStatus2, proxy, TypeOK, Result
  <1>2. Granted => "http" \in speaks
    BY ReadLineEffect DEF ReadsStatus2, HttpOK, Granted, TypeOK
  <1> QED
    BY <1>1, <1>2
    DEF ReadsStatus2, proxy, VerdictEarned, NoFalseBlame, HttpOK, HeaderOK,
        MethodOK, HeadOK, LengthOK, SkipOK, TlsOK, ProtocolOK, PassedOK, TroubleOK

(* Stage 3 begins on a connection of its own. *)
LEMMA OpensKInv ==
  ASSUME KInv, Opens
  PROVE  KInv'
  <1> USE DEF KInv, Stage, Stage3, Socks
  <1>1. TypeOK'
    <2>1. trouble' \in BOOLEAN
      BY DEF Opens
    <2> QED BY <2>1, NewConnectionTyped DEF Opens, proxy, TypeOK, ServerState
  <1>2. listed \in {"http", "socks5"}
    BY DEF TypeOK, Protocols
  <1> QED
    BY <1>1, <1>2
    DEF Opens, NewConnection, proxy, VerdictEarned, NoFalseBlame, HttpOK, HeaderOK,
        MethodOK, HeadOK, LengthOK, SkipOK, TlsOK, ProtocolOK, PassedOK, TroubleOK

(* A status line other than 200 means trouble; after 200 comes the rest of the
   header.                                                                  *)
LEMMA Status3KInv ==
  ASSUME KInv, ReadsStatus3
  PROVE  KInv'
  <1> USE DEF KInv, Stage, Stage3, Socks
  <1>1. TypeOK'
    BY ReadLineEffect DEF ReadsStatus3, proxy, TypeOK, Result
  <1>2. /\ Granted => server \in {"header", "granted"}
        /\ ~Granted => trouble
    BY ReadLineEffect DEF ReadsStatus3, HttpOK, HeaderOK, TroubleOK, Granted, TypeOK
  <1>3. HeaderOK'
    <2> SUFFICES ASSUME pc' = "drain", ~trouble' PROVE HeaderFrom(1)'
      BY DEF ReadsStatus3, HeaderOK
    <2>1. /\ server \in {"header", "granted"} /\ server' = server /\ ~trouble
          /\ pc = "status3"
      BY <1>2 DEF ReadsStatus3
    <2>2. Len(net) >= 1 /\ HeaderFrom(2)
      BY <2>1 DEF HeaderOK
    <2>3. /\ net' \in Seq(Token) /\ Len(net') = Len(net) - 1
          /\ \A i \in 1..Len(net') : net'[i] = net[i + 1]
      BY <2>2, ReadLineEffect DEF ReadsStatus3, TypeOK
    <2>4. net \in Seq(Token)
      BY DEF TypeOK
    <2> QED BY <2>1, <2>2, <2>3, <2>4 DEF HeaderFrom
  <1> QED
    BY <1>1, <1>2, <1>3
    DEF ReadsStatus3, proxy, VerdictEarned, NoFalseBlame, HttpOK,
        MethodOK, HeadOK, LengthOK, SkipOK, TlsOK, ProtocolOK, PassedOK, TroubleOK
(* The header is read to its blank line, behind which nothing is left. *)
LEMMA DrainsKInv ==
  ASSUME KInv, Drains
  PROVE  KInv'
  <1> USE DEF KInv, Stage, Stage3, Socks
  <1>1. TypeOK'
    BY ReadLineEffect DEF Drains, proxy, TypeOK
  <1>2. net \in Seq(Token) /\ server \in {"header", "granted"}
    BY DEF TypeOK, HttpOK, Drains
  <1>3. ASSUME ~trouble
        PROVE  /\ pc' = "tls" => server = "granted" /\ net' = <<>>
               /\ pc' = "drain" => HeaderFrom(1)'
    <2>1. HeaderFrom(1) /\ ~closed
      BY <1>3 DEF HeaderOK, TroubleOK, Drains
    <2>2. /\ net # <<>> /\ Len(net) >= 1 /\ Line = net[1] /\ net' \in Seq(Token)
          /\ Len(net') = Len(net) - 1
          /\ \A i \in 1..Len(net') : net'[i] = net[i + 1]
      BY <1>2, <2>1, ReadLineEffect DEF Drains
    <2>3. net[1] = IF server = "granted" /\ 1 = Len(net) THEN BlankLine ELSE HeaderLine
      BY <1>2, <2>1, <2>2 DEF HeaderFrom
    <2>4. CASE server = "granted" /\ 1 = Len(net)
      BY <1>2, <2>2, <2>3, <2>4 DEF Drains
    <2>5. CASE ~(server = "granted" /\ 1 = Len(net))
      <3>1. pc' = "drain" /\ server' = server
        BY <2>2, <2>3, <2>5 DEF Drains, BlankLine, HeaderLine
      <3>2. HeaderFrom(1)'
        BY <1>2, <2>1, <2>2, <2>5, <3>1 DEF HeaderFrom
      <3> QED BY <3>1, <3>2
    <2> QED BY <2>4, <2>5
  <1> QED
    BY <1>1, <1>2, <1>3
    DEF Drains, proxy, VerdictEarned, NoFalseBlame, HttpOK, HeaderOK,
        MethodOK, HeadOK, LengthOK, SkipOK, TlsOK, ProtocolOK, PassedOK, TroubleOK

(* A line that is not UTF-8 has been noticed when it was sent. *)
LEMMA DrainBreaksKInv ==
  ASSUME KInv, DrainBreaks
  PROVE  KInv'
  <1> USE DEF KInv, Stage, Stage3, Socks
  <1>1. net \in Seq(Token) /\ server \in {"header", "granted"}
    BY DEF TypeOK, HttpOK, DrainBreaks
  <1>2. net # <<>> /\ net[1] = BadLine
    BY <1>1 DEF DrainBreaks, Line, BadLine
  <1>3. trouble
    <2> SUFFICES ASSUME ~trouble PROVE FALSE
      OBVIOUS
    <2>1. HeaderFrom(1)
      BY DEF HeaderOK, DrainBreaks
    <2> QED BY <1>1, <1>2, <2>1 DEF HeaderFrom, BadLine, BlankLine, HeaderLine
  <1>4. net' \in Seq(Token)
    BY <1>1 DEF DrainBreaks
  <1>5. TypeOK'
    BY <1>4 DEF DrainBreaks, proxy, TypeOK
  <1> QED
    BY <1>1, <1>3, <1>5
    DEF DrainBreaks, proxy, VerdictEarned, NoFalseBlame, HttpOK, HeaderOK,
        MethodOK, HeadOK, LengthOK, SkipOK, TlsOK, ProtocolOK, PassedOK, TroubleOK

(* Only a proxy that has accepted the greeting gets the request. *)
LEMMA MethodKInv ==
  ASSUME KInv, ReadsMethod
  PROVE  KInv'
  <1> USE DEF KInv, Stage, Stage3, Socks
  <1>1. net \in Seq(Token)
    BY DEF TypeOK
  <1>2. /\ Filled(2)[1] = IF 1 <= Len(net) THEN net[1] ELSE 0
        /\ Filled(2)[2] = IF 2 <= Len(net) THEN net[2] ELSE 0
    BY <1>1, FilledByte
  <1>3. /\ net' \in Seq(Token)
        /\ Len(net) >= 2 => Len(net') = Len(net) - 2
        /\ ~(Len(net) >= 2) => closed /\ net' = <<>>
    BY <1>1, ReadExactEffect DEF ReadsMethod
  <1>4. \/ pc' = "OkNoTls" /\ server' = server /\ trouble
        \/ pc' = "head" /\ server' = "requested" /\ net' = <<>> /\ server = "ready"
    <2>1. CASE server = "greeted" /\ net = <<>>
      BY <1>2, <1>3, <2>1 DEF ReadsMethod, TroubleOK
    <2>2. CASE server = "ready" /\ net = <<5, 0>>
      BY <1>2, <1>3, <2>2 DEF ReadsMethod
    <2>3. CASE server = "refused" /\ net \in {<<5, 255>>, <<400>>}
      BY <1>2, <1>3, <2>3 DEF ReadsMethod, TroubleOK
    <2> QED BY <2>1, <2>2, <2>3 DEF MethodOK, ReadsMethod
  <1>5. TypeOK'
    BY <1>3, <1>4 DEF ReadsMethod, proxy, TypeOK, Result, ServerState
  <1> QED
    BY <1>4, <1>5
    DEF ReadsMethod, proxy, VerdictEarned, NoFalseBlame, HttpOK, HeaderOK,
        MethodOK, HeadOK, LengthOK, SkipOK, TlsOK, ProtocolOK, PassedOK, TroubleOK
(* A granting answer is read to the end of its first four bytes. *)
LEMMA HeadKInv ==
  ASSUME KInv, ReadsHead
  PROVE  KInv'
  <1> USE CheckAssumption DEF KInv, Stage, Stage3, Socks
  <1> DEFINE h == Filled(4)
  <1>1. net \in Seq(Token)
    BY DEF TypeOK
  <1>2. /\ h[1] = IF 1 <= Len(net) THEN net[1] ELSE 0
        /\ h[2] = IF 2 <= Len(net) THEN net[2] ELSE 0
        /\ h[4] = IF 4 <= Len(net) THEN net[4] ELSE 0
    BY <1>1, FilledByte
  <1>3. /\ net' \in Seq(Token)
        /\ Len(net) >= 4 => /\ Len(net') = Len(net) - 4
                            /\ \A i \in 1..Len(net') : net'[i] = net[i + 4]
        /\ ~(Len(net) >= 4) => closed /\ net' = <<>>
    BY <1>1, ReadExactEffect DEF ReadsHead
  <1>4. /\ h[1] # 5 \/ h[2] # 0 \/ h[4] \notin {1, 3, 4} => pc' = "OkNoTls" /\ skip' = 0
        /\ ~(h[1] # 5 \/ h[2] # 0 \/ h[4] \notin {1, 3, 4}) =>
             /\ h[4] = 1 => pc' = "skip" /\ skip' = 6
             /\ h[4] = 3 => pc' = "length" /\ skip' = 0
             /\ h[4] = 4 => pc' = "skip" /\ skip' = 18
    BY DEF ReadsHead
  <1> HIDE DEF h
  <1>5. \/ pc' = "OkNoTls" /\ skip' = 0 /\ trouble
        \/ pc' = "skip" /\ skip' = 6 /\ server = "bound4" /\ net' = <<>>
        \/ pc' = "skip" /\ skip' = 18 /\ server = "bound16" /\ net' = <<>>
        \/ pc' = "length" /\ skip' = 0 /\ server = "boundname" /\ net' = <<>>
        \/ pc' = "skip" /\ skip' \in {6, 18} /\ server = "granted" /\ Len(net') = skip'
        \/ /\ pc' = "length" /\ skip' = 0 /\ server = "granted"
           /\ Len(net') = NameLen + 3 /\ net'[1] = NameLen
    <2>1. CASE server = "requested" /\ net = <<>>
      BY <1>2, <1>3, <1>4, <2>1 DEF ReadsHead, TroubleOK
    <2>2. CASE server = "refused" /\ net = <<5, 5, 0, 1>>
      BY <1>2, <1>4, <2>2 DEF ReadsHead, TroubleOK
    <2>3. CASE server = "bound4" /\ AnswerHead(1)
      BY <1>1, <1>2, <1>3, <1>4, <2>3 DEF AnswerHead
    <2>4. CASE server = "bound16" /\ AnswerHead(4)
      BY <1>1, <1>2, <1>3, <1>4, <2>4 DEF AnswerHead
    <2>5. CASE server = "boundname" /\ AnswerHead(3)
      BY <1>1, <1>2, <1>3, <1>4, <2>5 DEF AnswerHead
    <2>6. ASSUME server = "granted", NEW atyp \in {1, 3, 4}, WholeAnswer(atyp)
          PROVE  \/ /\ pc' = "skip" /\ skip' \in {6, 18} /\ Len(net') = skip'
                 \/ /\ pc' = "length" /\ skip' = 0
                    /\ Len(net') = NameLen + 3 /\ net'[1] = NameLen
      <3>1. NameLen \in Nat
        BY CheckAssumption
      <3>2. CASE atyp = 1
        BY <1>2, <1>3, <1>4, <2>6, <3>2 DEF WholeAnswer, BoundLen
      <3>3. CASE atyp = 4
        BY <1>2, <1>3, <1>4, <2>6, <3>3 DEF WholeAnswer, BoundLen
      <3>4. CASE atyp = 3
        <4>1. /\ Len(net) = NameLen + 7 /\ net[1] = 5 /\ net[2] = 0 /\ net[4] = 3
              /\ net[5] = NameLen
          BY <2>6, <3>1, <3>4 DEF WholeAnswer, BoundLen
        <4>2. Len(net) >= 4
          BY <3>1, <4>1
        <4>3. Len(net') = NameLen + 3 /\ net'[1] = net[5]
          BY <1>3, <3>1, <4>1, <4>2
        <4>4. h[1] = 5 /\ h[2] = 0 /\ h[4] = 3
          BY <1>2, <3>1, <4>1
        <4> QED BY <1>4, <4>1, <4>3, <4>4
      <3> QED BY <3>2, <3>3, <3>4
    <2> QED BY <2>1, <2>2, <2>3, <2>4, <2>5, <2>6 DEF HeadOK, ReadsHead
  <1>6. TypeOK'
    BY <1>3, <1>5 DEF ReadsHead, proxy, TypeOK, Result
  <1> QED
    BY <1>5, <1>6
    DEF ReadsHead, proxy, VerdictEarned, NoFalseBlame, HttpOK, HeaderOK,
        MethodOK, HeadOK, LengthOK, SkipOK, TlsOK, ProtocolOK, PassedOK, TroubleOK

(* The length of a name and the port are what is still to come. *)
LEMMA LengthKInv ==
  ASSUME KInv, ReadsLength
  PROVE  KInv'
  <1> USE CheckAssumption DEF KInv, Stage, Stage3, Socks
  <1>1. net \in Seq(Token)
    BY DEF TypeOK
  <1>2. Filled(1)[1] = IF 1 <= Len(net) THEN net[1] ELSE 0
    BY <1>1, FilledByte
  <1>3. /\ net' \in Seq(Token)
        /\ Len(net) >= 1 => Len(net') = Len(net) - 1
        /\ ~(Len(net) >= 1) => closed /\ net' = <<>>
    BY <1>1, ReadExactEffect DEF ReadsLength
  <1>4. \/ server = "boundname" /\ skip' = 2 /\ trouble
        \/ server = "granted" /\ skip' = NameLen + 2 /\ Len(net') = skip'
    <2>1. CASE server = "boundname" /\ net = <<>>
      BY <1>2, <1>3, <2>1 DEF ReadsLength, TroubleOK
    <2>2. CASE server = "granted" /\ Len(net) = NameLen + 3 /\ net[1] = NameLen
      BY <1>2, <1>3, <2>2 DEF ReadsLength
    <2> QED BY <2>1, <2>2 DEF LengthOK, ReadsLength
  <1>5. TypeOK'
    BY <1>3, <1>4 DEF ReadsLength, proxy, TypeOK
  <1> QED
    BY <1>4, <1>5
    DEF ReadsLength, proxy, VerdictEarned, NoFalseBlame, HttpOK, HeaderOK,
        MethodOK, HeadOK, LengthOK, SkipOK, TlsOK, ProtocolOK, PassedOK, TroubleOK

(* Behind the bound address nothing is left. *)
LEMMA SkipsKInv ==
  ASSUME KInv, Skips
  PROVE  KInv'
  <1> USE CheckAssumption DEF KInv, Stage, Stage3, Socks
  <1>1. net \in Seq(Token) /\ skip \in Nat
    BY DEF TypeOK
  <1>2. /\ net' \in Seq(Token)
        /\ Len(net) >= skip => Len(net') = Len(net) - skip
        /\ ~(Len(net) >= skip) => closed /\ net' = <<>>
    BY <1>1, ReadExactEffect DEF Skips
  <1>3. ~trouble => server = "granted" /\ net' = <<>>
    BY <1>1, <1>2 DEF Skips, SkipOK, TroubleOK
  <1>4. TypeOK'
    BY <1>2 DEF Skips, proxy, TypeOK
  <1> QED
    BY <1>3, <1>4
    DEF Skips, proxy, VerdictEarned, NoFalseBlame, HttpOK, HeaderOK,
        MethodOK, HeadOK, LengthOK, SkipOK, TlsOK, ProtocolOK, PassedOK, TroubleOK
(* The verdict of the TLS handshake. *)
LEMMA TlsKInv ==
  ASSUME KInv, CertificateValid \/ CertificateInvalid
  PROVE  KInv'
  <1> USE DEF KInv, Stage, Stage3, Socks
  <1>1. CASE CertificateValid
    <2>1. TypeOK'
      BY <1>1 DEF CertificateValid, proxy, TypeOK, Result
    <2>2. ~intercepts /\ listed \in speaks /\ "http" \in speaks
      BY <1>1 DEF CertificateValid, ProtocolOK, PassedOK, TypeOK, Protocols
    <2> QED
      BY <1>1, <2>1, <2>2
      DEF CertificateValid, proxy, VerdictEarned, NoFalseBlame, HttpOK, HeaderOK,
          MethodOK, HeadOK, LengthOK, SkipOK, TlsOK, ProtocolOK, PassedOK, TroubleOK
  <1>2. CASE CertificateInvalid
    <2>1. TypeOK'
      BY <1>2 DEF CertificateInvalid, proxy, TypeOK, Result
    <2>2. intercepts \/ trouble
      BY <1>2 DEF CertificateInvalid, TlsOK, TroubleOK
    <2> QED
      BY <1>2, <2>1, <2>2
      DEF CertificateInvalid, proxy, VerdictEarned, NoFalseBlame, HttpOK, HeaderOK,
          MethodOK, HeadOK, LengthOK, SkipOK, TlsOK, ProtocolOK, PassedOK, TroubleOK
  <1> QED BY <1>1, <1>2

(* A stage whose time is up. *)
LEMMA TimesOutKInv ==
  ASSUME KInv, TimesOut
  PROVE  KInv'
  <1> USE DEF KInv, Stage, Stage3, Socks
  <1>1. /\ pc \in {"tcp", "connect2", "status2"} => pc' = "Dead"
        /\ pc \in {"connect3", "status3", "method", "head", "tls"} => pc' = "OkNoTls"
        /\ pc \in {"drain", "skip"} => pc' = "tls"
        /\ pc = "length" => pc' = "skip"
    BY DEF TimesOut, AfterTimeout
  <1>2. trouble' /\ trouble' \in BOOLEAN
    BY DEF TimesOut
  <1>3. net' \in Seq(Token)
    <2>1. <<>> \in Seq(Token)
      OBVIOUS
    <2> QED BY <2>1 DEF TimesOut, TypeOK
  <1>4. skip' \in {0, 2} /\ (pc = "length" => skip' = 2) /\ pc \in Stage
    BY DEF TimesOut
  <1>5. TypeOK'
    BY <1>1, <1>2, <1>3, <1>4 DEF TimesOut, proxy, TypeOK, Result
  <1> QED
    BY <1>1, <1>2, <1>4, <1>5
    DEF TimesOut, proxy, VerdictEarned, NoFalseBlame, HttpOK, HeaderOK,
        MethodOK, HeadOK, LengthOK, SkipOK, TlsOK, ProtocolOK, PassedOK, TroubleOK

-----------------------------------------------------------------------------
(* The proxy closes the connection. *)
LEMMA ClosesKInv ==
  ASSUME KInv, Closes
  PROVE  KInv'
  <1> USE DEF KInv, Stage3, Socks
  <1>1. trouble' /\ trouble' \in BOOLEAN /\ closed' \in BOOLEAN
    BY DEF Closes
  <1>2. TypeOK'
    BY <1>1 DEF Closes, proxy, TypeOK
  <1>3. HeadOK'
    BY DEF Closes, HeadOK, AnswerHead, WholeAnswer
  <1> QED
    BY <1>1, <1>2, <1>3
    DEF Closes, proxy, VerdictEarned, NoFalseBlame, HttpOK, HeaderOK,
        MethodOK, LengthOK, SkipOK, TlsOK, ProtocolOK, PassedOK, TroubleOK
(* What holds of a step in which the proxy sends something and is then in next. *)
Sent(tokens, next) ==
  /\ TypeOK' /\ VerdictEarned' /\ NoFalseBlame' /\ PassedOK'
  /\ UNCHANGED <<pc, skip, listed, speaks, closed>> /\ ~closed
  /\ server' = next
  /\ trouble \/ next = "refused" => trouble'
  /\ ~trouble' => ~trouble /\ next # "refused" /\ tokens # <<BadLine>>

(* Whatever the proxy sends, the check stays where it is. *)
LEMMA SendsKeeps ==
  ASSUME KInv, NEW tokens \in Seq(Token), NEW next \in ServerState, Sends(tokens, next)
  PROVE  Sent(tokens, next)
  <1> USE DEF KInv
  <1>1. /\ trouble' \in BOOLEAN
        /\ trouble \/ next = "refused" \/ tokens = <<BadLine>> => trouble'
        /\ ~trouble' => ~trouble /\ next # "refused" /\ tokens # <<BadLine>>
    BY DEF Sends
  <1>2. net' \in Seq(Token)
    BY SendsEffect DEF TypeOK
  <1>3. UNCHANGED <<pc, skip, listed, speaks, intercepts, closed>> /\ ~closed
        /\ server' = next
    BY DEF Sends, proxy
  <1> QED BY <1>1, <1>2, <1>3 DEF Sent, TypeOK, VerdictEarned, NoFalseBlame, PassedOK

(* The answer to a CONNECT: only a proxy that speaks HTTP grants one. *)
LEMMA AnswersConnectKInv ==
  ASSUME KInv, AnswersConnect
  PROVE  KInv'
  <1> USE DEF KInv, Stage3, Socks
  <1>1. server = "asked" /\ net \in Seq(Token)
    BY DEF AnswersConnect, TypeOK
  <1>2. <<200>> \in Seq(Token) /\ <<403>> \in Seq(Token)
    BY DEF Token, BlankLine
  <1>3. CASE "http" \in speaks /\ Sends(<<200>>, "header")
    <2>1. ~(pc \in {"drain", "method", "head", "length", "skip"})
      BY <1>1 DEF HttpOK, MethodOK, HeadOK, LengthOK, SkipOK
    <2>2. "header" \in ServerState
      BY DEF ServerState
    <2>3. pc \in {"status2", "status3"} => net' = <<200>>
      BY <1>1, <1>2, <1>3, SendsEffect DEF HttpOK
    <2>4. Sent(<<200>>, "header")
      BY <1>2, <1>3, <2>2, SendsKeeps
    <2>5. HttpOK'
      BY <1>3, <2>3, <2>4 DEF Sent, HttpOK
    <2>6. HeaderOK'
      BY <2>1, <2>3, <2>4 DEF Sent, HeaderOK, HeaderFrom
    <2> QED
      BY <1>1, <2>1, <2>4, <2>5, <2>6
      DEF Sent, MethodOK, HeadOK, LengthOK, SkipOK, TlsOK, ProtocolOK, TroubleOK
  <1>4. CASE Sends(<<403>>, "refused")
    <2>1. ~(pc \in {"drain", "method", "head", "length", "skip"})
      BY <1>1 DEF HttpOK, MethodOK, HeadOK, LengthOK, SkipOK
    <2>2. "refused" \in ServerState
      BY DEF ServerState
    <2>3. pc \in {"status2", "status3"} => net' = <<403>>
      BY <1>1, <1>2, <1>4, SendsEffect DEF HttpOK
    <2>4. Sent(<<403>>, "refused")
      BY <1>2, <1>4, <2>2, SendsKeeps
    <2>5. HttpOK'
      BY <1>4, <2>1, <2>3, <2>4 DEF Sent, HttpOK
    <2>6. HeaderOK'
      BY <2>1, <2>3, <2>4 DEF Sent, HeaderOK, HeaderFrom
    <2> QED
      BY <1>1, <2>1, <2>4, <2>5, <2>6
      DEF Sent, MethodOK, HeadOK, LengthOK, SkipOK, TlsOK, ProtocolOK, TroubleOK
  <1> QED BY <1>3, <1>4 DEF AnswersConnect

(* One more line of the header, or its last. *)
LEMMA HeaderLineKInv ==
  ASSUME KInv, server = "header",
         NEW line \in {HeaderLine, BadLine, BlankLine},
         NEW next \in {"header", "granted"},
         line = BlankLine <=> next = "granted",
         Sends(<<line>>, next)
  PROVE  KInv'
  <1> USE DEF KInv, Stage3, Socks
  <1>1. <<line>> \in Seq(Token) /\ net \in Seq(Token) /\ next \in ServerState
    BY DEF Token, HeaderLine, BadLine, BlankLine, TypeOK, ServerState
  <1>2. ~(pc \in {"method", "head", "length", "skip"})
    BY DEF MethodOK, HeadOK, LengthOK, SkipOK
  <1>3. /\ net' \in Seq(Token) /\ Len(net') = Len(net) + 1
        /\ \A i \in 1..Len(net) : net'[i] = net[i]
        /\ net'[Len(net) + 1] = line
    <2>1. net' = net \o <<line>>
      BY DEF Sends
    <2> QED BY <1>1, <2>1
  <1>s. Sent(<<line>>, next)
    BY <1>1, SendsKeeps
  <1>4. ~trouble' => ~trouble /\ line # BadLine
    BY <1>s DEF Sent
  <1>5. pc' = pc /\ server' = next
    BY <1>s DEF Sent
  <1>6. ASSUME NEW n \in {1, 2}, HeaderFrom(n), Len(net) + 1 >= n, ~trouble'
        PROVE  HeaderFrom(n)'
    BY <1>1, <1>3, <1>4, <1>5, <1>6 DEF HeaderFrom
  <1>7. HeaderOK'
    BY <1>1, <1>3, <1>4, <1>5, <1>6 DEF HeaderOK
  <1> QED
    BY <1>1, <1>2, <1>7, <1>s
    DEF Sent, HttpOK, MethodOK, HeadOK, LengthOK, SkipOK, TlsOK, ProtocolOK, TroubleOK

(* The header goes on. *)
LEMMA ContinuesHeaderKInv ==
  ASSUME KInv, ContinuesHeader
  PROVE  KInv'
  <1>1. CASE Sends(<<HeaderLine>>, "header")
    BY <1>1, HeaderLineKInv DEF ContinuesHeader, HeaderLine, BlankLine
  <1>2. CASE Sends(<<BadLine>>, "header")
    BY <1>2, HeaderLineKInv DEF ContinuesHeader, BadLine, BlankLine
  <1>3. CASE Sends(<<BlankLine>>, "granted")
    BY <1>3, HeaderLineKInv DEF ContinuesHeader
  <1> QED BY <1>1, <1>2, <1>3 DEF ContinuesHeader
(* How a proxy may answer a greeting. *)
MethodAnswers == {<<5, 0>>, <<5, 255>>, <<400>>}

(* The answer to the greeting: only a proxy that speaks SOCKS5 accepts it. *)
LEMMA AnswersGreetingKInv ==
  ASSUME KInv, AnswersGreeting
  PROVE  KInv'
  <1> USE DEF KInv, Stage3, Socks, MethodAnswers
  <1>1. server = "greeted" /\ net \in Seq(Token)
    BY DEF AnswersGreeting, TypeOK
  <1>2. pc \notin {"status2", "status3", "drain", "head", "length", "skip"}
    BY <1>1 DEF HttpOK, HeadOK, LengthOK, SkipOK
  <1>3. ASSUME NEW tokens \in MethodAnswers,
               NEW next \in {"ready", "refused"}, Sends(tokens, next),
               next = "ready" => tokens = <<5, 0>> /\ "socks5" \in speaks,
               next = "refused" => tokens # <<5, 0>>
        PROVE  KInv'
    <2>0. /\ <<5, 0>> \in Seq(Token) /\ <<5, 255>> \in Seq(Token)
          /\ <<400>> \in Seq(Token)
      BY DEF Token, BlankLine
    <2>1. tokens \in Seq(Token) /\ next \in ServerState
      BY <2>0 DEF ServerState
    <2>2. Sent(tokens, next)
      BY <1>3, <2>1, SendsKeeps
    <2>3. pc = "method" => net' = tokens
      BY <1>1, <1>3, <2>1, SendsEffect DEF MethodOK
    <2>4. MethodOK'
      BY <1>3, <2>2, <2>3 DEF Sent, MethodOK
    <2> QED
      BY <1>1, <1>2, <1>3, <2>2, <2>4
      DEF Sent, HttpOK, HeaderOK, HeadOK, LengthOK, SkipOK, TlsOK, ProtocolOK,
          TroubleOK
  <1>4. <<5, 255>> # <<5, 0>> /\ <<400>> # <<5, 0>>
    OBVIOUS
  <1> QED BY <1>3, <1>4 DEF AnswersGreeting

(* The answer to the request. *)
LEMMA AnswersRequestKInv ==
  ASSUME KInv, AnswersRequest
  PROVE  KInv'
  <1> USE DEF KInv, Stage3, Socks
  <1>1. server = "requested" /\ net \in Seq(Token)
    BY DEF AnswersRequest, TypeOK
  <1>2. pc \notin {"status2", "status3", "drain", "method", "length", "skip"}
    BY <1>1 DEF HttpOK, MethodOK, LengthOK, SkipOK
  <1>3. ASSUME NEW tokens \in Seq(Token), Sends(tokens, "refused"),
               tokens = <<5, 5, 0, 1>>
        PROVE  KInv'
    <2>1. Sent(tokens, "refused")
      BY <1>3, SendsKeeps DEF ServerState
    <2>2. pc = "head" => net' = tokens
      BY <1>1, <1>3, SendsEffect DEF HeadOK
    <2>3. HeadOK'
      BY <1>3, <2>1, <2>2 DEF Sent, HeadOK
    <2> QED
      BY <1>1, <1>2, <2>1, <2>3
      DEF Sent, HttpOK, HeaderOK, MethodOK, LengthOK, SkipOK, TlsOK, ProtocolOK,
          TroubleOK
  <1>4. ASSUME NEW next \in {"bound4", "bound16", "boundname"}, NEW atyp \in {1, 3, 4},
               Sends(<<5, 0, 0, atyp>>, next),
               next = "bound4" <=> atyp = 1, next = "bound16" <=> atyp = 4
        PROVE  KInv'
    <2>0. <<5, 0, 0, atyp>> \in Seq(Token) /\ next \in ServerState
      BY DEF Token, BlankLine, ServerState
    <2>1. Sent(<<5, 0, 0, atyp>>, next)
      BY <1>4, <2>0, SendsKeeps
    <2>2. pc = "head" => net' = <<5, 0, 0, atyp>>
      BY <1>1, <1>4, <2>0, SendsEffect DEF HeadOK
    <2>3. pc = "head" => AnswerHead(atyp)'
      BY <1>4, <2>2 DEF AnswerHead
    <2>4. HeadOK'
      BY <1>4, <2>1, <2>3 DEF Sent, HeadOK
    <2> QED
      BY <1>1, <1>2, <1>4, <2>1, <2>4
      DEF Sent, HttpOK, HeaderOK, MethodOK, LengthOK, SkipOK, TlsOK, ProtocolOK,
          TroubleOK
  <1>5. <<5, 5, 0, 1>> \in Seq(Token)
    BY DEF Token, BlankLine
  <1> HIDE DEF KInv
  <1>6. CASE Sends(<<5, 5, 0, 1>>, "refused")
    BY <1>3, <1>5, <1>6
  <1>7. CASE Sends(<<5, 0, 0, 1>>, "bound4")
    BY <1>4, <1>7
  <1>8. CASE Sends(<<5, 0, 0, 4>>, "bound16")
    BY <1>4, <1>8
  <1>9. CASE Sends(<<5, 0, 0, 3>>, "boundname")
    BY <1>4, <1>9
  <1> QED BY <1>6, <1>7, <1>8, <1>9 DEF AnswersRequest
(* The bound address, as long as the type of address and the name say. *)
LEMMA BoundKInv ==
  ASSUME KInv, NEW tokens \in Seq(Token), Sends(tokens, "granted"),
         NEW atyp \in {1, 3, 4},
         server = (IF atyp = 1 THEN "bound4" ELSE IF atyp = 4 THEN "bound16" ELSE "boundname"),
         Len(tokens) = BoundLen(atyp), atyp = 3 => tokens[1] = NameLen
  PROVE  KInv'
  <1> USE DEF KInv, Stage3, Socks
  <1>0. NameLen \in Nat /\ net \in Seq(Token)
    BY CheckAssumption DEF TypeOK
  <1>1. server \in {"bound4", "bound16", "boundname"}
    OBVIOUS
  <1>2. pc \notin {"status2", "status3", "drain", "method"}
    BY <1>1 DEF HttpOK, MethodOK
  <1>3. Sent(tokens, "granted")
    BY SendsKeeps DEF ServerState
  <1>4. /\ Len(net') = Len(net) + Len(tokens) /\ net' \in Seq(Token)
        /\ \A i \in 1..Len(net) : net'[i] = net[i]
        /\ \A i \in 1..Len(tokens) : net'[Len(net) + i] = tokens[i]
        /\ net = <<>> => net' = tokens
    BY <1>0, SendsEffect
  <1>5. HeadOK'
    <2> SUFFICES ASSUME pc = "head" PROVE WholeAnswer(atyp)'
      BY <1>3 DEF Sent, HeadOK
    <2>1. AnswerHead(atyp)
      BY <1>1 DEF HeadOK
    <2>2. Len(tokens) >= 1
      BY <1>0 DEF BoundLen
    <2>3. net'[5] = tokens[1]
      BY <1>4, <2>1, <2>2 DEF AnswerHead
    <2> QED BY <1>0, <1>4, <2>1, <2>3 DEF AnswerHead, WholeAnswer
  <1>6. LengthOK'
    <2> SUFFICES ASSUME pc = "length"
                 PROVE  Len(net') = NameLen + 3 /\ net'[1] = NameLen
      BY <1>3 DEF Sent, LengthOK
    <2>1. server = "boundname" /\ net = <<>>
      BY <1>1 DEF LengthOK
    <2> QED BY <1>4, <2>1 DEF BoundLen
  <1>7. SkipOK'
    <2> SUFFICES ASSUME pc = "skip", ~trouble PROVE Len(net') = skip
      BY <1>3, <1>1 DEF Sent, SkipOK
    <2>1. net = <<>> /\ \/ server = "bound4" /\ skip = 6
                        \/ server = "bound16" /\ skip = 18
      BY <1>1 DEF SkipOK
    <2> QED BY <1>4, <2>1 DEF BoundLen
  <1> QED
    BY <1>1, <1>2, <1>3, <1>5, <1>6, <1>7
    DEF Sent, HttpOK, HeaderOK, MethodOK, TlsOK, ProtocolOK, TroubleOK

(* Padding is typed and has its length. *)
LEMMA ZerosTyped ==
  ASSUME NEW n \in Nat
  PROVE  Zeros(n) \in Seq(Token) /\ Len(Zeros(n)) = n
  BY DEF Zeros, Token, BlankLine

(* The bound address is sent. *)
LEMMA SendsBoundKInv ==
  ASSUME KInv, SendsBound
  PROVE  KInv'
  <1>1. CASE server = "bound4" /\ Sends(Zeros(6), "granted")
    <2>1. Len(Zeros(6)) = BoundLen(1) /\ Zeros(6) \in Seq(Token)
      BY ZerosTyped DEF BoundLen
    <2> QED BY <1>1, <2>1, BoundKInv
  <1>2. CASE server = "bound16" /\ Sends(Zeros(18), "granted")
    <2>0. 18 \in Nat /\ BoundLen(4) = 18
      BY DEF BoundLen
    <2>1. Len(Zeros(18)) = BoundLen(4) /\ Zeros(18) \in Seq(Token)
      BY <2>0, ZerosTyped
    <2> QED BY <1>2, <2>1, BoundKInv
  <1>3. CASE server = "boundname" /\ Sends(<<NameLen>> \o Zeros(NameLen + 2), "granted")
    <2> DEFINE tokens == <<NameLen>> \o Zeros(NameLen + 2)
    <2>1. NameLen \in Nat /\ <<NameLen>> \in Seq(Token)
      BY CheckAssumption DEF Token, BlankLine
    <2>2. Zeros(NameLen + 2) \in Seq(Token) /\ Len(Zeros(NameLen + 2)) = NameLen + 2
      BY <2>1, ZerosTyped
    <2>3. tokens \in Seq(Token) /\ Len(tokens) = BoundLen(3) /\ tokens[1] = NameLen
      BY <2>1, <2>2 DEF BoundLen
    <2> HIDE DEF tokens
    <2>4. Sends(tokens, "granted")
      BY <1>3 DEF tokens
    <2> QED BY <1>3, <2>3, <2>4, BoundKInv
  <1> QED BY <1>1, <1>2, <1>3 DEF SendsBound

-----------------------------------------------------------------------------
(* Every step of the check and of the proxy. *)
LEMMA StepKInv ==
  ASSUME KInv, Next
  PROVE  KInv'
  <1>1. CASE Check
    BY <1>1, BeginsKInv, Status2KInv, OpensKInv, Status3KInv, DrainsKInv,
       DrainBreaksKInv, MethodKInv, HeadKInv, LengthKInv, SkipsKInv, TlsKInv,
       TimesOutKInv DEF Check
  <1>2. CASE Peer
    BY <1>2, AnswersConnectKInv, ContinuesHeaderKInv, AnswersGreetingKInv,
       AnswersRequestKInv, SendsBoundKInv, ClosesKInv DEF Peer
  <1> QED BY <1>1, <1>2, BeginsKInv DEF Next

(* A step that changes nothing. *)
LEMMA StutterKInv ==
  ASSUME KInv, UNCHANGED vars
  PROVE  KInv'
  BY DEF vars, KInv, TypeOK, VerdictEarned, NoFalseBlame, HttpOK, HeaderOK,
         HeaderFrom, MethodOK, HeadOK, AnswerHead, WholeAnswer, LengthOK, SkipOK,
         TlsOK, ProtocolOK, PassedOK, TroubleOK

(* The inductive invariant. *)
LEMMA AlwaysKInv == Spec => []KInv
  <1>1. KInv /\ [Next]_vars => KInv'
    BY StepKInv, StutterKInv
  <1> QED BY InitKInv, <1>1, PTL DEF Spec

(* Stage, buffers and streams of check_single have their types: what it is to
   skip is the length of an address that can be there, whatever bytes come.  *)
THEOREM CheckTypeCorrect == Spec => []TypeOK
  BY AlwaysKInv, PTL DEF KInv

(* check_single gives Ok only to a proxy that does not intercept TLS and opened
   a tunnel by the protocol it is listed with, and takes none for working that
   speaks no protocol of the gateway: for names and headers of any length.    *)
THEOREM VerdictsEarned == Spec => []VerdictEarned
  BY AlwaysKInv, PTL DEF KInv

(* check_single misplaces no byte of an answer: a proxy that neither refuses nor
   closes, is in time and sends text is not found unclean, for names and
   headers of any length.                                                   *)
THEOREM NobodyFalselyBlamed == Spec => []NoFalseBlame
  BY AlwaysKInv, PTL DEF KInv
=============================================================================
