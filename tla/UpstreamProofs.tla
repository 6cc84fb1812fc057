--------------------------- MODULE UpstreamProofs ---------------------------
(***************************************************************************)
(* The handshake of a client connection, for every limit on the response   *)
(* to CONNECT, every length of a bound name and any bytes of the target.   *)
(***************************************************************************)
EXTENDS Upstream, SequenceTheorems, TLAPS

Byte == 0..TargetByte

(* A response to CONNECT whose first blank line ends at e, with the bytes of
   the target behind it.                                                    *)
ResponseTo(w, e) ==
  /\ BlankAt(w, e)
  /\ \A i \in 4..(e - 1) : ~BlankAt(w, i)
  /\ \A i \in (e + 1)..Len(w) : w[i] = TargetByte

(* The last bytes on their way are those of the target. *)
TargetTail ==
  /\ Len(net) >= sent
  /\ \A i \in (Len(net) - sent + 1)..Len(net) : net[i] = TargetByte

(* Before the first write the proxy is silent. *)
UStartOK ==
  pc \in {"idle", "connect", "start"} =>
    server = "idle" /\ net = <<>> /\ sent = 0 /\ buf = <<>>

(* What has been read and what is on its way are one response, of which the
   end of the header has not been read.                                     *)
UHttpOK ==
  pc = "http" =>
    /\ proto = "http"
    /\ \/ server = "asked" /\ buf = <<>> /\ net = <<>> /\ sent = 0
       \/ /\ server \in {"granted", "refused"}
          /\ \E e \in 4..(Len(buf) + Len(net)) :
               /\ e > Len(buf)
               /\ ResponseTo(buf \o net, e)
               /\ (buf \o net)[1] = IF server = "granted" THEN 200 ELSE 403

(* SOCKS5: the method, *)
UMethodOK ==
  pc = "method" =>
    /\ proto = "socks5" /\ sent = 0
    /\ \/ server = "greeted" /\ net = <<>>
       \/ server = "ready" /\ net = <<5, 0>>
       \/ server = "auth" /\ net = <<5, 2>>
       \/ server = "refused" /\ net \in {<<5, 255>>, <<4, 0>>}

(* the reply, whole, and the bytes of the target behind it, *)
UHeadOK ==
  pc = "head" =>
    /\ proto = "socks5"
    /\ \/ server \in {"asked", "auth"} /\ net = <<>> /\ sent = 0
       \/ /\ server = "refused"
          /\ net = <<1, 1>> \/ (Len(net) = 10 /\ net[1] = 5 /\ net[2] = 5)
       \/ /\ server = "granted" /\ TargetTail
          /\ net[1] = 5 /\ net[2] = 0
          /\ \/ net[4] = 1 /\ Len(net) = 10 + sent
             \/ net[4] = 4 /\ Len(net) = 22 + sent
             \/ \E n \in 0..255 : net[4] = 3 /\ net[5] = n /\ Len(net) = 7 + n + sent

(* what is left of it. *)
UBoundOK ==
  pc = "bound" =>
    /\ proto = "socks5" /\ server = "granted" /\ TargetTail
    /\ \/ \E n \in 0..255 : skip = 0 /\ net[1] = n /\ Len(net) = 3 + n + sent
       \/ skip > 0 /\ Len(net) = skip + sent

UTunnelOK ==
  pc = "ok" =>
    /\ server = "granted"
    /\ \A i \in 1..Len(net) : net[i] = TargetByte
    /\ proto = "socks5" => Len(net) = sent

UInv ==
  /\ TypeOK
  /\ UStartOK /\ UHttpOK /\ UMethodOK /\ UHeadOK /\ UBoundOK /\ UTunnelOK
  /\ pc # "http" => buf = <<>>

-----------------------------------------------------------------------------
(* The streams in terms of their bytes. *)
LEMMA UBytes ==
  ASSUME TypeOK
  PROVE  net \in Seq(Byte) /\ buf \in Seq(Byte)
  BY DEF TypeOK, Byte

(* read_exact takes n bytes, which are there. *)
LEMMA UReadExactEffect ==
  ASSUME net \in Seq(Byte), NEW n \in Nat, ReadExact(n)
  PROVE  /\ net' \in Seq(Byte) /\ Len(net) >= n /\ Len(net') = Len(net) - n
         /\ \A i \in 1..Len(net') : net'[i] = net[i + n]
  <1>1. net' = SubSeq(net, n + 1, Len(net)) /\ Len(net) >= n
    BY DEF ReadExact
  <1> QED BY <1>1

(* Reading within the answer leaves the bytes of the target behind it. *)
LEMMA UReadKeepsTail ==
  ASSUME net \in Seq(Byte), sent \in Nat, sent' = sent, NEW n \in Nat,
         ReadExact(n), TargetTail, Len(net) >= n + sent
  PROVE  TargetTail'
  <1>1. /\ net' \in Seq(Byte) /\ Len(net') = Len(net) - n
        /\ \A i \in 1..Len(net') : net'[i] = net[i + n]
    BY UReadExactEffect
  <1>2. Len(net) \in Nat /\ Len(net') \in Nat
    BY <1>1
  <1>3. ASSUME NEW i \in (Len(net') - sent + 1)..Len(net')
        PROVE  net'[i] = TargetByte
    <2>1. i \in 1..Len(net') /\ i + n \in (Len(net) - sent + 1)..Len(net)
      BY <1>1, <1>2
    <2> QED BY <1>1, <2>1 DEF TargetTail
  <1> QED BY <1>1, <1>2, <1>3 DEF TargetTail

(* What the proxy sends comes behind what it has sent. *)
LEMMA USendsEffect ==
  ASSUME net \in Seq(Byte), NEW bytes \in Seq(Byte), NEW next, Sends(bytes, next)
  PROVE  /\ net' \in Seq(Byte) /\ net' = net \o bytes
         /\ net = <<>> => net' = bytes
         /\ server' = next
         /\ UNCHANGED <<pc, proto, warm, long, skip, buf, closed, sent>>
  <1>1. net' = net \o bytes
    BY DEF Sends
  <1>2. net = <<>> => net' = bytes
    BY <1>1
  <1> QED BY <1>1, <1>2 DEF Sends, task

-----------------------------------------------------------------------------
(* Nothing has begun. *)
LEMMA UInitInv ==
  ASSUME Init
  PROVE  UInv
  <1>1. <<>> \in Seq(0..TargetByte) /\ Len(<<>>) = 0
    OBVIOUS
  <1>2. warm \in BOOLEAN /\ long \in BOOLEAN /\ closed \in BOOLEAN
    BY DEF Init
  <1>3. TypeOK
    BY <1>1, <1>2, UpstreamAssumption DEF Init, TypeOK
  <1> QED
    BY <1>3
    DEF Init, UInv, UStartOK, UHttpOK, UMethodOK, UHeadOK, UBoundOK, UTunnelOK

(* The first steps, up to the first write. *)
LEMMA UBeginsInv ==
  ASSUME UInv,
         \/ \E p \in {"http", "socks5"}, w, l \in BOOLEAN : Begin(p, w, l)
         \/ Connected \/ ConnectFails \/ Writes
  PROVE  UInv'
  <1> USE DEF UInv, Handshake
  <1>1. ASSUME NEW p \in {"http", "socks5"}, NEW w \in BOOLEAN, NEW l \in BOOLEAN,
               Begin(p, w, l)
        PROVE  UInv'
    BY <1>1
    DEF Begin, peer, TypeOK, UStartOK, UHttpOK, UMethodOK, UHeadOK,
        UBoundOK, UTunnelOK
  <1>2. CASE Connected \/ ConnectFails
    BY <1>2
    DEF Connected, ConnectFails, task, peer, TypeOK, UStartOK,
        UHttpOK, UMethodOK, UHeadOK, UBoundOK, UTunnelOK
  <1>3. CASE Writes
    BY <1>3
    DEF Writes, task, TypeOK, UStartOK, UHttpOK, UMethodOK, UHeadOK,
        UBoundOK, UTunnelOK
  <1> QED BY <1>1, <1>2, <1>3
(* A read moves the front of what is on its way behind what has been read. *)
LEMMA ReadSplits ==
  ASSUME NEW S, NEW p \in Seq(S), NEW q \in Seq(S), NEW n \in 1..Len(q)
  PROVE  (p \o SubSeq(q, 1, n)) \o SubSeq(q, n + 1, Len(q)) = p \o q
  <1> DEFINE f == SubSeq(q, 1, n)
             g == SubSeq(q, n + 1, Len(q))
  <1>1. f \o g = q
    BY ConcatAdjacentSubSeq, SubSeqFull
  <1>2. f \in Seq(S) /\ g \in Seq(S)
    OBVIOUS
  <1> HIDE DEF f, g
  <1>3. ASSUME NEW x \in Seq(S), NEW y \in Seq(S)
        PROVE  (p \o x) \o y = p \o (x \o y)
    BY SMTT(60)
  <1>4. (p \o f) \o g = p \o (f \o g)
    BY <1>2, <1>3
  <1>5. (p \o f) \o g = p \o q
    BY <1>1, <1>4
  <1> QED BY <1>5 DEF f, g

(* The two parts of a stream, by their bytes. *)
LEMMA ConcatParts ==
  ASSUME NEW S, NEW p \in Seq(S), NEW q \in Seq(S)
  PROVE  /\ Len(p \o q) = Len(p) + Len(q) /\ Len(p) \in Nat /\ Len(q) \in Nat
         /\ \A i \in 1..Len(p) : (p \o q)[i] = p[i]
         /\ \A i \in 1..Len(q) : (p \o q)[Len(p) + i] = q[i]
  OBVIOUS

(* A read of the response: all of it, the part that is read included, is what
   it was; if the end of the header has been read, only bytes of the target
   are left, and the status tells whether the proxy has granted.            *)
LEMMA UHttpReadsInv ==
  ASSUME UInv, NEW n \in 1..Len(net), HttpReads(n)
  PROVE  UInv'
  <1> DEFINE b == buf \o SubSeq(net, 1, n)
             w == buf \o net
  <1>1. net \in Seq(Byte) /\ buf \in Seq(Byte) /\ Len(net) \in Nat /\ Len(buf) \in Nat
    BY UBytes DEF UInv
  <1>2. /\ b \in Seq(Byte) /\ Len(b) = Len(buf) + n
        /\ w \in Seq(Byte) /\ Len(w) = Len(buf) + Len(net)
    BY <1>1
  <1>3. net' \in Seq(Byte) /\ Len(net') = Len(net) - n /\ b \o net' = w
    <2>1. net' = SubSeq(net, n + 1, Len(net))
      BY DEF HttpReads
    <2>2. net' \in Seq(Byte) /\ Len(net') = Len(net) - n
      BY <1>1, <2>1
    <2> QED BY <1>1, <2>1, <2>2, ReadSplits
  <1>4. /\ pc = "http" /\ Len(b) <= MaxResponse
        /\ FindHeaderEnd(b) => /\ pc' = IF b[1] = 200 THEN "ok" ELSE "err"
                               /\ buf' = <<>>
        /\ ~FindHeaderEnd(b) => buf' = b /\ pc' = pc
        /\ UNCHANGED <<proto, warm, long, skip, server, closed, sent>>
    BY <1>2 DEF HttpReads, task
  <1>5. net # <<>>
    BY <1>1
  <1>6. PICK e \in 4..Len(w) :
          /\ e > Len(buf) /\ ResponseTo(w, e)
          /\ w[1] = IF server = "granted" THEN 200 ELSE 403
    BY <1>2, <1>4, <1>5 DEF UInv, UHttpOK
  <1>7. proto = "http" /\ server \in {"granted", "refused"}
    BY <1>4, <1>5 DEF UInv, UHttpOK
  <1> HIDE DEF b, w
  <1>8. /\ Len(w) = Len(b) + Len(net') /\ Len(b) \in Nat /\ Len(net') \in Nat
        /\ \A i \in 1..Len(b) : w[i] = b[i]
        /\ \A i \in 1..Len(net') : w[Len(b) + i] = net'[i]
    <2> DEFINE c == b \o net'
    <2>0. b \in Seq(Byte) /\ net' \in Seq(Byte)
      BY <1>2, <1>3
    <2>1. /\ Len(c) = Len(b) + Len(net') /\ Len(b) \in Nat /\ Len(net') \in Nat
          /\ \A i \in 1..Len(b) : c[i] = b[i]
          /\ \A i \in 1..Len(net') : c[Len(b) + i] = net'[i]
      BY <2>0, ConcatParts
    <2> HIDE DEF c
    <2>2. c = w
      BY <1>3 DEF c
    <2> QED BY <2>1, <2>2
  <1>9. FindHeaderEnd(b) <=> Len(b) >= e
    <2>1. ASSUME NEW i \in 4..Len(b) PROVE BlankAt(b, i) <=> BlankAt(w, i)
      <3>1. {i - 3, i - 2, i - 1, i} \subseteq 1..Len(b)
        BY <1>8
      <3> QED BY <1>8, <3>1 DEF BlankAt
    <2>2. ASSUME NEW i \in 4..Len(b), BlankAt(b, i) PROVE Len(b) >= e
      <3>1. BlankAt(w, i)
        BY <2>1, <2>2
      <3>2. i \notin 4..(e - 1)
        BY <1>6, <3>1 DEF ResponseTo
      <3> QED BY <1>6, <1>8, <3>2
    <2>3. ASSUME Len(b) >= e PROVE e \in 4..Len(b) /\ BlankAt(b, e)
      <3>1. e \in 4..Len(b)
        BY <1>6, <1>8, <2>3
      <3> QED BY <1>6, <2>1, <3>1 DEF ResponseTo
    <2> QED BY <2>2, <2>3 DEF FindHeaderEnd
  <1>10. TypeOK'
    <2>1. <<>> \in Seq(Byte) /\ Len(<<>>) = 0
      OBVIOUS
    <2>2. buf' \in Seq(Byte) /\ Len(buf') <= MaxResponse
      <3>1. buf' = b \/ buf' = <<>>
        BY <1>4
      <3>2. MaxResponse \in Nat
        BY UpstreamAssumption
      <3>3. CASE buf' = b
        BY <1>2, <1>4, <3>3
      <3>4. CASE buf' = <<>>
        BY <2>1, <3>2, <3>4
      <3> QED BY <3>1, <3>3, <3>4
    <2>3. pc' \in {"http", "ok", "err"}
      BY <1>4
    <2>4. TypeOK
      BY DEF UInv
    <2> QED BY <1>3, <1>4, <2>2, <2>3, <2>4 DEF TypeOK, Handshake, Byte
  <1>11. CASE FindHeaderEnd(b)
    <2>1. Len(b) >= e /\ b[1] = w[1]
      BY <1>6, <1>8, <1>9, <1>11
    <2>2. ASSUME NEW i \in 1..Len(net') PROVE net'[i] = TargetByte
      <3>1. Len(b) + i \in (e + 1)..Len(w)
        BY <1>8, <2>1
      <3> QED BY <1>6, <1>8, <3>1 DEF ResponseTo
    <2>3. UTunnelOK'
      BY <1>4, <1>6, <1>7, <1>11, <2>1, <2>2 DEF UTunnelOK
    <2> QED
      BY <1>4, <1>10, <1>11, <2>3
      DEF UInv, UStartOK, UHttpOK, UMethodOK, UHeadOK, UBoundOK
  <1>12. CASE ~FindHeaderEnd(b)
    <2>1. buf' = b /\ pc' = "http" /\ e > Len(b)
      BY <1>4, <1>8, <1>9, <1>12
    <2>2. buf' \o net' = w /\ Len(buf') + Len(net') = Len(w)
      BY <1>3, <1>8, <2>1
    <2>3. UHttpOK'
      BY <1>4, <1>6, <1>7, <2>1, <2>2 DEF UHttpOK
    <2> QED
      BY <1>10, <2>1, <2>3
      DEF UInv, UStartOK, UMethodOK, UHeadOK, UBoundOK, UTunnelOK
  <1> QED BY <1>11, <1>12

(* A handshake that ends in an error says nothing of the stream. *)
LEMMA UErrorInv ==
  ASSUME UInv, TooLarge \/ Fails \/ TimesOut
  PROVE  UInv'
  <1>1. <<>> \in Seq(0..TargetByte) /\ Len(<<>>) = 0
    OBVIOUS
  <1>2. /\ pc' = "err" /\ buf' = <<>> /\ skip' \in {skip, 0}
        /\ UNCHANGED <<proto, warm, long, net, server, closed, sent>>
    BY DEF TooLarge, Fails, TimesOut, task, peer
  <1>3. TypeOK'
    BY <1>1, <1>2, UpstreamAssumption DEF UInv, TypeOK
  <1> QED
    BY <1>2, <1>3
    DEF UInv, UStartOK, UHttpOK, UMethodOK, UHeadOK, UBoundOK, UTunnelOK

(* The method: a refusal and another protocol end the handshake. *)
LEMMA UMethodInv ==
  ASSUME UInv, ReadsMethod
  PROVE  UInv'
  <1> USE DEF UInv, Handshake
  <1>1. net \in Seq(Byte)
    BY UBytes
  <1>2. net' \in Seq(Byte) /\ Len(net) >= 2 /\ Len(net') = Len(net) - 2
    BY <1>1, UReadExactEffect DEF ReadsMethod
  <1>3. UNCHANGED <<proto, warm, long, skip, buf, closed, sent>> /\ pc = "method"
    BY DEF ReadsMethod, task
  <1>4. \/ pc' = "err" /\ server' = server
        \/ pc' = "head" /\ server' \in {"asked", "auth"} /\ net' = <<>>
    BY <1>1, <1>2 DEF ReadsMethod, UMethodOK
  <1>5. TypeOK'
    BY <1>2, <1>3, <1>4 DEF TypeOK, Byte
  <1> QED
    BY <1>3, <1>4, <1>5
    DEF UStartOK, UHttpOK, UMethodOK, UHeadOK, UBoundOK, UTunnelOK
(* The reply: what is left of it is its address, then the bytes of the target. *)
LEMMA UHeadInv ==
  ASSUME UInv, ReadsHead
  PROVE  UInv'
  <1>1. net \in Seq(Byte) /\ sent \in Nat
    BY UBytes, UpstreamAssumption DEF UInv, TypeOK
  <1>2. /\ net' \in Seq(Byte) /\ Len(net) >= 4 /\ Len(net') = Len(net) - 4
        /\ \A i \in 1..Len(net') : net'[i] = net[i + 4]
    BY <1>1, UReadExactEffect DEF ReadsHead
  <1>3. UNCHANGED <<proto, warm, long, buf, server, closed, sent>> /\ pc = "head"
    BY DEF ReadsHead, task
  <1>4. Len(net) \in Nat /\ Len(net') \in Nat
    BY <1>1, <1>2
  <1>5. \/ pc' = "err" /\ skip' = skip
        \/ /\ pc' = "bound" /\ server = "granted" /\ TargetTail'
           /\ \/ \E n \in 0..255 : skip' = 0 /\ net'[1] = n /\ Len(net') = 3 + n + sent
              \/ skip' \in {6, 18} /\ Len(net') = skip' + sent
    <2>1. CASE server \in {"asked", "auth"} /\ net = <<>>
      BY <1>2, <2>1
    <2>2. CASE server = "refused" /\ (net = <<1, 1>> \/ (net[1] = 5 /\ net[2] = 5))
      BY <1>2, <2>2 DEF ReadsHead
    <2>3. CASE /\ server = "granted" /\ TargetTail /\ net[1] = 5 /\ net[2] = 0
               /\ \/ net[4] = 1 /\ Len(net) = 10 + sent
                  \/ net[4] = 4 /\ Len(net) = 22 + sent
                  \/ \E n \in 0..255 : net[4] = 3 /\ net[5] = n /\ Len(net) = 7 + n + sent
      <3>0. \E n \in Nat : Len(net) = 4 + n + sent
        <4>1. CASE \E n \in 0..255 : Len(net) = 7 + n + sent
          <5>1. PICK n \in 0..255 : Len(net) = 7 + n + sent
            BY <4>1
          <5>2. n + 3 \in Nat /\ Len(net) = 4 + (n + 3) + sent
            BY <1>1, <5>1
          <5> QED BY <5>2
        <4>2. CASE Len(net) = 10 + sent
          BY <1>1, <4>2
        <4>3. CASE Len(net) = 22 + sent
          BY <1>1, <4>3
        <4> QED BY <2>3, <4>1, <4>2, <4>3
      <3>1. Len(net) >= 4 + sent
        BY <1>1, <1>4, <3>0
      <3>2. TargetTail'
        BY <1>1, <1>3, <2>3, <3>1, UReadKeepsTail DEF ReadsHead
      <3>3. /\ pc' = "bound"
            /\ net[4] = 1 => skip' = 6
            /\ net[4] = 3 => skip' = 0
            /\ net[4] = 4 => skip' = 18
        BY <2>3 DEF ReadsHead
      <3>4. ASSUME NEW n \in 0..255, net[4] = 3, net[5] = n, Len(net) = 7 + n + sent
            PROVE  skip' = 0 /\ net'[1] = n /\ Len(net') = 3 + n + sent
        <4>1. Len(net') = 3 + n + sent /\ 1 \in 1..Len(net')
          BY <1>1, <1>2, <1>4, <3>4
        <4> QED BY <1>2, <3>3, <3>4, <4>1
      <3>5. CASE net[4] = 1 /\ Len(net) = 10 + sent
        BY <1>1, <1>2, <1>4, <2>3, <3>2, <3>3, <3>5
      <3>6. CASE net[4] = 4 /\ Len(net) = 22 + sent
        BY <1>1, <1>2, <1>4, <2>3, <3>2, <3>3, <3>6
      <3> QED BY <2>3, <3>2, <3>3, <3>4, <3>5, <3>6
    <2> QED BY <1>3, <2>1, <2>2, <2>3 DEF UInv, UHeadOK
  <1>6. proto = "socks5"
    BY <1>3 DEF UInv, UHeadOK
  <1>7. TypeOK'
    BY <1>2, <1>3, <1>5 DEF UInv, TypeOK, Handshake, Byte
  <1>8. UBoundOK'
    BY <1>3, <1>5, <1>6 DEF UBoundOK
  <1> QED
    BY <1>3, <1>5, <1>7, <1>8
    DEF UInv, UStartOK, UHttpOK, UMethodOK, UHeadOK, UTunnelOK

(* The length of a name. *)
LEMMA ULengthInv ==
  ASSUME UInv, ReadsLength
  PROVE  UInv'
  <1>1. net \in Seq(Byte) /\ sent \in Nat
    BY UBytes, UpstreamAssumption DEF UInv, TypeOK
  <1>2. net' \in Seq(Byte) /\ Len(net) >= 1 /\ Len(net') = Len(net) - 1
    BY <1>1, UReadExactEffect DEF ReadsLength
  <1>3. /\ UNCHANGED <<pc, proto, warm, long, buf, server, closed, sent>>
        /\ pc = "bound" /\ skip = 0 /\ skip' = net[1] + 2
    BY DEF ReadsLength, task
  <1>4. TargetTail /\ proto = "socks5" /\ server = "granted"
    BY <1>3 DEF UInv, UBoundOK
  <1>n. PICK n \in 0..255 : net[1] = n /\ Len(net) = 3 + n + sent
    BY <1>3 DEF UInv, UBoundOK
  <1>5. skip' \in Nat /\ skip' > 0 /\ Len(net') = skip' + sent /\ Len(net) >= 1 + sent
    BY <1>1, <1>2, <1>3, <1>n
  <1>6. TargetTail'
    BY <1>1, <1>3, <1>4, <1>5, UReadKeepsTail DEF ReadsLength
  <1>7. TypeOK'
    BY <1>2, <1>3, <1>5 DEF UInv, TypeOK, Byte
  <1> QED
    BY <1>3, <1>4, <1>5, <1>6, <1>7
    DEF UInv, UStartOK, UHttpOK, UMethodOK, UHeadOK, UBoundOK, UTunnelOK

(* Behind the bound address only the bytes of the target are left, all of them. *)
LEMMA USkipsInv ==
  ASSUME UInv, Skips
  PROVE  UInv'
  <1>1. net \in Seq(Byte) /\ sent \in Nat /\ skip \in Nat
    BY UBytes, UpstreamAssumption DEF UInv, TypeOK
  <1>2. net' \in Seq(Byte) /\ Len(net) >= skip /\ Len(net') = Len(net) - skip
    BY <1>1, UReadExactEffect DEF Skips
  <1>3. /\ UNCHANGED <<proto, warm, long, buf, server, closed, sent>>
        /\ pc = "bound" /\ pc' = "ok" /\ skip > 0 /\ skip' = 0
    BY DEF Skips, task
  <1>4. Len(net) = skip + sent /\ TargetTail /\ server = "granted"
    BY <1>3 DEF UInv, UBoundOK
  <1>5. TargetTail'
    <2>1. Len(net) >= skip + sent
      BY <1>1, <1>4
    <2> QED BY <1>1, <1>3, <1>4, <2>1, UReadKeepsTail DEF Skips
  <1>6. Len(net') = sent
    BY <1>1, <1>2, <1>4
  <1>7. \A i \in 1..Len(net') : net'[i] = TargetByte
    BY <1>1, <1>3, <1>5, <1>6 DEF TargetTail
  <1>8. TypeOK'
    BY <1>2, <1>3 DEF UInv, TypeOK, Byte
  <1> QED
    BY <1>3, <1>4, <1>6, <1>7, <1>8
    DEF UInv, UStartOK, UHttpOK, UMethodOK, UHeadOK, UBoundOK, UTunnelOK
-----------------------------------------------------------------------------
(* The proxy.  Whatever it sends, the streams keep their types. *)
LEMMA USendsTyped ==
  ASSUME UInv, NEW bytes \in Seq(Byte),
         NEW next \in {"ready", "auth", "granted", "refused"}, Sends(bytes, next)
  PROVE  TypeOK'
  <1>1. net \in Seq(Byte)
    BY UBytes DEF UInv
  <1>2. /\ net' \in Seq(Byte) /\ server' = next
        /\ UNCHANGED <<pc, proto, warm, long, skip, buf, closed, sent>>
    BY <1>1, USendsEffect
  <1> QED BY <1>2 DEF UInv, TypeOK, Byte

(* A run of zeros. *)
LEMMA UZeros ==
  ASSUME NEW n \in Nat
  PROVE  /\ Zeros(n) \in Seq(Byte) /\ Len(Zeros(n)) = n
         /\ \A i \in 1..n : Zeros(n)[i] = 0
  <1>1. 0 \in Byte
    BY DEF Byte, TargetByte
  <1> QED BY <1>1 DEF Zeros

(* Bytes with a run of zeros behind them. *)
LEMMA UPadded ==
  ASSUME NEW front \in Seq(Byte), NEW k \in Nat
  PROVE  /\ front \o Zeros(k) \in Seq(Byte)
         /\ Len(front \o Zeros(k)) = Len(front) + k
         /\ \A i \in 1..Len(front) : (front \o Zeros(k))[i] = front[i]
  <1> DEFINE z == Zeros(k)
  <1>1. z \in Seq(Byte) /\ Len(z) = k
    BY UZeros
  <1> HIDE DEF z
  <1>2. /\ front \o z \in Seq(Byte) /\ Len(front \o z) = Len(front) + k
        /\ \A i \in 1..Len(front) : (front \o z)[i] = front[i]
    BY <1>1
  <1> QED BY <1>2 DEF z

(* A header is a response that ends with its blank line. *)
LEMMA UHeader ==
  ASSUME NEW status \in Byte, NEW n \in Nat
  PROVE  /\ Header(status, n) \in Seq(Byte) /\ Len(Header(status, n)) = 3 * n + 5
         /\ Header(status, n)[1] = status
         /\ ResponseTo(Header(status, n), 3 * n + 5)
  <1> DEFINE e == 3 * n + 5
             h == Header(status, n)
  <1>1. {0, CR, LF} \subseteq Byte
    BY DEF Byte, TargetByte, CR, LF
  <1>2. /\ e \in Nat /\ e >= 5 /\ DOMAIN h = 1..e /\ h[1] = status
        /\ h[e - 1] = CR /\ h[e] = LF
    BY DEF Header
  <1>3. ASSUME NEW i \in 2..(e - 2)
        PROVE  /\ h[i] \in {0, CR, LF}
               /\ h[i] = CR <=> i % 3 = 2
               /\ h[i] = LF <=> i % 3 = 0
    <2>1. i # 1 /\ i # 3 * n + 4 /\ i # 3 * n + 5 /\ i \in 1..(3 * n + 5)
      BY <1>3
    <2>2. h[i] = CASE i % 3 = 1 -> 0 [] i % 3 = 2 -> CR [] i % 3 = 0 -> LF
      BY <2>1 DEF Header
    <2>3. i % 3 \in {0, 1, 2}
      BY <1>3
    <2> QED BY <2>2, <2>3 DEF CR, LF
  <1>4. h \in Seq(Byte) /\ Len(h) = e
    <2>1. ASSUME NEW i \in 1..e PROVE h[i] \in Byte
      <3>1. i = 1 \/ i = e - 1 \/ i = e \/ i \in 2..(e - 2)
        BY <1>2
      <3> QED BY <1>1, <1>2, <1>3, <3>1
    <2>2. h = [i \in 1..e |-> h[i]]
      BY DEF Header
    <2> HIDE DEF h, e
    <2> QED BY <1>2, <2>1, <2>2
  <1>5. (e - 3) % 3 = 2 /\ (e - 2) % 3 = 0
    OBVIOUS
  <1> HIDE DEF h
  <1>6. BlankAt(h, e)
    <2>1. e - 3 \in 2..(e - 2) /\ e - 2 \in 2..(e - 2)
      BY <1>2
    <2> QED BY <1>2, <1>3, <1>5, <2>1 DEF BlankAt
  <1>7. ASSUME NEW i \in 4..(e - 1) PROVE ~BlankAt(h, i)
    <2>1. i - 2 \in 2..(e - 2) /\ i - 1 \in 2..(e - 2)
      BY <1>2
    <2>2. BlankAt(h, i) => (i - 2) % 3 = 0 /\ (i - 1) % 3 = 2
      BY <1>3, <2>1 DEF BlankAt
    <2> QED BY <2>2
  <1>8. ResponseTo(h, e)
    BY <1>2, <1>4, <1>6, <1>7 DEF ResponseTo
  <1> QED BY <1>2, <1>4, <1>8 DEF h

(* The response to CONNECT. *)
LEMMA UHttpAnswersInv ==
  ASSUME UInv, HttpAnswers
  PROVE  UInv'
  <1>1. PICK n \in 0..MaxResponse :
          \/ Sends(Header(200, n), "granted")
          \/ Sends(Header(403, n), "refused")
    BY DEF HttpAnswers
  <1>2. PICK status \in {200, 403}, next \in {"granted", "refused"} :
          /\ Sends(Header(status, n), next)
          /\ status = IF next = "granted" THEN 200 ELSE 403
    BY <1>1
  <1> DEFINE h == Header(status, n)
  <1>3. n \in Nat
    BY UpstreamAssumption
  <1>4. /\ h \in Seq(Byte) /\ Len(h) = 3 * n + 5 /\ h[1] = status
        /\ ResponseTo(h, 3 * n + 5)
    <2>1. status \in Byte
      BY DEF Byte, TargetByte
    <2> QED BY <1>3, <2>1, UHeader
  <1> HIDE DEF h
  <1>5. Sends(h, next) /\ net \in Seq(Byte)
    BY <1>2, UBytes DEF h, UInv
  <1>6. /\ net = <<>> => net' = h
        /\ server' = next
        /\ UNCHANGED <<pc, proto, warm, long, skip, buf, closed, sent>>
    BY <1>4, <1>5, USendsEffect
  <1>7. TypeOK'
    BY <1>4, <1>5, USendsTyped
  <1>8. server = "asked" /\ proto = "http"
    BY DEF HttpAnswers
  <1>9. pc \notin {"idle", "connect", "start", "method", "head", "bound", "ok"}
    BY <1>8 DEF UInv, UStartOK, UMethodOK, UHeadOK, UBoundOK, UTunnelOK
  <1>10. ASSUME pc = "http" PROVE UHttpOK'
    <2>1. buf = <<>> /\ net = <<>>
      BY <1>8, <1>10 DEF UInv, UHttpOK
    <2>2. buf' = <<>> /\ net' = h /\ Len(buf') = 0
      BY <1>6, <2>1
    <2>3. buf' \o net' = h
      BY <1>4, <2>2
    <2>4. /\ 3 * n + 5 \in 4..(Len(buf') + Len(net')) /\ 3 * n + 5 > Len(buf')
          /\ ResponseTo(buf' \o net', 3 * n + 5)
          /\ (buf' \o net')[1] = IF server' = "granted" THEN 200 ELSE 403
      BY <1>2, <1>3, <1>4, <1>6, <2>2, <2>3
    <2>5. proto' = "http" /\ server' \in {"granted", "refused"}
      BY <1>6, <1>8
    <2> QED BY <2>4, <2>5 DEF UHttpOK
  <1> QED
    BY <1>6, <1>7, <1>9, <1>10
    DEF UInv, UStartOK, UHttpOK, UMethodOK, UHeadOK, UBoundOK, UTunnelOK
(* The method, and the rejection of what is taken for a password. *)
LEMMA UMethodAnswersInv ==
  ASSUME UInv, ChoosesMethod \/ AuthFails
  PROVE  UInv'
  <1>1. net \in Seq(Byte)
    BY UBytes DEF UInv
  <1>2. /\ <<5, 0>> \in Seq(Byte) /\ <<5, 2>> \in Seq(Byte) /\ <<5, 255>> \in Seq(Byte)
        /\ <<4, 0>> \in Seq(Byte) /\ <<1, 1>> \in Seq(Byte)
    BY DEF Byte, TargetByte
  <1>3. CASE ChoosesMethod
    <2>1. PICK bytes \in Seq(Byte), next \in {"ready", "auth", "refused"} :
            /\ Sends(bytes, next)
            /\ \/ next = "ready" /\ bytes = <<5, 0>>
               \/ next = "auth" /\ bytes = <<5, 2>>
               \/ next = "refused" /\ bytes \in {<<5, 255>>, <<4, 0>>}
      BY <1>2, <1>3 DEF ChoosesMethod
    <2>2. /\ net = <<>> => net' = bytes
          /\ server' = next
          /\ UNCHANGED <<pc, proto, warm, long, skip, buf, closed, sent>>
      BY <1>1, <2>1, USendsEffect
    <2>3. TypeOK'
      BY <2>1, USendsTyped
    <2>4. server = "greeted"
      BY <1>3 DEF ChoosesMethod
    <2>5. pc \notin {"idle", "connect", "start", "http", "head", "bound", "ok"}
      BY <2>4 DEF UInv, UStartOK, UHttpOK, UHeadOK, UBoundOK, UTunnelOK
    <2>6. UMethodOK'
      BY <2>1, <2>2, <2>4 DEF UInv, UMethodOK
    <2> QED
      BY <2>2, <2>3, <2>5, <2>6
      DEF UInv, UStartOK, UHttpOK, UHeadOK, UBoundOK, UTunnelOK
  <1>4. CASE AuthFails
    <2>1. Sends(<<1, 1>>, "refused") /\ pc = "head" /\ server = "auth"
      BY <1>4 DEF AuthFails
    <2>2. /\ net = <<>> => net' = <<1, 1>>
          /\ server' = "refused"
          /\ UNCHANGED <<pc, proto, warm, long, skip, buf, closed, sent>>
      BY <1>1, <1>2, <2>1, USendsEffect
    <2>3. TypeOK'
      BY <1>2, <2>1, USendsTyped
    <2>4. UHeadOK'
      BY <2>1, <2>2 DEF UInv, UHeadOK
    <2> QED
      BY <2>1, <2>2, <2>3, <2>4
      DEF UInv, UStartOK, UHttpOK, UMethodOK, UBoundOK, UTunnelOK
  <1> QED BY <1>3, <1>4

(* The reply to the request comes as a whole. *)
LEMMA USocksSendsInv ==
  ASSUME UInv, server = "asked", proto = "socks5",
         NEW bytes \in Seq(Byte), NEW next \in {"granted", "refused"},
         Sends(bytes, next), bytes[1] = 5,
         next = "refused" => Len(bytes) = 10 /\ bytes[2] = 5,
         next = "granted" =>
           /\ bytes[2] = 0
           /\ \/ bytes[4] = 1 /\ Len(bytes) = 10
              \/ bytes[4] = 4 /\ Len(bytes) = 22
              \/ \E n \in 0..255 : bytes[4] = 3 /\ bytes[5] = n /\ Len(bytes) = 7 + n
  PROVE  UInv'
  <1>1. net \in Seq(Byte)
    BY UBytes DEF UInv
  <1>2. /\ net = <<>> => net' = bytes
        /\ server' = next
        /\ UNCHANGED <<pc, proto, warm, long, skip, buf, closed, sent>>
    BY <1>1, USendsEffect
  <1>3. TypeOK'
    BY USendsTyped
  <1>4. pc \notin {"idle", "connect", "start", "http", "method", "bound", "ok"}
    BY DEF UInv, UStartOK, UHttpOK, UMethodOK, UBoundOK, UTunnelOK
  <1>5. ASSUME pc = "head" PROVE UHeadOK'
    <2>1. net' = bytes /\ sent' = 0
      BY <1>2, <1>5 DEF UInv, UHeadOK
    <2>2. TargetTail'
      BY <2>1 DEF TargetTail
    <2> QED BY <1>2, <2>1, <2>2 DEF UHeadOK
  <1> QED
    BY <1>2, <1>3, <1>4, <1>5
    DEF UInv, UStartOK, UHttpOK, UMethodOK, UHeadOK, UBoundOK, UTunnelOK

(* The reply to the request, for every type of address. *)
LEMMA USocksAnswersInv ==
  ASSUME UInv, SocksAnswers
  PROVE  UInv'
  <1>1. server = "asked" /\ proto = "socks5"
    BY DEF SocksAnswers
  <1>2. /\ <<5, 5, 0, 1>> \in Seq(Byte) /\ <<5, 0, 0, 1>> \in Seq(Byte)
        /\ <<5, 0, 0, 4>> \in Seq(Byte)
    BY DEF Byte, TargetByte
  <1>3. CASE Sends(<<5, 5, 0, 1>> \o Zeros(6), "refused")
    <2> DEFINE front == <<5, 5, 0, 1>>
               bytes == front \o Zeros(6)
    <2>1. front \in Seq(Byte) /\ Len(front) = 4 /\ front[1] = 5 /\ front[2] = 5
      BY <1>2
    <2>2. 6 \in Nat
      OBVIOUS
    <2> HIDE DEF front
    <2>3. /\ bytes \in Seq(Byte) /\ Len(bytes) = Len(front) + 6
          /\ \A i \in 1..Len(front) : bytes[i] = front[i]
      BY <2>1, <2>2, UPadded
    <2> HIDE DEF bytes
    <2>4. Len(bytes) = 10 /\ bytes[1] = 5 /\ bytes[2] = 5
      BY <2>1, <2>3
    <2>5. Sends(bytes, "refused")
      BY <1>3 DEF bytes, front
    <2> QED BY <1>1, <2>3, <2>4, <2>5, USocksSendsInv
  <1>4. CASE Sends(<<5, 0, 0, 1>> \o Zeros(6), "granted")
    <2> DEFINE front == <<5, 0, 0, 1>>
               bytes == front \o Zeros(6)
    <2>1. front \in Seq(Byte) /\ Len(front) = 4 /\ front[1] = 5 /\ front[2] = 0 /\ front[4] = 1
      BY <1>2
    <2>2. 6 \in Nat
      OBVIOUS
    <2> HIDE DEF front
    <2>3. /\ bytes \in Seq(Byte) /\ Len(bytes) = Len(front) + 6
          /\ \A i \in 1..Len(front) : bytes[i] = front[i]
      BY <2>1, <2>2, UPadded
    <2> HIDE DEF bytes
    <2>4. Len(bytes) = 10 /\ bytes[1] = 5 /\ bytes[2] = 0 /\ bytes[4] = 1
      BY <2>1, <2>3
    <2>5. Sends(bytes, "granted")
      BY <1>4 DEF bytes, front
    <2> QED BY <1>1, <2>3, <2>4, <2>5, USocksSendsInv
  <1>5. CASE Sends(<<5, 0, 0, 4>> \o Zeros(18), "granted")
    <2> DEFINE front == <<5, 0, 0, 4>>
               bytes == front \o Zeros(18)
    <2>1. front \in Seq(Byte) /\ Len(front) = 4 /\ front[1] = 5 /\ front[2] = 0 /\ front[4] = 4
      BY <1>2
    <2>2. 18 \in Nat
      OBVIOUS
    <2> HIDE DEF front
    <2>3. /\ bytes \in Seq(Byte) /\ Len(bytes) = Len(front) + 18
          /\ \A i \in 1..Len(front) : bytes[i] = front[i]
      BY <2>1, <2>2, UPadded
    <2> HIDE DEF bytes
    <2>4. Len(bytes) = 22 /\ bytes[1] = 5 /\ bytes[2] = 0 /\ bytes[4] = 4
      BY <2>1, <2>3
    <2>5. Sends(bytes, "granted")
      BY <1>5 DEF bytes, front
    <2> QED BY <1>1, <2>3, <2>4, <2>5, USocksSendsInv
  <1>6. ASSUME NEW n \in DomainLens,
               Sends(<<5, 0, 0, 3, n>> \o Zeros(n + 2), "granted")
        PROVE  UInv'
    <2> DEFINE bytes == <<5, 0, 0, 3, n>> \o Zeros(n + 2)
    <2>1. n \in 0..255 /\ n + 2 \in Nat
      BY UpstreamAssumption
    <2>2. Zeros(n + 2) \in Seq(Byte) /\ Len(Zeros(n + 2)) = n + 2
      BY <2>1, UZeros
    <2>3. <<5, 0, 0, 3, n>> \in Seq(Byte)
      BY <2>1 DEF Byte, TargetByte
    <2>4. /\ bytes \in Seq(Byte) /\ Len(bytes) = 7 + n
          /\ bytes[1] = 5 /\ bytes[2] = 0 /\ bytes[4] = 3 /\ bytes[5] = n
      BY <2>1, <2>2, <2>3
    <2> HIDE DEF bytes
    <2>5. Sends(bytes, "granted")
      BY <1>6 DEF bytes
    <2> QED BY <1>1, <2>1, <2>4, <2>5, USocksSendsInv
  <1> QED BY <1>3, <1>4, <1>5, <1>6 DEF SocksAnswers
(* A byte of the target comes behind all others. *)
LEMMA UTargetInv ==
  ASSUME UInv, TargetSends
  PROVE  UInv'
  <1>1. net \in Seq(Byte) /\ buf \in Seq(Byte) /\ sent \in Nat /\ MaxData \in Nat
    BY UBytes, UpstreamAssumption DEF UInv, TypeOK
  <1>2. /\ UNCHANGED <<pc, proto, warm, long, skip, buf, server, closed>>
        /\ server = "granted" /\ sent < MaxData /\ sent' = sent + 1
        /\ net' = Append(net, TargetByte)
    BY DEF TargetSends, task
  <1>3. TargetByte \in Byte
    BY DEF Byte, TargetByte
  <1>4. /\ net' \in Seq(Byte) /\ Len(net') = Len(net) + 1
        /\ net'[Len(net) + 1] = TargetByte
        /\ \A i \in 1..Len(net) : net'[i] = net[i]
    BY <1>1, <1>2, <1>3
  <1>5. Len(net) \in Nat /\ Len(buf) \in Nat
    BY <1>1
  <1>6. TypeOK'
    <2>1. sent' \in 0..MaxData
      BY <1>1, <1>2
    <2>2. net' \in Seq(0..TargetByte)
      BY <1>4 DEF Byte
    <2> QED BY <1>2, <2>1, <2>2 DEF UInv, TypeOK
  <1>7. ASSUME TargetTail PROVE TargetTail'
    <2>1. Len(net) >= sent /\ Len(net') - sent' = Len(net) - sent
      BY <1>1, <1>2, <1>4, <1>5, <1>7 DEF TargetTail
    <2>2. ASSUME NEW i \in (Len(net') - sent' + 1)..Len(net')
          PROVE  net'[i] = TargetByte
      <3>1. i = Len(net) + 1 \/ i \in (Len(net) - sent + 1)..Len(net)
        BY <1>1, <1>4, <1>5, <2>1
      <3>2. i \in (Len(net) - sent + 1)..Len(net) => i \in 1..Len(net)
        BY <1>1, <1>5, <2>1
      <3> QED BY <1>4, <1>7, <3>1, <3>2 DEF TargetTail
    <2>3. Len(net') >= sent'
      BY <1>1, <1>2, <1>4, <1>5, <2>1
    <2> QED BY <2>2, <2>3 DEF TargetTail
  <1>8. pc \notin {"idle", "connect", "start", "method"}
    BY <1>2 DEF UInv, UStartOK, UMethodOK
  <1>9. UHttpOK'
    <2> SUFFICES ASSUME pc = "http" PROVE UHttpOK'
      BY <1>2 DEF UHttpOK
    <2> DEFINE w == buf \o net
               v == buf' \o net'
    <2>1. proto' = "http"
      BY <1>2 DEF UInv, UHttpOK
    <2>2. PICK e \in 4..(Len(buf) + Len(net)) :
            e > Len(buf) /\ ResponseTo(w, e) /\ w[1] = 200
      BY <1>2 DEF UInv, UHttpOK
    <2>3. Len(w) = Len(buf) + Len(net)
      BY <1>1
    <2>4. /\ Len(v) = Len(w) + 1 /\ v[Len(w) + 1] = TargetByte
          /\ \A i \in 1..Len(w) : v[i] = w[i]
      <3>1. v = Append(w, TargetByte) /\ w \in Seq(Byte)
        BY <1>1, <1>2, <1>3
      <3> HIDE DEF v, w
      <3> QED BY <1>3, <3>1
    <2> HIDE DEF v, w
    <2>5. ResponseTo(v, e)
      <3>1. ASSUME NEW i \in (e + 1)..Len(v) PROVE v[i] = TargetByte
        <4>1. i = Len(w) + 1 \/ i \in (e + 1)..Len(w)
          BY <1>5, <2>2, <2>3, <2>4
        <4>2. i \in (e + 1)..Len(w) => i \in 1..Len(w)
          BY <1>5, <2>2, <2>3
        <4> QED BY <2>2, <2>4, <4>1, <4>2 DEF ResponseTo
      <3>2. ASSUME NEW i \in 4..e PROVE BlankAt(v, i) <=> BlankAt(w, i)
        <4>1. {i - 3, i - 2, i - 1, i} \subseteq 1..Len(w)
          BY <1>5, <2>2, <2>3
        <4> QED BY <2>4, <4>1 DEF BlankAt
      <3>3. e \in 4..e /\ \A i \in 4..(e - 1) : i \in 4..e
        BY <2>2
      <3> QED BY <2>2, <3>1, <3>2, <3>3 DEF ResponseTo
    <2>6. /\ e \in 4..(Len(buf') + Len(net')) /\ e > Len(buf')
          /\ v[1] = 200 /\ server' = "granted"
      BY <1>2, <1>4, <1>5, <2>2, <2>3, <2>4
    <2> QED BY <2>1, <2>5, <2>6 DEF UHttpOK, v
  <1>10. UHeadOK'
    <2> SUFFICES ASSUME pc = "head" PROVE UHeadOK'
      BY <1>2 DEF UHeadOK
    <2>1. /\ proto = "socks5" /\ TargetTail /\ net[1] = 5 /\ net[2] = 0
          /\ \/ net[4] = 1 /\ Len(net) = 10 + sent
             \/ net[4] = 4 /\ Len(net) = 22 + sent
             \/ \E n \in 0..255 : net[4] = 3 /\ net[5] = n /\ Len(net) = 7 + n + sent
      BY <1>2 DEF UInv, UHeadOK
    <2>2. Len(net) >= 7
      <3>1. CASE Len(net) = 10 + sent
        BY <1>1, <3>1
      <3>2. CASE Len(net) = 22 + sent
        BY <1>1, <3>2
      <3>3. ASSUME NEW n \in 0..255, Len(net) = 7 + n + sent PROVE Len(net) >= 7
        BY <1>1, <3>3
      <3> QED BY <2>1, <3>1, <3>2, <3>3
    <2>3. net'[1] = net[1] /\ net'[2] = net[2] /\ net'[4] = net[4] /\ net'[5] = net[5]
      BY <1>4, <1>5, <2>2
    <2>4. /\ Len(net) = 10 + sent => Len(net') = 10 + sent'
          /\ Len(net) = 22 + sent => Len(net') = 22 + sent'
          /\ \A n \in 0..255 : Len(net) = 7 + n + sent => Len(net') = 7 + n + sent'
      <3>1. Len(net') = Len(net) + 1 /\ sent' = sent + 1
        BY <1>2, <1>4
      <3>2. ASSUME NEW m \in Nat, Len(net) = m + sent PROVE Len(net') = m + sent'
        BY <1>1, <3>1, <3>2
      <3>3. ASSUME NEW n \in 0..255, Len(net) = 7 + n + sent
            PROVE  Len(net') = 7 + n + sent'
        BY <1>1, <3>1, <3>3
      <3> QED BY <3>2, <3>3
    <2> QED BY <1>2, <1>7, <2>1, <2>3, <2>4 DEF UHeadOK
  <1>11. UBoundOK'
    <2> SUFFICES ASSUME pc = "bound" PROVE UBoundOK'
      BY <1>2 DEF UBoundOK
    <2>1. /\ proto = "socks5" /\ TargetTail
          /\ \/ \E n \in 0..255 : skip = 0 /\ net[1] = n /\ Len(net) = 3 + n + sent
             \/ skip > 0 /\ Len(net) = skip + sent
      BY DEF UInv, UBoundOK
    <2>2. skip \in Nat
      BY DEF UInv, TypeOK
    <2>3. CASE skip > 0 /\ Len(net) = skip + sent
      <3>1. Len(net') = skip' + sent'
        BY <1>1, <1>2, <1>4, <2>2, <2>3
      <3> QED BY <1>2, <1>7, <2>1, <2>3, <3>1 DEF UBoundOK
    <2>4. ASSUME NEW n \in 0..255, skip = 0, net[1] = n, Len(net) = 3 + n + sent
          PROVE  UBoundOK'
      <3>1. Len(net') = 3 + n + sent' /\ net'[1] = n
        BY <1>1, <1>2, <1>4, <2>4
      <3> QED BY <1>2, <1>7, <2>1, <2>4, <3>1 DEF UBoundOK
    <2> QED BY <2>1, <2>3, <2>4
  <1>12. UTunnelOK'
    <2> SUFFICES ASSUME pc = "ok" PROVE UTunnelOK'
      BY <1>2 DEF UTunnelOK
    <2>1. /\ \A i \in 1..Len(net) : net[i] = TargetByte
          /\ proto = "socks5" => Len(net) = sent
      BY DEF UInv, UTunnelOK
    <2>2. \A i \in 1..Len(net') : net'[i] = TargetByte
      BY <1>4, <1>5, <2>1
    <2>3. proto' = "socks5" => Len(net') = sent'
      BY <1>2, <1>4, <2>1
    <2> QED BY <1>2, <2>2, <2>3 DEF UTunnelOK
  <1> QED
    BY <1>2, <1>6, <1>8, <1>9, <1>10, <1>11, <1>12 DEF UInv, UStartOK, UMethodOK
(* The proxy closes, or nothing happens. *)
LEMMA UClosesInv ==
  ASSUME UInv, Closes \/ UNCHANGED vars
  PROVE  UInv'
  <1>1. /\ UNCHANGED <<pc, proto, warm, long, skip, buf, net, server, sent>>
        /\ closed' \in {closed, TRUE}
    BY DEF Closes, vars, task
  <1>2. TypeOK'
    BY <1>1 DEF UInv, TypeOK
  <1>3. TargetTail => TargetTail'
    BY <1>1 DEF TargetTail
  <1>4. UHttpOK'
    BY <1>1 DEF UInv, UHttpOK, ResponseTo
  <1>5. UHeadOK'
    BY <1>1, <1>3 DEF UInv, UHeadOK
  <1>6. UBoundOK'
    BY <1>1, <1>3 DEF UInv, UBoundOK
  <1> QED
    BY <1>1, <1>2, <1>4, <1>5, <1>6 DEF UInv, UStartOK, UMethodOK, UTunnelOK

(* One step of the handler or of the proxy. *)
LEMMA UStepInv ==
  ASSUME UInv, Next
  PROVE  UInv'
  <1>1. CASE \E p \in {"http", "socks5"}, w, l \in BOOLEAN : Begin(p, w, l)
    BY <1>1, UBeginsInv
  <1>2. CASE Handler
    <2>1. CASE Connected \/ ConnectFails \/ Writes
      BY <2>1, UBeginsInv
    <2>2. ASSUME NEW n \in 1..Len(net), HttpReads(n) PROVE UInv'
      BY <2>2, UHttpReadsInv
    <2>3. CASE TooLarge \/ Fails \/ TimesOut
      BY <2>3, UErrorInv
    <2>4. CASE ReadsMethod
      BY <2>4, UMethodInv
    <2>5. CASE ReadsHead
      BY <2>5, UHeadInv
    <2>6. CASE ReadsLength
      BY <2>6, ULengthInv
    <2>7. CASE Skips
      BY <2>7, USkipsInv
    <2> QED
      BY <1>2, <2>1, <2>2, <2>3, <2>4, <2>5, <2>6, <2>7 DEF Handler
  <1>3. CASE Peer
    BY <1>3, UHttpAnswersInv, UMethodAnswersInv, USocksAnswersInv, UTargetInv,
       UClosesInv DEF Peer
  <1> QED
    BY <1>1, <1>2, <1>3 DEF Next

(* The invariant of the handshake. *)
LEMMA UAlwaysInv ==
  Spec => []UInv
  <1>1. Init => UInv
    BY UInitInv
  <1>2. UInv /\ [Next]_vars => UInv'
    BY UStepInv, UClosesInv
  <1> QED BY <1>1, <1>2, PTL DEF Spec

(* The handshake of upstream.rs keeps its types; in particular the response to
   CONNECT never grows past the limit of read_http_response, whatever sizes
   the reads have.                                               *)
THEOREM UpstreamTypeCorrect ==
  Spec => []TypeOK
  <1>1. UInv => TypeOK
    BY DEF UInv
  <1> QED BY <1>1, UAlwaysInv, PTL

(* A stream is returned for a tunnel only if the proxy has granted it: for
   every limit, every split of the response into reads, every length of a
   bound address that is a name.                                            *)
THEOREM OkAlwaysGranted ==
  Spec => []OkMeansGranted
  <1>1. UInv => OkMeansGranted
    BY DEF UInv, UTunnelOK, OkMeansGranted
  <1> QED BY <1>1, UAlwaysInv, PTL

(* The stream that is returned holds bytes of the target only, and over SOCKS5
   all of those that it has sent: socks5_handshake reads exactly the bound
   address, of each of its three types.                                     *)
THEOREM TunnelStaysAligned ==
  Spec => []TunnelAligned
  <1>1. UInv => TunnelAligned
    <2> SUFFICES ASSUME UInv, pc = "ok" PROVE TunnelAligned
      BY DEF TunnelAligned
    <2>1. net \in Seq(Byte)
      BY UBytes DEF UInv
    <2>2. DOMAIN net = 1..Len(net)
      BY <2>1
    <2>3. Range(net) \subseteq {TargetByte}
      BY <2>2 DEF UInv, UTunnelOK, Range
    <2> QED BY <2>3 DEF UInv, UTunnelOK, TunnelAligned
  <1> QED BY <1>1, UAlwaysInv, PTL
=============================================================================
