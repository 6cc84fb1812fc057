-------------------------- MODULE TransparentProofs --------------------------
(***************************************************************************)
(* For any number of connections, addresses, proxies and permits: types,   *)
(* the accounting of connections and permits, and that the backup of a     *)
(* session is never its proxy.                                             *)
(***************************************************************************)
EXTENDS Transparent, FiniteSetTheorems, TLAPS

(* The tasks that are counted, and those that have a permit. *)
Counted == {c \in Conns : conn[c].pc \notin {"idle", "sniff", "done"}}
Open == {c \in Conns : conn[c].pc # "idle"}

ViewTyped ==
  /\ DOMAIN view \subseteq Keys /\ \A k \in DOMAIN view : view[k] \in ViewRecord
  /\ aside \subseteq Keys \X ViewRecord

SessionsTyped ==
  /\ DOMAIN sessions \subseteq Peers
  /\ \A p \in DOMAIN sessions : sessions[p] \in Session

(* From the lookup to the session a task has a proxy. *)
KeysKnown ==
  \A c \in Conns :
    conn[c].pc \in {"lookup", "connect", "cold", "joined", "insert"} =>
      conn[c].key \in Keys

ProbeTyped ==
  /\ batch \subseteq Keys /\ pending \subseteq Keys \X BOOLEAN /\ found \in BOOLEAN
  /\ excluded \subseteq Countries

(* The numbers follow from the sets; permits has to be known not to be
   negative.                                                                *)
Balanced ==
  /\ active = Cardinality(Counted)
  /\ permits = MaxConnections - Cardinality(Open)
  /\ permits \in Nat

IInv ==
  /\ ViewTyped /\ SessionsTyped /\ ProbeTyped
  /\ conn \in [Conns -> ConnRecord]
  /\ KeysKnown /\ BackupDiffers
  /\ Balanced

-----------------------------------------------------------------------------
(* What the pool does to the view keeps its type. *)
LEMMA ViewKept ==
  ASSUME ViewTyped, NEW k \in Keys
  PROVE  /\ Appears(k) \/ Banned(k) \/ Forgotten(k) => ViewTyped'
         /\ \A v : Returns(k, v) => ViewTyped'
         /\ Works(k) => ViewTyped'
         /\ FailsOnce(k) => ViewTyped'
         /\ \A verdict \in BOOLEAN : Judged(k, verdict) => ViewTyped'
         /\ \A c \in Countries : Located(k, c) => ViewTyped'
<1>0. NewView \in ViewRecord
  BY DEF NewView, ViewRecord
<1>1. Appears(k) => ViewTyped'
  BY <1>0 DEF Appears, Put, ViewTyped
<1>2. Banned(k) => ViewTyped'
  BY DEF Banned, Drop, ViewTyped
<1>3. Forgotten(k) => ViewTyped'
  BY DEF Forgotten, Drop, ViewTyped
<1>4. \A v : Returns(k, v) => ViewTyped'
  BY DEF Returns, Put, ViewTyped
<1>5. ASSUME NEW v, k \in DOMAIN view => v \in ViewRecord, Sees(k, v) PROVE ViewTyped'
  BY <1>5 DEF Sees, Modify, ViewTyped
<1>6. k \in DOMAIN view =>
        /\ \A s \in {"Verified", "Failed"} : [view[k] EXCEPT !.status = s] \in ViewRecord
        /\ \A verdict \in BOOLEAN : [view[k] EXCEPT !.clean = verdict] \in ViewRecord
        /\ \A c \in Countries : [view[k] EXCEPT !.country = c] \in ViewRecord
  BY DEF ViewTyped, ViewRecord
<1>7. Works(k) => ViewTyped'
  BY <1>5, <1>6 DEF Works
<1>8. FailsOnce(k) => ViewTyped'
  BY <1>5, <1>6 DEF FailsOnce, viewVars, ViewTyped
<1>9. \A verdict \in BOOLEAN : Judged(k, verdict) => ViewTyped'
  BY <1>5, <1>6 DEF Judged
<1>10. \A c \in Countries : Located(k, c) => ViewTyped'
  BY <1>5, <1>6 DEF Located
<1> QED  BY <1>1, <1>2, <1>3, <1>4, <1>7, <1>8, <1>9, <1>10

(* One element more or less in a finite set of connections. *)
LEMMA OneMoreOrLess ==
  ASSUME NEW S \in SUBSET Conns, NEW c \in Conns
  PROVE  /\ Cardinality(S) \in Nat
         /\ c \notin S => Cardinality(S \cup {c}) = Cardinality(S) + 1
         /\ c \in S => Cardinality(S \ {c}) = Cardinality(S) - 1
<1>1. IsFiniteSet(S)
  BY FS_Subset, TransparentAssumption
<1>2. Cardinality(S) \in Nat
  BY <1>1, FS_CardinalityType
<1>3. c \notin S => Cardinality(S \cup {c}) = Cardinality(S) + 1
  BY <1>1, FS_AddElement
<1>4. c \in S => Cardinality(S \ {c}) = Cardinality(S) - 1
  BY <1>1, FS_RemoveElement
<1> QED  BY <1>2, <1>3, <1>4

(* The ways in which a step may change the accounts of a connection: not at
   all, counting it in or out, giving it a permit or taking it back.        *)
SameAccounts ==
  Counted' = Counted /\ Open' = Open /\ active' = active /\ permits' = permits

CountsIn(c) ==
  /\ c \notin Counted /\ Counted' = Counted \cup {c} /\ active' = active + 1
  /\ Open' = Open /\ permits' = permits

CountsOut(c) ==
  /\ c \in Counted /\ Counted' = Counted \ {c} /\ active' = active - 1
  /\ Open' = Open /\ permits' = permits

TakesPermit(c) ==
  /\ c \notin Open /\ Open' = Open \cup {c}
  /\ permits > 0 /\ permits' = permits - 1
  /\ Counted' = Counted /\ active' = active

GivesPermit(c) ==
  /\ c \in Open /\ Open' = Open \ {c} /\ permits' = permits + 1
  /\ Counted' = Counted /\ active' = active

(* Each of them keeps the balance. *)
LEMMA BalanceKept ==
  ASSUME Balanced, NEW c \in Conns,
         \/ SameAccounts \/ CountsIn(c) \/ CountsOut(c)
         \/ TakesPermit(c) \/ GivesPermit(c)
  PROVE  Balanced'
<1>1. Counted \in SUBSET Conns /\ Open \in SUBSET Conns
  BY DEF Counted, Open
<1>2. /\ Cardinality(Counted) \in Nat
      /\ c \notin Counted => Cardinality(Counted \cup {c}) = Cardinality(Counted) + 1
      /\ c \in Counted => Cardinality(Counted \ {c}) = Cardinality(Counted) - 1
  BY <1>1, OneMoreOrLess
<1>3. /\ Cardinality(Open) \in Nat
      /\ c \notin Open => Cardinality(Open \cup {c}) = Cardinality(Open) + 1
      /\ c \in Open => Cardinality(Open \ {c}) = Cardinality(Open) - 1
  BY <1>1, OneMoreOrLess
<1>4. MaxConnections \in Nat
  BY TransparentAssumption
<1>5. CASE SameAccounts
  BY <1>5 DEF Balanced, SameAccounts
<1>6. CASE CountsIn(c)
  BY <1>2, <1>6 DEF Balanced, CountsIn
<1>7. CASE CountsOut(c)
  BY <1>2, <1>7 DEF Balanced, CountsOut
<1>8. CASE TakesPermit(c)
  BY <1>3, <1>4, <1>8 DEF Balanced, TakesPermit
<1>9. CASE GivesPermit(c)
  BY <1>3, <1>4, <1>9 DEF Balanced, GivesPermit
<1> QED  BY <1>5, <1>6, <1>7, <1>8, <1>9

-----------------------------------------------------------------------------
InCount(r) == r.pc \notin {"idle", "sniff", "done"}
HasKey(r) ==
  r.pc \in {"lookup", "connect", "cold", "joined", "insert"} => r.key \in Keys

(* The task of one connection goes from its record to r. *)
LEMMA OneTaskMoves ==
  ASSUME conn \in [Conns -> ConnRecord], KeysKnown,
         NEW c \in Conns, NEW r \in ConnRecord, HasKey(r),
         conn' = [conn EXCEPT ![c] = r]
  PROVE  /\ conn' \in [Conns -> ConnRecord] /\ KeysKnown'
         /\ (InCount(conn[c]) <=> InCount(r)) => Counted' = Counted
         /\ (Idle(c) <=> r.pc = "idle") => Open' = Open
         /\ ~InCount(conn[c]) /\ InCount(r) =>
              c \notin Counted /\ Counted' = Counted \cup {c}
         /\ InCount(conn[c]) /\ ~InCount(r) =>
              c \in Counted /\ Counted' = Counted \ {c}
         /\ Idle(c) /\ r.pc # "idle" => c \notin Open /\ Open' = Open \cup {c}
         /\ ~Idle(c) /\ r.pc = "idle" => c \in Open /\ Open' = Open \ {c}
<1>1. conn' \in [Conns -> ConnRecord]
  OBVIOUS
<1>2. \A d \in Conns : conn'[d] = IF d = c THEN r ELSE conn[d]
  OBVIOUS
<1>3. KeysKnown'
  BY <1>2 DEF KeysKnown, HasKey
<1>4. Counted' = {d \in Conns : IF d = c THEN InCount(r) ELSE d \in Counted}
  BY <1>2 DEF Counted, InCount
<1>5. Open' = {d \in Conns : IF d = c THEN r.pc # "idle" ELSE d \in Open}
  BY <1>2 DEF Open
<1>6. /\ Counted \subseteq Conns /\ (c \in Counted <=> InCount(conn[c]))
      /\ Open \subseteq Conns /\ (c \in Open <=> ~Idle(c))
  BY DEF Counted, Open, InCount, Idle
<1> QED  BY <1>1, <1>3, <1>4, <1>5, <1>6

(* A step within a connection that counts it neither in nor out. *)
LEMMA StepInside ==
  ASSUME IInv, NEW c \in Conns, NEW r \in ConnRecord, HasKey(r),
         conn' = [conn EXCEPT ![c] = r],
         InCount(conn[c]) <=> InCount(r), Idle(c) <=> r.pc = "idle",
         active' = active, permits' = permits,
         ViewTyped', SessionsTyped', ProbeTyped', BackupDiffers'
  PROVE  IInv'
<1>1. conn' \in [Conns -> ConnRecord] /\ KeysKnown' /\ Counted' = Counted /\ Open' = Open
  BY OneTaskMoves DEF IInv
<1>2. Balanced'
  BY <1>1, BalanceKept DEF SameAccounts, IInv
<1> QED  BY <1>1, <1>2 DEF IInv

(* What is not touched keeps its type. *)
LEMMA Untouched ==
  ASSUME IInv
  PROVE  /\ UNCHANGED viewVars => ViewTyped'
         /\ UNCHANGED sessions => SessionsTyped' /\ BackupDiffers'
         /\ UNCHANGED <<excluded, probeVars>> => ProbeTyped'
         /\ UNCHANGED poolVars => ViewTyped' /\ ProbeTyped'
  BY DEF IInv, ViewTyped, SessionsTyped, BackupDiffers, ProbeTyped, poolVars,
         viewVars, probeVars

-----------------------------------------------------------------------------
(* A record with another place, tier and proxy. *)
LEMMA Restaged ==
  ASSUME NEW q \in ConnRecord, NEW s \in Stage
  PROVE  /\ \A i \in 1..5 :
              [q EXCEPT !.pc = s, !.tier = i, !.barred = {}] \in ConnRecord
         /\ \A i \in 1..5, k \in Keys :
              [q EXCEPT !.pc = s, !.key = k, !.tier = i, !.barred = {}] \in ConnRecord
  BY DEF ConnRecord

(* Looking up a key, the tiers of the selection, the wait, the next attempt:
   steps that touch nothing but the task.                                   *)
LEMMA SelectionStep ==
  ASSUME IInv, NEW c \in Conns,
         \/ Lookup(c) \/ Picks(c) \/ NextTier(c) \/ SelectsNone(c)
         \/ Waits(c) \/ Retries(c)
  PROVE  IInv'
<1>1. UNCHANGED <<poolVars, sessions, permits, active>>
  BY DEF Lookup, Picks, NextTier, SelectsNone, Waits, Retries
<1>2. /\ ViewTyped' /\ SessionsTyped' /\ ProbeTyped' /\ BackupDiffers'
      /\ active' = active /\ permits' = permits
  BY <1>1, Untouched
<1>3. /\ conn \in [Conns -> ConnRecord] /\ conn[c] \in ConnRecord
      /\ DOMAIN view \subseteq Keys /\ SessionsTyped
      /\ HasKey(conn[c])
  BY DEF IInv, ViewTyped, KeysKnown, HasKey
<1>4. CASE Lookup(c)
  <2> DEFINE r == IF conn[c].key \in DOMAIN view
                  THEN [conn[c] EXCEPT !.pc = "connect"]
                  ELSE [conn[c] EXCEPT !.pc = "unlisted", !.key = NoKey]
  <2>1. conn' = [conn EXCEPT ![c] = r]
    BY <1>3, <1>4 DEF Lookup, ConnRecord
  <2>2. r \in ConnRecord /\ HasKey(r) /\ InCount(r) /\ r.pc # "idle"
    BY <1>3 DEF ConnRecord, Stage, HasKey, InCount
  <2>3. InCount(conn[c]) /\ ~Idle(c)
    BY <1>4 DEF Lookup, At, InCount, Idle
  <2> HIDE DEF r
  <2> QED  BY <1>2, <2>1, <2>2, <2>3, StepInside
<1>5. CASE Picks(c)
  <2>1. PICK k \in Tier(c) :
          conn' = [conn EXCEPT ![c].pc = "connect", ![c].key = k, ![c].tier = 1,
                               ![c].barred = {}]
    BY <1>5 DEF Picks
  <2>2. k \in Keys
    BY <1>3 DEF Tier, TlsTier, PlainTier, Allowed
  <2> DEFINE r == [conn[c] EXCEPT !.pc = "connect", !.key = k, !.tier = 1,
                                  !.barred = {}]
  <2>3. conn' = [conn EXCEPT ![c] = r]
    BY <1>3, <2>1 DEF ConnRecord
  <2>4. r \in ConnRecord
    <3>1. \A i \in 1..5 :
            [conn[c] EXCEPT !.pc = "connect", !.key = k, !.tier = i,
                            !.barred = {}] \in ConnRecord
      BY <1>3, <2>2, Restaged DEF Stage
    <3>2. 1 \in 1..5
      OBVIOUS
    <3> QED  BY <3>1, <3>2, Zenon
  <2>5. HasKey(r) /\ InCount(r) /\ r.pc # "idle"
    BY <1>3, <2>2 DEF ConnRecord, HasKey, InCount
  <2>6. InCount(conn[c]) /\ ~Idle(c)
    BY <1>5 DEF Picks, At, InCount, Idle
  <2> HIDE DEF r
  <2> QED  BY <1>2, <2>3, <2>4, <2>5, <2>6, StepInside
<1>6. CASE NextTier(c)
  <2>0. Barred(c) \subseteq Countries
    BY <1>3 DEF Barred, ConnRecord, IInv, ProbeTyped
  <2> DEFINE b == Barred(c)
             r == [conn[c] EXCEPT !.tier = @ + 1, !.barred = b]
  <2>1. conn' = [conn EXCEPT ![c] = r]
    BY <1>3, <1>6 DEF NextTier, ConnRecord
  <2>2. conn[c].tier \in 1..5 /\ conn[c].tier < 5
    BY <1>3, <1>6 DEF NextTier, LastTier, ConnRecord
  <2> HIDE DEF b
  <2>3. r \in ConnRecord /\ HasKey(r) /\ r.pc = conn[c].pc
    <3>1. b \in SUBSET Countries
      BY <2>0 DEF b
    <3>2. conn[c].tier + 1 \in 1..5
      BY <2>2
    <3>3. \A i \in 1..5, x \in SUBSET Countries :
            LET q == [conn[c] EXCEPT !.tier = i, !.barred = x]
            IN  q \in ConnRecord /\ HasKey(q) /\ q.pc = conn[c].pc
      BY <1>3 DEF ConnRecord, HasKey
    <3> QED  BY <3>1, <3>2, <3>3, Zenon
  <2>4. InCount(conn[c]) <=> InCount(r)
    BY <2>3 DEF InCount
  <2>5. Idle(c) <=> r.pc = "idle"
    BY <2>3 DEF Idle
  <2> HIDE DEF r
  <2> QED  BY <1>2, <2>1, <2>3, <2>4, <2>5, StepInside
<1>7. CASE SelectsNone(c)
  <2> DEFINE r == [conn[c] EXCEPT !.pc = "unlisted", !.tier = 1, !.barred = {}]
  <2>1. conn' = [conn EXCEPT ![c] = r]
    BY <1>3, <1>7 DEF SelectsNone, ConnRecord
  <2>2. r \in ConnRecord
    <3>1. \A i \in 1..5 :
            [conn[c] EXCEPT !.pc = "unlisted", !.tier = i, !.barred = {}]
              \in ConnRecord
      BY <1>3, Restaged DEF Stage
    <3>2. 1 \in 1..5
      OBVIOUS
    <3> QED  BY <3>1, <3>2, Zenon
  <2>3. HasKey(r) /\ InCount(r) /\ r.pc # "idle"
    BY <1>3 DEF ConnRecord, HasKey, InCount
  <2>4. InCount(conn[c]) /\ ~Idle(c)
    BY <1>7 DEF SelectsNone, At, InCount, Idle
  <2> HIDE DEF r
  <2> QED  BY <1>2, <2>1, <2>2, <2>3, <2>4, StepInside
<1>8. CASE Waits(c)
  <2> DEFINE r == [conn[c] EXCEPT !.pc = "wait"]
  <2>1. conn' = [conn EXCEPT ![c] = r]
    BY <1>3, <1>8 DEF Waits, Goto, ConnRecord
  <2>2. r \in ConnRecord /\ HasKey(r) /\ InCount(r) /\ r.pc # "idle"
    BY <1>3 DEF ConnRecord, Stage, HasKey, InCount
  <2>3. InCount(conn[c]) /\ ~Idle(c)
    BY <1>8 DEF Waits, At, InCount, Idle
  <2> HIDE DEF r
  <2> QED  BY <1>2, <2>1, <2>2, <2>3, StepInside
<1>9. CASE Retries(c)
  <2> DEFINE p == conn[c].peer
             r == IF conn[c].attempt = 1 /\ HasBackup(p)
                  THEN [conn[c] EXCEPT !.pc = "lookup",
                                       !.key = sessions[p].backup_proxy_key]
                  ELSE [conn[c] EXCEPT !.pc = "scan"]
  <2>1. conn' = [conn EXCEPT ![c] = r]
    BY <1>3, <1>9 DEF Retries, ConnRecord
  <2>2. HasBackup(p) => sessions[p].backup_proxy_key \in Keys
    BY <1>3 DEF HasBackup, SessionsTyped, Session
  <2>3. r \in ConnRecord /\ HasKey(r) /\ InCount(r) /\ r.pc # "idle"
    BY <1>3, <2>2 DEF ConnRecord, Stage, HasKey, InCount
  <2>4. InCount(conn[c]) /\ ~Idle(c)
    BY <1>9 DEF Retries, At, InCount, Idle
  <2> HIDE DEF r
  <2> QED  BY <1>2, <2>1, <2>3, <2>4, StepInside
<1> QED  BY <1>4, <1>5, <1>6, <1>7, <1>8, <1>9

-----------------------------------------------------------------------------
(* The record that a connection starts from and returns to. *)
LEMMA IdleConnTyped == IdleConn \in ConnRecord /\ IdleConn.pc = "idle"
<1>1. SomePeer \in Peers
  BY TransparentAssumption DEF SomePeer
<1>2. 0 \in 0..(MaxRetries - 1)
  BY TransparentAssumption
<1> QED  BY <1>1, <1>2 DEF IdleConn, ConnRecord, Stage

(* Giving up, and the end of the relay: counted out, whatever the pool does
   in the same step.                                                        *)
LEMMA EndStep ==
  ASSUME IInv, NEW c \in Conns, InCount(conn[c]), Ends(c),
         UNCHANGED <<excluded, probeVars, sessions, permits>>, ViewTyped'
  PROVE  IInv'
<1> DEFINE r == [IdleConn EXCEPT !.pc = "done"]
<1>1. r \in ConnRecord /\ HasKey(r) /\ ~InCount(r) /\ r.pc # "idle"
  BY IdleConnTyped DEF ConnRecord, Stage, HasKey, InCount
<1>2. conn' = [conn EXCEPT ![c] = r] /\ active' = active - 1
  BY DEF Ends
<1>3. ~Idle(c)
  BY DEF InCount, Idle
<1> HIDE DEF r
<1>4. /\ conn' \in [Conns -> ConnRecord] /\ KeysKnown' /\ Open' = Open
      /\ c \in Counted /\ Counted' = Counted \ {c}
  BY <1>1, <1>2, <1>3, OneTaskMoves DEF IInv
<1>5. Balanced'
  BY <1>2, <1>4, BalanceKept DEF CountsOut, IInv
<1>6. SessionsTyped' /\ BackupDiffers' /\ ProbeTyped'
  BY Untouched
<1> QED  BY <1>4, <1>5, <1>6 DEF IInv

(* Accepting a connection, dropping it before it is counted, counting it in,
   and its end.                                                             *)
LEMMA LifeStep ==
  ASSUME IInv, NEW c \in Conns,
         \/ \E p \in Peers, https \in BOOLEAN : Accept(c, p, https)
         \/ DropEarly(c) \/ Begin(c) \/ WaitTimesOut(c) \/ StillNone(c)
         \/ RelayEnds(c) \/ Release(c)
  PROVE  IInv'
<1>1. UNCHANGED <<poolVars, sessions>>
  BY DEF Accept, DropEarly, Begin, WaitTimesOut, StillNone, RelayEnds, Release
<1>2. ViewTyped' /\ SessionsTyped' /\ ProbeTyped' /\ BackupDiffers'
  BY <1>1, Untouched
<1>3. conn \in [Conns -> ConnRecord] /\ conn[c] \in ConnRecord /\ SessionsTyped
  BY DEF IInv
<1>4. ASSUME NEW p \in Peers, NEW https \in BOOLEAN, Accept(c, p, https)
      PROVE  IInv'
  <2> DEFINE r == [IdleConn EXCEPT !.pc = "sniff", !.peer = p, !.https = https]
  <2>1. r \in ConnRecord /\ HasKey(r) /\ ~InCount(r) /\ r.pc # "idle"
    BY IdleConnTyped DEF ConnRecord, Stage, HasKey, InCount
  <2>2. /\ conn' = [conn EXCEPT ![c] = r]
        /\ permits > 0 /\ permits' = permits - 1 /\ active' = active
    BY <1>4 DEF Accept
  <2>3. ~InCount(conn[c]) /\ Idle(c)
    BY <1>4 DEF Accept, At, InCount, Idle
  <2> HIDE DEF r
  <2>4. /\ conn' \in [Conns -> ConnRecord] /\ KeysKnown' /\ Counted' = Counted
        /\ c \notin Open /\ Open' = Open \cup {c}
    BY <2>1, <2>2, <2>3, OneTaskMoves DEF IInv
  <2>5. Balanced'
    BY <2>2, <2>4, BalanceKept DEF TakesPermit, IInv
  <2> QED  BY <1>2, <2>4, <2>5 DEF IInv
<1>5. CASE DropEarly(c)
  <2> DEFINE r == [conn[c] EXCEPT !.pc = "done"]
  <2>1. r \in ConnRecord /\ HasKey(r) /\ ~InCount(r) /\ r.pc # "idle"
    BY <1>3 DEF ConnRecord, Stage, HasKey, InCount
  <2>2. conn' = [conn EXCEPT ![c] = r] /\ permits' = permits /\ active' = active
    BY <1>3, <1>5 DEF DropEarly, Goto, ConnRecord
  <2>3. ~InCount(conn[c]) /\ ~Idle(c)
    BY <1>5 DEF DropEarly, At, InCount, Idle
  <2> HIDE DEF r
  <2> QED  BY <1>2, <2>1, <2>2, <2>3, StepInside
<1>6. CASE Begin(c)
  <2> DEFINE r == IF StickyUsable(c)
                  THEN [conn[c] EXCEPT !.pc = "lookup",
                                       !.key = sessions[conn[c].peer].proxy_key]
                  ELSE [conn[c] EXCEPT !.pc = "scan"]
  <2>1. StickyUsable(c) => sessions[conn[c].peer].proxy_key \in Keys
    BY <1>3 DEF StickyUsable, SessionsTyped, Session
  <2>2. r \in ConnRecord /\ HasKey(r) /\ InCount(r) /\ r.pc # "idle"
    BY <1>3, <2>1 DEF ConnRecord, Stage, HasKey, InCount
  <2>3. conn' = [conn EXCEPT ![c] = r] /\ permits' = permits /\ active' = active + 1
    BY <1>3, <1>6 DEF Begin, ConnRecord
  <2>4. ~InCount(conn[c]) /\ ~Idle(c)
    BY <1>6 DEF Begin, At, InCount, Idle
  <2> HIDE DEF r
  <2>5. /\ conn' \in [Conns -> ConnRecord] /\ KeysKnown' /\ Open' = Open
        /\ c \notin Counted /\ Counted' = Counted \cup {c}
    BY <2>2, <2>3, <2>4, OneTaskMoves DEF IInv
  <2>6. Balanced'
    BY <2>3, <2>5, BalanceKept DEF CountsIn, IInv
  <2> QED  BY <1>2, <2>5, <2>6 DEF IInv
<1>7. CASE WaitTimesOut(c) \/ StillNone(c) \/ RelayEnds(c)
  <2>1. Ends(c) /\ permits' = permits /\ InCount(conn[c])
    BY <1>7 DEF WaitTimesOut, StillNone, RelayEnds, At, InCount
  <2> QED  BY <1>1, <1>2, <2>1, EndStep DEF poolVars
<1>8. CASE Release(c)
  <2>1. IdleConn \in ConnRecord /\ HasKey(IdleConn) /\ ~InCount(IdleConn)
    BY IdleConnTyped DEF HasKey, InCount
  <2>2. /\ conn' = [conn EXCEPT ![c] = IdleConn]
        /\ permits' = permits + 1 /\ active' = active
    BY <1>8 DEF Release
  <2>3. ~InCount(conn[c]) /\ ~Idle(c)
    BY <1>8 DEF Release, At, InCount, Idle
  <2>4. /\ conn' \in [Conns -> ConnRecord] /\ KeysKnown' /\ Counted' = Counted
        /\ c \in Open /\ Open' = Open \ {c}
    BY <2>1, <2>2, <2>3, IdleConnTyped, OneTaskMoves DEF IInv
  <2>5. Balanced'
    BY <2>2, <2>4, BalanceKept DEF GivesPermit, IInv
  <2> QED  BY <1>2, <2>4, <2>5 DEF IInv
<1> QED  BY <1>4, <1>5, <1>6, <1>7, <1>8

-----------------------------------------------------------------------------
(* The outcome of connecting, and the session of the client. *)
LEMMA ConnectStep ==
  ASSUME IInv, NEW c \in Conns,
         \/ Dials(c) \/ Connects(c) \/ Touches(c) \/ FindsNoSession(c)
         \/ InsertsSession(c) \/ ConnectFails(c)
  PROVE  IInv'
<1>1. conn \in [Conns -> ConnRecord] /\ conn[c] \in ConnRecord /\ ViewTyped
  BY DEF IInv
<1>2. conn[c].key \in Keys /\ InCount(conn[c]) /\ ~Idle(c)
  BY DEF IInv, KeysKnown, Dials, Connects, Touches, FindsNoSession, InsertsSession,
         ConnectFails, At, InCount, Idle
<1> DEFINE p == conn[c].peer
           relay == [IdleConn EXCEPT !.pc = "relay"]
<1>3. p \in Peers
  BY <1>1 DEF ConnRecord
<1>4. relay \in ConnRecord /\ HasKey(relay) /\ InCount(relay) /\ relay.pc # "idle"
  BY IdleConnTyped DEF ConnRecord, Stage, HasKey, InCount
<1>d. CASE Dials(c)
  <2> DEFINE r == [conn[c] EXCEPT !.pc = "cold"]
  <2>1. conn' = [conn EXCEPT ![c] = r] /\ active' = active /\ permits' = permits
    BY <1>1, <1>d DEF Dials, Goto, ConnRecord
  <2>2. r \in ConnRecord /\ HasKey(r) /\ InCount(r) /\ r.pc # "idle"
    BY <1>1, <1>2 DEF ConnRecord, Stage, HasKey, InCount
  <2>3. ViewTyped' /\ SessionsTyped' /\ BackupDiffers' /\ ProbeTyped'
    BY <1>d, Untouched DEF Dials
  <2> HIDE DEF r
  <2> QED  BY <1>2, <2>1, <2>2, <2>3, StepInside
<1>5. CASE Connects(c)
  <2> DEFINE r == [conn[c] EXCEPT !.pc = "joined"]
  <2>1. conn' = [conn EXCEPT ![c] = r] /\ active' = active /\ permits' = permits
    BY <1>1, <1>5 DEF Connects, Goto, ConnRecord
  <2>2. r \in ConnRecord /\ HasKey(r) /\ InCount(r) /\ r.pc # "idle"
    BY <1>1, <1>2 DEF ConnRecord, Stage, HasKey, InCount
  <2>3. ViewTyped'
    BY <1>1, <1>2, <1>5, ViewKept DEF Connects
  <2>4. SessionsTyped' /\ BackupDiffers' /\ ProbeTyped'
    BY <1>5, Untouched DEF Connects
  <2> HIDE DEF r
  <2> QED  BY <1>2, <2>1, <2>2, <2>3, <2>4, StepInside
<1>6. CASE Touches(c)
  <2> DEFINE s == TouchedSession(p, conn[c].key)
  <2>1. /\ conn' = [conn EXCEPT ![c] = relay] /\ active' = active /\ permits' = permits
        /\ p \in DOMAIN sessions /\ sessions' = Put(sessions, p, s)
    BY <1>6 DEF Touches, StartsRelay
  <2>2. ViewTyped' /\ ProbeTyped'
    BY <1>6, Untouched DEF Touches
  <2>3. s \in Session /\ s.proxy_key # s.backup_proxy_key
    BY <1>2, <2>1 DEF IInv, SessionsTyped, BackupDiffers, Session, TouchedSession
  <2> HIDE DEF s, relay
  <2>4. SessionsTyped' /\ BackupDiffers'
    BY <1>3, <2>1, <2>3 DEF IInv, SessionsTyped, BackupDiffers, Put
  <2> QED  BY <1>2, <1>4, <2>1, <2>2, <2>4, StepInside
<1>7. CASE FindsNoSession(c)
  <2> DEFINE r == [conn[c] EXCEPT !.pc = "insert"]
  <2>1. conn' = [conn EXCEPT ![c] = r] /\ active' = active /\ permits' = permits
    BY <1>1, <1>7 DEF FindsNoSession, Goto, ConnRecord
  <2>2. r \in ConnRecord /\ HasKey(r) /\ InCount(r) /\ r.pc # "idle"
    BY <1>1, <1>2 DEF ConnRecord, Stage, HasKey, InCount
  <2>3. ViewTyped' /\ SessionsTyped' /\ BackupDiffers' /\ ProbeTyped'
    BY <1>7, Untouched DEF FindsNoSession
  <2> HIDE DEF r
  <2> QED  BY <1>2, <2>1, <2>2, <2>3, StepInside
<1>8. CASE InsertsSession(c)
  <2> DEFINE s == [proxy_key |-> conn[c].key, backup_proxy_key |-> NoKey]
  <2>1. /\ conn' = [conn EXCEPT ![c] = relay] /\ active' = active /\ permits' = permits
        /\ sessions' = Put(sessions, p, s)
    BY <1>8 DEF InsertsSession, StartsRelay
  <2>2. ViewTyped' /\ ProbeTyped'
    BY <1>8, Untouched DEF InsertsSession
  <2>3. s \in Session /\ s.proxy_key # s.backup_proxy_key
    BY <1>2, TransparentAssumption DEF Session
  <2> HIDE DEF s, relay
  <2>4. SessionsTyped' /\ BackupDiffers'
    BY <1>3, <2>1, <2>3 DEF IInv, SessionsTyped, BackupDiffers, Put
  <2> QED  BY <1>2, <1>4, <2>1, <2>2, <2>4, StepInside
<1>9. CASE ConnectFails(c)
  <2>1. ViewTyped'
    BY <1>1, <1>2, <1>9, ViewKept DEF ConnectFails
  <2>2. UNCHANGED <<excluded, probeVars, sessions, permits>>
    BY <1>9 DEF ConnectFails
  <2>3. CASE conn[c].attempt + 1 < MaxRetries
    <3> DEFINE r == [conn[c] EXCEPT !.pc = "retry", !.attempt = @ + 1, !.key = NoKey]
    <3>1. conn' = [conn EXCEPT ![c] = r] /\ active' = active
      BY <1>1, <1>9, <2>3 DEF ConnectFails, ConnRecord
    <3>2. conn[c].attempt + 1 \in 0..(MaxRetries - 1)
      BY <1>1, <2>3, TransparentAssumption DEF ConnRecord
    <3>3. r \in ConnRecord /\ HasKey(r) /\ InCount(r) /\ r.pc # "idle"
      BY <1>1, <3>2 DEF ConnRecord, Stage, HasKey, InCount
    <3>4. SessionsTyped' /\ BackupDiffers' /\ ProbeTyped'
      BY <2>2, Untouched
    <3> HIDE DEF r
    <3> QED  BY <1>2, <2>1, <2>2, <3>1, <3>3, <3>4, StepInside
  <2>4. CASE ~(conn[c].attempt + 1 < MaxRetries)
    <3>1. Ends(c)
      BY <1>9, <2>4 DEF ConnectFails
    <3> QED  BY <1>2, <2>1, <2>2, <3>1, EndStep
  <2> QED  BY <2>3, <2>4
<1> QED  BY <1>d, <1>5, <1>6, <1>7, <1>8, <1>9

-----------------------------------------------------------------------------
(* Waking those who wait counts no one in or out. *)
LEMMA NotifyKeeps ==
  ASSUME IInv, conn' = conn \/ conn' = NotifyWaiters,
         active' = active, permits' = permits
  PROVE  conn' \in [Conns -> ConnRecord] /\ KeysKnown' /\ Balanced'
<1>1. conn \in [Conns -> ConnRecord] /\ KeysKnown
  BY DEF IInv
<1>2. \A d \in Conns : NotifyWaiters[d] = IF conn[d].pc = "wait"
                                           THEN [conn[d] EXCEPT !.pc = "rescan"]
                                           ELSE conn[d]
  BY DEF NotifyWaiters, At
<1>3. conn' \in [Conns -> ConnRecord]
  <2>1. NotifyWaiters \in [Conns -> ConnRecord]
    BY <1>1 DEF NotifyWaiters, ConnRecord, Stage
  <2> QED  BY <1>1, <2>1
<1>4. ASSUME NEW d \in Conns
      PROVE  \/ conn'[d] = conn[d]
             \/ conn[d].pc = "wait" /\ conn'[d].pc = "rescan"
  <2>1. CASE conn' = conn
    BY <2>1
  <2>2. CASE conn' = NotifyWaiters
    <3>1. conn[d] \in ConnRecord
      BY <1>1
    <3>2. [conn[d] EXCEPT !.pc = "rescan"].pc = "rescan"
      BY <3>1 DEF ConnRecord
    <3> QED  BY <1>2, <2>2, <3>2
  <2> QED  BY <2>1, <2>2
<1>5. KeysKnown'
  BY <1>1, <1>4 DEF KeysKnown
<1>6. Counted' = Counted /\ Open' = Open
  BY <1>4 DEF Counted, Open
<1>7. Balanced'
  BY <1>6 DEF IInv, Balanced
<1> QED  BY <1>3, <1>5, <1>7

(* The pool, the health checker and the sessions by themselves. *)
LEMMA EnvironmentStep ==
  ASSUME IInv, Environment
  PROVE  IInv'
<1>1. /\ conn' = conn \/ conn' = NotifyWaiters
      /\ active' = active /\ permits' = permits
  BY DEF Environment, StartBatch, SessionExpires, ProbeDead, ProbeAlive, ProbeTls,
         PoolGains, PoolBans, PoolRegains, PoolDiscards, PoolForgets, PoolLocates,
         Reloads
<1>2. conn' \in [Conns -> ConnRecord] /\ KeysKnown' /\ Balanced'
  BY <1>1, NotifyKeeps
<1>3. ViewTyped /\ ProbeTyped
  BY DEF IInv
<1>4. CASE StartBatch
  <2>1. ViewTyped' /\ SessionsTyped' /\ BackupDiffers'
    BY <1>4, Untouched DEF StartBatch
  <2>2. ProbeTyped'
    BY <1>3, <1>4 DEF StartBatch, ProbeTyped, ViewTyped
  <2> QED  BY <1>2, <2>1, <2>2 DEF IInv
<1>5. ASSUME NEW p \in Peers, SessionExpires(p)
      PROVE  IInv'
  <2>1. ViewTyped' /\ ProbeTyped'
    BY <1>5, Untouched DEF SessionExpires
  <2>2. SessionsTyped' /\ BackupDiffers'
    BY <1>5 DEF IInv, SessionExpires, SessionsTyped, BackupDiffers, Drop
  <2> QED  BY <1>2, <2>1, <2>2 DEF IInv
<1>6. ASSUME NEW k \in Keys,
             \/ ProbeDead(k)
             \/ \E verdict \in BOOLEAN : ProbeAlive(k, verdict) \/ ProbeTls(k, verdict)
      PROVE  IInv'
  <2>1. ViewTyped'
    BY <1>3, <1>6, ViewKept DEF ProbeDead, ProbeAlive, ProbeTls
  <2>2. sessions' = sessions
    BY <1>6 DEF ProbeDead, ProbeAlive, ProbeTls
  <2>3. SessionsTyped' /\ BackupDiffers'
    BY <2>2, Untouched
  <2>4. /\ batch' \subseteq batch /\ excluded' = excluded
        /\ pending' \in {pending, {}} \/ \E verdict \in BOOLEAN : pending' = {<<k, verdict>>}
        /\ found' \in {found, TRUE}
    BY <1>6 DEF ProbeDead, ProbeAlive, ProbeTls
  <2>5. batch' \subseteq Keys
    BY <1>3, <2>4 DEF ProbeTyped
  <2>6. pending' \subseteq Keys \X BOOLEAN
    BY <1>3, <2>4 DEF ProbeTyped
  <2>7. found' \in BOOLEAN /\ excluded' \subseteq Countries
    BY <1>3, <2>4 DEF ProbeTyped
  <2>8. ProbeTyped'
    BY <2>5, <2>6, <2>7 DEF ProbeTyped
  <2> QED  BY <1>2, <2>1, <2>3, <2>8 DEF IInv
<1>7. ASSUME NEW k \in Keys,
             \/ PoolGains(k) \/ PoolBans(k) \/ PoolForgets(k)
             \/ \E v : PoolRegains(k, v)
             \/ \E c \in Countries : PoolLocates(k, c)
      PROVE  IInv'
  <2>1. ViewTyped'
    BY <1>3, <1>7, ViewKept
       DEF PoolGains, PoolBans, PoolForgets, PoolRegains, PoolLocates
  <2>2. SessionsTyped' /\ BackupDiffers' /\ ProbeTyped'
    BY <1>7, Untouched
       DEF PoolGains, PoolBans, PoolForgets, PoolRegains, PoolLocates
  <2> QED  BY <1>2, <2>1, <2>2 DEF IInv
<1>8. CASE PoolDiscards
  <2>1. ViewTyped'
    BY <1>3, <1>8 DEF PoolDiscards, Discards, ViewTyped
  <2>2. SessionsTyped' /\ BackupDiffers' /\ ProbeTyped'
    BY <1>8, Untouched DEF PoolDiscards
  <2> QED  BY <1>2, <2>1, <2>2 DEF IInv
<1>9. ASSUME NEW countries \in SUBSET Countries, Reloads(countries)
      PROVE  IInv'
  <2>1. ViewTyped' /\ SessionsTyped' /\ BackupDiffers'
    BY <1>9, Untouched DEF Reloads
  <2>2. ProbeTyped'
    BY <1>3, <1>9 DEF Reloads, ProbeTyped, probeVars
  <2> QED  BY <1>2, <2>1, <2>2 DEF IInv
<1>10. ASSUME NEW x \in aside, PoolRegains(x[1], x[2])
       PROVE  IInv'
  <2>1. x[1] \in Keys
    BY <1>3 DEF ViewTyped
  <2> QED  BY <1>7, <1>10, <2>1
<1> QED  BY <1>4, <1>5, <1>6, <1>7, <1>8, <1>9, <1>10 DEF Environment

-----------------------------------------------------------------------------
(* At the start there is no connection and no session. *)
LEMMA InitIInv == Init => IInv
<1> SUFFICES ASSUME Init PROVE IInv
  OBVIOUS
<1>1. conn \in [Conns -> ConnRecord] /\ \A c \in Conns : conn[c].pc = "idle"
  BY IdleConnTyped DEF Init
<1>2. KeysKnown
  BY <1>1 DEF KeysKnown
<1>3. ViewTyped
  BY DEF Init, ViewTyped, LoadedViews
<1>4. SessionsTyped /\ BackupDiffers /\ ProbeTyped
  BY DEF Init, SessionsTyped, BackupDiffers, ProbeTyped, EmptyMap
<1>5. Counted = {} /\ Open = {}
  BY <1>1 DEF Counted, Open
<1>6. Cardinality({}) = 0
  BY FS_EmptySet
<1>7. MaxConnections \in Nat
  BY TransparentAssumption
<1>8. Balanced
  BY <1>5, <1>6, <1>7 DEF Init, Balanced
<1> QED  BY <1>1, <1>2, <1>3, <1>4, <1>8 DEF IInv

(* Every step keeps the invariant. *)
LEMMA NextIInv == IInv /\ [Next]_vars => IInv'
<1> SUFFICES ASSUME IInv, [Next]_vars PROVE IInv'
  OBVIOUS
<1>1. CASE Environment
  BY <1>1, EnvironmentStep
<1>2. ASSUME NEW c \in Conns, Proceeds(c)
      PROVE  IInv'
  BY <1>2, SelectionStep, LifeStep, ConnectStep DEF Proceeds
<1>3. ASSUME NEW c \in Conns, NEW p \in Peers, NEW https \in BOOLEAN, Accept(c, p, https)
      PROVE  IInv'
  BY <1>3, LifeStep
<1>4. CASE UNCHANGED vars
  <2>1. ViewTyped' /\ SessionsTyped' /\ ProbeTyped' /\ BackupDiffers'
    BY <1>4, Untouched DEF vars, viewVars, probeVars
  <2>2. conn' \in [Conns -> ConnRecord] /\ KeysKnown' /\ Balanced'
    BY <1>4, NotifyKeeps DEF vars
  <2> QED  BY <2>1, <2>2 DEF IInv
<1> QED  BY <1>1, <1>2, <1>3, <1>4 DEF Next

(* The invariant holds in every reachable state. *)
LEMMA InvariantHolds == Spec => []IInv
<1>1. Init => IInv
  BY InitIInv
<1>2. IInv /\ [Next]_vars => IInv'
  BY NextIInv
<1> QED  BY <1>1, <1>2, PTL DEF Spec

(* No more connections are counted than there are permits taken. *)
LEMMA WithinPermits == IInv => active \in 0..MaxConnections /\ permits \in 0..MaxConnections
<1> SUFFICES ASSUME IInv
             PROVE  active \in 0..MaxConnections /\ permits \in 0..MaxConnections
  OBVIOUS
<1>1. IsFiniteSet(Open)
  BY FS_Subset, TransparentAssumption DEF Open
<1>2. Counted \subseteq Open
  BY DEF Counted, Open
<1>3. /\ IsFiniteSet(Counted)
      /\ Cardinality(Counted) <= Cardinality(Open)
  BY <1>1, <1>2, FS_Subset
<1>4. Cardinality(Counted) \in Nat /\ Cardinality(Open) \in Nat
  BY <1>1, <1>3, FS_CardinalityType
<1>5. MaxConnections \in Nat
  BY TransparentAssumption
<1> QED  BY <1>3, <1>4, <1>5 DEF IInv, Balanced

(* Types: in particular the tasks that handle_connection counts never
   outnumber the permits of the semaphore, and attempts stay below
   max_retries.                                                             *)
THEOREM TransparentTypeCorrect == Spec => []TypeOK
<1>1. IInv => TypeOK
  <2> SUFFICES ASSUME IInv PROVE TypeOK
    OBVIOUS
  <2>1. active \in 0..MaxConnections /\ permits \in 0..MaxConnections
    BY WithinPermits
  <2> QED  BY <2>1 DEF IInv, TypeOK, ViewTyped, SessionsTyped, ProbeTyped
<1> QED  BY <1>1, InvariantHolds, PTL

(* On every path through handle_connection, however many of them run at
   once, active_connections is the number of tasks that are counted in, and
   the free permits are those that no task has.                             *)
THEOREM AccountsBalance == Spec => []Accounting
<1>1. IInv => Accounting
  BY DEF IInv, Balanced, Accounting, Counted, Open, Idle
<1> QED  BY <1>1, InvariantHolds, PTL

(* set_or_touch, interleaved with itself and with the expiry of sessions,
   never makes a proxy its own backup.                                      *)
THEOREM BackupAlwaysDiffers == Spec => []BackupDiffers
<1>1. IInv => BackupDiffers
  BY DEF IInv
<1> QED  BY <1>1, InvariantHolds, PTL
=============================================================================
