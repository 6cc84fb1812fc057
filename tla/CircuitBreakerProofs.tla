------------------------ MODULE CircuitBreakerProofs ------------------------
(***************************************************************************)
(* The circuit breaker of one proxy, for all thresholds and durations in   *)
(* the order in which the match in record_fail lists them.                 *)
(***************************************************************************)
EXTENDS CircuitBreaker, TLAPS

-----------------------------------------------------------------------------
(* The methods of Proxy: each takes a well-formed record whose breaker fields
   agree to another one.                                                    *)


(* A record that the code may leave in the pool. *)
Sound(p) == p \in ProxyRecord /\ BreakerConsistent(p)

(* The durations of record_fail are defined for every failure count, bounded
   by the longest one, and do not decrease with it.                         *)
LEMMA DisableMinutesGrows ==
  ASSUME NEW m \in Nat, NEW n \in Nat, m <= n
  PROVE  /\ DisableMinutes(n) \in Nat
         /\ DisableMinutes(n) \in 0..CoolLongest
         /\ DisableMinutes(m) <= DisableMinutes(n)
  BY ThresholdAssumption, CooldownAssumption DEF DisableMinutes

(* They are positive exactly from OpenAt failures on. *)
LEMMA DisableMinutesOpens ==
  ASSUME NEW n \in Nat
  PROVE  DisableMinutes(n) > 0 <=> n >= OpenAt
  BY ThresholdAssumption, CooldownAssumption DEF DisableMinutes

(* A reset failure count is a legal one. *)
LEMMA ZeroFails == 0 \in 0..MaxFails
  BY ThresholdAssumption

(* Proxy::new *)
LEMMA NewProxySound == Sound(NewProxy)
  <1>1. NewProxy \in ProxyRecord
    BY ZeroFails
       DEF NewProxy, ProxyRecord, NoCircuit, Status, CheckAge, SuccessAge
  <1>2. BreakerConsistent(NewProxy)
    BY ThresholdAssumption, CooldownAssumption
       DEF NewProxy, BreakerConsistent, DisableMinutes, NoCircuit
  <1> QED BY <1>1, <1>2 DEF Sound

(* Proxy::record_success *)
LEMMA RecordSuccessSound ==
  ASSUME NEW p, Sound(p)
  PROVE  Sound(RecordSuccess(p))
  <1>0. p \in ProxyRecord
    BY DEF Sound
  <1>1. RecordSuccess(p) \in ProxyRecord
    BY <1>0, ZeroFails
       DEF RecordSuccess, ProxyRecord, NoCircuit, Status, CheckAge, SuccessAge
  <1>2. /\ RecordSuccess(p).consecutive_fails = 0
        /\ RecordSuccess(p).last_check = "fresh"
        /\ RecordSuccess(p).last_success = "recent"
        /\ RecordSuccess(p).status = "Verified"
        /\ RecordSuccess(p).circuit = -1
    BY <1>0 DEF RecordSuccess, ProxyRecord, NoCircuit
  <1>3. BreakerConsistent(RecordSuccess(p))
    BY <1>2, ThresholdAssumption
       DEF BreakerConsistent, DisableMinutes, NoCircuit
  <1> QED BY <1>1, <1>3 DEF Sound

(* Proxy::record_fail, which also never shortens a running circuit. *)
LEMMA RecordFailSound ==
  ASSUME NEW p, Sound(p)
  PROVE  /\ Sound(RecordFail(p))
         /\ RecordFail(p).circuit >= p.circuit
  <1> DEFINE n == Capped(p.consecutive_fails + 1)
             q == RecordFail(p)
  <1>0. p \in ProxyRecord /\ BreakerConsistent(p)
    BY DEF Sound
  <1>1. /\ p.consecutive_fails \in 0..MaxFails /\ n \in 0..MaxFails
        /\ p.consecutive_fails \in Nat /\ n \in Nat
        /\ p.consecutive_fails <= n
        /\ p.circuit \in Int
    BY <1>0, ThresholdAssumption DEF ProxyRecord, NoCircuit, Capped
  <1>2. /\ DisableMinutes(n) \in Nat
        /\ DisableMinutes(n) \in 0..CoolLongest
        /\ DisableMinutes(p.consecutive_fails) \in Nat
        /\ DisableMinutes(p.consecutive_fails) <= DisableMinutes(n)
        /\ DisableMinutes(n) > 0 <=> n >= OpenAt
    BY <1>1, DisableMinutesGrows, DisableMinutesOpens
  <1>3. q \in ProxyRecord
    <2> DEFINE counted == [p EXCEPT !.consecutive_fails = n,
                                    !.last_check = "fresh"]
    <2>1. counted \in ProxyRecord
      BY <1>0, <1>1 DEF ProxyRecord, CheckAge
    <2>2. [counted EXCEPT !.status = "Failed"] \in ProxyRecord
      BY <2>1 DEF ProxyRecord, Status
    <2>3. [counted EXCEPT !.circuit = DisableMinutes(n), !.status = "Failed"]
            \in ProxyRecord
      BY <2>1, <1>2 DEF ProxyRecord, Status
    <2> QED BY <2>1, <2>2, <2>3 DEF RecordFail
  <1>4. /\ q.consecutive_fails = n
        /\ q.last_check = "fresh"
        /\ q.last_success = p.last_success
        /\ q.status = IF n >= OpenAt THEN "Failed" ELSE p.status
        /\ q.circuit = IF n < FailAt /\ n >= OpenAt THEN DisableMinutes(n)
                       ELSE p.circuit
    BY <1>0, <1>1, <1>2, ThresholdAssumption DEF RecordFail, ProxyRecord
  <1>5. /\ p.circuit # NoCircuit => p.status = "Failed"
        /\ p.circuit <= DisableMinutes(p.consecutive_fails)
        /\ p.status = "Failed" => p.consecutive_fails >= OpenAt
        /\ p.status \in {"Verified", "PresumedAlive"} =>
             p.last_success # "none"
    BY <1>0 DEF BreakerConsistent
  <1> HIDE DEF n, q
  <1>6. q.circuit >= p.circuit /\ q.circuit <= DisableMinutes(n)
    BY <1>1, <1>2, <1>4, <1>5
  <1>7. BreakerConsistent(q)
    BY <1>1, <1>4, <1>5, <1>6, ThresholdAssumption DEF BreakerConsistent, n
  <1> QED BY <1>3, <1>6, <1>7 DEF Sound, q

(* What serde keeps of a record. *)
LEMMA SerializedSound ==
  ASSUME NEW p, Sound(p)
  PROVE  Sound(Serialized(p))
  <1>0. p \in ProxyRecord
    BY DEF Sound
  <1>1. Serialized(p) \in ProxyRecord
    BY <1>0 DEF Serialized, ProxyRecord, NoCircuit, Status
  <1>2. /\ Serialized(p).consecutive_fails = p.consecutive_fails
        /\ Serialized(p).status = "None"
        /\ Serialized(p).circuit = -1
    BY <1>0 DEF Serialized, ProxyRecord, NoCircuit
  <1>3. p.consecutive_fails \in Nat
    BY <1>0 DEF ProxyRecord
  <1>4. DisableMinutes(p.consecutive_fails) \in Nat
    BY <1>3, DisableMinutesGrows
  <1>5. BreakerConsistent(Serialized(p))
    BY <1>2, <1>4 DEF BreakerConsistent, NoCircuit
  <1> QED BY <1>1, <1>5 DEF Sound

(* Proxy::mark_presumed_alive on a record that was read back. *)
LEMMA RestoredSound ==
  ASSUME NEW p, Sound(p)
  PROVE  Sound(Restored(p))
  <1> DEFINE q == MarkPresumedAlive(p)
  <1>0. p \in ProxyRecord
    BY DEF Sound
  <1>1. q \in ProxyRecord
    BY <1>0, ZeroFails
       DEF MarkPresumedAlive, ProxyRecord, NoCircuit, Status
  <1>2. /\ q.consecutive_fails = 0
        /\ q.status = "PresumedAlive"
        /\ q.circuit = -1
        /\ q.last_success = p.last_success
    BY <1>0 DEF MarkPresumedAlive, ProxyRecord, NoCircuit
  <1>3. p.last_success = "recent" => BreakerConsistent(q)
    BY <1>2, ThresholdAssumption
       DEF BreakerConsistent, DisableMinutes, NoCircuit
  <1> QED BY <1>1, <1>3 DEF Sound, Restored

(* The TLS verdict does not touch the breaker. *)
LEMMA SetTlsCleanSound ==
  ASSUME NEW p, Sound(p), NEW verdict \in {"true", "false"}
  PROVE  Sound(SetTlsClean(p, verdict))
  <1>0. p \in ProxyRecord /\ BreakerConsistent(p)
    BY DEF Sound
  <1>1. SetTlsClean(p, verdict) \in ProxyRecord
    BY <1>0 DEF SetTlsClean, ProxyRecord
  <1>2. BreakerConsistent(SetTlsClean(p, verdict))
    BY <1>0 DEF SetTlsClean, ProxyRecord, BreakerConsistent
  <1> QED BY <1>1, <1>2 DEF Sound

(* Nor does the country. *)
LEMMA SetCountrySound ==
  ASSUME NEW p, Sound(p), NEW c \in Countries
  PROVE  Sound(SetCountry(p, c))
  <1>0. p \in ProxyRecord /\ BreakerConsistent(p)
    BY DEF Sound
  <1>1. SetCountry(p, c) \in ProxyRecord
    BY <1>0 DEF SetCountry, ProxyRecord
  <1>2. BreakerConsistent(SetCountry(p, c))
    BY <1>0 DEF SetCountry, ProxyRecord, BreakerConsistent
  <1> QED BY <1>1, <1>2 DEF Sound

(* A minute only runs circuits down and timestamps up. *)
LEMMA MinuteSound ==
  ASSUME NEW p, Sound(p)
  PROVE  Sound(MinutePasses(p))
  <1> DEFINE q == MinutePasses(p)
  <1>0. p \in ProxyRecord /\ BreakerConsistent(p)
    BY DEF Sound
  <1>1. q \in ProxyRecord
    <2> DEFINE c == IF p.circuit > 0 THEN p.circuit - 1 ELSE p.circuit
               k == IF p.last_check = "fresh" THEN "stale" ELSE p.last_check
    <2>1. c \in {NoCircuit} \cup 0..CoolLongest /\ k \in CheckAge
      BY <1>0, CooldownAssumption DEF ProxyRecord, NoCircuit, CheckAge
    <2>2. q = [p EXCEPT !.circuit = c, !.last_check = k]
      BY DEF MinutePasses
    <2> HIDE DEF c, k
    <2> QED BY <1>0, <2>1, <2>2 DEF ProxyRecord
  <1>2. /\ q.consecutive_fails = p.consecutive_fails
        /\ q.status = p.status
        /\ q.last_success = p.last_success
        /\ q.last_check = "none" <=> p.last_check = "none"
        /\ q.circuit <= p.circuit
        /\ q.circuit # NoCircuit => p.circuit # NoCircuit
    BY <1>0 DEF MinutePasses, ProxyRecord, NoCircuit
  <1>3. /\ p.consecutive_fails \in Nat
        /\ p.circuit \in Int /\ q.circuit \in Int
    BY <1>0, <1>1 DEF ProxyRecord, NoCircuit
  <1>4. DisableMinutes(p.consecutive_fails) \in Nat
    BY <1>3, DisableMinutesGrows
  <1>5. BreakerConsistent(q)
    BY <1>0, <1>2, <1>3, <1>4 DEF BreakerConsistent
  <1> QED BY <1>1, <1>5 DEF Sound

(* So does an hour since the last success, *)
LEMMA HourSound ==
  ASSUME NEW p, Sound(p)
  PROVE  Sound(HourPasses(p))
  <1>0. p \in ProxyRecord /\ BreakerConsistent(p)
    BY DEF Sound
  <1>1. HourPasses(p) \in ProxyRecord
    BY <1>0 DEF HourPasses, ProxyRecord, SuccessAge
  <1>2. BreakerConsistent(HourPasses(p))
    BY <1>0 DEF HourPasses, ProxyRecord, BreakerConsistent
  <1> QED BY <1>1, <1>2 DEF Sound

(* and a day since the last check. *)
LEMMA DaySound ==
  ASSUME NEW p, Sound(p)
  PROVE  Sound(DayPasses(p))
  <1> DEFINE h == HourPasses(p)
             q == DayPasses(p)
  <1>0. h \in ProxyRecord /\ BreakerConsistent(h)
    BY HourSound DEF Sound
  <1>1. p \in ProxyRecord /\ p.circuit = h.circuit
        /\ p.last_check = h.last_check
    BY DEF Sound, HourPasses, ProxyRecord
  <1>2. q = [h EXCEPT !.circuit = IF h.circuit > 0 THEN 0 ELSE h.circuit,
                      !.last_check = IF h.last_check = "none" THEN "none"
                                     ELSE "old"]
    BY <1>1 DEF DayPasses
  <1> HIDE DEF h, q
  <1>3. q \in ProxyRecord
    <2> DEFINE c == IF h.circuit > 0 THEN 0 ELSE h.circuit
               k == IF h.last_check = "none" THEN "none" ELSE "old"
    <2>1. c \in {NoCircuit} \cup 0..CoolLongest /\ k \in CheckAge
      BY <1>0, CooldownAssumption DEF ProxyRecord, NoCircuit, CheckAge
    <2>2. q = [h EXCEPT !.circuit = c, !.last_check = k]
      BY <1>2
    <2> HIDE DEF c, k
    <2> QED BY <1>0, <2>1, <2>2 DEF ProxyRecord
  <1>4. /\ q.consecutive_fails = h.consecutive_fails
        /\ q.status = h.status
        /\ q.last_success = h.last_success
        /\ q.last_check = "none" <=> h.last_check = "none"
        /\ q.circuit <= h.circuit
        /\ q.circuit # NoCircuit => h.circuit # NoCircuit
    BY <1>0, <1>2 DEF ProxyRecord, NoCircuit
  <1>5. /\ h.consecutive_fails \in Nat
        /\ h.circuit \in Int /\ q.circuit \in Int
    BY <1>0, <1>3 DEF ProxyRecord, NoCircuit
  <1>6. DisableMinutes(h.consecutive_fails) \in Nat
    BY <1>5, DisableMinutesGrows
  <1>7. BreakerConsistent(q)
    BY <1>0, <1>4, <1>5, <1>6 DEF BreakerConsistent
  <1> QED BY <1>3, <1>7 DEF Sound, q

-----------------------------------------------------------------------------
(* The life of one record. *)

(* The record in memory and the one in the file are both well-formed and
   consistent: inductive, because every step applies one method to one of
   them or copies one to the other through serde.                           *)
BreakerIInv ==
  /\ Sound(proxy)
  /\ Sound(saved)
  /\ inFile \in BOOLEAN

(* A new proxy and its empty place in the file are sound. *)
LEMMA BreakerInitIInv == BreakerInit => BreakerIInv
  <1> SUFFICES ASSUME BreakerInit PROVE BreakerIInv
    OBVIOUS
  <1>1. Sound(NewProxy) /\ Sound(Serialized(NewProxy))
    BY NewProxySound, SerializedSound
  <1> QED BY <1>1 DEF BreakerInit, BreakerIInv

(* Every outcome, save, restart and tick of the clock preserves it. *)
LEMMA BreakerNextIInv == BreakerIInv /\ [BreakerNext]_breakerVars => BreakerIInv'
  <1> SUFFICES ASSUME BreakerIInv, [BreakerNext]_breakerVars PROVE BreakerIInv'
    OBVIOUS
  <1>0. Sound(proxy) /\ Sound(saved) /\ inFile \in BOOLEAN
    BY DEF BreakerIInv
  <1>1. CASE ConnectionSucceeds
    BY <1>0, <1>1, RecordSuccessSound DEF BreakerIInv, ConnectionSucceeds
  <1>2. CASE ConnectionFails
    BY <1>0, <1>2, RecordFailSound DEF BreakerIInv, ConnectionFails
  <1>3. CASE ProbeSucceeds
    BY <1>1, <1>3 DEF ProbeSucceeds
  <1>4. CASE ProbeFails
    BY <1>2, <1>4 DEF ProbeFails
  <1>5. CASE SaveState
    <2>1. Sound(Serialized(proxy)) /\ Sound(Serialized(NewProxy))
      BY <1>0, NewProxySound, SerializedSound
    <2>2. inFile' \in BOOLEAN /\ proxy' = proxy
      BY <1>5 DEF SaveState
    <2>3. saved' = Serialized(proxy) \/ saved' = Serialized(NewProxy)
      BY <1>5 DEF SaveState
    <2> QED BY <1>0, <2>1, <2>2, <2>3 DEF BreakerIInv
  <1>6. CASE Restart
    <2>1. Sound(Restored(saved)) /\ Sound(NewProxy)
      BY <1>0, NewProxySound, RestoredSound
    <2>2. proxy' = Restored(saved) \/ proxy' = NewProxy
      BY <1>6 DEF Restart
    <2> QED BY <1>0, <1>6, <2>1, <2>2 DEF BreakerIInv, Restart
  <1>7. CASE BreakerMinute
    BY <1>0, <1>7, MinuteSound DEF BreakerIInv, BreakerMinute
  <1>8. CASE BreakerHour
    <2>1. Sound(HourPasses(proxy)) /\ Sound(HourPasses(saved))
      BY <1>0, HourSound
    <2> QED BY <1>0, <1>8, <2>1 DEF BreakerIInv, BreakerHour
  <1>9. CASE BreakerDay
    BY <1>0, <1>9, DaySound DEF BreakerIInv, BreakerDay
  <1>10. CASE UNCHANGED breakerVars
    BY <1>0, <1>10 DEF BreakerIInv, breakerVars
  <1> QED
    BY <1>1, <1>2, <1>3, <1>4, <1>5, <1>6, <1>7, <1>8, <1>9, <1>10 DEF BreakerNext

(* It holds in every reachable state. *)
LEMMA BreakerInvariantHolds == BreakerSpec => []BreakerIInv
  BY BreakerInitIInv, BreakerNextIInv, PTL DEF BreakerSpec

(* The record keeps its type under every interleaving of outcomes, saves and
   restarts.                                                                *)
THEOREM BreakerTypeCorrect == BreakerSpec => []BreakerTypeOK
  <1>1. BreakerIInv => BreakerTypeOK
    BY DEF BreakerIInv, BreakerTypeOK, Sound
  <1> QED BY <1>1, BreakerInvariantHolds, PTL

(* Status, failure count, circuit and timestamps always agree: no circuit on
   a proxy that is not Failed, no circuit longer than the count prescribes,
   no proxy over the threshold that is still Verified.                      *)
THEOREM BreakerStaysConsistent == BreakerSpec => []BreakerInv
  <1>1. BreakerIInv => BreakerInv
    BY DEF BreakerIInv, BreakerInv, Sound
  <1> QED BY <1>1, BreakerInvariantHolds, PTL

(* A failure, however late it arrives, never makes the proxy available
   earlier than it would have been without it.                              *)
THEOREM FailuresNeverShorten == BreakerSpec => CooldownNeverShortened
  <1>1. BreakerIInv /\ [BreakerNext]_breakerVars
          => [ConnectionFails => proxy'.circuit >= proxy.circuit]_breakerVars
    <2> SUFFICES ASSUME BreakerIInv, ConnectionFails
                 PROVE  proxy'.circuit >= proxy.circuit
      OBVIOUS
    <2>1. RecordFail(proxy).circuit >= proxy.circuit
      BY RecordFailSound DEF BreakerIInv
    <2> QED BY <2>1 DEF ConnectionFails
  <1> QED BY <1>1, BreakerInvariantHolds, PTL DEF BreakerSpec, CooldownNeverShortened
=============================================================================
