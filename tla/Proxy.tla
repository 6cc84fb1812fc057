------------------------------- MODULE Proxy -------------------------------
(***************************************************************************)
(* The value type of the gateway's pool: one upstream proxy server         *)
(* (src/src/pool/proxy.rs), and what each method of it does to the record. *)
(*                                                                         *)
(* Only what the control flow of the gateway reads is kept.  Latency, the  *)
(* uptime streak and the score order candidates of one tier; the selection *)
(* among them is random with positive weights, so it is a free choice.     *)
(* Timestamps are kept as the age classes that the code compares them to.  *)
(***************************************************************************)
EXTENDS Integers

CONSTANTS
  OpenAt,       \* consecutive failures that open the circuit        (5)
  LongerAt,     \* ... that open it for the second duration          (10)
  LongestAt,    \* ... that open it for the third duration           (20)
  FailAt,       \* ... after which record_fail returns early         (50)
  CoolShort,    \* the three durations, in minutes                   (1)
  CoolLong,     \*                                                   (5)
  CoolLongest,  \*                                                   (60)
  MaxFails,     \* cap on consecutive_fails: the code tells no counts apart
                \* from FailAt on
  Countries     \* country codes that GeoIP can report

ASSUME ThresholdAssumption ==
  /\ OpenAt \in Nat /\ LongerAt \in Nat /\ LongestAt \in Nat
  /\ FailAt \in Nat /\ MaxFails \in Nat
  /\ 0 < OpenAt /\ OpenAt <= LongerAt
  /\ LongerAt <= LongestAt /\ LongestAt < FailAt /\ FailAt <= MaxFails

ASSUME CooldownAssumption ==
  /\ CoolShort \in Nat /\ CoolLong \in Nat /\ CoolLongest \in Nat
  /\ 0 < CoolShort /\ CoolShort <= CoolLong /\ CoolLong <= CoolLongest

ASSUME CountryAssumption == "None" \notin Countries

-----------------------------------------------------------------------------
(* circuit_open_until: NoCircuit is the code's None; any other value is the
   number of minutes left until the Instant, 0 once it has passed.          *)
NoCircuit == -1

Status == {"Verified", "PresumedAlive", "Unchecked", "Failed", "None"}

(* last_check:   never; at most 60 s old; older; at least 24 h old.
   last_success: never; less than 1 h old; older.
   success_count > 0 exactly when last_success is set.                      *)
CheckAge == {"none", "fresh", "stale", "old"}
SuccessAge == {"none", "recent", "old"}

ProxyRecord ==
  [ consecutive_fails : 0..MaxFails,
    last_check        : CheckAge,
    last_success      : SuccessAge,
    tls_clean         : {"None", "true", "false"},
    country           : Countries \cup {"None"},
    status            : Status,
    circuit           : {NoCircuit} \cup 0..CoolLongest ]

-----------------------------------------------------------------------------
(* Proxy::new *)
NewProxy ==
  [ consecutive_fails |-> 0,
    last_check        |-> "none",
    last_success      |-> "none",
    tls_clean         |-> "None",
    country           |-> "None",
    status            |-> "Unchecked",
    circuit           |-> NoCircuit ]

(* Mutant: circuit_open_until is not cleared. *)
RecordSuccessKeepsCircuit(p) ==
  [p EXCEPT !.consecutive_fails = 0,
            !.last_success = "recent",
            !.last_check = "fresh",
            !.status = "Verified"]

(* Mutant: the TLS verdict is cleared too, as if a new one always followed. *)
RecordSuccessForgetsVerdict(p) ==
  [p EXCEPT !.consecutive_fails = 0,
            !.last_success = "recent",
            !.last_check = "fresh",
            !.tls_clean = "None",
            !.status = "Verified",
            !.circuit = NoCircuit]

(* Proxy::record_success *)
RecordSuccess(p) ==
  [p EXCEPT !.consecutive_fails = 0,
            !.last_success = "recent",
            !.last_check = "fresh",
            !.status = "Verified",
            !.circuit = NoCircuit]

(* Mutant: the second and the third duration are swapped. *)
DisableMinutesSwapped(n) ==
  IF n < OpenAt THEN 0
  ELSE IF n < LongerAt THEN CoolShort
  ELSE IF n < LongestAt THEN CoolLongest
  ELSE CoolLong

(* Mutant: the seconds of the match are taken for minutes. *)
DisableMinutesTakenForSeconds(n) ==
  60 * (IF n < OpenAt THEN 0
        ELSE IF n < LongerAt THEN CoolShort
        ELSE IF n < LongestAt THEN CoolLong
        ELSE CoolLongest)

(* The match in Proxy::record_fail: minutes for n consecutive failures,
   n < FailAt; 0 leaves the circuit alone.                                  *)
DisableMinutes(n) ==
  IF n < OpenAt THEN 0
  ELSE IF n < LongerAt THEN CoolShort
  ELSE IF n < LongestAt THEN CoolLong
  ELSE CoolLongest

Capped(n) == IF n > MaxFails THEN MaxFails ELSE n

(* Mutant: a circuit that is open is prolonged, instead of set from now. *)
RecordFailProlongs(p) ==
  LET n == Capped(p.consecutive_fails + 1)
      left == IF p.circuit = NoCircuit THEN 0 ELSE p.circuit
      counted == [p EXCEPT !.consecutive_fails = n, !.last_check = "fresh"]
  IN  IF n >= FailAt
      THEN [counted EXCEPT !.status = "Failed"]
      ELSE IF DisableMinutes(n) > 0
           THEN [counted EXCEPT !.circuit = left + DisableMinutes(n),
                                !.status = "Failed"]
           ELSE counted

(* Proxy::record_fail.  From FailAt on it returns before circuit_open_until
   is assigned: only the status is set.                                     *)
RecordFail(p) ==
  LET n == Capped(p.consecutive_fails + 1)
      counted == [p EXCEPT !.consecutive_fails = n, !.last_check = "fresh"]
  IN  IF n >= FailAt
      THEN [counted EXCEPT !.status = "Failed"]
      ELSE IF DisableMinutes(n) > 0
           THEN [counted EXCEPT !.circuit = DisableMinutes(n),
                                !.status = "Failed"]
           ELSE counted

(* Mutant: a circuit that was ever set never closes. *)
IsAvailableOnlyUnset(p) == p.circuit = NoCircuit

(* Proxy::is_available *)
IsAvailable(p) == p.circuit = NoCircuit \/ p.circuit = 0

(* The filter of SharedState::proxies_needing_check. *)
NeedsCheck(p) ==
  \/ p.status \in {"Unchecked", "None", "PresumedAlive"}
  \/ p.status = "Verified" /\ p.last_check \in {"stale", "old"}
  \/ p.status = "Failed" /\ IsAvailable(p)

(* Proxy::mark_presumed_alive *)
MarkPresumedAlive(p) ==
  [p EXCEPT !.status = "PresumedAlive",
            !.circuit = NoCircuit,
            !.consecutive_fails = 0]

(* What serde writes to state.json and reads back: the fields marked
   #[serde(skip)] come back as their default, None.                         *)
Serialized(p) == [p EXCEPT !.status = "None", !.circuit = NoCircuit]

(* The body of the loop of load_state_from, up to the insertion. *)
Restored(p) ==
  IF p.last_success = "recent" THEN MarkPresumedAlive(p) ELSE p

-----------------------------------------------------------------------------
(* SharedState::set_tls_clean and the assignment in spawn_geoip_lookup. *)
SetTlsClean(p, verdict) == [p EXCEPT !.tls_clean = verdict]
SetCountry(p, c) == [p EXCEPT !.country = c]

-----------------------------------------------------------------------------
(* The passage of time, as the code's clock comparisons see it. *)
MinutePasses(p) ==
  [p EXCEPT !.circuit = IF p.circuit > 0 THEN p.circuit - 1 ELSE p.circuit,
            !.last_check = IF p.last_check = "fresh" THEN "stale"
                           ELSE p.last_check]

(* An hour since the last success: load_state no longer presumes it alive. *)
HourPasses(p) ==
  [p EXCEPT !.last_success = IF p.last_success = "recent" THEN "old"
                             ELSE p.last_success]

(* A day since the last check: cleanup_stale may drop it. *)
DayPasses(p) ==
  [HourPasses(p) EXCEPT !.circuit = IF p.circuit > 0 THEN 0 ELSE p.circuit,
                        !.last_check = IF p.last_check = "none" THEN "none"
                                       ELSE "old"]

-----------------------------------------------------------------------------
(* What record_success, record_fail, mark_presumed_alive and the fields that
   serde skips keep true between them: a circuit is set only on a proxy that
   is Failed, and never runs for longer than its number of failures
   prescribes; a Failed proxy has enough failures; one with that many
   failures is Failed, or it was just loaded and has no status at all; and a
   proxy is used first only because it worked before.                       *)
BreakerConsistent(p) ==
  /\ p.circuit # NoCircuit => p.status = "Failed"
  /\ p.circuit <= DisableMinutes(p.consecutive_fails)
  /\ p.status = "Failed" => p.consecutive_fails >= OpenAt
  /\ p.consecutive_fails >= OpenAt => p.status \in {"Failed", "None"}
  /\ p.status = "Verified" => p.last_check # "none"
  /\ p.status \in {"Verified", "PresumedAlive"} => p.last_success # "none"
=============================================================================
