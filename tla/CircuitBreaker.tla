--------------------------- MODULE CircuitBreaker ---------------------------
(***************************************************************************)
(* The life of one proxy record under the circuit breaker: connection and  *)
(* health-check outcomes arrive at any time from any task, the clock runs, *)
(* the record is saved to state.json, and the process is restarted from    *)
(* the file.  src/src/pool/{proxy,state,persistence}.rs                    *)
(***************************************************************************)
EXTENDS Proxy

VARIABLES
  proxy,    \* the entry of the pool
  saved,    \* its entry in state.json, meaningful if inFile
  inFile

breakerVars == <<proxy, saved, inFile>>

BreakerInit ==
  /\ proxy = NewProxy
  /\ saved = Serialized(NewProxy)
  /\ inFile = FALSE

-----------------------------------------------------------------------------
(* A client connection through the proxy ends well: SharedState::record_success.
   A connection is made through a proxy whatever its circuit says: it was
   selected earlier, or it comes from a sticky session, which does not ask.  *)
ConnectionSucceeds ==
  /\ proxy' = RecordSuccess(proxy)
  /\ UNCHANGED <<saved, inFile>>

(* ... or it fails: SharedState::record_fail. *)
ConnectionFails ==
  /\ proxy' = RecordFail(proxy)
  /\ UNCHANGED <<saved, inFile>>

(* The health checker only probes a proxy that proxies_needing_check lists.
   The result is applied in the step that decides it: later application is
   a connection outcome.                                                    *)
ProbeSucceeds == NeedsCheck(proxy) /\ ConnectionSucceeds
ProbeFails    == NeedsCheck(proxy) /\ ConnectionFails

-----------------------------------------------------------------------------
(* save_state_to: only proxies that were checked at least once are written;
   the file is replaced as a whole.                                         *)
SaveState ==
  /\ inFile' = (proxy.last_check # "none")
  /\ saved' = IF proxy.last_check # "none" THEN Serialized(proxy)
              ELSE Serialized(NewProxy)
  /\ UNCHANGED proxy

(* The process ends, with or without a last save, and is started again:
   load_state, or the proxy comes back from a source as a new one.          *)
Restart ==
  /\ proxy' = IF inFile THEN Restored(saved) ELSE NewProxy
  /\ UNCHANGED <<saved, inFile>>

(* The clock runs; timestamps in the file grow older with those in memory,
   and the saved success is at least as old as the one in memory.           *)
BreakerMinute ==
  /\ proxy' = MinutePasses(proxy)
  /\ saved' = MinutePasses(saved)
  /\ UNCHANGED inFile

BreakerHour ==
  /\ proxy' \in {proxy, HourPasses(proxy)}
  /\ saved' = HourPasses(saved)
  /\ UNCHANGED inFile

BreakerDay ==
  /\ proxy' = DayPasses(proxy)
  /\ saved' = DayPasses(saved)
  /\ UNCHANGED inFile

BreakerNext ==
  \/ ConnectionSucceeds \/ ConnectionFails
  \/ ProbeSucceeds \/ ProbeFails
  \/ SaveState \/ Restart
  \/ BreakerMinute \/ BreakerHour \/ BreakerDay

(* The clock runs. *)
BreakerFairness == WF_breakerVars(BreakerMinute)

BreakerSpec == BreakerInit /\ [][BreakerNext]_breakerVars

BreakerFairSpec == BreakerSpec /\ BreakerFairness

-----------------------------------------------------------------------------
(* Types: the record stays a ProxyRecord in memory and in the file. *)
BreakerTypeOK ==
  /\ proxy \in ProxyRecord
  /\ saved \in ProxyRecord
  /\ inFile \in BOOLEAN

(* Status, failure count, circuit and timestamps of the record agree, however
   successes, failures, late results, saves and restarts interleave, and the
   copy in state.json could be put back at any time.                        *)
BreakerInv == BreakerConsistent(proxy) /\ BreakerConsistent(saved)

(* A failure never makes a proxy available earlier than it already would be:
   the escalation of record_fail only goes up, also where a late failure of
   an old connection arrives while the circuit is open.                     *)
CooldownNeverShortened ==
  [][ConnectionFails => proxy'.circuit >= proxy.circuit]_breakerVars

(* README, "Circuit Breaker": after the cooldown the proxy is re-tested.  A
   proxy that the breaker took out of use comes back to the health checker's
   list, unless a connection already made through it clears it; neither a
   long circuit nor late failures that renew it keep it off for good.  The
   promise ends with the failure that the README calls permanent.           *)
Disabled == proxy.status = "Failed" /\ proxy.consecutive_fails < FailAt

FailedIsRetested ==
  Disabled ~> \/ NeedsCheck(proxy)
              \/ proxy.status = "Verified"
              \/ proxy.consecutive_fails >= FailAt
=============================================================================
