---------------------------- MODULE ConfigReload ----------------------------
(***************************************************************************)
(* Hot reload: ConfigManager (src/src/config.rs), the reload loop of main  *)
(* (src/src/main.rs), and what it changes in the sticky sessions.  A       *)
(* configuration is told by its sticky_session_ttl; its excluded countries *)
(* go with it.                                                             *)
(***************************************************************************)
EXTENDS StickySessions

CONSTANTS
  Channel,     \* capacity of the channel of start_watching  (100)
  MaxKernel,   \* file events that the system keeps; like ones are merged
  DefaultTtl,  \* Config::default()
  Partial,     \* a file that is being written, and does not parse
  Absent       \* no file

ASSUME ReloadAssumption ==
  /\ Channel \in Nat \ {0} /\ MaxKernel \in Nat \ {0}
  /\ DefaultTtl \in Ttls /\ Partial \notin Ttls /\ Absent \notin Ttls

VARIABLES
  file,       \* the configuration file: its TTL, Partial or Absent
  config,     \* ConfigManager.config
  countries,  \* SharedState.exclude_countries
  watch,      \* "starting", "on", "lost", "failed" or "stopped"
  kernel,     \* file events that the watcher thread has not seen
  channel,    \* messages in the channel
  loop,       \* the reload loop: "recv", "reload", "ttl", "countries", "ended"
  edited      \* the file has been written to since it is being watched

reloadVars == <<file, config, countries, watch, kernel, channel, loop, edited>>
vars == <<stickyVars, reloadVars>>

(* load_or_default at start. *)
Loaded(f) == IF f \in Ttls THEN f ELSE DefaultTtl

Init ==
  /\ file \in Ttls \cup {Partial, Absent}
  /\ config = Loaded(file) /\ countries = config
  /\ StickyInit /\ ttl = config
  /\ watch = "starting" /\ kernel = 0 /\ channel = 0
  /\ loop = "recv" /\ edited = FALSE

-----------------------------------------------------------------------------
(* The file is written in place: truncated, then complete.  A watched file
   gives an event for each.                                                 *)
Notices == IF watch = "on" /\ kernel < MaxKernel THEN kernel + 1 ELSE kernel

Truncates ==
  /\ file \in Ttls
  /\ file' = Partial
  /\ kernel' = Notices
  /\ UNCHANGED <<stickyVars, config, countries, watch, channel, loop, edited>>

(* The watch is on the file, not on its name: a file that is created later is
   not seen.                                                                 *)
Completes(c) ==
  /\ file \in {Partial, Absent}
  /\ file' = c
  /\ kernel' = Notices
  /\ edited' = (watch = "on")
  /\ UNCHANGED <<stickyVars, config, countries, watch, channel, loop>>

(* Another file is renamed over it: the watched one is gone, which may give a
   last event.                                                               *)
Replaced(c) ==
  /\ file' = c
  /\ watch' = IF watch = "on" THEN "lost" ELSE watch
  /\ kernel' \in {kernel, Notices}
  /\ edited' = FALSE
  /\ UNCHANGED <<stickyVars, config, countries, channel, loop>>

-----------------------------------------------------------------------------
(* start_watching: the spawned task gets to watch(), which fails for a file
   that is not there; then the sender is dropped and the loop ends.         *)
Watches ==
  /\ watch = "starting"
  /\ watch' = IF file = Absent THEN "failed" ELSE "on"
  /\ UNCHANGED <<stickyVars, file, config, countries, kernel, channel, loop, edited>>

(* Mutant: try_send that drops the message for a reload under way. *)
ForwardsIfIdle ==
  /\ kernel > 0 /\ watch # "stopped"
  /\ kernel' = kernel - 1
  /\ channel' = IF loop = "recv" /\ channel < Channel THEN channel + 1 ELSE channel
  /\ UNCHANGED <<stickyVars, file, config, countries, watch, loop, edited>>

(* The watcher thread: blocking_send waits for room in the channel. *)
Forwards ==
  /\ kernel > 0 /\ watch # "stopped"
  /\ channel < Channel
  /\ kernel' = kernel - 1
  /\ channel' = channel + 1
  /\ UNCHANGED <<stickyVars, file, config, countries, watch, loop, edited>>

(* The reload loop of main: recv, *)
Receives ==
  /\ loop = "recv"
  /\ channel > 0
  /\ channel' = channel - 1
  /\ loop' = "reload"
  /\ UNCHANGED <<stickyVars, file, config, countries, watch, kernel, edited>>

ChannelClosed ==
  /\ loop = "recv"
  /\ channel = 0 /\ watch = "failed"
  /\ loop' = "ended"
  /\ UNCHANGED <<stickyVars, file, config, countries, watch, kernel, channel, edited>>

(* Mutant: what does not load is taken over. *)
ReloadsAnything ==
  /\ loop = "reload"
  /\ config' = file
  /\ loop' = "ttl"
  /\ UNCHANGED <<stickyVars, file, countries, watch, kernel, channel, edited>>

(* reload: a file that does not load leaves the configuration as it is, *)
Reloads ==
  /\ loop = "reload"
  /\ config' = IF file \in Ttls THEN file ELSE config
  /\ loop' = "ttl"
  /\ UNCHANGED <<stickyVars, file, countries, watch, kernel, channel, edited>>

(* get, sticky_sessions.set_ttl, *)
SetsTtl ==
  /\ loop = "ttl"
  /\ ttl' = config
  /\ overtaken' = overtaken \cup {t \in Tasks : using[t].pc = "expired"}
  /\ loop' = "countries"
  /\ UNCHANGED <<sessions, using, file, config, countries, watch, kernel, channel, edited>>

(* Mutant: the countries are left out. *)
SetsNoCountries ==
  /\ loop = "countries"
  /\ loop' = "recv"
  /\ UNCHANGED <<stickyVars, file, config, countries, watch, kernel, channel, edited>>

(* exclude_countries.write() *)
SetsCountries ==
  /\ loop = "countries"
  /\ countries' = config
  /\ loop' = "recv"
  /\ UNCHANGED <<stickyVars, file, config, watch, kernel, channel, edited>>

(* Shutdown: the loops are aborted, the watcher stopped, the sessions cleared;
   main goes on to its last save and returns.                               *)
Stops ==
  /\ loop # "ended" \/ watch # "stopped"
  /\ loop' = "ended" /\ watch' = "stopped" /\ kernel' = 0
  /\ sessions' = EmptyMap
  /\ UNCHANGED <<using, ttl, overtaken, file, config, countries, channel, edited>>

-----------------------------------------------------------------------------
ReloadLoop == Receives \/ ChannelClosed \/ Reloads \/ SetsTtl \/ SetsCountries

Next ==
  \/ watch # "stopped" /\ StickyNext /\ UNCHANGED reloadVars
  \/ Truncates \/ \E c \in Ttls : Completes(c) \/ Replaced(c)
  \/ Watches \/ Forwards \/ ReloadLoop \/ Stops

Spec == Init /\ [][Next]_vars

(* The threads and tasks of the reload go on. *)
Fairness ==
  /\ StickyFairness
  /\ WF_vars(Watches) /\ WF_vars(Forwards) /\ WF_vars(ReloadLoop)

FairSpec == Spec /\ Fairness

-----------------------------------------------------------------------------
(* Types: the sessions, the file, its watch, the channel and the loop. *)
TypeOK ==
  /\ StickyTypeOK
  /\ file \in Ttls \cup {Partial, Absent}
  /\ config \in Ttls /\ countries \in Ttls
  /\ watch \in {"starting", "on", "lost", "failed", "stopped"}
  /\ kernel \in 0..MaxKernel /\ channel \in 0..Channel
  /\ loop \in {"recv", "reload", "ttl", "countries", "ended"}
  /\ edited \in BOOLEAN

(* Between two reloads the TTL of the sessions and the excluded countries are
   those of one and the same configuration, the one that the manager has,
   also after reloads that failed.                                          *)
AppliedTogether == loop = "recv" => ttl = config /\ countries = config

(* Hot reload: when a watched file has been written, also while an earlier
   change is being applied, with reads of the truncated file and the channel
   full, what it says in the end is applied.                                *)
EditsArrive ==
  \A c \in Ttls :
    file = c /\ edited /\ watch = "on"
      ~> (ttl = c /\ countries = c) \/ file # c \/ watch # "on"

(* While the gateway runs, a session is removed only once it has been idle for
   its effective TTL, by a cleanup and by a get alike, although get lets go of
   the session between its look and its remove.  The one session that goes
   before its time is one that another connection of the client refreshed, or
   whose TTL was set, between the two.                                      *)
RemovedWhenIdle ==
  [][\A p \in DOMAIN sessions :
       p \notin DOMAIN sessions' /\ watch' # "stopped" =>
         \/ sessions[p].age >= EffectiveTtl(sessions[p])
         \/ \E t \in overtaken : using[t].peer = p /\ using'[t] # using[t]]_vars

(* Every idle session goes in the end, however often it has been used: three
   times the TTL is the most that it gets.                                  *)
IdleSessionsGo ==
  \A p \in Peers :
    p \in DOMAIN sessions /\ sessions[p].age > 0
      ~> p \notin DOMAIN sessions \/ sessions[p].age = 0
=============================================================================
