----------------------------- MODULE Watchdog -----------------------------
(***************************************************************************)
(* The watchdog daemon (watchdog.py): it polls llama-server's counters and *)
(* slots and runs `down` when the machine has been idle for long enough,   *)
(* or when its lifetime is over and it is idle.                            *)
(*                                                                         *)
(* One poll is several steps, and requests begin and end between them.     *)
(* Clocks are ages that stop at the limit they are compared with.  What    *)
(* `down` does step by step is in Deployment; here it succeeds or fails.   *)
(***************************************************************************)
EXTENDS Integers

CONSTANTS
    Safeguards,       \* the options that are set
    IdleTimeout,      \* idle_timeout_seconds, in ticks
    MaxRuntime,       \* max_runtime_seconds, in ticks
    Interval,         \* idle_poll_interval_seconds, in ticks
    MinObservations,  \* MIN_IDLE_OBSERVATIONS
    DeadAfter,        \* unknown polls before the provider is asked
    MaxFaults         \* bound on outages, preemptions and failed calls

ASSUME SafeguardsAssumption == Safeguards \subseteq {"idle-timeout", "max-runtime"}
ASSUME LimitsAssumption ==
    /\ {IdleTimeout, MaxRuntime, Interval, MinObservations, DeadAfter} \subseteq Nat \ {0}
    /\ MaxFaults \in Nat

VARIABLES
    disk,       \* state.json: the "watched" machine, "another" one, or "none"
    machine,    \* "up", "mute" (no metrics), "dead" (stopped), "gone"
    busy,       \* a slot is processing
    moved,      \* a token counter changed since the last metrics read
    wd,         \* where the loop is
    reason,     \* why it runs down, or "none"
    known,      \* previous_metrics is not empty
    sample,     \* what the metrics of this poll say
    failures,   \* consecutive_failures, up to DeadAfter
    inactive,   \* consecutive_inactive, up to MinObservations
    idleAge,    \* now - last_activity_epoch, up to IdleTimeout
    runAge,     \* now - started_epoch, up to MaxRuntime, or Undated
    sleep,      \* ticks until the next poll
    faults,     \* faults so far
    finished,   \* history: a request finished since the last metrics read
    overlooked, \* history: one finished since the last activity was recorded
    held        \* history: the request the slots showed is still running

server == <<machine, busy, moved>>
loop == <<wd, reason, sleep>>
observed == <<known, sample, failures, inactive, idleAge>>
history == <<finished, overlooked, held>>
watchdogVars == <<disk, server, loop, observed, runAge, faults, history>>

\* A state without started_epoch has no deadline, whatever is configured.
Undated == -1

WatchdogTypeOK ==
    /\ disk \in {"watched", "another", "none"}
    /\ machine \in {"up", "mute", "dead", "gone"}
    /\ wd \in {"load", "metrics", "slots", "confirm", "confirm_again", "decide",
               "down", "sleep", "exited"}
    /\ reason \in Safeguards \cup {"none", "dead"}
    /\ sample \in {"none", "first", "same", "changed"}
    /\ busy \in BOOLEAN /\ moved \in BOOLEAN /\ known \in BOOLEAN
    /\ finished \in BOOLEAN /\ overlooked \in BOOLEAN /\ held \in BOOLEAN
    /\ failures \in 0..DeadAfter /\ inactive \in 0..MinObservations
    /\ idleAge \in 0..IdleTimeout /\ runAge \in {Undated} \cup 0..MaxRuntime
    /\ sleep \in 0..Interval /\ faults \in 0..MaxFaults

\* run_watchdog binds to the machine in state.json and polls at once.
WatchdogInit ==
    /\ disk = "watched" /\ machine = "up"
    /\ busy \in BOOLEAN /\ moved = FALSE
    /\ wd = "load" /\ reason = "none" /\ sleep = 0
    /\ known = FALSE /\ sample = "none"
    /\ failures = 0 /\ inactive = 0 /\ idleAge = 0
    /\ runAge \in {Undated} \cup 0..MaxRuntime
    /\ faults = 0
    /\ finished = FALSE /\ overlooked = FALSE /\ held = FALSE

Capped(n, limit) == IF n < limit THEN n ELSE limit
Fault == faults < MaxFaults /\ faults' = faults + 1

-----------------------------------------------------------------------------
(* The loop.                                                                *)

Loads ==
    /\ wd = "load"
    /\ wd' = IF disk = "watched" THEN "metrics" ELSE "exited"
    /\ UNCHANGED <<disk, server, reason, sleep, observed, runAge, faults, history>>

Active ==
    /\ idleAge' = 0 /\ failures' = 0 /\ inactive' = 0
    /\ known' = TRUE /\ overlooked' = FALSE

Inactive ==
    /\ failures' = 0 /\ inactive' = Capped(inactive + 1, MinObservations)
    /\ known' = TRUE /\ UNCHANGED <<idleAge, overlooked>>

\* Nothing is known of the server: the clock restarts, the baseline is lost.
Unknown ==
    /\ failures' = Capped(failures + 1, DeadAfter)
    /\ inactive' = 0 /\ idleAge' = 0 /\ known' = FALSE /\ sample' = "none"
    /\ wd' = IF failures' = DeadAfter THEN "confirm" ELSE "decide"

\* get_metrics
ReadsMetrics ==
    /\ wd = "metrics"
    /\ overlooked' = (overlooked \/ finished) /\ finished' = FALSE
    /\ IF machine = "up"
         THEN /\ sample' = IF ~known THEN "first" ELSE IF moved THEN "changed" ELSE "same"
              /\ moved' = FALSE /\ wd' = "slots"
              /\ UNCHANGED <<known, failures, inactive, idleAge>>
         ELSE Unknown /\ UNCHANGED moved
    /\ UNCHANGED <<disk, machine, busy, reason, sleep, runAge, faults, held>>

\* Mutant: the slots are not looked at.
ReadsNoSlots ==
    /\ wd = "slots" /\ held' = busy
    /\ IF machine = "up"
         THEN /\ IF sample \in {"first", "changed"} THEN Active ELSE Inactive
              /\ wd' = "decide" /\ UNCHANGED sample
         ELSE Unknown /\ UNCHANGED overlooked
    /\ UNCHANGED <<disk, server, reason, sleep, runAge, faults, finished>>

\* Mutant: an idle poll restarts the clock.
ReadsSlotsRestarting ==
    /\ wd = "slots" /\ held' = busy
    /\ IF machine = "up"
         THEN /\ inactive' = IF busy THEN 0 ELSE Capped(inactive + 1, MinObservations)
              /\ idleAge' = 0 /\ failures' = 0 /\ known' = TRUE /\ overlooked' = FALSE
              /\ wd' = "decide" /\ UNCHANGED sample
         ELSE Unknown /\ UNCHANGED overlooked
    /\ UNCHANGED <<disk, server, reason, sleep, runAge, faults, finished>>

\* slots, after the metrics: the two are not read at one moment.
ReadsSlots ==
    /\ wd = "slots" /\ held' = busy
    /\ IF machine = "up"
         THEN /\ IF sample \in {"first", "changed"} \/ busy THEN Active ELSE Inactive
              /\ wd' = "decide" /\ UNCHANGED sample
         ELSE Unknown /\ UNCHANGED overlooked
    /\ UNCHANGED <<disk, server, reason, sleep, runAge, faults, finished>>

\* Mutant: no answer counts as a lost machine.
ConfirmsNothing ==
    /\ wd \in {"confirm", "confirm_again"}
    /\ wd' = "decide" /\ UNCHANGED reason
    /\ UNCHANGED <<disk, server, sleep, observed, runAge, faults, history>>

\* confirm_instance_dead: two answers, and an error is not one.
ConfirmsDead ==
    /\ wd \in {"confirm", "confirm_again"}
    /\ \/ /\ machine \in {"dead", "gone"} /\ faults' = faults
          /\ IF wd = "confirm"
               THEN wd' = "confirm_again" /\ reason' = "none"
               ELSE wd' = "down" /\ reason' = "dead"
       \/ /\ machine \notin {"dead", "gone"} /\ faults' = faults
          /\ wd' = "decide" /\ reason' = "none"
       \/ Fault /\ wd' = "decide" /\ reason' = "none"
    /\ UNCHANGED <<disk, server, sleep, observed, runAge, history>>

\* is_idle: this poll and the one before found nothing running.
IsIdle == failures = 0 /\ inactive = MinObservations

\* The safeguard whose limit is reached; the idle timeout is looked at first.
Elapsed ==
    IF "idle-timeout" \in Safeguards /\ idleAge = IdleTimeout THEN "idle-timeout"
    ELSE IF "max-runtime" \in Safeguards /\ runAge = MaxRuntime THEN "max-runtime"
    ELSE "none"

\* Mutant: the pause between polls is one tick too long.
DecidesLate ==
    /\ wd = "decide"
    /\ IF Elapsed # "none" /\ IsIdle
         THEN wd' = "down" /\ reason' = Elapsed /\ UNCHANGED sleep
         ELSE wd' = "sleep" /\ sleep' = Interval + 1 /\ UNCHANGED reason
    /\ UNCHANGED <<disk, server, observed, runAge, faults, history>>

\* _decide_shutdown
Decides ==
    /\ wd = "decide"
    /\ IF Elapsed # "none" /\ IsIdle
         THEN wd' = "down" /\ reason' = Elapsed /\ UNCHANGED sleep
         ELSE wd' = "sleep" /\ sleep' = Interval /\ UNCHANGED reason
    /\ UNCHANGED <<disk, server, observed, runAge, faults, history>>

\* down_instance unlinks state.json whatever it holds by then.
Downs ==
    /\ wd = "down"
    /\ machine' = "gone" /\ disk' = "none" /\ busy' = FALSE /\ wd' = "exited"
    /\ UNCHANGED <<moved, reason, sleep, observed, runAge, faults, history>>

\* Its error is logged and the loop ends as well.
DownFails ==
    /\ wd = "down" /\ Fault
    /\ disk' = "watched" /\ wd' = "exited"
    /\ UNCHANGED <<server, reason, sleep, observed, runAge, history>>

Wakes ==
    /\ wd = "sleep" /\ sleep = 0 /\ wd' = "load"
    /\ UNCHANGED <<disk, server, reason, sleep, observed, runAge, faults, history>>

Tick ==
    /\ wd = "sleep" /\ sleep > 0
    /\ sleep' = sleep - 1
    /\ idleAge' = Capped(idleAge + 1, IdleTimeout)
    /\ runAge' = IF runAge = Undated THEN Undated ELSE Capped(runAge + 1, MaxRuntime)
    /\ UNCHANGED <<disk, server, wd, reason, known, sample, failures, inactive, faults, history>>

-----------------------------------------------------------------------------
(* The server, the provider and the other commands.                         *)

RequestBegins ==
    /\ machine \in {"up", "mute"} /\ ~busy /\ busy' = TRUE
    /\ UNCHANGED <<disk, machine, moved, loop, observed, runAge, faults, history>>

\* A request that is answered has moved a token counter when its slot is free.
RequestEnds ==
    /\ busy /\ busy' = FALSE /\ moved' = TRUE /\ finished' = TRUE /\ held' = FALSE
    /\ UNCHANGED <<disk, machine, loop, observed, runAge, faults, overlooked>>

\* A client that leaves early may leave no trace in the counters.
RequestDropped ==
    /\ busy /\ busy' = FALSE /\ held' = FALSE
    /\ UNCHANGED <<disk, machine, moved, loop, observed, runAge, faults, finished, overlooked>>

MetricsFail ==
    /\ machine = "up" /\ Fault /\ machine' = "mute"
    /\ UNCHANGED <<disk, busy, moved, loop, observed, runAge, history>>

MetricsReturn ==
    /\ machine = "mute" /\ machine' = "up"
    /\ UNCHANGED <<disk, busy, moved, loop, observed, runAge, faults, history>>

Preempted ==
    /\ machine \in {"up", "mute"} /\ Fault /\ machine' = "dead"
    /\ busy' = FALSE /\ held' = FALSE
    /\ UNCHANGED <<disk, moved, loop, observed, runAge, finished, overlooked>>

\* `hostai up --restart`: the counters start again.
Restarted ==
    /\ machine = "dead" /\ disk = "watched" /\ machine' = "up" /\ moved' = TRUE
    /\ UNCHANGED <<disk, busy, loop, observed, runAge, faults, history>>

Replaced ==
    /\ disk = "watched" /\ machine \in {"up", "mute"} /\ disk' = "another"
    /\ UNCHANGED <<server, loop, observed, runAge, faults, history>>

UserDowns ==
    /\ disk = "watched" /\ disk' = "none" /\ machine' = "gone" /\ busy' = FALSE /\ held' = FALSE
    /\ UNCHANGED <<moved, loop, observed, runAge, faults, finished, overlooked>>

\* cmd_down ends with stop_watchdog: SIGTERM, wherever the loop is.
Stopped ==
    /\ disk = "none" /\ wd # "exited" /\ wd' = "exited"
    /\ UNCHANGED <<disk, server, reason, sleep, observed, runAge, faults, history>>

Loop ==
    \/ Loads \/ ReadsMetrics \/ ReadsSlots \/ ConfirmsDead \/ Decides \/ Downs \/ DownFails \/ Wakes

WatchdogNext ==
    \/ Loop \/ Tick
    \/ RequestBegins \/ RequestEnds \/ RequestDropped
    \/ MetricsFail \/ MetricsReturn \/ Preempted \/ Restarted \/ Replaced \/ UserDowns
    \/ Stopped

WatchdogSpec == WatchdogInit /\ [][WatchdogNext]_watchdogVars

\* The daemon is scheduled, time passes, and no request takes for ever.
FairSpec ==
    WatchdogSpec /\ WF_watchdogVars(Loop) /\ WF_watchdogVars(Tick) /\ WF_watchdogVars(RequestEnds \/ RequestDropped)

-----------------------------------------------------------------------------
(* Properties.                                                              *)

\* README: "Both safeguards always wait for the current request to finish".
\* When a safeguard fires, the request the last look at the slots showed is
\* over, and no request finished unseen since the idle clock was started.  One
\* that begins after that look is not waited for: nothing looks again.
NoRequestIsCut ==
    wd = "down" /\ reason \in Safeguards => ~held /\ ~overlooked

\* The idle safeguard: a machine that answers and has nothing to do does not
\* stay up for ever under a running watchdog.
NeverIdlesForEver ==
    ~<>[](machine = "up" /\ disk = "watched" /\ ~busy /\ wd # "exited")

\* A preempted machine does not keep the watchdog polling for ever: it is
\* confirmed dead and cleaned up (watchdog.py, _run_once).
NeverWatchesTheDead ==
    ~<>[](machine = "dead" /\ wd # "exited")
============================================================================
