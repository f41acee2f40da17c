------------------------- MODULE Background_proofs --------------------------
(***************************************************************************)
(* Proofs about two programs of a deployment that nobody waits for.        *)
(*                                                                         *)
(* The watchdog: types, and that no safeguard cuts a request that was      *)
(* running or had finished unseen, for every set of safeguards, every limit,*)
(* and any number of faults.                                               *)
(*                                                                         *)
(* The prefetch scripts of a machine, for any number of them and either    *)
(* transport: types, that the flock keeps the writers apart whichever way  *)
(* each of them ends, and that an "ok" of the rclone script means that its *)
(* snapshot is there.                                                      *)
(***************************************************************************)
EXTENDS Watchdog, SlotPrefetch, TLAPS

\* What the requests, the machine and the other commands do.
Environment ==
    \/ RequestBegins \/ RequestEnds \/ RequestDropped
    \/ MetricsFail \/ MetricsReturn \/ Preempted \/ Restarted \/ Replaced \/ UserDowns

-----------------------------------------------------------------------------
(* The watchdog's types.                                                    *)

LEMMA CappedTypes ==
    ASSUME NEW limit \in Nat, NEW n \in 0..limit
    PROVE  /\ Capped(n + 1, limit) \in 0..limit
           /\ limit > 0 => Capped(n + 1, limit) # 0
  BY DEF Capped

\* The part of TypeOK that is about truth values.
Flags ==
    /\ busy \in BOOLEAN /\ moved \in BOOLEAN /\ known \in BOOLEAN
    /\ finished \in BOOLEAN /\ overlooked \in BOOLEAN /\ held \in BOOLEAN

LEMMA WatchdogStepTypes == WatchdogTypeOK /\ [WatchdogNext]_watchdogVars => WatchdogTypeOK'
<1> SUFFICES ASSUME WatchdogTypeOK, [WatchdogNext]_watchdogVars PROVE WatchdogTypeOK'
  OBVIOUS
<1> USE LimitsAssumption, SafeguardsAssumption DEF WatchdogTypeOK, server, loop,
      observed, history
<1>0. /\ {IdleTimeout, MaxRuntime, Interval, MinObservations, DeadAfter} \subseteq Nat
      /\ Capped(failures + 1, DeadAfter) \in 0..DeadAfter
      /\ Capped(inactive + 1, MinObservations) \in 0..MinObservations
      /\ Capped(idleAge + 1, IdleTimeout) \in 0..IdleTimeout
      /\ runAge # Undated => Capped(runAge + 1, MaxRuntime) \in 0..MaxRuntime
  BY CappedTypes DEF Undated
<1>1. CASE Loads
  BY <1>1 DEF Loads
<1>2. CASE ReadsMetrics
  <2>1. Flags'
    BY <1>2, Zenon DEF ReadsMetrics, Unknown, Flags
  <2> QED BY <1>0, <1>2, <2>1 DEF ReadsMetrics, Unknown, Flags
<1>3. CASE ReadsSlots
  <2>1. Flags'
    BY <1>3, Zenon DEF ReadsSlots, Active, Inactive, Unknown, Flags
  <2> QED BY <1>0, <1>3, <2>1 DEF ReadsSlots, Active, Inactive, Unknown, Flags
<1>4. CASE ConfirmsDead
  BY <1>4 DEF ConfirmsDead, Fault
<1>5. CASE Decides
  BY <1>5 DEF Decides, Elapsed
<1>6. CASE Downs
  BY <1>6 DEF Downs
<1>7. CASE DownFails
  BY <1>7 DEF DownFails, Fault
<1>8. CASE Wakes
  BY <1>8 DEF Wakes
<1>9. CASE Tick
  BY <1>0, <1>9 DEF Tick
<1>10. CASE Environment
  <2> USE DEF Environment, RequestBegins, RequestEnds, RequestDropped, MetricsFail, MetricsReturn,
     Preempted, Restarted, Replaced, UserDowns
  <2>1. Flags'
    BY <1>10, Zenon DEF Flags
  <2> QED BY <1>10, <2>1 DEF Fault, Flags
<1>11. CASE Stopped
  BY <1>11 DEF Stopped
<1>12. CASE UNCHANGED watchdogVars
  BY <1>12 DEF watchdogVars
<1> QED BY <1>1, <1>2, <1>3, <1>4, <1>5, <1>6, <1>7, <1>8, <1>9, <1>10, <1>11, <1>12
      DEF WatchdogNext, Loop, Environment

LEMMA WatchdogInitTypes == WatchdogInit => WatchdogTypeOK
<1>1. WatchdogInit => Flags
  BY Zenon DEF WatchdogInit, Flags
<1>2. /\ 0 \in 0..DeadAfter /\ 0 \in 0..MinObservations /\ 0 \in 0..IdleTimeout
      /\ 0 \in 0..Interval /\ 0 \in 0..MaxFaults
  BY LimitsAssumption
<1> QED BY <1>1, <1>2 DEF WatchdogInit, WatchdogTypeOK, Flags

\* Every reachable state is well typed: the counters and clocks of the loop
\* stay within the limits they are compared with (_run_once).
THEOREM WatchdogTypes == WatchdogSpec => []WatchdogTypeOK
<1>1. WatchdogInit => WatchdogTypeOK
  BY WatchdogInitTypes
<1>2. WatchdogTypeOK /\ [WatchdogNext]_watchdogVars => WatchdogTypeOK'
  BY WatchdogStepTypes
<1> QED BY <1>1, <1>2, PTL DEF WatchdogSpec

-----------------------------------------------------------------------------
(* No request is cut.                                                       *)

\* A request that finished since the counters were read has moved one.
FinishedMoved == finished => moved

\* One that finished unseen is going to be seen: the baseline is lost, so that
\* the next counters are first ones, or this poll has them and the slots left.
WillBeSeen ==
    wd # "exited" /\ overlooked =>
        ~known \/ (wd = "slots" /\ sample \in {"first", "changed"})

\* Counters that did not change were compared with a baseline.
HasBaseline == wd = "slots" => known \/ sample = "first"

\* The provider is asked only after polls that failed.
AsksAfterFailures == wd \in {"confirm", "confirm_again"} => failures # 0

\* A poll that calls the machine idle has found nothing running.
IdleIsIdle == wd = "decide" /\ IsIdle => ~held /\ ~overlooked

WatchdogInv ==
    /\ WatchdogTypeOK
    /\ FinishedMoved /\ WillBeSeen /\ HasBaseline /\ AsksAfterFailures /\ IdleIsIdle
    /\ NoRequestIsCut

LEMMA WatchdogStepInv == WatchdogInv /\ [WatchdogNext]_watchdogVars => WatchdogInv'
<1> SUFFICES ASSUME WatchdogInv, [WatchdogNext]_watchdogVars
    PROVE  /\ FinishedMoved' /\ WillBeSeen' /\ HasBaseline' /\ AsksAfterFailures' /\ IdleIsIdle'
           /\ NoRequestIsCut'
  BY WatchdogStepTypes DEF WatchdogInv
<1> USE LimitsAssumption, SafeguardsAssumption DEF WatchdogInv, WatchdogTypeOK,
      server, loop, observed, history,
      FinishedMoved, WillBeSeen, HasBaseline, AsksAfterFailures, IdleIsIdle, NoRequestIsCut, IsIdle
<1>0. /\ Capped(failures + 1, DeadAfter) # 0 /\ DeadAfter # 0 /\ MinObservations # 0
  BY CappedTypes
<1>1. CASE Loads
  BY <1>1 DEF Loads
<1>2. CASE ReadsMetrics
  BY <1>0, <1>2 DEF ReadsMetrics, Unknown
<1>3. CASE ReadsSlots
  <2>1. CASE machine # "up"
    BY <1>0, <1>3, <2>1 DEF ReadsSlots, Unknown
  <2>2. CASE machine = "up" /\ (sample \in {"first", "changed"} \/ busy)
    BY <1>0, <1>3, <2>2 DEF ReadsSlots, Active
  <2>3. CASE machine = "up" /\ sample \notin {"first", "changed"} /\ ~busy
    BY <1>0, <1>3, <2>3 DEF ReadsSlots, Inactive
  <2> QED BY <2>1, <2>2, <2>3
<1>4. CASE ConfirmsDead
  BY <1>4 DEF ConfirmsDead
<1>5. CASE Decides
  BY <1>5 DEF Decides
<1>6. CASE Downs
  BY <1>6 DEF Downs
<1>7. CASE DownFails
  BY <1>7 DEF DownFails
<1>8. CASE Wakes
  BY <1>8 DEF Wakes
<1>9. CASE Tick
  BY <1>9 DEF Tick
<1>10. CASE Environment
  BY <1>10 DEF Environment, RequestBegins, RequestEnds, RequestDropped, MetricsFail, MetricsReturn,
     Preempted, Restarted, Replaced, UserDowns
<1>11. CASE Stopped
  BY <1>11 DEF Stopped
<1>12. CASE UNCHANGED watchdogVars
  BY <1>12 DEF watchdogVars
<1> QED BY <1>1, <1>2, <1>3, <1>4, <1>5, <1>6, <1>7, <1>8, <1>9, <1>10, <1>11, <1>12
      DEF WatchdogNext, Loop, Environment

\* Whatever limits and poll intervals are configured, a safeguard fires only
\* when the request the slots showed is over and none finished unseen
\* (_decide_shutdown).
THEOREM RequestsFinish == WatchdogSpec => []NoRequestIsCut
<1>1. WatchdogInit => WatchdogInv
  BY WatchdogInitTypes DEF WatchdogInit, WatchdogInv, FinishedMoved, WillBeSeen, HasBaseline,
     AsksAfterFailures, IdleIsIdle, NoRequestIsCut
<1>2. WatchdogInv => NoRequestIsCut
  BY DEF WatchdogInv
<1>3. WatchdogInv /\ [WatchdogNext]_watchdogVars => WatchdogInv'
  BY WatchdogStepInv
<1> QED BY <1>1, <1>2, <1>3, PTL DEF WatchdogSpec

-----------------------------------------------------------------------------
(* The prefetch's types.                                                    *)

\* A script that exits stays well typed.
LEMMA ExitTypes ==
    ASSUME TypeOK, NEW s \in Scripts, NEW why \in Causes, ExitOne(s, why)
    PROVE  /\ pc' \in [Scripts -> Steps] /\ cause' \in [Scripts -> Causes]
           /\ lock' \in Scripts \cup {None}
  BY DEF ExitOne, TypeOK, Steps

LEMMA PrefetchStepTypes == TypeOK /\ [Next]_vars => TypeOK'
<1> SUFFICES ASSUME TypeOK, [Next]_vars PROVE TypeOK'
  OBVIOUS
<1> USE DEF TypeOK, files, Steps, Causes
<1>1. ASSUME NEW s \in Scripts, Script(s), UNCHANGED transport PROVE TypeOK'
  <2>1. CASE Begins(s)
    BY <1>1, <2>1 DEF Begins, Goto
  <2>2. CASE TakesLock(s)
    BY <1>1, <2>2 DEF TakesLock, Goto
  <2>3. CASE Refused(s)
    BY <1>1, <2>3, ExitTypes DEF Refused
  <2>4. CASE SizeKnown(s)
    BY <1>1, <2>4 DEF SizeKnown, Goto
  <2>5. CASE NothingThere(s)
    BY <1>1, <2>5, ExitTypes DEF NothingThere
  <2>6. CASE Downloads(s)
    BY <1>1, <2>6 DEF Downloads
  <2>7. CASE TooSlow(s)
    BY <1>1, <2>7, ExitTypes DEF TooSlow
  <2>8. CASE Breaks(s)
    BY <1>1, <2>8, ExitTypes DEF Breaks
  <2>9. CASE Completes(s)
    BY <1>1, <2>9 DEF Completes, Goto
  <2>10. CASE Verifies(s)
    BY <1>1, <2>10 DEF Verifies
  <2>11. CASE Mismatch(s)
    BY <1>1, <2>11, ExitTypes DEF Mismatch
  <2>12. CASE Moves(s)
    BY <1>1, <2>12, ExitTypes DEF Moves
  <2>13. CASE ReportsOk(s)
    BY <1>1, <2>13 DEF ReportsOk, Goto
  <2>14. CASE Cleans(s)
    BY <1>1, <2>14 DEF Cleans, Goto
  <2> QED BY <1>1, <2>1, <2>2, <2>3, <2>4, <2>5, <2>6, <2>7, <2>8, <2>9, <2>10,
        <2>11, <2>12, <2>13, <2>14 DEF Script
<1>2. CASE UNCHANGED vars
  BY <1>2 DEF vars
<1> QED BY <1>1, <1>2 DEF Next

\* Every reachable state is well typed (rclone_prefetch_script,
\* rsync_prefetch_script).
THEOREM PrefetchTypes == Spec => []TypeOK
<1>1. Init => TypeOK
  BY DEF Init, TypeOK, Steps, Causes
<1>2. TypeOK /\ [Next]_vars => TypeOK'
  BY PrefetchStepTypes
<1> QED BY <1>1, <1>2, PTL DEF Spec

-----------------------------------------------------------------------------
(* The flock.                                                               *)

\* The steps a script takes with the flock.  The rclone script locks first,
\* and its trap is set after that; the rsync script is trapped from the start,
\* and cleans up with or without the flock.
Locking == Fetching \cup (IF transport = "rclone" THEN {"size", "cleanup"} ELSE {})

HoldsTheLock == \A s \in Scripts : pc[s] \in Locking => lock = s

\* The rclone script has no trap before it has the flock.
NotTrappedYet ==
    transport = "rclone" => \A s \in Scripts : pc[s] \in {"new", "lock"} => ~trapped[s]

\* The rclone script renames nothing, and where it compares sizes or is about
\* to report, its own download is there.
HasItsOwn ==
    transport = "rclone" =>
      \A s \in Scripts : pc[s] # "move" /\ (pc[s] \in {"verify", "json"} => bin = s /\ whole)

PrefetchInv == TypeOK /\ HoldsTheLock /\ NotTrappedYet /\ HasItsOwn

LEMMA PrefetchInitInv == Init => PrefetchInv
  BY DEF Init, PrefetchInv, TypeOK, Steps, Causes, HoldsTheLock, NotTrappedYet, HasItsOwn, Locking, Fetching

LEMMA PrefetchStepInv == PrefetchInv /\ [Next]_vars => PrefetchInv'
<1> SUFFICES ASSUME PrefetchInv, [Next]_vars PROVE HoldsTheLock' /\ NotTrappedYet' /\ HasItsOwn'
  BY PrefetchStepTypes DEF PrefetchInv
<1> USE NoneAssumption, TransportsAssumption DEF PrefetchInv, TypeOK, HoldsTheLock, NotTrappedYet, HasItsOwn,
      Locking, Fetching, files
<1>1. ASSUME NEW s \in Scripts, Script(s), UNCHANGED transport
      PROVE  HoldsTheLock' /\ NotTrappedYet' /\ HasItsOwn'
  <2>1. CASE Begins(s)
    BY <1>1, <2>1 DEF Begins, Goto
  <2>2. CASE TakesLock(s)
    BY <1>1, <2>2 DEF TakesLock, Goto
  <2>3. CASE Refused(s)
    BY <1>1, <2>3 DEF Refused, ExitOne
  <2>4. CASE SizeKnown(s)
    BY <1>1, <2>4 DEF SizeKnown, Goto
  <2>5. CASE NothingThere(s)
    BY <1>1, <2>5 DEF NothingThere, ExitOne
  <2>6. CASE Downloads(s)
    BY <1>1, <2>6 DEF Downloads
  <2>7. CASE TooSlow(s)
    BY <1>1, <2>7 DEF TooSlow, ExitOne
  <2>8. CASE Breaks(s)
    BY <1>1, <2>8 DEF Breaks, ExitOne
  <2>9. CASE Completes(s)
    BY <1>1, <2>9 DEF Completes, Goto
  <2>10. CASE Verifies(s)
    BY <1>1, <2>10 DEF Verifies
  <2>11. CASE Mismatch(s)
    BY <1>1, <2>11 DEF Mismatch, ExitOne
  <2>12. CASE Moves(s)
    BY <1>1, <2>12 DEF Moves, ExitOne
  <2>13. CASE ReportsOk(s)
    BY <1>1, <2>13 DEF ReportsOk, Goto
  <2>14. CASE Cleans(s)
    BY <1>1, <2>14 DEF Cleans, Goto
  <2> QED BY <1>1, <2>1, <2>2, <2>3, <2>4, <2>5, <2>6, <2>7, <2>8, <2>9, <2>10,
        <2>11, <2>12, <2>13, <2>14 DEF Script
<1>2. CASE UNCHANGED vars
  BY <1>2 DEF vars
<1> QED BY <1>1, <1>2 DEF Next

\* What only the holder of one lock does, one script does at most.
LEMMA HoldersAreFew == HoldsTheLock => OneWriter
  BY DEF HoldsTheLock, Locking, OneWriter

\* At most one script of a machine writes its slot directory, however many
\* prefetches aborted ups have left there (_PREFETCH_LOCK_SNIPPET).
THEOREM MutualExclusion == Spec => []OneWriter
<1>1. PrefetchInv => OneWriter
  BY HoldersAreFew DEF PrefetchInv
<1>2. Init => PrefetchInv
  BY PrefetchInitInv
<1>3. PrefetchInv /\ [Next]_vars => PrefetchInv'
  BY PrefetchStepInv
<1> QED BY <1>1, <1>2, <1>3, PTL DEF Spec

\* When an rclone script prints "ok", current.bin is its own complete download
\* (rclone_prefetch_script).
THEOREM OkMeansItsOwn == Spec => OkIsThere
<1>1. PrefetchInv /\ [Next]_vars =>
        [\A s \in Scripts : ReportsOk(s) /\ transport = "rclone" => bin = s /\ whole]_vars
  BY DEF PrefetchInv, HasItsOwn, ReportsOk, Goto
<1>2. Init => PrefetchInv
  BY PrefetchInitInv
<1>3. PrefetchInv /\ [Next]_vars => PrefetchInv'
  BY PrefetchStepInv
<1> QED BY <1>1, <1>2, <1>3, PTL DEF Spec, OkIsThere
=============================================================================
