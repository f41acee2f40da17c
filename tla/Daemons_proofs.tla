--------------------------- MODULE Daemons_proofs ---------------------------
(***************************************************************************)
(* Proofs about the daemons of a deployment, each about one module.        *)
(* ProxyUpstream, for every set of machines, every number of tunnel threads*)
(* and every number of faults: what a ready proxy serves, and that it      *)
(* implements ProxyPromise.  Instances, for any number of instances, ports,*)
(* processes, commands and reboots: what answers on the port that a command*)
(* is about to report is its own endpoint, and two runs of `up` hold       *)
(* different ports, unless a `down` has met a command of its own instance; *)
(* and a `down` ends no process that its pid file did not lead it to.      *)
(***************************************************************************)
EXTENDS ProxyUpstream, Instances, WellFoundedInduction, TLAPS


(***************************************************************************)
(* The inductive invariant.  Only a thread of the running                  *)
(* ensure_unix_tunnel is in its SSH login without having been told to stop,*)
(* so a thread that takes the path over late has been told; the thread at  *)
(* the path is serving, there is a registry entry, its own unless it has   *)
(* been told, for a call completes the entry whosever it is; one that has  *)
(* not been told is the call's own; and the only moment an                 *)
(* unstopped forward leads to another machine than `bound` is between      *)
(* retarget() and stop_unix_tunnel, when the gate is closed.               *)
(***************************************************************************)
PathServes ==
    path # None => /\ phase[path] = "serving" /\ registry # None
                   /\ ~told[path] => registry = path

OneLogin ==
    \A w \in Workers :
        phase[w] = "connecting" /\ ~told[w]
            => pc = "connecting" /\ mine = w /\ host[w] = bound

CallHasThread ==
    pc \in {"connecting", "verify"} =>
        /\ mine \in Workers
        /\ path # None /\ ~told[path] => path = mine

ForwardLeadsToBound ==
    path # None /\ ~told[path] /\ pc # "stop_old" => host[path] = bound

ClosedWhileStopping == pc = "stop_old" => ~ready

ProxyInv ==
    /\ ProxyTypeOK
    /\ PathServes
    /\ OneLogin
    /\ CallHasThread
    /\ ForwardLeadsToBound
    /\ ClosedWhileStopping

\* The initial states satisfy the invariant: no thread exists.
LEMMA ProxyInitInv == ProxyInit => ProxyInv
<1> SUFFICES ASSUME ProxyInit PROVE ProxyInv
  OBVIOUS
<1>1. ProxyTypeOK
  <2>1. server \in [Machines -> {"up", "down", "gone"}]
    BY DEF ProxyInit
  <2>2. ready \in BOOLEAN /\ healthy \in BOOLEAN
    BY Zenon DEF ProxyInit
  <2>3. /\ phase \in [Workers -> Phases]
        /\ host \in [Workers -> Machines]
        /\ told \in [Workers -> BOOLEAN]
    BY FirstAssumption DEF ProxyInit, Phases
  <2>4. fresh \subseteq Machines /\ tracked \in Machines \cup {None} /\ bound \in Machines
    BY FirstAssumption DEF ProxyInit
  <2>5. faults \in Nat /\ failures \in 0..2
    BY DEF ProxyInit
  <2>6. /\ pc \in Ensuring \cup Booting \cup Looping \cup {"failed", "exited"}
        /\ resume \in {"start", "boot_poll", "probe", "dead_check"}
    BY DEF ProxyInit, Ensuring
  <2>7. mine \in Workers \cup {None} /\ path \in Workers \cup {None} /\ registry \in Workers \cup {None}
    BY DEF ProxyInit
  <2>. QED
    BY <2>1, <2>2, <2>3, <2>4, <2>5, <2>6, <2>7 DEF ProxyTypeOK
<1>2. PathServes /\ OneLogin /\ CallHasThread /\ ForwardLeadsToBound /\ ClosedWhileStopping
  BY DEF ProxyInit, PathServes, OneLogin, CallHasThread, ForwardLeadsToBound,
       ClosedWhileStopping
<1>. QED
  BY <1>1, <1>2 DEF ProxyInv

\* Every step preserves the invariant.
LEMMA ProxyStepInv == ProxyInv /\ [ProxyNext]_proxyVars => ProxyInv'
<1> SUFFICES ASSUME ProxyInv, [ProxyNext]_proxyVars PROVE ProxyInv'
  OBVIOUS
<1>. USE NoneAssumption, FirstAssumption DEF ProxyInv, PathServes, OneLogin,
     CallHasThread, ForwardLeadsToBound, ClosedWhileStopping, ProxyTypeOK, Phases,
     Ensuring, Booting, Looping, proxyVars, envVars, loopVars, servingVars,
     threadVars, tunnelVars
<1>1. CASE EnsureReuse
  BY <1>1 DEF EnsureReuse, SaveState, Return, SocketOpen
<1>2. CASE EnsureStopStale
  <2>. USE <1>2 DEF EnsureStopStale, SocketOpen, StopAndJoin, Fault, NoFault
  <2>1. registry \in Workers /\ path = None
    OBVIOUS
  <2>2. CASE Released(registry) /\ NoFault
    BY <2>1, <2>2 DEF Released
  <2>3. CASE told' = [told EXCEPT ![registry] = TRUE] /\ UNCHANGED <<phase, host>> /\ Fault
    BY <2>1, <2>3
  <2>. QED
    BY <2>2, <2>3
<1>3. CASE \E w \in Workers : EnsureStart(w)
  BY <1>3 DEF EnsureStart
<1>4. CASE EnsureConnected
  BY <1>4 DEF EnsureConnected, SocketOpen
<1>5. CASE EnsureBroken
  <2>. USE <1>5 DEF EnsureBroken, SocketOpen, StopMine, Raise, Fault, NoFault
  <2>1. mine \in Workers
    OBVIOUS
  <2>2. CASE phase[mine] = "free"
    BY <2>1, <2>2
  <2>3. CASE phase[mine] # "free" /\ Finally(mine) /\ NoFault
    BY <2>1, <2>3 DEF Finally, Released
  <2>4. CASE /\ phase[mine] # "free" /\ told' = [told EXCEPT ![mine] = TRUE]
             /\ Fault /\ UNCHANGED <<phase, host, path, registry>>
    BY <2>1, <2>4
  <2>. QED
    BY <2>2, <2>3, <2>4
<1>6. CASE EnsureVerified
  BY <1>6 DEF EnsureVerified, SaveState, Return
<1>7. CASE EnsureUnverified
  <2>. USE <1>7 DEF EnsureUnverified, SocketOpen, StopMine, Raise, Fault,
       NoFault
  <2>1. mine \in Workers
    OBVIOUS
  <2>2. CASE phase[mine] = "free"
    BY <2>1, <2>2
  <2>3. CASE phase[mine] # "free" /\ Finally(mine) /\ NoFault
    BY <2>1, <2>3 DEF Finally, Released
  <2>4. CASE /\ phase[mine] # "free" /\ told' = [told EXCEPT ![mine] = TRUE]
             /\ Fault /\ UNCHANGED <<phase, host, path, registry>>
    BY <2>1, <2>4
  <2>. QED
    BY <2>2, <2>3, <2>4
<1>8. CASE EnsureEntryLost
  BY <1>8 DEF EnsureEntryLost, Raise
<1>9. CASE EnsureTimedOut
  <2>. USE <1>9 DEF EnsureTimedOut, Raise, Fault, NoFault
  <2>1. mine \in Workers
    OBVIOUS
  <2>2. CASE Finally(mine)
    BY <2>1, <2>2 DEF Finally, Released
  <2>3. CASE told' = [told EXCEPT ![mine] = TRUE] /\ UNCHANGED <<phase, host, path, registry>>
    BY <2>1, <2>3
  <2>. QED
    BY <2>2, <2>3
<1>10. CASE BootHealthy
  BY <1>10 DEF BootHealthy, Answers200
<1>11. CASE BootRebuild
  BY <1>11 DEF BootRebuild, Call, FileExists, Answers200
<1>12. CASE BootReady
  BY <1>12 DEF BootReady
<1>13. CASE BootFails
  BY <1>13 DEF BootFails, Exit
<1>14. CASE BootGivesUp
  BY <1>14 DEF BootGivesUp, Exit
<1>15. CASE KeepTarget
  BY <1>15 DEF KeepTarget
<1>16. CASE Retarget
  BY <1>16 DEF Retarget
<1>17. CASE StopOldTunnel
  <2>. USE <1>17 DEF StopOldTunnel, Call, StopAndJoin, Fault, NoFault
  <2>1. CASE registry = None
    BY <2>1
  <2>2. CASE registry # None /\ Released(registry) /\ NoFault
    BY <2>2 DEF Released
  <2>3. CASE /\ registry # None
             /\ told' = [told EXCEPT ![registry] = TRUE] /\ UNCHANGED <<phase, host>> /\ Fault
    BY <2>3
  <2>. QED
    BY <2>1, <2>2, <2>3
<1>18. CASE ProbeHealthy
  BY <1>18 DEF ProbeHealthy, Answers200
<1>19. CASE MarkReady
  BY <1>19 DEF MarkReady
<1>20. CASE ProbeFailed
  <2>1. ready' \in BOOLEAN /\ healthy' \in BOOLEAN
    BY <1>20, Zenon DEF ProbeFailed
  <2>2. failures' \in 0..2
    BY <1>20 DEF ProbeFailed
  <2>. QED
    BY <1>20, <2>1, <2>2 DEF ProbeFailed
<1>21. CASE SocketAlive
  BY <1>21 DEF SocketAlive, SocketOpen
<1>22. CASE SocketGone
  BY <1>22 DEF SocketGone, Call, SocketOpen
<1>23. CASE NextIteration
  BY <1>23 DEF NextIteration
<1>24. CASE SupervisorGivesUp
  BY <1>24 DEF SupervisorGivesUp, Exit
<1>25. CASE \E w \in Workers : WorkerConnected(w)
  BY <1>25 DEF WorkerConnected
<1>26. CASE \E w \in Workers : WorkerFailed(w)
  BY <1>26 DEF WorkerFailed, Finally, Released, Fault, NoFault
<1>27. CASE \E w \in Workers : WorkerClosing(w)
  BY <1>27 DEF WorkerClosing, Fault, NoFault
<1>28. CASE \E w \in Workers : WorkerFinished(w)
  BY <1>28 DEF WorkerFinished, Finally, Released
<1>29. CASE \E m \in Machines : Flip(m)
  BY <1>29 DEF Flip
<1>30. CASE Unlinked
  BY <1>30 DEF Unlinked
<1>31. CASE \E m \in Machines, s \in {"up", "down", "gone"} : ServerChanges(m, s)
  BY <1>31 DEF ServerChanges, Fault, NoFault
<1>32. CASE UNCHANGED proxyVars
  BY <1>32 DEF proxyVars
<1>. QED
  BY <1>1, <1>2, <1>3, <1>4, <1>5, <1>6, <1>7, <1>8, <1>9, <1>10, <1>11,
       <1>12, <1>13, <1>14, <1>15, <1>16, <1>17, <1>18, <1>19, <1>20, <1>21,
       <1>22, <1>23, <1>24, <1>25, <1>26, <1>27, <1>28, <1>29, <1>30, <1>31,
       <1>32 DEF ProxyNext, Ensure, Bootstrap, Supervisor, Worker

-----------------------------------------------------------------------------
\* The invariant holds in every reachable state.
THEOREM ProxyInvariance == ProxySpec => []ProxyInv
<1>1. ProxyInv /\ [ProxyNext]_proxyVars => ProxyInv'
  BY ProxyStepInv
<1>. QED
  BY ProxyInitInv, <1>1, PTL DEF ProxySpec

\* Type correctness of the daemon's and the threads' variables.
THEOREM UpstreamTypes == ProxySpec => []ProxyTypeOK
<1>1. ProxyInv => ProxyTypeOK
  BY DEF ProxyInv
<1>. QED
  BY ProxyInvariance, <1>1, PTL

(***************************************************************************)
(* While the proxy is ready, an unstopped forward leads to the machine it  *)
(* reports (proxy.py: retarget, _retarget_tunnel, _upstream_supervisor).   *)
(***************************************************************************)
THEOREM ServingCorrectness == ProxySpec => []ServesWhatItReports
<1>1. ProxyInv => ServesWhatItReports
  BY DEF ProxyInv, ForwardLeadsToBound, ClosedWhileStopping, ServesWhatItReports
<1>. QED
  BY ProxyInvariance, <1>1, PTL

-----------------------------------------------------------------------------
(* The refinement.                                                          *)

\* The initial states keep the promise.
LEMMA PromiseInit == ProxyInit => Promise!Init
  BY DEF ProxyInit, Promise!Init, Leads

\* Every step of the daemon, of a thread or of the environment is a step of
\* the promise or changes nothing it speaks of.
LEMMA PromiseStep == ProxyInv /\ ProxyInv' /\ [ProxyNext]_proxyVars => [Promise!Next]_(Promise!promiseVars)
<1> SUFFICES ASSUME ProxyInv, ProxyInv', [ProxyNext]_proxyVars
             PROVE  Promise!Next \/ UNCHANGED <<tracked, bound, ready, Leads>>
  BY DEF Promise!promiseVars
<1>. USE NoneAssumption DEF ProxyInv, ProxyTypeOK, PathServes, OneLogin, CallHasThread,
     ForwardLeadsToBound, ClosedWhileStopping, envVars, loopVars, servingVars,
     threadVars, tunnelVars, Leads
<1>1. CASE EnsureReuse
  <2>1. Promise!SavedBack
    BY <1>1 DEF EnsureReuse, SaveState, Promise!SavedBack
  <2>. QED
    BY <2>1 DEF Promise!Next
<1>2. CASE EnsureStopStale
  BY <1>2 DEF EnsureStopStale, StopAndJoin, Released, SocketOpen
<1>3. CASE \E w \in Workers : EnsureStart(w)
  <2>1. Promise!Unforwarded
    BY <1>3 DEF EnsureStart, Promise!Unforwarded
  <2>. QED
    BY <2>1 DEF Promise!Next
<1>4. CASE EnsureConnected
  BY <1>4 DEF EnsureConnected
<1>5. CASE EnsureBroken
  <2>1. Promise!Unforwarded \/ UNCHANGED <<tracked, bound, ready, Leads>>
    BY <1>5 DEF EnsureBroken, StopMine, Finally, Released, Promise!Unforwarded
  <2>. QED
    BY <2>1 DEF Promise!Next
<1>6. CASE EnsureVerified
  <2>1. Promise!SavedBack
    BY <1>6 DEF EnsureVerified, SaveState, Promise!SavedBack
  <2>. QED
    BY <2>1 DEF Promise!Next
<1>7. CASE EnsureUnverified
  <2>1. Promise!Unforwarded \/ UNCHANGED <<tracked, bound, ready, Leads>>
    BY <1>7 DEF EnsureUnverified, StopMine, Finally, Released,
         Promise!Unforwarded
  <2>. QED
    BY <2>1 DEF Promise!Next
<1>8. CASE EnsureEntryLost
  BY <1>8 DEF EnsureEntryLost
<1>9. CASE EnsureTimedOut
  <2>1. Promise!Unforwarded \/ UNCHANGED <<tracked, bound, ready, Leads>>
    BY <1>9 DEF EnsureTimedOut, Finally, Released, Promise!Unforwarded
  <2>. QED
    BY <2>1 DEF Promise!Next
<1>10. CASE BootHealthy
  BY <1>10 DEF BootHealthy
<1>11. CASE BootRebuild
  BY <1>11 DEF BootRebuild
<1>12. CASE BootReady
  <2>1. Promise!Opened
    BY <1>12 DEF BootReady, Promise!Opened
  <2>. QED
    BY <2>1 DEF Promise!Next
<1>13. CASE BootFails
  <2>1. Promise!Closed
    BY <1>13 DEF BootFails, Exit, Promise!Closed
  <2>. QED
    BY <2>1 DEF Promise!Next
<1>14. CASE BootGivesUp
  <2>1. Promise!Closed
    BY <1>14 DEF BootGivesUp, Exit, Promise!Closed
  <2>. QED
    BY <2>1 DEF Promise!Next
<1>15. CASE KeepTarget
  BY <1>15 DEF KeepTarget
<1>16. CASE Retarget
  <2>1. Promise!Rebound
    BY <1>16 DEF Retarget, Promise!Rebound
  <2>. QED
    BY <2>1 DEF Promise!Next
<1>17. CASE StopOldTunnel
  <2>1. Promise!Unforwarded
    BY <1>17 DEF StopOldTunnel, Promise!Unforwarded
  <2>. QED
    BY <2>1 DEF Promise!Next
<1>18. CASE ProbeHealthy
  BY <1>18 DEF ProbeHealthy
<1>19. CASE MarkReady
  <2>1. Promise!Opened
    BY <1>19 DEF MarkReady, Promise!Opened
  <2>. QED
    BY <2>1 DEF Promise!Next
<1>20. CASE ProbeFailed
  <2>1. Promise!Closed \/ UNCHANGED <<tracked, bound, ready, Leads>>
    BY <1>20 DEF ProbeFailed, Promise!Closed
  <2>. QED
    BY <2>1 DEF Promise!Next
<1>21. CASE SocketAlive
  BY <1>21 DEF SocketAlive
<1>22. CASE SocketGone
  BY <1>22 DEF SocketGone
<1>23. CASE NextIteration
  BY <1>23 DEF NextIteration
<1>24. CASE SupervisorGivesUp
  <2>1. Promise!Closed
    BY <1>24 DEF SupervisorGivesUp, Exit, Promise!Closed
  <2>. QED
    BY <2>1 DEF Promise!Next
<1>25. CASE \E w \in Workers : WorkerConnected(w)
  <2>1. Promise!Forwarded \/ Promise!Unforwarded
    BY <1>25 DEF WorkerConnected, Promise!Forwarded, Promise!Unforwarded
  <2>. QED
    BY <2>1 DEF Promise!Next
<1>26. CASE \E w \in Workers : WorkerFailed(w)
  <2>1. Promise!Unforwarded
    BY <1>26 DEF WorkerFailed, Finally, Released, Promise!Unforwarded
  <2>. QED
    BY <2>1 DEF Promise!Next
<1>27. CASE \E w \in Workers : WorkerClosing(w)
  <2>1. Promise!Unforwarded \/ UNCHANGED <<tracked, bound, ready, Leads>>
    BY <1>27 DEF WorkerClosing, Promise!Unforwarded
  <2>. QED
    BY <2>1 DEF Promise!Next
<1>28. CASE \E w \in Workers : WorkerFinished(w)
  <2>1. Promise!Unforwarded
    BY <1>28 DEF WorkerFinished, Finally, Released, Promise!Unforwarded
  <2>. QED
    BY <2>1 DEF Promise!Next
<1>29. CASE \E m \in Machines : Flip(m)
  <2>1. \E m \in Machines \cup {None} : Promise!Flipped(m)
    BY <1>29 DEF Flip, Promise!Flipped
  <2>. QED
    BY <2>1 DEF Promise!Next
<1>30. CASE Unlinked
  <2>1. \E m \in Machines \cup {None} : Promise!Flipped(m)
    BY <1>30 DEF Unlinked, Promise!Flipped
  <2>. QED
    BY <2>1 DEF Promise!Next
<1>31. CASE \E m \in Machines, s \in {"up", "down", "gone"} : ServerChanges(m, s)
  BY <1>31 DEF ServerChanges
<1>32. CASE UNCHANGED proxyVars
  BY <1>32 DEF proxyVars
<1>. QED
  BY <1>1, <1>2, <1>3, <1>4, <1>5, <1>6, <1>7, <1>8, <1>9, <1>10, <1>11,
       <1>12, <1>13, <1>14, <1>15, <1>16, <1>17, <1>18, <1>19, <1>20, <1>21,
       <1>22, <1>23, <1>24, <1>25, <1>26, <1>27, <1>28, <1>29, <1>30, <1>31,
       <1>32 DEF ProxyNext, Ensure, Bootstrap, Supervisor, Worker

(***************************************************************************)
(* The daemon, with its threads, sockets and probes, implements            *)
(* ProxyPromise: its target changes only behind a closed gate, and the gate*)
(* opens only when no unstopped forward leads to another machine.          *)
(***************************************************************************)
THEOREM Refinement == ProxySpec => KeepsItsPromise
<1>1. ProxyInv /\ ProxyInv' /\ [ProxyNext]_proxyVars => [Promise!Next]_(Promise!promiseVars)
  BY PromiseStep
<1>. QED
  BY PromiseInit, ProxyInvariance, <1>1, PTL DEF ProxySpec, KeepsItsPromise, Promise!Spec


-----------------------------------------------------------------------------
(* Type correctness.  What is recorded is well typed only because a command *)
(* past its choice has a port, a copy that `down` saves was read from a     *)
(* tracked instance, and a daemon holds the port it was started with.       *)

Records == [id : BOOLEAN, port : Port0, pid : Pid0]

Procs ==
    [kind : {"none", "other"}]
        \cup [kind : {"proxy"}, of : Instances, port : Ports,
              at : {"spawned", "recording", "announcing", "binding", "bound"}]
        \cup [kind : {"watchdog"}, of : Instances]

Unchosen == {"idle", "resolve"}
Chosen == {"create", "save", "start", "endpoint", "wait", "recordTunnel", "api",
           "cleanup", "release", "watch", "pidFile"}

Commands ==
    [pc : Unchosen \cup Chosen, kind : {"up", "restart"}, port : Port0,
     pid : Pid0, child : Pid0, tunnel : Port0]

DownAt == {"idle", "proxy", "machine", "watchdog", "terminate", "kill"}
Downs == [pc : DownAt, pause : BOOLEAN, copy : Records, victim : Pid0]
Users == [pc : {"idle", "pidFile", "stale"}, child : Pid0]

ProcsTyped ==
    /\ procs \in [Pids -> Procs]
    /\ used \subseteq Pids /\ \A p \in Pids \ used : procs[p] = NoProc

PortsChosen ==
    \A i \in Instances :
        /\ state[i].id => state[i].port # 0
        /\ cmd[i].pc \in Chosen => cmd[i].port # 0
        /\ down[i].copy.id => down[i].copy.port # 0

Typed ==
    /\ tokenized \in BOOLEAN /\ crossed \in BOOLEAN
    /\ state \in [Instances -> Records]
    /\ pidFile \in [Instances -> Pid0] /\ watchFile \in [Instances -> Pid0]
    /\ machine \in [Instances -> BOOLEAN]
    /\ ProcsTyped
    /\ foreign \subseteq Ports /\ allocation \subseteq Instances
    /\ cmd \in [Instances -> Commands]
    /\ down \in [Instances -> Downs]
    /\ user \in [Instances -> Users]
    /\ PortsChosen

LEMMA TypedImpliesTypeOK == Typed => TypeOK
  BY DEF Typed, TypeOK, ProcsTyped, PortsChosen, Records, Commands

\* The search returns a port that can be had, or 0.
LEMMA FindsAFreePort ==
    ASSUME NEW i \in Instances, NEW start
    PROVE  /\ FindUnclaimedPort(i, start) \in Port0
           /\ FindUnclaimedPort(i, start) # 0 => FindUnclaimedPort(i, start) \notin Claimed(i) \cup Bound
<1> DEFINE free == {q \in Ports : q >= start} \ (Claimed(i) \cup Bound)
<1>1. CASE free = {}
  BY <1>1 DEF FindUnclaimedPort, Port0
<1>2. CASE free # {}
  <2>1. free \subseteq Nat
    BY InstancesAssumption DEF Ports
  <2>2. \E x \in free : \A y \in free : ~(<<y, x>> \in OpToRel(<, Nat))
    <3> HIDE DEF free
    <3> QED BY <1>2, <2>1, NatLessThanWellFounded, WFMin
  <2>3. \E x \in free : \A y \in free : x =< y
    <3>1. PICK x \in free : \A y \in free : ~(<<y, x>> \in OpToRel(<, Nat))
      BY <2>2
    <3>2. ASSUME NEW y \in free PROVE x =< y
      <4>1. x \in Nat /\ y \in Nat
        BY <2>1
      <4>2. ~(<<y, x>> \in OpToRel(<, Nat))
        BY <3>1
      <4>3. ~(y < x)
        BY <4>1, <4>2 DEF OpToRel
      <4> QED BY <4>1, <4>3
    <3> QED BY <3>2
  <2>4. Min(free) \in free
    BY <2>3 DEF Min
  <2>5. FindUnclaimedPort(i, start) = Min(free)
    BY <1>2 DEF FindUnclaimedPort
  <2>6. Min(free) \in Ports /\ Min(free) \notin Claimed(i) \cup Bound
    BY <2>4
  <2> QED BY <2>5, <2>6 DEF Port0
<1> QED BY <1>1, <1>2

LEMMA ResolvesToAFreePort ==
    ASSUME NEW i \in Instances, NEW wanted \in Port0, NEW wish
    PROVE  /\ ResolveClientPort(i, wanted, wish) \in Port0
           /\ ResolveClientPort(i, wanted, wish) # 0
                => ResolveClientPort(i, wanted, wish) \notin Claimed(i) \cup Bound
  BY FindsAFreePort DEF ResolveClientPort, Port0

\* What a signal and a new process do to the process table.
LEMMA KillTypes ==
    ASSUME ProcsTyped, NEW p, Kill(p), UNCHANGED used
    PROVE  ProcsTyped' /\ \A q \in Pids : procs'[q] = procs[q] \/ procs'[q] = NoProc
  BY DEF ProcsTyped, Kill, Procs, NoProc

LEMMA SpawnTypes ==
    ASSUME ProcsTyped, NEW p, NEW proc \in Procs, Spawn(p, proc)
    PROVE  /\ ProcsTyped' /\ p \in Pids /\ procs[p] = NoProc
           /\ procs' = [procs EXCEPT ![p] = proc]
  BY DEF ProcsTyped, Spawn

\* The daemons move, and leave.
LEMMA MoveTypes ==
    ASSUME ProcsTyped, NEW p \in Pids, NEW proc \in Procs, procs[p] # NoProc,
           procs' = [procs EXCEPT ![p] = proc], UNCHANGED used
    PROVE  ProcsTyped'
  BY DEF ProcsTyped

LEMMA ProcTypes ==
    /\ NoProc \in Procs /\ Other \in Procs
    /\ \A i \in Instances : Watchdog(i) \in Procs
    /\ \A i \in Instances : \A port \in Ports :
         \A at \in {"spawned", "recording", "announcing", "binding", "bound"} :
            Proxy(i, port, at) \in Procs
  BY DEF Procs, NoProc, Other, Watchdog, Proxy

\* A proxy belongs to an instance and has a port.
LEMMA ProxyTypes ==
    ASSUME ProcsTyped, NEW p, IsProxy(p)
    PROVE  /\ p \in Pids /\ procs[p].of \in Instances /\ procs[p].port \in Ports /\ procs[p] # NoProc
           /\ procs[p].at \in {"spawned", "recording", "announcing", "binding", "bound"}
           /\ procs[p] = Proxy(procs[p].of, procs[p].port, procs[p].at)
  BY DEF ProcsTyped, IsProxy, Procs, Proxy, NoProc

LEMMA MovedTypes ==
    ASSUME ProcsTyped, NEW p, IsProxy(p),
           NEW at \in {"spawned", "recording", "announcing", "binding", "bound"}
    PROVE  [procs[p] EXCEPT !.at = at] = Proxy(procs[p].of, procs[p].port, at)
<1>1. \A i, port, was : [Proxy(i, port, was) EXCEPT !.at = at] = Proxy(i, port, at)
  BY DEF Proxy
<1>2. [procs[p] EXCEPT !.at = at] = [Proxy(procs[p].of, procs[p].port, procs[p].at) EXCEPT !.at = at]
  BY ProxyTypes
<1> QED BY <1>1, <1>2

\* What commands, downs and records are made of, and what changes them.
LEMMA IdleTypes == Idle \in Commands /\ NoDown \in Downs /\ NoUser \in Users /\ NoState \in Records
  BY DEF Idle, NoDown, NoUser, NoState, Commands, Downs, DownAt, Users, Records, Unchosen, Port0, Pid0

LEMMA CommandTypes ==
    ASSUME NEW c \in Commands
    PROVE  /\ \A at \in Unchosen \cup Chosen : [c EXCEPT !.pc = at] \in Commands
           /\ \A at \in Unchosen \cup Chosen, port \in Port0 :
                [c EXCEPT !.pc = at, !.port = port] \in Commands /\ [c EXCEPT !.port = port, !.pc = at] \in Commands
           /\ \A at \in Unchosen \cup Chosen, pid \in Pid0 :
                [c EXCEPT !.pc = at, !.pid = pid] \in Commands /\ [c EXCEPT !.pc = at, !.child = pid] \in Commands
           /\ \A at \in Unchosen \cup Chosen, port \in Port0 :
                [c EXCEPT !.pc = at, !.port = port, !.tunnel = port] \in Commands
           /\ c.port \in Port0 /\ c.tunnel \in Port0 /\ c.pid \in Pid0 /\ c.child \in Pid0
  BY DEF Commands

LEMMA DownTypes ==
    ASSUME NEW d \in Downs
    PROVE  /\ d.copy \in Records /\ \A at \in DownAt : [d EXCEPT !.pc = at] \in Downs
           /\ \A at \in DownAt, p \in Pid0 : [d EXCEPT !.pc = at, !.victim = p] \in Downs
  BY DEF Downs

LEMMA RecordTypes ==
    /\ \A id \in BOOLEAN, port \in Port0, pid \in Pid0 : [id |-> id, port |-> port, pid |-> pid] \in Records
    /\ \A r \in Records : \A port \in Port0 :
         [r EXCEPT !.port = port] \in Records /\ [r EXCEPT !.id = TRUE, !.port = port] \in Records
    /\ \A r \in Records : \A pid \in Pid0 : [r EXCEPT !.pid = pid] \in Records
    /\ \A r \in Records : r.port \in Port0 /\ r.pid \in Pid0 /\ r.id \in BOOLEAN
  BY DEF Records

\* What a command does with the port it is given.
LEMMA UpChooses ==
    ASSUME NEW i \in Instances, NEW wanted \in Port0, UpResolves(i, wanted)
    PROVE  \/ cmd' = [cmd EXCEPT ![i] = Idle] /\ allocation' = allocation \ {i}
           \/ \E port \in Ports \ Claimed(i) :
                /\ cmd' = [cmd EXCEPT ![i] = [@ EXCEPT !.pc = "create", !.port = port]]
                /\ UNCHANGED allocation
<1> DEFINE port == ResolveClientPort(i, wanted, 1)
<1>1. port \in Port0 /\ (port # 0 => port \notin Claimed(i) \cup Bound)
  BY ResolvesToAFreePort
<1>2. IF port = 0 THEN Ends(i) /\ allocation' = allocation \ {i}
      ELSE /\ cmd' = [cmd EXCEPT ![i] = [@ EXCEPT !.pc = "create", !.port = port]]
           /\ UNCHANGED allocation
  BY DEF UpResolves
<1> HIDE DEF port
<1> QED BY <1>1, <1>2 DEF Ends, Port0

LEMMA RestartChooses ==
    ASSUME Typed, NEW i \in Instances, NEW wanted \in Port0, RestartResolves(i, wanted)
    PROVE  \/ cmd' = [cmd EXCEPT ![i] = Idle]
           \/ cmd' = [cmd EXCEPT ![i].pc = "start"] /\ cmd[i].port # 0
           \/ \E port \in Ports : cmd' = [cmd EXCEPT ![i] = [@ EXCEPT !.port = port, !.pc = "save"]]
<1> DEFINE port == ResolveClientPort(i, wanted, cmd[i].port)
<1>1. port \in Port0
  BY ResolvesToAFreePort
<1>2. IF port = 0 THEN Ends(i)
      ELSE cmd' = [cmd EXCEPT ![i] =
                     [@ EXCEPT !.port = port, !.pc = IF port = cmd[i].port THEN "start" ELSE "save"]]
  BY DEF RestartResolves
<1> HIDE DEF port
<1>3. CASE port = cmd[i].port /\ port # 0
  BY <1>2, <1>3 DEF Typed, Commands
<1>4. CASE port # cmd[i].port \/ port = 0
  BY <1>1, <1>2, <1>4 DEF Ends, Port0
<1> QED BY <1>3, <1>4

LEMMA TunnelChooses ==
    ASSUME Typed, NEW i \in Instances, OpenTunnel(i)
    PROVE  \/ \E at \in {"cleanup", "idle"} : cmd' = [cmd EXCEPT ![i].pc = at]
           \/ \E port \in Ports \ Bound :
                cmd' = [cmd EXCEPT ![i] = [@ EXCEPT !.pc = "recordTunnel", !.port = port, !.tunnel = port]]
<1> DEFINE port == IF cmd[i].port \in Claimed(i) \cup Bound
                   THEN FindUnclaimedPort(i, cmd[i].port + 1) ELSE cmd[i].port
<1>1. cmd[i].port \in Ports
  BY DEF OpenTunnel, Typed, PortsChosen, Commands, Chosen, Port0
<1>2. port \in Port0 /\ (port # 0 => port \notin Bound)
  BY <1>1, FindsAFreePort DEF Port0
<1>3. IF port = 0 THEN Fails(i)
      ELSE cmd' = [cmd EXCEPT ![i] = [@ EXCEPT !.pc = "recordTunnel", !.port = port, !.tunnel = port]]
  BY DEF OpenTunnel
<1> HIDE DEF port
<1> QED BY <1>2, <1>3 DEF Fails, Goto, Port0

\* A step keeps the types.
LEMMA StepTypes == Typed /\ [Next]_vars => Typed'
<1> SUFFICES ASSUME Typed, [Next]_vars PROVE Typed'
  OBVIOUS
<1> USE InstancesAssumption DEF Typed, ProcsTyped, PortsChosen, files, bounds
<1>1. ASSUME NEW i \in Instances, CommandStep(i) PROVE Typed'
  <2>1. CASE UpBegins(i)
    BY <2>1, <1>1 DEF UpBegins, Begin, Idle, Commands, Unchosen, Chosen, Port0, Pid0
  <2>2. CASE UpCreates(i)
    <3>1. CASE Ends(i) /\ UNCHANGED <<machine, state>>
      BY <2>2, <1>1, <3>1, IdleTypes DEF UpCreates, Ends, PortsChosen, Idle, Chosen
    <3>2. CASE machine' = [machine EXCEPT ![i] = TRUE] /\ ~(Ends(i) /\ UNCHANGED <<machine, state>>)
      <4>1. /\ cmd[i].pc = "create"
            /\ state' = [state EXCEPT ![i] = [@ EXCEPT !.id = TRUE, !.port = cmd[i].port]]
            /\ cmd' = [cmd EXCEPT ![i] = [@ EXCEPT !.pc = "endpoint", !.pid = state[i].pid]]
        BY <2>2, <1>1, <3>2 DEF UpCreates
      <4>2. cmd' \in [Instances -> Commands] /\ state' \in [Instances -> Records]
        BY <4>1, CommandTypes, RecordTypes DEF Chosen
      <4>3. PortsChosen'
        BY <2>2, <1>1, <4>1 DEF UpCreates, PortsChosen, Records, Commands, Chosen
      <4> QED BY <2>2, <1>1, <3>2, <4>1, <4>2, <4>3 DEF UpCreates
    <3> QED BY <2>2, <1>1, <3>1, <3>2 DEF UpCreates
  <2>3. CASE \E wanted \in Port0 : UpResolves(i, wanted)
    <3>1. PICK wanted \in Port0 : UpResolves(i, wanted)
      BY <2>3, <1>1
    <3>2. CASE cmd' = [cmd EXCEPT ![i] = Idle]
      BY <3>1, <3>2, IdleTypes DEF UpResolves, PortsChosen, Idle, Chosen
    <3>3. ASSUME NEW port \in Ports, cmd' = [cmd EXCEPT ![i] = [@ EXCEPT !.pc = "create", !.port = port]]
          PROVE  Typed'
      <4>1. cmd' \in [Instances -> Commands]
        BY <3>3, CommandTypes DEF Chosen, Port0
      <4>2. PortsChosen'
        BY <3>1, <3>3 DEF UpResolves, PortsChosen, Commands, Ports
      <4> QED BY <3>1, <4>1, <4>2 DEF UpResolves
    <3> QED BY <3>1, <3>2, <3>3, UpChooses
  <2>4. CASE \E wanted \in Port0 : RestartResolves(i, wanted)
    <3>1. PICK wanted \in Port0 : RestartResolves(i, wanted)
      BY <2>4, <1>1
    <3>2. CASE cmd' = [cmd EXCEPT ![i] = Idle]
      BY <3>1, <3>2, IdleTypes DEF RestartResolves, PortsChosen, Idle, Chosen
    <3>3. CASE cmd' = [cmd EXCEPT ![i].pc = "start"] /\ cmd[i].port # 0
      <4>1. cmd' \in [Instances -> Commands]
        BY <3>3, CommandTypes DEF Chosen
      <4>2. PortsChosen'
        BY <3>1, <3>3 DEF RestartResolves, PortsChosen, Commands
      <4> QED BY <3>1, <4>1, <4>2 DEF RestartResolves
    <3>4. ASSUME NEW port \in Ports, cmd' = [cmd EXCEPT ![i] = [@ EXCEPT !.port = port, !.pc = "save"]]
          PROVE  Typed'
      <4>1. cmd' \in [Instances -> Commands]
        BY <3>4, CommandTypes DEF Chosen, Port0
      <4>2. PortsChosen'
        BY <3>1, <3>4 DEF RestartResolves, PortsChosen, Commands, Ports
      <4> QED BY <3>1, <4>1, <4>2 DEF RestartResolves
    <3> QED BY <3>1, <3>2, <3>3, <3>4, RestartChooses
  <2>5. CASE RestartBegins(i)
    BY <2>5, <1>1 DEF RestartBegins, Begin, Idle, Commands, Records, Unchosen, Chosen, Port0, Pid0
  <2>6. CASE RestartSaves(i)
    <3>1. cmd' \in [Instances -> Commands]
      BY <2>6, <1>1, CommandTypes, RecordTypes, IdleTypes DEF RestartSaves, Goto, Unchosen,
           Chosen, Port0, Pid0
    <3>2. state' \in [Instances -> Records]
      BY <2>6, <1>1, CommandTypes, RecordTypes, DownTypes DEF RestartSaves, Goto, Port0, Pid0
    <3>3. PortsChosen'
      BY <2>6, <1>1 DEF RestartSaves, Goto, NoState, PortsChosen, Records, Commands, Downs,
           Unchosen, Chosen, Port0
    <3> QED BY <2>6, <1>1, <3>1, <3>2, <3>3 DEF RestartSaves, Goto, Records, ProcsTyped, Pid0
  <2>7. CASE RestartStarts(i)
    <3>1. CASE state[i].id
      <4>1. cmd[i].pc = "start" /\ cmd' = [cmd EXCEPT ![i].pc = "endpoint"]
        BY <2>7, <1>1, <3>1 DEF RestartStarts, Goto
      <4>2. cmd' \in [Instances -> Commands]
        BY <4>1, CommandTypes DEF Chosen
      <4>3. PortsChosen'
        BY <2>7, <1>1, <4>1 DEF RestartStarts, PortsChosen, Commands, Chosen
      <4> QED BY <2>7, <1>1, <4>2, <4>3 DEF RestartStarts
    <3>2. CASE ~state[i].id
      <4>1. cmd' = [cmd EXCEPT ![i] = Idle]
        BY <2>7, <1>1, <3>2 DEF RestartStarts, Ends
      <4>2. cmd' \in [Instances -> Commands]
        BY <4>1, IdleTypes
      <4>3. PortsChosen'
        BY <2>7, <1>1, <4>1 DEF RestartStarts, PortsChosen, Chosen, Idle
      <4> QED BY <2>7, <1>1, <3>2, <4>2, <4>3 DEF RestartStarts
    <3> QED BY <3>1, <3>2
  <2>8. CASE StopStaleProxy(i)
    <3>1. ProcsTyped'
      BY <2>8, <1>1, KillTypes DEF StopStaleProxy
    <3>2. PortsChosen'
      BY <2>8, <1>1 DEF StopStaleProxy, NoState, PortsChosen, Records, Commands, Downs, Unchosen,
           Chosen, Port0
    <3> QED BY <2>8, <1>1, <3>1, <3>2 DEF StopStaleProxy, Records, ProcsTyped, Pid0
  <2>9. CASE StartProxy(i)
    <3>1. PICK p \in Pids : /\ Spawn(p, Proxy(i, cmd[i].port, "spawned"))
                            /\ cmd' = [cmd EXCEPT ![i] = [@ EXCEPT !.pc = "wait", !.child = p]]
      BY <2>9, <1>1 DEF StartProxy
    <3>2. Proxy(i, cmd[i].port, "spawned") \in Procs
      BY <2>9, <1>1, ProcTypes DEF StartProxy, Commands, Chosen, Port0
    <3>3. cmd' \in [Instances -> Commands]
      BY <2>9, <1>1, <3>1, <3>2, CommandTypes, RecordTypes, IdleTypes DEF StartProxy, Unchosen,
           Chosen, Port0, Pid0
    <3>4. ProcsTyped'
      BY <2>9, <1>1, <3>1, <3>2, SpawnTypes
    <3>5. PortsChosen'
      BY <2>9, <1>1, <3>1, <3>2 DEF StartProxy, NoState, PortsChosen, Records, Commands, Downs,
           Unchosen, Chosen, Port0
    <3> QED BY <2>9, <1>1, <3>1, <3>2, <3>3, <3>4, <3>5 DEF StartProxy, Records, ProcsTyped, Pid0
  <2>10. CASE SkipProxy(i)
    <3>1. cmd' \in [Instances -> Commands]
      BY <2>10, <1>1, CommandTypes, RecordTypes, IdleTypes DEF SkipProxy, Fails, Goto, Unchosen,
           Chosen, Port0, Pid0
    <3>2. PortsChosen'
      BY <2>10, <1>1 DEF SkipProxy, Fails, Goto, NoState, PortsChosen, Records, Commands, Downs,
           Unchosen, Chosen, Port0
    <3> QED BY <2>10, <1>1, <3>1, <3>2 DEF SkipProxy, Fails, Goto, Records, ProcsTyped, Pid0
  <2>11. CASE SeesTheProxy(i)
    <3>1. cmd' \in [Instances -> Commands]
      BY <2>11, <1>1, CommandTypes, RecordTypes, IdleTypes DEF SeesTheProxy, Unchosen, Chosen,
           Port0, Pid0
    <3>2. state' \in [Instances -> Records]
      BY <2>11, <1>1, CommandTypes, RecordTypes, DownTypes DEF SeesTheProxy, Port0, Pid0
    <3>3. PortsChosen'
      BY <2>11, <1>1 DEF SeesTheProxy, NoState, PortsChosen, Records, Commands, Downs, Unchosen,
           Chosen, Port0
    <3> QED BY <2>11, <1>1, <3>1, <3>2, <3>3 DEF SeesTheProxy, Records, ProcsTyped, Pid0
  <2>12. CASE SeesNoProxy(i)
    <3>1. cmd' \in [Instances -> Commands]
      BY <2>12, <1>1, CommandTypes, RecordTypes, IdleTypes DEF SeesNoProxy, Fails, Goto, Unchosen,
           Chosen, Port0, Pid0
    <3>2. PortsChosen'
      BY <2>12, <1>1 DEF SeesNoProxy, Fails, Goto, NoState, PortsChosen, Records, Commands, Downs,
           Unchosen, Chosen, Port0
    <3> QED BY <2>12, <1>1, <3>1, <3>2 DEF SeesNoProxy, Fails, Goto, Records, ProcsTyped, Pid0
  <2>13. CASE OpenTunnel(i)
    <3>1. ASSUME NEW at \in {"cleanup", "idle"}, cmd' = [cmd EXCEPT ![i].pc = at] PROVE Typed'
      <4>1. cmd' \in [Instances -> Commands]
        BY <3>1, CommandTypes DEF Chosen, Unchosen
      <4>2. PortsChosen'
        BY <2>13, <1>1, <3>1 DEF OpenTunnel, PortsChosen, Commands, Chosen
      <4> QED BY <2>13, <1>1, <4>1, <4>2 DEF OpenTunnel
    <3>2. ASSUME NEW port \in Ports,
                 cmd' = [cmd EXCEPT ![i] = [@ EXCEPT !.pc = "recordTunnel", !.port = port, !.tunnel = port]]
          PROVE  Typed'
      <4>1. cmd' \in [Instances -> Commands]
        BY <3>2, CommandTypes DEF Chosen, Port0
      <4>2. PortsChosen'
        BY <2>13, <1>1, <3>2 DEF OpenTunnel, PortsChosen, Commands, Ports
      <4> QED BY <2>13, <1>1, <4>1, <4>2 DEF OpenTunnel
    <3> QED BY <2>13, <1>1, <3>1, <3>2, TunnelChooses
  <2>14. CASE RecordTunnel(i)
    <3>1. cmd' \in [Instances -> Commands]
      BY <2>14, <1>1, CommandTypes, RecordTypes, IdleTypes DEF RecordTunnel, Goto, Unchosen,
           Chosen, Port0, Pid0
    <3>2. state' \in [Instances -> Records]
      BY <2>14, <1>1, CommandTypes, RecordTypes, DownTypes DEF RecordTunnel, Goto, Port0, Pid0
    <3>3. PortsChosen'
      BY <2>14, <1>1 DEF RecordTunnel, Goto, NoState, PortsChosen, Records, Commands, Downs,
           Unchosen, Chosen, Port0
    <3> QED BY <2>14, <1>1, <3>1, <3>2, <3>3 DEF RecordTunnel, Goto, Records, ProcsTyped, Pid0
  <2>15. CASE ApiAnswers(i)
    <3>1. cmd' \in [Instances -> Commands]
      BY <2>15, <1>1, CommandTypes, RecordTypes, IdleTypes DEF ApiAnswers, Goto, Unchosen, Chosen,
           Port0, Pid0
    <3>2. PortsChosen'
      BY <2>15, <1>1 DEF ApiAnswers, Goto, NoState, PortsChosen, Records, Commands, Downs,
           Unchosen, Chosen, Port0
    <3> QED BY <2>15, <1>1, <3>1, <3>2 DEF ApiAnswers, Goto, Records, ProcsTyped, Pid0
  <2>16. CASE ApiTimesOut(i)
    <3>1. cmd' \in [Instances -> Commands]
      BY <2>16, <1>1, CommandTypes, RecordTypes, IdleTypes DEF ApiTimesOut, Idle, Unchosen,
           Chosen, Port0, Pid0
    <3>2. PortsChosen'
      BY <2>16, <1>1 DEF ApiTimesOut, Idle, NoState, PortsChosen, Records, Commands, Downs,
           Unchosen, Chosen, Port0
    <3> QED BY <2>16, <1>1, <3>1, <3>2 DEF ApiTimesOut, Idle, Records, ProcsTyped, Pid0
  <2>17. CASE CleanupDestroys(i)
    <3>1. cmd' \in [Instances -> Commands]
      BY <2>17, <1>1, CommandTypes, RecordTypes, IdleTypes DEF CleanupDestroys, Goto, Unchosen,
           Chosen, Port0, Pid0
    <3>2. PortsChosen'
      BY <2>17, <1>1 DEF CleanupDestroys, Goto, NoState, PortsChosen, Records, Commands, Downs,
           Unchosen, Chosen, Port0
    <3> QED BY <2>17, <1>1, <3>1, <3>2 DEF CleanupDestroys, Goto, Records, ProcsTyped, Pid0
  <2>18. CASE CleanupReleases(i)
    <3>1. cmd' \in [Instances -> Commands]
      BY <2>18, <1>1, CommandTypes, RecordTypes, IdleTypes DEF CleanupReleases, Ends, Idle,
           Unchosen, Chosen, Port0, Pid0
    <3>2. state' \in [Instances -> Records]
      BY <2>18, <1>1, CommandTypes, RecordTypes, DownTypes DEF CleanupReleases, Ends, Idle, Port0,
           Pid0
    <3>3. ProcsTyped'
      BY <2>18, <1>1, KillTypes DEF CleanupReleases, Ends, Idle
    <3>4. PortsChosen'
      BY <2>18, <1>1 DEF CleanupReleases, Ends, Idle, NoState, PortsChosen, Records, Commands,
           Downs, Unchosen, Chosen, Port0
    <3> QED BY <2>18, <1>1, <3>1, <3>2, <3>3, <3>4 DEF CleanupReleases, Ends, Idle, Records,
         ProcsTyped, Pid0
  <2>19. CASE FindsAWatchdog(i)
    BY <2>19, <1>1 DEF FindsAWatchdog, Ends, Idle, Commands, Unchosen, Chosen, Port0, Pid0
  <2>20. CASE StartsAWatchdog(i)
    <3>1. PICK p \in Pids : Spawn(p, Watchdog(i)) /\ cmd' = [cmd EXCEPT ![i] = [@ EXCEPT !.pc = "pidFile", !.child = p]]
      BY <2>20, <1>1 DEF StartsAWatchdog
    <3>2. cmd' \in [Instances -> Commands]
      BY <2>20, <1>1, <3>1, CommandTypes, RecordTypes, IdleTypes DEF StartsAWatchdog, Unchosen,
           Chosen, Port0, Pid0
    <3>3. ProcsTyped'
      BY <2>20, <1>1, <3>1, SpawnTypes, ProcTypes
    <3>4. PortsChosen'
      BY <2>20, <1>1, <3>1 DEF StartsAWatchdog, NoState, PortsChosen, Records, Commands, Downs,
           Unchosen, Chosen, Port0
    <3> QED BY <2>20, <1>1, <3>1, <3>2, <3>3, <3>4 DEF StartsAWatchdog, Records, ProcsTyped, Pid0
  <2>21. CASE WritesItsPid(i)
    BY <2>21, <1>1 DEF WritesItsPid, Ends, Idle, Commands, Unchosen, Chosen, Port0, Pid0
  <2> QED BY <1>1, <2>1, <2>2, <2>3, <2>4, <2>5, <2>6, <2>7, <2>8, <2>9, <2>10, <2>11, <2>12,
       <2>13, <2>14, <2>15, <2>16, <2>17, <2>18, <2>19, <2>20, <2>21 DEF CommandStep
<1>2. ASSUME NEW i \in Instances, DownStep(i) PROVE Typed'
  <2>1. CASE DownBegins(i)
    <3>1. PICK pause \in BOOLEAN :
            down' = [down EXCEPT ![i] = [NoDown EXCEPT !.pc = "proxy", !.pause = pause, !.copy = state[i]]]
      BY <2>1, <1>2 DEF DownBegins
    <3>2. [NoDown EXCEPT !.pc = "proxy", !.pause = pause, !.copy = state[i]] \in Downs
      BY <1>2 DEF NoDown, Downs, DownAt, Pid0
    <3>3. down' \in [Instances -> Downs]
      BY <3>1, <3>2
    <3>4. PortsChosen'
      BY <2>1, <1>2, <3>1 DEF DownBegins, Begin, NoDown, Downs, PortsChosen
    <3> QED BY <2>1, <1>2, <3>3, <3>4 DEF DownBegins, Begin
  <2>2. CASE DownStopsTheProxy(i)
    <3>1. state' \in [Instances -> Records]
      BY <2>2, <1>2, CommandTypes, RecordTypes, DownTypes DEF DownStopsTheProxy, Port0, Pid0
    <3>2. ProcsTyped'
      BY <2>2, <1>2, KillTypes DEF DownStopsTheProxy
    <3>3. down' \in [Instances -> Downs]
      BY <2>2, <1>2, DownTypes, IdleTypes DEF DownStopsTheProxy, DownAt, Users, Pid0
    <3>4. PortsChosen'
      BY <2>2, <1>2 DEF DownStopsTheProxy, NoState, PortsChosen, Records, Commands, Downs,
           Unchosen, Chosen, Port0
    <3> QED BY <2>2, <1>2, <3>1, <3>2, <3>3, <3>4 DEF DownStopsTheProxy, Records, ProcsTyped, Pid0
  <2>3. CASE DownStopsTheMachine(i)
    <3>1. state' \in [Instances -> Records]
      BY <2>3, <1>2 DEF DownStopsTheMachine, Downs, Records, NoState, Port0, Pid0
    <3>2. down' \in [Instances -> Downs]
      BY <2>3, <1>2, <3>1, DownTypes, IdleTypes DEF DownStopsTheMachine, DownAt, Users, Pid0
    <3>3. PortsChosen'
      BY <2>3, <1>2, <3>1 DEF DownStopsTheMachine, NoState, PortsChosen, Records, Commands, Downs,
           Unchosen, Chosen, Port0
    <3> QED BY <2>3, <1>2, <3>1, <3>2, <3>3 DEF DownStopsTheMachine, Records, ProcsTyped, Pid0
  <2>4. CASE DownChecksTheWatchdog(i)
    <3>1. CASE /\ down' = [down EXCEPT ![i].pc = "terminate", ![i].victim = watchFile[i]]
               /\ UNCHANGED watchFile
      <4>1. down' \in [Instances -> Downs]
        BY <1>2, <3>1, DownTypes DEF DownAt
      <4>2. PortsChosen'
        BY <2>4, <1>2, <3>1 DEF DownChecksTheWatchdog, PortsChosen, Downs
      <4> QED BY <2>4, <1>2, <3>1, <4>1, <4>2 DEF DownChecksTheWatchdog
    <3>2. CASE /\ down' = [down EXCEPT ![i] = NoDown]
               /\ watchFile' = [watchFile EXCEPT ![i] = NoPid]
      <4>1. down' \in [Instances -> Downs]
        BY <1>2, <3>2, IdleTypes
      <4>2. PortsChosen'
        BY <2>4, <1>2, <3>2 DEF DownChecksTheWatchdog, PortsChosen, NoDown, NoState
      <4> QED BY <2>4, <1>2, <3>2, <4>1, <4>2 DEF DownChecksTheWatchdog, Pid0
    <3> QED BY <2>4, <3>1, <3>2 DEF DownChecksTheWatchdog
  <2>5. CASE DownTerminates(i)
    <3>1. ProcsTyped'
      BY <2>5, <1>2, KillTypes DEF DownTerminates
    <3>2. CASE down' = [down EXCEPT ![i].pc = "kill"]
      <4>1. down' \in [Instances -> Downs]
        BY <1>2, <3>2, DownTypes DEF DownAt
      <4>2. PortsChosen'
        BY <2>5, <1>2, <3>2 DEF DownTerminates, PortsChosen, Downs
      <4> QED BY <2>5, <1>2, <3>1, <4>1, <4>2 DEF DownTerminates
    <3>3. CASE down' = [down EXCEPT ![i] = NoDown]
      <4>1. down' \in [Instances -> Downs]
        BY <1>2, <3>3, IdleTypes
      <4>2. PortsChosen'
        BY <2>5, <1>2, <3>3 DEF DownTerminates, PortsChosen, NoDown, NoState
      <4> QED BY <2>5, <1>2, <3>1, <4>1, <4>2 DEF DownTerminates
    <3> QED BY <2>5, <3>2, <3>3 DEF DownTerminates
  <2>6. CASE DownKills(i)
    <3>1. ProcsTyped'
      BY <2>6, <1>2, KillTypes DEF DownKills
    <3>2. down' \in [Instances -> Downs]
      BY <2>6, <1>2, DownTypes, IdleTypes DEF DownKills
    <3>3. PortsChosen'
      BY <2>6, <1>2 DEF DownKills, NoDown, NoState, PortsChosen, Records, Commands,
           Downs, Unchosen, Chosen, Port0
    <3> QED BY <2>6, <1>2, <3>1, <3>2, <3>3 DEF DownKills, Pid0
  <2> QED BY <1>2, <2>1, <2>2, <2>3, <2>4, <2>5, <2>6 DEF DownStep
<1>3. ASSUME NEW i \in Instances, UserStep(i) PROVE Typed'
  <2>1. CASE StartsByHand(i)
    <3>1. PICK p \in Pids : Spawn(p, Watchdog(i)) /\ user' = [user EXCEPT ![i] = [pc |-> "pidFile", child |-> p]]
      BY <2>1, <1>3 DEF StartsByHand, Begin
    <3>2. ProcsTyped'
      BY <2>1, <1>3, <3>1, SpawnTypes, ProcTypes
    <3>3. user' \in [Instances -> Users]
      BY <2>1, <1>3, <3>1, DownTypes, IdleTypes DEF StartsByHand, Begin, Users, Pid0
    <3>4. PortsChosen'
      BY <2>1, <1>3, <3>1 DEF StartsByHand, Begin, NoState, PortsChosen, Records, Commands, Downs,
           Unchosen, Chosen, Port0
    <3> QED BY <2>1, <1>3, <3>1, <3>2, <3>3, <3>4 DEF StartsByHand, Begin, Records, ProcsTyped, Pid0
  <2>2. CASE FindsItStale(i)
    <3>1. user' \in [Instances -> Users]
      BY <2>2, <1>3, DownTypes, IdleTypes DEF FindsItStale, Begin, Users, Pid0
    <3>2. PortsChosen'
      BY <2>2, <1>3 DEF FindsItStale, Begin, NoState, PortsChosen, Records, Commands, Downs,
           Unchosen, Chosen, Port0
    <3> QED BY <2>2, <1>3, <3>1, <3>2 DEF FindsItStale, Begin, Records, ProcsTyped, Pid0
  <2>3. CASE UserWritesThePidFile(i)
    BY <2>3, <1>3 DEF UserWritesThePidFile, NoUser, Users, Pid0
  <2> QED BY <1>3, <2>1, <2>2, <2>3 DEF UserStep
<1>4. ASSUME NEW p \in Pids, DaemonStep(p) PROVE Typed'
  <2>1. CASE ProxyLooksAround(p)
    <3>1. PICK proc \in Procs : procs' = [procs EXCEPT ![p] = proc]
      BY <2>1, <1>4, ProxyTypes, ProcTypes DEF ProxyLooksAround
    <3>2. procs[p] # NoProc
      BY <2>1, <1>4, ProxyTypes DEF ProxyLooksAround
    <3>3. ProcsTyped'
      BY <2>1, <1>4, <3>1, <3>2, MoveTypes DEF ProxyLooksAround
    <3>4. PortsChosen'
      BY <2>1, <1>4, <3>1, <3>2 DEF ProxyLooksAround, NoState, PortsChosen, Records, Commands,
           Downs, Unchosen, Chosen, Port0
    <3> QED BY <2>1, <1>4, <3>1, <3>2, <3>3, <3>4 DEF ProxyLooksAround, Records, ProcsTyped, Pid0
  <2>2. CASE ProxyRecordsItself(p)
    <3>1. procs[p] # NoProc /\ [procs[p] EXCEPT !.at = "announcing"] \in Procs
      <4>1. IsProxy(p)
        BY <2>2, <1>4 DEF ProxyRecordsItself
      <4>2. [procs[p] EXCEPT !.at = "announcing"] = Proxy(procs[p].of, procs[p].port, "announcing")
        BY <4>1, MovedTypes
      <4> QED BY <4>1, <4>2, ProxyTypes, ProcTypes
    <3>2. state' \in [Instances -> Records]
      BY <2>2, <1>4, <3>1, CommandTypes, RecordTypes, DownTypes DEF ProxyRecordsItself, Port0, Pid0
    <3>3. ProcsTyped'
      BY <2>2, <1>4, <3>1, MoveTypes DEF ProxyRecordsItself
    <3>4. PortsChosen'
      BY <2>2, <1>4, <3>1 DEF ProxyRecordsItself, NoState, PortsChosen, Records, Commands, Downs,
           Unchosen, Chosen, Port0
    <3> QED BY <2>2, <1>4, <3>1, <3>2, <3>3, <3>4 DEF ProxyRecordsItself, Records, ProcsTyped, Pid0
  <2>3. CASE ProxyWritesItsPid(p)
    <3>1. procs[p] # NoProc /\ [procs[p] EXCEPT !.at = "binding"] \in Procs
      <4>1. IsProxy(p)
        BY <2>3, <1>4 DEF ProxyWritesItsPid
      <4>2. [procs[p] EXCEPT !.at = "binding"] = Proxy(procs[p].of, procs[p].port, "binding")
        BY <4>1, MovedTypes
      <4> QED BY <4>1, <4>2, ProxyTypes, ProcTypes
    <3>2. ProcsTyped'
      BY <2>3, <1>4, <3>1, MoveTypes DEF ProxyWritesItsPid
    <3>3. PortsChosen'
      BY <2>3, <1>4, <3>1 DEF ProxyWritesItsPid, NoState, PortsChosen, Records, Commands, Downs,
           Unchosen, Chosen, Port0
    <3> QED BY <2>3, <1>4, <3>1, <3>2, <3>3 DEF ProxyWritesItsPid, Records, ProcsTyped, Pid0
  <2>4. CASE ProxyBinds(p)
    <3>1. procs[p] # NoProc /\ [procs[p] EXCEPT !.at = "bound"] \in Procs
      <4>1. IsProxy(p)
        BY <2>4, <1>4 DEF ProxyBinds
      <4>2. [procs[p] EXCEPT !.at = "bound"] = Proxy(procs[p].of, procs[p].port, "bound")
        BY <4>1, MovedTypes
      <4> QED BY <4>1, <4>2, ProxyTypes, ProcTypes
    <3>2. state' \in [Instances -> Records]
      BY <2>4, <1>4, <3>1, ProxyTypes, RecordTypes DEF ProxyBinds, Port0
    <3>3. ProcsTyped'
      BY <2>4, <1>4, <3>1, MoveTypes DEF ProxyBinds
    <3>4. PortsChosen'
      BY <2>4, <1>4, <3>1, ProxyTypes, InstancesAssumption DEF ProxyBinds, PortsChosen, Records,
           Ports
    <3> QED BY <2>4, <1>4, <3>1, <3>2, <3>3, <3>4 DEF ProxyBinds, Records, ProcsTyped, Pid0
  <2>5. CASE ProxyLeaves(p)
    <3>1. procs[p] # NoProc
      BY <2>5, <1>4, ProxyTypes DEF ProxyLeaves, Alive
    <3>2. ProcsTyped'
      BY <2>5, <1>4, <3>1, MoveTypes, ProcTypes DEF ProxyLeaves
    <3>3. PortsChosen'
      BY <2>5, <1>4, <3>1 DEF ProxyLeaves, NoState, PortsChosen, Records, Commands, Downs,
           Unchosen, Chosen, Port0
    <3> QED BY <2>5, <1>4, <3>1, <3>2, <3>3 DEF ProxyLeaves, Records, ProcsTyped, Pid0
  <2>6. CASE WatchdogLeaves(p)
    <3>1. procs[p] # NoProc
      BY <2>6, <1>4, ProxyTypes DEF WatchdogLeaves, Alive
    <3>2. ProcsTyped'
      BY <2>6, <1>4, <3>1, MoveTypes, ProcTypes DEF WatchdogLeaves
    <3>3. PortsChosen'
      BY <2>6, <1>4, <3>1 DEF WatchdogLeaves, NoState, PortsChosen, Records, Commands, Downs,
           Unchosen, Chosen, Port0
    <3> QED BY <2>6, <1>4, <3>1, <3>2, <3>3 DEF WatchdogLeaves, Records, ProcsTyped, Pid0
  <2> QED BY <1>4, <2>1, <2>2, <2>3, <2>4, <2>5, <2>6 DEF DaemonStep
<1>5. ASSUME NEW p \in Pids, OtherStarts(p) PROVE Typed'
  <2>1. ProcsTyped'
    BY <1>5, SpawnTypes, ProcTypes DEF OtherStarts
  <2>2. PortsChosen'
    BY <1>5 DEF OtherStarts, NoState, PortsChosen, Records, Commands, Downs, Unchosen, Chosen, Port0
  <2> QED BY <1>5, <2>1, <2>2 DEF OtherStarts, Records, ProcsTyped, Pid0
<1>6. ASSUME NEW port \in Ports, ForeignPort(port) PROVE Typed'
  BY <1>6 DEF ForeignPort
<1>7. ASSUME Reboot PROVE Typed'
  <2>1. ProcsTyped'
    BY <1>7, ProcTypes DEF Reboot, Idle, NoDown, NoUser, ProcsTyped
  <2>2. cmd' \in [Instances -> Commands]
    BY <1>7 DEF Reboot, Idle, NoDown, NoUser, Commands, Unchosen, Chosen, Port0, Pid0
  <2>3. down' \in [Instances -> Downs] /\ user' \in [Instances -> Users]
    BY <1>7, IdleTypes DEF Reboot
  <2>4. PortsChosen'
    BY <1>7 DEF Reboot, Idle, NoDown, NoUser, NoState, PortsChosen, Unchosen, Chosen
  <2> QED BY <1>7, <2>1, <2>2, <2>3, <2>4 DEF Reboot
<1>8. CASE UNCHANGED vars
  BY <1>8 DEF vars
<1> QED BY <1>1, <1>2, <1>3, <1>4, <1>5, <1>6, <1>7, <1>8 DEF Next

LEMMA InitTypes == Init => Typed
<1> SUFFICES ASSUME Init PROVE Typed
  OBVIOUS
<1>1. ProcsTyped
  BY ProcTypes DEF Init, ProcsTyped
<1>2. PortsChosen
  BY DEF Init, PortsChosen, NoState, Idle, NoDown, Chosen
<1>3. 1 \in Ports
  BY InstancesAssumption DEF Ports
<1> QED BY <1>1, <1>2, <1>3, IdleTypes DEF Init, Typed, Pid0

\* Every state is well typed; in particular a tracked instance has a port.
THEOREM TypeCorrectness == Spec => []TypeOK
<1> QED BY InitTypes, StepTypes, TypedImpliesTypeOK, PTL DEF Spec

-----------------------------------------------------------------------------
(* Ports.  The invariants say who holds which port while no `down` has met  *)
(* a command of its own instance.                                           *)

\* `up` holds the lock until its machine is recorded; a restart has none.
ClaimsUnderTheLock ==
    \A i \in Instances :
        /\ cmd[i].pc = "create" \/ (cmd[i].pc = "resolve" /\ cmd[i].kind = "up") => allocation = {i}
        /\ cmd[i].pc \in {"save", "start"} => cmd[i].kind = "restart"

\* A tunnel is a thread of its command; proxies are only started without one.
NoProxyBesideTunnels == ~tokenized => \A p \in Pids : ~IsProxy(p)

OneTunnelPerPort ==
    /\ \A i \in Instances : tokenized => cmd[i].tunnel = 0 /\ cmd[i].pc # "recordTunnel"
    /\ \A i \in Instances :
          ~tokenized => /\ cmd[i].pc # "wait"
                        /\ cmd[i].pc \in {"recordTunnel", "api", "watch"} => cmd[i].tunnel = cmd[i].port
    /\ \A i, j \in Instances :
          cmd[i].tunnel # 0 /\ cmd[i].tunnel = cmd[j].tunnel => i = j

\* Otherwise `down` works while no command of its instance does.
DownIsAlone ==
    \A i \in Instances : down[i].pc # "idle" /\ ~crossed => cmd[i].pc = "idle"

\* The state file of a command claims the port the command works on.
Claims(i) ==
    \/ cmd[i].pc \in {"start", "endpoint", "wait"}
    \/ tokenized /\ cmd[i].pc \in {"api", "watch"}
    \/ cmd[i].kind = "restart" /\ cmd[i].pc = "resolve"

ItsPortIsClaimed ==
    \A i \in Instances :
        Claims(i) /\ ~crossed => state[i].id /\ state[i].port = cmd[i].port

\* A proxy that has not bound yet was started by a command that still waits,
\* on the port of that command.
StartsInItsCommand ==
    \A p \in Pids :
        Starting(p) /\ ~crossed
        => LET c == cmd[procs[p].of]
           IN  c.pc \in {"wait", "api"} /\ c.child = p /\ c.port = procs[p].port

\* No sibling's proxy is on the port of a command that waits; and until the
\* API answers the only proxy on it is the one the command has started.
OnItsPort(i) == {p \in Pids : IsProxy(p) /\ procs[p].port = cmd[i].port}

OnlyItsProxy ==
    \A i \in Instances :
        ~crossed =>
            /\ cmd[i].pc \in {"wait", "api"} => OnItsPort(i) \subseteq {cmd[i].child}
            /\ cmd[i].pc \in {"wait", "api", "watch"} =>
                   \A p \in OnItsPort(i) : procs[p].of = i

Inv ==
    /\ Typed
    /\ ClaimsUnderTheLock
    /\ NoProxyBesideTunnels
    /\ OneTunnelPerPort
    /\ DownIsAlone
    /\ ItsPortIsClaimed
    /\ StartsInItsCommand
    /\ OnlyItsProxy
    /\ UpsChooseApart

\* In a step the proxies stay or end, and go on to bind; `up` and `up
\* --restart` start the new ones.
OldProxies ==
    \A p : IsProxy(p)' => /\ IsProxy(p)
                          /\ procs'[p].of = procs[p].of /\ procs'[p].port = procs[p].port
                          /\ Starting(p)' => Starting(p)

ProxiesMove ==
    /\ UNCHANGED tokenized /\ (crossed => crossed')
    /\ OldProxies \/ \E k \in Instances : StartProxy(k)

LEMMA KillKeeps ==
    ASSUME Typed, NEW p, Kill(p)
    PROVE  OldProxies
  BY DEF Typed, ProcsTyped, Kill, OldProxies, IsProxy, Starting, NoProc

LEMMA SpawnKeeps ==
    ASSUME Typed, NEW p, NEW proc, Spawn(p, proc), proc.kind # "proxy"
    PROVE  OldProxies
  BY DEF Typed, ProcsTyped, Spawn, OldProxies, IsProxy, Starting

LEMMA SameKeeps ==
    ASSUME UNCHANGED procs
    PROVE  OldProxies
  BY DEF OldProxies, IsProxy, Starting

LEMMA ProxiesAreOld == Typed /\ [Next]_vars => ProxiesMove
<1> SUFFICES ASSUME Typed, [Next]_vars PROVE ProxiesMove
  OBVIOUS
<1> USE InstancesAssumption DEF bounds, ProxiesMove
<1>1. ASSUME NEW i \in Instances, CommandStep(i) PROVE ProxiesMove
  <2>1. CASE UpBegins(i)
    BY <2>1, <1>1, SameKeeps DEF UpBegins, Begin, Typed
  <2>2. CASE UpCreates(i)
    BY <2>2, <1>1, SameKeeps DEF UpCreates, Ends
  <2>3. CASE \E wanted \in Port0 : UpResolves(i, wanted)
    BY <2>3, <1>1, SameKeeps DEF UpResolves, Ends
  <2>4. CASE \E wanted \in Port0 : RestartResolves(i, wanted)
    BY <2>4, <1>1, SameKeeps DEF RestartResolves, Ends
  <2>5. CASE RestartBegins(i)
    BY <2>5, <1>1, SameKeeps DEF RestartBegins, Begin, Typed
  <2>6. CASE RestartSaves(i)
    BY <2>6, <1>1, SameKeeps DEF RestartSaves, Goto
  <2>7. CASE RestartStarts(i)
    BY <2>7, <1>1, SameKeeps DEF RestartStarts, Goto, Ends
  <2>8. CASE StopStaleProxy(i)
    BY <2>8, <1>1, KillKeeps DEF StopStaleProxy
  <2>9. CASE StartProxy(i)
    BY <2>9, <1>1 DEF StartProxy
  <2>10. CASE SkipProxy(i)
    BY <2>10, <1>1, SameKeeps DEF SkipProxy, Fails, Goto
  <2>11. CASE SeesTheProxy(i)
    BY <2>11, <1>1, SameKeeps DEF SeesTheProxy
  <2>12. CASE SeesNoProxy(i)
    BY <2>12, <1>1, SameKeeps DEF SeesNoProxy, Fails, Goto
  <2>13. CASE OpenTunnel(i)
    BY <2>13, <1>1, SameKeeps DEF OpenTunnel, Fails, Goto
  <2>14. CASE RecordTunnel(i)
    BY <2>14, <1>1, SameKeeps DEF RecordTunnel, Goto
  <2>15. CASE ApiAnswers(i)
    BY <2>15, <1>1, SameKeeps DEF ApiAnswers, Goto
  <2>16. CASE ApiTimesOut(i)
    BY <2>16, <1>1, SameKeeps DEF ApiTimesOut
  <2>17. CASE CleanupDestroys(i)
    BY <2>17, <1>1, SameKeeps DEF CleanupDestroys, Goto
  <2>18. CASE CleanupReleases(i)
    BY <2>18, <1>1, KillKeeps DEF CleanupReleases, Ends
  <2>19. CASE FindsAWatchdog(i)
    BY <2>19, <1>1, SameKeeps DEF FindsAWatchdog, Ends
  <2>20. CASE StartsAWatchdog(i)
    BY <2>20, <1>1, SpawnKeeps DEF StartsAWatchdog, Watchdog
  <2>21. CASE WritesItsPid(i)
    BY <2>21, <1>1, SameKeeps DEF WritesItsPid, Ends
  <2> QED BY <1>1, <2>1, <2>2, <2>3, <2>4, <2>5, <2>6, <2>7, <2>8, <2>9, <2>10, <2>11, <2>12,
       <2>13, <2>14, <2>15, <2>16, <2>17, <2>18, <2>19, <2>20, <2>21 DEF CommandStep
<1>2. ASSUME NEW i \in Instances, DownStep(i) PROVE ProxiesMove
  <2>1. CASE DownBegins(i)
    BY <2>1, <1>2, SameKeeps DEF DownBegins, Begin, Typed
  <2>2. CASE DownStopsTheProxy(i)
    BY <2>2, <1>2, KillKeeps DEF DownStopsTheProxy
  <2>3. CASE DownStopsTheMachine(i)
    BY <2>3, <1>2, SameKeeps DEF DownStopsTheMachine
  <2>4. CASE DownChecksTheWatchdog(i)
    BY <2>4, <1>2, SameKeeps DEF DownChecksTheWatchdog
  <2>5. CASE DownTerminates(i)
    BY <2>5, <1>2, KillKeeps, SameKeeps DEF DownTerminates
  <2>6. CASE DownKills(i)
    BY <2>6, <1>2, KillKeeps DEF DownKills
  <2> QED BY <1>2, <2>1, <2>2, <2>3, <2>4, <2>5, <2>6 DEF DownStep
<1>3. ASSUME NEW i \in Instances, UserStep(i) PROVE ProxiesMove
  <2>1. CASE StartsByHand(i)
    BY <2>1, <1>3, SpawnKeeps DEF StartsByHand, Begin, Watchdog, Typed
  <2>2. CASE FindsItStale(i)
    BY <2>2, <1>3, SameKeeps DEF FindsItStale, Begin, Typed
  <2>3. CASE UserWritesThePidFile(i)
    BY <2>3, <1>3, SameKeeps DEF UserWritesThePidFile
  <2> QED BY <1>3, <2>1, <2>2, <2>3 DEF UserStep
<1>4. ASSUME NEW p \in Pids, DaemonStep(p) PROVE ProxiesMove
  <2>1. CASE ProxyLooksAround(p)
    BY <2>1, <1>4, ProxyTypes DEF ProxyLooksAround, OldProxies, IsProxy, Starting, Typed,
         ProcsTyped, Proxy, NoProc
  <2>2. CASE ProxyRecordsItself(p)
    BY <2>2, <1>4, ProxyTypes DEF ProxyRecordsItself, OldProxies, IsProxy, Starting, Typed,
         ProcsTyped, Proxy, NoProc
  <2>3. CASE ProxyWritesItsPid(p)
    BY <2>3, <1>4, ProxyTypes DEF ProxyWritesItsPid, OldProxies, IsProxy, Starting, Typed,
         ProcsTyped, Proxy, NoProc
  <2>4. CASE ProxyBinds(p)
    BY <2>4, <1>4, ProxyTypes DEF ProxyBinds, OldProxies, IsProxy, Starting, Typed, ProcsTyped,
         Proxy, NoProc
  <2>5. CASE ProxyLeaves(p)
    BY <2>5, <1>4 DEF ProxyLeaves, OldProxies, IsProxy, Starting, Typed, ProcsTyped, Proxy, NoProc
  <2>6. CASE WatchdogLeaves(p)
    BY <2>6, <1>4 DEF WatchdogLeaves, OldProxies, IsProxy, Starting, Typed, ProcsTyped, Proxy,
         NoProc
  <2> QED BY <1>4, <2>1, <2>2, <2>3, <2>4, <2>5, <2>6 DEF DaemonStep
<1>5. ASSUME NEW p \in Pids, OtherStarts(p) PROVE ProxiesMove
  BY <1>5, SpawnKeeps DEF OtherStarts, Other
<1>6. ASSUME NEW port \in Ports, ForeignPort(port) PROVE ProxiesMove
  BY <1>6, SameKeeps DEF ForeignPort
<1>7. ASSUME Reboot PROVE ProxiesMove
  BY <1>7 DEF Reboot, OldProxies, IsProxy, Starting, Typed, ProcsTyped, Proxy, NoProc
<1>8. CASE UNCHANGED vars
  BY <1>8, SameKeeps DEF vars
<1> QED BY <1>1, <1>2, <1>3, <1>4, <1>5, <1>6, <1>7, <1>8 DEF Next

\* Each part of the invariant is kept.
LEMMA LocksKept == Typed /\ ClaimsUnderTheLock /\ [Next]_vars => ClaimsUnderTheLock'
<1> SUFFICES ASSUME Typed /\ ClaimsUnderTheLock, [Next]_vars PROVE ClaimsUnderTheLock'
  OBVIOUS
<1> USE DEF Typed, Commands, ClaimsUnderTheLock, Idle
<1>1. ASSUME NEW i \in Instances, CommandStep(i) PROVE ClaimsUnderTheLock'
  <2>1. CASE UpBegins(i)
    BY <2>1, <1>1 DEF UpBegins, Begin
  <2>2. CASE UpCreates(i)
    <3>1. CASE cmd' = [cmd EXCEPT ![i] = Idle]
      BY <2>2, <1>1, <3>1 DEF UpCreates
    <3>2. CASE cmd' = [cmd EXCEPT ![i] = [@ EXCEPT !.pc = "endpoint", !.pid = state[i].pid]]
      BY <2>2, <1>1, <3>2 DEF UpCreates
    <3> QED BY <2>2, <1>1, <3>1, <3>2 DEF UpCreates, Ends
  <2>3. CASE \E wanted \in Port0 : UpResolves(i, wanted)
    <3>1. PICK wanted \in Port0 : UpResolves(i, wanted)
      BY <2>3, <1>1
    <3>2. CASE cmd' = [cmd EXCEPT ![i] = Idle]
      BY <3>1, <3>2 DEF UpResolves
    <3>3. ASSUME NEW port \in Ports \ Claimed(i),
                 cmd' = [cmd EXCEPT ![i] = [@ EXCEPT !.pc = "create", !.port = port]],
                 UNCHANGED allocation
          PROVE  ClaimsUnderTheLock'
      BY <3>1, <3>3 DEF UpResolves
    <3> QED BY <3>1, <3>2, <3>3, UpChooses
  <2>4. CASE \E wanted \in Port0 : RestartResolves(i, wanted)
    <3>1. PICK wanted \in Port0 : RestartResolves(i, wanted)
      BY <2>4, <1>1
    <3>2. CASE cmd' = [cmd EXCEPT ![i] = Idle]
      BY <3>1, <3>2 DEF RestartResolves
    <3>3. CASE cmd' = [cmd EXCEPT ![i].pc = "start"]
      BY <3>1, <3>3 DEF RestartResolves
    <3>4. ASSUME NEW port \in Ports, cmd' = [cmd EXCEPT ![i] = [@ EXCEPT !.port = port, !.pc = "save"]]
          PROVE  ClaimsUnderTheLock'
      BY <3>1, <3>4 DEF RestartResolves
    <3> QED BY <3>1, <3>2, <3>3, <3>4, RestartChooses
  <2>5. CASE RestartBegins(i)
    BY <2>5, <1>1 DEF RestartBegins, Begin
  <2>6. CASE RestartSaves(i)
    BY <2>6, <1>1 DEF RestartSaves, Goto
  <2>7. CASE RestartStarts(i)
    <3>1. CASE cmd' = [cmd EXCEPT ![i] = Idle]
      BY <2>7, <1>1, <3>1 DEF RestartStarts
    <3>2. CASE cmd' = [cmd EXCEPT ![i].pc = "endpoint"]
      BY <2>7, <1>1, <3>2 DEF RestartStarts
    <3> QED BY <2>7, <1>1, <3>1, <3>2 DEF RestartStarts, Ends, Goto
  <2>8. CASE StopStaleProxy(i)
    BY <2>8, <1>1 DEF StopStaleProxy
  <2>9. CASE StartProxy(i)
    BY <2>9, <1>1 DEF StartProxy
  <2>10. CASE SkipProxy(i)
    BY <2>10, <1>1 DEF SkipProxy, Fails, Goto
  <2>11. CASE SeesTheProxy(i)
    BY <2>11, <1>1 DEF SeesTheProxy
  <2>12. CASE SeesNoProxy(i)
    BY <2>12, <1>1 DEF SeesNoProxy, Fails, Goto
  <2>13. CASE OpenTunnel(i)
    <3>1. ASSUME NEW at \in {"cleanup", "idle"}, cmd' = [cmd EXCEPT ![i].pc = at] PROVE ClaimsUnderTheLock'
      BY <2>13, <1>1, <3>1 DEF OpenTunnel
    <3>2. ASSUME NEW port \in Ports \ Bound,
                 cmd' = [cmd EXCEPT ![i] = [@ EXCEPT !.pc = "recordTunnel", !.port = port, !.tunnel = port]]
          PROVE  ClaimsUnderTheLock'
      BY <2>13, <1>1, <3>2 DEF OpenTunnel
    <3> QED BY <2>13, <1>1, <3>1, <3>2, TunnelChooses
  <2>14. CASE RecordTunnel(i)
    BY <2>14, <1>1 DEF RecordTunnel, Goto
  <2>15. CASE ApiAnswers(i)
    BY <2>15, <1>1 DEF ApiAnswers, Goto
  <2>16. CASE ApiTimesOut(i)
    BY <2>16, <1>1 DEF ApiTimesOut
  <2>17. CASE CleanupDestroys(i)
    BY <2>17, <1>1 DEF CleanupDestroys, Goto
  <2>18. CASE CleanupReleases(i)
    BY <2>18, <1>1 DEF CleanupReleases, Ends
  <2>19. CASE FindsAWatchdog(i)
    BY <2>19, <1>1 DEF FindsAWatchdog, Ends
  <2>20. CASE StartsAWatchdog(i)
    BY <2>20, <1>1 DEF StartsAWatchdog
  <2>21. CASE WritesItsPid(i)
    BY <2>21, <1>1 DEF WritesItsPid, Ends
  <2> QED BY <1>1, <2>1, <2>2, <2>3, <2>4, <2>5, <2>6, <2>7, <2>8, <2>9, <2>10, <2>11, <2>12,
       <2>13, <2>14, <2>15, <2>16, <2>17, <2>18, <2>19, <2>20, <2>21 DEF CommandStep
<1>2. ASSUME NEW i \in Instances, DownStep(i) PROVE ClaimsUnderTheLock'
  <2>1. CASE DownBegins(i)
    BY <2>1, <1>2 DEF DownBegins, Begin
  <2>2. CASE DownStopsTheProxy(i)
    BY <2>2, <1>2 DEF DownStopsTheProxy
  <2>3. CASE DownStopsTheMachine(i)
    BY <2>3, <1>2 DEF DownStopsTheMachine
  <2>4. CASE DownChecksTheWatchdog(i)
    BY <2>4, <1>2 DEF DownChecksTheWatchdog
  <2>5. CASE DownTerminates(i)
    BY <2>5, <1>2 DEF DownTerminates
  <2>6. CASE DownKills(i)
    BY <2>6, <1>2 DEF DownKills
  <2> QED BY <1>2, <2>1, <2>2, <2>3, <2>4, <2>5, <2>6 DEF DownStep
<1>3. ASSUME NEW i \in Instances, UserStep(i) PROVE ClaimsUnderTheLock'
  <2>1. CASE StartsByHand(i)
    BY <2>1, <1>3 DEF StartsByHand, Begin
  <2>2. CASE FindsItStale(i)
    BY <2>2, <1>3 DEF FindsItStale, Begin
  <2>3. CASE UserWritesThePidFile(i)
    BY <2>3, <1>3 DEF UserWritesThePidFile
  <2> QED BY <1>3, <2>1, <2>2, <2>3 DEF UserStep
<1>4. ASSUME NEW p \in Pids, DaemonStep(p) PROVE ClaimsUnderTheLock'
  <2>1. CASE ProxyLooksAround(p)
    BY <2>1, <1>4 DEF ProxyLooksAround
  <2>2. CASE ProxyRecordsItself(p)
    BY <2>2, <1>4 DEF ProxyRecordsItself
  <2>3. CASE ProxyWritesItsPid(p)
    BY <2>3, <1>4 DEF ProxyWritesItsPid
  <2>4. CASE ProxyBinds(p)
    BY <2>4, <1>4 DEF ProxyBinds
  <2>5. CASE ProxyLeaves(p)
    BY <2>5, <1>4 DEF ProxyLeaves
  <2>6. CASE WatchdogLeaves(p)
    BY <2>6, <1>4 DEF WatchdogLeaves
  <2> QED BY <1>4, <2>1, <2>2, <2>3, <2>4, <2>5, <2>6 DEF DaemonStep
<1>5. ASSUME NEW p \in Pids, OtherStarts(p) PROVE ClaimsUnderTheLock'
  BY <1>5 DEF OtherStarts
<1>6. ASSUME NEW port \in Ports, ForeignPort(port) PROVE ClaimsUnderTheLock'
  BY <1>6 DEF ForeignPort
<1>7. ASSUME Reboot PROVE ClaimsUnderTheLock'
  BY <1>7 DEF Reboot
<1>8. CASE UNCHANGED vars
  BY <1>8 DEF vars
<1> QED BY <1>1, <1>2, <1>3, <1>4, <1>5, <1>6, <1>7, <1>8 DEF Next

LEMMA DownsKept == Typed /\ DownIsAlone /\ [Next]_vars => DownIsAlone'
<1> SUFFICES ASSUME Typed /\ DownIsAlone, [Next]_vars PROVE DownIsAlone'
  OBVIOUS
<1> USE DEF Typed, Commands, Downs, DownIsAlone, Idle, NoDown, bounds
<1>1. ASSUME NEW i \in Instances, CommandStep(i) PROVE DownIsAlone'
  <2>1. CASE UpBegins(i)
    BY <2>1, <1>1 DEF UpBegins, Begin
  <2>2. CASE UpCreates(i)
    <3>1. CASE cmd' = [cmd EXCEPT ![i] = Idle]
      BY <2>2, <1>1, <3>1 DEF UpCreates
    <3>2. CASE cmd' = [cmd EXCEPT ![i] = [@ EXCEPT !.pc = "endpoint", !.pid = state[i].pid]]
      BY <2>2, <1>1, <3>2 DEF UpCreates
    <3> QED BY <2>2, <1>1, <3>1, <3>2 DEF UpCreates, Ends
  <2>3. CASE \E wanted \in Port0 : UpResolves(i, wanted)
    <3>1. PICK wanted \in Port0 : UpResolves(i, wanted)
      BY <2>3, <1>1
    <3>2. CASE cmd' = [cmd EXCEPT ![i] = Idle]
      BY <3>1, <3>2 DEF UpResolves
    <3>3. ASSUME NEW port \in Ports \ Claimed(i),
                 cmd' = [cmd EXCEPT ![i] = [@ EXCEPT !.pc = "create", !.port = port]],
                 UNCHANGED allocation
          PROVE  DownIsAlone'
      BY <3>1, <3>3 DEF UpResolves
    <3> QED BY <3>1, <3>2, <3>3, UpChooses
  <2>4. CASE \E wanted \in Port0 : RestartResolves(i, wanted)
    <3>1. PICK wanted \in Port0 : RestartResolves(i, wanted)
      BY <2>4, <1>1
    <3>2. CASE cmd' = [cmd EXCEPT ![i] = Idle]
      BY <3>1, <3>2 DEF RestartResolves
    <3>3. CASE cmd' = [cmd EXCEPT ![i].pc = "start"]
      BY <3>1, <3>3 DEF RestartResolves
    <3>4. ASSUME NEW port \in Ports, cmd' = [cmd EXCEPT ![i] = [@ EXCEPT !.port = port, !.pc = "save"]]
          PROVE  DownIsAlone'
      BY <3>1, <3>4 DEF RestartResolves
    <3> QED BY <3>1, <3>2, <3>3, <3>4, RestartChooses
  <2>5. CASE RestartBegins(i)
    BY <2>5, <1>1 DEF RestartBegins, Begin
  <2>6. CASE RestartSaves(i)
    BY <2>6, <1>1 DEF RestartSaves, Goto
  <2>7. CASE RestartStarts(i)
    <3>1. CASE cmd' = [cmd EXCEPT ![i] = Idle]
      BY <2>7, <1>1, <3>1 DEF RestartStarts
    <3>2. CASE cmd' = [cmd EXCEPT ![i].pc = "endpoint"]
      BY <2>7, <1>1, <3>2 DEF RestartStarts
    <3> QED BY <2>7, <1>1, <3>1, <3>2 DEF RestartStarts, Ends, Goto
  <2>8. CASE StopStaleProxy(i)
    BY <2>8, <1>1 DEF StopStaleProxy
  <2>9. CASE StartProxy(i)
    BY <2>9, <1>1 DEF StartProxy
  <2>10. CASE SkipProxy(i)
    BY <2>10, <1>1 DEF SkipProxy, Fails, Goto
  <2>11. CASE SeesTheProxy(i)
    BY <2>11, <1>1 DEF SeesTheProxy
  <2>12. CASE SeesNoProxy(i)
    BY <2>12, <1>1 DEF SeesNoProxy, Fails, Goto
  <2>13. CASE OpenTunnel(i)
    <3>1. ASSUME NEW at \in {"cleanup", "idle"}, cmd' = [cmd EXCEPT ![i].pc = at] PROVE DownIsAlone'
      BY <2>13, <1>1, <3>1 DEF OpenTunnel
    <3>2. ASSUME NEW port \in Ports \ Bound,
                 cmd' = [cmd EXCEPT ![i] = [@ EXCEPT !.pc = "recordTunnel", !.port = port, !.tunnel = port]]
          PROVE  DownIsAlone'
      BY <2>13, <1>1, <3>2 DEF OpenTunnel
    <3> QED BY <2>13, <1>1, <3>1, <3>2, TunnelChooses
  <2>14. CASE RecordTunnel(i)
    BY <2>14, <1>1 DEF RecordTunnel, Goto
  <2>15. CASE ApiAnswers(i)
    BY <2>15, <1>1 DEF ApiAnswers, Goto
  <2>16. CASE ApiTimesOut(i)
    BY <2>16, <1>1 DEF ApiTimesOut
  <2>17. CASE CleanupDestroys(i)
    BY <2>17, <1>1 DEF CleanupDestroys, Goto
  <2>18. CASE CleanupReleases(i)
    BY <2>18, <1>1 DEF CleanupReleases, Ends
  <2>19. CASE FindsAWatchdog(i)
    BY <2>19, <1>1 DEF FindsAWatchdog, Ends
  <2>20. CASE StartsAWatchdog(i)
    BY <2>20, <1>1 DEF StartsAWatchdog
  <2>21. CASE WritesItsPid(i)
    BY <2>21, <1>1 DEF WritesItsPid, Ends
  <2> QED BY <1>1, <2>1, <2>2, <2>3, <2>4, <2>5, <2>6, <2>7, <2>8, <2>9, <2>10, <2>11, <2>12,
       <2>13, <2>14, <2>15, <2>16, <2>17, <2>18, <2>19, <2>20, <2>21 DEF CommandStep
<1>2. ASSUME NEW i \in Instances, DownStep(i) PROVE DownIsAlone'
  <2>1. CASE DownBegins(i)
    BY <2>1, <1>2 DEF DownBegins, Begin
  <2>2. CASE DownStopsTheProxy(i)
    BY <2>2, <1>2 DEF DownStopsTheProxy
  <2>3. CASE DownStopsTheMachine(i)
    BY <2>3, <1>2 DEF DownStopsTheMachine
  <2>4. CASE DownChecksTheWatchdog(i)
    BY <2>4, <1>2 DEF DownChecksTheWatchdog
  <2>5. CASE DownTerminates(i)
    BY <2>5, <1>2 DEF DownTerminates
  <2>6. CASE DownKills(i)
    BY <2>6, <1>2 DEF DownKills
  <2> QED BY <1>2, <2>1, <2>2, <2>3, <2>4, <2>5, <2>6 DEF DownStep
<1>3. ASSUME NEW i \in Instances, UserStep(i) PROVE DownIsAlone'
  <2>1. CASE StartsByHand(i)
    BY <2>1, <1>3 DEF StartsByHand, Begin
  <2>2. CASE FindsItStale(i)
    BY <2>2, <1>3 DEF FindsItStale, Begin
  <2>3. CASE UserWritesThePidFile(i)
    BY <2>3, <1>3 DEF UserWritesThePidFile
  <2> QED BY <1>3, <2>1, <2>2, <2>3 DEF UserStep
<1>4. ASSUME NEW p \in Pids, DaemonStep(p) PROVE DownIsAlone'
  <2>1. CASE ProxyLooksAround(p)
    BY <2>1, <1>4 DEF ProxyLooksAround
  <2>2. CASE ProxyRecordsItself(p)
    BY <2>2, <1>4 DEF ProxyRecordsItself
  <2>3. CASE ProxyWritesItsPid(p)
    BY <2>3, <1>4 DEF ProxyWritesItsPid
  <2>4. CASE ProxyBinds(p)
    BY <2>4, <1>4 DEF ProxyBinds
  <2>5. CASE ProxyLeaves(p)
    BY <2>5, <1>4 DEF ProxyLeaves
  <2>6. CASE WatchdogLeaves(p)
    BY <2>6, <1>4 DEF WatchdogLeaves
  <2> QED BY <1>4, <2>1, <2>2, <2>3, <2>4, <2>5, <2>6 DEF DaemonStep
<1>5. ASSUME NEW p \in Pids, OtherStarts(p) PROVE DownIsAlone'
  BY <1>5 DEF OtherStarts
<1>6. ASSUME NEW port \in Ports, ForeignPort(port) PROVE DownIsAlone'
  BY <1>6 DEF ForeignPort
<1>7. ASSUME Reboot PROVE DownIsAlone'
  BY <1>7 DEF Reboot
<1>8. CASE UNCHANGED vars
  BY <1>8 DEF vars
<1> QED BY <1>1, <1>2, <1>3, <1>4, <1>5, <1>6, <1>7, <1>8 DEF Next


LEMMA NoProxyKept == Typed /\ NoProxyBesideTunnels /\ [Next]_vars => NoProxyBesideTunnels'
<1> SUFFICES ASSUME Typed, NoProxyBesideTunnels, [Next]_vars, ~tokenized, NEW p \in Pids, IsProxy(p)'
             PROVE  FALSE
  BY ProxiesAreOld DEF ProxiesMove, NoProxyBesideTunnels
<1>1. ~\E k \in Instances : StartProxy(k)
  BY DEF StartProxy
<1> QED BY <1>1, ProxiesAreOld DEF ProxiesMove, OldProxies, NoProxyBesideTunnels

LEMMA TunnelsKept == Typed /\ OneTunnelPerPort /\ [Next]_vars => OneTunnelPerPort'
<1> SUFFICES ASSUME Typed /\ OneTunnelPerPort, [Next]_vars PROVE OneTunnelPerPort'
  OBVIOUS
<1> USE DEF Typed, Commands, OneTunnelPerPort, Idle
<1>1. ASSUME NEW i \in Instances, CommandStep(i) PROVE OneTunnelPerPort'
  <2>1. CASE UpBegins(i)
    BY <2>1, <1>1 DEF UpBegins, Begin
  <2>2. CASE UpCreates(i)
    <3>1. CASE cmd' = [cmd EXCEPT ![i] = Idle]
      BY <2>2, <1>1, <3>1 DEF UpCreates
    <3>2. CASE cmd' = [cmd EXCEPT ![i] = [@ EXCEPT !.pc = "endpoint", !.pid = state[i].pid]]
      BY <2>2, <1>1, <3>2 DEF UpCreates
    <3> QED BY <2>2, <1>1, <3>1, <3>2 DEF UpCreates, Ends
  <2>3. CASE \E wanted \in Port0 : UpResolves(i, wanted)
    <3>1. PICK wanted \in Port0 : UpResolves(i, wanted)
      BY <2>3, <1>1
    <3>2. CASE cmd' = [cmd EXCEPT ![i] = Idle]
      BY <3>1, <3>2 DEF UpResolves
    <3>3. ASSUME NEW port \in Ports \ Claimed(i),
                 cmd' = [cmd EXCEPT ![i] = [@ EXCEPT !.pc = "create", !.port = port]],
                 UNCHANGED allocation
          PROVE  OneTunnelPerPort'
      BY <3>1, <3>3 DEF UpResolves
    <3> QED BY <3>1, <3>2, <3>3, UpChooses
  <2>4. CASE \E wanted \in Port0 : RestartResolves(i, wanted)
    <3>1. PICK wanted \in Port0 : RestartResolves(i, wanted)
      BY <2>4, <1>1
    <3>2. CASE cmd' = [cmd EXCEPT ![i] = Idle]
      BY <3>1, <3>2 DEF RestartResolves
    <3>3. CASE cmd' = [cmd EXCEPT ![i].pc = "start"]
      BY <3>1, <3>3 DEF RestartResolves
    <3>4. ASSUME NEW port \in Ports, cmd' = [cmd EXCEPT ![i] = [@ EXCEPT !.port = port, !.pc = "save"]]
          PROVE  OneTunnelPerPort'
      BY <3>1, <3>4 DEF RestartResolves
    <3> QED BY <3>1, <3>2, <3>3, <3>4, RestartChooses
  <2>5. CASE RestartBegins(i)
    BY <2>5, <1>1 DEF RestartBegins, Begin
  <2>6. CASE RestartSaves(i)
    BY <2>6, <1>1 DEF RestartSaves, Goto
  <2>7. CASE RestartStarts(i)
    <3>1. CASE cmd' = [cmd EXCEPT ![i] = Idle]
      BY <2>7, <1>1, <3>1 DEF RestartStarts
    <3>2. CASE cmd' = [cmd EXCEPT ![i].pc = "endpoint"]
      BY <2>7, <1>1, <3>2 DEF RestartStarts
    <3> QED BY <2>7, <1>1, <3>1, <3>2 DEF RestartStarts, Ends, Goto
  <2>8. CASE StopStaleProxy(i)
    BY <2>8, <1>1 DEF StopStaleProxy
  <2>9. CASE StartProxy(i)
    BY <2>9, <1>1 DEF StartProxy
  <2>10. CASE SkipProxy(i)
    BY <2>10, <1>1 DEF SkipProxy, Fails, Goto
  <2>11. CASE SeesTheProxy(i)
    BY <2>11, <1>1 DEF SeesTheProxy
  <2>12. CASE SeesNoProxy(i)
    BY <2>12, <1>1 DEF SeesNoProxy, Fails, Goto
  <2>13. CASE OpenTunnel(i)
    <3>1. ASSUME NEW at \in {"cleanup", "idle"}, cmd' = [cmd EXCEPT ![i].pc = at] PROVE OneTunnelPerPort'
      BY <2>13, <1>1, <3>1 DEF OpenTunnel
    <3>2. ASSUME NEW port \in Ports \ Bound,
                 cmd' = [cmd EXCEPT ![i] = [@ EXCEPT !.pc = "recordTunnel", !.port = port, !.tunnel = port]]
          PROVE  OneTunnelPerPort'
      BY <2>13, <1>1, <3>2 DEF OpenTunnel, Bound
    <3> QED BY <2>13, <1>1, <3>1, <3>2, TunnelChooses, ZenonT(40)
  <2>14. CASE RecordTunnel(i)
    BY <2>14, <1>1 DEF RecordTunnel, Goto
  <2>15. CASE ApiAnswers(i)
    BY <2>15, <1>1 DEF ApiAnswers, Goto
  <2>16. CASE ApiTimesOut(i)
    BY <2>16, <1>1 DEF ApiTimesOut
  <2>17. CASE CleanupDestroys(i)
    BY <2>17, <1>1 DEF CleanupDestroys, Goto
  <2>18. CASE CleanupReleases(i)
    BY <2>18, <1>1 DEF CleanupReleases, Ends
  <2>19. CASE FindsAWatchdog(i)
    BY <2>19, <1>1 DEF FindsAWatchdog, Ends
  <2>20. CASE StartsAWatchdog(i)
    BY <2>20, <1>1 DEF StartsAWatchdog
  <2>21. CASE WritesItsPid(i)
    BY <2>21, <1>1 DEF WritesItsPid, Ends
  <2> QED BY <1>1, <2>1, <2>2, <2>3, <2>4, <2>5, <2>6, <2>7, <2>8, <2>9, <2>10, <2>11, <2>12,
       <2>13, <2>14, <2>15, <2>16, <2>17, <2>18, <2>19, <2>20, <2>21 DEF CommandStep
<1>2. ASSUME NEW i \in Instances, DownStep(i) PROVE OneTunnelPerPort'
  <2>1. CASE DownBegins(i)
    BY <2>1, <1>2 DEF DownBegins, Begin
  <2>2. CASE DownStopsTheProxy(i)
    BY <2>2, <1>2 DEF DownStopsTheProxy
  <2>3. CASE DownStopsTheMachine(i)
    BY <2>3, <1>2 DEF DownStopsTheMachine
  <2>4. CASE DownChecksTheWatchdog(i)
    BY <2>4, <1>2 DEF DownChecksTheWatchdog
  <2>5. CASE DownTerminates(i)
    BY <2>5, <1>2 DEF DownTerminates
  <2>6. CASE DownKills(i)
    BY <2>6, <1>2 DEF DownKills
  <2> QED BY <1>2, <2>1, <2>2, <2>3, <2>4, <2>5, <2>6 DEF DownStep
<1>3. ASSUME NEW i \in Instances, UserStep(i) PROVE OneTunnelPerPort'
  <2>1. CASE StartsByHand(i)
    BY <2>1, <1>3 DEF StartsByHand, Begin
  <2>2. CASE FindsItStale(i)
    BY <2>2, <1>3 DEF FindsItStale, Begin
  <2>3. CASE UserWritesThePidFile(i)
    BY <2>3, <1>3 DEF UserWritesThePidFile
  <2> QED BY <1>3, <2>1, <2>2, <2>3 DEF UserStep
<1>4. ASSUME NEW p \in Pids, DaemonStep(p) PROVE OneTunnelPerPort'
  <2>1. CASE ProxyLooksAround(p)
    BY <2>1, <1>4 DEF ProxyLooksAround
  <2>2. CASE ProxyRecordsItself(p)
    BY <2>2, <1>4 DEF ProxyRecordsItself
  <2>3. CASE ProxyWritesItsPid(p)
    BY <2>3, <1>4 DEF ProxyWritesItsPid
  <2>4. CASE ProxyBinds(p)
    BY <2>4, <1>4 DEF ProxyBinds
  <2>5. CASE ProxyLeaves(p)
    BY <2>5, <1>4 DEF ProxyLeaves
  <2>6. CASE WatchdogLeaves(p)
    BY <2>6, <1>4 DEF WatchdogLeaves
  <2> QED BY <1>4, <2>1, <2>2, <2>3, <2>4, <2>5, <2>6 DEF DaemonStep
<1>5. ASSUME NEW p \in Pids, OtherStarts(p) PROVE OneTunnelPerPort'
  BY <1>5 DEF OtherStarts
<1>6. ASSUME NEW port \in Ports, ForeignPort(port) PROVE OneTunnelPerPort'
  BY <1>6 DEF ForeignPort
<1>7. ASSUME Reboot PROVE OneTunnelPerPort'
  BY <1>7 DEF Reboot
<1>8. CASE UNCHANGED vars
  BY <1>8 DEF vars
<1> QED BY <1>1, <1>2, <1>3, <1>4, <1>5, <1>6, <1>7, <1>8 DEF Next

LEMMA ClaimsKept ==
    Typed /\ NoProxyBesideTunnels /\ DownIsAlone /\ StartsInItsCommand /\ ItsPortIsClaimed
    /\ [Next]_vars => ItsPortIsClaimed'
<1> SUFFICES ASSUME Typed, NoProxyBesideTunnels, DownIsAlone, StartsInItsCommand, ItsPortIsClaimed,
                    [Next]_vars,
                    NEW k \in Instances, Claims(k)', ~crossed'
             PROVE  state'[k].id /\ state'[k].port = cmd'[k].port
  BY DEF ItsPortIsClaimed
<1>a. ~crossed /\ UNCHANGED tokenized
  BY ProxiesAreOld DEF ProxiesMove
<1>b. Claims(k) => state[k].id /\ state[k].port = cmd[k].port
  BY <1>a DEF ItsPortIsClaimed
<1>c. down[k].pc # "idle" => cmd[k].pc = "idle"
  BY <1>a DEF DownIsAlone
<1>d. \A p \in Pids : Starting(p) /\ procs[p].of = k => Claims(k) /\ cmd[k].port = procs[p].port
  BY <1>a DEF StartsInItsCommand, NoProxyBesideTunnels, Starting, Claims
<1> USE <1>a, <1>b, <1>c DEF Typed, Commands, Records, Downs, Claims, Idle, files, bounds
<1>1. ASSUME NEW i \in Instances, CommandStep(i) PROVE state'[k].id /\ state'[k].port = cmd'[k].port
  <2>1. CASE UpBegins(i)
    BY <2>1, <1>1 DEF UpBegins, Begin
  <2>2. CASE UpCreates(i)
    <3>1. CASE cmd' = [cmd EXCEPT ![i] = Idle] /\ UNCHANGED state
      BY <2>2, <1>1, <3>1 DEF UpCreates
    <3>2. CASE /\ cmd' = [cmd EXCEPT ![i] = [@ EXCEPT !.pc = "endpoint", !.pid = state[i].pid]]
               /\ state' = [state EXCEPT ![i] = [@ EXCEPT !.id = TRUE, !.port = cmd[i].port]]
      BY <2>2, <1>1, <3>2 DEF UpCreates
    <3> QED BY <2>2, <1>1, <3>1, <3>2 DEF UpCreates, Ends
  <2>3. CASE \E wanted \in Port0 : UpResolves(i, wanted)
    <3>1. PICK wanted \in Port0 : UpResolves(i, wanted)
      BY <2>3, <1>1
    <3>2. CASE cmd' = [cmd EXCEPT ![i] = Idle]
      BY <3>1, <3>2 DEF UpResolves
    <3>3. ASSUME NEW port \in Ports \ Claimed(i),
                 cmd' = [cmd EXCEPT ![i] = [@ EXCEPT !.pc = "create", !.port = port]],
                 UNCHANGED allocation
          PROVE  state'[k].id /\ state'[k].port = cmd'[k].port
      BY <3>1, <3>3 DEF UpResolves
    <3> QED BY <3>1, <3>2, <3>3, UpChooses
  <2>4. CASE \E wanted \in Port0 : RestartResolves(i, wanted)
    <3>1. PICK wanted \in Port0 : RestartResolves(i, wanted)
      BY <2>4, <1>1
    <3>2. CASE cmd' = [cmd EXCEPT ![i] = Idle]
      BY <3>1, <3>2 DEF RestartResolves
    <3>3. CASE cmd' = [cmd EXCEPT ![i].pc = "start"]
      BY <3>1, <3>3 DEF RestartResolves
    <3>4. ASSUME NEW port \in Ports, cmd' = [cmd EXCEPT ![i] = [@ EXCEPT !.port = port, !.pc = "save"]]
          PROVE  state'[k].id /\ state'[k].port = cmd'[k].port
      BY <3>1, <3>4 DEF RestartResolves
    <3> QED BY <3>1, <3>2, <3>3, <3>4, RestartChooses
  <2>5. CASE RestartBegins(i)
    BY <2>5, <1>1 DEF RestartBegins, Begin
  <2>6. CASE RestartSaves(i)
    BY <2>6, <1>1 DEF RestartSaves, Goto
  <2>7. CASE RestartStarts(i)
    <3>1. CASE cmd' = [cmd EXCEPT ![i] = Idle]
      BY <2>7, <1>1, <3>1 DEF RestartStarts
    <3>2. CASE cmd' = [cmd EXCEPT ![i].pc = "endpoint"]
      BY <2>7, <1>1, <3>2 DEF RestartStarts
    <3> QED BY <2>7, <1>1, <3>1, <3>2 DEF RestartStarts, Ends, Goto
  <2>8. CASE StopStaleProxy(i)
    BY <2>8, <1>1 DEF StopStaleProxy
  <2>9. CASE StartProxy(i)
    BY <2>9, <1>1 DEF StartProxy
  <2>10. CASE SkipProxy(i)
    BY <2>10, <1>1 DEF SkipProxy, Fails, Goto
  <2>11. CASE SeesTheProxy(i)
    BY <2>11, <1>1 DEF SeesTheProxy
  <2>12. CASE SeesNoProxy(i)
    BY <2>12, <1>1 DEF SeesNoProxy, Fails, Goto
  <2>13. CASE OpenTunnel(i)
    <3>1. ASSUME NEW at \in {"cleanup", "idle"}, cmd' = [cmd EXCEPT ![i].pc = at] PROVE state'[k].id /\ state'[k].port = cmd'[k].port
      BY <2>13, <1>1, <3>1 DEF OpenTunnel
    <3>2. ASSUME NEW port \in Ports \ Bound,
                 cmd' = [cmd EXCEPT ![i] = [@ EXCEPT !.pc = "recordTunnel", !.port = port, !.tunnel = port]]
          PROVE  state'[k].id /\ state'[k].port = cmd'[k].port
      BY <2>13, <1>1, <3>2 DEF OpenTunnel
    <3> QED BY <2>13, <1>1, <3>1, <3>2, TunnelChooses, ZenonT(40)
  <2>14. CASE RecordTunnel(i)
    BY <2>14, <1>1 DEF RecordTunnel, Goto
  <2>15. CASE ApiAnswers(i)
    BY <2>15, <1>1 DEF ApiAnswers, Goto
  <2>16. CASE ApiTimesOut(i)
    BY <2>16, <1>1 DEF ApiTimesOut
  <2>17. CASE CleanupDestroys(i)
    BY <2>17, <1>1 DEF CleanupDestroys, Goto
  <2>18. CASE CleanupReleases(i)
    BY <2>18, <1>1 DEF CleanupReleases, Ends
  <2>19. CASE FindsAWatchdog(i)
    BY <2>19, <1>1 DEF FindsAWatchdog, Ends
  <2>20. CASE StartsAWatchdog(i)
    BY <2>20, <1>1 DEF StartsAWatchdog
  <2>21. CASE WritesItsPid(i)
    BY <2>21, <1>1 DEF WritesItsPid, Ends
  <2> QED BY <1>1, <2>1, <2>2, <2>3, <2>4, <2>5, <2>6, <2>7, <2>8, <2>9, <2>10, <2>11, <2>12,
       <2>13, <2>14, <2>15, <2>16, <2>17, <2>18, <2>19, <2>20, <2>21 DEF CommandStep
<1>2. ASSUME NEW i \in Instances, DownStep(i) PROVE state'[k].id /\ state'[k].port = cmd'[k].port
  <2>1. CASE DownBegins(i)
    BY <2>1, <1>2 DEF DownBegins, Begin
  <2>2. CASE DownStopsTheProxy(i)
    BY <2>2, <1>2 DEF DownStopsTheProxy
  <2>3. CASE DownStopsTheMachine(i)
    BY <2>3, <1>2 DEF DownStopsTheMachine
  <2>4. CASE DownChecksTheWatchdog(i)
    BY <2>4, <1>2 DEF DownChecksTheWatchdog
  <2>5. CASE DownTerminates(i)
    BY <2>5, <1>2 DEF DownTerminates
  <2>6. CASE DownKills(i)
    BY <2>6, <1>2 DEF DownKills
  <2> QED BY <1>2, <2>1, <2>2, <2>3, <2>4, <2>5, <2>6 DEF DownStep
<1>3. ASSUME NEW i \in Instances, UserStep(i) PROVE state'[k].id /\ state'[k].port = cmd'[k].port
  <2>1. CASE StartsByHand(i)
    BY <2>1, <1>3 DEF StartsByHand, Begin
  <2>2. CASE FindsItStale(i)
    BY <2>2, <1>3 DEF FindsItStale, Begin
  <2>3. CASE UserWritesThePidFile(i)
    BY <2>3, <1>3 DEF UserWritesThePidFile
  <2> QED BY <1>3, <2>1, <2>2, <2>3 DEF UserStep
<1>4. ASSUME NEW p \in Pids, DaemonStep(p) PROVE state'[k].id /\ state'[k].port = cmd'[k].port
  <2>1. CASE ProxyLooksAround(p)
    BY <2>1, <1>4 DEF ProxyLooksAround
  <2>2. CASE ProxyRecordsItself(p)
    BY <2>2, <1>4 DEF ProxyRecordsItself
  <2>3. CASE ProxyWritesItsPid(p)
    BY <2>3, <1>4 DEF ProxyWritesItsPid
  <2>4. CASE ProxyBinds(p)
    <3>1. /\ procs[p].of \in Instances /\ Starting(p) /\ cmd' = cmd
          /\ state' = [state EXCEPT ![procs[p].of].port = procs[p].port]
      BY <2>4, <1>d, ProxyTypes DEF ProxyBinds, Starting, IsProxy
    <3>2. state'[k].id = state[k].id
      BY <3>1, <1>d
    <3>3. CASE procs[p].of # k
      BY <3>1, <3>2, <3>3, <1>d
    <3>4. CASE procs[p].of = k
      BY <3>1, <3>2, <3>4, <1>4, <1>d
    <3> QED BY <3>3, <3>4
  <2>5. CASE ProxyLeaves(p)
    BY <2>5, <1>4 DEF ProxyLeaves
  <2>6. CASE WatchdogLeaves(p)
    BY <2>6, <1>4 DEF WatchdogLeaves
  <2> QED BY <1>4, <2>1, <2>2, <2>3, <2>4, <2>5, <2>6 DEF DaemonStep
<1>5. ASSUME NEW p \in Pids, OtherStarts(p) PROVE state'[k].id /\ state'[k].port = cmd'[k].port
  BY <1>5 DEF OtherStarts
<1>6. ASSUME NEW port \in Ports, ForeignPort(port) PROVE state'[k].id /\ state'[k].port = cmd'[k].port
  BY <1>6 DEF ForeignPort
<1>7. ASSUME Reboot PROVE state'[k].id /\ state'[k].port = cmd'[k].port
  BY <1>7 DEF Reboot
<1>8. CASE UNCHANGED vars
  BY <1>8 DEF vars
<1> QED BY <1>1, <1>2, <1>3, <1>4, <1>5, <1>6, <1>7, <1>8 DEF Next

LEMMA StartsKept ==
    /\ Typed /\ OneTunnelPerPort /\ NoProxyBesideTunnels /\ OnlyItsProxy /\ StartsInItsCommand
    /\ OldProxies /\ [Next]_vars
    => StartsInItsCommand'
<1> SUFFICES ASSUME Typed, OneTunnelPerPort, NoProxyBesideTunnels, OnlyItsProxy,
                    StartsInItsCommand, OldProxies, [Next]_vars,
                    NEW q \in Pids, Starting(q)', ~crossed'
             PROVE  LET c == cmd'[procs'[q].of]
                    IN  c.pc \in {"wait", "api"} /\ c.child = q /\ c.port = procs'[q].port
  BY DEF StartsInItsCommand
<1> DEFINE k == procs[q].of
<1>a. k \in Instances /\ Starting(q) /\ IsProxy(q) /\ IsProxy(q)'
  BY ProxyTypes DEF OldProxies, Starting, Typed
<1>b. ~crossed
  BY ProxiesAreOld DEF ProxiesMove
<1>c. procs'[q].of = k /\ procs'[q].port = procs[q].port
  BY <1>a DEF OldProxies
<1>d. cmd[k].pc \in {"wait", "api"} /\ cmd[k].child = q /\ cmd[k].port = procs[q].port
  BY <1>a, <1>b DEF StartsInItsCommand
<1> SUFFICES cmd'[k].pc \in {"wait", "api"} /\ cmd'[k].child = q /\ cmd'[k].port = cmd[k].port
  BY <1>c, <1>d
<1> HIDE DEF k
<1> USE <1>a, <1>b, <1>d DEF Typed, Commands, Idle
<1>1. ASSUME NEW i \in Instances, CommandStep(i) PROVE cmd'[k].pc \in {"wait", "api"} /\ cmd'[k].child = q /\ cmd'[k].port = cmd[k].port
  <2>1. CASE UpBegins(i)
    BY <2>1, <1>1 DEF UpBegins, Begin
  <2>2. CASE UpCreates(i)
    <3>1. CASE cmd' = [cmd EXCEPT ![i] = Idle]
      BY <2>2, <1>1, <3>1 DEF UpCreates
    <3>2. CASE cmd' = [cmd EXCEPT ![i] = [@ EXCEPT !.pc = "endpoint", !.pid = state[i].pid]]
      BY <2>2, <1>1, <3>2 DEF UpCreates
    <3> QED BY <2>2, <1>1, <3>1, <3>2 DEF UpCreates, Ends
  <2>3. CASE \E wanted \in Port0 : UpResolves(i, wanted)
    <3>1. PICK wanted \in Port0 : UpResolves(i, wanted)
      BY <2>3, <1>1
    <3>2. CASE cmd' = [cmd EXCEPT ![i] = Idle]
      BY <3>1, <3>2 DEF UpResolves
    <3>3. ASSUME NEW port \in Ports \ Claimed(i),
                 cmd' = [cmd EXCEPT ![i] = [@ EXCEPT !.pc = "create", !.port = port]],
                 UNCHANGED allocation
          PROVE  cmd'[k].pc \in {"wait", "api"} /\ cmd'[k].child = q /\ cmd'[k].port = cmd[k].port
      BY <3>1, <3>3 DEF UpResolves
    <3> QED BY <3>1, <3>2, <3>3, UpChooses
  <2>4. CASE \E wanted \in Port0 : RestartResolves(i, wanted)
    <3>1. PICK wanted \in Port0 : RestartResolves(i, wanted)
      BY <2>4, <1>1
    <3>2. CASE cmd' = [cmd EXCEPT ![i] = Idle]
      BY <3>1, <3>2 DEF RestartResolves
    <3>3. CASE cmd' = [cmd EXCEPT ![i].pc = "start"]
      BY <3>1, <3>3 DEF RestartResolves
    <3>4. ASSUME NEW port \in Ports, cmd' = [cmd EXCEPT ![i] = [@ EXCEPT !.port = port, !.pc = "save"]]
          PROVE  cmd'[k].pc \in {"wait", "api"} /\ cmd'[k].child = q /\ cmd'[k].port = cmd[k].port
      BY <3>1, <3>4 DEF RestartResolves
    <3> QED BY <3>1, <3>2, <3>3, <3>4, RestartChooses
  <2>5. CASE RestartBegins(i)
    BY <2>5, <1>1 DEF RestartBegins, Begin
  <2>6. CASE RestartSaves(i)
    BY <2>6, <1>1 DEF RestartSaves, Goto
  <2>7. CASE RestartStarts(i)
    <3>1. CASE cmd' = [cmd EXCEPT ![i] = Idle]
      BY <2>7, <1>1, <3>1 DEF RestartStarts
    <3>2. CASE cmd' = [cmd EXCEPT ![i].pc = "endpoint"]
      BY <2>7, <1>1, <3>2 DEF RestartStarts
    <3> QED BY <2>7, <1>1, <3>1, <3>2 DEF RestartStarts, Ends, Goto
  <2>8. CASE StopStaleProxy(i)
    BY <2>8, <1>1 DEF StopStaleProxy
  <2>9. CASE StartProxy(i)
    BY <2>9, <1>1 DEF StartProxy
  <2>10. CASE SkipProxy(i)
    BY <2>10, <1>1 DEF SkipProxy, Fails, Goto
  <2>11. CASE SeesTheProxy(i)
    BY <2>11, <1>1 DEF SeesTheProxy
  <2>12. CASE SeesNoProxy(i)
    BY <2>12, <1>1 DEF SeesNoProxy, Fails, Goto
  <2>13. CASE OpenTunnel(i)
    <3>1. ASSUME NEW at \in {"cleanup", "idle"}, cmd' = [cmd EXCEPT ![i].pc = at] PROVE cmd'[k].pc \in {"wait", "api"} /\ cmd'[k].child = q /\ cmd'[k].port = cmd[k].port
      BY <2>13, <1>1, <3>1 DEF OpenTunnel
    <3>2. ASSUME NEW port \in Ports \ Bound,
                 cmd' = [cmd EXCEPT ![i] = [@ EXCEPT !.pc = "recordTunnel", !.port = port, !.tunnel = port]]
          PROVE  cmd'[k].pc \in {"wait", "api"} /\ cmd'[k].child = q /\ cmd'[k].port = cmd[k].port
      BY <2>13, <1>1, <3>2 DEF OpenTunnel
    <3> QED BY <2>13, <1>1, <3>1, <3>2, TunnelChooses
  <2>14. CASE RecordTunnel(i)
    BY <2>14, <1>1 DEF RecordTunnel, Goto
  <2>15. CASE ApiAnswers(i)
    <3>1. CASE k # i
      BY <2>15, <1>1, <3>1 DEF ApiAnswers, Goto
    <3>2. CASE k = i
      <4>1. tokenized /\ cmd[i].tunnel = 0 /\ cmd[i].pc = "api"
        BY <2>15, <1>1, <1>a DEF ApiAnswers, NoProxyBesideTunnels, OneTunnelPerPort
      <4>2. cmd[i].port # 0
        BY <4>1 DEF PortsChosen, Chosen
      <4>3. PICK p \in Pids : IsBound(p) /\ procs[p].port = cmd[i].port
        BY <2>15, <1>1, <4>1, <4>2, <1>a DEF ApiAnswers, Answers, OneTunnelPerPort,
             NoProxyBesideTunnels
      <4>4. p = q
        BY <1>b, <1>d, <3>2, <4>1, <4>3 DEF OnlyItsProxy, OnItsPort, IsBound
      <4> QED BY <1>a, <4>3, <4>4 DEF IsBound, Starting
    <3> QED BY <3>1, <3>2
  <2>16. CASE ApiTimesOut(i)
    BY <2>16, <1>1 DEF ApiTimesOut, Starting
  <2>17. CASE CleanupDestroys(i)
    BY <2>17, <1>1 DEF CleanupDestroys, Goto
  <2>18. CASE CleanupReleases(i)
    BY <2>18, <1>1 DEF CleanupReleases, Ends
  <2>19. CASE FindsAWatchdog(i)
    BY <2>19, <1>1 DEF FindsAWatchdog, Ends
  <2>20. CASE StartsAWatchdog(i)
    BY <2>20, <1>1 DEF StartsAWatchdog
  <2>21. CASE WritesItsPid(i)
    BY <2>21, <1>1 DEF WritesItsPid, Ends
  <2> QED BY <1>1, <2>1, <2>2, <2>3, <2>4, <2>5, <2>6, <2>7, <2>8, <2>9, <2>10, <2>11, <2>12,
       <2>13, <2>14, <2>15, <2>16, <2>17, <2>18, <2>19, <2>20, <2>21 DEF CommandStep
<1>2. ASSUME NEW i \in Instances, DownStep(i) PROVE cmd'[k].pc \in {"wait", "api"} /\ cmd'[k].child = q /\ cmd'[k].port = cmd[k].port
  <2>1. CASE DownBegins(i)
    BY <2>1, <1>2 DEF DownBegins, Begin
  <2>2. CASE DownStopsTheProxy(i)
    BY <2>2, <1>2 DEF DownStopsTheProxy
  <2>3. CASE DownStopsTheMachine(i)
    BY <2>3, <1>2 DEF DownStopsTheMachine
  <2>4. CASE DownChecksTheWatchdog(i)
    BY <2>4, <1>2 DEF DownChecksTheWatchdog
  <2>5. CASE DownTerminates(i)
    BY <2>5, <1>2 DEF DownTerminates
  <2>6. CASE DownKills(i)
    BY <2>6, <1>2 DEF DownKills
  <2> QED BY <1>2, <2>1, <2>2, <2>3, <2>4, <2>5, <2>6 DEF DownStep
<1>3. ASSUME NEW i \in Instances, UserStep(i) PROVE cmd'[k].pc \in {"wait", "api"} /\ cmd'[k].child = q /\ cmd'[k].port = cmd[k].port
  <2>1. CASE StartsByHand(i)
    BY <2>1, <1>3 DEF StartsByHand, Begin
  <2>2. CASE FindsItStale(i)
    BY <2>2, <1>3 DEF FindsItStale, Begin
  <2>3. CASE UserWritesThePidFile(i)
    BY <2>3, <1>3 DEF UserWritesThePidFile
  <2> QED BY <1>3, <2>1, <2>2, <2>3 DEF UserStep
<1>4. ASSUME NEW p \in Pids, DaemonStep(p) PROVE cmd'[k].pc \in {"wait", "api"} /\ cmd'[k].child = q /\ cmd'[k].port = cmd[k].port
  <2>1. CASE ProxyLooksAround(p)
    BY <2>1, <1>4 DEF ProxyLooksAround
  <2>2. CASE ProxyRecordsItself(p)
    BY <2>2, <1>4 DEF ProxyRecordsItself
  <2>3. CASE ProxyWritesItsPid(p)
    BY <2>3, <1>4 DEF ProxyWritesItsPid
  <2>4. CASE ProxyBinds(p)
    BY <2>4, <1>4 DEF ProxyBinds
  <2>5. CASE ProxyLeaves(p)
    BY <2>5, <1>4 DEF ProxyLeaves
  <2>6. CASE WatchdogLeaves(p)
    BY <2>6, <1>4 DEF WatchdogLeaves
  <2> QED BY <1>4, <2>1, <2>2, <2>3, <2>4, <2>5, <2>6 DEF DaemonStep
<1>5. ASSUME NEW p \in Pids, OtherStarts(p) PROVE cmd'[k].pc \in {"wait", "api"} /\ cmd'[k].child = q /\ cmd'[k].port = cmd[k].port
  BY <1>5 DEF OtherStarts
<1>6. ASSUME NEW port \in Ports, ForeignPort(port) PROVE cmd'[k].pc \in {"wait", "api"} /\ cmd'[k].child = q /\ cmd'[k].port = cmd[k].port
  BY <1>6 DEF ForeignPort
<1>7. ASSUME Reboot PROVE cmd'[k].pc \in {"wait", "api"} /\ cmd'[k].child = q /\ cmd'[k].port = cmd[k].port
  BY <1>7 DEF Reboot, IsProxy, NoProc
<1>8. CASE UNCHANGED vars
  BY <1>8 DEF vars
<1> QED BY <1>1, <1>2, <1>3, <1>4, <1>5, <1>6, <1>7, <1>8 DEF Next

LEMMA OnlyKept ==
    /\ Typed /\ OneTunnelPerPort /\ NoProxyBesideTunnels /\ OnlyItsProxy
    /\ OldProxies /\ [Next]_vars
    => OnlyItsProxy'
<1> SUFFICES ASSUME Typed, OneTunnelPerPort, NoProxyBesideTunnels, OnlyItsProxy, OldProxies, [Next]_vars,
                    NEW k \in Instances, ~crossed', cmd'[k].pc \in {"wait", "api", "watch"},
                    NEW q \in Pids, IsProxy(q)', procs'[q].port = cmd'[k].port
             PROVE  /\ procs'[q].of = k
                    /\ cmd'[k].pc \in {"wait", "api"} => q = cmd'[k].child
  BY DEF OnlyItsProxy, OnItsPort
<1>a. IsProxy(q) /\ procs'[q].of = procs[q].of /\ procs'[q].port = procs[q].port
  BY DEF OldProxies
<1>b. tokenized /\ ~crossed
  BY <1>a, ProxiesAreOld DEF ProxiesMove, NoProxyBesideTunnels
<1>c. cmd[k].pc # "recordTunnel"
  BY <1>b DEF OneTunnelPerPort
<1>d. cmd[k].pc \in {"wait", "api", "watch"} /\ cmd[k].port = procs[q].port
      => /\ procs[q].of = k
         /\ cmd[k].pc \in {"wait", "api"} => q = cmd[k].child
  BY <1>a, <1>b DEF OnlyItsProxy, OnItsPort
<1> DEFINE Stays == /\ cmd[k].pc \in {"wait", "api", "watch"} /\ cmd[k].port = cmd'[k].port
                    /\ cmd'[k].pc \in {"wait", "api"}
                          => cmd[k].pc \in {"wait", "api"} /\ cmd'[k].child = cmd[k].child
<1> SUFFICES Stays
  BY <1>a, <1>d
<1> USE <1>b, <1>c DEF Typed, Commands, Idle
<1>1. ASSUME NEW i \in Instances, CommandStep(i) PROVE Stays
  <2>1. CASE UpBegins(i)
    BY <2>1, <1>1 DEF UpBegins, Begin
  <2>2. CASE UpCreates(i)
    <3>1. CASE cmd' = [cmd EXCEPT ![i] = Idle]
      BY <2>2, <1>1, <3>1 DEF UpCreates
    <3>2. CASE cmd' = [cmd EXCEPT ![i] = [@ EXCEPT !.pc = "endpoint", !.pid = state[i].pid]]
      BY <2>2, <1>1, <3>2 DEF UpCreates
    <3> QED BY <2>2, <1>1, <3>1, <3>2 DEF UpCreates, Ends
  <2>3. CASE \E wanted \in Port0 : UpResolves(i, wanted)
    <3>1. PICK wanted \in Port0 : UpResolves(i, wanted)
      BY <2>3, <1>1
    <3>2. CASE cmd' = [cmd EXCEPT ![i] = Idle]
      BY <3>1, <3>2 DEF UpResolves
    <3>3. ASSUME NEW port \in Ports \ Claimed(i),
                 cmd' = [cmd EXCEPT ![i] = [@ EXCEPT !.pc = "create", !.port = port]],
                 UNCHANGED allocation
          PROVE  Stays
      BY <3>1, <3>3 DEF UpResolves
    <3> QED BY <3>1, <3>2, <3>3, UpChooses
  <2>4. CASE \E wanted \in Port0 : RestartResolves(i, wanted)
    <3>1. PICK wanted \in Port0 : RestartResolves(i, wanted)
      BY <2>4, <1>1
    <3>2. CASE cmd' = [cmd EXCEPT ![i] = Idle]
      BY <3>1, <3>2 DEF RestartResolves
    <3>3. CASE cmd' = [cmd EXCEPT ![i].pc = "start"]
      BY <3>1, <3>3 DEF RestartResolves
    <3>4. ASSUME NEW port \in Ports, cmd' = [cmd EXCEPT ![i] = [@ EXCEPT !.port = port, !.pc = "save"]]
          PROVE  Stays
      BY <3>1, <3>4 DEF RestartResolves
    <3> QED BY <3>1, <3>2, <3>3, <3>4, RestartChooses
  <2>5. CASE RestartBegins(i)
    BY <2>5, <1>1 DEF RestartBegins, Begin
  <2>6. CASE RestartSaves(i)
    BY <2>6, <1>1 DEF RestartSaves, Goto
  <2>7. CASE RestartStarts(i)
    <3>1. CASE cmd' = [cmd EXCEPT ![i] = Idle]
      BY <2>7, <1>1, <3>1 DEF RestartStarts
    <3>2. CASE cmd' = [cmd EXCEPT ![i].pc = "endpoint"]
      BY <2>7, <1>1, <3>2 DEF RestartStarts
    <3> QED BY <2>7, <1>1, <3>1, <3>2 DEF RestartStarts, Ends, Goto
  <2>8. CASE StopStaleProxy(i)
    BY <2>8, <1>1 DEF StopStaleProxy
  <2>9. CASE StartProxy(i)
    <3>1. PICK p \in Pids : Spawn(p, Proxy(i, cmd[i].port, "spawned"))
      BY <2>9, <1>1 DEF StartProxy
    <3>2. IsProxy(p)' /\ procs[p] = NoProc
      BY <3>1 DEF Spawn, IsProxy, Proxy, ProcsTyped
    <3> QED BY <3>2 DEF OldProxies, IsProxy, NoProc
  <2>10. CASE SkipProxy(i)
    BY <2>10, <1>1 DEF SkipProxy, Fails, Goto
  <2>11. CASE SeesTheProxy(i)
    BY <2>11, <1>1 DEF SeesTheProxy
  <2>12. CASE SeesNoProxy(i)
    BY <2>12, <1>1 DEF SeesNoProxy, Fails, Goto
  <2>13. CASE OpenTunnel(i)
    <3>1. ASSUME NEW at \in {"cleanup", "idle"}, cmd' = [cmd EXCEPT ![i].pc = at] PROVE Stays
      BY <2>13, <1>1, <3>1 DEF OpenTunnel
    <3>2. ASSUME NEW port \in Ports \ Bound,
                 cmd' = [cmd EXCEPT ![i] = [@ EXCEPT !.pc = "recordTunnel", !.port = port, !.tunnel = port]]
          PROVE  Stays
      BY <2>13, <1>1, <3>2 DEF OpenTunnel
    <3> QED BY <2>13, <1>1, <3>1, <3>2, TunnelChooses
  <2>14. CASE RecordTunnel(i)
    BY <2>14, <1>1 DEF RecordTunnel, Goto
  <2>15. CASE ApiAnswers(i)
    BY <2>15, <1>1 DEF ApiAnswers, Goto
  <2>16. CASE ApiTimesOut(i)
    BY <2>16, <1>1 DEF ApiTimesOut
  <2>17. CASE CleanupDestroys(i)
    BY <2>17, <1>1 DEF CleanupDestroys, Goto
  <2>18. CASE CleanupReleases(i)
    BY <2>18, <1>1 DEF CleanupReleases, Ends
  <2>19. CASE FindsAWatchdog(i)
    BY <2>19, <1>1 DEF FindsAWatchdog, Ends
  <2>20. CASE StartsAWatchdog(i)
    BY <2>20, <1>1 DEF StartsAWatchdog
  <2>21. CASE WritesItsPid(i)
    BY <2>21, <1>1 DEF WritesItsPid, Ends
  <2> QED BY <1>1, <2>1, <2>2, <2>3, <2>4, <2>5, <2>6, <2>7, <2>8, <2>9, <2>10, <2>11, <2>12,
       <2>13, <2>14, <2>15, <2>16, <2>17, <2>18, <2>19, <2>20, <2>21 DEF CommandStep
<1>2. ASSUME NEW i \in Instances, DownStep(i) PROVE Stays
  <2>1. CASE DownBegins(i)
    BY <2>1, <1>2 DEF DownBegins, Begin
  <2>2. CASE DownStopsTheProxy(i)
    BY <2>2, <1>2 DEF DownStopsTheProxy
  <2>3. CASE DownStopsTheMachine(i)
    BY <2>3, <1>2 DEF DownStopsTheMachine
  <2>4. CASE DownChecksTheWatchdog(i)
    BY <2>4, <1>2 DEF DownChecksTheWatchdog
  <2>5. CASE DownTerminates(i)
    BY <2>5, <1>2 DEF DownTerminates
  <2>6. CASE DownKills(i)
    BY <2>6, <1>2 DEF DownKills
  <2> QED BY <1>2, <2>1, <2>2, <2>3, <2>4, <2>5, <2>6 DEF DownStep
<1>3. ASSUME NEW i \in Instances, UserStep(i) PROVE Stays
  <2>1. CASE StartsByHand(i)
    BY <2>1, <1>3 DEF StartsByHand, Begin
  <2>2. CASE FindsItStale(i)
    BY <2>2, <1>3 DEF FindsItStale, Begin
  <2>3. CASE UserWritesThePidFile(i)
    BY <2>3, <1>3 DEF UserWritesThePidFile
  <2> QED BY <1>3, <2>1, <2>2, <2>3 DEF UserStep
<1>4. ASSUME NEW p \in Pids, DaemonStep(p) PROVE Stays
  <2>1. CASE ProxyLooksAround(p)
    BY <2>1, <1>4 DEF ProxyLooksAround
  <2>2. CASE ProxyRecordsItself(p)
    BY <2>2, <1>4 DEF ProxyRecordsItself
  <2>3. CASE ProxyWritesItsPid(p)
    BY <2>3, <1>4 DEF ProxyWritesItsPid
  <2>4. CASE ProxyBinds(p)
    BY <2>4, <1>4 DEF ProxyBinds
  <2>5. CASE ProxyLeaves(p)
    BY <2>5, <1>4 DEF ProxyLeaves
  <2>6. CASE WatchdogLeaves(p)
    BY <2>6, <1>4 DEF WatchdogLeaves
  <2> QED BY <1>4, <2>1, <2>2, <2>3, <2>4, <2>5, <2>6 DEF DaemonStep
<1>5. ASSUME NEW p \in Pids, OtherStarts(p) PROVE Stays
  BY <1>5 DEF OtherStarts
<1>6. ASSUME NEW port \in Ports, ForeignPort(port) PROVE Stays
  BY <1>6 DEF ForeignPort
<1>7. ASSUME Reboot PROVE Stays
  BY <1>7, <1>a DEF Reboot, IsProxy, NoProc
<1>8. CASE UNCHANGED vars
  BY <1>8 DEF vars
<1> QED BY <1>1, <1>2, <1>3, <1>4, <1>5, <1>6, <1>7, <1>8 DEF Next

\* A proxy is only started on a port that nobody else claims or has bound.
LEMMA StartKeeps ==
    ASSUME Typed, StartsInItsCommand, ItsPortIsClaimed, OnlyItsProxy,
           NEW i \in Instances, StartProxy(i)
    PROVE  StartsInItsCommand' /\ OnlyItsProxy'
<1>1. PICK p \in Pids : /\ Spawn(p, Proxy(i, cmd[i].port, "spawned"))
                        /\ cmd' = [cmd EXCEPT ![i] = [@ EXCEPT !.pc = "wait", !.child = p]]
  BY DEF StartProxy
<1>2. /\ procs' = [procs EXCEPT ![p] = Proxy(i, cmd[i].port, "spawned")]
      /\ cmd[i].pc = "endpoint" /\ cmd[i].port \notin Claimed(i) /\ cmd[i].port \notin Bound
      /\ tokenized /\ UNCHANGED <<crossed, state>>
  BY <1>1 DEF StartProxy, Spawn, PortIsOurs, files, bounds
<1>3. procs \in [Pids -> Procs] /\ cmd \in [Instances -> Commands]
  BY DEF Typed, ProcsTyped
<1>4. /\ procs'[p].kind = "proxy" /\ procs'[p].of = i /\ procs'[p].port = cmd[i].port
      /\ \A q \in Pids \ {p} : procs'[q] = procs[q]
  BY <1>2, <1>3 DEF Proxy
<1>5. /\ cmd'[i].pc = "wait" /\ cmd'[i].child = p /\ cmd'[i].port = cmd[i].port
      /\ \A j \in Instances \ {i} : cmd'[j] = cmd[j]
  BY <1>1, <1>3 DEF Commands
<1>6. \A q \in Pids \ {p} : (IsProxy(q)' => IsProxy(q)) /\ (Starting(q)' => Starting(q))
  BY <1>4 DEF IsProxy, Starting
<1>7. \A q \in Pids : Starting(q) /\ ~crossed => procs[q].of # i /\ procs[q].of \in Instances
  BY <1>2, ProxyTypes DEF StartsInItsCommand, Starting, Typed
\* Whoever waits on a port has recorded it, so that this port is not his.
<1>8. ASSUME NEW j \in Instances, j # i, ~crossed, cmd[j].pc \in {"wait", "api", "watch"}
      PROVE  cmd[j].port # cmd[i].port
  <2>1. state[j].id /\ state[j].port = cmd[j].port
    BY <1>2, <1>8 DEF ItsPortIsClaimed, Claims
  <2> QED BY <1>2, <1>8, <2>1 DEF Claimed
\* Nor is another proxy on it.
<1>9. ASSUME NEW q \in Pids, IsProxy(q), ~crossed PROVE procs[q].port # cmd[i].port
  <2>1. CASE IsBound(q)
    BY <1>2, <2>1 DEF Bound
  <2>2. CASE Starting(q)
    <3>1. procs[q].of # i /\ procs[q].of \in Instances
      BY <1>7, <1>9, <2>2
    <3>2. cmd[procs[q].of].pc \in {"wait", "api"} /\ cmd[procs[q].of].port = procs[q].port
      BY <1>9, <2>2 DEF StartsInItsCommand
    <3> QED BY <1>8, <1>9, <3>1, <3>2
  <2> QED BY <1>9, <2>1, <2>2 DEF IsBound, Starting
<1>10. StartsInItsCommand'
  <2> SUFFICES ASSUME NEW q \in Pids, Starting(q)', ~crossed
               PROVE  LET c == cmd'[procs'[q].of]
                      IN  c.pc \in {"wait", "api"} /\ c.child = q /\ c.port = procs'[q].port
    BY <1>2 DEF StartsInItsCommand
  <2>1. CASE q = p
    BY <2>1, <1>4, <1>5
  <2>2. CASE q # p
    BY <2>2, <1>4, <1>5, <1>6, <1>7 DEF StartsInItsCommand
  <2> QED BY <2>1, <2>2
<1>11. OnlyItsProxy'
  <2> SUFFICES ASSUME NEW k \in Instances, ~crossed, cmd'[k].pc \in {"wait", "api", "watch"},
                      NEW q \in Pids, IsProxy(q)', procs'[q].port = cmd'[k].port
               PROVE  /\ procs'[q].of = k
                      /\ cmd'[k].pc \in {"wait", "api"} => q = cmd'[k].child
    BY <1>2 DEF OnlyItsProxy, OnItsPort
  <2>1. CASE k = i /\ q = p
    BY <2>1, <1>4, <1>5
  <2>2. CASE k = i /\ q # p
    BY <2>2, <1>4, <1>5, <1>6, <1>9
  <2>3. CASE k # i /\ q = p
    BY <2>3, <1>4, <1>5, <1>8
  <2>4. CASE k # i /\ q # p
    BY <2>4, <1>4, <1>5, <1>6 DEF OnlyItsProxy, OnItsPort
  <2> QED BY <2>1, <2>2, <2>3, <2>4
<1> QED BY <1>10, <1>11

LEMMA ApartKept ==
    /\ Typed /\ ClaimsUnderTheLock /\ ItsPortIsClaimed /\ UpsChooseApart /\ [Next]_vars
    => UpsChooseApart'
<1> SUFFICES ASSUME Typed, ClaimsUnderTheLock, ItsPortIsClaimed, UpsChooseApart, [Next]_vars,
                    NEW k \in Instances, NEW j \in Instances, k # j,
                    HoldsAPort(k)', HoldsAPort(j)', ~crossed'
             PROVE  cmd'[k].port # cmd'[j].port
  BY DEF UpsChooseApart
<1>a. ~crossed
  BY ProxiesAreOld DEF ProxiesMove
<1>b. HoldsAPort(k) /\ HoldsAPort(j) => cmd[k].port # cmd[j].port
  BY <1>a DEF UpsChooseApart
\* To choose, a command holds the lock, and every other command that has a
\* port has claimed it by then.
<1>c. ASSUME NEW i \in Instances, NEW n \in Instances, n # i, cmd[i].pc = "resolve", cmd[i].kind = "up",
             HoldsAPort(n)
      PROVE  cmd[n].port \in Claimed(i)
  <2>1. cmd[n].pc = "endpoint"
    BY <1>c DEF ClaimsUnderTheLock, HoldsAPort
  <2>2. state[n].id /\ state[n].port = cmd[n].port
    BY <1>a, <2>1 DEF ItsPortIsClaimed, Claims
  <2> QED BY <1>c, <2>2 DEF Claimed
<1> USE <1>b DEF Typed, Commands, HoldsAPort, Idle
<1>1. ASSUME NEW i \in Instances, CommandStep(i) PROVE cmd'[k].port # cmd'[j].port
  <2>1. CASE UpBegins(i)
    BY <2>1, <1>1 DEF UpBegins, Begin
  <2>2. CASE UpCreates(i)
    <3>1. CASE cmd' = [cmd EXCEPT ![i] = Idle]
      BY <2>2, <1>1, <3>1 DEF UpCreates
    <3>2. CASE cmd' = [cmd EXCEPT ![i] = [@ EXCEPT !.pc = "endpoint", !.pid = state[i].pid]]
      BY <2>2, <1>1, <3>2 DEF UpCreates
    <3> QED BY <2>2, <1>1, <3>1, <3>2 DEF UpCreates, Ends
  <2>3. CASE \E wanted \in Port0 : UpResolves(i, wanted)
    <3>1. PICK wanted \in Port0 : UpResolves(i, wanted)
      BY <2>3, <1>1
    <3>2. CASE cmd' = [cmd EXCEPT ![i] = Idle]
      BY <3>1, <3>2 DEF UpResolves
    <3>3. ASSUME NEW port \in Ports \ Claimed(i),
                 cmd' = [cmd EXCEPT ![i] = [@ EXCEPT !.pc = "create", !.port = port]],
                 UNCHANGED allocation
          PROVE  cmd'[k].port # cmd'[j].port
      BY <3>1, <3>3, <1>c DEF UpResolves
    <3> QED BY <3>1, <3>2, <3>3, UpChooses
  <2>4. CASE \E wanted \in Port0 : RestartResolves(i, wanted)
    <3>1. PICK wanted \in Port0 : RestartResolves(i, wanted)
      BY <2>4, <1>1
    <3>2. CASE cmd' = [cmd EXCEPT ![i] = Idle]
      BY <3>1, <3>2 DEF RestartResolves
    <3>3. CASE cmd' = [cmd EXCEPT ![i].pc = "start"]
      BY <3>1, <3>3 DEF RestartResolves
    <3>4. ASSUME NEW port \in Ports, cmd' = [cmd EXCEPT ![i] = [@ EXCEPT !.port = port, !.pc = "save"]]
          PROVE  cmd'[k].port # cmd'[j].port
      BY <3>1, <3>4 DEF RestartResolves
    <3> QED BY <3>1, <3>2, <3>3, <3>4, RestartChooses
  <2>5. CASE RestartBegins(i)
    BY <2>5, <1>1 DEF RestartBegins, Begin
  <2>6. CASE RestartSaves(i)
    BY <2>6, <1>1 DEF RestartSaves, Goto
  <2>7. CASE RestartStarts(i)
    <3>1. cmd[i].kind = "restart"
      BY <2>7, <1>1 DEF RestartStarts, ClaimsUnderTheLock
    <3>2. CASE cmd' = [cmd EXCEPT ![i] = Idle]
      BY <2>7, <1>1, <3>2 DEF RestartStarts
    <3>3. CASE cmd' = [cmd EXCEPT ![i].pc = "endpoint"]
      BY <2>7, <1>1, <3>1, <3>3 DEF RestartStarts
    <3> QED BY <2>7, <1>1, <3>2, <3>3 DEF RestartStarts, Ends, Goto
  <2>8. CASE StopStaleProxy(i)
    BY <2>8, <1>1 DEF StopStaleProxy
  <2>9. CASE StartProxy(i)
    BY <2>9, <1>1 DEF StartProxy
  <2>10. CASE SkipProxy(i)
    BY <2>10, <1>1 DEF SkipProxy, Fails, Goto
  <2>11. CASE SeesTheProxy(i)
    BY <2>11, <1>1 DEF SeesTheProxy
  <2>12. CASE SeesNoProxy(i)
    BY <2>12, <1>1 DEF SeesNoProxy, Fails, Goto
  <2>13. CASE OpenTunnel(i)
    <3>1. ASSUME NEW at \in {"cleanup", "idle"}, cmd' = [cmd EXCEPT ![i].pc = at] PROVE cmd'[k].port # cmd'[j].port
      BY <2>13, <1>1, <3>1 DEF OpenTunnel
    <3>2. ASSUME NEW port \in Ports \ Bound,
                 cmd' = [cmd EXCEPT ![i] = [@ EXCEPT !.pc = "recordTunnel", !.port = port, !.tunnel = port]]
          PROVE  cmd'[k].port # cmd'[j].port
      BY <2>13, <1>1, <3>2 DEF OpenTunnel
    <3> QED BY <2>13, <1>1, <3>1, <3>2, TunnelChooses
  <2>14. CASE RecordTunnel(i)
    BY <2>14, <1>1 DEF RecordTunnel, Goto
  <2>15. CASE ApiAnswers(i)
    BY <2>15, <1>1 DEF ApiAnswers, Goto
  <2>16. CASE ApiTimesOut(i)
    BY <2>16, <1>1 DEF ApiTimesOut
  <2>17. CASE CleanupDestroys(i)
    BY <2>17, <1>1 DEF CleanupDestroys, Goto
  <2>18. CASE CleanupReleases(i)
    BY <2>18, <1>1 DEF CleanupReleases, Ends
  <2>19. CASE FindsAWatchdog(i)
    BY <2>19, <1>1 DEF FindsAWatchdog, Ends
  <2>20. CASE StartsAWatchdog(i)
    BY <2>20, <1>1 DEF StartsAWatchdog
  <2>21. CASE WritesItsPid(i)
    BY <2>21, <1>1 DEF WritesItsPid, Ends
  <2> QED BY <1>1, <2>1, <2>2, <2>3, <2>4, <2>5, <2>6, <2>7, <2>8, <2>9, <2>10, <2>11, <2>12,
       <2>13, <2>14, <2>15, <2>16, <2>17, <2>18, <2>19, <2>20, <2>21 DEF CommandStep
<1>2. ASSUME NEW i \in Instances, DownStep(i) PROVE cmd'[k].port # cmd'[j].port
  <2>1. CASE DownBegins(i)
    BY <2>1, <1>2 DEF DownBegins, Begin
  <2>2. CASE DownStopsTheProxy(i)
    BY <2>2, <1>2 DEF DownStopsTheProxy
  <2>3. CASE DownStopsTheMachine(i)
    BY <2>3, <1>2 DEF DownStopsTheMachine
  <2>4. CASE DownChecksTheWatchdog(i)
    BY <2>4, <1>2 DEF DownChecksTheWatchdog
  <2>5. CASE DownTerminates(i)
    BY <2>5, <1>2 DEF DownTerminates
  <2>6. CASE DownKills(i)
    BY <2>6, <1>2 DEF DownKills
  <2> QED BY <1>2, <2>1, <2>2, <2>3, <2>4, <2>5, <2>6 DEF DownStep
<1>3. ASSUME NEW i \in Instances, UserStep(i) PROVE cmd'[k].port # cmd'[j].port
  <2>1. CASE StartsByHand(i)
    BY <2>1, <1>3 DEF StartsByHand, Begin
  <2>2. CASE FindsItStale(i)
    BY <2>2, <1>3 DEF FindsItStale, Begin
  <2>3. CASE UserWritesThePidFile(i)
    BY <2>3, <1>3 DEF UserWritesThePidFile
  <2> QED BY <1>3, <2>1, <2>2, <2>3 DEF UserStep
<1>4. ASSUME NEW p \in Pids, DaemonStep(p) PROVE cmd'[k].port # cmd'[j].port
  <2>1. CASE ProxyLooksAround(p)
    BY <2>1, <1>4 DEF ProxyLooksAround
  <2>2. CASE ProxyRecordsItself(p)
    BY <2>2, <1>4 DEF ProxyRecordsItself
  <2>3. CASE ProxyWritesItsPid(p)
    BY <2>3, <1>4 DEF ProxyWritesItsPid
  <2>4. CASE ProxyBinds(p)
    BY <2>4, <1>4 DEF ProxyBinds
  <2>5. CASE ProxyLeaves(p)
    BY <2>5, <1>4 DEF ProxyLeaves
  <2>6. CASE WatchdogLeaves(p)
    BY <2>6, <1>4 DEF WatchdogLeaves
  <2> QED BY <1>4, <2>1, <2>2, <2>3, <2>4, <2>5, <2>6 DEF DaemonStep
<1>5. ASSUME NEW p \in Pids, OtherStarts(p) PROVE cmd'[k].port # cmd'[j].port
  BY <1>5 DEF OtherStarts
<1>6. ASSUME NEW port \in Ports, ForeignPort(port) PROVE cmd'[k].port # cmd'[j].port
  BY <1>6 DEF ForeignPort
<1>7. ASSUME Reboot PROVE cmd'[k].port # cmd'[j].port
  BY <1>7 DEF Reboot
<1>8. CASE UNCHANGED vars
  BY <1>8 DEF vars
<1> QED BY <1>1, <1>2, <1>3, <1>4, <1>5, <1>6, <1>7, <1>8 DEF Next

LEMMA InitInv == Init => Inv
<1> SUFFICES ASSUME Init PROVE Inv
  OBVIOUS
<1>1. Typed
  BY InitTypes
<1>2. \A i \in Instances : cmd[i] = Idle /\ down[i] = NoDown
  BY DEF Init
<1>3. \A p \in Pids : ~IsProxy(p)
  BY DEF Init, IsProxy, NoProc
<1> QED
  BY <1>1, <1>2, <1>3 DEF Inv, ClaimsUnderTheLock, NoProxyBesideTunnels, OneTunnelPerPort,
       DownIsAlone,
     ItsPortIsClaimed, Claims, StartsInItsCommand, Starting, OnlyItsProxy, UpsChooseApart, HoldsAPort,
     Idle, NoDown

LEMMA StepInv == Inv /\ [Next]_vars => Inv'
<1> SUFFICES ASSUME Inv, [Next]_vars PROVE Inv'
  OBVIOUS
<1>1. StartsInItsCommand' /\ OnlyItsProxy'
  <2>1. CASE OldProxies
    BY <2>1, StartsKept, OnlyKept DEF Inv
  <2>2. CASE \E k \in Instances : StartProxy(k)
    BY <2>2, StartKeeps DEF Inv
  <2> QED BY <2>1, <2>2, ProxiesAreOld DEF ProxiesMove, Inv
<1> QED BY <1>1, StepTypes, LocksKept, NoProxyKept, TunnelsKept, DownsKept, ClaimsKept, ApartKept
     DEF Inv

\* An instance's own proxy or tunnel is all that answers on the port of its
\* command when it is about to say READY.
LEMMA ItsOwnAnswers == Inv => ReadyIsItsOwn
<1> SUFFICES ASSUME Inv, NEW i \in Instances, cmd[i].pc = "watch", ~crossed,
                    NEW j \in Answers(cmd[i].port)
             PROVE  j = i
  BY DEF ReadyIsItsOwn
<1> USE DEF Inv
<1>1. cmd[i].port # 0
  BY DEF Typed, PortsChosen, Chosen
<1>2. ASSUME NEW p \in Pids, IsProxy(p), procs[p].port = cmd[i].port PROVE procs[p].of = i
  BY <1>2 DEF OnlyItsProxy, OnItsPort
<1>3. ASSUME j \in Instances, cmd[j].tunnel = cmd[i].port PROVE j = i
  <2>1. ~tokenized
    BY <1>1, <1>3 DEF OneTunnelPerPort
  <2>2. cmd[i].tunnel = cmd[i].port
    BY <2>1 DEF OneTunnelPerPort
  <2> QED BY <1>1, <1>3, <2>2 DEF OneTunnelPerPort
<1> QED BY <1>2, <1>3 DEF Answers, IsBound

\* For any number of instances, ports, processes and commands: while no
\* `down` has met a command of its own instance, what answers on the port that
\* `up` or a restart reports is its own proxy or tunnel (_start_proxy and
\* _wait_for_api take whoever listens for the process they have started).
THEOREM ReadyAnswersItself == Spec => []ReadyIsItsOwn
<1>1. Spec => []Inv
  BY InitInv, StepInv, PTL DEF Spec
<1> QED BY <1>1, ItsOwnAnswers, PTL

\* And two runs of `up` never hold the same local port: the allocation lock
\* covers the choice, the state file the time from there to the endpoint.
THEOREM PortsAreApart == Spec => []UpsChooseApart
<1>1. Inv => UpsChooseApart
  BY DEF Inv
<1> QED BY <1>1, InitInv, StepInv, PTL DEF Spec

-----------------------------------------------------------------------------
(* Signals.  A pid belongs to an instance if it has been given out in this  *)
(* boot and what runs under it, if anything, is a daemon of the instance.   *)

OwnPids(i) ==
    {NoPid} \cup {p \in used : procs[p] # NoProc =>
                        procs[p].kind \in {"proxy", "watchdog"} /\ procs[p].of = i}

\* As long as the host has not been rebooted, every pid that a command may
\* signal as its proxy's belongs to its instance; what stop_daemon has checked
\* does so in any case, for no pid is given out twice in a boot.
RecordsAreOwn ==
    /\ reboots \in Nat
    /\ reboots = 0 => \A i \in Instances :
          {state[i].pid, pidFile[i], cmd[i].pid, cmd[i].child, down[i].copy.pid} \subseteq OwnPids(i)

VictimsAreOwn ==
    \A i \in Instances : down[i].pc \in {"terminate", "kill"} => down[i].victim \in OwnPids(i)

SignalInv == Typed /\ RecordsAreOwn /\ VictimsAreOwn

\* Between two boots a process ends or stays what it is, whosever it is.
ProcsStay ==
    /\ used \subseteq used'
    /\ \A p \in used : procs'[p] # NoProc =>
          /\ procs[p] # NoProc /\ procs'[p].kind = procs[p].kind
          /\ procs[p].kind \in {"proxy", "watchdog"} => procs'[p].of = procs[p].of

LEMMA KillStays ==
    ASSUME Typed, NEW p, Kill(p), UNCHANGED used
    PROVE  ProcsStay
  BY DEF Typed, ProcsTyped, Kill, ProcsStay

LEMMA SpawnStays ==
    ASSUME Typed, NEW p, NEW proc, Spawn(p, proc)
    PROVE  ProcsStay
  BY DEF Typed, ProcsTyped, Spawn, ProcsStay

LEMMA SameStays ==
    ASSUME UNCHANGED <<procs, used>>
    PROVE  ProcsStay
  BY DEF ProcsStay

LEMMA SpawnOwns ==
    ASSUME Typed, NEW i, NEW p, NEW proc, Spawn(p, proc), proc.kind \in {"proxy", "watchdog"}, proc.of = i
    PROVE  p \in OwnPids(i)'
  BY DEF Typed, ProcsTyped, Spawn, OwnPids

LEMMA StayOwns == ASSUME ProcsStay, NEW i PROVE OwnPids(i) \subseteq OwnPids(i)'
  BY DEF ProcsStay, OwnPids

LEMMA ProcessesStay == Typed /\ [Next]_vars => Reboot \/ (ProcsStay /\ UNCHANGED reboots)
<1> DEFINE Stays == ProcsStay /\ UNCHANGED reboots
<1> SUFFICES ASSUME Typed, [Next]_vars, ~Reboot PROVE Stays
  OBVIOUS
<1> USE InstancesAssumption DEF bounds
<1>1. ASSUME NEW i \in Instances, CommandStep(i) PROVE Stays
  <2>1. CASE UpBegins(i)
    BY <2>1, <1>1, SameStays DEF UpBegins, Begin
  <2>2. CASE UpCreates(i)
    BY <2>2, <1>1, SameStays DEF UpCreates
  <2>3. CASE \E wanted \in Port0 : UpResolves(i, wanted)
    BY <2>3, <1>1, SameStays DEF UpResolves
  <2>4. CASE \E wanted \in Port0 : RestartResolves(i, wanted)
    BY <2>4, <1>1, SameStays DEF RestartResolves
  <2>5. CASE RestartBegins(i)
    BY <2>5, <1>1, SameStays DEF RestartBegins, Begin
  <2>6. CASE RestartSaves(i)
    BY <2>6, <1>1, SameStays DEF RestartSaves
  <2>7. CASE RestartStarts(i)
    BY <2>7, <1>1, SameStays DEF RestartStarts
  <2>8. CASE StopStaleProxy(i)
    BY <2>8, <1>1, KillStays DEF StopStaleProxy
  <2>9. CASE StartProxy(i)
    BY <2>9, <1>1, SpawnStays DEF StartProxy
  <2>10. CASE SkipProxy(i)
    BY <2>10, <1>1, SameStays DEF SkipProxy
  <2>11. CASE SeesTheProxy(i)
    BY <2>11, <1>1, SameStays DEF SeesTheProxy
  <2>12. CASE SeesNoProxy(i)
    BY <2>12, <1>1, SameStays DEF SeesNoProxy
  <2>13. CASE OpenTunnel(i)
    BY <2>13, <1>1, SameStays DEF OpenTunnel
  <2>14. CASE RecordTunnel(i)
    BY <2>14, <1>1, SameStays DEF RecordTunnel
  <2>15. CASE ApiAnswers(i)
    BY <2>15, <1>1, SameStays DEF ApiAnswers
  <2>16. CASE ApiTimesOut(i)
    BY <2>16, <1>1, SameStays DEF ApiTimesOut
  <2>17. CASE CleanupDestroys(i)
    BY <2>17, <1>1, SameStays DEF CleanupDestroys
  <2>18. CASE CleanupReleases(i)
    BY <2>18, <1>1, KillStays DEF CleanupReleases
  <2>19. CASE FindsAWatchdog(i)
    BY <2>19, <1>1, SameStays DEF FindsAWatchdog
  <2>20. CASE StartsAWatchdog(i)
    BY <2>20, <1>1, SpawnStays DEF StartsAWatchdog
  <2>21. CASE WritesItsPid(i)
    BY <2>21, <1>1, SameStays DEF WritesItsPid
  <2> QED BY <1>1, <2>1, <2>2, <2>3, <2>4, <2>5, <2>6, <2>7, <2>8, <2>9, <2>10, <2>11, <2>12, <2>13,
       <2>14, <2>15, <2>16, <2>17, <2>18, <2>19, <2>20, <2>21 DEF CommandStep
<1>2. ASSUME NEW i \in Instances, DownStep(i) PROVE Stays
  <2>1. CASE DownBegins(i)
    BY <2>1, <1>2, SameStays DEF DownBegins, Begin
  <2>2. CASE DownStopsTheProxy(i)
    BY <2>2, <1>2, KillStays DEF DownStopsTheProxy
  <2>3. CASE DownStopsTheMachine(i)
    BY <2>3, <1>2, SameStays DEF DownStopsTheMachine
  <2>4. CASE DownChecksTheWatchdog(i)
    BY <2>4, <1>2, SameStays DEF DownChecksTheWatchdog
  <2>5. CASE DownTerminates(i)
    BY <2>5, <1>2, KillStays, SameStays DEF DownTerminates
  <2>6. CASE DownKills(i)
    BY <2>6, <1>2, KillStays DEF DownKills
  <2> QED BY <1>2, <2>1, <2>2, <2>3, <2>4, <2>5, <2>6 DEF DownStep
<1>3. ASSUME NEW i \in Instances, UserStep(i) PROVE Stays
  <2>1. CASE StartsByHand(i)
    BY <2>1, <1>3, SpawnStays DEF StartsByHand, Begin
  <2>2. CASE FindsItStale(i)
    BY <2>2, <1>3, SameStays DEF FindsItStale, Begin
  <2>3. CASE UserWritesThePidFile(i)
    BY <2>3, <1>3, SameStays DEF UserWritesThePidFile
  <2> QED BY <1>3, <2>1, <2>2, <2>3 DEF UserStep
<1>4. ASSUME NEW p \in Pids, DaemonStep(p) PROVE Stays
  <2>1. CASE ProxyLooksAround(p)
    BY <2>1, <1>4, ProxyTypes DEF ProxyLooksAround, ProcsStay, Typed, ProcsTyped, IsProxy, Proxy,
         NoProc
  <2>2. CASE ProxyRecordsItself(p)
    BY <2>2, <1>4, ProxyTypes DEF ProxyRecordsItself, ProcsStay, Typed, ProcsTyped, IsProxy, Proxy,
         NoProc
  <2>3. CASE ProxyWritesItsPid(p)
    BY <2>3, <1>4, ProxyTypes DEF ProxyWritesItsPid, ProcsStay, Typed, ProcsTyped, IsProxy, Proxy,
         NoProc
  <2>4. CASE ProxyBinds(p)
    BY <2>4, <1>4, ProxyTypes DEF ProxyBinds, ProcsStay, Typed, ProcsTyped, IsProxy, Proxy, NoProc
  <2>5. CASE ProxyLeaves(p)
    BY <2>5, <1>4, ProxyTypes DEF ProxyLeaves, ProcsStay, Typed, ProcsTyped, IsProxy, Proxy, NoProc
  <2>6. CASE WatchdogLeaves(p)
    BY <2>6, <1>4, ProxyTypes DEF WatchdogLeaves, ProcsStay, Typed, ProcsTyped, IsProxy, Proxy,
         NoProc
  <2> QED BY <1>4, <2>1, <2>2, <2>3, <2>4, <2>5, <2>6 DEF DaemonStep
<1>5. ASSUME NEW p \in Pids, OtherStarts(p) PROVE Stays
  BY <1>5, SpawnStays DEF OtherStarts
<1>6. ASSUME NEW port \in Ports, ForeignPort(port) PROVE Stays
  BY <1>6, SameStays DEF ForeignPort
<1>7. CASE UNCHANGED vars
  BY <1>7, SameStays DEF vars
<1> QED BY <1>1, <1>2, <1>3, <1>4, <1>5, <1>6, <1>7 DEF Next

\* What a command signals as the proxy comes from what was on record before.
LEMMA RecordsStay ==
    ASSUME Typed, [Next]_vars, ~Reboot, ProcsStay, NEW k \in Instances,
           {state[k].pid, pidFile[k], cmd[k].pid, cmd[k].child, down[k].copy.pid} \subseteq OwnPids(k)
    PROVE  {state[k].pid, pidFile[k], cmd[k].pid, cmd[k].child, down[k].copy.pid}' \subseteq OwnPids(k)'
<1>a. PICK T : T = [j \in Instances |-> OwnPids(j)']
  OBVIOUS
<1>b. /\ state[k].pid \in T[k] /\ pidFile[k] \in T[k] /\ cmd[k].pid \in T[k] /\ cmd[k].child \in T[k]
      /\ down[k].copy.pid \in T[k] /\ NoPid \in T[k]
  BY <1>a, StayOwns DEF OwnPids
<1>c. ASSUME NEW j \in Instances, NEW p, NEW proc, Spawn(p, proc), proc.kind \in {"proxy", "watchdog"},
             proc.of = j
      PROVE  p \in T[j]
  BY <1>a, <1>c, SpawnOwns
<1>d. ASSUME NEW p \in Pids, IsProxy(p), IsProxy(p)', procs'[p].of = procs[p].of
      PROVE  procs[p].of \in Instances /\ p \in T[procs[p].of]
  BY <1>a, <1>d, ProxyTypes DEF OwnPids, Typed, ProcsTyped, IsProxy, NoProc, ProcsStay
<1> DEFINE Kept == /\ state'[k].pid \in T[k] /\ pidFile'[k] \in T[k] /\ cmd'[k].pid \in T[k]
                   /\ cmd'[k].child \in T[k] /\ down'[k].copy.pid \in T[k]
<1> SUFFICES Kept
  BY <1>a
<1> USE <1>b, InstancesAssumption DEF Typed, Commands, Records, Downs, Idle, NoDown, NoState, files, bounds
<1>1. ASSUME NEW i \in Instances, CommandStep(i) PROVE Kept
  <2>1. CASE UpBegins(i)
    BY <2>1, <1>1 DEF UpBegins, Begin
  <2>2. CASE UpCreates(i)
    <3>1. CASE cmd' = [cmd EXCEPT ![i] = Idle] /\ UNCHANGED state
      BY <2>2, <1>1, <3>1 DEF UpCreates
    <3>2. CASE /\ cmd' = [cmd EXCEPT ![i] = [@ EXCEPT !.pc = "endpoint", !.pid = state[i].pid]]
               /\ state' = [state EXCEPT ![i] = [@ EXCEPT !.id = TRUE, !.port = cmd[i].port]]
      BY <2>2, <1>1, <3>2 DEF UpCreates
    <3> QED BY <2>2, <1>1, <3>1, <3>2 DEF UpCreates, Ends
  <2>3. CASE \E wanted \in Port0 : UpResolves(i, wanted)
    <3>1. PICK wanted \in Port0 : UpResolves(i, wanted)
      BY <2>3, <1>1
    <3>2. CASE cmd' = [cmd EXCEPT ![i] = Idle]
      BY <3>1, <3>2 DEF UpResolves
    <3>3. ASSUME NEW port \in Ports, cmd' = [cmd EXCEPT ![i] = [@ EXCEPT !.pc = "create", !.port = port]]
          PROVE  Kept
      BY <3>1, <3>3 DEF UpResolves
    <3> QED BY <3>1, <3>2, <3>3, UpChooses
  <2>4. CASE \E wanted \in Port0 : RestartResolves(i, wanted)
    <3>1. PICK wanted \in Port0 : RestartResolves(i, wanted)
      BY <2>4, <1>1
    <3>2. CASE cmd' = [cmd EXCEPT ![i] = Idle]
      BY <3>1, <3>2 DEF RestartResolves
    <3>3. CASE cmd' = [cmd EXCEPT ![i].pc = "start"]
      BY <3>1, <3>3 DEF RestartResolves
    <3>4. ASSUME NEW port \in Ports, cmd' = [cmd EXCEPT ![i] = [@ EXCEPT !.port = port, !.pc = "save"]]
          PROVE  Kept
      BY <3>1, <3>4 DEF RestartResolves
    <3> QED BY <3>1, <3>2, <3>3, <3>4, RestartChooses
  <2>5. CASE RestartBegins(i)
    BY <2>5, <1>1 DEF RestartBegins, Begin
  <2>6. CASE RestartSaves(i)
    BY <2>6, <1>1 DEF RestartSaves, Goto
  <2>7. CASE RestartStarts(i)
    <3>1. CASE cmd' = [cmd EXCEPT ![i] = Idle]
      BY <2>7, <1>1, <3>1 DEF RestartStarts
    <3>2. CASE cmd' = [cmd EXCEPT ![i].pc = "endpoint"]
      BY <2>7, <1>1, <3>2 DEF RestartStarts
    <3> QED BY <2>7, <1>1, <3>1, <3>2 DEF RestartStarts, Ends, Goto
  <2>8. CASE StopStaleProxy(i)
    BY <2>8, <1>1 DEF StopStaleProxy
  <2>9. CASE StartProxy(i)
    <3>1. PICK p \in Pids : /\ Spawn(p, Proxy(i, cmd[i].port, "spawned"))
                            /\ cmd' = [cmd EXCEPT ![i] = [@ EXCEPT !.pc = "wait", !.child = p]]
      BY <2>9, <1>1 DEF StartProxy
    <3>2. p \in T[i]
      BY <1>1, <1>c, <3>1 DEF Proxy
    <3>3. cmd'[k].pid = cmd[k].pid /\ (cmd'[k].child = cmd[k].child \/ (k = i /\ cmd'[k].child = p))
      BY <1>1, <3>1
    <3>4. cmd'[k].child \in T[k]
      BY <3>2, <3>3
    <3> QED BY <2>9, <1>1, <3>3, <3>4 DEF StartProxy
  <2>10. CASE SkipProxy(i)
    BY <2>10, <1>1 DEF SkipProxy, Goto, Fails
  <2>11. CASE SeesTheProxy(i)
    BY <2>11, <1>1 DEF SeesTheProxy
  <2>12. CASE SeesNoProxy(i)
    BY <2>12, <1>1 DEF SeesNoProxy, Goto, Fails
  <2>13. CASE OpenTunnel(i)
    <3>1. ASSUME NEW at \in {"cleanup", "idle"}, cmd' = [cmd EXCEPT ![i].pc = at] PROVE Kept
      BY <2>13, <1>1, <3>1 DEF OpenTunnel
    <3>2. ASSUME NEW port \in Ports,
                 cmd' = [cmd EXCEPT ![i] = [@ EXCEPT !.pc = "recordTunnel", !.port = port, !.tunnel = port]]
          PROVE  Kept
      BY <2>13, <1>1, <3>2 DEF OpenTunnel
    <3> QED BY <2>13, <1>1, <3>1, <3>2, TunnelChooses
  <2>14. CASE RecordTunnel(i)
    BY <2>14, <1>1 DEF RecordTunnel, Goto
  <2>15. CASE ApiAnswers(i)
    BY <2>15, <1>1 DEF ApiAnswers, Goto
  <2>16. CASE ApiTimesOut(i)
    BY <2>16, <1>1 DEF ApiTimesOut
  <2>17. CASE CleanupDestroys(i)
    BY <2>17, <1>1 DEF CleanupDestroys, Goto
  <2>18. CASE CleanupReleases(i)
    BY <2>18, <1>1 DEF CleanupReleases, Ends
  <2>19. CASE FindsAWatchdog(i)
    BY <2>19, <1>1 DEF FindsAWatchdog, Ends
  <2>20. CASE StartsAWatchdog(i)
    <3>1. PICK p \in Pids : /\ Spawn(p, Watchdog(i))
                            /\ cmd' = [cmd EXCEPT ![i] = [@ EXCEPT !.pc = "pidFile", !.child = p]]
      BY <2>20, <1>1 DEF StartsAWatchdog
    <3>2. p \in T[i]
      BY <1>1, <1>c, <3>1 DEF Watchdog
    <3>3. cmd'[k].pid = cmd[k].pid /\ (cmd'[k].child = cmd[k].child \/ (k = i /\ cmd'[k].child = p))
      BY <1>1, <3>1
    <3>4. cmd'[k].child \in T[k]
      BY <3>2, <3>3
    <3> QED BY <2>20, <1>1, <3>3, <3>4 DEF StartsAWatchdog
  <2>21. CASE WritesItsPid(i)
    BY <2>21, <1>1 DEF WritesItsPid, Ends
  <2> QED BY <1>1, <2>1, <2>2, <2>3, <2>4, <2>5, <2>6, <2>7, <2>8, <2>9, <2>10, <2>11, <2>12, <2>13,
       <2>14, <2>15, <2>16, <2>17, <2>18, <2>19, <2>20, <2>21 DEF CommandStep
<1>2. ASSUME NEW i \in Instances, DownStep(i) PROVE Kept
  <2>1. CASE DownBegins(i)
    BY <2>1, <1>2 DEF DownBegins, Begin
  <2>2. CASE DownStopsTheProxy(i)
    BY <2>2, <1>2 DEF DownStopsTheProxy
  <2>3. CASE DownStopsTheMachine(i)
    BY <2>3, <1>2 DEF DownStopsTheMachine
  <2>4. CASE DownChecksTheWatchdog(i)
    <3>1. CASE down' = [down EXCEPT ![i].pc = "terminate", ![i].victim = watchFile[i]]
      BY <2>4, <1>2, <3>1 DEF DownChecksTheWatchdog
    <3>2. CASE down' = [down EXCEPT ![i] = NoDown]
      BY <2>4, <1>2, <3>2 DEF DownChecksTheWatchdog
    <3> QED BY <2>4, <3>1, <3>2 DEF DownChecksTheWatchdog
  <2>5. CASE DownTerminates(i)
    <3>1. CASE down' = [down EXCEPT ![i].pc = "kill"]
      BY <2>5, <1>2, <3>1 DEF DownTerminates
    <3>2. CASE down' = [down EXCEPT ![i] = NoDown]
      BY <2>5, <1>2, <3>2 DEF DownTerminates
    <3> QED BY <2>5, <3>1, <3>2 DEF DownTerminates
  <2>6. CASE DownKills(i)
    BY <2>6, <1>2 DEF DownKills
  <2> QED BY <1>2, <2>1, <2>2, <2>3, <2>4, <2>5, <2>6 DEF DownStep
<1>3. ASSUME NEW i \in Instances, UserStep(i) PROVE Kept
  <2>1. CASE StartsByHand(i)
    BY <2>1, <1>3 DEF StartsByHand, Begin
  <2>2. CASE FindsItStale(i)
    BY <2>2, <1>3 DEF FindsItStale, Begin
  <2>3. CASE UserWritesThePidFile(i)
    BY <2>3, <1>3 DEF UserWritesThePidFile
  <2> QED BY <1>3, <2>1, <2>2, <2>3 DEF UserStep
<1>4. ASSUME NEW p \in Pids, DaemonStep(p) PROVE Kept
  <2>1. CASE ProxyLooksAround(p)
    BY <2>1, <1>4 DEF ProxyLooksAround
  <2>2. CASE ProxyRecordsItself(p)
    BY <2>2, <1>4, <1>d, ProxyTypes DEF ProxyRecordsItself, IsProxy
  <2>3. CASE ProxyWritesItsPid(p)
    BY <2>3, <1>4, <1>d, ProxyTypes DEF ProxyWritesItsPid, IsProxy
  <2>4. CASE ProxyBinds(p)
    BY <2>4, <1>4 DEF ProxyBinds
  <2>5. CASE ProxyLeaves(p)
    BY <2>5, <1>4 DEF ProxyLeaves
  <2>6. CASE WatchdogLeaves(p)
    BY <2>6, <1>4 DEF WatchdogLeaves
  <2> QED BY <1>4, <2>1, <2>2, <2>3, <2>4, <2>5, <2>6 DEF DaemonStep
<1>5. ASSUME NEW p \in Pids, OtherStarts(p) PROVE Kept
  BY <1>5 DEF OtherStarts
<1>6. ASSUME NEW port \in Ports, ForeignPort(port) PROVE Kept
  BY <1>6 DEF ForeignPort
<1>7. CASE UNCHANGED vars
  BY <1>7 DEF vars
<1> QED BY <1>1, <1>2, <1>3, <1>4, <1>5, <1>6, <1>7 DEF Next

\* The pids on record belong to the instance, step by step.
LEMMA RecordsKept == SignalInv /\ [Next]_vars => RecordsAreOwn'
<1> SUFFICES ASSUME SignalInv, [Next]_vars PROVE RecordsAreOwn'
  OBVIOUS
<1>a. ASSUME Reboot PROVE RecordsAreOwn'
  BY <1>a DEF SignalInv, RecordsAreOwn, Reboot
<1>b. CASE ~Reboot
  <2>0. reboots' = reboots /\ ProcsStay /\ reboots \in Nat
    BY <1>b, ProcessesStay DEF SignalInv, RecordsAreOwn
  <2>1. ASSUME NEW i \in Instances, reboots = 0
        PROVE  {state[i].pid, pidFile[i], cmd[i].pid, cmd[i].child, down[i].copy.pid}' \subseteq OwnPids(i)'
    BY <1>b, <2>0, <2>1, RecordsStay DEF SignalInv, RecordsAreOwn
  <2> QED BY <2>0, <2>1 DEF RecordsAreOwn
<1> QED BY <1>a, <1>b

\* What stop_daemon goes on to signal is what it has checked, or free.
LEMMA VictimsKept == SignalInv /\ [Next]_vars => VictimsAreOwn'
<1> SUFFICES ASSUME Typed, VictimsAreOwn, [Next]_vars, NEW k \in Instances,
                    down'[k].pc \in {"terminate", "kill"}
             PROVE  down'[k].victim \in OwnPids(k)'
  BY DEF SignalInv, VictimsAreOwn
<1>a. ~Reboot /\ ProcsStay
  BY ProcessesStay DEF Reboot, NoDown
<1>b. ASSUME NEW p \in Pids, Alive(p), procs[p] = Watchdog(k) PROVE p \in OwnPids(k)
  BY <1>b DEF Alive, OwnPids, Typed, ProcsTyped, Watchdog
<1> DEFINE Same == /\ down'[k].victim \in OwnPids(k)
<1> SUFFICES Same
  BY <1>a, StayOwns
<1>c. down[k].pc \in {"terminate", "kill"} => down[k].victim \in OwnPids(k)
  BY DEF VictimsAreOwn
<1> USE <1>c, InstancesAssumption DEF Typed, Downs, NoDown, files, bounds
<1>1. ASSUME NEW i \in Instances, CommandStep(i) PROVE Same
  <2>1. CASE UpBegins(i)
    BY <2>1, <1>1 DEF UpBegins, Begin
  <2>2. CASE UpCreates(i)
    BY <2>2, <1>1 DEF UpCreates
  <2>3. CASE \E wanted \in Port0 : UpResolves(i, wanted)
    BY <2>3, <1>1 DEF UpResolves
  <2>4. CASE \E wanted \in Port0 : RestartResolves(i, wanted)
    BY <2>4, <1>1 DEF RestartResolves
  <2>5. CASE RestartBegins(i)
    BY <2>5, <1>1 DEF RestartBegins, Begin
  <2>6. CASE RestartSaves(i)
    BY <2>6, <1>1 DEF RestartSaves
  <2>7. CASE RestartStarts(i)
    BY <2>7, <1>1 DEF RestartStarts
  <2>8. CASE StopStaleProxy(i)
    BY <2>8, <1>1 DEF StopStaleProxy
  <2>9. CASE StartProxy(i)
    BY <2>9, <1>1 DEF StartProxy
  <2>10. CASE SkipProxy(i)
    BY <2>10, <1>1 DEF SkipProxy
  <2>11. CASE SeesTheProxy(i)
    BY <2>11, <1>1 DEF SeesTheProxy
  <2>12. CASE SeesNoProxy(i)
    BY <2>12, <1>1 DEF SeesNoProxy
  <2>13. CASE OpenTunnel(i)
    BY <2>13, <1>1 DEF OpenTunnel
  <2>14. CASE RecordTunnel(i)
    BY <2>14, <1>1 DEF RecordTunnel
  <2>15. CASE ApiAnswers(i)
    BY <2>15, <1>1 DEF ApiAnswers
  <2>16. CASE ApiTimesOut(i)
    BY <2>16, <1>1 DEF ApiTimesOut
  <2>17. CASE CleanupDestroys(i)
    BY <2>17, <1>1 DEF CleanupDestroys
  <2>18. CASE CleanupReleases(i)
    BY <2>18, <1>1 DEF CleanupReleases
  <2>19. CASE FindsAWatchdog(i)
    BY <2>19, <1>1 DEF FindsAWatchdog
  <2>20. CASE StartsAWatchdog(i)
    BY <2>20, <1>1 DEF StartsAWatchdog
  <2>21. CASE WritesItsPid(i)
    BY <2>21, <1>1 DEF WritesItsPid
  <2> QED BY <1>1, <2>1, <2>2, <2>3, <2>4, <2>5, <2>6, <2>7, <2>8, <2>9, <2>10, <2>11, <2>12, <2>13,
       <2>14, <2>15, <2>16, <2>17, <2>18, <2>19, <2>20, <2>21 DEF CommandStep
<1>2. ASSUME NEW i \in Instances, DownStep(i) PROVE Same
  <2>1. CASE DownBegins(i)
    BY <2>1, <1>2 DEF DownBegins, Begin
  <2>2. CASE DownStopsTheProxy(i)
    BY <2>2, <1>2 DEF DownStopsTheProxy
  <2>3. CASE DownStopsTheMachine(i)
    BY <2>3, <1>2 DEF DownStopsTheMachine
  <2>4. CASE DownChecksTheWatchdog(i)
    <3>1. CASE DaemonRunning(i) /\ down' = [down EXCEPT ![i].pc = "terminate", ![i].victim = watchFile[i]]
      BY <1>2, <1>b, <3>1 DEF DaemonRunning, MatchesNeedles, Alive
    <3>2. CASE down' = [down EXCEPT ![i] = NoDown]
      BY <1>2, <3>2
    <3> QED BY <2>4, <3>1, <3>2 DEF DownChecksTheWatchdog
  <2>5. CASE DownTerminates(i)
    BY <2>5, <1>2 DEF DownTerminates
  <2>6. CASE DownKills(i)
    BY <2>6, <1>2 DEF DownKills
  <2> QED BY <1>2, <2>1, <2>2, <2>3, <2>4, <2>5, <2>6 DEF DownStep
<1>3. ASSUME NEW i \in Instances, UserStep(i) PROVE Same
  <2>1. CASE StartsByHand(i)
    BY <2>1, <1>3 DEF StartsByHand, Begin
  <2>2. CASE FindsItStale(i)
    BY <2>2, <1>3 DEF FindsItStale, Begin
  <2>3. CASE UserWritesThePidFile(i)
    BY <2>3, <1>3 DEF UserWritesThePidFile
  <2> QED BY <1>3, <2>1, <2>2, <2>3 DEF UserStep
<1>4. ASSUME NEW p \in Pids, DaemonStep(p) PROVE Same
  <2>1. CASE ProxyLooksAround(p)
    BY <2>1, <1>4 DEF ProxyLooksAround
  <2>2. CASE ProxyRecordsItself(p)
    BY <2>2, <1>4 DEF ProxyRecordsItself
  <2>3. CASE ProxyWritesItsPid(p)
    BY <2>3, <1>4 DEF ProxyWritesItsPid
  <2>4. CASE ProxyBinds(p)
    BY <2>4, <1>4 DEF ProxyBinds
  <2>5. CASE ProxyLeaves(p)
    BY <2>5, <1>4 DEF ProxyLeaves
  <2>6. CASE WatchdogLeaves(p)
    BY <2>6, <1>4 DEF WatchdogLeaves
  <2> QED BY <1>4, <2>1, <2>2, <2>3, <2>4, <2>5, <2>6 DEF DaemonStep
<1>5. ASSUME NEW p \in Pids, OtherStarts(p) PROVE Same
  BY <1>5 DEF OtherStarts
<1>6. ASSUME NEW port \in Ports, ForeignPort(port) PROVE Same
  BY <1>6 DEF ForeignPort
<1>7. CASE UNCHANGED vars
  BY <1>7 DEF vars
<1> QED BY <1>a, <1>1, <1>2, <1>3, <1>4, <1>5, <1>6, <1>7 DEF Next

LEMMA InitSignals == Init => SignalInv
<1> SUFFICES ASSUME Init PROVE SignalInv
  OBVIOUS
<1> QED BY InitTypes DEF Init, SignalInv, RecordsAreOwn, VictimsAreOwn, OwnPids, NoState, Idle, NoDown

LEMMA KillsOne ==
    ASSUME Typed, NEW p \in Pids, NEW q, Kill(q), Alive(p), ~Alive(p)'
    PROVE  p = q
  BY DEF Typed, ProcsTyped, Kill, Alive

\* Who is ended by a command's search for its proxy.
LEMMA EndsAProxy ==
    ASSUME SignalInv, NEW i \in Instances, NEW p \in Pids, NEW recorded,
           p = RunningProxyPid(i, recorded, NoPid), recorded \in {cmd[i].pid, down[i].copy.pid}
    PROVE  procs[p].kind = "proxy" /\ (procs[p].of = i \/ reboots > 0)
<1>1. IsProxy(p) /\ p \in {recorded, pidFile[i]}
  BY InstancesAssumption DEF RunningProxyPid
<1>2. CASE reboots = 0
  <2>1. p \in OwnPids(i)
    BY <1>1, <1>2 DEF SignalInv, RecordsAreOwn
  <2> QED BY <1>1, <2>1, InstancesAssumption DEF OwnPids, IsProxy, NoProc
<1> QED BY <1>1, <1>2 DEF IsProxy, SignalInv, RecordsAreOwn

\* For any number of instances, processes and reboots: no command and no
\* `down` of an instance ends a process of another one, or one that is not
\* hostai's; but for the proxy of a sibling that has, after a reboot, a pid of
\* this instance's records (running_proxy_pid, stop_daemon, _stop_proxy).
THEOREM OthersAreSpared == Spec => EndsOnlyItsOwn
<1> DEFINE Spared(p, i) == /\ procs[p].kind \in {"proxy", "watchdog"}
                           /\ procs[p].of = i \/ (procs[p].kind = "proxy" /\ reboots > 0)
<1>1. ASSUME SignalInv, NEW p \in Pids, Alive(p), ~Alive(p)', NEW i \in Instances, CommandStep(i)
      PROVE  Spared(p, i)
  <2> USE <1>1 DEF SignalInv
  <2>1. CASE UpBegins(i)
    BY <2>1, <1>1 DEF UpBegins, Alive
  <2>2. CASE UpCreates(i)
    BY <2>2, <1>1 DEF UpCreates, Alive
  <2>3. CASE \E wanted \in Port0 : UpResolves(i, wanted)
    BY <2>3, <1>1 DEF UpResolves, Alive
  <2>4. CASE \E wanted \in Port0 : RestartResolves(i, wanted)
    BY <2>4, <1>1 DEF RestartResolves, Alive
  <2>5. CASE RestartBegins(i)
    BY <2>5, <1>1 DEF RestartBegins, Alive
  <2>6. CASE RestartSaves(i)
    BY <2>6, <1>1 DEF RestartSaves, Alive
  <2>7. CASE RestartStarts(i)
    BY <2>7, <1>1 DEF RestartStarts, Alive
  <2>8. CASE StopStaleProxy(i)
    BY <2>8, <1>1, KillsOne, EndsAProxy DEF StopStaleProxy
  <2>9. CASE StartProxy(i)
    BY <2>9, <1>1 DEF StartProxy, Spawn, Typed, ProcsTyped, Alive, Proxy, Watchdog, NoProc
  <2>10. CASE SkipProxy(i)
    BY <2>10, <1>1 DEF SkipProxy, Alive
  <2>11. CASE SeesTheProxy(i)
    BY <2>11, <1>1 DEF SeesTheProxy, Alive
  <2>12. CASE SeesNoProxy(i)
    BY <2>12, <1>1 DEF SeesNoProxy, Alive
  <2>13. CASE OpenTunnel(i)
    BY <2>13, <1>1 DEF OpenTunnel, Alive
  <2>14. CASE RecordTunnel(i)
    BY <2>14, <1>1 DEF RecordTunnel, Alive
  <2>15. CASE ApiAnswers(i)
    BY <2>15, <1>1 DEF ApiAnswers, Alive
  <2>16. CASE ApiTimesOut(i)
    BY <2>16, <1>1 DEF ApiTimesOut, Alive
  <2>17. CASE CleanupDestroys(i)
    BY <2>17, <1>1 DEF CleanupDestroys, Alive
  <2>18. CASE CleanupReleases(i)
    BY <2>18, <1>1, KillsOne, EndsAProxy DEF CleanupReleases
  <2>19. CASE FindsAWatchdog(i)
    BY <2>19, <1>1 DEF FindsAWatchdog, Alive
  <2>20. CASE StartsAWatchdog(i)
    BY <2>20, <1>1 DEF StartsAWatchdog, Spawn, Typed, ProcsTyped, Alive, Proxy, Watchdog, NoProc
  <2>21. CASE WritesItsPid(i)
    BY <2>21, <1>1 DEF WritesItsPid, Alive
  <2> QED BY <1>1, <2>1, <2>2, <2>3, <2>4, <2>5, <2>6, <2>7, <2>8, <2>9, <2>10, <2>11, <2>12, <2>13,
       <2>14, <2>15, <2>16, <2>17, <2>18, <2>19, <2>20, <2>21 DEF CommandStep
<1>2. ASSUME SignalInv, NEW p \in Pids, Alive(p), ~Alive(p)', NEW i \in Instances, DownStep(i)
      PROVE  Spared(p, i)
  <2> USE <1>2 DEF SignalInv
  <2>1. CASE DownBegins(i)
    BY <2>1, <1>2 DEF DownBegins, Alive
  <2>2. CASE DownStopsTheProxy(i)
    BY <2>2, <1>2, KillsOne, EndsAProxy DEF DownStopsTheProxy
  <2>3. CASE DownStopsTheMachine(i)
    BY <2>3, <1>2 DEF DownStopsTheMachine, Alive
  <2>4. CASE DownChecksTheWatchdog(i)
    BY <2>4, <1>2 DEF DownChecksTheWatchdog, Alive
  <2>5. CASE DownTerminates(i)
    <3>1. p = down[i].victim /\ down[i].victim \in OwnPids(i)
      BY <2>5, <1>2, KillsOne DEF DownTerminates, VictimsAreOwn, Alive
    <3> QED BY <1>2, <3>1, InstancesAssumption DEF OwnPids, Alive
  <2>6. CASE DownKills(i)
    <3>1. p = down[i].victim /\ down[i].victim \in OwnPids(i)
      BY <2>6, <1>2, KillsOne DEF DownKills, VictimsAreOwn
    <3> QED BY <1>2, <3>1, InstancesAssumption DEF OwnPids, Alive
  <2> QED BY <1>2, <2>1, <2>2, <2>3, <2>4, <2>5, <2>6 DEF DownStep
<1>3. SignalInv /\ [Next]_vars => SignalInv'
  BY StepTypes, RecordsKept, VictimsKept DEF SignalInv
<1>4. SignalInv /\ [Next]_vars
      => [\A p \in Pids : Alive(p) /\ ~Alive(p)' =>
            \A i \in Instances : CommandStep(i) \/ DownStep(i) => Spared(p, i)]_vars
  BY <1>1, <1>2
<1> QED BY <1>3, <1>4, InitSignals, PTL DEF Spec, EndsOnlyItsOwn
=============================================================================
