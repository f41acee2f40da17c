----------------------------- MODULE Instances -----------------------------
(***************************************************************************)
(* Several deployments of one checkout side by side: which local port each *)
(* of them gets, which proxy and which watchdog process belongs to it, and *)
(* what the pid files say about that.  `up` and `up --restart` choose a    *)
(* port, start the endpoint and the watchdog; `down` stops them; the proxy *)
(* daemon records itself, binds, and leaves; the host may be rebooted, and *)
(* then gives the same pids to other processes.                            *)
(*                                                                         *)
(* One lifecycle command at a time runs per instance (lifecycle_lock);     *)
(* `down` takes no lock.  What happens to the machine meanwhile is the     *)
(* subject of Deployment: here it is alive or not.                         *)
(***************************************************************************)
EXTENDS Naturals, FiniteSets, FiniteSetsExt

CONSTANTS
    Instances,      \* the names given with --name
    Pids,           \* process ids of one boot
    NoPid,          \* no process id
    MaxPort,        \* the local ports are 1..MaxPort
    MaxCommands,    \* bound: commands begun
    MaxReboots      \* bound: reboots of the host

ASSUME InstancesAssumption ==
    /\ NoPid \notin Pids
    /\ MaxPort \in Nat \ {0}
    /\ MaxCommands \in Nat
    /\ MaxReboots \in Nat

VARIABLES
    tokenized,  \* [proxy].tokenized_only of the configuration
    state,      \* state.json of every instance
    pidFile,    \* proxy.pid of every instance
    watchFile,  \* watchdog.pid of every instance
    machine,    \* does the provider have a running machine for the instance?
    procs,      \* the process table
    used,       \* pids given out since the last boot
    foreign,    \* ports bound by processes that are not hostai's
    allocation, \* the holders of the allocation lock (none or one)
    cmd,        \* the lifecycle command that runs for each instance
    down,       \* the `down` that runs for each instance
    user,       \* `watchdog start` or `watchdog status`, typed by a user
    commands,   \* commands begun
    reboots,    \* reboots
    crossed     \* history: has a `down` met an `up` of its own instance?

files == <<state, pidFile, watchFile>>
bounds == <<commands, reboots, crossed>>
vars == <<tokenized, files, machine, procs, used, foreign, allocation, cmd, down, user, bounds>>

Ports == 1..MaxPort
Port0 == {0} \cup Ports
Pid0 == Pids \cup {NoPid}

NoState == [id |-> FALSE, port |-> 0, pid |-> NoPid]
NoProc == [kind |-> "none"]
Proxy(i, port, at) == [kind |-> "proxy", of |-> i, port |-> port, at |-> at]
Watchdog(i) == [kind |-> "watchdog", of |-> i]
Other == [kind |-> "other"]

Idle == [pc |-> "idle", kind |-> "up", port |-> 0, pid |-> NoPid, child |-> NoPid, tunnel |-> 0]
NoDown == [pc |-> "idle", pause |-> FALSE, copy |-> NoState, victim |-> NoPid]
NoUser == [pc |-> "idle", child |-> NoPid]

Init ==
    /\ tokenized \in BOOLEAN
    /\ state = [i \in Instances |-> NoState]
    /\ pidFile = [i \in Instances |-> NoPid]
    /\ watchFile = [i \in Instances |-> NoPid]
    /\ machine = [i \in Instances |-> FALSE]
    /\ procs = [p \in Pids |-> NoProc]
    /\ used = {}
    /\ foreign \in {{}, {1}}
    /\ allocation = {}
    /\ cmd = [i \in Instances |-> Idle]
    /\ down = [i \in Instances |-> NoDown]
    /\ user = [i \in Instances |-> NoUser]
    /\ commands = 0
    /\ reboots = 0
    /\ crossed = FALSE

-----------------------------------------------------------------------------
(* The process table, as the code sees it through /proc and through bind.  *)

IsProxy(p) == p \in Pids /\ procs[p].kind = "proxy"
IsBound(p) == IsProxy(p) /\ procs[p].at = "bound"
Starting(p) == IsProxy(p) /\ procs[p].at # "bound"
Alive(p) == p \in Pids /\ procs[p] # NoProc

\* Ports that cannot be bound: utils.port_is_free tries it.
Bound == foreign \cup {procs[p].port : p \in {q \in Pids : IsBound(q)}}
                 \cup {cmd[i].tunnel : i \in Instances}

\* Ports recorded in the state files of the other tracked instances.
Claimed(i) == {state[j].port : j \in {k \in Instances \ {i} : state[k].id}}

\* The first port from `start` on that is neither claimed nor bound; 0: none.
FindUnclaimedPort(i, start) ==
    LET free == {q \in Ports : q >= start} \ (Claimed(i) \cup Bound)
    IN  IF free = {} THEN 0 ELSE Min(free)

\* A port the user asked for must be free itself; any other is a wish.
ResolveClientPort(i, wanted, wish) ==
    IF wanted # 0 THEN IF wanted \in Claimed(i) \cup Bound THEN 0 ELSE wanted
                  ELSE FindUnclaimedPort(i, wish)

\* The pid of state.json first, then the one of proxy.pid, if such a process
\* is alive and its command line reads `hostai ... proxy`.
RunningProxyPid(i, recorded, self) ==
    IF recorded # self /\ IsProxy(recorded) THEN recorded
    ELSE IF pidFile[i] # self /\ IsProxy(pidFile[i]) THEN pidFile[i]
    ELSE NoPid

\* Mutant: the needles leave the name out, like those of the proxy.
MatchesNoName(p, i) == procs[p].kind = "watchdog"

\* The daemon's command line ends in --name <instance>: the needle of an
\* instance does not match the daemon of another one.
MatchesNeedles(p, i) == procs[p] = Watchdog(i)
DaemonRunning(i) == Alive(watchFile[i]) /\ MatchesNeedles(watchFile[i], i)

Spawn(p, proc) ==
    /\ p \in Pids \ used
    /\ used' = used \cup {p}
    /\ procs' = [procs EXCEPT ![p] = proc]

\* SIGTERM ends hostai's daemons at once: no handler, no cleanup.
Kill(p) == procs' = IF p \in Pids THEN [procs EXCEPT ![p] = NoProc] ELSE procs

Goto(i, pc) == cmd' = [cmd EXCEPT ![i].pc = pc]
Ends(i) == cmd' = [cmd EXCEPT ![i] = Idle]

Begin(crosses) ==
    /\ commands < MaxCommands
    /\ commands' = commands + 1
    /\ crossed' = (crossed \/ crosses)
    /\ UNCHANGED reboots

-----------------------------------------------------------------------------
(* `up`: the claim phase, under the allocation lock.                       *)

\* Mutant: the lock is not taken.
UpBeginsUnlocked(i) ==
    /\ Begin(down[i].pc # "idle")
    /\ cmd[i].pc = "idle"
    /\ ~(state[i].id /\ machine[i])
    /\ allocation' = {}
    /\ cmd' = [cmd EXCEPT ![i] = [Idle EXCEPT !.pc = "resolve"]]
    /\ UNCHANGED <<tokenized, files, machine, procs, used, foreign, down, user>>

\* allocation_lock, then _check_for_live_instance: refuses over a live machine.
UpBegins(i) ==
    /\ Begin(down[i].pc # "idle")
    /\ cmd[i].pc = "idle" /\ allocation = {}
    /\ ~(state[i].id /\ machine[i])
    /\ allocation' = {i}
    /\ cmd' = [cmd EXCEPT ![i] = [Idle EXCEPT !.pc = "resolve"]]
    /\ UNCHANGED <<tokenized, files, machine, procs, used, foreign, down, user>>

\* Mutant: a search that found nothing is not an error.
UpResolvesAnyway(i, wanted) ==
    /\ cmd[i].pc = "resolve" /\ cmd[i].kind = "up"
    /\ cmd' = [cmd EXCEPT ![i] = [@ EXCEPT !.pc = "create", !.port = ResolveClientPort(i, wanted, 1)]]
    /\ UNCHANGED <<tokenized, files, machine, procs, used, foreign, allocation, down, user, bounds>>

UpResolves(i, wanted) ==
    /\ cmd[i].pc = "resolve" /\ cmd[i].kind = "up"
    /\ LET port == ResolveClientPort(i, wanted, 1)
       IN  IF port = 0 THEN Ends(i) /\ allocation' = allocation \ {i}
                       ELSE /\ cmd' = [cmd EXCEPT ![i] = [@ EXCEPT !.pc = "create", !.port = port]]
                            /\ UNCHANGED allocation
    /\ UNCHANGED <<tokenized, files, machine, procs, used, foreign, down, user, bounds>>

\* _create_fresh_instance: rent, fill the state (a file that is still there
\* keeps its other fields), save, release the lock.
UpCreates(i) ==
    /\ cmd[i].pc = "create"
    /\ allocation' = allocation \ {i}
    /\ \/ /\ machine' = [machine EXCEPT ![i] = TRUE]
          /\ state' = [state EXCEPT ![i] = [@ EXCEPT !.id = TRUE, !.port = cmd[i].port]]
          /\ cmd' = [cmd EXCEPT ![i] = [@ EXCEPT !.pc = "endpoint", !.pid = state[i].pid]]
       \/ /\ Ends(i)
          /\ UNCHANGED <<machine, state>>
    /\ UNCHANGED <<tokenized, pidFile, watchFile, procs, used, foreign, down, user, bounds>>

-----------------------------------------------------------------------------
(* `up --restart`: no allocation lock.                                     *)

RestartBegins(i) ==
    /\ Begin(down[i].pc # "idle")
    /\ cmd[i].pc = "idle" /\ state[i].id
    /\ cmd' = [cmd EXCEPT ![i] = [Idle EXCEPT !.pc = "resolve", !.kind = "restart",
                                              !.port = state[i].port, !.pid = state[i].pid]]
    /\ UNCHANGED <<tokenized, files, machine, procs, used, foreign, allocation, down, user>>

RestartResolves(i, wanted) ==
    /\ cmd[i].pc = "resolve" /\ cmd[i].kind = "restart"
    /\ LET port == ResolveClientPort(i, wanted, cmd[i].port)
       IN  IF port = 0 THEN Ends(i)
           ELSE cmd' = [cmd EXCEPT ![i] =
                     [@ EXCEPT !.port = port, !.pc = IF port = cmd[i].port THEN "start" ELSE "save"]]
    /\ UNCHANGED <<tokenized, files, machine, procs, used, foreign, allocation, down, user, bounds>>

\* state.save() writes the whole copy.
RestartSaves(i) ==
    /\ cmd[i].pc = "save"
    /\ state' = [state EXCEPT ![i] = [id |-> TRUE, port |-> cmd[i].port, pid |-> cmd[i].pid]]
    /\ Goto(i, "start")
    /\ UNCHANGED <<tokenized, pidFile, watchFile, machine, procs, used, foreign, allocation, down, user, bounds>>

\* start_instance, or the machine runs already; a destroyed one cannot start.
RestartStarts(i) ==
    /\ cmd[i].pc = "start"
    /\ IF state[i].id THEN machine' = [machine EXCEPT ![i] = TRUE] /\ Goto(i, "endpoint")
                      ELSE Ends(i) /\ UNCHANGED machine
    /\ UNCHANGED <<tokenized, files, procs, used, foreign, allocation, down, user, bounds>>

-----------------------------------------------------------------------------
(* The client endpoint.                                                    *)

\* A failed `up` destroys its machine, stops the proxy and keeps the record;
\* a failed restart only says so.
Fails(i) == Goto(i, IF cmd[i].kind = "up" THEN "cleanup" ELSE "idle")

\* The port is held, and the process recorded for this state is taken for the
\* stale proxy that holds it.
StopStaleProxy(i) ==
    LET stale == RunningProxyPid(i, cmd[i].pid, NoPid)
    IN  /\ tokenized /\ cmd[i].pc = "endpoint"
        /\ cmd[i].port \notin Claimed(i) /\ cmd[i].port \in Bound
        /\ stale # NoPid
        /\ Kill(stale)
        /\ UNCHANGED <<tokenized, files, machine, used, foreign, allocation, cmd, down, user, bounds>>

\* Mutant: the claim of the command is trusted.
PortIsTrusted(i) == cmd[i].port \in Ports

\* _start_proxy: the claim is checked again, then the bind.
PortIsOurs(i) == cmd[i].port \notin Claimed(i)

StartProxy(i) ==
    /\ tokenized /\ cmd[i].pc = "endpoint"
    /\ PortIsOurs(i) /\ cmd[i].port \notin Bound
    /\ \E p \in Pids :
        /\ Spawn(p, Proxy(i, cmd[i].port, "spawned"))
        /\ cmd' = [cmd EXCEPT ![i] = [@ EXCEPT !.pc = "wait", !.child = p]]
    /\ UNCHANGED <<tokenized, files, machine, foreign, allocation, down, user, bounds>>

SkipProxy(i) ==
    /\ tokenized /\ cmd[i].pc = "endpoint"
    /\ ~PortIsOurs(i) \/ (cmd[i].port \in Bound /\ RunningProxyPid(i, cmd[i].pid, NoPid) = NoPid)
    /\ Fails(i)
    /\ UNCHANGED <<tokenized, files, machine, procs, used, foreign, allocation, down, user, bounds>>

\* Somebody listens on the port: taken for the proxy just started.
SeesTheProxy(i) ==
    /\ cmd[i].pc = "wait" /\ cmd[i].port \in Bound
    /\ state' = [state EXCEPT ![i] = [id |-> TRUE, port |-> cmd[i].port, pid |-> cmd[i].child]]
    /\ cmd' = [cmd EXCEPT ![i] = [@ EXCEPT !.pc = "api", !.pid = cmd[i].child]]
    /\ UNCHANGED <<tokenized, pidFile, watchFile, machine, procs, used, foreign, allocation, down, user, bounds>>

\* The daemon binds or ends long before the 120 seconds are over: the wait
\* fails only when it is gone.
SeesNoProxy(i) ==
    /\ cmd[i].pc = "wait" /\ cmd[i].port \notin Bound
    /\ ~IsProxy(cmd[i].child)
    /\ Fails(i)
    /\ UNCHANGED <<tokenized, files, machine, procs, used, foreign, allocation, down, user, bounds>>

\* Without tokenized_only: ensure_tunnel, a thread of the command itself.
OpenTunnel(i) ==
    LET port == IF cmd[i].port \in Claimed(i) \cup Bound
                THEN FindUnclaimedPort(i, cmd[i].port + 1) ELSE cmd[i].port
    IN  /\ ~tokenized /\ cmd[i].pc = "endpoint"
        /\ IF port = 0 THEN Fails(i)
           ELSE cmd' = [cmd EXCEPT ![i] = [@ EXCEPT !.pc = "recordTunnel", !.port = port, !.tunnel = port]]
        /\ UNCHANGED <<tokenized, files, machine, procs, used, foreign, allocation, down, user, bounds>>

RecordTunnel(i) ==
    /\ cmd[i].pc = "recordTunnel"
    /\ state' = [state EXCEPT ![i] = [id |-> TRUE, port |-> cmd[i].port, pid |-> cmd[i].pid]]
    /\ Goto(i, "api")
    /\ UNCHANGED <<tokenized, pidFile, watchFile, machine, procs, used, foreign, allocation, down, user, bounds>>

\* Whose machine answers on a port: the proxy's that is bound there, or the
\* one at the end of the tunnel.
Answers(port) ==
    {procs[p].of : p \in {q \in Pids : IsBound(q) /\ procs[q].port = port}}
        \cup {j \in Instances : cmd[j].tunnel = port}

ApiAnswers(i) ==
    /\ cmd[i].pc = "api"
    /\ \E j \in Answers(cmd[i].port) : machine[j]
    /\ Goto(i, "watch")
    /\ UNCHANGED <<tokenized, files, machine, procs, used, foreign, allocation, down, user, bounds>>

\* Not before the daemon has bound or ended: ten attempts, half a second
\* apart, against ssh.start_timeout.
ApiTimesOut(i) ==
    /\ cmd[i].pc = "api" /\ ~Starting(cmd[i].child)
    /\ cmd' = [cmd EXCEPT ![i] = IF @.kind = "up" THEN [@ EXCEPT !.pc = "cleanup"] ELSE Idle]
    /\ UNCHANGED <<tokenized, files, machine, procs, used, foreign, allocation, down, user, bounds>>

-----------------------------------------------------------------------------
(* _cleanup_instance: destroy, stop the proxy, save the copy.              *)

CleanupDestroys(i) ==
    /\ cmd[i].pc = "cleanup"
    /\ machine' = [machine EXCEPT ![i] = FALSE]
    /\ Goto(i, "release")
    /\ UNCHANGED <<tokenized, files, procs, used, foreign, allocation, down, user, bounds>>

CleanupReleases(i) ==
    /\ cmd[i].pc = "release"
    /\ Kill(RunningProxyPid(i, cmd[i].pid, NoPid))
    /\ pidFile' = [pidFile EXCEPT ![i] = NoPid]
    /\ state' = [state EXCEPT ![i] = [id |-> TRUE, port |-> cmd[i].port, pid |-> cmd[i].pid]]
    /\ Ends(i)
    /\ UNCHANGED <<tokenized, watchFile, machine, used, foreign, allocation, down, user, bounds>>

-----------------------------------------------------------------------------
(* maybe_start_watchdog: look, spawn, and only then write the pid file.    *)

FindsAWatchdog(i) ==
    /\ cmd[i].pc = "watch" /\ DaemonRunning(i)
    /\ Ends(i)
    /\ UNCHANGED <<tokenized, files, machine, procs, used, foreign, allocation, down, user, bounds>>

StartsAWatchdog(i) ==
    /\ cmd[i].pc = "watch" /\ ~DaemonRunning(i)
    /\ \E p \in Pids :
        /\ Spawn(p, Watchdog(i))
        /\ cmd' = [cmd EXCEPT ![i] = [@ EXCEPT !.pc = "pidFile", !.child = p]]
    /\ UNCHANGED <<tokenized, files, machine, foreign, allocation, down, user, bounds>>

WritesItsPid(i) ==
    /\ cmd[i].pc = "pidFile"
    /\ watchFile' = [watchFile EXCEPT ![i] = cmd[i].child]
    /\ Ends(i)
    /\ UNCHANGED <<tokenized, state, pidFile, machine, procs, used, foreign, allocation, down, user, bounds>>

-----------------------------------------------------------------------------
(* `down`, with or without --pause.                                        *)

DownBegins(i) ==
    /\ Begin(cmd[i].pc # "idle")
    /\ down[i].pc = "idle" /\ state[i].id
    /\ \E pause \in BOOLEAN :
        down' = [down EXCEPT ![i] = [NoDown EXCEPT !.pc = "proxy", !.pause = pause, !.copy = state[i]]]
    /\ UNCHANGED <<tokenized, files, machine, procs, used, foreign, allocation, cmd, user>>

\* _stop_proxy, then stop_tunnel, which saves the copy `down` has read.
DownStopsTheProxy(i) ==
    /\ down[i].pc = "proxy"
    /\ Kill(RunningProxyPid(i, down[i].copy.pid, NoPid))
    /\ pidFile' = [pidFile EXCEPT ![i] = NoPid]
    /\ state' = [state EXCEPT ![i] = down[i].copy]
    /\ down' = [down EXCEPT ![i].pc = "machine"]
    /\ UNCHANGED <<tokenized, watchFile, machine, used, foreign, allocation, cmd, user, bounds>>

\* Destroyed: state.json goes.  Paused: the copy is saved once more.
DownStopsTheMachine(i) ==
    /\ down[i].pc = "machine"
    /\ machine' = [machine EXCEPT ![i] = FALSE]
    /\ state' = [state EXCEPT ![i] = IF down[i].pause THEN down[i].copy ELSE NoState]
    /\ down' = [down EXCEPT ![i].pc = "watchdog"]
    /\ UNCHANGED <<tokenized, pidFile, watchFile, procs, used, foreign, allocation, cmd, user, bounds>>

\* stop_daemon: the recorded pid is asked for its command line, once; a pid
\* that is free or somebody else's only loses its file.
DownChecksTheWatchdog(i) ==
    /\ down[i].pc = "watchdog"
    /\ IF DaemonRunning(i)
       THEN /\ down' = [down EXCEPT ![i].pc = "terminate", ![i].victim = watchFile[i]]
            /\ UNCHANGED watchFile
       ELSE /\ down' = [down EXCEPT ![i] = NoDown]
            /\ watchFile' = [watchFile EXCEPT ![i] = NoPid]
    /\ UNCHANGED <<tokenized, state, pidFile, machine, procs, used, foreign, allocation, cmd, user, bounds>>

\* SIGTERM.  The process ends at once or lingers; one that has ended by itself
\* makes the signal fail, and then the pid file stays.
DownTerminates(i) ==
    /\ down[i].pc = "terminate"
    /\ IF Alive(down[i].victim)
       THEN /\ Kill(down[i].victim) \/ UNCHANGED procs
            /\ down' = [down EXCEPT ![i].pc = "kill"]
       ELSE /\ down' = [down EXCEPT ![i] = NoDown]
            /\ UNCHANGED procs
    /\ UNCHANGED <<tokenized, files, machine, used, foreign, allocation, cmd, user, bounds>>

\* Four seconds later: SIGKILL for whatever runs under the pid by then.
DownKills(i) ==
    /\ down[i].pc = "kill"
    /\ Kill(down[i].victim)
    /\ watchFile' = [watchFile EXCEPT ![i] = NoPid]
    /\ down' = [down EXCEPT ![i] = NoDown]
    /\ UNCHANGED <<tokenized, state, pidFile, machine, used, foreign, allocation, cmd, user, bounds>>

-----------------------------------------------------------------------------
(* `hostai watchdog start` and `status` beside all this, without any lock. *)

StartsByHand(i) ==
    /\ Begin(FALSE)
    /\ user[i].pc = "idle" /\ ~DaemonRunning(i)
    /\ \E p \in Pids :
        /\ Spawn(p, Watchdog(i))
        /\ user' = [user EXCEPT ![i] = [pc |-> "pidFile", child |-> p]]
    /\ UNCHANGED <<tokenized, files, machine, foreign, allocation, cmd, down>>

\* daemon_status_line finds the pid file stale, and removes it afterwards.
FindsItStale(i) ==
    /\ Begin(FALSE)
    /\ user[i].pc = "idle" /\ watchFile[i] # NoPid /\ ~DaemonRunning(i)
    /\ user' = [user EXCEPT ![i].pc = "stale"]
    /\ UNCHANGED <<tokenized, files, machine, procs, used, foreign, allocation, cmd, down>>

UserWritesThePidFile(i) ==
    /\ user[i].pc \in {"pidFile", "stale"}
    /\ watchFile' = [watchFile EXCEPT ![i] = user[i].child]
    /\ user' = [user EXCEPT ![i] = NoUser]
    /\ UNCHANGED <<tokenized, state, pidFile, machine, procs, used, foreign, allocation, cmd, down, bounds>>

-----------------------------------------------------------------------------
(* The daemons.                                                            *)

\* run_proxy refuses next to a running proxy of the same instance.
ProxyLooksAround(p) ==
    /\ IsProxy(p) /\ procs[p].at = "spawned"
    /\ LET i == procs[p].of
       IN  procs' = [procs EXCEPT ![p] = IF RunningProxyPid(i, state[i].pid, p) # NoPid
                                         THEN NoProc ELSE Proxy(i, @.port, "recording")]
    /\ UNCHANGED <<tokenized, files, machine, used, foreign, allocation, cmd, down, user, bounds>>

\* Reload, record proxy_pid, save; then run() writes proxy.pid.
ProxyRecordsItself(p) ==
    /\ IsProxy(p) /\ procs[p].at = "recording"
    /\ state' = [state EXCEPT ![procs[p].of].pid = p]
    /\ procs' = [procs EXCEPT ![p].at = "announcing"]
    /\ UNCHANGED <<tokenized, pidFile, watchFile, machine, used, foreign, allocation, cmd, down, user, bounds>>

ProxyWritesItsPid(p) ==
    /\ IsProxy(p) /\ procs[p].at = "announcing"
    /\ pidFile' = [pidFile EXCEPT ![procs[p].of] = p]
    /\ procs' = [procs EXCEPT ![p].at = "binding"]
    /\ UNCHANGED <<tokenized, state, watchFile, machine, used, foreign, allocation, cmd, down, user, bounds>>

\* Binds, reloads the state and saves its port in it.
ProxyBinds(p) ==
    /\ IsProxy(p) /\ procs[p].at = "binding" /\ procs[p].port \notin Bound
    /\ procs' = [procs EXCEPT ![p].at = "bound"]
    /\ state' = [state EXCEPT ![procs[p].of].port = procs[p].port]
    /\ UNCHANGED <<tokenized, pidFile, watchFile, machine, used, foreign, allocation, cmd, down, user, bounds>>

\* Ten attempts to bind fail, the tunnel or the bootstrap fails, or the
\* supervisor confirms that the machine is gone: the finally of run() removes
\* proxy.pid, whosever pid it holds.
ProxyLeaves(p) ==
    /\ IsProxy(p) /\ procs[p].at \in {"binding", "bound"}
    /\ procs' = [procs EXCEPT ![p] = NoProc]
    /\ pidFile' = [pidFile EXCEPT ![procs[p].of] = NoPid]
    /\ UNCHANGED <<tokenized, state, watchFile, machine, used, foreign, allocation, cmd, down, user, bounds>>

\* run_watchdog: the state is cleared.  The pid file stays.
WatchdogLeaves(p) ==
    /\ Alive(p) /\ procs[p].kind = "watchdog" /\ ~state[procs[p].of].id
    /\ procs' = [procs EXCEPT ![p] = NoProc]
    /\ UNCHANGED <<tokenized, files, machine, used, foreign, allocation, cmd, down, user, bounds>>

-----------------------------------------------------------------------------
(* The host.                                                               *)

OtherStarts(p) ==
    /\ reboots > 0 /\ Spawn(p, Other)
    /\ UNCHANGED <<tokenized, files, machine, foreign, allocation, cmd, down, user, bounds>>

ForeignPort(port) ==
    /\ foreign' = IF port \in foreign THEN foreign \ {port} ELSE {port}
    /\ port \in foreign \/ (foreign = {} /\ port \notin Bound)
    /\ UNCHANGED <<tokenized, files, machine, procs, used, allocation, cmd, down, user, bounds>>

\* Every process is gone, the files are still there, pids start again.
Reboot ==
    /\ reboots < MaxReboots
    /\ reboots' = reboots + 1
    /\ procs' = [p \in Pids |-> NoProc]
    /\ used' = {}
    /\ allocation' = {}
    /\ cmd' = [i \in Instances |-> Idle]
    /\ down' = [i \in Instances |-> NoDown]
    /\ user' = [i \in Instances |-> NoUser]
    /\ UNCHANGED <<tokenized, files, machine, foreign, commands, crossed>>

CommandStep(i) ==
    \/ UpBegins(i) \/ UpCreates(i)
    \/ \E wanted \in Port0 : UpResolves(i, wanted) \/ RestartResolves(i, wanted)
    \/ RestartBegins(i) \/ RestartSaves(i) \/ RestartStarts(i)
    \/ StopStaleProxy(i) \/ StartProxy(i) \/ SkipProxy(i) \/ SeesTheProxy(i) \/ SeesNoProxy(i)
    \/ OpenTunnel(i) \/ RecordTunnel(i) \/ ApiAnswers(i) \/ ApiTimesOut(i)
    \/ CleanupDestroys(i) \/ CleanupReleases(i)
    \/ FindsAWatchdog(i) \/ StartsAWatchdog(i) \/ WritesItsPid(i)

DownStep(i) ==
    \/ DownBegins(i) \/ DownStopsTheProxy(i) \/ DownStopsTheMachine(i)
    \/ DownChecksTheWatchdog(i) \/ DownTerminates(i) \/ DownKills(i)

UserStep(i) == StartsByHand(i) \/ FindsItStale(i) \/ UserWritesThePidFile(i)

DaemonStep(p) ==
    \/ ProxyLooksAround(p) \/ ProxyRecordsItself(p) \/ ProxyWritesItsPid(p)
    \/ ProxyBinds(p) \/ ProxyLeaves(p) \/ WatchdogLeaves(p)

Next ==
    \/ \E i \in Instances : CommandStep(i) \/ DownStep(i) \/ UserStep(i)
    \/ \E p \in Pids : DaemonStep(p) \/ OtherStarts(p)
    \/ \E port \in Ports : ForeignPort(port)
    \/ Reboot

Spec == Init /\ [][Next]_vars

-----------------------------------------------------------------------------
TypeOK ==
    /\ tokenized \in BOOLEAN
    /\ \A i \in Instances :
        /\ state[i] \in [id : BOOLEAN, port : Port0, pid : Pid0]
        /\ state[i].id => state[i].port # 0
    /\ pidFile \in [Instances -> Pid0] /\ watchFile \in [Instances -> Pid0]
    /\ machine \in [Instances -> BOOLEAN]
    /\ used \subseteq Pids /\ \A p \in Pids \ used : procs[p] = NoProc
    /\ foreign \subseteq Ports
    /\ allocation \subseteq Instances
    /\ crossed \in BOOLEAN
    /\ \A i \in Instances : cmd[i].port \in Port0 /\ cmd[i].tunnel \in Port0

\* When `up` or a restart is about to say READY for a machine that runs, what
\* answers on the port it prints is the proxy or the tunnel of that instance,
\* never a sibling's: _start_proxy takes whoever listens on the port for its
\* own child, and _wait_for_api asks whoever answers (up.py, lines 1189-1252).
\* Not so once a `down` has interrupted an `up` of its own instance: it saves
\* an old copy and removes the record that claims the port.
ReadyIsItsOwn ==
    \A i \in Instances :
        cmd[i].pc = "watch" /\ machine[i] /\ ~crossed
        => Answers(cmd[i].port) \subseteq {i}

\* Two runs of `up` never hold the same local port, from the choice to the
\* start of the endpoint ("two parallel up runs cannot pick the same name or
\* local port", up.py, lines 1694-1697), with the same exception.
HoldsAPort(i) == cmd[i].kind = "up" /\ cmd[i].pc \in {"create", "endpoint"}

UpsChooseApart ==
    \A i, j \in Instances :
        i # j /\ HoldsAPort(i) /\ HoldsAPort(j) /\ ~crossed => cmd[i].port # cmd[j].port

\* No command and no `down` of an instance ends a process of another one, or
\* one that is not hostai's.  The pids it signals come from records made long
\* before: the state file, the copy a `down` has read, two pid files, and the
\* pid that stop_daemon has checked and signals twice (_stop_proxy of
\* commands/down.py; running_proxy_pid and stop_daemon of commands/_common.py).
\* One exception, which the code has: once the host has been rebooted, a stale
\* record may name the proxy of a sibling, and running_proxy_pid asks for a
\* `hostai proxy` without the name of the instance.
EndsOnlyItsOwn ==
    [][\A p \in Pids : Alive(p) /\ ~Alive(p)' =>
            \A i \in Instances : CommandStep(i) \/ DownStep(i) =>
                /\ procs[p].kind \in {"proxy", "watchdog"}
                /\ procs[p].of = i \/ (procs[p].kind = "proxy" /\ reboots > 0)]_vars
=============================================================================
