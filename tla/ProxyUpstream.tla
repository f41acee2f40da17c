--------------------------- MODULE ProxyUpstream ---------------------------
(***************************************************************************)
(* The upstream half of the `hostai proxy` daemon (proxy.py, ssh.py).      *)
(*                                                                         *)
(* The daemon binds its client sockets once and then follows state.json:   *)
(* a supervisor coroutine retargets it when the instance id changes, gates *)
(* `ready` on the upstream /health, and rebuilds the SSH forward when the  *)
(* local Unix socket disappears.  Every forward is a thread of its own;    *)
(* all of them share one socket path and one entry of _UNI_TUNNELS, and    *)
(* the `finally` of a thread removes both, whoever owns them by then.      *)
(*                                                                         *)
(* state.json is abstracted to the instance id it tracks; State.save()     *)
(* writes the whole in-memory copy, so it writes the id the proxy holds.   *)
(* Sleeps and timeouts are left out: a timeout is a step that may happen.  *)
(***************************************************************************)
EXTENDS Naturals

CONSTANTS
    Machines,      \* provider instance ids
    First,         \* the instance the daemon is started for
    Workers,       \* tunnel threads that exist at a time (a bound)
    None,          \* no machine, no thread
    MaxFaults      \* bound on dropped connections, timeouts and outages

ASSUME FirstAssumption == First \in Machines
ASSUME NoneAssumption == None \notin Machines \cup Workers
ASSUME FaultsAssumption == MaxFaults \in Nat

VARIABLES
    tracked,       \* the instance id in state.json, or None without the file
    fresh,         \* machines no state.json has tracked yet
    server,        \* [Machines -> {"up", "down", "gone"}]: the remote llama-server
    faults,        \* faults so far
    pc,            \* where the daemon's bootstrap / supervisor coroutine is
    resume,        \* where it continues after ensure_unix_tunnel
    bound,         \* proxy.state.instance_id
    ready,         \* proxy.ready: the handlers answer 503 while it is FALSE
    healthy,       \* the result of the supervisor's last /health probe
    failures,      \* consecutive_failures (2 stands for "2 or more")
    phase,         \* [Workers -> Phases]: the tunnel threads
    host,          \* [Workers -> the machine a thread connects to]
    told,          \* [Workers -> BOOLEAN]: the thread's stop event is set
    mine,          \* the thread the running ensure_unix_tunnel started
    path,          \* the thread listening at the socket path, or None
    registry       \* the thread in _UNI_TUNNELS[local_path], or None

envVars == <<tracked, fresh, server, faults>>
loopVars == <<pc, resume>>
servingVars == <<bound, ready, healthy, failures>>
threadVars == <<phase, host, told>>
tunnelVars == <<threadVars, mine, path, registry>>
proxyVars == <<envVars, loopVars, servingVars, tunnelVars>>

Phases == {"free", "connecting", "serving", "closing"}
Ensuring == {"ensure", "connecting", "verify"}
Booting == {"boot_poll", "boot_props"}
Looping == {"reload", "stop_old", "probe", "props", "socket", "dead_check"}

ProxyTypeOK ==
    /\ tracked \in Machines \cup {None}
    /\ fresh \subseteq Machines
    /\ server \in [Machines -> {"up", "down", "gone"}]
    /\ faults \in Nat
    /\ pc \in Ensuring \cup Booting \cup Looping \cup {"failed", "exited"}
    /\ resume \in {"start", "boot_poll", "probe", "dead_check"}
    /\ bound \in Machines
    /\ ready \in BOOLEAN
    /\ healthy \in BOOLEAN
    /\ failures \in 0..2
    /\ phase \in [Workers -> Phases]
    /\ host \in [Workers -> Machines]
    /\ told \in [Workers -> BOOLEAN]
    /\ mine \in Workers \cup {None}
    /\ path \in Workers \cup {None}
    /\ registry \in Workers \cup {None}

(***************************************************************************)
(* run_proxy: state.json is loaded, the web server starts in the           *)
(* background (503 until ready) and ensure_unix_tunnel runs in a thread.   *)
(***************************************************************************)
ProxyInit ==
    /\ tracked = First
    /\ fresh = Machines \ {First}
    /\ server \in [Machines -> {"up", "down"}]
    /\ faults = 0
    /\ pc = "ensure" /\ resume = "start"
    /\ bound = First
    /\ ready = FALSE /\ healthy = FALSE /\ failures = 0
    /\ phase = [w \in Workers |-> "free"]
    /\ host = [w \in Workers |-> First]
    /\ told = [w \in Workers |-> FALSE]
    /\ mine = None /\ path = None /\ registry = None

-----------------------------------------------------------------------------
(* What a connection to the socket path meets.                              *)

\* _unix_socket_is_open: something accepts connections at the path.
SocketOpen == path # None

\* Path(local_path).exists(): the file stays until a `finally` unlinks it.
FileExists == registry # None

\* GET /health through the path: the thread forwards it to its machine.
Answers200 == path # None /\ server[host[path]] = "up"

-----------------------------------------------------------------------------
(* The tunnel threads: _start_unix_tunnel_worker.                           *)

Fault == faults < MaxFaults /\ faults' = faults + 1
NoFault == faults' = faults

\* A thread that has returned; its slot can be taken by a later one.
Released(w) == /\ phase' = [phase EXCEPT ![w] = "free"]
               /\ host' = [host EXCEPT ![w] = First]
               /\ told' = [told EXCEPT ![w] = FALSE]

\* The `finally` of a thread: it pops the shared entry and unlinks the shared
\* path, also when a later thread has taken both over.
Finally(w) == Released(w) /\ registry' = None /\ path' = None

\* The SSH login succeeds; forward_local_path replaces whatever socket is at
\* the path.  A thread told to stop while it was connecting gets here too.
WorkerConnected(w) ==
    /\ phase[w] = "connecting" /\ server[host[w]] # "gone"
    /\ phase' = [phase EXCEPT ![w] = "serving"]
    /\ path' = w
    /\ registry' = w
    /\ UNCHANGED <<envVars, loopVars, servingVars, host, told, mine>>

\* The SSH connection or the login fails or times out.
WorkerFailed(w) ==
    /\ phase[w] = "connecting"
    /\ IF told[w] \/ server[host[w]] = "gone" THEN NoFault ELSE Fault
    /\ Finally(w)
    /\ UNCHANGED <<tracked, fresh, server, loopVars, servingVars, mine>>

\* The thread sees its stop event or loses its connection: the listener closes
\* first, the entry and the file stay until the `finally`.
WorkerClosing(w) ==
    /\ phase[w] = "serving"
    /\ IF told[w] \/ server[host[w]] = "gone" THEN NoFault ELSE Fault
    /\ phase' = [phase EXCEPT ![w] = "closing"]
    /\ path' = IF path = w THEN None ELSE path
    /\ UNCHANGED <<tracked, fresh, server, loopVars, servingVars, host, told, mine, registry>>

WorkerFinished(w) ==
    /\ phase[w] = "closing"
    /\ Finally(w)
    /\ UNCHANGED <<envVars, loopVars, servingVars, mine>>

\* stop.set(); thread.join(timeout=5): the thread has returned when the join
\* does, or it outlives the join (a fault) with its stop event set.
StopAndJoin(w) ==
    \/ Released(w) /\ NoFault
    \/ told' = [told EXCEPT ![w] = TRUE] /\ UNCHANGED <<phase, host>> /\ Fault

-----------------------------------------------------------------------------
(* ensure_unix_tunnel, called by run_proxy, by the bootstrap's health loop  *)
(* and by the supervisor (twice).                                           *)

\* State.save(): the whole in-memory copy replaces state.json.
SaveState == tracked' = bound

Call(label, back) == pc' = label /\ resume' = back
Return == pc' = (IF resume = "start" THEN "boot_poll" ELSE resume) /\ UNCHANGED resume

\* Every caller logs the exception and goes on, but run_proxy itself ends.
Raise == pc' = (IF resume = "start" THEN "failed" ELSE resume) /\ UNCHANGED resume

EnsureReuse ==
    /\ pc = "ensure" /\ registry # None /\ SocketOpen
    /\ SaveState
    /\ Return
    /\ UNCHANGED <<fresh, server, faults, servingVars, tunnelVars>>

EnsureStopStale ==
    /\ pc = "ensure" /\ registry # None /\ ~SocketOpen
    /\ StopAndJoin(registry)
    /\ registry' = None
    /\ UNCHANGED <<tracked, fresh, server, loopVars, servingVars, mine, path>>

\* unlink the path, then _start_ssh_forward starts a thread for state.ssh_url.
EnsureStart(w) ==
    /\ pc = "ensure" /\ registry = None
    /\ phase[w] = "free"
    /\ phase' = [phase EXCEPT ![w] = "connecting"]
    /\ host' = [host EXCEPT ![w] = bound]
    /\ mine' = w
    /\ path' = None
    /\ pc' = "connecting"
    /\ UNCHANGED <<envVars, resume, servingVars, told, registry>>

EnsureConnected ==
    /\ pc = "connecting" /\ phase[mine] = "serving" /\ SocketOpen
    /\ pc' = "verify"
    /\ UNCHANGED <<envVars, resume, servingVars, tunnelVars>>

\* stop.set(); thread.join(timeout=5) on the thread of this call.
StopMine ==
    IF phase[mine] = "free" THEN UNCHANGED <<threadVars, path, registry, faults>>
    ELSE \/ Finally(mine) /\ NoFault
         \/ /\ told' = [told EXCEPT ![mine] = TRUE] /\ Fault
            /\ UNCHANGED <<phase, host, path, registry>>

\* The thread died, or nothing accepts at the path.
EnsureBroken ==
    /\ pc = "connecting"
    /\ \/ phase[mine] \in {"free", "closing"}
       \/ phase[mine] = "serving" /\ ~SocketOpen
    /\ StopMine
    /\ mine' = None
    /\ Raise
    /\ UNCHANGED <<tracked, fresh, server, servingVars>>

\* ready.wait times out while the thread is still in its SSH login, which may
\* go on after the join.
EnsureTimedOut ==
    /\ pc = "connecting" /\ phase[mine] = "connecting"
    /\ IF server[host[mine]] = "gone" THEN NoFault ELSE Fault
    /\ \/ Finally(mine)
       \/ /\ told' = [told EXCEPT ![mine] = TRUE]
          /\ UNCHANGED <<phase, host, path, registry>>
    /\ mine' = None
    /\ Raise
    /\ UNCHANGED <<tracked, fresh, server, servingVars>>

\* _verify_remote_socket found the socket, this call's thread is written into
\* the entry, whosever it was, and the state is saved -- minutes after the state was read.
EnsureVerified ==
    /\ pc = "verify"
    /\ server[bound] # "gone" /\ registry # None
    /\ SaveState
    /\ registry' = mine /\ mine' = None
    /\ Return
    /\ UNCHANGED <<fresh, server, faults, servingVars, threadVars, path>>

\* The remote socket does not appear: stop the thread, join, raise.
EnsureUnverified ==
    /\ pc = "verify" /\ server[bound] # "up"
    /\ StopMine
    /\ mine' = None
    /\ Raise
    /\ UNCHANGED <<tracked, fresh, server, servingVars>>

\* The thread's entry is gone by the time it is completed: KeyError, no save.
EnsureEntryLost ==
    /\ pc = "verify" /\ registry = None
    /\ mine' = None
    /\ Raise
    /\ UNCHANGED <<envVars, servingVars, threadVars, path, registry>>

Ensure ==
    \/ EnsureReuse \/ EnsureStopStale \/ (\E w \in Workers : EnsureStart(w))
    \/ EnsureConnected \/ EnsureBroken
    \/ EnsureVerified \/ EnsureUnverified \/ EnsureEntryLost

-----------------------------------------------------------------------------
(* _bootstrap_proxy: wait for the first healthy answer.                     *)

BootHealthy ==
    /\ pc = "boot_poll" /\ Answers200
    /\ pc' = "boot_props"
    /\ UNCHANGED <<envVars, resume, servingVars, tunnelVars>>

BootRebuild ==
    /\ pc = "boot_poll" /\ ~Answers200 /\ ~FileExists
    /\ Call("ensure", "boot_poll")
    /\ UNCHANGED <<envVars, servingVars, tunnelVars>>

BootReady ==
    /\ pc = "boot_props"
    /\ ready' = TRUE
    /\ pc' = "reload"
    /\ UNCHANGED <<envVars, resume, bound, healthy, failures, tunnelVars>>

\* The daemon's threads are daemonic: they end with the process.
Exit ==
    /\ pc' = "exited"
    /\ ready' = FALSE
    /\ phase' = [w \in Workers |-> "free"]
    /\ host' = [w \in Workers |-> First]
    /\ told' = [w \in Workers |-> FALSE]
    /\ mine' = None /\ path' = None /\ registry' = None
    /\ UNCHANGED <<envVars, resume, bound, healthy, failures>>

\* confirm_instance_dead says the instance is gone: ProxyError, the daemon ends.
BootGivesUp == pc = "boot_poll" /\ ~Answers200 /\ server[bound] = "gone" /\ Exit

\* run_proxy's own ensure_unix_tunnel raised: the daemon ends.
BootFails == pc = "failed" /\ Exit

Bootstrap == BootHealthy \/ BootRebuild \/ BootReady \/ BootFails

-----------------------------------------------------------------------------
(* _upstream_supervisor: one loop iteration is reload, probe, socket check, *)
(* dead check.                                                              *)

\* _maybe_retarget, nothing to do.
KeepTarget ==
    /\ pc = "reload" /\ tracked \in {bound, None}
    /\ pc' = "probe"
    /\ UNCHANGED <<envVars, resume, servingVars, tunnelVars>>

\* Mutant: the guard on an absent state.json is dropped.
RetargetToNothing ==
    /\ pc = "reload" /\ tracked # bound
    /\ bound' = tracked
    /\ ready' = FALSE
    /\ pc' = "stop_old"
    /\ UNCHANGED <<envVars, resume, healthy, failures, tunnelVars>>

\* Mutant: the gate stays open across the retarget.
RetargetKeepsReady ==
    /\ pc = "reload" /\ tracked \notin {bound, None}
    /\ bound' = tracked
    /\ pc' = "stop_old"
    /\ UNCHANGED <<envVars, resume, ready, healthy, failures, tunnelVars>>

\* _maybe_retarget and TokenizedProxy.retarget.  The in-flight requests end
\* with the old session; the new session connects to the same path.
Retarget ==
    /\ pc = "reload" /\ tracked \notin {bound, None}
    /\ bound' = tracked
    /\ ready' = FALSE
    /\ pc' = "stop_old"
    /\ UNCHANGED <<envVars, resume, healthy, failures, tunnelVars>>

\* Mutant: the old forward is left for ensure_unix_tunnel to reuse.
StopNothing ==
    /\ pc = "stop_old"
    /\ Call("ensure", "probe")
    /\ UNCHANGED <<envVars, servingVars, tunnelVars>>

\* _retarget_tunnel: stop_unix_tunnel on the path, then ensure_unix_tunnel.
StopOldTunnel ==
    /\ pc = "stop_old"
    /\ IF registry = None THEN UNCHANGED threadVars /\ NoFault ELSE StopAndJoin(registry)
    /\ registry' = None
    /\ path' = None
    /\ Call("ensure", "probe")
    /\ UNCHANGED <<tracked, fresh, server, servingVars, mine>>

ProbeHealthy ==
    /\ pc = "probe" /\ Answers200
    /\ healthy' = TRUE
    /\ pc' = "props"
    /\ UNCHANGED <<envVars, resume, bound, ready, failures, tunnelVars>>

\* After the /props round trip of a retarget.
MarkReady ==
    /\ pc = "props"
    /\ ready' = TRUE
    /\ failures' = 0
    /\ pc' = "socket"
    /\ UNCHANGED <<envVars, resume, bound, healthy, tunnelVars>>

ProbeFailed ==
    /\ pc = "probe" /\ ~Answers200
    /\ healthy' = FALSE
    /\ failures' = IF failures = 2 THEN 2 ELSE failures + 1
    /\ ready' = (ready /\ failures = 0)
    /\ pc' = "socket"
    /\ UNCHANGED <<envVars, resume, bound, tunnelVars>>

SocketAlive ==
    /\ pc = "socket" /\ SocketOpen
    /\ pc' = "dead_check"
    /\ UNCHANGED <<envVars, resume, servingVars, tunnelVars>>

\* Mutant: nothing recreates the tunnel after the bootstrap.
SocketIgnored ==
    /\ pc = "socket" /\ ~SocketOpen
    /\ pc' = "dead_check"
    /\ UNCHANGED <<envVars, resume, servingVars, tunnelVars>>

SocketGone ==
    /\ pc = "socket" /\ ~SocketOpen
    /\ Call("ensure", "dead_check")
    /\ UNCHANGED <<envVars, servingVars, tunnelVars>>

\* The provider is asked once a minute and fails open, so the loop may go on.
NextIteration ==
    /\ pc = "dead_check"
    /\ pc' = "reload"
    /\ UNCHANGED <<envVars, resume, servingVars, tunnelVars>>

\* Mutant: the provider is asked while the upstream is answering.
GivesUpHealthy == pc = "dead_check" /\ healthy /\ server[bound] = "gone" /\ Exit

\* confirm_instance_dead(proxy.state.instance_id): the server task is cancelled.
SupervisorGivesUp == pc = "dead_check" /\ ~healthy /\ server[bound] = "gone" /\ Exit

Supervisor ==
    \/ KeepTarget \/ Retarget \/ StopOldTunnel
    \/ ProbeHealthy \/ MarkReady \/ ProbeFailed
    \/ SocketAlive \/ SocketGone \/ NextIteration

-----------------------------------------------------------------------------
(* The environment.                                                         *)

\* `hostai replace` writes a machine it has seen healthy into state.json.
Flip(m) ==
    /\ m \in fresh /\ server[m] = "up"
    /\ tracked' = m
    /\ fresh' = fresh \ {m}
    /\ UNCHANGED <<server, faults, loopVars, servingVars, tunnelVars>>

\* `hostai down` removes state.json without finding the daemon's pid.
Unlinked ==
    /\ tracked # None
    /\ tracked' = None
    /\ UNCHANGED <<fresh, server, faults, loopVars, servingVars, tunnelVars>>

\* llama-server restarts on a machine, or the machine is preempted or destroyed.
ServerChanges(m, s) ==
    /\ <<server[m], s>> \in {<<"up", "down">>, <<"down", "up">>, <<"up", "gone">>, <<"down", "gone">>}
    /\ IF s = "down" THEN Fault ELSE NoFault
    /\ server' = [server EXCEPT ![m] = s]
    /\ UNCHANGED <<tracked, fresh, loopVars, servingVars, tunnelVars>>

Worker(w) == WorkerConnected(w) \/ WorkerFailed(w) \/ WorkerClosing(w) \/ WorkerFinished(w)

ProxyNext ==
    \/ Ensure \/ EnsureTimedOut
    \/ Bootstrap \/ BootGivesUp
    \/ Supervisor \/ SupervisorGivesUp
    \/ \E w \in Workers : Worker(w)
    \/ \E m \in Machines : Flip(m)
    \/ Unlinked
    \/ \E m \in Machines, s \in {"up", "down", "gone"} : ServerChanges(m, s)

ProxySpec == ProxyInit /\ [][ProxyNext]_proxyVars

-----------------------------------------------------------------------------
(* Properties.                                                              *)

Daemon == Ensure \/ Bootstrap \/ Supervisor

\* Steps of a thread that need no fault: they happen if nothing else does.
Progress(w) ==
    \/ WorkerConnected(w)
    \/ (told[w] \/ server[host[w]] = "gone") /\ (WorkerFailed(w) \/ WorkerClosing(w))
    \/ WorkerFinished(w)

(***************************************************************************)
(* The coroutine and the threads are scheduled: asyncio and the OS run     *)
(* them.  The dead check is strongly fair: it runs once a minute and fails *)
(* open on a provider error, so it may pass a few times, not for ever.     *)
(***************************************************************************)
FairSpec ==
    /\ ProxySpec
    /\ WF_proxyVars(Daemon)
    /\ \A w \in Workers : WF_proxyVars(Progress(w))
    /\ SF_proxyVars(BootGivesUp) /\ SF_proxyVars(SupervisorGivesUp)
    /\ WF_proxyVars(EnsureTimedOut)

(***************************************************************************)
(* While the proxy is ready, a request that reaches a forward nobody has   *)
(* stopped is answered by the machine /_hostai/backend reports: a retarget *)
(* never leaves a way to the old machine open behind the new id.           *)
(***************************************************************************)
ServesWhatItReports ==
    ready /\ path # None /\ ~told[path] => host[path] = bound

(***************************************************************************)
(* Once the proxy has been ready, it ends up serving the machine state.json*)
(* settles on (the tunnel is rebuilt and the session retargeted however the*)
(* flip, drops and late threads interleave), unless it has given up on a   *)
(* machine that is gone.                                                   *)
(***************************************************************************)
FollowsStateFile ==
    \A m \in Machines :
        (<>ready /\ <>[](tracked = m /\ server[m] = "up"))
            => <>[](pc = "exited" \/ (ready /\ bound = m /\ Answers200))

(***************************************************************************)
(* A proxy whose machine is gone does not answer 503 for ever: it retargets*)
(* or it exits.                                                            *)
(***************************************************************************)
NeverServesTheDead ==
    \A m \in Machines :
        (bound = m /\ server[m] = "gone") ~> (pc = "exited" \/ bound # m)

(***************************************************************************)
(* The daemon keeps the promise of ProxyPromise.  A forward whose thread   *)
(* was told to stop is on its way out and counts as no forward.            *)
(***************************************************************************)
Leads == IF path = None THEN None ELSE IF told[path] THEN None ELSE host[path]

Promise == INSTANCE ProxyPromise WITH leads <- Leads

KeepsItsPromise == Promise!Spec
============================================================================
