---------------------------- MODULE Deployment ----------------------------
(***************************************************************************)
(* One deployment: the commands that rent, replace and destroy its machine *)
(* (up.py, replace.py, down.py), the state.json they share, and the proxy  *)
(* daemon that follows it.                                                 *)
(*                                                                         *)
(* A command loads state.json into a private copy, works on it for minutes *)
(* and saves the whole copy back.  `up`, `up --restart` and `replace` hold *)
(* the lifecycle lock from start to end; `down` (typed or run by the       *)
(* watchdog) takes none.  Both files are abstracted to the instance id     *)
(* they hold.  A step is the code between two waits or provider calls.     *)
(* The proxy is the one ProxyPromise describes, with its gate.             *)
(***************************************************************************)
EXTENDS Naturals

CONSTANTS
    Commands,      \* processes that may run a command at the same time
    Machines,      \* instance ids the provider can hand out
    None,          \* no machine, no file, no process
    Kinds,         \* the commands that are run
    Faults,        \* the faults that happen; a `down --id` counts as one
    MaxFaults,     \* bound on how many of them
    KeepOnFailure  \* [vast].keep_on_failure

ASSUME NoneAssumption == None \notin Commands \cup Machines
ASSUME KindsAssumption == Kinds \subseteq {"up", "restart", "replace", "down", "pause"}
ASSUME FaultsAssumption ==
    /\ Faults \subseteq {"lookup", "destroy", "preempted", "killed", "request", "proxy", "id"}
    /\ MaxFaults \in Nat
ASSUME KeepAssumption == KeepOnFailure \in BOOLEAN

VARIABLES
    disk,          \* the instance id in state.json, or None
    side,          \* the instance id in the replace sidecar, or None
    vm,            \* [Machines -> Statuses]: what the provider reports
    reported,      \* machines an error or a log line told the user about
    proxy,         \* the machine the proxy daemon is bound to, None: no daemon
    open,          \* the daemon's gate: /health is forwarded
    holder,        \* the command that holds the lifecycle lock, or None
    pc,            \* where a command is
    mem,           \* the id in a command's private copy of state.json
    new,           \* the machine a command has rented itself
    hot,           \* replace: a proxy ran when it started (proxy_pid)
    seen,          \* replace: what the cutover polls have met so far
    got,           \* replace: the id last read from the proxy or the file
    hits,          \* how many faults there were
    suffered       \* of which kinds

files == <<disk, side>>
cloud == <<vm, reported>>
daemon == <<proxy, open>>
control == <<holder, pc, mem, new>>
cutover == <<hot, seen, got>>
faults == <<hits, suffered>>
vars == <<files, cloud, daemon, control, cutover, faults>>

\* "exited": stopped by the user; "stopped": an interruptible was outbid.
Statuses == {"none", "running", "serving", "exited", "stopped", "gone"}
Alive == {"running", "serving"}

UpSteps == {"create", "record", "boot", "spawn", "spawned", "health", "final", "cleanup", "release"}
ReplaceSteps == {"slot", "stage", "sidecar", "staged", "recheck", "unstage", "flip",
                 "cutover", "cutover_health", "spawn_new", "spawned_new", "destroy_old"}
DownSteps == {"mark", "remote", "stop", "destroy", "unlink", "orphan"}

TypeOK ==
    /\ disk \in Machines \cup {None} /\ side \in Machines \cup {None}
    /\ vm \in [Machines -> Statuses]
    /\ reported \subseteq Machines
    /\ proxy \in Machines \cup {None} /\ open \in BOOLEAN
    /\ holder \in Commands \cup {None}
    /\ pc \in [Commands -> {"idle"} \cup UpSteps \cup ReplaceSteps \cup DownSteps]
    /\ mem \in [Commands -> Machines \cup {None}]
    /\ new \in [Commands -> Machines \cup {None}]
    /\ hot \in BOOLEAN
    /\ seen \subseteq {"backend", "not_ready"}
    /\ got \in Machines \cup {None}
    /\ hits \in 0..MaxFaults /\ suffered \subseteq Faults

\* Nothing rented yet, or one machine up and served through the proxy.
Init ==
    /\ \/ disk = None /\ proxy = None /\ open = FALSE /\ vm = [m \in Machines |-> "none"]
       \/ \E m \in Machines :
            /\ disk = m /\ proxy \in {m, None} /\ open = (proxy = m)
            /\ vm = [n \in Machines |-> IF n = m THEN "serving" ELSE "none"]
    /\ side = None /\ reported = {}
    /\ holder = None
    /\ pc = [c \in Commands |-> "idle"]
    /\ mem = [c \in Commands |-> None] /\ new = [c \in Commands |-> None]
    /\ hot = FALSE /\ seen = {} /\ got = None
    /\ hits = 0 /\ suffered = {}

-----------------------------------------------------------------------------
(* Steps and faults.                                                        *)

Fault(kind) ==
    /\ kind \in Faults /\ hits < MaxFaults
    /\ hits' = hits + 1 /\ suffered' = suffered \cup {kind}
NoFault == UNCHANGED faults

Goto(c, from, to) ==
    pc[c] = from /\ pc' = [pc EXCEPT ![c] = to] /\ UNCHANGED <<holder, mem, new>>

\* The command returns, or dies: its copies are lost and its flock released.
Exit(c) ==
    /\ pc' = [pc EXCEPT ![c] = "idle"]
    /\ mem' = [mem EXCEPT ![c] = None] /\ new' = [new EXCEPT ![c] = None]
    /\ IF holder = c
         THEN holder' = None /\ hot' = FALSE /\ seen' = {} /\ got' = None
         ELSE UNCHANGED <<holder, cutover>>

\* Mutant: the flock is taken but never refused.
LockShared(c, kind) == pc[c] = "idle" /\ kind \in Kinds /\ holder' = c

\* lifecycle_lock, taken without waiting: a second command fails at once.
Lock(c, kind) == pc[c] = "idle" /\ kind \in Kinds /\ holder = None /\ holder' = c

\* State.save: the whole private copy replaces the file.
Save(c) == disk' = mem[c] /\ UNCHANGED side

\* create_instance: the provider hands out an id it never used before.
Rented(m) == vm[m] = "none" /\ vm' = [vm EXCEPT ![m] = "running"] /\ UNCHANGED reported

\* destroy_instance inside a try: a failure is only logged, with the id.
DestroyedOrReported(m) ==
    \/ vm' = [vm EXCEPT ![m] = "gone"] /\ UNCHANGED reported /\ NoFault
    \/ Fault("destroy") /\ reported' = reported \cup {m} /\ UNCHANGED vm

\* /health through the proxy is forwarded to the machine it is bound to.
Health200 == proxy # None /\ open /\ vm[proxy] = "serving"

-----------------------------------------------------------------------------
(* `hostai up` and `hostai up --restart`.                                   *)

\* _check_for_live_instance: a provider that cannot be asked does not block.
UpBegins(c) ==
    /\ Lock(c, "up")
    /\ \/ disk = None /\ NoFault
       \/ disk # None /\ vm[disk] \in {"gone", "exited"} /\ NoFault
       \/ disk # None /\ Fault("lookup")
    /\ pc' = [pc EXCEPT ![c] = "create"]
    /\ UNCHANGED <<files, cloud, daemon, mem, new, cutover>>

UpCreates(c) ==
    /\ pc[c] = "create"
    /\ \E m \in Machines :
         /\ Rented(m)
         /\ mem' = [mem EXCEPT ![c] = m] /\ new' = [new EXCEPT ![c] = m]
    /\ pc' = [pc EXCEPT ![c] = "record"]
    /\ UNCHANGED <<files, daemon, holder, cutover, faults>>

UpFindsNothing(c) ==
    pc[c] = "create" /\ Exit(c) /\ UNCHANGED <<files, cloud, daemon, faults>>

UpRecords(c) ==
    Goto(c, "record", "boot") /\ Save(c) /\ UNCHANGED <<cloud, daemon, cutover, faults>>

\* Mutant: a starting machine gets a status of its own.
RestartLoading(c) ==
    /\ Lock(c, "restart")
    /\ disk # None /\ vm[disk] # "gone"
    /\ vm' = IF vm[disk] \in Alive THEN vm ELSE [vm EXCEPT ![disk] = "loading"]
    /\ mem' = [mem EXCEPT ![c] = disk]
    /\ pc' = [pc EXCEPT ![c] = "boot"]
    /\ UNCHANGED <<files, reported, daemon, new, cutover, faults>>

\* _do_restart: a machine that is not running is started first.
RestartBegins(c) ==
    /\ Lock(c, "restart")
    /\ disk # None /\ vm[disk] # "gone"
    /\ vm' = IF vm[disk] \in Alive THEN vm ELSE [vm EXCEPT ![disk] = "running"]
    /\ mem' = [mem EXCEPT ![c] = disk]
    /\ pc' = [pc EXCEPT ![c] = "boot"]
    /\ UNCHANGED <<files, reported, daemon, new, cutover, faults>>

\* The SSH endpoint, the certificate and the slot cache save on the way.
BootSaves(c) ==
    Goto(c, "boot", "boot") /\ Save(c) /\ UNCHANGED <<cloud, daemon, cutover, faults>>

Booted(c) ==
    /\ Goto(c, "boot", "spawn") /\ vm[mem[c]] \in Alive
    /\ Save(c)
    /\ UNCHANGED <<cloud, daemon, cutover, faults>>

\* _start_proxy stops a proxy that holds the port; the daemon it spawns loads
\* state.json by itself.
SpawnsProxy(c) ==
    /\ Goto(c, "spawn", "spawned")
    /\ disk # None /\ proxy' = disk /\ open' = FALSE
    /\ UNCHANGED <<files, cloud, cutover, faults>>

RecordsProxy(c) ==
    Goto(c, "spawned", "health") /\ Save(c) /\ UNCHANGED <<cloud, daemon, cutover, faults>>

\* _wait_for_client_api, then the copy is saved as "running".
Healthy(c) ==
    /\ Health200
    /\ Goto(c, "health", "final") /\ Save(c)
    /\ UNCHANGED <<cloud, daemon, cutover, faults>>

\* up reads ready_epoch from the reloaded file; restart only archives.
Finishes(c) ==
    /\ pc[c] = "final" /\ (disk # None \/ new[c] = None)
    /\ Exit(c) /\ UNCHANGED <<files, cloud, daemon, faults>>

\* A timeout, a dead machine, a failed check, or an exception in what follows
\* READY: up cleans up, restart does not unless the GPU preflight says so.
ProvisioningFails(c) ==
    /\ pc[c] \in {"boot", "spawn", "spawned", "health", "final"}
    /\ new[c] # None \/ pc[c] = "boot"
    /\ Goto(c, pc[c], "cleanup")
    /\ UNCHANGED <<files, cloud, daemon, cutover, faults>>

RestartFails(c) ==
    /\ pc[c] \in {"boot", "spawn", "spawned", "health"} /\ new[c] = None
    /\ Exit(c) /\ UNCHANGED <<files, cloud, daemon, faults>>

\* _cleanup_instance
Cleanup(c) ==
    /\ pc[c] = "cleanup" /\ ~KeepOnFailure
    /\ DestroyedOrReported(mem[c])
    /\ Goto(c, "cleanup", "release") /\ UNCHANGED <<files, daemon, cutover>>

CleanupKeeps(c) ==
    /\ pc[c] = "cleanup" /\ KeepOnFailure
    /\ Save(c) /\ Exit(c) /\ UNCHANGED <<cloud, daemon, faults>>

Releases(c) ==
    /\ pc[c] = "release"
    /\ proxy' = None /\ open' = FALSE
    /\ Save(c) /\ Exit(c) /\ UNCHANGED <<cloud, faults>>

-----------------------------------------------------------------------------
(* `hostai replace`.                                                        *)

ReplaceBegins(c) ==
    /\ Lock(c, "replace")
    /\ disk # None /\ mem' = [mem EXCEPT ![c] = disk]
    /\ hot' = (proxy # None)
    /\ pc' = [pc EXCEPT ![c] = "slot"]
    /\ UNCHANGED <<files, cloud, daemon, new, seen, got, faults>>

\* save_and_upload_slot_cache of the old machine saves the old copy.
SlotSaves(c) ==
    Goto(c, "slot", "slot") /\ Save(c) /\ UNCHANGED <<cloud, daemon, cutover, faults>>

\* A sidecar an interrupted replace left behind is removed unread.
DropsSidecar(c) ==
    /\ Goto(c, "slot", "stage")
    /\ side' = None /\ UNCHANGED <<disk, cloud, daemon, cutover, faults>>

ReplaceCreates(c) ==
    /\ pc[c] = "stage"
    /\ \E m \in Machines : Rented(m) /\ new' = [new EXCEPT ![c] = m]
    /\ pc' = [pc EXCEPT ![c] = "sidecar"]
    /\ UNCHANGED <<files, daemon, holder, mem, cutover, faults>>

ReplaceFindsNothing(c) ==
    pc[c] = "stage" /\ Exit(c) /\ UNCHANGED <<files, cloud, daemon, faults>>

ReplaceRecords(c) ==
    /\ Goto(c, "sidecar", "staged")
    /\ side' = new[c] /\ UNCHANGED <<disk, cloud, daemon, cutover, faults>>

\* _boot_staged ends with the remote /health over SSH.
StagedServes(c) ==
    /\ Goto(c, "staged", "recheck") /\ vm[new[c]] = "serving"
    /\ side' = new[c] /\ UNCHANGED <<disk, cloud, daemon, cutover, faults>>

StagedFails(c) ==
    Goto(c, "staged", "unstage") /\ UNCHANGED <<files, cloud, daemon, cutover, faults>>

\* The file is read once more before the telemetry of the old run is archived.
Rechecks(c) ==
    /\ Goto(c, "recheck", IF disk = mem[c] THEN "flip" ELSE "unstage")
    /\ UNCHANGED <<files, cloud, daemon, cutover, faults>>

\* _destroy_staged: never touches the proxy; its id has been logged.
Unstages(c) ==
    /\ pc[c] = "unstage"
    /\ IF KeepOnFailure
         THEN reported' = reported \cup {new[c]} /\ UNCHANGED vm /\ NoFault
         ELSE DestroyedOrReported(new[c])
    /\ side' = None /\ Exit(c) /\ UNCHANGED <<disk, daemon>>

Flips(c) ==
    /\ Goto(c, "flip", IF hot THEN "cutover" ELSE "spawn_new")
    /\ disk' = new[c] /\ UNCHANGED <<side, cloud, daemon, cutover, faults>>

\* One poll of _wait_for_proxy_cutover is two requests: /_hostai/backend ...
PollsBackend(c) ==
    /\ Goto(c, "cutover", "cutover_health")
    /\ \/ got' = proxy /\ NoFault
       \/ got' = None /\ Fault("request")
    /\ seen' = IF got' = None THEN seen ELSE seen \cup {"backend"}
    /\ UNCHANGED <<files, cloud, daemon, hot>>

\* Mutant: any 200 counts, whichever machine it comes from.
ConfirmsAny(c, ok) == ok

\* ... and /health.  A proxy that never answered the first is trusted when
\* /health turns 200 after it was not.
Confirms(c, ok) ==
    /\ ok
    /\ \/ got = new[c]
       \/ "backend" \notin seen /\ "not_ready" \in seen

PollsHealth(c) ==
    \E ok \in BOOLEAN :
      /\ \/ ok = Health200 /\ NoFault
         \/ ok = FALSE /\ Fault("request")
      /\ Goto(c, "cutover_health", IF Confirms(c, ok) THEN "destroy_old" ELSE "cutover")
      /\ seen' = IF "backend" \notin seen /\ ~ok THEN seen \cup {"not_ready"} ELSE seen
      /\ UNCHANGED <<files, cloud, daemon, hot, got>>

CutoverTimesOut(c) ==
    /\ pc[c] = "cutover"
    /\ side' = None /\ reported' = reported \cup {mem[c]}
    /\ Exit(c) /\ UNCHANGED <<disk, vm, daemon, faults>>

\* No daemon ran at the start: one is spawned, as in up, and not waited for.
SpawnsNew(c) ==
    /\ Goto(c, "spawn_new", "spawned_new")
    /\ disk # None /\ got' = disk /\ proxy' = disk /\ open' = FALSE
    /\ UNCHANGED <<files, cloud, hot, seen, faults>>

RecordsNew(c) ==
    /\ Goto(c, "spawned_new", "destroy_old")
    /\ disk' = got /\ UNCHANGED <<side, cloud, daemon, cutover, faults>>

SpawnFails(c) ==
    /\ pc[c] \in {"spawn_new", "spawned_new"} /\ Goto(c, pc[c], "destroy_old")
    /\ UNCHANGED <<files, cloud, daemon, cutover, faults>>

DestroysOld(c) ==
    /\ pc[c] = "destroy_old"
    /\ DestroyedOrReported(mem[c])
    /\ side' = None /\ Exit(c) /\ UNCHANGED <<disk, daemon>>

-----------------------------------------------------------------------------
(* `hostai down`, by hand or by the watchdog: down_instance.                *)

DownBegins(c) ==
    /\ pc[c] = "idle" /\ Kinds \cap {"down", "pause"} # {}
    /\ disk # None /\ mem' = [mem EXCEPT ![c] = disk]
    /\ pc' = [pc EXCEPT ![c] = "mark"]
    /\ UNCHANGED <<files, cloud, daemon, holder, new, cutover, faults>>

\* The confirmation is declined, or require_save stops it.
DownGivesUp(c) ==
    pc[c] \in {"mark", "remote"} /\ Exit(c) /\ UNCHANGED <<files, cloud, daemon, faults>>

DownMarks(c) ==
    Goto(c, "mark", "remote") /\ Save(c) /\ UNCHANGED <<cloud, daemon, cutover, faults>>

\* The refreshed endpoint and the slot cache save the copy again.
DownSaves(c) ==
    Goto(c, "remote", "remote") /\ Save(c) /\ UNCHANGED <<cloud, daemon, cutover, faults>>

StopsModel(c) ==
    /\ Goto(c, "remote", "stop")
    /\ vm' = IF vm[mem[c]] = "serving" THEN [vm EXCEPT ![mem[c]] = "running"] ELSE vm
    /\ UNCHANGED <<files, reported, daemon, cutover, faults>>

\* _stop_proxy, then stop_tunnel, which saves
StopsProxy(c) ==
    /\ Goto(c, "stop", "destroy")
    /\ proxy' = None /\ open' = FALSE
    /\ Save(c) /\ UNCHANGED <<cloud, cutover, faults>>

DownDestroys(c) ==
    /\ "down" \in Kinds /\ Goto(c, "destroy", "unlink")
    /\ vm' = [vm EXCEPT ![mem[c]] = "gone"]
    /\ UNCHANGED <<files, reported, daemon, cutover, faults>>

\* Mutant: the record is dropped although the machine still runs.
DestroyFailsAndForgets(c) ==
    /\ pc[c] = "destroy" /\ Fault("destroy") /\ Exit(c)
    /\ disk' = None /\ UNCHANGED <<side, cloud, daemon>>

\* The error ends the command before the file is touched.
DestroyFails(c) ==
    /\ pc[c] = "destroy" /\ Fault("destroy") /\ Exit(c)
    /\ UNCHANGED <<files, cloud, daemon>>

DownPauses(c) ==
    /\ "pause" \in Kinds /\ pc[c] = "destroy"
    /\ vm' = IF vm[mem[c]] = "gone" THEN vm ELSE [vm EXCEPT ![mem[c]] = "exited"]
    /\ Save(c) /\ Exit(c) /\ UNCHANGED <<reported, daemon, faults>>

Unlinks(c) ==
    /\ pc[c] = "unlink" /\ disk' = None
    /\ Exit(c) /\ UNCHANGED <<side, cloud, daemon, faults>>

\* tracked_instance_ids reads state.json alone: a staged machine counts as
\* untracked, and so does one a running up has not recorded yet.
IsTracked(m) == m = disk

\* `down --id`: the user names an instance the provider lists.
IdBegins(c) ==
    /\ pc[c] = "idle" /\ Fault("id")
    /\ \E m \in Machines :
         /\ ~IsTracked(m) /\ vm[m] \notin {"none", "gone"}
         /\ mem' = [mem EXCEPT ![c] = m]
    /\ pc' = [pc EXCEPT ![c] = "orphan"]
    /\ UNCHANGED <<files, cloud, daemon, holder, new, cutover>>

\* down_remote_instance: declined, failed, destroyed or paused; no file, no
\* proxy and no lock is looked at again.
IdStops(c) ==
    /\ pc[c] = "orphan"
    /\ \/ UNCHANGED vm
       \/ vm' = [vm EXCEPT ![mem[c]] = "gone"]
       \/ vm[mem[c]] # "gone" /\ vm' = [vm EXCEPT ![mem[c]] = "exited"]
    /\ Exit(c) /\ UNCHANGED <<files, reported, daemon, faults>>

-----------------------------------------------------------------------------
(* The proxy daemon (see ProxyUpstream) and the machines.                   *)

ProxyStarts ==
    /\ proxy = None /\ disk # None
    /\ proxy' = disk /\ open' = FALSE
    /\ UNCHANGED <<files, cloud, control, cutover, faults>>

ProxyRetargets ==
    /\ proxy # None /\ disk \notin {None, proxy}
    /\ proxy' = disk /\ open' = FALSE
    /\ UNCHANGED <<files, cloud, control, cutover, faults>>

ProxyOpens ==
    /\ proxy # None /\ vm[proxy] = "serving" /\ ~open
    /\ open' = TRUE /\ UNCHANGED <<files, cloud, proxy, control, cutover, faults>>

ProxyCloses ==
    /\ proxy # None /\ vm[proxy] # "serving" /\ open
    /\ open' = FALSE /\ UNCHANGED <<files, cloud, proxy, control, cutover, faults>>

\* A dropped forward is rebuilt, and ensure_unix_tunnel saves the copy.
ProxySaves ==
    /\ proxy # None /\ Fault("proxy")
    /\ disk' = proxy /\ UNCHANGED <<side, cloud, daemon, control, cutover>>

\* Its machine is confirmed dead.
ProxyExits ==
    /\ proxy # None /\ vm[proxy] \notin Alive /\ ~open
    /\ proxy' = None /\ UNCHANGED <<files, cloud, open, control, cutover, faults>>

Loads(m) ==
    /\ vm[m] = "running" /\ vm' = [vm EXCEPT ![m] = "serving"]
    /\ UNCHANGED <<files, reported, daemon, control, cutover, faults>>

Preempted(m) ==
    /\ vm[m] \in Alive /\ Fault("preempted")
    /\ \E s \in {"exited", "stopped", "gone"} : vm' = [vm EXCEPT ![m] = s]
    /\ UNCHANGED <<files, reported, daemon, control, cutover>>

\* Ctrl-C, a reboot: no handler runs, the kernel drops the lock.
Killed(c) ==
    /\ pc[c] # "idle" /\ Fault("killed") /\ Exit(c)
    /\ UNCHANGED <<files, cloud, daemon>>

Up(c) ==
    \/ UpBegins(c) \/ UpCreates(c) \/ UpFindsNothing(c) \/ UpRecords(c) \/ RestartBegins(c)
    \/ BootSaves(c) \/ Booted(c) \/ SpawnsProxy(c) \/ RecordsProxy(c) \/ Healthy(c)
    \/ Finishes(c) \/ ProvisioningFails(c) \/ RestartFails(c)
    \/ Cleanup(c) \/ CleanupKeeps(c) \/ Releases(c)

Replace(c) ==
    \/ ReplaceBegins(c) \/ SlotSaves(c) \/ DropsSidecar(c) \/ ReplaceCreates(c)
    \/ ReplaceFindsNothing(c) \/ ReplaceRecords(c) \/ StagedServes(c) \/ StagedFails(c)
    \/ Rechecks(c) \/ Unstages(c) \/ Flips(c) \/ PollsBackend(c) \/ PollsHealth(c)
    \/ CutoverTimesOut(c) \/ SpawnsNew(c) \/ RecordsNew(c) \/ SpawnFails(c) \/ DestroysOld(c)

Down(c) ==
    \/ DownBegins(c) \/ DownGivesUp(c) \/ DownMarks(c) \/ DownSaves(c) \/ StopsModel(c)
    \/ StopsProxy(c) \/ DownDestroys(c) \/ DestroyFails(c) \/ DownPauses(c) \/ Unlinks(c)
    \/ IdBegins(c) \/ IdStops(c)

Proxy == ProxyStarts \/ ProxyRetargets \/ ProxyOpens \/ ProxyCloses \/ ProxySaves \/ ProxyExits

Next ==
    \/ \E c \in Commands : Up(c) \/ Replace(c) \/ Down(c) \/ Killed(c)
    \/ Proxy
    \/ \E m \in Machines : Loads(m) \/ Preempted(m)

Spec == Init /\ [][Next]_vars

-----------------------------------------------------------------------------
(* Properties.                                                              *)

\* Every machine that is running (and billed) is in state.json or in the
\* sidecar, is in the memory of a command that is still going to record or
\* destroy it, or its id has been printed to the user: no interleaving of
\* down, pause and restart, killed anywhere, forgets a rented machine.
Accounted ==
    \A m \in Machines : vm[m] \in Alive =>
        \/ m \in {disk, side} \cup reported
        \/ \E c \in Commands : pc[c] # "orphan" /\ m \in {mem[c], new[c]}

\* up and replace rent beside the recorded machine, and lose neither when a
\* destroy fails, a machine is preempted or a poll is lost.  They do lose one
\* when the provider cannot be asked (up.py goes on), when a replace is killed
\* (the next one removes its sidecar unread), and when the proxy writes its
\* old copy back.
Harmful == {"lookup", "killed", "proxy"}
AccountedUnlessHarmed == suffered \cap Harmful = {} => Accounted

\* A replace that found a running proxy destroys the old machine only when
\* that proxy has left it (replace.py: "Old instance goes away only after the
\* new backend is confirmed serving").  Three lost polls in a row look like an
\* old proxy without the route, and confirm too early.
NeverDestroysTheServed ==
    [][\A c \in Commands :
        /\ pc[c] = "destroy_old" /\ pc'[c] = "idle" /\ hot /\ vm' # vm
        /\ "request" \notin suffered
        => proxy # mem[c]]_vars
============================================================================
