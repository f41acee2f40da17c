# A verification project for hostai

hostai rents a GPU machine from a marketplace (Vast.ai, or Docker on the local
host), boots llama-server on it, and keeps a local OpenAI endpoint in front of
it. This directory holds TLA+ models of the parts where several processes meet,
the TLC configurations that check them, and TLAPS proofs about the core. Paths
below are relative to `src/hostai/` unless they name another place.

## 1. The system

| Part | State it keeps | Operations | Meets the others through |
|---|---|---|---|
| lifecycle commands (`commands/up.py`, `replace.py`, `down.py`) | a private copy of `state.json`, the sidecar `state.replace.json` of a replace, the rented machine | `up`, `up --restart`, `replace`, `down`, `down --pause` | `state.json`, the lifecycle flock, provider calls, the proxy's two status routes, signals to the proxy |
| proxy daemon (`proxy.py`) | its copy of `state.json`, `ready`, the upstream session, failure counters | bootstrap, supervisor loop, retarget, request handlers | reads and writes `state.json`; owns the SSH forward; asks the provider |
| SSH forward (`ssh.py`) | `_UNI_TUNNELS`, one thread per forward, one socket path | `ensure_unix_tunnel`, `stop_unix_tunnel` | threads inside the proxy; all forwards share one path and one registry entry |
| watchdog daemon (`commands/watchdog.py`) | idle clock, counters of consecutive polls, previous metrics | poll, decide, run `down` | llama-server's `/metrics` and `/slots`, the provider, `state.json` |
| monitor daemon (`commands/monitor.py`) | the last alert | reload, search, compare, notify | `state.json`, the marketplace |
| slot cache (`cache.py`) | `current.bin`, `current.json` on the machine and on the cache server | prefetch scripts, save and upload | an flock on the machine, rsync/rclone, llama-server slot actions; the server's directory is shared |
| market (`market.py`) | none | search, filter, score | the provider |
| ports and daemons of several instances (`commands/_common.py`, `up.py`) | pid files, the port in each `state.json`, the allocation lock | choose a port, spawn, look up, stop | the process table, the host's ports, the siblings' `state.json` |
| providers (`providers/`) | Vast: none; local: a registry file | create, start, stop, destroy, list | HTTP, `docker` |
| request path (`proxy.py`, `tokenize.py`, `remote_guard.py`) | per request | tokenize, stream, cut stop strings | clients, the upstream |
| boot (`up.py` from a rented machine to READY; `start.sh` on it) | a private copy of `state.json`, deadlines, marker files | wait for the endpoint, ssh, GPU, server, health; download, TLS wait, start | the provider, ssh, `/health` |
| TLS material (`tls.py`) | certificate, key and CA, one set for all instances | check, renew, deliver | all `up` commands |
| configuration, keys, reports | files | read once, print | - |

What is hard here is not any single function but the long time between two of
its lines. A command reads `state.json`, waits minutes for a machine, and writes
the whole copy back; the proxy does the same; `down` takes no lock on purpose.
Tunnel threads are told to stop and joined for five seconds, and may live
longer. A cutover is confirmed by polling two HTTP routes that may not answer.
A provider call can fail after it worked. A prefetch of an aborted `up` runs on.

What makes each part correct:

- commands: a machine that is running is recorded somewhere, or the user has
  been told its id; the machine that is serving is not destroyed; a deployment
  that was deleted does not come back.
- proxy: it never serves one machine under another's name; it ends up at the
  machine `state.json` settles on; it does not serve a dead machine for ever.
- watchdog: it destroys neither a busy machine nor nothing at all.
- prefetch: one writer; "ok" means that a complete snapshot is there.
- request path: a client that streams gets the answer it would get in one piece,
  and nothing of a stop string.
- ports and daemons: what answers on an instance's port is its own; a stop ends
  only its own daemon, also after a reboot.
- slot save: what is on the server is one whole snapshot; a user who asked for
  the snapshot keeps the machine until it is there.
- boot: it ends; it gives up a machine only when that is lost; what it leaves
  behind is a working, secure deployment.
- market and monitor: what is rented or recommended is permitted, and nothing
  better of the same kind was passed over; a lasting saving is told.
- local provider: commands that run at the same time do not drop each other's
  containers from the registry, nor share an instance id.

## 2. Modules

| Module | Models |
|---|---|
| `ProxyPromise` | the abstract proxy: bound machine, open forward, gate |
| `ProxyUpstream` | the upstream half of the daemon with its tunnel threads; implements `ProxyPromise` |
| `Deployment`, `MCDeployment` | all lifecycle commands, `state.json`, the sidecar, machines and the abstract proxy |
| `Watchdog` | the watchdog loop beside requests, outages and other commands |
| `SlotPrefetch`, `MCSlotPrefetch` | the prefetch scripts, run concurrently |
| `TokenStream`, `MCTokenStream` | one chat answer: chunks of token ids in, deltas out |
| `LocalProvider`, `MCLocalProvider` | commands that share the local provider's registry |
| `Instances`, `MCInstances` | ports, proxies, watchdogs and pid files of several instances, with reboots |
| `SlotSave`, `MCSlotSave` | saving and uploading slots by several commands, and a prefetch |
| `Boot` | `up` and `up --restart` from the machine to READY, with the shared certificate |
| `Market`, `MCMarket` | the choice of an offer, and the monitor beside prices that move |
| `Deployment_proofs`, `Boot_proofs`, `LocalProvider_proofs`, `SlotSave_proofs`, `Market_proofs`, `TokenStream_proofs` | TLAPS proofs about the module they are named after |
| `Daemons_proofs` | TLAPS proofs about `ProxyUpstream` and `Instances` |
| `Background_proofs` | TLAPS proofs about `Watchdog` and `SlotPrefetch`, which nobody waits for |

The MC modules add symmetry sets, the stop strings and the market of a run.
`Deployment` is the centre: its wait `boot` is `Boot` in detail, its proxy is
`ProxyPromise`, which `ProxyUpstream` implements, its `down` saves the slot as in
`SlotSave`. `Instances` sets several deployments side by side and keeps of each
only whether its machine is alive. `Daemons_proofs` and `Background_proofs` extend two
modules that share no state, so one of each two has its own names for what every
module has: `ProxyInit`, `ProxyNext`, `ProxySpec`, `ProxyTypeOK`, and the same with
`Watchdog`.

**ProxyUpstream.** `pc` is where the one coroutine is: in `ensure_unix_tunnel`
(`ensure`, `connecting`, `verify`), in the bootstrap, or in an iteration of the
supervisor (`reload`, `stop_old`, `probe`, `props`, `socket`, `dead_check`).
Every `await` and every call that runs in another thread ends a step. The end of
`ensure_unix_tunnel` writes its thread into the entry at the path, whosever that
is by then. `Worker`
is the body of a tunnel thread: it connects, serves, closes, and its `finally`
unlinks the path and pops the registry entry *whoever owns them by then*, which
is what the code does. `SaveState` is `State.save`: the whole copy, abstracted
to the instance id. The environment flips and unlinks `state.json` and changes
servers. The Unix-socket (tokenized) mode is modelled; the TCP mode is not.

**Deployment.** A command is a process; `pc[c]` is the wait it is in, `mem[c]`
the id in its private copy, `new[c]` a machine it has rented. Restarting a
machine, downloading a model and every SSH step are one wait (`boot`, `staged`)
that ends well or badly. `Lock` is the lifecycle flock. The proxy is the one of
`ProxyPromise` with the state-file reload, the gate and the exit; its saves
(`ProxySaves`) are the ones `ProxyUpstream` has found. `reported` collects the
machine ids that an error message or a warning has named: the code's last resort
is to tell the user. `suffered` records which faults a behaviour has had, so that
a property can say which ones it does not survive. A `down --id` (`IdBegins`,
`IdStops`) takes no lock and knows `state.json` alone, so it may stop a machine
that a command has staged or has not recorded yet; each one counts as a fault,
which bounds how many there are.

**Watchdog.** A poll is up to five steps (`metrics`, `slots`, `confirm`,
`confirm_again`, `decide`) so that requests begin and end between them. Clocks
are ages in ticks that stop at their limit; a machine whose `started_epoch` is
not known has the age `Undated`. `finished`, `overlooked` and `held` are history
variables: they record what a request did since the loop last looked.

**SlotPrefetch.** One script per process; `bin` and `part` hold *whose* download
a file is, since that is what interleaved writers confuse. The variable
`transport`, chosen at the start, says which of the two scripts the deployment
runs: they differ in the order of trap, size and lock, and in where the tool
writes.

**TokenStream.** Text is a sequence of five symbols: a word, the shared first
piece of the markers, and their rests, so that a marker and a stop string can
arrive in pieces. `Drain` is `_drain`; `Sent` is its loop, a recursive function of
the position, of which `Turn` is one turn; `emitted` is as in the code; `Chunk`, `Final`, `Breaks` and `Disconnects` are the ways
`_stream_chat` goes on and ends. `Complete` is `_complete_chat`, and the
reference the stream is compared with. Blank space that `_complete_chat` strips,
the JSON inside a call, and the fallback for servers without token ids are left
out; so is an opening thinking marker, which the template puts into the prompt.

**LocalProvider.** A process is one hostai command. `file` is what `_load_state`
makes of the registry, so a file that has been truncated and not yet written is
`Empty`; `stage[p]` is where a process is inside `_state_mutation`. `Changed` is
the body of each of its four uses. `granted`, `ended` and `damaged` are history.

**Instances.** `procs` is the process table: proxies with the port they hold,
watchdogs, and processes that are not hostai's; a reboot empties it and gives the
pids out again. `cmd[i]` is the up or restart of an instance, `down[i]` its
`down`, which takes no lock; `user` is `watchdog start` or `watchdog status`.
`PortIsOurs`, `MatchesNeedles` and the choice under `allocation` are translated
as they stand, so what a command takes for its own process is what the code
takes for it. `stop_daemon` is three steps: it looks at the pid once
(`DownChecksTheWatchdog`), sends SIGTERM (`DownTerminates`), and four seconds later
SIGKILL to whatever runs under that pid by then (`DownKills`); `victim` is the pid
it keeps in the meantime. A proxy ends by itself at any time once it binds, also
because its bootstrap failed. In the mode without tokens the SSH tunnel is in the place of the
proxy (`tunnel`). `crossed` is history: a `down` has met an `up` of its instance.
A command gives up on the API only after its proxy has bound its port or ended
(`Starting`): ten attempts, half a second apart (proxy.py:1328-1338), against
`ssh.start_timeout`, 1200 seconds unless configured otherwise (config.py:231).

**SlotSave.** A save has two halves that do not end together: the command
(`cmd`) and the script on the machine (`script`), which goes on when the
connection is lost. A file is the set of saves whose blocks it holds, with
`Hole` while some are missing; `fd` is the file a script has open, which a rename
may have moved. `Target` is what rsync or rclone writes to; `Reports` is how
`save_and_upload_slot_cache` turns the outcome into a record, or raises.

**Boot.** One step per poll. `Answers` is what `get_instance` may say, also a wrong
answer (`MaxFlakes`) and an exception, which the loops swallow;
`check` is where `_ensure_instance_alive` is between its two polls. `mem`, `url`
and `copy` are the three places an ssh endpoint is remembered in, which may
differ once it moves; `plain` is whether the command's own state says `unsecure`,
and every save writes that. `server` is `start.sh` with llama-server. The certificate
files are named by whose they are, since a mismatch is what can go wrong. The day
at which the pair is due may pass at any moment (`FallsDue`); `overtaken` is
history: the ups that were delivering when another one began to renew it. Ups in
`Late` exist to meet another at the certificate and end there.

**Market.** An offer is a record of what the query, the filters and the score
read. `Matches` is the query, and `Answers` what the provider makes of it, with its
limit and its order; `Score` is the cost model's, as a fraction of whole numbers
(the seconds of a token are a sum of two fractions), and `IsNoDearer` compares two
of them. `pc`, `data`, `left`, `terms`, `found` and `last` are the monitor's loop;
prices, `state.json` and the exclusions in it change between its steps. A round
works on the copy it has loaded, but `State.exists` asks for the file each time,
so `Asks` (kind and ceiling of the search) and `Ranks` (the price to beat) look
at whether it is there *now*. `State.load` looks for the file (`Looks`) and reads it
(`Loads`); a `down` in between ends the watch, since nothing catches the error.
`kept` is history: the offers that stood still during a round.

## 3. Runs

Passing:

| Run | Shows | Bounds |
|---|---|---|
| `ProxyUpstream` | `ServesWhatItReports`, refinement of `ProxyPromise`, `FollowsStateFile`, `NeverServesTheDead` | 2 machines, 2 threads (an old one that outlives its join, and its successor), 2 faults |
| `Deployment` | `AccountedUnlessHarmed`, `NeverDestroysTheServed` for two of up, restart, replace | 2 commands, 3 machines, 3 faults of any kind |
| `DeploymentDowns` | `Accounted` for three of down, pause, restart, with kills | 3 commands, 2 machines, 3 faults, `keep_on_failure` on |
| `Watchdog` | `NoRequestIsCut`, `NeverIdlesForEver`, `NeverWatchesTheDead` | timeout 3, lifetime 4, interval 2 ticks, 3 faults |
| `Prefetch` | `OneWriter`, `OkIsThere` | 3 scripts, both transports |
| `TokenStream` | `SendsNothingOfAStop`, `StreamsTheAnswer` | texts of up to 7 symbols in chunks of up to 3, two stop strings |
| `LocalProvider` | `KeepsEveryEntry`, `IdsAreUnique`, `FindsTheRunning` | 2 commands, 2 containers, 2 ids |
| `Instances` | `ReadyIsItsOwn`, `UpsChooseApart`, `EndsOnlyItsOwn` | 2 instances, 2 ports, 3 pids, 3 commands, 1 reboot |
| `SlotSave` | `PrefetchedIsWhole`, `UploadedWasPublished`, `RequiredUploadBeforeDestroy` | 2 saves, 2 machines, 2 directories, 2 attempts, one prefetch, both transports |
| `Boot` | `LostIsLost`, `ShipsAPair`, `ReadyIsSecure`, `EveryBootEnds` | 1 whole boot and 1 at its certificate, 2 turns per loop (1 for the second delivery), 1 wrong answer, 2 addresses, a pair that falls due at any time |
| `Market` | `RecommendsAnUpgrade`, `RentsTheUndominated`, `IsToldInTheEnd` | 4 offers, 2 profiles in one group, 5 requests, 2 commands, 2 moves of 2 offers, 1 failed search |

The bounds are the smallest at which each interesting meeting happens: a thread
that outlives its successor's start, a second replace after the first, a
timeout that is not a multiple of the poll interval, a third script that finds
what two others left, a thinking marker and a whole tool call in one answer, a
stop string longer than every marker and one that begins like a marker, a reader
beside a writer, two saves of which the second finds what the first left, a port
that a reboot has given to a stranger, a third poll that a deadline cuts, an
offer that is cheaper and beyond the provider's limit, one that is told, gives way
to a better one and comes back (two moves: a monitor that repeats no earlier alert
at all fails). The largest runs are `Deployment` (2.1 million states), `Instances`
(1.9 million) and `Boot` (0.8 million), two to four minutes each. Deadlock is not checked: a command ends, daemons exit, and a
deployment that is down with no machine left to rent really stops.

Two properties name the faults they do not survive. `AccountedUnlessHarmed`
leaves out behaviours with a killed command (the next replace removes its
sidecar unread), a provider that cannot be asked (up goes on and rents a second
machine, an explicit choice), and a save of the proxy's old copy.
`NeverDestroysTheServed` leaves out lost polls: three in a row make the degraded
cutover check trust the old machine. Both are checked with those faults enabled,
so that what is left out is the behaviour and not the fault's other effects.
`KeepsEveryEntry` and `IdsAreUnique` leave out a writer killed between the
truncation of the registry and the write.

Further exceptions are named in the properties. `ReadyIsItsOwn` and
`UpsChooseApart` say nothing once a `down` has crossed an `up` of its own
instance: `down` saves an old copy and removes the record that claims the port.
The three properties of `SlotSave` leave out two uploads that overlap: there is
no lock on the server, and both write one `.current.bin.part`. `PrefetchedIsWhole` is
about rsync, because rclone replaces whole objects. `LostIsLost` is about a fresh
up: a restart takes a stopped machine at its word. `ShipsAPair` leaves out an up
that was `overtaken`: the lock is held for the renewal only, and certificate and key
are read after it, so if the pair falls due after an up has looked at it and
another up renews it just then, the first can ship a mismatched pair
(up.py:1868-1888, tls.py:115-116). `EndsOnlyItsOwn` leaves out, after a reboot, a
sibling's proxy that has the pid of a stale record, because `running_proxy_pid` asks
for a `hostai proxy` without the instance's name. `RecommendsAnUpgrade` compares with
the deployment the round began with: after a replace in mid-round an alert may
name an offer that the new one rules out. `IsToldInTheEnd` is about a watch that
has not ended (monitor.py:324). `NoRequestIsCut` speaks of the last look at the
slots: a request that begins after it can still be cut. In
`RentsTheUndominated` an offer without bandwidth is left out, since the score
gives it the minimum startup time.

One run finds a violation:

| Run | Says | What happens |
|---|---|---|
| `RequiredSnapshotIsKept` | README.md:263-266 of the repository | a save that fails or whose answer is lost counts as an empty slot, and with `HOSTAI_SLOT_CACHE_REQUIRE_SAVE=1` the machine is destroyed all the same; `replace` (replace.py:356-362) catches the exception too |

Other divergences between the code and what it says, met while modelling. They
have no run; the hazard list has most of them at their lines, and the properties
are stated so that they do not depend on them:

- a proxy rebuild that began before a replace's flip saves the old instance id
  back (ssh.py:963; CHANGELOG.md:16), and the bootstrap never reloads `state.json`;
- a `down` between a replace's re-check and its flip is undone (replace.py:429-450);
- without a proxy at the start, a replace confirms nothing (README.md:253-254);
- one failed `down` ends the watchdog (watchdog.py:228; README.md:707), and short
  requests between the polls outlive `max_runtime_seconds` (README.md:708);
- the rsync prefetch sets its trap before its lock and deletes the other's files
  (cache.py:160, 338); its speed check reads a file of size 0 (cache.py:301-303);
- a stop string inside a tool call that is still open loses the text before it
  (proxy.py:340; README.md:51); one that overlaps the end of a call is met too
  late; an empty one empties the answer that is not streamed (proxy.py:661);
- `up --restart` and `ensure_tunnel` choose a port outside the allocation lock
  (README.md:740-742), and `running_proxy_pid` knows a proxy by its command line
  without the instance's name;
- two starters, or a `watchdog status` at the wrong moment, leave a watchdog that
  no pid file names (watchdog.py:371, _common.py:387, 454), and `replace` starts none;
- `replace` forgets the exclusions given to `up` (replace.py:599-600;
  README.md:416-419), and two offers that alternate alert at every round;
- the snapshot budget of README.md:268-270 is not in the code; a save whose commit
  cannot be read shares the directory "unknown" (cache.py:891-910);
- two ups can ship a mismatched certificate pair if it falls due between the check
  of one and the renewal of the other (up.py:1861-1888);
- a `down` between the two halves of `State.load` ends the monitor (monitor.py:324,
  state.py:50-51);
- `stop_daemon` sends SIGKILL to a pid it looked at four seconds before
  (_common.py:413-435);
- in a boot, one `exited` answer ends the endpoint wait (up.py:934), one failed
  `nvidia-smi` over ssh destroys the machine (up.py:1755), and the probe for a dead
  server finds its own shell (up.py:2064).

Fairness. `ProxyUpstream`: the coroutine and the threads are scheduled (weak
fairness); the dead check is strongly fair, because it is made once a minute and
skipped on a provider error, so it may pass a few times but not for ever; a
thread's SSH login ends (it has a timeout). `Watchdog`: the loop and time
progress, and a request ends. `Boot`: a command goes on with what it is at; the
machine need not do anything. `Market`: the monitor's loop goes on as long as
the watch runs (a failed search is passed over; the unguarded `State.load` is
`Loads`, which can end it). Nothing else is fair: no flip, no outage, no
recovery has to happen.

## 4. Proofs

**`Daemons_proofs`**, about `ProxyUpstream`, for every set of machines and threads, from
`FirstAssumption`, `NoneAssumption` and `FaultsAssumption`:

- `UpstreamTypes`: `ProxySpec => []ProxyTypeOK`
- `ServingCorrectness`: `ProxySpec => []ServesWhatItReports`
- `Refinement`: `ProxySpec => Promise!Spec`, initial states and every step

What the proxy serves is not inductive by itself; `ProxyInv` adds why it holds:

- `PathServes`: the thread at the socket path is serving (a closing one has left it);
- `OneLogin`: a thread in its login that nobody has stopped is the one the
  running `ensure_unix_tunnel` started, and there is only that one;
- `CallHasThread`: while that call waits, it has a thread;
- `ForwardLeadsToBound`: a forward nobody has stopped leads to the bound
  machine, except between a retarget and the stop of the old forward, where
- `ClosedWhileStopping`: the gate is closed.

A thread that outlives its join has its stop event set, so it is never the
thread of the property; a retarget closes the gate in the step that moves the
binding. Each step of `ProxyNext` is one step of the proof of `ProxyStepInv`.

**`Deployment_proofs`**, for every set of commands, machines and faults:

- `TypeCorrectness`: `Spec => []TypeOK`, for every kind of command. A command
  that ends reports the ids it remembers, so the invariant has `Remembers`: which
  waits have a machine in memory.
- `Accounting`: `Locked => (Spec => []AccountedUnlessHarmed)`, where `Locked`
  says that the commands are up, restart and replace, those that take the
  lifecycle lock. A `down` takes none on purpose, and the property does not hold
  beside one of the recorded machine; it does beside a `down --id`.

The invariant of `Accounting` is `Tracked`: at most one command is past its
lock, beside those that stop an untracked machine (`OneAtWork`); while up works,
the file names what it has in memory, and an old record belongs to a machine
that is down (`UpKeepsTrack`, `OldIsDown`); while replace works, the file names
the old machine before the flip and the new one after it (`ReplaceKeepsTrack`),
and the sidecar names what it has staged (`SidecarIsStaged`). From these, every
running machine is in the file, in the sidecar, in a command's memory or
reported.

Two more theorems about it have invariants of their own:

- `LeavesBeforeDestroying`: `Locked => (Spec => NeverDestroysTheServed)`, for any
  faults. `CutoverKnows` says what the polls of a cutover have made sure of, as
  long as none was lost: once the proxy was seen at the new machine it has `Left`
  the old one for good (what it follows is the record of the flip), and a proxy
  that is gone has either left or follows a record of a machine that is `Dead`.
  `Fresh` (whoever is remembered was rented once) makes a machine rented later a
  different one (`StagesAnother`).
- `DownsForgetNothing`: `Downs => (Spec => []Accounted)`, where `Downs` says that
  the commands are down, pause and restart: the property of `DeploymentDowns`.
  Nothing is rented, so all who name a machine that is not gone name the same
  one (`OneIsMeant`), and the record is removed only when it is gone
  (`UnlinksTheGone`).

**`LocalProvider_proofs`**, for any number of commands, containers and ids:

- `TypeCorrectness`: the registry stays a registry, whoever is killed where.
- `UniqueIds`: `Spec => []IdsAreUnique`. The invariant `NextIsFresh` says that
  `next_id`, in the file or in the copy about to be written to it, is not below
  an id that is on a label or reserved; `ReservedOnce` that no two reservations
  meet.
- `EntriesAreKept`: `Spec => []KeepsEveryEntry`. The copy of the process with the
  lock has every entry but the one that process changes (`CopiesAreWhole`).
- `RunningIsFound`: `Spec => FindsTheRunning`. Whatever names a container of an
  instance (an entry of the file or of a copy, what a process is looking at, what
  was returned to a caller) names one that carries the id (`Labels`), and no two
  carry the same one.

**`Background_proofs`**, about `Watchdog`, for every configuration of timeout,
lifetime, poll interval and thresholds (`LimitsAssumption`: they are positive):

- `WatchdogTypes`: the clocks and counters stay within their limits.
- `RequestsFinish`: `WatchdogSpec => []NoRequestIsCut`. A request that finished unseen is
  still going to be seen: either the next counters are first ones, or this poll
  has read a change and has the slots left (`WillBeSeen`). Unchanged counters
  were compared with a baseline (`HasBaseline`), a finished request has moved one
  (`FinishedMoved`), and the provider is asked only after failed polls
  (`AsksAfterFailures`), so its answer never stands in for a look at the slots.
  So a poll that calls the machine idle is right (`IdleIsIdle`).

**`Background_proofs`**, about `SlotPrefetch`, for any number of scripts and either
transport:

- `PrefetchTypes`; `MutualExclusion`: `Spec => []OneWriter`. Every script in a
  step that fetches holds the one flock (`HoldsTheLock`).
- `OkMeansItsOwn`: `Spec => OkIsThere`. Where the rclone script
  compares sizes or is about to report, its own download is in place
  (`HasItsOwn`): it has held the flock since before its trap was set
  (`NotTrappedYet`), so nobody else has written or cleaned up in between. The
  rsync script has its trap from the start and cleans up without the flock,
  which is why the property is about rclone.

**`SlotSave_proofs`**, for any number of saves, machines, directories and attempts:

- `TypeCorrectness`, `UploadsArePublished` (`UploadedWasPublished`),
  `RequiredUploadIsKept` (`RequiredUploadBeforeDestroy`), `PrefetchesTheWhole`
  (`PrefetchedIsWhole`).

The invariant is about the saves that do not overlap: two that work on one
machine or in one directory are known to overlap (`Apart`), and the script of a
save that does not is alone with its part file and slot (`Alone`). So a file that
such a script is about to move is whole and its own (`PartsAreGood`), what is
under `current.bin` stays one save's whole snapshot (`ReadsTheGood`), and a `down`
goes on to the destroy only with a record that allows it (`DownGoesOn`).

**`Boot_proofs`**, for any number of ups, addresses and turns:

- `TypeCorrectness`; `PairsAreShipped`: `Spec => []ShipsAPair`. The files are a
  pair unless they are due, and only the holder of the allocation lock is between
  the two (`PairIsGuarded`); who reads them during a renewal is `overtaken`.
- `ReadyTakesItBack`: `Spec => []ReadyIsSecure`. `SecureUpToTheWait`: the state that
  the command holds is never an unsecure one, and from the save of the endpoint
  to the health wait the record is not either, so the reload before the wait reads
  a secure one; with `PollsInAWait`: the second look at a machine, which may save
  the marked copy, is only ever inside a wait.
- `LosesTheLost`: `SingleFlake => (Spec => []LostIsLost)`, where `SingleFlake` says
  that the provider answers wrongly at most once: the code asks twice to survive
  "a single flaky API response" (up.py, `_ensure_instance_alive`). Two wrong
  answers in a row do end a run. `BelievesTheSecond`: after a first bad answer
  either no wrong answer is left or the machine has ended.

**`Daemons_proofs`**, about `Instances`, for any number of instances, ports, pids,
commands and reboots:

- `TypeCorrectness`; `ReadyAnswersItself`: `Spec => []ReadyIsItsOwn`;
  `PortsAreApart`: `Spec => []UpsChooseApart`; `OthersAreSpared`:
  `Spec => EndsOnlyItsOwn`.

Until a `down` has crossed an `up` of its instance: `up` holds the allocation
lock from the choice of a port to the record of its machine
(`ClaimsUnderTheLock`), and from then on its state file claims the port
(`ItsPortIsClaimed`, which needs `DownIsAlone`). A proxy that has not bound yet
belongs to a command that still waits for it on that port (`StartsInItsCommand`),
so no sibling's proxy can bind a port that a later command has chosen, and the
only proxy on a command's port is its own (`OnlyItsProxy`). Without tokens, a port
has at most one tunnel (`OneTunnelPerPort`, `NoProxyBesideTunnels`).

`OthersAreSpared` is about stale pids: the one in `state.json`, the one in the copy
that a `down` has read, `proxy.pid`, a command's child, and the pid that
`stop_daemon` signals twice. `RecordsAreOwn` says that until a reboot each of these
is a daemon of the instance or is free; `VictimsAreOwn` says so, also after one, of
the pid that `stop_daemon` has checked. The second rests on an assumption of the
model, that the host gives no pid out twice in one boot (`used`).

`StartsInItsCommand` found an error in an earlier form of the model: it let a
command time out while its proxy was still trying to bind. Such a proxy outlived
its command, and with four commands, one more than the run allows, it could bind
a port another instance had since been given. The code does not leave room for
that (see `Starting` above) unless the command is killed in those seconds;
`Instances` has no kill, so what a command leaves that is interrupted there is
not covered.

**`Market_proofs`**, for any offers, prices, GPUs, configuration and requests that
are numbers where the code has numbers (`OfferAssumption` and its neighbours; a
listed price is not 1, because a bid is for one less than the price):

- `TypeCorrectness`.
- `AlertsAreUpgrades`: `Spec => []RecommendsAnUpgrade`. What the monitor reads of
  the market is old when it ranks, so the invariant speaks of the offers that have
  not moved since the round began (`kept`): whatever was found, any of these that
  is cheaper and was asked for was found with it (`FoundWithTheCheaper`, since the
  provider shows its cheapest matches), and the alert is for the cheapest upgrade
  of what was found (`AlertIsBest`). What the rented machine is compared with is its
  own record, whose GPU and exclusions are right (`Records`).
- `UndominatedIsRented`: `Spec => []RentsTheUndominated`. An offer that is in no
  respect worse and in one better scores lower, in each of the three modes: less
  time for the download, because the quotient by a larger bandwidth is not larger
  (`FasterIsSooner`), less for the traffic, and a price that multiplies both. The
  choice is a minimum of the score, so the better offer would have been chosen.

**`TokenStream_proofs`**, for any finite set of stop strings, with and without
tools, and for answers and chunks of any length:

- `TypeCorrectness`.
- `StopsAreNotSent`: `StopsEndWithACall => (Spec => []SendsNothingOfAStop)`. What is
  sent ends before anything that may become a stop string or a marker, or right
  behind a whole call (`HeldBack`). `StopsEndWithACall` says that no stop string
  goes on after a `</tool_call>`. The code lets a user send one that does; it could
  begin inside a call that was sent as soon as it was closed, and there TLC finds
  the property violated, so the hypothesis is needed.
- `AnswerIsStreamed`: under the same condition, `Spec => []StreamsTheAnswer`. The
  invariant looks ahead. `Streamed`: whatever is still to come, what has been sent
  followed by what one final flush sends from `emitted` on is what a flush of the
  whole text sends. A chunk keeps it because a loop that stops at a place where it
  may wait, and goes on later with more text, sends the same as one that never
  stopped (`DrainThenRest`); what is found in the prefix is found in the whole, or
  the loop would not have gone past it (`SameSplit`, `SameCall`, `SameStay`). At the
  end nothing is to come, so all that a flush of the whole sends has been sent
  (`Ended`), and that is `_complete_chat`'s answer (`RestIsComplete`). What the
  property leaves out (a call that a stop string left open) is left out of `Ended`.

The loops are recursive functions on positions. What they return is proved
downward from the end of the text: were there a position where it fails, there
would be a last one (`FromTheEnd`, from `LeastNatural`), and the turn at that one
depends only on later positions (`SentUnfolds`).

Each invariant was first checked by TLC on the run's instance; for `Streamed`, on
shorter texts, with up to two symbols still to come.

Only model-checked: all liveness (`FollowsStateFile`, `NeverServesTheDead`,
`NeverIdlesForEver`, `NeverWatchesTheDead`, `EveryBootEnds`, `IsToldInTheEnd`),
since temporal reasoning under fairness and ENABLED are out of the prover's
reach. The violation of `RequiredSnapshotIsKept` is a counterexample, so there is
nothing to prove. Every other property of a passing run is a theorem.

## 5. Not modelled, and the plan

`PROJECT.json` lists every part with its status. Left out for good: parsing of
configuration and profiles, authorized keys, reports, HTTP wrappers, the
validation gate, what the container scripts install, and the token-only guard,
which decides on one request without any state. Left out of the modules above:

- `ProxyUpstream`: the TCP mode, whose tunnel has the same shape; the client
  listeners; a request between its readiness check and its sending.
- `Deployment`: a create that times out after it worked.
- `SlotPrefetch`: a host without the `flock` tool, where the scripts go without a
  lock (cache.py:163).
- `TokenStream`: an answer whose only ids come with its final chunk, which the code
  sends through the text fallback (proxy.py:956-957).
- `Instances`: `hostai proxy` typed by a user, the watchdog's own `down`,
  destroys that fail (all in `Deployment`), and the monitor's pid file, which
  goes through the same three functions. A proxy binds or ends well before the
  120 seconds its starter waits. `_stop_proxy`'s SIGTERM, ten seconds of waiting and
  SIGKILL are one step, and so is the look at a proxy and the signal to it, which
  fails with an uncaught error when the proxy has ended in between.
- `SlotSave`: signatures by content, `cache ls`, `info`, `verify`, `clean`.
- `Boot`: the mode without TLS, the CA file renewed between its delivery and
  the proxy's start, and what the proxy itself saves into `state.json` during the
  health wait (that is in `ProxyUpstream` and `Deployment`). The delivery of the two
  files is one step for `start.sh`, which takes them when both are there and could
  see one half-written (start.sh:381).
- `Market`: the floats of the cost model are fractions of whole numbers; volumes only
  as a flag; monitor group and context size are one `Group`; the options of the
  monitor itself (`--max-price`, `--skip-*`, `--profile`) are left out.

What is left: a kill in `Instances`, with what the next command makes of the
daemon it leaves; and stop strings that go on after a tool call, of which the
proofs about `TokenStream` say nothing.
