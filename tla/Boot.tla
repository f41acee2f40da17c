-------------------------------- MODULE Boot --------------------------------
(***************************************************************************)
(* What `up` and `up --restart` do between the creation (or start) of a    *)
(* machine and READY (commands/up.py: _do_fresh_core, _do_restart,         *)
(* _start_instance_runtime; tls.py; src/start.sh on the machine), with TLS *)
(* and the proxy.  Deployment has the same commands as one step: here the  *)
(* instance answers late, wrongly or not at all, its address moves, its    *)
(* server dies, and several ups share the certificate files.               *)
(*                                                                         *)
(* Every wait of the code has a deadline.  A wait is so many rounds here   *)
(* (Rounds), and each turn of its loop is one.  The ups of Late are fresh  *)
(* ones at their certificate when the others begin, on machines that stay  *)
(* up; they are followed until they have delivered it, in one try.         *)
(***************************************************************************)
EXTENDS Integers

CONSTANTS
    Ups,       \* the commands, each with a machine of its own
    Late,      \* those that have got as far as _deliver_tls_cert
    None, Old, \* no value; the certificate of an earlier day
    Rounds,    \* turns of a loop before its deadline
    MaxFlakes  \* wrong answers of the provider, over all

ASSUME LateAssumption == Late \subseteq Ups
ASSUME NoneAssumption == Ups \cap {None, Old} = {}
ASSUME BoundsAssumption == Rounds \in Nat \ {0} /\ MaxFlakes \in Nat

VARIABLES
    minimum,           \* have the profiles a min_gpu_vram_mb?
    restart, pc, left, \* [Ups -> ...]: `up --restart`, the step, rounds left
    check,             \* [Ups -> which poll of _ensure_instance_alive is next]
    seen,              \* seen_instance
    mem, url,          \* state.ssh_url; the one wait_for_ssh goes on with
    plain,             \* state.unsecure
    copy,              \* client_state.ssh_url; its unsecure is TRUE
    file,              \* state.json: ssh_url, unsecure, status
    why,               \* what the command failed with
    vm, addr, server,  \* the machine, its address, start.sh on it
    served, trust,     \* whose certificate the server has loaded, and the proxy verifies with
    crt, key, ca,      \* the files of .hostai-cache/tls: whose they are
    lock, due,         \* allocation_lock; the certificate is to be renewed
    got, cert,         \* the pair a command has read, and has delivered
    overtaken,         \* history: the ups that were delivering when another began to renew
    flakes

command == <<restart, pc, left, check, seen, mem, plain, url, copy, file, why, trust>>
machine == <<vm, addr, server, served>>
tls == <<crt, key, ca, lock, due, got, cert, overtaken>>
vars == <<minimum, command, machine, tls, flakes>>

Owners == Ups \cup {Old, None}
Addrs == {1, 2}
Steps == {"start", "endpoint", "ssh", "revive", "gpu", "runtime", "tls", "key", "crt", "ca",
          "deliver", "readkey", "send", "cache", "proxy", "health", "restore", "ready", "failed"}
Reasons == {"none", "lost", "timeout", "status", "start", "gpu", "runtime", "openssl", "tls", "shm", "proxy"}
Statuses == {"unseen", "loading", "starting", "running", "stopped", "exited", "gone"}
Servers == {"none", "download", "tlswait", "serving", "dead"}

TypeOK ==
    /\ minimum \in BOOLEAN
    /\ restart \in [Ups -> BOOLEAN] /\ pc \in [Ups -> Steps] /\ left \in [Ups -> 0..Rounds]
    /\ check \in [Ups -> {"no", "first", "second"}] /\ seen \in [Ups -> BOOLEAN]
    /\ mem \in [Ups -> Addrs \cup {None}] /\ url \in [Ups -> Addrs \cup {None}]
    /\ copy \in [Ups -> Addrs \cup {None}] /\ plain \in [Ups -> BOOLEAN]
    /\ file \in [Ups -> [ssh : Addrs \cup {None}, unsecure : BOOLEAN,
                         status : {"provisioning", "ssh-ready", "running"}]]
    /\ why \in [Ups -> Reasons]
    /\ vm \in [Ups -> Statuses] /\ addr \in [Ups -> Addrs \cup {None}] /\ server \in [Ups -> Servers]
    /\ crt \in Owners /\ key \in Owners /\ ca \in Owners
    /\ served \in [Ups -> Owners] /\ trust \in [Ups -> Owners]
    /\ lock \in Ups \cup {None} /\ due \in BOOLEAN
    /\ got \in [Ups -> Owners] /\ cert \in [Ups -> [crt : Owners, key : Owners]]
    /\ overtaken \subseteq Ups
    /\ flakes \in 0..MaxFlakes

NoPair == [crt |-> None, key |-> None]

Init ==
    /\ minimum \in BOOLEAN
    /\ restart \in [Ups -> BOOLEAN] /\ \A u \in Late : ~restart[u]
    /\ pc = [u \in Ups |-> IF u \in Late THEN "tls" ELSE IF restart[u] THEN "start" ELSE "endpoint"]
    /\ left = [u \in Ups |-> IF u \in Late THEN 1 ELSE Rounds] /\ check = [u \in Ups |-> "no"]
    /\ seen = [u \in Ups |-> FALSE]
    /\ vm \in [Ups -> {"unseen", "stopped", "running"}]
    /\ \A u \in Ups : vm[u] = IF u \in Late THEN "running"
                              ELSE IF restart[u] THEN vm[u] ELSE "unseen"
    /\ \A u \in Ups : restart[u] => vm[u] # "unseen"
    /\ addr = [u \in Ups |-> IF vm[u] = "unseen" THEN None ELSE 1]
    /\ mem = addr /\ url = [u \in Ups |-> None] /\ copy = [u \in Ups |-> None]
    /\ \E left_unsecure \in SUBSET {u \in Ups : restart[u]} :
         file = [u \in Ups |-> [ssh |-> addr[u], unsecure |-> u \in left_unsecure,
                                status |-> IF restart[u] THEN "running" ELSE "provisioning"]]
    /\ plain = [u \in Ups |-> FALSE]
    /\ why = [u \in Ups |-> "none"]
    /\ server \in [Ups -> Servers]
    /\ \A u \in Ups : server[u] \in
         IF u \in Late THEN {"tlswait"} ELSE IF restart[u] /\ vm[u] = "running"
         THEN {"serving", "dead"} ELSE {"none"}
    /\ served = [u \in Ups |-> IF server[u] = "serving" THEN Old ELSE None]
    /\ trust = [u \in Ups |-> None]
    /\ crt = Old /\ key = Old /\ ca = Old /\ lock = None /\ due \in BOOLEAN
    /\ got = [u \in Ups |-> None] /\ cert = [u \in Ups |-> NoPair] /\ overtaken = {} /\ flakes = 0

Goto(u, from, to) == pc[u] = from /\ check[u] = "no" /\ pc' = [pc EXCEPT ![u] = to]

\* The command raises.
Fails(u, reason) == pc' = [pc EXCEPT ![u] = "failed"] /\ why' = [why EXCEPT ![u] = reason]

\* Mutant: a loop that does not look at the clock.
TurnsAnyway(u) == left' = [left EXCEPT ![u] = @ - 1]

\* One turn of a loop that goes on.
Turn(u) == left[u] > 0 /\ left' = [left EXCEPT ![u] = @ - 1]

\* Something that state.ssh_url reaches.
Reachable(u, a) == vm[u] = "running" /\ a = addr[u] /\ a # None

-----------------------------------------------------------------------------
(* Asking the provider.                                                     *)

\* What get_instance may say: what is, an exception, or (MaxFlakes) nothing.
Answers(u) ==
    {"error"} \cup (IF vm[u] \in {"unseen", "gone"} THEN {"absent"}
                    ELSE {IF vm[u] = "starting" THEN "stopped" ELSE vm[u]})
              \cup (IF flakes < MaxFlakes THEN {"absent"} ELSE {})

Counts(u, answer) ==
    flakes' = IF answer = "absent" /\ vm[u] \notin {"unseen", "gone"} THEN flakes + 1 ELSE flakes

\* _instance_alive; `stopped` is dead but for the ssh wait of a restart.
Dead(u, answer) ==
    \/ answer = "absent"
    \/ answer \in {"exited", "stopped"} \ (IF restart[u] /\ pc[u] = "ssh" THEN {"stopped"} ELSE {})

\* A live instance whose address has moved: the state at hand is saved with
\* the new one.  In the health wait it is client_state, the copy that says
\* unsecure.
Refreshes(u, answer) ==
    IF answer = "error" \/ addr[u] = None THEN UNCHANGED <<mem, copy, file>>
    ELSE IF pc[u] = "health"
    THEN /\ copy' = [copy EXCEPT ![u] = addr[u]]
         /\ file' = IF copy[u] = addr[u] THEN file
                    ELSE [file EXCEPT ![u].ssh = addr[u], ![u].unsecure = TRUE]
         /\ UNCHANGED mem
    ELSE /\ mem' = [mem EXCEPT ![u] = addr[u]]
         /\ file' = IF mem[u] = addr[u] THEN file
                    ELSE [file EXCEPT ![u].ssh = addr[u], ![u].unsecure = plain[u]]
         /\ UNCHANGED copy

\* Mutant: one poll is enough.
PollsOnce(u) ==
    \E answer \in Answers(u) :
      /\ Counts(u, answer)
      /\ check[u] # "no"
      /\ IF Dead(u, answer)
           THEN Fails(u, "lost") /\ UNCHANGED <<mem, copy, file>>
           ELSE Refreshes(u, answer) /\ UNCHANGED <<pc, why>>
      /\ check' = [check EXCEPT ![u] = "no"]
      /\ UNCHANGED <<restart, left, seen, plain, url, trust, machine, tls>>

\* _ensure_instance_alive: "death is confirmed by a second poll".
Polls(u) ==
    \E answer \in Answers(u) :
      /\ Counts(u, answer)
      /\ check[u] # "no"
      /\ IF Dead(u, answer)
           THEN /\ IF check[u] = "second" THEN Fails(u, "lost") ELSE UNCHANGED <<pc, why>>
                /\ check' = [check EXCEPT ![u] = IF @ = "first" THEN "second" ELSE "no"]
                /\ UNCHANGED <<mem, copy, file>>
           ELSE /\ Refreshes(u, answer) /\ check' = [check EXCEPT ![u] = "no"]
                /\ UNCHANGED <<pc, why>>
      /\ UNCHANGED <<restart, left, seen, plain, url, trust, machine, tls>>

-----------------------------------------------------------------------------
(* The command.                                                             *)

\* _do_restart: a machine that is not running is started.
Starts(u) ==
    /\ pc[u] = "start"
    /\ \/ /\ pc' = [pc EXCEPT ![u] = "endpoint"]
          /\ vm' = [vm EXCEPT ![u] = IF @ = "stopped" THEN "starting" ELSE @]
          /\ UNCHANGED why
       \/ vm[u] # "running" /\ Fails(u, "start") /\ UNCHANGED vm
    /\ UNCHANGED <<restart, left, check, seen, mem, plain, url, copy, file, trust, addr, server, served, tls, flakes>>

\* Mutant: the loop goes on without a look at the clock.
AsksAgain(u) ==
    /\ pc[u] = "endpoint" /\ check[u] = "no"
    /\ UNCHANGED <<command, machine, tls, flakes>>

\* _wait_for_ssh_endpoint, a turn that does not end it: an exception, an
\* instance that is not listed (any more), or one without an address.
Asks(u) ==
    /\ pc[u] = "endpoint" /\ check[u] = "no" /\ Turn(u)
    /\ \E answer \in Answers(u) :
         /\ answer # "exited"
         /\ answer \in {"error", "absent"} \/ addr[u] = None
         /\ Counts(u, answer)
         /\ seen' = [seen EXCEPT ![u] = @ \/ answer \notin {"error", "absent"}]
         /\ check' = [check EXCEPT ![u] = IF answer = "absent" /\ seen[u] THEN "first" ELSE "no"]
    /\ UNCHANGED <<restart, pc, mem, plain, url, copy, file, why, trust, machine, tls>>

\* "instance entered status": one answer is enough here.
SeesItEnded(u) ==
    /\ pc[u] = "endpoint" /\ check[u] = "no" /\ left[u] > 0 /\ vm[u] = "exited"
    /\ Fails(u, "status")
    /\ UNCHANGED <<restart, left, check, seen, mem, plain, url, copy, file, trust, machine, tls, flakes>>

SeesTheEndpoint(u) ==
    /\ left[u] > 0 /\ addr[u] # None /\ vm[u] \notin {"unseen", "gone", "exited"}
    /\ Goto(u, "endpoint", "ssh")
    /\ mem' = [mem EXCEPT ![u] = addr[u]] /\ url' = [url EXCEPT ![u] = addr[u]]
    /\ file' = [file EXCEPT ![u] = [ssh |-> addr[u], unsecure |-> plain[u], status |-> "ssh-ready"]]
    /\ left' = [left EXCEPT ![u] = Rounds] /\ seen' = [seen EXCEPT ![u] = FALSE]
    /\ UNCHANGED <<restart, check, plain, copy, why, trust, machine, tls, flakes>>

\* The deadline of the step the command is at.
TimesOut(u) ==
    /\ pc[u] \in {"endpoint", "ssh", "deliver", "health"} /\ check[u] = "no" /\ left[u] = 0
    /\ Fails(u, IF pc[u] = "deliver" THEN "tls" ELSE "timeout")
    /\ UNCHANGED <<restart, left, check, seen, mem, plain, url, copy, file, trust, machine, tls, flakes>>

\* wait_for_ssh: it goes on with the address it began with.
FindsNoSsh(u) ==
    /\ pc[u] = "ssh" /\ check[u] = "no" /\ Turn(u)
    /\ \E c \in {"no", "first"} : check' = [check EXCEPT ![u] = c]
    /\ UNCHANGED <<restart, pc, seen, mem, plain, url, copy, file, why, trust, machine, tls, flakes>>

FindsSsh(u) ==
    /\ left[u] > 0 /\ Reachable(u, url[u]) /\ Goto(u, "ssh", IF restart[u] THEN "revive" ELSE "gpu")
    /\ left' = [left EXCEPT ![u] = Rounds] /\ url' = [url EXCEPT ![u] = None]
    /\ UNCHANGED <<restart, check, seen, mem, plain, copy, file, why, trust, machine, tls, flakes>>

\* _resurrect_dead_server: pgrep -f also matches the shell that runs the probe,
\* or ssh fails: the verdict is "alive" or empty; where it is "dead", start.sh
\* is run again.
Revives(u) ==
    /\ Goto(u, "revive", "gpu")
    /\ server' \in {server} \cup
         (IF server[u] = "dead" /\ Reachable(u, mem[u]) THEN {[server EXCEPT ![u] = "download"]} ELSE {})
    /\ UNCHANGED <<restart, left, check, seen, mem, plain, url, copy, file, why, trust, served, vm, addr, tls, flakes>>

\* _gpu_vram_preflight (0, 1 or 2) asks nothing for a profile without a minimum.
\* What nvidia-smi says may be too little memory, or unreadable; a failed ssh is
\* unreadable too.
PassesPreflight(u) ==
    /\ minimum => Reachable(u, mem[u])
    /\ Goto(u, "gpu", IF restart[u] THEN "tls" ELSE "runtime")
    /\ UNCHANGED <<restart, left, check, seen, mem, plain, url, copy, file, why, trust, machine, tls, flakes>>

\* A restart destroys the machine (cleanup_on_fail); a fresh up raises.
FailsPreflight(u) ==
    /\ pc[u] = "gpu" /\ minimum /\ Fails(u, "gpu")
    /\ vm' = IF restart[u] THEN [vm EXCEPT ![u] = "gone"] ELSE vm
    /\ UNCHANGED <<restart, left, check, seen, mem, plain, url, copy, file, trust, addr, server, served, tls, flakes>>

\* Of a fresh machine, `llama-server --version` over ssh; there is one try.
RuntimePreflight(u) ==
    /\ pc[u] = "runtime"
    /\ \/ Reachable(u, mem[u]) /\ pc' = [pc EXCEPT ![u] = "tls"] /\ UNCHANGED why
       \/ Fails(u, "runtime")
    /\ UNCHANGED <<restart, left, check, seen, mem, plain, url, copy, file, trust, machine, tls, flakes>>

\* Whoever finds the pair due overtakes those who deliver it.
Overtakes ==
    overtaken' = IF due THEN overtaken \cup {v \in Ups : pc[v] \in {"deliver", "readkey"}} ELSE overtaken

\* Mutant: the pair is looked at, and made, without the lock.
LooksUnlocked(u) ==
    /\ pc[u] = "tls" /\ pc' = [pc EXCEPT ![u] = IF due THEN "key" ELSE "deliver"]
    /\ Overtakes
    /\ UNCHANGED <<restart, left, check, seen, mem, plain, url, copy, file, why, trust, machine, crt, key, ca,
                   lock, due, got, cert, flakes>>

\* _deliver_tls_cert: under allocation_lock, is the pair missing or near its end?
LooksAtTheCert(u) ==
    /\ pc[u] = "tls" /\ lock = None
    /\ pc' = [pc EXCEPT ![u] = IF due THEN "key" ELSE "deliver"]
    /\ lock' = IF due THEN u ELSE None
    /\ Overtakes
    /\ UNCHANGED <<restart, left, check, seen, mem, plain, url, copy, file, why, trust, machine, crt, key, ca,
                   due, got, cert, flakes>>

\* openssl writes the key and then the certificate; it may fail in between,
\* which ends the command and frees the lock.
WritesKey(u) ==
    /\ Goto(u, "key", "crt") /\ key' = u
    /\ UNCHANGED <<restart, left, check, seen, mem, plain, url, copy, file, why, trust, machine, crt, ca, lock,
                   due, got, cert, overtaken, flakes>>

OpensslFails(u) ==
    /\ pc[u] \in {"key", "crt"} /\ Fails(u, "openssl") /\ lock' = None
    /\ UNCHANGED <<restart, left, check, seen, mem, plain, url, copy, file, trust, machine, crt, key, ca,
                   due, got, cert, overtaken, flakes>>

WritesCrt(u) ==
    /\ Goto(u, "crt", "ca") /\ crt' = u /\ due' = FALSE
    /\ UNCHANGED <<restart, left, check, seen, mem, plain, url, copy, file, why, trust, machine, key, ca, lock,
                   got, cert, overtaken, flakes>>

CopiesCa(u) ==
    /\ Goto(u, "ca", "deliver") /\ ca' = crt /\ lock' = None
    /\ UNCHANGED <<restart, left, check, seen, mem, plain, url, copy, file, why, trust, machine, crt, key,
                   due, got, cert, overtaken, flakes>>

\* deliver_cert reads the two files, without the lock, for every attempt.
ReadsCrt(u) ==
    /\ left[u] > 0 /\ Goto(u, "deliver", "readkey") /\ got' = [got EXCEPT ![u] = crt]
    /\ UNCHANGED <<restart, left, check, seen, mem, plain, url, copy, file, why, trust, machine, crt, key, ca,
                   lock, due, cert, overtaken, flakes>>

\* ... and sends them in one ssh, which start.sh sees done or not begun; the
\* state is saved.
Delivers(u) ==
    /\ Reachable(u, mem[u]) /\ Goto(u, "readkey", "cache")
    /\ left' = [left EXCEPT ![u] = Rounds]
    /\ cert' = [cert EXCEPT ![u] = [crt |-> got[u], key |-> key]]
    /\ file' = [file EXCEPT ![u].ssh = mem[u], ![u].unsecure = plain[u]]
    /\ got' = [got EXCEPT ![u] = None]
    /\ UNCHANGED <<restart, check, seen, mem, plain, url, copy, why, trust, machine, crt, key, ca,
                   lock, due, overtaken, flakes>>

DeliveryFails(u) ==
    /\ Goto(u, "readkey", "deliver") /\ Turn(u) /\ got' = [got EXCEPT ![u] = None]
    /\ \E c \in {"no", "first"} : check' = [check EXCEPT ![u] = c]
    /\ UNCHANGED <<restart, seen, mem, plain, url, copy, file, why, trust, machine, crt, key, ca, lock, due,
                   cert, overtaken, flakes>>

\* _prepare_slot_cache, with a warm slot or cold.
PreparesCache(u) ==
    /\ u \notin Late /\ Goto(u, "cache", "proxy")
    /\ UNCHANGED <<restart, left, check, seen, mem, plain, url, copy, file, why, trust, machine, tls, flakes>>

\* _shm_preflight: too little where that is required, or df cannot be read.
ShmStops(u) ==
    /\ u \notin Late /\ pc[u] = "cache" /\ Fails(u, "shm")
    /\ UNCHANGED <<restart, left, check, seen, mem, plain, url, copy, file, trust, machine, tls, flakes>>

\* _start_client_endpoint: the proxy loads ca.crt; the state is read again, and _wait_for_client_api
\* makes the copy.
StartsTheProxy(u) ==
    /\ pc[u] = "proxy"
    /\ \/ /\ pc' = [pc EXCEPT ![u] = "health"] /\ UNCHANGED why
          /\ mem' = [mem EXCEPT ![u] = file[u].ssh] /\ plain' = [plain EXCEPT ![u] = file[u].unsecure]
          /\ copy' = [copy EXCEPT ![u] = file[u].ssh]
          /\ trust' = [trust EXCEPT ![u] = ca]
       \/ Fails(u, "proxy") /\ UNCHANGED <<mem, plain, copy, trust>>
    /\ UNCHANGED <<restart, left, check, seen, url, file, machine, tls, flakes>>

\* _wait_for_api through the proxy, which goes where state.json says.
FindsNoApi(u) ==
    /\ pc[u] = "health" /\ check[u] = "no" /\ Turn(u)
    /\ \E c \in {"no", "first"} : check' = [check EXCEPT ![u] = c]
    /\ UNCHANGED <<restart, pc, seen, mem, plain, url, copy, file, why, trust, machine, tls, flakes>>

\* Mutant: the state is read again after the wait, not before it.
FindsTheApiAndReloads(u) ==
    /\ left[u] > 0 /\ server[u] = "serving" /\ Reachable(u, file[u].ssh)
    /\ served[u] = trust[u]
    /\ Goto(u, "health", "restore")
    /\ mem' = [mem EXCEPT ![u] = file[u].ssh] /\ plain' = [plain EXCEPT ![u] = file[u].unsecure]
    /\ UNCHANGED <<restart, left, check, seen, url, copy, file, why, trust, machine, tls, flakes>>

FindsTheApi(u) ==
    /\ left[u] > 0 /\ server[u] = "serving" /\ Reachable(u, file[u].ssh)
    /\ served[u] = trust[u]
    /\ Goto(u, "health", "restore")
    /\ UNCHANGED <<restart, left, check, seen, mem, plain, url, copy, file, why, trust, machine, tls, flakes>>

\* The slot is restored or not, and the state of before the wait is saved.
SavesReady(u) ==
    /\ Goto(u, "restore", "ready")
    /\ file' = [file EXCEPT ![u] = [ssh |-> mem[u], unsecure |-> plain[u], status |-> "running"]]
    /\ copy' = [copy EXCEPT ![u] = None]
    /\ UNCHANGED <<restart, left, check, seen, mem, plain, url, why, trust, machine, tls, flakes>>

Command(u) ==
    \/ Polls(u) \/ Starts(u) \/ Asks(u) \/ SeesItEnded(u) \/ SeesTheEndpoint(u) \/ TimesOut(u)
    \/ FindsNoSsh(u) \/ FindsSsh(u) \/ Revives(u) \/ PassesPreflight(u) \/ FailsPreflight(u)
    \/ RuntimePreflight(u) \/ LooksAtTheCert(u) \/ WritesKey(u) \/ OpensslFails(u)
    \/ WritesCrt(u) \/ CopiesCa(u) \/ ReadsCrt(u) \/ Delivers(u) \/ DeliveryFails(u)
    \/ PreparesCache(u) \/ ShmStops(u) \/ StartsTheProxy(u)
    \/ FindsNoApi(u) \/ FindsTheApi(u) \/ SavesReady(u)

-----------------------------------------------------------------------------
(* The machine.                                                             *)

Appears(u) ==
    /\ vm[u] = "unseen" /\ vm' = [vm EXCEPT ![u] = "loading"]
    /\ UNCHANGED <<command, addr, server, served, tls, flakes>>

Runs(u) ==
    /\ vm[u] \in {"loading", "starting"} /\ vm' = [vm EXCEPT ![u] = "running"]
    /\ addr' = [addr EXCEPT ![u] = IF @ = None THEN 1 ELSE @]
    /\ server' = [server EXCEPT ![u] = "download"]
    /\ UNCHANGED <<command, served, tls, flakes>>

\* Vast maps the port anew.
Moves(u) ==
    /\ vm[u] = "running" /\ addr[u] = 1 /\ addr' = [addr EXCEPT ![u] = 2]
    /\ UNCHANGED <<command, vm, server, served, tls, flakes>>

\* Preempted, crashed or removed.
Dies(u) ==
    /\ vm[u] \in {"loading", "running"}
    /\ \E s \in {"stopped", "exited", "gone"} : vm' = [vm EXCEPT ![u] = s]
    /\ server' = [server EXCEPT ![u] = "none"]
    /\ UNCHANGED <<command, addr, served, tls, flakes>>

\* start.sh: the models are down (or the download ends it), and it waits for
\* the certificate, for HOSTAI_TLS_WAIT_TIMEOUT at most.
Downloads(u) ==
    /\ vm[u] = "running" /\ server[u] = "download"
    /\ \E s \in {"tlswait", "dead"} : server' = [server EXCEPT ![u] = s]
    /\ UNCHANGED <<command, vm, addr, served, tls, flakes>>

Serves(u) ==
    /\ vm[u] = "running" /\ server[u] = "tlswait"
    /\ \E s \in {"serving", "dead"} :
         /\ s = "serving" => cert[u] # NoPair
         /\ server' = [server EXCEPT ![u] = s]
         /\ served' = [served EXCEPT ![u] = IF s = "serving" THEN cert[u].crt ELSE None]
    /\ UNCHANGED <<command, vm, addr, tls, flakes>>

ServerDies(u) ==
    /\ server[u] = "serving" /\ server' = [server EXCEPT ![u] = "dead"]
    /\ UNCHANGED <<command, vm, addr, served, tls, flakes>>

Machine(u) ==
    /\ u \notin Late /\ pc[u] \notin {"ready", "failed"}
    /\ \/ Appears(u) \/ Runs(u) \/ Moves(u) \/ Dies(u)
       \/ Downloads(u) \/ Serves(u) \/ ServerDies(u)

\* The day passes at which the pair is due, whoever delivers it just then.  A
\* new one lasts longer than any boot.
FallsDue ==
    /\ ~due /\ crt = Old
    /\ due' = TRUE
    /\ UNCHANGED <<command, machine, crt, key, ca, lock, got, cert, overtaken, flakes>>

Next == ((\E u \in Ups : Command(u) \/ Machine(u)) \/ FallsDue) /\ UNCHANGED minimum

\* A command goes on with what it is at; nothing is asked of the machine.
Spec == Init /\ [][Next]_vars /\ \A u \in Ups : WF_vars(Command(u) /\ UNCHANGED minimum)

-----------------------------------------------------------------------------
(* Properties.                                                              *)

\* _ensure_instance_alive: "a single flaky API response cannot destroy a
\* healthy provisioning run".  A fresh up that gives its machine up as lost has
\* lost it.
LostIsLost ==
    \A u \in Ups : why[u] = "lost" /\ ~restart[u] => vm[u] \in {"stopped", "exited", "gone"}

\* _deliver_tls_cert: parallel ups "cannot interleave writes and ship a
\* mismatched pair", although each reads the files after it has let the lock
\* go, and openssl may have failed between the two.  Not so, and this the lock
\* cannot help, if the pair falls due after an up has looked at it and another
\* begins to renew it while the first still delivers (up.py:1868-1888,
\* tls.py:115-116).
ShipsAPair == \A u \in Ups : cert[u].crt # cert[u].key => u \in overtaken

\* The health wait works on a copy of the state that says `unsecure`, and a
\* poll in it may save that copy; an earlier restart may have ended there and
\* left it so.  An up that reports READY has put the record right, for it
\* saves a state that was read before the wait, and after a save of its own.
ReadyIsSecure ==
    \A u \in Ups : pc[u] = "ready" => ~file[u].unsecure /\ file[u].status = "running"

\* Every wait has its deadline: whatever the machine and the provider do, the
\* command comes to READY or fails (and its rented machine is destroyed).
EveryBootEnds == \A u \in Ups \ Late : <>(pc[u] \in {"ready", "failed"})
=============================================================================
