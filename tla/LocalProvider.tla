--------------------------- MODULE LocalProvider ---------------------------
(***************************************************************************)
(* The local provider (providers/local.py): hostai commands that run at    *)
(* the same time rent, stop and destroy Docker containers, and share one   *)
(* registry file.  Changes of the file are read-modify-write under an      *)
(* flock (_state_mutation); reads take no lock.  The file is written in    *)
(* place: it is empty between its truncation and the write.                *)
(*                                                                         *)
(* A container carries its instance id as a label, so that one that is not *)
(* in the registry can still be found.  Docker is external: containers     *)
(* run with --rm, so one that stops is gone.                               *)
(***************************************************************************)
EXTENDS Naturals, Functions

CONSTANTS
    Processes,   \* hostai commands, each with a LocalProvider of its own
    Containers,  \* Docker containers
    None,        \* no container, no process
    MaxId        \* bound: instance ids given out

ASSUME NoneAssumption == None \notin Processes \cup Containers
ASSUME MaxIdAssumption == MaxId \in Nat

Ids == 1..MaxId

VARIABLES
    file,     \* what _load_state makes of local-provider.json
    lock,     \* the process that holds .local-provider.lock, or None
    label,    \* [Containers -> id on its label], 0 when it has not been run
    running,  \* the containers that exist
    pc,       \* [Processes -> Steps]
    stage,    \* [Processes -> where it is inside _state_mutation]
    mem,      \* [Processes -> its copy of the registry]
    id,       \* [Processes -> the instance it works on], 0 for none
    target,   \* [Processes -> the container it works on, or None]
    granted,  \* history: [Ids -> the container create_instance returned, or None]
    ended,    \* history: the ids whose entry a destroy has removed
    damaged   \* history: a process was killed between truncation and write

vars == <<file, lock, label, running, pc, stage, mem, id, target, granted, ended, damaged>>
docker == <<label, running>>
local == <<mem, id, target>>
history == <<granted, ended, damaged>>

\* An entry is a container and whether its SSH port has been recorded.
Entries == [container : Containers, port : BOOLEAN]
Registry == [containers : UNION {[D -> Entries] : D \in SUBSET Ids}, next_id : 0..MaxId]

\* A file that is missing, or empty, or cannot be parsed.
Empty == [containers |-> <<>>, next_id |-> 0]

Mutations == {"reserve", "register", "unregister", "note_port"}
Steps == Mutations \cup {"idle", "run", "port", "resolve", "rm", "stop", "read", "inspect"}

TypeOK ==
    /\ file \in Registry
    /\ lock \in Processes \cup {None}
    /\ label \in [Containers -> {0} \cup Ids] /\ running \subseteq Containers
    /\ pc \in [Processes -> Steps]
    /\ stage \in [Processes -> {"wait", "held", "truncated"}]
    /\ mem \in [Processes -> Registry]
    /\ id \in [Processes -> {0} \cup Ids]
    /\ target \in [Processes -> Containers \cup {None}]
    /\ granted \in [Ids -> Containers \cup {None}]
    /\ ended \subseteq Ids /\ damaged \in BOOLEAN

Init ==
    /\ file = Empty /\ lock = None
    /\ label = [c \in Containers |-> 0] /\ running = {}
    /\ pc = [p \in Processes |-> "idle"]
    /\ stage = [p \in Processes |-> "wait"]
    /\ mem = [p \in Processes |-> Empty]
    /\ id = [p \in Processes |-> 0]
    /\ target = [p \in Processes |-> None]
    /\ granted = [i \in Ids |-> None]
    /\ ended = {} /\ damaged = FALSE

Goto(p, from, to) == pc[p] = from /\ pc' = [pc EXCEPT ![p] = to]

\* The operation ends; what the process remembers of it is dropped.
Forgets(p) ==
    /\ mem' = [mem EXCEPT ![p] = Empty]
    /\ id' = [id EXCEPT ![p] = 0] /\ target' = [target EXCEPT ![p] = None]
Return(p, from) == Goto(p, from, "idle") /\ Forgets(p)

-----------------------------------------------------------------------------
(* _state_mutation: lock, load, change, save, unlock.                       *)

\* The change each user of it makes to the registry it has loaded.
Changed(p, r) ==
    CASE pc[p] = "reserve" -> [r EXCEPT !.next_id = @ + 1]
      [] pc[p] = "register" ->
           [r EXCEPT !.containers =
               [i \in DOMAIN @ \cup {id[p]} |->
                   IF i = id[p] THEN [container |-> target[p], port |-> FALSE] ELSE @[i]]]
      [] pc[p] = "unregister" ->
           [r EXCEPT !.containers = Restrict(@, DOMAIN @ \ {id[p]})]
      [] pc[p] = "note_port" ->
           [r EXCEPT !.containers =
               [i \in DOMAIN @ |-> IF i = id[p] THEN [@[i] EXCEPT !.port = TRUE] ELSE @[i]]]

\* Mutant: the copy in memory is not read again under the lock.
LoadsStale(p) ==
    /\ pc[p] \in Mutations /\ stage[p] = "wait" /\ lock = None
    /\ Changed(p, mem[p]).next_id <= MaxId
    /\ lock' = p /\ stage' = [stage EXCEPT ![p] = "held"]
    /\ mem' = [mem EXCEPT ![p] = Changed(p, mem[p])]
    /\ UNCHANGED <<file, docker, pc, id, target, history>>

Loads(p) ==
    /\ pc[p] \in Mutations /\ stage[p] = "wait" /\ lock = None
    /\ Changed(p, file).next_id <= MaxId
    /\ lock' = p /\ stage' = [stage EXCEPT ![p] = "held"]
    /\ mem' = [mem EXCEPT ![p] = Changed(p, file)]
    /\ UNCHANGED <<file, docker, pc, id, target, history>>

\* write_text opens the file for writing, which empties it ...
Truncates(p) ==
    /\ lock = p /\ stage[p] = "held"
    /\ stage' = [stage EXCEPT ![p] = "truncated"]
    /\ file' = Empty
    /\ UNCHANGED <<lock, docker, pc, local, history>>

\* ... and writes it; the lock is released.
Writes(p) ==
    /\ lock = p /\ stage[p] = "truncated"
    /\ stage' = [stage EXCEPT ![p] = "wait"]
    /\ file' = mem[p] /\ lock' = None
    /\ IF pc[p] = "reserve"
         THEN /\ Goto(p, "reserve", "run")
              /\ id' = [id EXCEPT ![p] = mem[p].next_id]
              /\ UNCHANGED <<mem, target>>
         ELSE Return(p, pc[p])
    /\ granted' = IF pc[p] = "register" THEN [granted EXCEPT ![id[p]] = target[p]] ELSE granted
    /\ ended' = CASE pc[p] = "unregister" -> ended \cup {id[p]}
                  [] pc[p] = "register" -> ended \ {id[p]}
                  [] OTHER -> ended
    /\ UNCHANGED <<docker, damaged>>

-----------------------------------------------------------------------------
(* create_instance: reserve an id, run a container, register it.            *)

Creates(p) ==
    /\ Goto(p, "idle", "reserve")
    /\ UNCHANGED <<file, lock, docker, stage, local, history>>

\* docker run: a container with the id on its label, or an error.
Runs(p) ==
    /\ \/ \E c \in Containers :
            /\ label[c] = 0
            /\ Goto(p, "run", "port")
            /\ label' = [label EXCEPT ![c] = id[p]] /\ running' = running \cup {c}
            /\ target' = [target EXCEPT ![p] = c] /\ UNCHANGED <<mem, id>>
       \/ Return(p, "run") /\ UNCHANGED docker
    /\ UNCHANGED <<file, lock, stage, history>>

\* The port Docker has mapped is asked for; without one the container is
\* left behind, unregistered.
LooksUpPort(p) ==
    /\ \/ Goto(p, "port", "register") /\ UNCHANGED local
       \/ Return(p, "port")
    /\ UNCHANGED <<file, lock, docker, stage, history>>

-----------------------------------------------------------------------------
(* destroy_instance and stop_instance.                                      *)

\* The containers `docker ps` finds by the label.
Labelled(i) == {c \in running : label[c] = i}

Ends(p) ==
    /\ Goto(p, "idle", "resolve")
    /\ \E i \in 1..file.next_id \cup DOMAIN file.containers : id' = [id EXCEPT ![p] = i]
    /\ UNCHANGED <<file, lock, docker, stage, mem, target, history>>

\* _container_id_or_label reads the registry without the lock.
Resolves(p) ==
    /\ \E next \in {"rm", "stop"} : Goto(p, "resolve", next)
    /\ mem' = [mem EXCEPT ![p] = file]
    /\ IF id[p] \in DOMAIN file.containers
         THEN target' = [target EXCEPT ![p] = file.containers[id[p]].container]
         ELSE \E c \in Labelled(id[p]) : target' = [target EXCEPT ![p] = c]
    /\ UNCHANGED <<file, lock, docker, stage, id, history>>

NotFound(p) ==
    /\ Return(p, "resolve")
    /\ id[p] \notin DOMAIN file.containers /\ Labelled(id[p]) = {}
    /\ UNCHANGED <<file, lock, docker, stage, history>>

\* docker rm: an error is swallowed, a timeout is not.
Removes(p) ==
    /\ \/ Goto(p, "rm", "unregister") /\ UNCHANGED local
       \/ Return(p, "rm")
    /\ running' \in {running, running \ {target[p]}}
    /\ UNCHANGED <<file, lock, label, stage, history>>

Stops(p) ==
    /\ Return(p, "stop")
    /\ running' \in {running, running \ {target[p]}}
    /\ UNCHANGED <<file, lock, label, stage, history>>

-----------------------------------------------------------------------------
(* get_instance.                                                            *)

\* It is asked for an id that create_instance has returned.
Gets(p) ==
    /\ Goto(p, "idle", "read")
    /\ \E i \in Ids : granted[i] # None /\ id' = [id EXCEPT ![p] = i]
    /\ UNCHANGED <<file, lock, docker, stage, mem, target, history>>

\* Mutant: the entry is taken for the container.
ReadsEntry(p) ==
    /\ Goto(p, "read", "inspect")
    /\ mem' = [mem EXCEPT ![p] = file]
    /\ target' = [target EXCEPT ![p] =
           IF id[p] \in DOMAIN file.containers THEN file.containers[id[p]] ELSE None]
    /\ UNCHANGED <<file, lock, docker, stage, id, history>>

\* The registered container, ...
ReadsRegistry(p) ==
    /\ Goto(p, "read", "inspect")
    /\ mem' = [mem EXCEPT ![p] = file]
    /\ target' = [target EXCEPT ![p] =
           IF id[p] \in DOMAIN file.containers THEN file.containers[id[p]].container ELSE None]
    /\ UNCHANGED <<file, lock, docker, stage, id, history>>

\* ... or one that carries the id.
FindsOrphan(p) ==
    /\ Return(p, "inspect")
    /\ target[p] = None /\ Labelled(id[p]) # {}
    /\ UNCHANGED <<file, lock, docker, stage, history>>

\* The row says running; its port is recorded, if it is new and Docker
\* names one.
FindsRegistered(p) ==
    /\ pc[p] = "inspect" /\ target[p] \in running
    /\ \/ Return(p, "inspect")
       \/ /\ ~mem[p].containers[id[p]].port
          /\ Goto(p, "inspect", "note_port") /\ UNCHANGED local
    /\ UNCHANGED <<file, lock, docker, stage, history>>

\* Mutant: no search for a container that is not registered.
MissesOrphans(p) ==
    /\ Return(p, "inspect")
    /\ target[p] \notin running
    /\ UNCHANGED <<file, lock, docker, stage, history>>

\* The row says exited, or there is none.
Misses(p) ==
    /\ Return(p, "inspect")
    /\ IF target[p] = None THEN Labelled(id[p]) = {} ELSE target[p] \notin running
    /\ UNCHANGED <<file, lock, docker, stage, history>>

-----------------------------------------------------------------------------

\* A command is killed anywhere; the system releases its flock.
Killed(p) ==
    /\ pc[p] # "idle"
    /\ pc' = [pc EXCEPT ![p] = "idle"] /\ stage' = [stage EXCEPT ![p] = "wait"]
    /\ lock' = IF lock = p THEN None ELSE lock
    /\ damaged' = (damaged \/ stage[p] = "truncated")
    /\ Forgets(p)
    /\ UNCHANGED <<file, docker, granted, ended>>

\* A container exits by itself.
Exits ==
    /\ \E c \in running : running' = running \ {c}
    /\ UNCHANGED <<file, lock, label, pc, stage, local, history>>

Mutation(p) == Loads(p) \/ Truncates(p) \/ Writes(p)
Create(p) == Creates(p) \/ Runs(p) \/ LooksUpPort(p)
End(p) == Ends(p) \/ Resolves(p) \/ NotFound(p) \/ Removes(p) \/ Stops(p)
Get(p) == Gets(p) \/ ReadsRegistry(p) \/ FindsOrphan(p) \/ FindsRegistered(p) \/ Misses(p)

Next ==
    \/ \E p \in Processes : Mutation(p) \/ Create(p) \/ End(p) \/ Get(p) \/ Killed(p)
    \/ Exits

Spec == Init /\ [][Next]_vars

-----------------------------------------------------------------------------
(* Properties.  A registry that a killed writer has left empty is lost, and *)
(* ids are given out again; the first two are about the others.             *)

\* _state_mutation: a command cannot "drop the sibling's container entry".
\* What create_instance returned stays registered until it is destroyed.
KeepsEveryEntry ==
    ~damaged /\ (\A p \in Processes : stage[p] # "truncated") =>
        \A i \in Ids : granted[i] # None /\ i \notin ended =>
            /\ i \in DOMAIN file.containers
            /\ file.containers[i].container = granted[i]

\* No two containers carry the same instance id.
IdsAreUnique ==
    ~damaged => \A c, d \in Containers : label[c] = label[d] /\ label[c] # 0 => c = d

\* get_instance never calls a running container exited or unknown, although
\* it reads a file that is being written: the label is searched for.  (Docker
\* answers here: an inspect that fails is read as exited.)
FindsTheRunning ==
    [][\A p \in Processes :
        Misses(p) => damaged \/ granted[id[p]] \notin running]_vars
============================================================================
