------------------------ MODULE LocalProvider_proofs ------------------------
(***************************************************************************)
(* Proofs about LocalProvider: every reachable state is well typed, and    *)
(* as long as no writer is killed in the middle of the file, no two        *)
(* containers carry the same instance id, no registered container is       *)
(* dropped and no running one is reported missing, for any number of       *)
(* commands.                                                               *)
(***************************************************************************)
EXTENDS LocalProvider, TLAPS

-----------------------------------------------------------------------------
(* Type correctness.  A container is registered under an id that has been   *)
(* reserved.                                                                *)

HasItsId ==
    \A p \in Processes :
        /\ pc[p] \in {"run", "port", "register", "resolve", "rm", "unregister"} => id[p] \in Ids
        /\ pc[p] \in {"port", "register"} => target[p] \in Containers
        /\ pc[p] = "reserve" /\ stage[p] # "wait" => mem[p].next_id \in Ids
        /\ stage[p] # "wait" => pc[p] \in Mutations

Typed == TypeOK /\ HasItsId

\* The change made to a registry leaves a registry, up to the bound on ids.
LEMMA ChangedTypes ==
    ASSUME Typed, NEW p \in Processes, NEW r \in Registry, pc[p] \in Mutations,
           Changed(p, r).next_id <= MaxId
    PROVE  /\ Changed(p, r) \in Registry
           /\ Changed(p, r).next_id = IF pc[p] = "reserve" THEN r.next_id + 1 ELSE r.next_id
  <1> DEFINE old == r.containers
  <1>0. PICK D \in SUBSET Ids : old \in [D -> Entries]
    BY DEF Registry
  <1>1. r = [containers |-> old, next_id |-> r.next_id] /\ r.next_id \in 0..MaxId
    BY DEF Registry
  <1>2. CASE pc[p] = "reserve"
    <2>1. Changed(p, r) = [containers |-> old, next_id |-> r.next_id + 1]
      BY <1>1, <1>2 DEF Changed
    <2> QED BY <1>0, <1>1, <1>2, <2>1, MaxIdAssumption DEF Registry
  <1>3. CASE pc[p] = "register"
    <2> DEFINE new == [i \in D \cup {id[p]} |->
                         IF i = id[p] THEN [container |-> target[p], port |-> FALSE] ELSE old[i]]
    <2>1. Changed(p, r) = [containers |-> new, next_id |-> r.next_id]
      BY <1>0, <1>1, <1>3 DEF Changed
    <2>2. id[p] \in Ids /\ target[p] \in Containers
      BY <1>3 DEF Typed, HasItsId
    <2>3. new \in [D \cup {id[p]} -> Entries]
      BY <1>0, <2>2 DEF Entries
    <2>4. new \in UNION {[E -> Entries] : E \in SUBSET Ids}
      BY <2>2, <2>3
    <2> HIDE DEF new
    <2> QED BY <1>1, <1>3, <2>1, <2>4 DEF Registry
  <1>4. CASE pc[p] = "unregister"
    <2> DEFINE new == [i \in D \ {id[p]} |-> old[i]]
    <2>1. Changed(p, r) = [containers |-> new, next_id |-> r.next_id]
      BY <1>0, <1>1, <1>4 DEF Changed, Restrict
    <2>2. new \in [D \ {id[p]} -> Entries]
      BY <1>0
    <2>3. new \in UNION {[E -> Entries] : E \in SUBSET Ids}
      BY <2>2
    <2> HIDE DEF new
    <2> QED BY <1>1, <1>4, <2>1, <2>3 DEF Registry
  <1>5. CASE pc[p] = "note_port"
    <2> DEFINE new == [i \in D |-> IF i = id[p] THEN [old[i] EXCEPT !.port = TRUE] ELSE old[i]]
    <2>1. Changed(p, r) = [containers |-> new, next_id |-> r.next_id]
      BY <1>0, <1>1, <1>5 DEF Changed
    <2>2. new \in [D -> Entries]
      BY <1>0 DEF Entries
    <2>3. new \in UNION {[E -> Entries] : E \in SUBSET Ids}
      BY <2>2
    <2> HIDE DEF new
    <2> QED BY <1>1, <1>5, <2>1, <2>3 DEF Registry
  <1> QED BY <1>2, <1>3, <1>4, <1>5 DEF Mutations

LEMMA EmptyTypes == Empty \in Registry
  <1>1. <<>> \in [{} -> Entries]
    OBVIOUS
  <1>2. <<>> \in UNION {[D -> Entries] : D \in SUBSET Ids}
    BY <1>1
  <1> QED BY <1>2, MaxIdAssumption DEF Empty, Registry

LEMMA RegistryTypes ==
    ASSUME NEW r \in Registry
    PROVE  /\ r.next_id \in 0..MaxId /\ DOMAIN r.containers \subseteq Ids
           /\ \A i \in DOMAIN r.containers : r.containers[i].container \in Containers
  <1>1. PICK D \in SUBSET Ids : r.containers \in [D -> Entries]
    BY DEF Registry
  <1> QED BY <1>1 DEF Registry, Entries

\* What a process remembers after its operation has ended.
LEMMA ForgetsTypes ==
    ASSUME TypeOK, NEW p \in Processes, Forgets(p)
    PROVE  /\ mem' \in [Processes -> Registry] /\ id' \in [Processes -> {0} \cup Ids]
           /\ target' \in [Processes -> Containers \cup {None}]
           /\ \A q \in Processes \ {p} : mem'[q] = mem[q] /\ id'[q] = id[q] /\ target'[q] = target[q]
  BY EmptyTypes DEF Forgets, TypeOK

LEMMA InitTypes == Init => Typed
  <1> SUFFICES ASSUME Init PROVE Typed
    OBVIOUS
  <1>1. TypeOK
    BY EmptyTypes DEF Init, TypeOK, Steps
  <1>2. HasItsId
    BY DEF Init, HasItsId, Mutations
  <1> QED BY <1>1, <1>2 DEF Typed

LEMMA StepTypes == Typed /\ [Next]_vars => Typed'
  <1> SUFFICES ASSUME Typed, [Next]_vars PROVE Typed'
    OBVIOUS
  <1> USE DEF Typed
  <1>1. ASSUME NEW p \in Processes, Loads(p) PROVE Typed'
    <2>1. /\ Changed(p, file) \in Registry
          /\ Changed(p, file).next_id = IF pc[p] = "reserve" THEN file.next_id + 1 ELSE file.next_id
      BY <1>1, ChangedTypes DEF Loads, TypeOK
    <2>2. file.next_id \in 0..MaxId /\ Changed(p, file).next_id \in 0..MaxId
      BY <2>1 DEF TypeOK, Registry
    <2>3. TypeOK'
      BY <1>1, <2>1 DEF Loads, TypeOK, docker, history
    <2>4. HasItsId'
      BY <1>1, <2>1, <2>2, MaxIdAssumption DEF Loads, TypeOK, HasItsId, docker, history, Ids
    <2> QED BY <2>3, <2>4
  <1>2. ASSUME NEW p \in Processes, Truncates(p) PROVE Typed'
    BY <1>2, EmptyTypes DEF Truncates, TypeOK, HasItsId, docker, local, history
  <1>3. ASSUME NEW p \in Processes, Writes(p) PROVE Typed'
    <2>1. CASE pc[p] = "reserve"
      BY <1>3, <2>1 DEF Writes, TypeOK, HasItsId, docker, Goto, Mutations, Steps
    <2>2. CASE pc[p] # "reserve"
      <3>1. Return(p, pc[p])
        BY <1>3, <2>2 DEF Writes
      <3>2. /\ pc[p] \in {"register", "unregister"} => id[p] \in Ids
            /\ pc[p] = "register" => target[p] \in Containers
        BY DEF HasItsId
      <3>3. TypeOK'
        BY <1>3, <2>2, <3>1, <3>2, ForgetsTypes DEF Writes, Return, Goto, TypeOK, docker, Steps
      <3>4. HasItsId'
        BY <1>3, <2>2, <3>1, ForgetsTypes DEF Writes, Return, Goto, TypeOK, HasItsId, Mutations
      <3> QED BY <3>3, <3>4
    <2> QED BY <2>1, <2>2
  <1>4. ASSUME NEW p \in Processes, Return(p, pc[p]), stage[p] = "wait",
               UNCHANGED <<file, lock, label, stage, history>>, running' \subseteq Containers
        PROVE Typed'
    BY <1>4, ForgetsTypes DEF Return, Goto, TypeOK, HasItsId, history, Steps
  <1>5. ASSUME NEW p \in Processes, Creates(p) PROVE Typed'
    BY <1>5 DEF Creates, Goto, TypeOK, HasItsId, docker, local, history, Steps, Mutations
  <1>6. ASSUME NEW p \in Processes, Runs(p) PROVE Typed'
    <2>1. CASE Return(p, "run") /\ UNCHANGED docker
      BY <1>6, <2>1, <1>4 DEF Runs, Return, Goto, TypeOK, HasItsId, docker, Mutations
    <2>2. ASSUME NEW c \in Containers, Goto(p, "run", "port"),
                 label' = [label EXCEPT ![c] = id[p]], running' = running \cup {c},
                 target' = [target EXCEPT ![p] = c], UNCHANGED <<mem, id>>
          PROVE Typed'
      BY <1>6, <2>2 DEF Runs, Goto, TypeOK, HasItsId, history, Steps, Mutations
    <2> QED BY <1>6, <2>1, <2>2 DEF Runs
  <1>7. ASSUME NEW p \in Processes, LooksUpPort(p) PROVE Typed'
    <2>1. CASE Return(p, "port")
      BY <1>7, <2>1, <1>4 DEF LooksUpPort, Return, Goto, TypeOK, HasItsId, docker, Mutations
    <2>2. CASE Goto(p, "port", "register") /\ UNCHANGED local
      BY <1>7, <2>2 DEF LooksUpPort, Goto, TypeOK, HasItsId, docker, local, history, Steps, Mutations
    <2> QED BY <1>7, <2>1, <2>2 DEF LooksUpPort
  <1>8. ASSUME NEW p \in Processes, Ends(p) PROVE Typed'
    <2>1. PICK i \in 1..file.next_id \cup DOMAIN file.containers : id' = [id EXCEPT ![p] = i]
      BY <1>8 DEF Ends
    <2>2. i \in Ids
      BY <2>1, RegistryTypes, MaxIdAssumption DEF TypeOK, Ids
    <2> QED BY <1>8, <2>1, <2>2 DEF Ends, Goto, TypeOK, HasItsId, docker, history, Steps, Mutations
  <1>9. ASSUME NEW p \in Processes, Resolves(p) PROVE Typed'
    <2>1. target' \in [Processes -> Containers \cup {None}]
      BY <1>9, RegistryTypes DEF Resolves, TypeOK, Labelled
    <2>2. target'[p] \in Containers /\ \A q \in Processes \ {p} : target'[q] = target[q]
      BY <1>9, RegistryTypes DEF Resolves, TypeOK, Labelled
    <2> QED BY <1>9, <2>1, <2>2 DEF Resolves, Goto, TypeOK, HasItsId, docker, history, Steps, Mutations
  <1>10. ASSUME NEW p \in Processes, NotFound(p) PROVE Typed'
    BY <1>10, <1>4 DEF NotFound, Return, Goto, TypeOK, HasItsId, docker, Mutations
  <1>11. ASSUME NEW p \in Processes, Removes(p) PROVE Typed'
    <2>1. CASE Return(p, "rm")
      BY <1>11, <2>1, <1>4 DEF Removes, Return, Goto, TypeOK, HasItsId, docker, Mutations
    <2>2. CASE Goto(p, "rm", "unregister") /\ UNCHANGED local
      BY <1>11, <2>2 DEF Removes, Goto, TypeOK, HasItsId, docker, local, history, Steps, Mutations
    <2> QED BY <1>11, <2>1, <2>2 DEF Removes
  <1>12. ASSUME NEW p \in Processes, Stops(p) PROVE Typed'
    BY <1>12, <1>4 DEF Stops, Return, Goto, TypeOK, HasItsId, docker, Mutations
  <1>13. ASSUME NEW p \in Processes, Gets(p) PROVE Typed'
    BY <1>13 DEF Gets, Goto, TypeOK, HasItsId, docker, history, Steps, Mutations
  <1>14. ASSUME NEW p \in Processes, ReadsRegistry(p) PROVE Typed'
    <2>1. target' \in [Processes -> Containers \cup {None}]
      BY <1>14, RegistryTypes DEF ReadsRegistry, TypeOK
    <2> QED BY <1>14, <2>1 DEF ReadsRegistry, Goto, TypeOK, HasItsId, docker, history, Steps, Mutations
  <1>15. ASSUME NEW p \in Processes, FindsOrphan(p) PROVE Typed'
    BY <1>15, <1>4 DEF FindsOrphan, Return, Goto, TypeOK, HasItsId, docker, Mutations
  <1>16. ASSUME NEW p \in Processes, FindsRegistered(p) PROVE Typed'
    <2>1. CASE Return(p, "inspect")
      BY <1>16, <2>1, <1>4 DEF FindsRegistered, Return, Goto, TypeOK, HasItsId, docker, Mutations
    <2>2. CASE Goto(p, "inspect", "note_port") /\ UNCHANGED local
      BY <1>16, <2>2 DEF FindsRegistered, Goto, TypeOK, HasItsId, docker, local, history, Steps, Mutations
    <2> QED BY <1>16, <2>1, <2>2 DEF FindsRegistered
  <1>17. ASSUME NEW p \in Processes, Misses(p) PROVE Typed'
    BY <1>17, <1>4 DEF Misses, Return, Goto, TypeOK, HasItsId, docker, Mutations
  <1>18. ASSUME NEW p \in Processes, Killed(p) PROVE Typed'
    <2>1. TypeOK'
      BY <1>18, ForgetsTypes DEF Killed, TypeOK, docker, Steps
    <2>2. HasItsId'
      BY <1>18, ForgetsTypes DEF Killed, TypeOK, HasItsId
    <2> QED BY <2>1, <2>2
  <1>19. CASE Exits
    BY <1>19 DEF Exits, TypeOK, HasItsId, local, history
  <1>20. CASE UNCHANGED vars
    BY <1>20 DEF vars, docker, history, TypeOK, HasItsId
  <1> QED BY <1>1, <1>2, <1>3, <1>5, <1>6, <1>7, <1>8, <1>9, <1>10, <1>11, <1>12, <1>13, <1>14,
             <1>15, <1>16, <1>17, <1>18, <1>19, <1>20 DEF Next, Mutation, Create, End, Get

\* Whatever runs beside whatever, and whoever is killed, the registry stays a
\* registry (providers/local.py: _load_state, _state_mutation).
THEOREM TypeCorrectness == Spec => []TypeOK
  <1>1. Typed => TypeOK
    BY DEF Typed
  <1> QED BY <1>1, InitTypes, StepTypes, PTL DEF Spec

-----------------------------------------------------------------------------
(* Unique ids.  next_id in the file, or in the copy of the process that is  *)
(* about to write it, is never below an id that has been given out.         *)

OneWriter ==
    \A p \in Processes :
        stage[p] # "wait" => lock = p /\ pc[p] \in Mutations

CopyIsChanged ==
    \A p \in Processes :
        stage[p] = "held" =>
            mem[p].next_id = IF pc[p] = "reserve" THEN file.next_id + 1 ELSE file.next_id

\* Every id on a label, or reserved by a process that will label a container,
\* is at most n.
GivenOutUpTo(n) ==
    /\ \A c \in Containers : label[c] <= n
    /\ \A p \in Processes : pc[p] = "run" => id[p] <= n

NextIsFresh ==
    /\ (\A p \in Processes : stage[p] # "truncated") => GivenOutUpTo(file.next_id)
    /\ \A p \in Processes : stage[p] = "truncated" =>
          /\ pc[p] = "reserve" => GivenOutUpTo(mem[p].next_id - 1)
          /\ pc[p] # "reserve" => GivenOutUpTo(mem[p].next_id)

\* A reserved id is on no label, and is reserved once.
ReservedOnce ==
    \A p \in Processes : pc[p] = "run" =>
        /\ \A c \in Containers : label[c] # id[p]
        /\ \A q \in Processes : pc[q] = "run" /\ id[q] = id[p] => q = p

IInv ==
    /\ Typed /\ OneWriter
    /\ ~damaged => CopyIsChanged /\ NextIsFresh /\ ReservedOnce /\ IdsAreUnique

LEMMA InitUnique == Init => IInv
  <1> SUFFICES ASSUME Init PROVE IInv
    OBVIOUS
  <1>1. OneWriter /\ CopyIsChanged /\ ReservedOnce /\ IdsAreUnique
    BY DEF Init, OneWriter, CopyIsChanged, ReservedOnce, IdsAreUnique
  <1>2. NextIsFresh
    BY DEF Init, NextIsFresh, GivenOutUpTo, Empty
  <1> QED BY <1>1, <1>2, InitTypes DEF IInv

\* A step that leaves file, labels and locks alone, and makes no process run
\* a container, disturbs nothing.
LEMMA Elsewhere ==
    ASSUME IInv, Typed', NEW p \in Processes, stage[p] = "wait",
           UNCHANGED <<file, lock, label, stage, damaged>>,
           NEW next \in Steps \ {"run"}, pc' = [pc EXCEPT ![p] = next],
           \A q \in Processes \ {p} : mem'[q] = mem[q] /\ id'[q] = id[q]
    PROVE  IInv'
  <1>1. OneWriter'
    BY DEF IInv, OneWriter, Typed, TypeOK
  <1>2. ~damaged => CopyIsChanged'
    BY DEF IInv, CopyIsChanged, Typed, TypeOK
  <1>3. ~damaged => NextIsFresh'
    BY DEF IInv, NextIsFresh, GivenOutUpTo, Typed, TypeOK
  <1>4. ~damaged => ReservedOnce'
    BY DEF IInv, ReservedOnce, Typed, TypeOK
  <1>5. ~damaged => IdsAreUnique'
    BY DEF IInv, IdsAreUnique
  <1> QED BY <1>1, <1>2, <1>3, <1>4, <1>5 DEF IInv

LEMMA StepUnique == IInv /\ [Next]_vars => IInv'
  <1> SUFFICES ASSUME IInv, [Next]_vars PROVE IInv'
    OBVIOUS
  <1>0. Typed /\ Typed' /\ OneWriter /\ (~damaged => CopyIsChanged /\ NextIsFresh /\ ReservedOnce /\ IdsAreUnique)
    BY StepTypes DEF IInv
  <1>1. ASSUME NEW p \in Processes, Loads(p) PROVE IInv'
    <2>1. pc[p] \in Mutations /\ Changed(p, file).next_id <= MaxId /\ file \in Registry
      BY <1>0, <1>1 DEF Loads, Typed, TypeOK
    <2>2. mem'[p].next_id = IF pc[p] = "reserve" THEN file.next_id + 1 ELSE file.next_id
      <3>1. mem'[p] = Changed(p, file)
        BY <1>0, <1>1 DEF Loads, Typed, TypeOK
      <3>2. Changed(p, file).next_id = IF pc[p] = "reserve" THEN file.next_id + 1 ELSE file.next_id
        BY <1>0, <2>1, ChangedTypes
      <3> QED BY <3>1, <3>2
    <2>3. OneWriter'
      BY <1>0, <1>1, NoneAssumption DEF Loads, OneWriter, Typed, TypeOK
    <2>4. ~damaged => CopyIsChanged'
      BY <1>0, <1>1, <2>2 DEF Loads, CopyIsChanged, Typed, TypeOK
    <2>5. ~damaged => NextIsFresh' /\ ReservedOnce' /\ IdsAreUnique'
      BY <1>0, <1>1 DEF Loads, NextIsFresh, GivenOutUpTo, ReservedOnce, IdsAreUnique, docker, history, Typed, TypeOK
    <2> QED BY <1>0, <1>1, <2>3, <2>4, <2>5 DEF IInv, Loads, history
  <1>2. ASSUME NEW p \in Processes, Truncates(p) PROVE IInv'
    <2>1. \A q \in Processes : stage[q] # "wait" => q = p
      BY <1>0, <1>2 DEF Truncates, OneWriter
    <2>2. OneWriter'
      BY <1>0, <1>2 DEF Truncates, OneWriter, Typed, TypeOK
    <2>3. ~damaged => CopyIsChanged'
      BY <1>0, <1>2, <2>1 DEF Truncates, CopyIsChanged, Typed, TypeOK
    <2>4. ~damaged => GivenOutUpTo(file.next_id)
      BY <1>0, <1>2, <2>1 DEF Truncates, NextIsFresh
    <2>5. file.next_id \in Nat
      BY <1>0, RegistryTypes DEF Typed, TypeOK
    <2>6. ~damaged => NextIsFresh'
      BY <1>0, <1>2, <2>1, <2>4, <2>5 DEF Truncates, NextIsFresh, GivenOutUpTo, CopyIsChanged, docker, local, Typed, TypeOK
    <2>7. ~damaged => ReservedOnce' /\ IdsAreUnique'
      BY <1>0, <1>2 DEF Truncates, ReservedOnce, IdsAreUnique, docker, local
    <2> QED BY <1>0, <1>2, <2>2, <2>3, <2>6, <2>7 DEF IInv, Truncates, history
  <1>3. ASSUME NEW p \in Processes, Writes(p) PROVE IInv'
    <2>1. \A q \in Processes : stage[q] # "wait" => q = p
      BY <1>0, <1>3 DEF Writes, OneWriter
    <2>2. stage' = [stage EXCEPT ![p] = "wait"] /\ \A q \in Processes : stage'[q] = "wait"
      BY <1>0, <1>3, <2>1 DEF Writes, Typed, TypeOK
    <2>3. OneWriter' /\ CopyIsChanged'
      BY <2>2 DEF OneWriter, CopyIsChanged
    <2>4. mem[p].next_id \in Nat /\ \A c \in Containers : label[c] \in Nat
      BY <1>0, RegistryTypes DEF Typed, TypeOK, Ids
    <2>5. CASE pc[p] = "reserve"
      <3>1. pc' = [pc EXCEPT ![p] = "run"] /\ id' = [id EXCEPT ![p] = mem[p].next_id] /\ file' = mem[p] /\ label' = label
        BY <1>3, <2>5 DEF Writes, Goto, docker
      <3>2. ~damaged => GivenOutUpTo(mem[p].next_id - 1)
        BY <1>0, <1>3, <2>5 DEF Writes, NextIsFresh
      <3>3. \A q \in Processes : pc[q] = "run" => id[q] \in Nat
        BY <1>0 DEF Typed, HasItsId, Ids
      <3>4. ~damaged => NextIsFresh'
        BY <1>0, <2>2, <2>4, <3>1, <3>2, <3>3 DEF NextIsFresh, GivenOutUpTo, Typed, TypeOK
      <3>5. ~damaged => ReservedOnce' /\ IdsAreUnique'
        BY <1>0, <2>4, <3>1, <3>2, <3>3 DEF ReservedOnce, IdsAreUnique, GivenOutUpTo, Typed, TypeOK
      <3> QED BY <1>0, <1>3, <2>3, <3>4, <3>5 DEF IInv, Writes
    <2>6. CASE pc[p] # "reserve"
      <3>1. pc' = [pc EXCEPT ![p] = "idle"] /\ id' = [id EXCEPT ![p] = 0] /\ file' = mem[p] /\ label' = label
        BY <1>3, <2>6 DEF Writes, Return, Goto, Forgets, docker
      <3>2. ~damaged => GivenOutUpTo(mem[p].next_id)
        BY <1>0, <1>3, <2>6 DEF Writes, NextIsFresh
      <3>3. ~damaged => NextIsFresh'
        BY <1>0, <2>2, <3>1, <3>2 DEF NextIsFresh, GivenOutUpTo, Typed, TypeOK
      <3>4. ~damaged => ReservedOnce' /\ IdsAreUnique'
        BY <1>0, <3>1 DEF ReservedOnce, IdsAreUnique, Typed, TypeOK
      <3> QED BY <1>0, <1>3, <2>3, <3>3, <3>4 DEF IInv, Writes
    <2> QED BY <2>5, <2>6
  <1>4. ASSUME NEW p \in Processes, Runs(p) PROVE IInv'
    <2>0. pc[p] = "run" /\ stage[p] = "wait"
      BY <1>0, <1>4 DEF Runs, Goto, Return, OneWriter, Mutations, Typed, TypeOK
    <2>1. CASE Return(p, "run") /\ UNCHANGED docker
      BY <1>0, <1>4, <2>0, <2>1, Elsewhere DEF Runs, Return, Goto, Forgets, docker, history, Typed, TypeOK, Steps
    <2>2. ASSUME NEW c \in Containers, label[c] = 0, Goto(p, "run", "port"),
                 label' = [label EXCEPT ![c] = id[p]], UNCHANGED <<mem, id>>
          PROVE IInv'
      <3>1. UNCHANGED <<file, lock, stage, mem, id, damaged>> /\ pc' = [pc EXCEPT ![p] = "port"]
        BY <1>4, <2>2 DEF Runs, Goto, history
      <3>2. OneWriter'
        BY <1>0, <2>0, <3>1 DEF OneWriter, Typed, TypeOK
      <3>3. ~damaged => CopyIsChanged'
        BY <1>0, <2>0, <3>1 DEF CopyIsChanged, Typed, TypeOK
      <3>4. ASSUME NEW n, GivenOutUpTo(n) PROVE GivenOutUpTo(n)'
        BY <1>0, <2>0, <2>2, <3>1, <3>4 DEF GivenOutUpTo, Typed, TypeOK
      <3>5. ~damaged => NextIsFresh'
        BY <1>0, <2>0, <3>1, <3>4 DEF NextIsFresh, Typed, TypeOK
      <3>6. ~damaged => ReservedOnce' /\ IdsAreUnique'
        BY <1>0, <2>0, <2>2, <3>1 DEF ReservedOnce, IdsAreUnique, Typed, TypeOK
      <3> QED BY <1>0, <3>1, <3>2, <3>3, <3>5, <3>6 DEF IInv
    <2> QED BY <1>4, <2>1, <2>2 DEF Runs
  <1>5. ASSUME NEW p \in Processes, Creates(p) \/ LooksUpPort(p) \/ End(p) \/ Get(p) PROVE IInv'
    <2>1. PICK next \in Steps \ {"run"} : pc[p] \notin Mutations /\ pc' = [pc EXCEPT ![p] = next]
      BY <1>5 DEF Creates, LooksUpPort, End, Ends, Resolves, NotFound, Removes, Stops, Get, Gets,
                  ReadsRegistry, FindsOrphan, FindsRegistered, Misses, Return, Goto, Steps, Mutations
    <2>2. UNCHANGED <<file, lock, label, stage, damaged>>
      BY <1>5 DEF Creates, LooksUpPort, End, Ends, Resolves, NotFound, Removes, Stops, Get, Gets,
                  ReadsRegistry, FindsOrphan, FindsRegistered, Misses, docker, history
    <2>3. \A q \in Processes \ {p} : mem'[q] = mem[q] /\ id'[q] = id[q]
      <3>1. CASE Forgets(p)
        BY <1>0, <3>1, ForgetsTypes DEF Typed
      <3>2. CASE ~Forgets(p)
        BY <1>0, <1>5, <3>2 DEF Creates, LooksUpPort, End, Ends, Resolves, NotFound, Removes, Stops, Get, Gets,
                  ReadsRegistry, FindsOrphan, FindsRegistered, Misses, Return, local, Typed, TypeOK
      <3> QED BY <3>1, <3>2
    <2>4. stage[p] = "wait"
      BY <1>0, <2>1 DEF OneWriter
    <2> QED BY <1>0, <2>1, <2>2, <2>3, <2>4, Elsewhere
  <1>6. ASSUME NEW p \in Processes, Killed(p) PROVE IInv'
    <2>1. /\ pc' = [pc EXCEPT ![p] = "idle"] /\ stage' = [stage EXCEPT ![p] = "wait"]
          /\ \A q \in Processes \ {p} : mem'[q] = mem[q] /\ id'[q] = id[q]
          /\ UNCHANGED <<file, label>>
      BY <1>0, <1>6, ForgetsTypes DEF Killed, docker, Typed
    <2>2. OneWriter'
      BY <1>0, <1>6, <2>1 DEF Killed, OneWriter, Typed, TypeOK
    <2>3. ~damaged' => ~damaged /\ stage[p] # "truncated"
      BY <1>6 DEF Killed
    <2>4. ~damaged' => CopyIsChanged'
      BY <1>0, <2>1, <2>3 DEF CopyIsChanged, Typed, TypeOK
    <2>5. ~damaged' => NextIsFresh'
      BY <1>0, <2>1, <2>3 DEF NextIsFresh, GivenOutUpTo, Typed, TypeOK
    <2>6. ~damaged' => ReservedOnce' /\ IdsAreUnique'
      BY <1>0, <2>1, <2>3 DEF ReservedOnce, IdsAreUnique, Typed, TypeOK
    <2> QED BY <1>0, <2>2, <2>4, <2>5, <2>6 DEF IInv
  <1>7. CASE Exits \/ UNCHANGED vars
    <2>1. UNCHANGED <<file, lock, label, pc, stage, mem, id, damaged>>
      BY <1>7 DEF Exits, vars, docker, local, history
    <2> QED BY <1>0, <2>1 DEF IInv, OneWriter, CopyIsChanged, NextIsFresh, GivenOutUpTo, ReservedOnce, IdsAreUnique
  <1> QED BY <1>1, <1>2, <1>3, <1>4, <1>5, <1>6, <1>7 DEF Next, Mutation, Create

\* However many commands rent at the same time, each container gets an id of
\* its own (LocalProvider._next_instance_id under _state_mutation).
THEOREM UniqueIds == Spec => []IdsAreUnique
  <1>1. IInv => IdsAreUnique
    BY DEF IInv, IdsAreUnique
  <1> QED BY <1>1, InitUnique, StepUnique, PTL DEF Spec

-----------------------------------------------------------------------------
(* No entry is dropped.  The copy of the process that holds the lock has    *)
(* every entry but the one that process changes.                            *)

InCopy(p) ==
    \A i \in Ids :
        granted[i] # None /\ i \notin ended /\ (pc[p] \in {"register", "unregister"} => i # id[p]) =>
            i \in DOMAIN mem[p].containers /\ mem[p].containers[i].container = granted[i]

RegistersIts(p) ==
    pc[p] = "register" =>
        id[p] \in DOMAIN mem[p].containers /\ mem[p].containers[id[p]].container = target[p]

CopiesAreWhole == \A p \in Processes : stage[p] # "wait" => InCopy(p) /\ RegistersIts(p)

KInv == IInv /\ KeepsEveryEntry /\ (~damaged => CopiesAreWhole)

\* What a change of the registry does to the entries that are there.
LEMMA ChangedKeeps ==
    ASSUME NEW p \in Processes, NEW r \in Registry, pc[p] \in Mutations
    PROVE  /\ \A i \in DOMAIN r.containers :
                 (pc[p] \in {"register", "unregister"} => i # id[p]) =>
                    /\ i \in DOMAIN Changed(p, r).containers
                    /\ Changed(p, r).containers[i].container = r.containers[i].container
           /\ pc[p] = "register" =>
                 /\ id[p] \in DOMAIN Changed(p, r).containers
                 /\ Changed(p, r).containers[id[p]].container = target[p]
  <1> DEFINE old == r.containers
  <1>0. PICK D \in SUBSET Ids : old \in [D -> Entries]
    BY DEF Registry
  <1>1. r = [containers |-> old, next_id |-> r.next_id]
    BY DEF Registry
  <1>2. CASE pc[p] = "reserve"
    BY <1>1, <1>2 DEF Changed
  <1>3. CASE pc[p] = "register"
    <2>1. Changed(p, r).containers = [i \in DOMAIN old \cup {id[p]} |->
             IF i = id[p] THEN [container |-> target[p], port |-> FALSE] ELSE old[i]]
      BY <1>1, <1>3 DEF Changed
    <2> QED BY <1>3, <2>1
  <1>4. CASE pc[p] = "unregister"
    <2>1. Changed(p, r).containers = [i \in DOMAIN old \ {id[p]} |-> old[i]]
      BY <1>1, <1>4 DEF Changed, Restrict
    <2> QED BY <1>4, <2>1
  <1>5. CASE pc[p] = "note_port"
    <2>1. Changed(p, r).containers = [i \in DOMAIN old |->
             IF i = id[p] THEN [old[i] EXCEPT !.port = TRUE] ELSE old[i]]
      BY <1>1, <1>5 DEF Changed
    <2>2. \A i \in DOMAIN old : [old[i] EXCEPT !.port = TRUE].container = old[i].container
      BY <1>0 DEF Entries
    <2> QED BY <1>5, <2>1, <2>2
  <1> QED BY <1>2, <1>3, <1>4, <1>5 DEF Mutations

LEMMA InitKeeps == Init => KInv
  <1> SUFFICES ASSUME Init PROVE KInv
    OBVIOUS
  <1>1. KeepsEveryEntry /\ CopiesAreWhole
    BY DEF Init, KeepsEveryEntry, CopiesAreWhole
  <1> QED BY <1>1, InitUnique DEF KInv

\* A step of a process that does not hold the lock afterwards, and leaves
\* file and history alone, disturbs nothing.
LEMMA Aside ==
    ASSUME KInv, NEW p \in Processes, stage' = [stage EXCEPT ![p] = "wait"],
           UNCHANGED <<file, granted, ended>>, damaged' = damaged, stage[p] # "truncated",
           \A q \in Processes \ {p} :
               pc'[q] = pc[q] /\ mem'[q] = mem[q] /\ id'[q] = id[q] /\ target'[q] = target[q]
    PROVE  KeepsEveryEntry' /\ (~damaged' => CopiesAreWhole')
  <1>1. stage \in [Processes -> {"wait", "held", "truncated"}]
    BY DEF KInv, IInv, Typed, TypeOK
  <1>2. KeepsEveryEntry'
    BY <1>1 DEF KInv, KeepsEveryEntry
  <1>3. ASSUME ~damaged', NEW q \in Processes, stage'[q] # "wait" PROVE InCopy(q)' /\ RegistersIts(q)'
    <2>1. q # p /\ stage[q] # "wait"
      BY <1>1, <1>3
    <2> QED BY <1>3, <2>1 DEF KInv, CopiesAreWhole, InCopy, RegistersIts
  <1> QED BY <1>2, <1>3 DEF CopiesAreWhole

LEMMA StepKeeps == KInv /\ [Next]_vars => KInv'
  <1> SUFFICES ASSUME KInv, [Next]_vars PROVE KInv'
    OBVIOUS
  <1>0. IInv /\ IInv' /\ TypeOK /\ OneWriter /\ KeepsEveryEntry /\ (~damaged => CopiesAreWhole)
    BY StepUnique DEF KInv, IInv, Typed
  <1>1. ASSUME NEW p \in Processes, Loads(p) PROVE KInv'
    <2>1. mem'[p] = Changed(p, file) /\ file \in Registry /\ pc[p] \in Mutations
      BY <1>0, <1>1 DEF Loads, TypeOK
    <2>2. \A q \in Processes : stage[q] = "wait"
      BY <1>0, <1>1, NoneAssumption DEF Loads, OneWriter
    <2>3. ~damaged => InCopy(p)' /\ RegistersIts(p)'
      BY <1>0, <1>1, <2>1, <2>2, ChangedKeeps DEF Loads, KeepsEveryEntry, InCopy, RegistersIts, history
    <2>4. \A q \in Processes \ {p} : stage'[q] = "wait"
      BY <1>0, <1>1, <2>2 DEF Loads, TypeOK
    <2>5. KeepsEveryEntry'
      BY <1>0, <1>1, <2>2 DEF Loads, KeepsEveryEntry, history
    <2> QED BY <1>0, <1>1, <2>3, <2>4, <2>5 DEF KInv, CopiesAreWhole, Loads, history
  <1>2. ASSUME NEW p \in Processes, Truncates(p) PROVE KInv'
    <2>1. stage'[p] = "truncated" /\ \A q \in Processes : stage'[q] # "wait" => stage[q] # "wait"
      BY <1>0, <1>2 DEF Truncates, TypeOK
    <2>2. KeepsEveryEntry'
      BY <2>1 DEF KeepsEveryEntry
    <2>3. ~damaged => CopiesAreWhole'
      BY <1>0, <1>2, <2>1 DEF Truncates, CopiesAreWhole, InCopy, RegistersIts, local, history
    <2> QED BY <1>0, <1>2, <2>2, <2>3 DEF KInv, Truncates, history
  <1>3. ASSUME NEW p \in Processes, Writes(p) PROVE KInv'
    <2>1. \A q \in Processes : stage'[q] = "wait"
      BY <1>0, <1>3 DEF Writes, OneWriter, TypeOK
    <2>2. CopiesAreWhole'
      BY <2>1 DEF CopiesAreWhole
    <2>3. ~damaged => InCopy(p) /\ RegistersIts(p)
      BY <1>0, <1>3 DEF Writes, CopiesAreWhole
    <2>4. file' = mem[p] /\ damaged' = damaged
      BY <1>3 DEF Writes
    <2>5. CASE pc[p] = "register"
      <3>1. granted' = [granted EXCEPT ![id[p]] = target[p]] /\ ended' = ended \ {id[p]}
        BY <1>3, <2>5 DEF Writes
      <3> QED BY <1>0, <2>2, <2>3, <2>4, <2>5, <3>1 DEF KInv, KeepsEveryEntry, InCopy, RegistersIts, TypeOK
    <2>6. CASE pc[p] = "unregister"
      <3>1. granted' = granted /\ ended' = ended \cup {id[p]}
        BY <1>3, <2>6 DEF Writes
      <3> QED BY <1>0, <2>2, <2>3, <2>4, <2>6, <3>1 DEF KInv, KeepsEveryEntry, InCopy
    <2>7. CASE pc[p] \notin {"register", "unregister"}
      <3>1. granted' = granted /\ ended' = ended
        BY <1>3, <2>7 DEF Writes
      <3> QED BY <1>0, <2>2, <2>3, <2>4, <2>7, <3>1 DEF KInv, KeepsEveryEntry, InCopy
    <2> QED BY <2>5, <2>6, <2>7
  <1>4. ASSUME NEW p \in Processes, Create(p) \/ End(p) \/ Get(p) PROVE KInv'
    <2>1. pc[p] \notin Mutations /\ stage' = stage
      BY <1>4 DEF Create, Creates, Runs, LooksUpPort, End, Ends, Resolves, NotFound, Removes, Stops, Get,
                  Gets, ReadsRegistry, FindsOrphan, FindsRegistered, Misses, Return, Goto, Mutations
    <2>2. stage[p] = "wait" /\ stage' = [stage EXCEPT ![p] = "wait"]
      BY <1>0, <2>1 DEF OneWriter, TypeOK
    <2>3. UNCHANGED <<file, granted, ended, damaged>>
      BY <1>4 DEF Create, Creates, Runs, LooksUpPort, End, Ends, Resolves, NotFound, Removes, Stops, Get,
                  Gets, ReadsRegistry, FindsOrphan, FindsRegistered, Misses, history
    <2>4. \A q \in Processes \ {p} : pc'[q] = pc[q]
      BY <1>0, <1>4 DEF Create, Creates, Runs, LooksUpPort, End, Ends, Resolves, NotFound, Removes, Stops, Get,
                  Gets, ReadsRegistry, FindsOrphan, FindsRegistered, Misses, Return, Goto, TypeOK
    <2>5. \A q \in Processes \ {p} : mem'[q] = mem[q] /\ id'[q] = id[q] /\ target'[q] = target[q]
      <3>1. CASE Forgets(p)
        BY <1>0, <3>1, ForgetsTypes
      <3>2. CASE ~Forgets(p)
        BY <1>0, <1>4, <3>2 DEF Create, Creates, Runs, LooksUpPort, End, Ends, Resolves, NotFound, Removes,
                  Stops, Get, Gets, ReadsRegistry, FindsOrphan, FindsRegistered, Misses, Return, local, TypeOK
      <3> QED BY <3>1, <3>2
    <2> QED BY <1>0, <2>2, <2>3, <2>4, <2>5, Aside DEF KInv
  <1>5. ASSUME NEW p \in Processes, Killed(p) PROVE KInv'
    <2>1. CASE stage[p] = "truncated"
      BY <1>0, <1>5, <2>1 DEF Killed, KInv, KeepsEveryEntry
    <2>2. CASE stage[p] # "truncated"
      <3>1. \A q \in Processes \ {p} :
               pc'[q] = pc[q] /\ mem'[q] = mem[q] /\ id'[q] = id[q] /\ target'[q] = target[q]
        BY <1>0, <1>5, ForgetsTypes DEF Killed, TypeOK
      <3>2. damaged' = damaged
        BY <1>0, <1>5, <2>2 DEF Killed, TypeOK
      <3> QED BY <1>0, <1>5, <2>2, <3>1, <3>2, Aside DEF Killed, KInv
    <2> QED BY <2>1, <2>2
  <1>6. CASE Exits \/ UNCHANGED vars
    <2>1. UNCHANGED <<file, pc, stage, mem, id, target, granted, ended, damaged>>
      BY <1>6 DEF Exits, vars, docker, local, history
    <2> QED BY <1>0, <2>1 DEF KInv, KeepsEveryEntry, CopiesAreWhole, InCopy, RegistersIts
  <1> QED BY <1>1, <1>2, <1>3, <1>4, <1>5, <1>6 DEF Next, Mutation

\* No command drops the entry of another, in any number of commands
\* (LocalProvider._state_mutation).
THEOREM EntriesAreKept == Spec => []KeepsEveryEntry
  <1>1. KInv => KeepsEveryEntry
    BY DEF KInv
  <1> QED BY <1>1, InitKeeps, StepKeeps, PTL DEF Spec
-----------------------------------------------------------------------------
(* A running container is found.  Whatever names a container of an instance, *)
(* an entry, a copy of one, what a process looks at, or what was returned to *)
(* a caller, names one with the id on its label.                             *)

EntriesAreLabelled(r) ==
    \A i \in DOMAIN r.containers : label[r.containers[i].container] = i

Labels ==
    /\ \A i \in Ids : granted[i] # None => label[granted[i]] = i
    /\ EntriesAreLabelled(file)
    /\ \A p \in Processes :
          /\ stage[p] # "wait" => EntriesAreLabelled(mem[p])
          /\ pc[p] \in {"port", "register"} => label[target[p]] = id[p]
          /\ pc[p] \in {"read", "inspect"} => id[p] \in Ids
          /\ pc[p] = "inspect" /\ target[p] # None => label[target[p]] = id[p]

\* An entry of a changed registry was there, or is the one registered.
LEMMA ChangedEntries ==
    ASSUME NEW p \in Processes, NEW r \in Registry, pc[p] \in Mutations,
           NEW i \in DOMAIN Changed(p, r).containers
    PROVE  \/ /\ i \in DOMAIN r.containers
              /\ Changed(p, r).containers[i].container = r.containers[i].container
           \/ /\ pc[p] = "register" /\ i = id[p]
              /\ Changed(p, r).containers[i].container = target[p]
  <1> DEFINE old == r.containers
  <1>0. PICK D \in SUBSET Ids : old \in [D -> Entries]
    BY DEF Registry
  <1>1. r = [containers |-> old, next_id |-> r.next_id]
    BY DEF Registry
  <1>2. CASE pc[p] = "reserve"
    BY <1>1, <1>2 DEF Changed
  <1>3. CASE pc[p] = "register"
    <2>1. Changed(p, r).containers = [j \in DOMAIN old \cup {id[p]} |->
             IF j = id[p] THEN [container |-> target[p], port |-> FALSE] ELSE old[j]]
      BY <1>1, <1>3 DEF Changed
    <2> QED BY <1>3, <2>1
  <1>4. CASE pc[p] = "unregister"
    <2>1. Changed(p, r).containers = [j \in DOMAIN old \ {id[p]} |-> old[j]]
      BY <1>1, <1>4 DEF Changed, Restrict
    <2> QED BY <1>4, <2>1
  <1>5. CASE pc[p] = "note_port"
    <2>1. Changed(p, r).containers = [j \in DOMAIN old |->
             IF j = id[p] THEN [old[j] EXCEPT !.port = TRUE] ELSE old[j]]
      BY <1>1, <1>5 DEF Changed
    <2>2. \A j \in DOMAIN old : [old[j] EXCEPT !.port = TRUE].container = old[j].container
      BY <1>0 DEF Entries
    <2> QED BY <1>5, <2>1, <2>2
  <1> QED BY <1>2, <1>3, <1>4, <1>5 DEF Mutations

\* No label is ever changed, so what is labelled stays so.
LEMMA LabelsStay ==
    ASSUME Typed, [Next]_vars, NEW c \in Containers, label[c] # 0
    PROVE  label'[c] = label[c]
  <1> USE DEF Typed, TypeOK
  <1>1. ASSUME NEW p \in Processes, Mutation(p) \/ Creates(p) \/ LooksUpPort(p) PROVE UNCHANGED label
    BY <1>1 DEF Mutation, Loads, Truncates, Writes, Creates, LooksUpPort, docker
  <1>2. ASSUME NEW p \in Processes, Runs(p) PROVE label'[c] = label[c]
    BY <1>2 DEF Runs, docker
  <1>3. ASSUME NEW p \in Processes, End(p) \/ Get(p) \/ Killed(p) PROVE UNCHANGED label
    BY <1>3 DEF End, Ends, Resolves, NotFound, Removes, Stops, Get, Gets, ReadsRegistry, FindsOrphan,
                FindsRegistered, Misses, Killed, docker
  <1>4. CASE Exits \/ UNCHANGED vars
    BY <1>4 DEF Exits, vars, docker
  <1> QED BY <1>1, <1>2, <1>3, <1>4 DEF Next, Create

LEMMA StepLabels == IInv /\ IInv' /\ Labels /\ [Next]_vars => Labels'
  <1> SUFFICES ASSUME IInv, IInv', Labels, [Next]_vars PROVE Labels'
    OBVIOUS
  <1>0. Typed /\ TypeOK /\ HasItsId /\ TypeOK' /\ OneWriter
    BY DEF IInv, Typed
  <1>1. ASSUME NEW c \in Containers, label[c] \in Ids PROVE label'[c] = label[c]
    BY <1>0, <1>1, LabelsStay DEF Ids
  <1>2. ASSUME NEW r \in Registry, EntriesAreLabelled(r) PROVE EntriesAreLabelled(r)'
    BY <1>1, <1>2, RegistryTypes DEF EntriesAreLabelled
  <1>3. EntriesAreLabelled(Empty)
    BY DEF EntriesAreLabelled, Empty
  <1>4. ASSUME NEW i \in Ids, granted[i] # None, granted'[i] = granted[i]
        PROVE  label'[granted'[i]] = i
    BY <1>0, <1>1, <1>4 DEF Labels, TypeOK
  \* What does not move for a process.
  <1>5. ASSUME NEW p \in Processes, UNCHANGED <<pc[p], stage[p], mem[p], target[p], id[p]>>
        PROVE  /\ stage'[p] # "wait" => EntriesAreLabelled(mem[p])'
               /\ pc'[p] \in {"port", "register"} => label'[target'[p]] = id'[p]
               /\ pc'[p] \in {"read", "inspect"} => id'[p] \in Ids
               /\ pc'[p] = "inspect" /\ target'[p] # None => label'[target'[p]] = id'[p]
    <2>1. mem[p] \in Registry /\ target[p] \in Containers \cup {None}
      BY <1>0 DEF TypeOK
    <2>2. stage'[p] # "wait" => EntriesAreLabelled(mem[p])'
      BY <1>2, <1>5, <2>1 DEF Labels, EntriesAreLabelled
    <2>3. pc'[p] \in {"port", "register"} => label'[target'[p]] = id'[p]
      BY <1>0, <1>1, <1>5 DEF Labels, HasItsId
    <2>4. pc'[p] = "inspect" /\ target'[p] # None => label'[target'[p]] = id'[p]
      BY <1>1, <1>5, <2>1 DEF Labels
    <2> QED BY <1>5, <2>2, <2>3, <2>4 DEF Labels
  <1>6. ASSUME NEW p \in Processes, UNCHANGED <<file, granted>>,
               \A q \in Processes \ {p} : UNCHANGED <<pc[q], stage[q], mem[q], target[q], id[q]>>,
               stage'[p] # "wait" => EntriesAreLabelled(mem[p])',
               pc'[p] \in {"port", "register"} => label'[target'[p]] = id'[p],
               pc'[p] \in {"read", "inspect"} => id'[p] \in Ids,
               pc'[p] = "inspect" /\ target'[p] # None => label'[target'[p]] = id'[p]
        PROVE  Labels'
    <2>1. EntriesAreLabelled(file)'
      BY <1>0, <1>2, <1>6 DEF Labels, TypeOK, EntriesAreLabelled
    <2>2. \A i \in Ids : granted'[i] # None => label'[granted'[i]] = i
      BY <1>4, <1>6
    <2> QED BY <1>5, <1>6, <2>1, <2>2 DEF Labels
  <1>7. ASSUME NEW p \in Processes, Loads(p) PROVE Labels'
    <2>1. mem'[p] = Changed(p, file) /\ file \in Registry /\ pc[p] \in Mutations /\ label' = label
      BY <1>0, <1>7 DEF Loads, TypeOK, docker
    <2>2. EntriesAreLabelled(Changed(p, file))
      BY <2>1, ChangedEntries DEF Labels, EntriesAreLabelled
    <2>3. EntriesAreLabelled(mem[p])'
      BY <2>1, <2>2 DEF EntriesAreLabelled
    <2>4. /\ UNCHANGED <<file, granted, pc, target, id>>
          /\ \A q \in Processes \ {p} : UNCHANGED <<stage[q], mem[q]>>
      BY <1>0, <1>7 DEF Loads, TypeOK, history
    <2> QED BY <1>6, <2>1, <2>3, <2>4 DEF Labels
  <1>8. ASSUME NEW p \in Processes, Truncates(p) PROVE Labels'
    <2>1. /\ file' = Empty /\ UNCHANGED <<label, pc, granted, mem, id, target>>
          /\ \A q \in Processes : stage'[q] # "wait" => stage[q] # "wait"
      BY <1>0, <1>8 DEF Truncates, TypeOK, docker, local, history
    <2> QED BY <1>3, <2>1 DEF Labels, EntriesAreLabelled
  <1>9. ASSUME NEW p \in Processes, Writes(p) PROVE Labels'
    <2>1. file' = mem[p] /\ UNCHANGED label /\ stage[p] = "truncated"
      BY <1>9 DEF Writes, docker
    <2>2. \A q \in Processes : stage'[q] = "wait"
      BY <1>0, <1>9 DEF Writes, OneWriter, TypeOK
    <2>3. EntriesAreLabelled(file)'
      BY <2>1 DEF Labels, EntriesAreLabelled
    <2>4. pc'[p] \in {"run", "idle"}
          /\ \A q \in Processes \ {p} : UNCHANGED <<pc[q], target[q], id[q]>>
      <3>1. CASE pc[p] = "reserve"
        BY <1>0, <1>9, <3>1 DEF Writes, Goto, TypeOK
      <3>2. CASE pc[p] # "reserve"
        BY <1>0, <1>9, <3>2, ForgetsTypes DEF Writes, Return, Goto, TypeOK
      <3> QED BY <3>1, <3>2
    <2>5. \A i \in Ids : granted'[i] # None => label'[granted'[i]] = i
      BY <1>0, <1>9, <2>1 DEF Writes, Labels, HasItsId, TypeOK
    <2> QED BY <2>1, <2>2, <2>3, <2>4, <2>5 DEF Labels
  <1>10. ASSUME NEW p \in Processes, Create(p) \/ End(p) \/ Get(p) PROVE Labels'
    <2>1. /\ pc[p] \notin Mutations /\ UNCHANGED <<stage, file, granted>>
          /\ \A q \in Processes \ {p} : pc'[q] = pc[q]
      BY <1>0, <1>10 DEF Create, Creates, Runs, LooksUpPort, End, Ends, Resolves, NotFound, Removes,
              Stops, Get, Gets, ReadsRegistry, FindsOrphan, FindsRegistered, Misses, Return, Goto,
              Mutations, history, TypeOK
    <2>2. stage'[p] = "wait"
      BY <1>0, <2>1 DEF OneWriter
    <2>3. \A q \in Processes \ {p} : mem'[q] = mem[q] /\ id'[q] = id[q] /\ target'[q] = target[q]
      <3>1. CASE Forgets(p)
        BY <1>0, <3>1, ForgetsTypes
      <3>2. CASE ~Forgets(p)
        BY <1>0, <1>10, <3>2 DEF Create, Creates, Runs, LooksUpPort, End, Ends, Resolves, NotFound,
              Removes, Stops, Get, Gets, ReadsRegistry, FindsOrphan, FindsRegistered, Misses, Return,
              local, TypeOK
      <3> QED BY <3>1, <3>2
    <2>4. pc'[p] \in {"port", "register"} => label'[target'[p]] = id'[p]
      <3>1. CASE Runs(p)
        BY <1>0, <3>1 DEF Runs, Return, Goto, TypeOK
      <3>2. CASE LooksUpPort(p)
        BY <1>0, <3>2 DEF LooksUpPort, Return, Goto, TypeOK, Labels, docker, local
      <3>3. CASE ~Runs(p) /\ ~LooksUpPort(p)
        BY <1>0, <1>10, <3>3 DEF Create, Creates, End, Ends, Resolves, NotFound, Removes, Stops, Get,
              Gets, ReadsRegistry, FindsOrphan, FindsRegistered, Misses, Return, Goto, TypeOK
      <3> QED BY <3>1, <3>2, <3>3
    <2>5. /\ pc'[p] \in {"read", "inspect"} => id'[p] \in Ids
          /\ pc'[p] = "inspect" /\ target'[p] # None => label'[target'[p]] = id'[p]
      <3>1. CASE Gets(p)
        BY <1>0, <3>1 DEF Gets, Goto, TypeOK
      <3>2. CASE ReadsRegistry(p)
        BY <1>0, <3>2 DEF ReadsRegistry, Goto, TypeOK, Labels, EntriesAreLabelled, docker
      <3>3. CASE ~Gets(p) /\ ~ReadsRegistry(p)
        BY <1>0, <1>10, <3>3 DEF Create, Creates, Runs, LooksUpPort, End, Ends, Resolves, NotFound,
              Removes, Stops, Get, FindsOrphan, FindsRegistered, Misses, Return, Goto, TypeOK
      <3> QED BY <3>1, <3>2, <3>3
    <2> QED BY <1>6, <2>1, <2>2, <2>3, <2>4, <2>5
  <1>11. ASSUME NEW p \in Processes, Killed(p) PROVE Labels'
    <2>1. /\ pc'[p] = "idle" /\ stage'[p] = "wait" /\ UNCHANGED <<file, granted>>
          /\ \A q \in Processes \ {p} : UNCHANGED <<pc[q], stage[q], mem[q], target[q], id[q]>>
      BY <1>0, <1>11, ForgetsTypes DEF Killed, TypeOK
    <2> QED BY <1>6, <2>1
  <1>12. CASE Exits \/ UNCHANGED vars
    BY <1>12 DEF Exits, vars, docker, local, history, Labels, EntriesAreLabelled
  <1> QED BY <1>7, <1>8, <1>9, <1>10, <1>11, <1>12 DEF Next, Mutation

\* get_instance never reports a running container as exited or unknown, even
\* from a file that is being written: the entry and the label name the same
\* container (LocalProvider.get_instance, _container_by_label).
THEOREM RunningIsFound == Spec => FindsTheRunning
  <1>1. Init => IInv /\ Labels
    BY InitUnique DEF Init, Labels, EntriesAreLabelled, Empty
  <1>2. IInv /\ Labels /\ [Next]_vars =>
          [\A p \in Processes : Misses(p) => damaged \/ granted[id[p]] \notin running]_vars
    <2> SUFFICES ASSUME IInv, Labels, NEW p \in Processes, Misses(p), ~damaged,
                        granted[id[p]] \in running
                 PROVE  FALSE
      BY DEF FindsTheRunning
    <2>1. pc[p] = "inspect" /\ id[p] \in Ids /\ running \subseteq Containers /\ IdsAreUnique
      BY DEF Misses, Return, Goto, Labels, IInv, Typed, TypeOK
    <2>2. granted[id[p]] \in Containers /\ label[granted[id[p]]] = id[p]
      BY <2>1, NoneAssumption DEF Labels
    <2>3. CASE target[p] = None
      BY <2>2, <2>3 DEF Misses, Labelled
    <2>4. CASE target[p] # None
      <3>1. target[p] \in Containers /\ label[target[p]] = id[p] /\ id[p] # 0
        BY <2>1, <2>4 DEF Labels, IInv, Typed, TypeOK, Ids
      <3>2. target[p] = granted[id[p]]
        BY <2>2, <3>1 DEF IInv, IdsAreUnique
      <3> QED BY <2>4, <3>2 DEF Misses
    <2> QED BY <2>3, <2>4
  <1> QED BY <1>1, <1>2, StepUnique, StepLabels, PTL DEF Spec, FindsTheRunning
=============================================================================
