------------------------- MODULE Deployment_proofs -------------------------
(***************************************************************************)
(* Proofs about Deployment: every reachable state is well typed, whatever  *)
(* commands run and whatever fails; up, restart and replace, which all     *)
(* hold the lifecycle lock, lose no rented machine, and replace destroys   *)
(* no machine that the proxy serves; and down, pause and restart, side by  *)
(* side, forget none.                                                      *)
(***************************************************************************)
EXTENDS Deployment, TLAPS

Provisioning == {"boot", "spawn", "spawned", "health", "final", "cleanup", "release"}
Staging == {"sidecar", "staged", "recheck", "unstage", "flip"}
Cutting == {"cutover", "cutover_health", "spawn_new", "spawned_new", "destroy_old"}

-----------------------------------------------------------------------------
(* Type correctness, for every command and every fault.  A command reports  *)
(* the ids in its memory, so the types need that there is one.              *)

Remembers ==
    \A c \in Commands :
        /\ pc[c] \notin {"idle", "create"} => mem[c] # None
        /\ pc[c] \in Staging \cup Cutting => new[c] # None

Typed == TypeOK /\ Remembers

\* What the two helpers that end a step do to the types.
LEMMA ExitTypes ==
    ASSUME TypeOK, NEW c \in Commands, Exit(c)
    PROVE  /\ pc' = [pc EXCEPT ![c] = "idle"] /\ pc' \in [Commands -> {"idle"} \cup UpSteps \cup ReplaceSteps \cup DownSteps]
           /\ mem' \in [Commands -> Machines \cup {None}] /\ mem' = [mem EXCEPT ![c] = None]
           /\ new' \in [Commands -> Machines \cup {None}] /\ new' = [new EXCEPT ![c] = None]
           /\ holder' \in Commands \cup {None} /\ hot' \in BOOLEAN
           /\ seen' \subseteq {"backend", "not_ready"} /\ got' \in Machines \cup {None}
  <1>1. CASE holder = c
    BY <1>1 DEF Exit, TypeOK
  <1>2. CASE holder # c
    BY <1>2 DEF Exit, TypeOK, cutover
  <1> QED BY <1>1, <1>2

LEMMA FaultTypes ==
    ASSUME TypeOK, NEW kind, Fault(kind) \/ NoFault
    PROVE  hits' \in 0..MaxFaults /\ suffered' \subseteq Faults /\ suffered \subseteq suffered'
  <1>1. CASE Fault(kind)
    BY <1>1, FaultsAssumption DEF Fault, TypeOK
  <1>2. CASE NoFault
    BY <1>2 DEF NoFault, TypeOK, faults
  <1> QED BY <1>1, <1>2

LEMMA DestroyTypes ==
    ASSUME TypeOK, NEW m \in Machines, DestroyedOrReported(m)
    PROVE  vm' \in [Machines -> Statuses] /\ reported' \subseteq Machines
           /\ hits' \in 0..MaxFaults /\ suffered' \subseteq Faults /\ suffered \subseteq suffered'
  <1>1. vm' \in [Machines -> Statuses] /\ reported' \subseteq Machines
    BY DEF DestroyedOrReported, TypeOK, Statuses
  <1> QED BY <1>1, FaultTypes DEF DestroyedOrReported

\* A step keeps the types, and no fault is forgotten.
LEMMA StepTypes == Typed /\ [Next]_vars => Typed' /\ suffered \subseteq suffered'
<1> SUFFICES ASSUME Typed, [Next]_vars PROVE Typed' /\ suffered \subseteq suffered'
  OBVIOUS
<1> USE NoneAssumption, FaultsAssumption DEF Typed, TypeOK, Remembers, files, cloud, daemon,
      control, cutover, faults, UpSteps, ReplaceSteps, DownSteps, Statuses, Staging, Cutting
<1>1. ASSUME NEW c \in Commands, Up(c) PROVE Typed' /\ suffered \subseteq suffered'
  <2>1. CASE UpBegins(c)
    BY <2>1, FaultTypes DEF UpBegins, Lock
  <2>2. CASE UpCreates(c)
    BY <2>2 DEF UpCreates, Rented
  <2>3. CASE UpFindsNothing(c)
    BY <2>3, ExitTypes DEF UpFindsNothing
  <2>4. CASE UpRecords(c)
    BY <2>4 DEF UpRecords, Goto, Save
  <2>5. CASE RestartBegins(c)
    BY <2>5 DEF RestartBegins, Lock, Alive
  <2>6. CASE BootSaves(c)
    BY <2>6 DEF BootSaves, Goto, Save
  <2>7. CASE Booted(c)
    BY <2>7 DEF Booted, Goto, Save, Alive
  <2>8. CASE SpawnsProxy(c)
    BY <2>8 DEF SpawnsProxy, Goto
  <2>9. CASE RecordsProxy(c)
    BY <2>9 DEF RecordsProxy, Goto, Save
  <2>10. CASE Healthy(c)
    BY <2>10 DEF Healthy, Goto, Save, Health200
  <2>11. CASE Finishes(c)
    BY <2>11, ExitTypes DEF Finishes
  <2>12. CASE ProvisioningFails(c)
    BY <2>12 DEF ProvisioningFails, Goto
  <2>13. CASE RestartFails(c)
    BY <2>13, ExitTypes DEF RestartFails
  <2>14. CASE Cleanup(c)
    BY <2>14, DestroyTypes DEF Cleanup, Goto
  <2>15. CASE CleanupKeeps(c)
    BY <2>15, ExitTypes DEF CleanupKeeps, Save
  <2>16. CASE Releases(c)
    <3>1. disk' \in Machines \cup {None} /\ UNCHANGED <<side, vm, reported, hits, suffered>>
      BY <2>16 DEF Releases, Save
    <3>2. proxy' = None /\ open' = FALSE /\ Exit(c)
      BY <2>16 DEF Releases
    <3>3. Remembers'
      BY <3>2, ExitTypes
    <3>4. open' \in BOOLEAN
      BY <3>2
    <3>5. proxy' \in Machines \cup {None}
      BY <3>2
    <3>6. TypeOK'
      BY <3>1, <3>4, <3>5, <3>2, ExitTypes
    <3> QED BY <3>1, <3>3, <3>6
  <2> QED BY <1>1, <2>1, <2>2, <2>3, <2>4, <2>5, <2>6, <2>7, <2>8, <2>9,
        <2>10, <2>11, <2>12, <2>13, <2>14, <2>15, <2>16 DEF Up
<1>2. ASSUME NEW c \in Commands, Replace(c) PROVE Typed' /\ suffered \subseteq suffered'
  <2>1. CASE ReplaceBegins(c)
    BY <2>1 DEF ReplaceBegins, Lock
  <2>2. CASE SlotSaves(c)
    BY <2>2 DEF SlotSaves, Goto, Save
  <2>3. CASE DropsSidecar(c)
    BY <2>3 DEF DropsSidecar, Goto
  <2>4. CASE ReplaceCreates(c)
    BY <2>4 DEF ReplaceCreates, Rented
  <2>5. CASE ReplaceFindsNothing(c)
    BY <2>5, ExitTypes DEF ReplaceFindsNothing
  <2>6. CASE ReplaceRecords(c)
    BY <2>6 DEF ReplaceRecords, Goto
  <2>7. CASE StagedServes(c)
    BY <2>7 DEF StagedServes, Goto
  <2>8. CASE StagedFails(c)
    BY <2>8 DEF StagedFails, Goto
  <2>9. CASE Rechecks(c)
    BY <2>9 DEF Rechecks, Goto
  <2>10. CASE Unstages(c)
    <3>1. new[c] \in Machines
      BY <2>10 DEF Unstages
    <3>2. vm' \in [Machines -> Statuses] /\ reported' \subseteq Machines
      BY <2>10, <3>1, DestroyTypes DEF Unstages
    <3>3. hits' \in 0..MaxFaults /\ suffered' \subseteq Faults /\ suffered \subseteq suffered'
      BY <2>10, <3>1, DestroyTypes, FaultTypes DEF Unstages
    <3>4. disk' = disk /\ side' = None /\ UNCHANGED daemon
      BY <2>10 DEF Unstages
    <3> QED BY <2>10, <3>2, <3>3, <3>4, ExitTypes DEF Unstages
  <2>11. CASE Flips(c)
    BY <2>11 DEF Flips, Goto
  <2>12. CASE PollsBackend(c)
    BY <2>12, FaultTypes DEF PollsBackend, Goto
  <2>13. CASE PollsHealth(c)
    BY <2>13, FaultTypes DEF PollsHealth, Goto, Health200, Confirms
  <2>14. CASE CutoverTimesOut(c)
    BY <2>14, ExitTypes DEF CutoverTimesOut
  <2>15. CASE SpawnsNew(c)
    BY <2>15 DEF SpawnsNew, Goto
  <2>16. CASE RecordsNew(c)
    BY <2>16 DEF RecordsNew, Goto
  <2>17. CASE SpawnFails(c)
    BY <2>17 DEF SpawnFails, Goto
  <2>18. CASE DestroysOld(c)
    BY <2>18, ExitTypes, DestroyTypes DEF DestroysOld
  <2> QED BY <1>2, <2>1, <2>2, <2>3, <2>4, <2>5, <2>6, <2>7, <2>8, <2>9,
        <2>10, <2>11, <2>12, <2>13, <2>14, <2>15, <2>16, <2>17, <2>18 DEF Replace
<1>3. ASSUME NEW c \in Commands, Down(c) PROVE Typed' /\ suffered \subseteq suffered'
  <2>1. CASE DownBegins(c)
    BY <2>1 DEF DownBegins
  <2>2. CASE DownGivesUp(c)
    BY <2>2, ExitTypes DEF DownGivesUp
  <2>3. CASE DownMarks(c)
    BY <2>3 DEF DownMarks, Goto, Save
  <2>4. CASE DownSaves(c)
    BY <2>4 DEF DownSaves, Goto, Save
  <2>5. CASE StopsModel(c)
    BY <2>5 DEF StopsModel, Goto
  <2>6. CASE StopsProxy(c)
    BY <2>6 DEF StopsProxy, Goto, Save
  <2>7. CASE DownDestroys(c)
    BY <2>7 DEF DownDestroys, Goto
  <2>8. CASE DestroyFails(c)
    BY <2>8, ExitTypes, FaultTypes DEF DestroyFails
  <2>9. CASE DownPauses(c)
    BY <2>9, ExitTypes DEF DownPauses, Save
  <2>10. CASE Unlinks(c)
    BY <2>10, ExitTypes DEF Unlinks
  <2>11. CASE IdBegins(c)
    BY <2>11, FaultTypes DEF IdBegins
  <2>12. CASE IdStops(c)
    BY <2>12, ExitTypes DEF IdStops
  <2> QED BY <1>3, <2>1, <2>2, <2>3, <2>4, <2>5, <2>6, <2>7, <2>8, <2>9,
        <2>10, <2>11, <2>12 DEF Down
<1>4. ASSUME Proxy PROVE Typed' /\ suffered \subseteq suffered'
  <2>1. CASE ProxyStarts
    BY <2>1 DEF ProxyStarts
  <2>2. CASE ProxyRetargets
    BY <2>2 DEF ProxyRetargets
  <2>3. CASE ProxyOpens
    BY <2>3 DEF ProxyOpens
  <2>4. CASE ProxyCloses
    BY <2>4 DEF ProxyCloses
  <2>5. CASE ProxySaves
    BY <2>5, FaultTypes DEF ProxySaves
  <2>6. CASE ProxyExits
    BY <2>6 DEF ProxyExits, Alive
  <2> QED BY <1>4, <2>1, <2>2, <2>3, <2>4, <2>5, <2>6 DEF Proxy
<1>5. ASSUME NEW c \in Commands, Killed(c) PROVE Typed' /\ suffered \subseteq suffered'
  BY <1>5, ExitTypes, FaultTypes DEF Killed
<1>6. ASSUME NEW m \in Machines, Loads(m) PROVE Typed' /\ suffered \subseteq suffered'
  BY <1>6 DEF Loads
<1>7. ASSUME NEW m \in Machines, Preempted(m) PROVE Typed' /\ suffered \subseteq suffered'
  <2>1. PICK s \in {"exited", "stopped", "gone"} : vm' = [vm EXCEPT ![m] = s]
    BY <1>7 DEF Preempted
  <2>2. hits' \in 0..MaxFaults /\ suffered' \subseteq Faults
      /\ suffered \subseteq suffered'
    BY <1>7, FaultTypes DEF Preempted
  <2> QED BY <1>7, <2>1, <2>2 DEF Preempted
<1>8. CASE UNCHANGED vars
  BY <1>8 DEF vars
<1> QED BY <1>1, <1>2, <1>3, <1>4, <1>5, <1>6, <1>7, <1>8 DEF Next

\* The initial states are typed.
LEMMA InitTypes == Init => Typed
<1> SUFFICES ASSUME Init PROVE Typed
  OBVIOUS
<1>1. vm \in [Machines -> Statuses] /\ proxy \in Machines \cup {None}
  BY DEF Init, Statuses
<1>2. disk \in Machines \cup {None} /\ open \in BOOLEAN 
  BY DEF Init
<1>3. hits \in 0..MaxFaults
  BY FaultsAssumption DEF Init
<1> QED BY <1>1, <1>2, <1>3 DEF Init, Typed, TypeOK, Remembers, Staging, Cutting

\* Every reachable state of a deployment is well typed.
THEOREM TypeCorrectness == Spec => []TypeOK
  BY InitTypes, StepTypes, PTL DEF Spec, Typed

-----------------------------------------------------------------------------
(* Accounting.                                                              *)

\* The circumstances of the theorem: no down of the recorded machine runs
\* beside the commands that hold the lifecycle lock; a `down --id` may.
Locked == Kinds \subseteq {"up", "restart", "replace"}

\* Only the holder of the lock works, beside downs of untracked machines; of
\* the others none has rented anything, and an idle one remembers nothing.
OneAtWork ==
    \A c \in Commands :
        /\ pc[c] \notin DownSteps \ {"orphan"}
        /\ pc[c] \notin {"idle", "orphan"} <=> holder = c
        /\ pc[c] = "idle" => mem[c] = None
        /\ pc[c] \in {"idle", "orphan"} => new[c] = None

\* up goes on only over a record of a machine that is not running.
OldIsDown == disk # None => vm[disk] \in {"gone", "exited"}

UpKeepsTrack ==
    \A c \in Commands :
        /\ pc[c] = "create" => OldIsDown /\ mem[c] = None /\ new[c] = None
        /\ pc[c] = "record" => OldIsDown /\ new[c] = mem[c]
        /\ pc[c] \in Provisioning => disk = mem[c] /\ new[c] \in {None, mem[c]}

ReplaceKeepsTrack ==
    \A c \in Commands :
        /\ pc[c] \in {"slot", "stage"} => disk = mem[c] /\ new[c] = None
        /\ pc[c] \in Staging => disk = mem[c]
        /\ pc[c] \in Cutting => disk = new[c]
        /\ pc[c] = "spawned_new" => got = new[c]

\* The sidecar names the machine of the replace that is running.
SidecarIsStaged ==
    side # None => \E c \in Commands :
        pc[c] \in Staging \cup Cutting /\ new[c] = side

Tracked == OneAtWork /\ UpKeepsTrack /\ ReplaceKeepsTrack /\ SidecarIsStaged

Unharmed == suffered \cap Harmful = {}

IInv == Typed /\ (Unharmed => Tracked /\ Accounted)

\* A harm is not forgotten.
LEMMA UnharmedBefore == Typed /\ [Next]_vars /\ Unharmed' => Unharmed
  BY StepTypes DEF Unharmed

\* While one command works, all others are idle and remember nothing, or stop
\* an untracked machine.
LEMMA Alone ==
    ASSUME OneAtWork, NEW c \in Commands, pc[c] \notin {"idle", "orphan"} \/ holder = None
    PROVE  \A d \in Commands :
               \/ d = c /\ holder = c
               \/ pc[d] = "idle" /\ mem[d] = None /\ new[d] = None
               \/ pc[d] = "orphan" /\ new[d] = None
<1> SUFFICES ASSUME NEW d \in Commands, ~(d = c /\ holder = c)
    PROVE  pc[d] \in {"idle", "orphan"}
  BY DEF OneAtWork
<1>1. holder # d
  BY NoneAssumption DEF OneAtWork
<1> QED BY <1>1 DEF OneAtWork

\* A step keeps the track.
LEMMA StepTracks == Locked /\ IInv /\ [Next]_vars /\ Unharmed' => Tracked' /\ Accounted'
<1> SUFFICES ASSUME Locked, Typed, Tracked, Accounted, Unharmed', [Next]_vars
    PROVE  Tracked' /\ Accounted'
  BY UnharmedBefore DEF IInv
<1> USE NoneAssumption DEF Locked, Unharmed, Harmful, Typed, TypeOK, Remembers, Tracked,
     OneAtWork, OldIsDown,
      UpKeepsTrack, ReplaceKeepsTrack, SidecarIsStaged, Accounted, files, cloud, daemon,
      control, cutover, faults, UpSteps, ReplaceSteps, DownSteps, Statuses, Alive, Provisioning,
      Staging, Cutting
<1>1. ASSUME NEW c \in Commands, Up(c) PROVE Tracked' /\ Accounted'
  <2>1. CASE UpBegins(c)
    BY <2>1, Alone DEF UpBegins, Lock, Fault, NoFault
  <2>2. CASE UpCreates(c)
    BY <2>2, Alone DEF UpCreates, Rented
  <2>3. CASE UpFindsNothing(c)
    BY <2>3, Alone DEF UpFindsNothing, Exit
  <2>4. CASE UpRecords(c)
    BY <2>4, Alone DEF UpRecords, Goto, Save
  <2>5. CASE RestartBegins(c)
    BY <2>5, Alone DEF RestartBegins, Lock
  <2>6. CASE BootSaves(c)
    BY <2>6, Alone DEF BootSaves, Goto, Save
  <2>7. CASE Booted(c)
    BY <2>7, Alone DEF Booted, Goto, Save
  <2>8. CASE SpawnsProxy(c)
    BY <2>8, Alone DEF SpawnsProxy, Goto
  <2>9. CASE RecordsProxy(c)
    BY <2>9, Alone DEF RecordsProxy, Goto, Save
  <2>10. CASE Healthy(c)
    BY <2>10, Alone DEF Healthy, Goto, Save, Health200
  <2>11. CASE Finishes(c)
    BY <2>11, Alone DEF Finishes, Exit
  <2>12. CASE ProvisioningFails(c)
    BY <2>12, Alone DEF ProvisioningFails, Goto
  <2>13. CASE RestartFails(c)
    BY <2>13, Alone DEF RestartFails, Exit
  <2>14. CASE Cleanup(c)
    BY <2>14, Alone DEF Cleanup, Goto, Fault, NoFault, DestroyedOrReported
  <2>15. CASE CleanupKeeps(c)
    BY <2>15, Alone DEF CleanupKeeps, Exit, Save
  <2>16. CASE Releases(c)
    BY <2>16, Alone DEF Releases, Exit, Save
  <2> QED BY <1>1, <2>1, <2>2, <2>3, <2>4, <2>5, <2>6, <2>7, <2>8, <2>9,
        <2>10, <2>11, <2>12, <2>13, <2>14, <2>15, <2>16 DEF Up
<1>2. ASSUME NEW c \in Commands, Replace(c) PROVE Tracked' /\ Accounted'
  <2>1. CASE ReplaceBegins(c)
    BY <2>1, Alone DEF ReplaceBegins, Lock
  <2>2. CASE SlotSaves(c)
    BY <2>2, Alone DEF SlotSaves, Goto, Save
  <2>3. CASE DropsSidecar(c)
    BY <2>3, Alone DEF DropsSidecar, Goto
  <2>4. CASE ReplaceCreates(c)
    BY <2>4, Alone DEF ReplaceCreates, Rented
  <2>5. CASE ReplaceFindsNothing(c)
    BY <2>5, Alone DEF ReplaceFindsNothing, Exit
  <2>6. CASE ReplaceRecords(c)
    BY <2>6, Alone DEF ReplaceRecords, Goto
  <2>7. CASE StagedServes(c)
    BY <2>7, Alone DEF StagedServes, Goto
  <2>8. CASE StagedFails(c)
    BY <2>8, Alone DEF StagedFails, Goto
  <2>9. CASE Rechecks(c)
    BY <2>9, Alone DEF Rechecks, Goto
  <2>10. CASE Unstages(c)
    BY <2>10, Alone DEF Unstages, Exit, Fault, NoFault, DestroyedOrReported
  <2>11. CASE Flips(c)
    BY <2>11, Alone DEF Flips, Goto
  <2>12. CASE PollsBackend(c)
    BY <2>12, Alone DEF PollsBackend, Goto, Fault, NoFault
  <2>13. CASE PollsHealth(c)
    BY <2>13, Alone DEF PollsHealth, Goto, Fault, NoFault, Health200,
       Confirms
  <2>14. CASE CutoverTimesOut(c)
    BY <2>14, Alone DEF CutoverTimesOut, Exit
  <2>15. CASE SpawnsNew(c)
    BY <2>15, Alone DEF SpawnsNew, Goto
  <2>16. CASE RecordsNew(c)
    BY <2>16, Alone DEF RecordsNew, Goto
  <2>17. CASE SpawnFails(c)
    BY <2>17, Alone DEF SpawnFails, Goto
  <2>18. CASE DestroysOld(c)
    BY <2>18, Alone DEF DestroysOld, Exit, Fault, NoFault,
       DestroyedOrReported
  <2> QED BY <1>2, <2>1, <2>2, <2>3, <2>4, <2>5, <2>6, <2>7, <2>8, <2>9,
        <2>10, <2>11, <2>12, <2>13, <2>14, <2>15, <2>16, <2>17, <2>18 DEF Replace
<1>3. ASSUME NEW c \in Commands, Down(c) PROVE Tracked' /\ Accounted'
  <2>1. CASE DownBegins(c)
    BY <2>1, Alone DEF DownBegins
  <2>2. CASE DownGivesUp(c)
    BY <2>2, Alone DEF DownGivesUp, Exit
  <2>3. CASE DownMarks(c)
    BY <2>3, Alone DEF DownMarks, Goto, Save
  <2>4. CASE DownSaves(c)
    BY <2>4, Alone DEF DownSaves, Goto, Save
  <2>5. CASE StopsModel(c)
    BY <2>5, Alone DEF StopsModel, Goto
  <2>6. CASE StopsProxy(c)
    BY <2>6, Alone DEF StopsProxy, Goto, Save
  <2>7. CASE DownDestroys(c)
    BY <2>7, Alone DEF DownDestroys, Goto
  <2>8. CASE DestroyFails(c)
    BY <2>8, Alone DEF DestroyFails, Exit, Fault
  <2>9. CASE DownPauses(c)
    BY <2>9, Alone DEF DownPauses, Exit, Save
  <2>10. CASE Unlinks(c)
    BY <2>10, Alone DEF Unlinks, Exit
  <2>11. CASE IdBegins(c)
    BY <2>11 DEF IdBegins, Fault
  <2>12. CASE IdStops(c)
    BY <2>12 DEF IdStops, Exit
  <2> QED BY <1>3, <2>1, <2>2, <2>3, <2>4, <2>5, <2>6, <2>7, <2>8, <2>9,
        <2>10, <2>11, <2>12 DEF Down
<1>4. ASSUME Proxy PROVE Tracked' /\ Accounted'
  <2>1. CASE ProxyStarts
    BY <2>1 DEF ProxyStarts
  <2>2. CASE ProxyRetargets
    BY <2>2 DEF ProxyRetargets
  <2>3. CASE ProxyOpens
    BY <2>3 DEF ProxyOpens
  <2>4. CASE ProxyCloses
    BY <2>4 DEF ProxyCloses
  <2>5. CASE ProxySaves
    BY <2>5 DEF ProxySaves, Fault
  <2>6. CASE ProxyExits
    BY <2>6 DEF ProxyExits
  <2> QED BY <1>4, <2>1, <2>2, <2>3, <2>4, <2>5, <2>6 DEF Proxy
<1>5. ASSUME NEW c \in Commands, Killed(c) PROVE FALSE
  BY <1>5 DEF Killed, Fault
<1>6. ASSUME NEW m \in Machines, Loads(m) PROVE Tracked' /\ Accounted'
  BY <1>6 DEF Loads
<1>7. ASSUME NEW m \in Machines, Preempted(m) PROVE Tracked' /\ Accounted'
  BY <1>7 DEF Preempted
<1>8. CASE UNCHANGED vars
  BY <1>8 DEF vars
<1> QED BY <1>1, <1>2, <1>3, <1>4, <1>5, <1>6, <1>7, <1>8 DEF Next

\* No rented machine is lost by up, restart and replace, for any number of
\* commands, machines and faults.
THEOREM Accounting == Locked => (Spec => []AccountedUnlessHarmed)
<1> SUFFICES ASSUME Locked PROVE Spec => []AccountedUnlessHarmed
  OBVIOUS
<1>1. Init => IInv
  <2> SUFFICES ASSUME Init PROVE Tracked /\ Accounted
    BY InitTypes DEF IInv
  <2>1. Tracked
    BY NoneAssumption DEF Init, Tracked, OneAtWork, UpKeepsTrack, ReplaceKeepsTrack,
      SidecarIsStaged, DownSteps, Provisioning, Staging, Cutting
  <2>2. Accounted
    BY NoneAssumption DEF Init, Accounted, Alive
  <2> QED BY <2>1, <2>2
<1>2. IInv /\ [Next]_vars => IInv'
  BY StepTypes, StepTracks DEF IInv
<1> QED BY <1>1, <1>2, PTL DEF Spec, IInv, Unharmed, AccountedUnlessHarmed
-----------------------------------------------------------------------------
(* The cutover of a replace.                                                *)

\* Whoever is remembered, recorded or bound to was rented once, so that a
\* machine rented now is none of them.
Rent(m) == m # None => vm[m] # "none"
Fresh ==
    /\ Rent(disk) /\ Rent(proxy) /\ Rent(got)
    /\ \A c \in Commands : Rent(mem[c]) /\ Rent(new[c])

\* The proxy has left the old machine for good: its daemon, and every daemon
\* started after it, is bound to the machine the flip recorded.
Left(c) == disk = new[c] /\ proxy \in {None, new[c]}

\* The daemon follows a record, its own copy, of a machine that is dead.
Dead == proxy \in {None, disk} /\ vm[disk] \notin Alive

\* What the polls of a cutover, none of them lost, have made sure of.
CutoverKnows ==
    \A c \in Commands : hot /\ pc[c] \in Cutting =>
        /\ pc[c] \notin {"spawn_new", "spawned_new"} /\ disk # None
        /\ disk = new[c] \/ proxy \in {None, disk}
        /\ proxy = None => Left(c) \/ Dead
        /\ pc[c] = "cutover_health" /\ "backend" \notin seen => got = None
        /\ pc[c] = "cutover_health" /\ got = new[c] => Left(c)
        /\ pc[c] = "cutover_health" /\ got = None /\ "request" \notin suffered => Left(c) \/ Dead
        /\ pc[c] = "destroy_old" /\ "request" \notin suffered => Left(c)

\* On the way to it the two machines are different ones.
StagesAnother == \A c \in Commands : pc[c] \in Staging \cup Cutting => mem[c] # new[c]

OneLeaves == OneAtWork /\ Fresh /\ StagesAnother /\ CutoverKnows

\* A step keeps what the cutover knows, whatever fails.
LEMMA StepLeaves == Locked /\ Typed /\ OneLeaves /\ [Next]_vars => OneLeaves'
<1> SUFFICES ASSUME Locked, Typed, OneLeaves, [Next]_vars PROVE OneLeaves'
  OBVIOUS
<1> USE NoneAssumption DEF Locked, Typed, TypeOK, Remembers, OneLeaves, OneAtWork, Rent, Fresh,
      StagesAnother, CutoverKnows, Left, Dead, files, cloud, daemon, control, cutover, faults,
      UpSteps, ReplaceSteps, DownSteps, Statuses, Alive, Staging, Cutting
<1>1. ASSUME NEW c \in Commands, Up(c) PROVE OneLeaves'
  <2>1. CASE UpBegins(c)
    BY <2>1, Alone DEF UpBegins, Lock, Fault, NoFault
  <2>2. CASE UpCreates(c)
    BY <2>2, Alone DEF UpCreates, Rented
  <2>3. CASE UpFindsNothing(c)
    BY <2>3, Alone DEF UpFindsNothing, Exit
  <2>4. CASE UpRecords(c)
    BY <2>4, Alone DEF UpRecords, Goto, Save
  <2>5. CASE RestartBegins(c)
    BY <2>5, Alone DEF RestartBegins, Lock
  <2>6. CASE BootSaves(c)
    BY <2>6, Alone DEF BootSaves, Goto, Save
  <2>7. CASE Booted(c)
    BY <2>7, Alone DEF Booted, Goto, Save
  <2>8. CASE SpawnsProxy(c)
    BY <2>8, Alone DEF SpawnsProxy, Goto
  <2>9. CASE RecordsProxy(c)
    BY <2>9, Alone DEF RecordsProxy, Goto, Save
  <2>10. CASE Healthy(c)
    BY <2>10, Alone DEF Healthy, Goto, Save, Health200
  <2>11. CASE Finishes(c)
    BY <2>11, Alone DEF Finishes, Exit
  <2>12. CASE ProvisioningFails(c)
    BY <2>12, Alone DEF ProvisioningFails, Goto
  <2>13. CASE RestartFails(c)
    BY <2>13, Alone DEF RestartFails, Exit
  <2>14. CASE Cleanup(c)
    BY <2>14, Alone DEF Cleanup, Goto, Fault, NoFault, DestroyedOrReported
  <2>15. CASE CleanupKeeps(c)
    BY <2>15, Alone DEF CleanupKeeps, Exit, Save
  <2>16. CASE Releases(c)
    BY <2>16, Alone DEF Releases, Exit, Save
  <2> QED BY <1>1, <2>1, <2>2, <2>3, <2>4, <2>5, <2>6, <2>7, <2>8, <2>9,
        <2>10, <2>11, <2>12, <2>13, <2>14, <2>15, <2>16 DEF Up
<1>2. ASSUME NEW c \in Commands, Replace(c) PROVE OneLeaves'
  <2>1. CASE ReplaceBegins(c)
    BY <2>1, Alone DEF ReplaceBegins, Lock
  <2>2. CASE SlotSaves(c)
    BY <2>2, Alone DEF SlotSaves, Goto, Save
  <2>3. CASE DropsSidecar(c)
    BY <2>3, Alone DEF DropsSidecar, Goto
  <2>4. CASE ReplaceCreates(c)
    BY <2>4, Alone DEF ReplaceCreates, Rented
  <2>5. CASE ReplaceFindsNothing(c)
    BY <2>5, Alone DEF ReplaceFindsNothing, Exit
  <2>6. CASE ReplaceRecords(c)
    BY <2>6, Alone DEF ReplaceRecords, Goto
  <2>7. CASE StagedServes(c)
    BY <2>7, Alone DEF StagedServes, Goto
  <2>8. CASE StagedFails(c)
    BY <2>8, Alone DEF StagedFails, Goto
  <2>9. CASE Rechecks(c)
    BY <2>9, Alone DEF Rechecks, Goto
  <2>10. CASE Unstages(c)
    BY <2>10, Alone DEF Unstages, Exit, Fault, NoFault, DestroyedOrReported
  <2>11. CASE Flips(c)
    BY <2>11, Alone DEF Flips, Goto
  <2>12. CASE PollsBackend(c)
    BY <2>12, Alone DEF PollsBackend, Goto, Fault, NoFault
  <2>13. CASE PollsHealth(c)
    <3>1. PICK ok \in BOOLEAN :
            /\ \/ ok = Health200 /\ NoFault
               \/ ok = FALSE /\ Fault("request")
            /\ Goto(c, "cutover_health", IF Confirms(c, ok) THEN "destroy_old" ELSE "cutover")
      BY <2>13, Zenon DEF PollsHealth
    <3>2. UNCHANGED <<disk, proxy, vm, hot, got, holder, mem, new>> /\ pc[c] = "cutover_health"
      BY <2>13 DEF PollsHealth, Goto
    <3>3. CASE Confirms(c, ok)
      <4>1. Health200 /\ NoFault
        BY <3>1, <3>3 DEF Confirms
      <4>2. ~Dead
        BY <4>1 DEF Health200
      <4> QED BY <3>1, <3>2, <3>3, <4>1, <4>2, Alone DEF Goto, NoFault, Confirms
    <3>4. CASE ~Confirms(c, ok)
      BY <3>1, <3>2, <3>4, Alone DEF Goto, Fault, NoFault
    <3> QED BY <3>3, <3>4
  <2>14. CASE CutoverTimesOut(c)
    BY <2>14, Alone DEF CutoverTimesOut, Exit
  <2>15. CASE SpawnsNew(c)
    BY <2>15, Alone DEF SpawnsNew, Goto
  <2>16. CASE RecordsNew(c)
    BY <2>16, Alone DEF RecordsNew, Goto
  <2>17. CASE SpawnFails(c)
    BY <2>17, Alone DEF SpawnFails, Goto
  <2>18. CASE DestroysOld(c)
    BY <2>18, Alone DEF DestroysOld, Exit, Fault, NoFault,
       DestroyedOrReported
  <2> QED BY <1>2, <2>1, <2>2, <2>3, <2>4, <2>5, <2>6, <2>7, <2>8, <2>9,
        <2>10, <2>11, <2>12, <2>13, <2>14, <2>15, <2>16, <2>17, <2>18 DEF Replace
<1>3. ASSUME NEW c \in Commands, Down(c) PROVE OneLeaves'
  <2>1. CASE DownBegins(c)
    BY <2>1, Alone DEF DownBegins
  <2>2. CASE DownGivesUp(c)
    BY <2>2, Alone DEF DownGivesUp, Exit
  <2>3. CASE DownMarks(c)
    BY <2>3, Alone DEF DownMarks, Goto, Save
  <2>4. CASE DownSaves(c)
    BY <2>4, Alone DEF DownSaves, Goto, Save
  <2>5. CASE StopsModel(c)
    BY <2>5, Alone DEF StopsModel, Goto
  <2>6. CASE StopsProxy(c)
    BY <2>6, Alone DEF StopsProxy, Goto, Save
  <2>7. CASE DownDestroys(c)
    BY <2>7, Alone DEF DownDestroys, Goto
  <2>8. CASE DestroyFails(c)
    BY <2>8, Alone DEF DestroyFails, Exit, Fault
  <2>9. CASE DownPauses(c)
    BY <2>9, Alone DEF DownPauses, Exit, Save
  <2>10. CASE Unlinks(c)
    BY <2>10, Alone DEF Unlinks, Exit
  <2>11. CASE IdBegins(c)
    BY <2>11 DEF IdBegins, Fault
  <2>12. CASE IdStops(c)
    BY <2>12 DEF IdStops, Exit
  <2> QED BY <1>3, <2>1, <2>2, <2>3, <2>4, <2>5, <2>6, <2>7, <2>8, <2>9,
        <2>10, <2>11, <2>12 DEF Down
<1>4. ASSUME Proxy PROVE OneLeaves'
  <2>1. CASE ProxyStarts
    BY <2>1 DEF ProxyStarts
  <2>2. CASE ProxyRetargets
    BY <2>2 DEF ProxyRetargets
  <2>3. CASE ProxyOpens
    BY <2>3 DEF ProxyOpens
  <2>4. CASE ProxyCloses
    BY <2>4 DEF ProxyCloses
  <2>5. CASE ProxySaves
    BY <2>5 DEF ProxySaves, Fault
  <2>6. CASE ProxyExits
    BY <2>6 DEF ProxyExits
  <2> QED BY <1>4, <2>1, <2>2, <2>3, <2>4, <2>5, <2>6 DEF Proxy
<1>5. ASSUME NEW c \in Commands, Killed(c) PROVE OneLeaves'
  BY <1>5, Alone DEF Killed, Exit, Fault
<1>6. ASSUME NEW m \in Machines, Loads(m) PROVE OneLeaves'
  BY <1>6 DEF Loads
<1>7. ASSUME NEW m \in Machines, Preempted(m) PROVE OneLeaves'
  <2>1. PICK s \in {"exited", "stopped", "gone"} : vm' = [vm EXCEPT ![m] = s]
    BY <1>7 DEF Preempted
  <2>2. suffered' = suffered \cup {"preempted"} /\ UNCHANGED <<disk, proxy, control, cutover>>
    BY <1>7 DEF Preempted, Fault
  <2>3. Fresh'
    BY <2>1, <2>2
  <2>4. Dead => Dead'
    BY <2>1, <2>2
  <2>5. CutoverKnows'
    <3> HIDE DEF Dead
    <3> QED BY <2>2, <2>4
  <2> QED BY <2>2, <2>3, <2>5
<1>8. CASE UNCHANGED vars
  BY <1>8 DEF vars
<1> QED BY <1>1, <1>2, <1>3, <1>4, <1>5, <1>6, <1>7, <1>8 DEF Next

\* A replace that found a running proxy destroys the old machine only when that
\* proxy has left it, unless a poll is lost: for any number of commands and
\* machines, whatever is killed, preempted or written back.
THEOREM LeavesBeforeDestroying == Locked => (Spec => NeverDestroysTheServed)
<1> SUFFICES ASSUME Locked PROVE Spec => NeverDestroysTheServed
  OBVIOUS
<1>1. Init => OneLeaves
  BY NoneAssumption DEF Init, OneLeaves, OneAtWork, Rent, Fresh, StagesAnother, CutoverKnows,
     DownSteps, Staging, Cutting
<1>2. Typed /\ OneLeaves /\ [Next]_vars => OneLeaves'
  BY StepLeaves
<1> DEFINE Parted ==
       \A c \in Commands :
         /\ pc[c] = "destroy_old" /\ pc'[c] = "idle" /\ hot /\ vm' # vm
         /\ "request" \notin suffered
         => proxy # mem[c]
<1>3. Typed /\ OneLeaves => Parted
  BY DEF Typed, Remembers, Staging, Cutting, OneLeaves, StagesAnother, CutoverKnows, Left
<1>4. Typed /\ OneLeaves => [Parted]_vars
  BY <1>3
<1>5. Spec => [][Parted]_vars
  <2> HIDE DEF Parted
  <2> QED BY <1>1, <1>2, <1>4, InitTypes, StepTypes, PTL DEF Spec
<1> QED BY <1>5 DEF NeverDestroysTheServed

-----------------------------------------------------------------------------
(* Downs.                                                                   *)

\* The circumstances of the last theorem: down, pause and restart run side by
\* side, the first two without the lock, and nothing is rented.
Downs == Kinds \subseteq {"down", "pause", "restart"}

NothingStaged ==
    \A c \in Commands :
        /\ pc[c] \in {"idle", "boot", "spawn", "spawned", "health", "final", "cleanup", "release"}
                   \cup (DownSteps \ {"orphan"})
        /\ new[c] = None

\* All who name a machine that is not gone name the same one.
AllMean(m) ==
    /\ disk = m /\ proxy \in {m, None}
    /\ \A c \in Commands : mem[c] \in {m, None}
OneIsMeant == \A m \in Machines : vm[m] \notin {"none", "gone"} => AllMean(m)

\* A down unlinks the record of a machine that is gone.
UnlinksTheGone == \A c \in Commands : pc[c] = "unlink" => vm[mem[c]] = "gone"

OneKept == Fresh /\ NothingStaged /\ OneIsMeant /\ UnlinksTheGone

\* A step keeps the one machine in state.json, whatever fails.
LEMMA StepKeeps == Downs /\ Typed /\ OneKept /\ [Next]_vars => OneKept'
<1> SUFFICES ASSUME Downs, Typed, OneKept, [Next]_vars PROVE OneKept'
  OBVIOUS
<1> USE NoneAssumption DEF Downs, Typed, TypeOK, Remembers, OneKept, Rent, Fresh, NothingStaged,
      OneIsMeant, AllMean, UnlinksTheGone, files, cloud, daemon, control, cutover, faults,
      UpSteps, ReplaceSteps, DownSteps, Statuses, Alive, Staging, Cutting
<1>1. ASSUME NEW c \in Commands, Up(c) PROVE OneKept'
  <2>1. CASE UpBegins(c)
    BY <2>1 DEF UpBegins, Lock, Fault, NoFault
  <2>2. CASE UpCreates(c)
    BY <2>2 DEF UpCreates, Rented
  <2>3. CASE UpFindsNothing(c)
    BY <2>3 DEF UpFindsNothing, Exit
  <2>4. CASE UpRecords(c)
    BY <2>4 DEF UpRecords, Goto, Save
  <2>5. CASE RestartBegins(c)
    BY <2>5 DEF RestartBegins, Lock
  <2>6. CASE BootSaves(c)
    BY <2>6 DEF BootSaves, Goto, Save
  <2>7. CASE Booted(c)
    BY <2>7 DEF Booted, Goto, Save
  <2>8. CASE SpawnsProxy(c)
    BY <2>8 DEF SpawnsProxy, Goto
  <2>9. CASE RecordsProxy(c)
    BY <2>9 DEF RecordsProxy, Goto, Save
  <2>10. CASE Healthy(c)
    BY <2>10 DEF Healthy, Goto, Save, Health200
  <2>11. CASE Finishes(c)
    BY <2>11 DEF Finishes, Exit
  <2>12. CASE ProvisioningFails(c)
    BY <2>12 DEF ProvisioningFails, Goto
  <2>13. CASE RestartFails(c)
    BY <2>13 DEF RestartFails, Exit
  <2>14. CASE Cleanup(c)
    BY <2>14 DEF Cleanup, Goto, Fault, NoFault, DestroyedOrReported
  <2>15. CASE CleanupKeeps(c)
    BY <2>15 DEF CleanupKeeps, Exit, Save
  <2>16. CASE Releases(c)
    BY <2>16 DEF Releases, Exit, Save
  <2> QED BY <1>1, <2>1, <2>2, <2>3, <2>4, <2>5, <2>6, <2>7, <2>8, <2>9,
        <2>10, <2>11, <2>12, <2>13, <2>14, <2>15, <2>16 DEF Up
<1>2. ASSUME NEW c \in Commands, Replace(c) PROVE OneKept'
  <2>1. CASE ReplaceBegins(c)
    BY <2>1 DEF ReplaceBegins, Lock
  <2>2. CASE SlotSaves(c)
    BY <2>2 DEF SlotSaves, Goto, Save
  <2>3. CASE DropsSidecar(c)
    BY <2>3 DEF DropsSidecar, Goto
  <2>4. CASE ReplaceCreates(c)
    BY <2>4 DEF ReplaceCreates, Rented
  <2>5. CASE ReplaceFindsNothing(c)
    BY <2>5 DEF ReplaceFindsNothing, Exit
  <2>6. CASE ReplaceRecords(c)
    BY <2>6 DEF ReplaceRecords, Goto
  <2>7. CASE StagedServes(c)
    BY <2>7 DEF StagedServes, Goto
  <2>8. CASE StagedFails(c)
    BY <2>8 DEF StagedFails, Goto
  <2>9. CASE Rechecks(c)
    BY <2>9 DEF Rechecks, Goto
  <2>10. CASE Unstages(c)
    BY <2>10 DEF Unstages, Exit, Fault, NoFault, DestroyedOrReported
  <2>11. CASE Flips(c)
    BY <2>11 DEF Flips, Goto
  <2>12. CASE PollsBackend(c)
    BY <2>12 DEF PollsBackend, Goto, Fault, NoFault
  <2>13. CASE PollsHealth(c)
    BY <2>13 DEF PollsHealth, Goto
  <2>14. CASE CutoverTimesOut(c)
    BY <2>14 DEF CutoverTimesOut, Exit
  <2>15. CASE SpawnsNew(c)
    BY <2>15 DEF SpawnsNew, Goto
  <2>16. CASE RecordsNew(c)
    BY <2>16 DEF RecordsNew, Goto
  <2>17. CASE SpawnFails(c)
    BY <2>17 DEF SpawnFails, Goto
  <2>18. CASE DestroysOld(c)
    BY <2>18 DEF DestroysOld, Exit, Fault, NoFault,
       DestroyedOrReported
  <2> QED BY <1>2, <2>1, <2>2, <2>3, <2>4, <2>5, <2>6, <2>7, <2>8, <2>9,
        <2>10, <2>11, <2>12, <2>13, <2>14, <2>15, <2>16, <2>17, <2>18 DEF Replace
<1>3. ASSUME NEW c \in Commands, Down(c) PROVE OneKept'
  <2>1. CASE DownBegins(c)
    BY <2>1 DEF DownBegins
  <2>2. CASE DownGivesUp(c)
    BY <2>2 DEF DownGivesUp, Exit
  <2>3. CASE DownMarks(c)
    BY <2>3 DEF DownMarks, Goto, Save
  <2>4. CASE DownSaves(c)
    BY <2>4 DEF DownSaves, Goto, Save
  <2>5. CASE StopsModel(c)
    BY <2>5 DEF StopsModel, Goto
  <2>6. CASE StopsProxy(c)
    BY <2>6 DEF StopsProxy, Goto, Save
  <2>7. CASE DownDestroys(c)
    BY <2>7 DEF DownDestroys, Goto
  <2>8. CASE DestroyFails(c)
    BY <2>8 DEF DestroyFails, Exit, Fault
  <2>9. CASE DownPauses(c)
    BY <2>9 DEF DownPauses, Exit, Save
  <2>10. CASE Unlinks(c)
    BY <2>10 DEF Unlinks, Exit
  <2>11. CASE IdBegins(c)
    BY <2>11 DEF IdBegins, IsTracked, Fault
  <2>12. CASE IdStops(c)
    BY <2>12 DEF IdStops, Exit
  <2> QED BY <1>3, <2>1, <2>2, <2>3, <2>4, <2>5, <2>6, <2>7, <2>8, <2>9,
        <2>10, <2>11, <2>12 DEF Down
<1>4. ASSUME Proxy PROVE OneKept'
  <2>1. CASE ProxyStarts
    BY <2>1 DEF ProxyStarts
  <2>2. CASE ProxyRetargets
    BY <2>2 DEF ProxyRetargets
  <2>3. CASE ProxyOpens
    BY <2>3 DEF ProxyOpens
  <2>4. CASE ProxyCloses
    BY <2>4 DEF ProxyCloses
  <2>5. CASE ProxySaves
    BY <2>5 DEF ProxySaves, Fault
  <2>6. CASE ProxyExits
    BY <2>6 DEF ProxyExits
  <2> QED BY <1>4, <2>1, <2>2, <2>3, <2>4, <2>5, <2>6 DEF Proxy
<1>5. ASSUME NEW c \in Commands, Killed(c) PROVE OneKept'
  BY <1>5 DEF Killed, Exit, Fault
<1>6. ASSUME NEW m \in Machines, Loads(m) PROVE OneKept'
  BY <1>6 DEF Loads
<1>7. ASSUME NEW m \in Machines, Preempted(m) PROVE OneKept'
  BY <1>7 DEF Preempted
<1>8. CASE UNCHANGED vars
  BY <1>8 DEF vars
<1> QED BY <1>1, <1>2, <1>3, <1>4, <1>5, <1>6, <1>7, <1>8 DEF Next

\* No interleaving of down, pause and restart forgets a machine that may run,
\* whatever is killed, fails, or is written back by the proxy.
THEOREM DownsForgetNothing == Downs => (Spec => []Accounted)
<1> SUFFICES ASSUME Downs PROVE Spec => []Accounted
  OBVIOUS
<1>1. Init => OneKept
  BY NoneAssumption DEF Init, OneKept, Rent, Fresh, NothingStaged, OneIsMeant, AllMean,
       UnlinksTheGone
<1>2. Typed /\ OneKept /\ [Next]_vars => OneKept'
  BY StepKeeps
<1>3. OneKept => Accounted
  BY DEF OneKept, OneIsMeant, AllMean, Accounted, Alive
<1> QED BY <1>1, <1>2, <1>3, InitTypes, StepTypes, PTL DEF Spec
=============================================================================
