----------------------------- MODULE Boot_proofs -----------------------------
(***************************************************************************)
(* Proofs about Boot: for any number of ups that share the certificate     *)
(* files, any deadline and any number of wrong answers, every state is     *)
(* well typed, a certificate is delivered with its own key unless it was   *)
(* renewed in the midst of the delivery, and an up that reports READY has  *)
(* a record without the `unsecure` of its health wait or of an earlier     *)
(* one; and a fresh up whose provider answers wrongly once gives up no     *)
(* live machine.                                                           *)
(***************************************************************************)
EXTENDS Boot, TLAPS

-----------------------------------------------------------------------------
(* Type correctness.                                                        *)

\* What the provider may answer.
LEMMA AnswersTypes ==
    ASSUME TypeOK, NEW u \in Ups, NEW answer \in Answers(u)
    PROVE  /\ answer \in {"error", "absent"} \cup Statuses
           /\ answer = "absent" /\ vm[u] \notin {"unseen", "gone"} => flakes < MaxFlakes
           /\ answer \in {"error", "absent"} \/ vm[u] \notin {"unseen", "gone"}
  BY DEF Answers, TypeOK, Statuses

\* Wrong answers are counted.
LEMMA CountsTypes ==
    ASSUME TypeOK, NEW u \in Ups, NEW answer \in Answers(u), Counts(u, answer)
    PROVE  flakes' \in 0..MaxFlakes
  BY AnswersTypes, BoundsAssumption DEF Counts, TypeOK

\* state.json of each command: what its address may become.
Files == [Ups -> [ssh : Addrs \cup {None}, unsecure : BOOLEAN,
                  status : {"provisioning", "ssh-ready", "running"}]]

LEMMA FileTypes ==
    ASSUME TypeOK, NEW u \in Ups, NEW a \in Addrs \cup {None}, NEW b \in BOOLEAN
    PROVE  /\ [file EXCEPT ![u].ssh = a, ![u].unsecure = b] \in Files
           /\ [file EXCEPT ![u] = [ssh |-> a, unsecure |-> b, status |-> "ssh-ready"]] \in Files
           /\ [file EXCEPT ![u] = [ssh |-> a, unsecure |-> b, status |-> "running"]] \in Files
<1>1. file \in Files
  BY DEF TypeOK, Files
<1>2. [file EXCEPT ![u].ssh = a, ![u].unsecure = b] \in Files
  BY <1>1 DEF Files
<1>3. [file EXCEPT ![u] = [ssh |-> a, unsecure |-> b, status |-> "ssh-ready"]] \in Files
  BY <1>1 DEF Files
<1>4. [file EXCEPT ![u] = [ssh |-> a, unsecure |-> b, status |-> "running"]] \in Files
  BY <1>1 DEF Files
<1> QED BY <1>2, <1>3, <1>4

\* A new address is written to the copies of an address.
LEMMA RefreshTypes ==
    ASSUME TypeOK, NEW u \in Ups, NEW answer, Refreshes(u, answer)
    PROVE  /\ mem' \in [Ups -> Addrs \cup {None}] /\ copy' \in [Ups -> Addrs \cup {None}]
           /\ file' \in Files
<1>1. addr[u] \in Addrs \cup {None} /\ file \in Files /\ plain[u] \in BOOLEAN
  BY DEF TypeOK, Files
<1>2. /\ [file EXCEPT ![u].ssh = addr[u], ![u].unsecure = plain[u]] \in Files
      /\ [file EXCEPT ![u].ssh = addr[u], ![u].unsecure = TRUE] \in Files
  BY <1>1, FileTypes
<1>3. file' \in Files
  BY <1>1, <1>2, Zenon DEF Refreshes
<1> QED BY <1>1, <1>3 DEF Refreshes, TypeOK

\* A step keeps the types.
LEMMA StepTypes == TypeOK /\ [Next]_vars => TypeOK'
<1> SUFFICES ASSUME TypeOK, [Next]_vars PROVE TypeOK'
  OBVIOUS
<1> USE BoundsAssumption, NoneAssumption, LateAssumption DEF TypeOK, command, machine, tls,
     Owners, Addrs,
        Steps, Reasons, Statuses, Servers
<1>1. ASSUME NEW u \in Ups, Command(u), UNCHANGED minimum PROVE TypeOK'
  <2>1. CASE Polls(u)
    <3>1. PICK answer \in Answers(u) :
            /\ Counts(u, answer)
            /\ IF Dead(u, answer)
                 THEN /\ IF check[u] = "second" THEN Fails(u, "lost") ELSE UNCHANGED <<pc, why>>
                      /\ UNCHANGED <<mem, copy, file>>
                 ELSE Refreshes(u, answer) /\ UNCHANGED <<pc, why>>
      BY <2>1 DEF Polls
    <3>2. check' \in [Ups -> {"no", "first", "second"}]
      BY <2>1, SMTT(30) DEF Polls
    <3>3. pc' \in [Ups -> Steps] /\ why' \in [Ups -> Reasons]
      BY <3>1, ZenonT(40) DEF Fails
    <3>4. /\ mem' \in [Ups -> Addrs \cup {None}] /\ copy' \in [Ups -> Addrs \cup {None}]
          /\ file' \in Files
      <4>1. CASE Dead(u, answer)
        BY <3>1, <4>1 DEF Files
      <4>2. CASE ~Dead(u, answer)
        BY <3>1, <4>2, RefreshTypes
      <4> QED BY <4>1, <4>2
    <3>5. flakes' \in 0..MaxFlakes
      BY <3>1, CountsTypes
    <3> QED BY <2>1, <1>1, <3>2, <3>3, <3>4, <3>5 DEF Files, Polls
  <2>2. CASE Starts(u)
    <3>1. vm' \in [Ups -> Statuses]
      BY <2>2, SMTT(30) DEF Starts
    <3>2. pc' \in [Ups -> Steps] /\ why' \in [Ups -> Reasons]
      <4>1. CASE Fails(u, "start")
        BY <4>1 DEF Fails
      <4>2. CASE pc' = [pc EXCEPT ![u] = "endpoint"] /\ UNCHANGED why
        BY <4>2
      <4> QED BY <2>2, <4>1, <4>2, Zenon DEF Starts
    <3> QED BY <2>2, <1>1, <3>1, <3>2 DEF Starts
  <2>3. CASE Asks(u)
    <3>1. flakes' \in 0..MaxFlakes
      BY <2>3, CountsTypes DEF Asks
    <3> QED BY <2>3, <1>1, <3>1 DEF Asks, Turn
  <2>4. CASE SeesItEnded(u)
    BY <2>4, <1>1 DEF SeesItEnded, Fails
  <2>5. CASE SeesTheEndpoint(u)
    <3>1. addr[u] \in Addrs \cup {None} /\ plain[u] \in BOOLEAN
      OBVIOUS
    <3>2. file' \in Files
      BY <2>5, <3>1, FileTypes DEF SeesTheEndpoint
    <3>3. mem' \in [Ups -> Addrs \cup {None}] /\ url' \in [Ups -> Addrs \cup {None}]
      BY <2>5, <3>1 DEF SeesTheEndpoint
    <3>4. pc' \in [Ups -> Steps] /\ left' \in [Ups -> 0..Rounds] /\ seen' \in [Ups -> BOOLEAN]
      BY <2>5 DEF SeesTheEndpoint, Goto
    <3> QED BY <2>5, <1>1, <3>2, <3>3, <3>4 DEF Files, SeesTheEndpoint
  <2>6. CASE TimesOut(u)
    BY <2>6, <1>1 DEF TimesOut, Fails
  <2>7. CASE FindsNoSsh(u)
    BY <2>7, <1>1 DEF FindsNoSsh, Turn
  <2>8. CASE FindsSsh(u)
    BY <2>8, <1>1 DEF FindsSsh, Goto, Reachable
  <2>9. CASE Revives(u)
    BY <2>9, <1>1 DEF Revives, Goto, Reachable
  <2>10. CASE PassesPreflight(u)
    BY <2>10, <1>1 DEF PassesPreflight, Goto, Reachable
  <2>11. CASE FailsPreflight(u)
    BY <2>11, <1>1 DEF FailsPreflight, Fails
  <2>12. CASE RuntimePreflight(u)
    <3>1. pc' \in [Ups -> Steps] /\ why' \in [Ups -> Reasons]
      <4>1. CASE Fails(u, "runtime")
        BY <4>1 DEF Fails
      <4>2. CASE pc' = [pc EXCEPT ![u] = "tls"] /\ UNCHANGED why
        BY <4>2
      <4> QED BY <2>12, <4>1, <4>2, Zenon DEF RuntimePreflight
    <3> QED BY <2>12, <1>1, <3>1 DEF RuntimePreflight
  <2>13. CASE LooksAtTheCert(u)
    BY <2>13, <1>1 DEF LooksAtTheCert, Overtakes
  <2>14. CASE WritesKey(u)
    BY <2>14, <1>1 DEF WritesKey, Goto
  <2>15. CASE OpensslFails(u)
    BY <2>15, <1>1 DEF OpensslFails, Fails
  <2>16. CASE WritesCrt(u)
    BY <2>16, <1>1 DEF WritesCrt, Goto
  <2>17. CASE CopiesCa(u)
    BY <2>17, <1>1 DEF CopiesCa, Goto
  <2>18. CASE ReadsCrt(u)
    BY <2>18, <1>1 DEF ReadsCrt, Goto
  <2>19. CASE Delivers(u)
    <3>1. mem[u] \in Addrs \cup {None} /\ got[u] \in Owners /\ plain[u] \in BOOLEAN
      OBVIOUS
    <3>2. file' \in Files
      BY <2>19, <3>1, FileTypes DEF Delivers
    <3>3. cert' \in [Ups -> [crt : Owners, key : Owners]] /\ got' \in [Ups -> Owners]
      BY <2>19, <3>1 DEF Delivers
    <3>4. pc' \in [Ups -> Steps] /\ left' \in [Ups -> 0..Rounds]
      BY <2>19 DEF Delivers, Goto
    <3> QED BY <2>19, <1>1, <3>2, <3>3, <3>4 DEF Files, Delivers
  <2>20. CASE DeliveryFails(u)
    BY <2>20, <1>1 DEF DeliveryFails, Goto, Turn
  <2>21. CASE PreparesCache(u)
    BY <2>21, <1>1 DEF PreparesCache, Goto
  <2>22. CASE ShmStops(u)
    BY <2>22, <1>1 DEF ShmStops, Fails
  <2>23. CASE StartsTheProxy(u)
    <3>1. file[u].ssh \in Addrs \cup {None} /\ file[u].unsecure \in BOOLEAN
      OBVIOUS
    <3>2. /\ pc' \in [Ups -> Steps] /\ why' \in [Ups -> Reasons] /\ trust' \in [Ups -> Owners]
          /\ mem' \in [Ups -> Addrs \cup {None}] /\ copy' \in [Ups -> Addrs \cup {None}]
          /\ plain' \in [Ups -> BOOLEAN]
      <4>1. CASE Fails(u, "proxy") /\ UNCHANGED <<mem, plain, copy, trust>>
        BY <4>1 DEF Fails
      <4>2. CASE /\ pc' = [pc EXCEPT ![u] = "health"] /\ UNCHANGED why
                 /\ mem' = [mem EXCEPT ![u] = file[u].ssh] /\ plain' = [plain EXCEPT ![u] = file[u].unsecure]
                 /\ copy' = [copy EXCEPT ![u] = file[u].ssh]
                 /\ trust' = [trust EXCEPT ![u] = ca]
        BY <3>1, <4>2
      <4> QED BY <2>23, <4>1, <4>2 DEF StartsTheProxy
    <3> QED BY <2>23, <1>1, <3>2 DEF StartsTheProxy
  <2>24. CASE FindsNoApi(u)
    BY <2>24, <1>1 DEF FindsNoApi, Turn
  <2>25. CASE FindsTheApi(u)
    BY <2>25, <1>1 DEF FindsTheApi, Goto, Reachable
  <2>26. CASE SavesReady(u)
    <3>1. mem[u] \in Addrs \cup {None} /\ plain[u] \in BOOLEAN
      OBVIOUS
    <3>2. file' \in Files
      BY <2>26, <3>1, FileTypes DEF SavesReady
    <3> QED BY <2>26, <1>1, <3>2 DEF SavesReady, Goto, Files
  <2> QED BY <1>1, <2>1, <2>2, <2>3, <2>4, <2>5, <2>6, <2>7, <2>8, <2>9, <2>10, <2>11, <2>12,
       <2>13, <2>14, <2>15, <2>16, <2>17, <2>18, <2>19, <2>20, <2>21, <2>22, <2>23, <2>24, <2>25,
       <2>26 DEF Command
<1>2. ASSUME NEW u \in Ups, Machine(u), UNCHANGED minimum PROVE TypeOK'
  <2>1. CASE Appears(u)
    BY <2>1, <1>2 DEF Appears
  <2>2. CASE Runs(u)
    BY <2>2, <1>2 DEF Runs
  <2>3. CASE Moves(u)
    BY <2>3, <1>2 DEF Moves
  <2>4. CASE Dies(u)
    BY <2>4, <1>2 DEF Dies
  <2>5. CASE Downloads(u)
    BY <2>5, <1>2 DEF Downloads
  <2>6. CASE Serves(u)
    BY <2>6, <1>2 DEF Serves
  <2>7. CASE ServerDies(u)
    BY <2>7, <1>2 DEF ServerDies
  <2> QED BY <1>2, <2>1, <2>2, <2>3, <2>4, <2>5, <2>6, <2>7 DEF Machine
<1>3. CASE FallsDue /\ UNCHANGED minimum
  BY <1>3 DEF FallsDue
<1>4. CASE UNCHANGED vars
  BY <1>4 DEF vars
<1> QED BY <1>1, <1>2, <1>3, <1>4 DEF Next

\* The initial states are typed.
LEMMA InitTypes == Init => TypeOK
<1> SUFFICES ASSUME Init PROVE TypeOK
  OBVIOUS
<1> USE NoneAssumption, BoundsAssumption, LateAssumption DEF Init, Owners, Addrs, Steps, Reasons,
     Statuses, Servers
<1>1. /\ minimum \in BOOLEAN /\ due \in BOOLEAN /\ flakes \in 0..MaxFlakes /\ lock \in Ups \cup {None}
      /\ restart \in [Ups -> BOOLEAN] /\ seen \in [Ups -> BOOLEAN] /\ left \in [Ups -> 0..Rounds]
      /\ check \in [Ups -> {"no", "first", "second"}] /\ why \in [Ups -> Reasons]
      /\ crt \in Owners /\ key \in Owners /\ ca \in Owners
  OBVIOUS
<1>2. pc \in [Ups -> Steps]
  OBVIOUS
<1>3. vm \in [Ups -> Statuses] /\ server \in [Ups -> Servers]
  OBVIOUS
<1>4. addr \in [Ups -> Addrs \cup {None}]
  OBVIOUS
<1>5. /\ mem \in [Ups -> Addrs \cup {None}] /\ url \in [Ups -> Addrs \cup {None}]
      /\ copy \in [Ups -> Addrs \cup {None}]
  BY <1>4
<1>6. file \in [Ups -> [ssh : Addrs \cup {None}, unsecure : BOOLEAN,
                        status : {"provisioning", "ssh-ready", "running"}]]
  BY <1>1, <1>4
<1>8. plain \in [Ups -> BOOLEAN] /\ overtaken \subseteq Ups
  OBVIOUS
<1>7. /\ served \in [Ups -> Owners] /\ trust \in [Ups -> Owners] /\ got \in [Ups -> Owners]
      /\ cert \in [Ups -> [crt : Owners, key : Owners]]
  BY DEF NoPair
<1> QED BY <1>1, <1>2, <1>3, <1>4, <1>5, <1>6, <1>7, <1>8 DEF TypeOK

\* Every reachable state of the boots is well typed.
THEOREM TypeCorrectness == Spec => []TypeOK
  BY InitTypes, StepTypes, PTL DEF Spec

-----------------------------------------------------------------------------
(* The certificate.                                                         *)

\* Only the holder of the lock writes the files, while they are due, and
\* whoever is delivering then has been overtaken.  To anybody else they are the
\* pair that it found, or made.
PairIsGuarded ==
    /\ ~due => crt = key
    /\ \A u \in Ups :
         /\ pc[u] \in {"key", "crt", "ca"} => lock = u
         /\ pc[u] \in {"key", "crt"} => due
         /\ pc[u] = "crt" => key = u
         /\ pc[u] = "ca" => ~due /\ crt = u
         /\ pc[u] \in {"deliver", "readkey"} /\ u \notin overtaken =>
              /\ crt = key
              /\ \A v \in Ups : pc[v] \notin {"key", "crt"}
         /\ pc[u] = "readkey" /\ u \notin overtaken => got[u] = crt

\* A step keeps the pair guarded.
LEMMA StepGuards ==
    TypeOK /\ PairIsGuarded /\ ShipsAPair /\ [Next]_vars => PairIsGuarded' /\ ShipsAPair'
<1> SUFFICES ASSUME TypeOK, PairIsGuarded, ShipsAPair, [Next]_vars
    PROVE  PairIsGuarded' /\ ShipsAPair'
  OBVIOUS
<1> USE NoneAssumption DEF TypeOK, PairIsGuarded, ShipsAPair, command, machine, tls, Steps
<1>1. ASSUME NEW u \in Ups, Command(u), UNCHANGED minimum PROVE PairIsGuarded' /\ ShipsAPair'
  <2>1. CASE Polls(u)
    BY <2>1, <1>1 DEF Polls, Fails, Counts, Dead, Refreshes, Answers
  <2>2. CASE Starts(u)
    <3>1. CASE pc' = [pc EXCEPT ![u] = "endpoint"] /\ UNCHANGED why
      BY <2>2, <1>1, <3>1, SMTT(30) DEF Starts
    <3>2. CASE Fails(u, "start") /\ UNCHANGED vm
      BY <2>2, <1>1, <3>2, SMTT(30) DEF Starts, Fails
    <3> QED BY <2>2, <3>1, <3>2, Zenon DEF Starts
  <2>3. CASE Asks(u)
    BY <2>3, <1>1 DEF Asks, Turn, Counts, Answers
  <2>4. CASE SeesItEnded(u)
    BY <2>4, <1>1 DEF SeesItEnded, Fails
  <2>5. CASE SeesTheEndpoint(u)
    BY <2>5, <1>1 DEF SeesTheEndpoint, Goto
  <2>6. CASE TimesOut(u)
    BY <2>6, <1>1 DEF TimesOut, Fails
  <2>7. CASE FindsNoSsh(u)
    BY <2>7, <1>1 DEF FindsNoSsh, Turn
  <2>8. CASE FindsSsh(u)
    BY <2>8, <1>1 DEF FindsSsh, Goto, Reachable
  <2>9. CASE Revives(u)
    BY <2>9, <1>1 DEF Revives, Goto, Reachable
  <2>10. CASE PassesPreflight(u)
    BY <2>10, <1>1 DEF PassesPreflight, Goto, Reachable
  <2>11. CASE FailsPreflight(u)
    BY <2>11, <1>1 DEF FailsPreflight, Fails
  <2>12. CASE RuntimePreflight(u)
    <3>1. CASE pc' = [pc EXCEPT ![u] = "tls"] /\ UNCHANGED why
      BY <2>12, <1>1, <3>1 DEF RuntimePreflight
    <3>2. CASE Fails(u, "runtime")
      BY <2>12, <1>1, <3>2 DEF RuntimePreflight, Fails
    <3> QED BY <2>12, <3>1, <3>2, Zenon DEF RuntimePreflight
  <2>13. CASE LooksAtTheCert(u)
    BY <2>13, <1>1 DEF LooksAtTheCert, Overtakes
  <2>14. CASE WritesKey(u)
    BY <2>14, <1>1 DEF WritesKey, Goto
  <2>15. CASE OpensslFails(u)
    BY <2>15, <1>1 DEF OpensslFails, Fails
  <2>16. CASE WritesCrt(u)
    BY <2>16, <1>1 DEF WritesCrt, Goto
  <2>17. CASE CopiesCa(u)
    BY <2>17, <1>1 DEF CopiesCa, Goto
  <2>18. CASE ReadsCrt(u)
    BY <2>18, <1>1 DEF ReadsCrt, Goto
  <2>19. CASE Delivers(u)
    BY <2>19, <1>1 DEF Delivers, Goto, Reachable
  <2>20. CASE DeliveryFails(u)
    BY <2>20, <1>1 DEF DeliveryFails, Goto, Turn
  <2>21. CASE PreparesCache(u)
    BY <2>21, <1>1 DEF PreparesCache, Goto
  <2>22. CASE ShmStops(u)
    BY <2>22, <1>1 DEF ShmStops, Fails
  <2>23. CASE StartsTheProxy(u)
    BY <2>23, <1>1 DEF StartsTheProxy, Fails
  <2>24. CASE FindsNoApi(u)
    BY <2>24, <1>1 DEF FindsNoApi, Turn
  <2>25. CASE FindsTheApi(u)
    BY <2>25, <1>1 DEF FindsTheApi, Goto, Reachable
  <2>26. CASE SavesReady(u)
    BY <2>26, <1>1 DEF SavesReady, Goto
  <2> QED BY <1>1, <2>1, <2>2, <2>3, <2>4, <2>5, <2>6, <2>7, <2>8, <2>9, <2>10, <2>11, <2>12,
       <2>13, <2>14, <2>15, <2>16, <2>17, <2>18, <2>19, <2>20, <2>21, <2>22, <2>23, <2>24, <2>25,
       <2>26 DEF Command
<1>2. ASSUME NEW u \in Ups, Machine(u), UNCHANGED minimum PROVE PairIsGuarded' /\ ShipsAPair'
  <2>1. CASE Appears(u)
    BY <2>1, <1>2 DEF Appears
  <2>2. CASE Runs(u)
    BY <2>2, <1>2 DEF Runs
  <2>3. CASE Moves(u)
    BY <2>3, <1>2 DEF Moves
  <2>4. CASE Dies(u)
    BY <2>4, <1>2 DEF Dies
  <2>5. CASE Downloads(u)
    BY <2>5, <1>2 DEF Downloads
  <2>6. CASE Serves(u)
    BY <2>6, <1>2 DEF Serves
  <2>7. CASE ServerDies(u)
    BY <2>7, <1>2 DEF ServerDies
  <2> QED BY <1>2, <2>1, <2>2, <2>3, <2>4, <2>5, <2>6, <2>7 DEF Machine
<1>3. CASE FallsDue /\ UNCHANGED minimum
  BY <1>3 DEF FallsDue
<1>4. CASE UNCHANGED vars
  BY <1>4 DEF vars
<1> QED BY <1>1, <1>2, <1>3, <1>4 DEF Next

\* A certificate is delivered with its own key, however many ups share the
\* files, whenever they fall due, and wherever openssl fails, but to an up that
\* another overtook on its way.
THEOREM PairsAreShipped == Spec => []ShipsAPair
<1>1. Init => PairIsGuarded /\ ShipsAPair
  BY LateAssumption DEF Init, PairIsGuarded, ShipsAPair, NoPair
<1> QED BY <1>1, InitTypes, StepTypes, StepGuards, PTL DEF Spec

-----------------------------------------------------------------------------
(* READY.                                                                   *)

\* The instance is polled in the middle of a wait, and in no other step.
PollsInAWait == \A u \in Ups : check[u] # "no" => pc[u] \in {"endpoint", "ssh", "deliver", "health"}

\* The state of the command is that of a secure machine, and so is its record
\* from the save of the endpoint up to the health wait.
SecureUpToTheWait ==
    \A u \in Ups :
      /\ ~plain[u]
      /\ pc[u] \in {"ssh", "revive", "gpu", "runtime", "tls", "key", "crt", "ca", "deliver",
                    "readkey", "cache", "proxy"} => ~file[u].unsecure

\* A step keeps the record of a READY up secure.
LEMMA StepSecures ==
    /\ TypeOK /\ PollsInAWait /\ SecureUpToTheWait /\ ReadyIsSecure /\ [Next]_vars
    => PollsInAWait' /\ SecureUpToTheWait' /\ ReadyIsSecure'
<1> SUFFICES ASSUME TypeOK, PollsInAWait, SecureUpToTheWait, ReadyIsSecure, [Next]_vars
    PROVE  PollsInAWait' /\ SecureUpToTheWait' /\ ReadyIsSecure'
  OBVIOUS
<1> USE NoneAssumption DEF TypeOK, PollsInAWait, SecureUpToTheWait, ReadyIsSecure, command, machine, tls, Steps
<1>1. ASSUME NEW u \in Ups, Command(u), UNCHANGED minimum PROVE PollsInAWait' /\ SecureUpToTheWait' /\ ReadyIsSecure'
  <2>1. CASE Polls(u)
    <3>1. PICK answer \in Answers(u) :
            IF Dead(u, answer)
              THEN /\ IF check[u] = "second" THEN Fails(u, "lost") ELSE UNCHANGED <<pc, why>>
                   /\ check' = [check EXCEPT ![u] = IF @ = "first" THEN "second" ELSE "no"]
                   /\ UNCHANGED <<mem, copy, file>>
              ELSE /\ Refreshes(u, answer) /\ check' = [check EXCEPT ![u] = "no"]
                   /\ UNCHANGED <<pc, why>>
      BY <2>1 DEF Polls
    <3>2. check[u] # "no" /\ pc[u] # "ready"
      BY <2>1 DEF Polls
    <3>3. \A v \in Ups \ {u} : file'[v] = file[v] /\ pc'[v] = pc[v] /\ check'[v] = check[v]
      BY <3>1 DEF Refreshes, Fails
    <3>4. pc'[u] # "ready" /\ (check'[u] # "no" => pc'[u] = pc[u])
      BY <3>1, <3>2 DEF Fails
    <3>5. UNCHANGED plain /\ pc'[u] \in {pc[u], "failed"}
      BY <2>1, <3>1 DEF Polls, Fails
    <3>6. pc[u] # "health" => file'[u] = file[u] \/ ~file'[u].unsecure
      BY <3>1 DEF Refreshes
    <3> QED BY <3>2, <3>3, <3>4, <3>5, <3>6, ZenonT(40)
  <2>2. CASE Starts(u)
    <3>1. CASE pc' = [pc EXCEPT ![u] = "endpoint"] /\ UNCHANGED why
      BY <2>2, <1>1, <3>1, SMTT(30) DEF Starts
    <3>2. CASE Fails(u, "start") /\ UNCHANGED vm
      BY <2>2, <1>1, <3>2, SMTT(30) DEF Starts, Fails
    <3> QED BY <2>2, <3>1, <3>2, Zenon DEF Starts
  <2>3. CASE Asks(u)
    BY <2>3, <1>1 DEF Asks, Turn, Counts, Answers
  <2>4. CASE SeesItEnded(u)
    BY <2>4, <1>1 DEF SeesItEnded, Fails
  <2>5. CASE SeesTheEndpoint(u)
    BY <2>5, <1>1 DEF SeesTheEndpoint, Goto
  <2>6. CASE TimesOut(u)
    BY <2>6, <1>1 DEF TimesOut, Fails
  <2>7. CASE FindsNoSsh(u)
    BY <2>7, <1>1 DEF FindsNoSsh, Turn
  <2>8. CASE FindsSsh(u)
    BY <2>8, <1>1 DEF FindsSsh, Goto, Reachable
  <2>9. CASE Revives(u)
    BY <2>9, <1>1 DEF Revives, Goto, Reachable
  <2>10. CASE PassesPreflight(u)
    BY <2>10, <1>1 DEF PassesPreflight, Goto, Reachable
  <2>11. CASE FailsPreflight(u)
    BY <2>11, <1>1 DEF FailsPreflight, Fails
  <2>12. CASE RuntimePreflight(u)
    <3>1. CASE pc' = [pc EXCEPT ![u] = "tls"] /\ UNCHANGED why
      BY <2>12, <1>1, <3>1 DEF RuntimePreflight
    <3>2. CASE Fails(u, "runtime")
      BY <2>12, <1>1, <3>2 DEF RuntimePreflight, Fails
    <3> QED BY <2>12, <3>1, <3>2, Zenon DEF RuntimePreflight
  <2>13. CASE LooksAtTheCert(u)
    BY <2>13, <1>1 DEF LooksAtTheCert, Overtakes
  <2>14. CASE WritesKey(u)
    BY <2>14, <1>1 DEF WritesKey, Goto
  <2>15. CASE OpensslFails(u)
    BY <2>15, <1>1 DEF OpensslFails, Fails
  <2>16. CASE WritesCrt(u)
    BY <2>16, <1>1 DEF WritesCrt, Goto
  <2>17. CASE CopiesCa(u)
    BY <2>17, <1>1 DEF CopiesCa, Goto
  <2>18. CASE ReadsCrt(u)
    BY <2>18, <1>1 DEF ReadsCrt, Goto
  <2>19. CASE Delivers(u)
    BY <2>19, <1>1 DEF Delivers, Goto, Reachable
  <2>20. CASE DeliveryFails(u)
    BY <2>20, <1>1 DEF DeliveryFails, Goto, Turn
  <2>21. CASE PreparesCache(u)
    BY <2>21, <1>1 DEF PreparesCache, Goto
  <2>22. CASE ShmStops(u)
    BY <2>22, <1>1 DEF ShmStops, Fails
  <2>23. CASE StartsTheProxy(u)
    <3>1. CASE pc' = [pc EXCEPT ![u] = "health"]
      BY <2>23, <1>1, <3>1 DEF StartsTheProxy, Fails
    <3>2. CASE Fails(u, "proxy") /\ UNCHANGED <<mem, plain, copy, trust>>
      BY <2>23, <1>1, <3>2 DEF StartsTheProxy, Fails
    <3> QED BY <2>23, <3>1, <3>2, Zenon DEF StartsTheProxy
  <2>24. CASE FindsNoApi(u)
    BY <2>24, <1>1 DEF FindsNoApi, Turn
  <2>25. CASE FindsTheApi(u)
    BY <2>25, <1>1 DEF FindsTheApi, Goto, Reachable
  <2>26. CASE SavesReady(u)
    BY <2>26, <1>1 DEF SavesReady, Goto
  <2> QED BY <1>1, <2>1, <2>2, <2>3, <2>4, <2>5, <2>6, <2>7, <2>8, <2>9, <2>10, <2>11, <2>12,
       <2>13, <2>14, <2>15, <2>16, <2>17, <2>18, <2>19, <2>20, <2>21, <2>22, <2>23, <2>24, <2>25,
       <2>26 DEF Command
<1>2. ASSUME NEW u \in Ups, Machine(u), UNCHANGED minimum PROVE PollsInAWait' /\ SecureUpToTheWait' /\ ReadyIsSecure'
  <2>1. CASE Appears(u)
    BY <2>1, <1>2 DEF Appears
  <2>2. CASE Runs(u)
    BY <2>2, <1>2 DEF Runs
  <2>3. CASE Moves(u)
    BY <2>3, <1>2 DEF Moves
  <2>4. CASE Dies(u)
    BY <2>4, <1>2 DEF Dies
  <2>5. CASE Downloads(u)
    BY <2>5, <1>2 DEF Downloads
  <2>6. CASE Serves(u)
    BY <2>6, <1>2 DEF Serves
  <2>7. CASE ServerDies(u)
    BY <2>7, <1>2 DEF ServerDies
  <2> QED BY <1>2, <2>1, <2>2, <2>3, <2>4, <2>5, <2>6, <2>7 DEF Machine
<1>3. CASE FallsDue /\ UNCHANGED minimum
  BY <1>3 DEF FallsDue
<1>4. CASE UNCHANGED vars
  BY <1>4 DEF vars
<1> QED BY <1>1, <1>2, <1>3, <1>4 DEF Next

\* An up that reports READY has taken back the `unsecure` that its health wait
\* may have saved, or the one of a restart that ended there.
THEOREM ReadyTakesItBack == Spec => []ReadyIsSecure
<1>1. Init => PollsInAWait /\ SecureUpToTheWait /\ ReadyIsSecure
  BY DEF Init, PollsInAWait, SecureUpToTheWait, ReadyIsSecure
<1> QED BY <1>1, InitTypes, StepTypes, StepSecures, PTL DEF Spec

-----------------------------------------------------------------------------
(* A lost machine.                                                          *)

\* The circumstances: the provider answers wrongly at most once.
SingleFlake == MaxFlakes <= 1

Ended == {"stopped", "exited", "gone"}

\* A fresh up polls a machine that was listed before, and a first bad answer
\* leaves none to give, or is true.
BelievesTheSecond ==
    \A u \in Ups : ~restart[u] =>
        /\ pc[u] # "start" /\ vm[u] # "starting"
        /\ seen[u] \/ check[u] # "no" \/ pc[u] \notin {"endpoint", "failed"} => vm[u] # "unseen"
        /\ check[u] = "second" => flakes = MaxFlakes \/ vm[u] \in Ended


\* A step keeps a fresh up from a false belief.
LEMMA StepBelieves ==
    /\ SingleFlake /\ TypeOK /\ PollsInAWait /\ BelievesTheSecond /\ LostIsLost /\ [Next]_vars
    => BelievesTheSecond' /\ LostIsLost'
<1> SUFFICES ASSUME SingleFlake, TypeOK, PollsInAWait, BelievesTheSecond, LostIsLost, [Next]_vars
    PROVE  BelievesTheSecond' /\ LostIsLost'
  OBVIOUS
<1> USE NoneAssumption, BoundsAssumption DEF SingleFlake, TypeOK, PollsInAWait, BelievesTheSecond,
     LostIsLost, Ended,
        command, machine, tls, Steps, Statuses
<1>1. ASSUME NEW u \in Ups, Command(u), UNCHANGED minimum PROVE BelievesTheSecond' /\ LostIsLost'
  <2>1. CASE Polls(u)
    <3>1. PICK answer \in Answers(u) :
            /\ Counts(u, answer)
            /\ IF Dead(u, answer)
                 THEN /\ IF check[u] = "second" THEN Fails(u, "lost") ELSE UNCHANGED <<pc, why>>
                      /\ check' = [check EXCEPT ![u] = IF @ = "first" THEN "second" ELSE "no"]
                 ELSE check' = [check EXCEPT ![u] = "no"] /\ UNCHANGED <<pc, why>>
      BY <2>1 DEF Polls
    <3>2. check[u] # "no" /\ UNCHANGED <<vm, seen, restart>>
      BY <2>1 DEF Polls
    <3>3. flakes = MaxFlakes => flakes' = MaxFlakes
      BY <3>1, AnswersTypes DEF Counts
    <3>4. ~restart[u] /\ Dead(u, answer) =>
             vm[u] \in Ended \/ (flakes # MaxFlakes /\ flakes' = MaxFlakes)
      <4> SUFFICES ASSUME ~restart[u], Dead(u, answer)
          PROVE  vm[u] \in Ended \/ (flakes # MaxFlakes /\ flakes' = MaxFlakes)
        OBVIOUS
      <4>0. vm[u] \notin {"unseen", "starting"}
        BY <3>2, Zenon
      <4>1. CASE answer = "absent" /\ vm[u] \notin {"unseen", "gone"}
        BY <3>1, <4>1, AnswersTypes DEF Counts
      <4>2. CASE answer = "absent" /\ vm[u] \in {"unseen", "gone"}
        BY <4>0, <4>2
      <4>3. CASE answer # "absent"
        BY <3>1, <4>0, <4>3 DEF Dead, Answers
      <4> QED BY <4>1, <4>2, <4>3
    <3>5. \A v \in Ups \ {u} : pc'[v] = pc[v] /\ check'[v] = check[v] /\ why'[v] = why[v]
      BY <3>1 DEF Fails
    <3>6. pc'[u] = pc[u] \/ pc'[u] = "failed"
      BY <3>1 DEF Fails
    <3>7. check'[u] = "second" => Dead(u, answer)
      BY <3>1
    <3>8. why'[u] = why[u] \/ (Dead(u, answer) /\ check[u] = "second")
      <4>1. CASE Dead(u, answer) /\ check[u] = "second"
        BY <4>1
      <4>2. CASE ~(Dead(u, answer) /\ check[u] = "second")
        BY <3>1, <4>2
      <4> QED BY <4>1, <4>2
    <3> QED BY <3>2, <3>3, <3>4, <3>5, <3>6, <3>7, <3>8
  <2>2. CASE Starts(u)
    <3>1. CASE pc' = [pc EXCEPT ![u] = "endpoint"] /\ UNCHANGED why
      BY <2>2, <1>1, <3>1, SMTT(30) DEF Starts
    <3>2. CASE Fails(u, "start") /\ UNCHANGED vm
      BY <2>2, <1>1, <3>2, SMTT(30) DEF Starts, Fails
    <3> QED BY <2>2, <3>1, <3>2, Zenon DEF Starts
  <2>3. CASE Asks(u)
    <3>1. PICK answer \in Answers(u) :
            /\ Counts(u, answer)
            /\ seen' = [seen EXCEPT ![u] = @ \/ answer \notin {"error", "absent"}]
            /\ check' = [check EXCEPT ![u] = IF answer = "absent" /\ seen[u] THEN "first" ELSE "no"]
      BY <2>3 DEF Asks
    <3>2. flakes = MaxFlakes => flakes' = MaxFlakes
      BY <3>1, AnswersTypes DEF Counts
    <3>3. answer \notin {"error", "absent"} => vm[u] # "unseen"
      BY <3>1, AnswersTypes
    <3>4. UNCHANGED <<vm, pc, restart, why>> /\ pc[u] = "endpoint"
      BY <2>3 DEF Asks
    <3>5. ~restart[u] /\ (seen'[u] \/ check'[u] # "no") => vm[u] # "unseen"
      BY <3>1, <3>3
    <3>6. \A v \in Ups : check'[v] = "second" => check[v] = "second"
      BY <3>1
    <3>7. \A v \in Ups \ {u} : seen'[v] = seen[v] /\ check'[v] = check[v]
      BY <3>1
    <3> QED BY <3>2, <3>4, <3>5, <3>6, <3>7, ZenonT(40)
  <2>4. CASE SeesItEnded(u)
    BY <2>4, <1>1 DEF SeesItEnded, Fails
  <2>5. CASE SeesTheEndpoint(u)
    BY <2>5, <1>1 DEF SeesTheEndpoint, Goto
  <2>6. CASE TimesOut(u)
    BY <2>6, <1>1 DEF TimesOut, Fails
  <2>7. CASE FindsNoSsh(u)
    BY <2>7, <1>1 DEF FindsNoSsh, Turn
  <2>8. CASE FindsSsh(u)
    BY <2>8, <1>1 DEF FindsSsh, Goto, Reachable
  <2>9. CASE Revives(u)
    BY <2>9, <1>1 DEF Revives, Goto, Reachable
  <2>10. CASE PassesPreflight(u)
    BY <2>10, <1>1 DEF PassesPreflight, Goto, Reachable
  <2>11. CASE FailsPreflight(u)
    BY <2>11, <1>1 DEF FailsPreflight, Fails
  <2>12. CASE RuntimePreflight(u)
    <3>1. CASE pc' = [pc EXCEPT ![u] = "tls"] /\ UNCHANGED why
      BY <2>12, <1>1, <3>1 DEF RuntimePreflight
    <3>2. CASE Fails(u, "runtime")
      BY <2>12, <1>1, <3>2 DEF RuntimePreflight, Fails
    <3> QED BY <2>12, <3>1, <3>2, Zenon DEF RuntimePreflight
  <2>13. CASE LooksAtTheCert(u)
    BY <2>13, <1>1 DEF LooksAtTheCert, Overtakes
  <2>14. CASE WritesKey(u)
    BY <2>14, <1>1 DEF WritesKey, Goto
  <2>15. CASE OpensslFails(u)
    BY <2>15, <1>1 DEF OpensslFails, Fails
  <2>16. CASE WritesCrt(u)
    BY <2>16, <1>1 DEF WritesCrt, Goto
  <2>17. CASE CopiesCa(u)
    BY <2>17, <1>1 DEF CopiesCa, Goto
  <2>18. CASE ReadsCrt(u)
    BY <2>18, <1>1 DEF ReadsCrt, Goto
  <2>19. CASE Delivers(u)
    BY <2>19, <1>1 DEF Delivers, Goto, Reachable
  <2>20. CASE DeliveryFails(u)
    BY <2>20, <1>1 DEF DeliveryFails, Goto, Turn
  <2>21. CASE PreparesCache(u)
    BY <2>21, <1>1 DEF PreparesCache, Goto
  <2>22. CASE ShmStops(u)
    BY <2>22, <1>1 DEF ShmStops, Fails
  <2>23. CASE StartsTheProxy(u)
    <3>1. CASE pc' = [pc EXCEPT ![u] = "health"]
      BY <2>23, <1>1, <3>1 DEF StartsTheProxy, Fails
    <3>2. CASE Fails(u, "proxy") /\ UNCHANGED <<mem, plain, copy, trust>>
      BY <2>23, <1>1, <3>2 DEF StartsTheProxy, Fails
    <3> QED BY <2>23, <3>1, <3>2, Zenon DEF StartsTheProxy
  <2>24. CASE FindsNoApi(u)
    BY <2>24, <1>1 DEF FindsNoApi, Turn
  <2>25. CASE FindsTheApi(u)
    BY <2>25, <1>1 DEF FindsTheApi, Goto, Reachable
  <2>26. CASE SavesReady(u)
    BY <2>26, <1>1 DEF SavesReady, Goto
  <2> QED BY <1>1, <2>1, <2>2, <2>3, <2>4, <2>5, <2>6, <2>7, <2>8, <2>9, <2>10, <2>11, <2>12,
       <2>13, <2>14, <2>15, <2>16, <2>17, <2>18, <2>19, <2>20, <2>21, <2>22, <2>23, <2>24, <2>25,
       <2>26 DEF Command
<1>2. ASSUME NEW u \in Ups, Machine(u), UNCHANGED minimum PROVE BelievesTheSecond' /\ LostIsLost'
  <2>1. CASE Appears(u)
    BY <2>1, <1>2 DEF Appears
  <2>2. CASE Runs(u)
    BY <2>2, <1>2 DEF Runs
  <2>3. CASE Moves(u)
    BY <2>3, <1>2 DEF Moves
  <2>4. CASE Dies(u)
    BY <2>4, <1>2 DEF Dies
  <2>5. CASE Downloads(u)
    BY <2>5, <1>2 DEF Downloads
  <2>6. CASE Serves(u)
    BY <2>6, <1>2 DEF Serves
  <2>7. CASE ServerDies(u)
    BY <2>7, <1>2 DEF ServerDies
  <2> QED BY <1>2, <2>1, <2>2, <2>3, <2>4, <2>5, <2>6, <2>7 DEF Machine
<1>3. CASE FallsDue /\ UNCHANGED minimum
  BY <1>3 DEF FallsDue
<1>4. CASE UNCHANGED vars
  BY <1>4 DEF vars
<1> QED BY <1>1, <1>2, <1>3, <1>4 DEF Next

\* One wrong answer of the provider makes no fresh up give a live machine up.
THEOREM LosesTheLost == SingleFlake => (Spec => []LostIsLost)
<1> SUFFICES ASSUME SingleFlake PROVE Spec => []LostIsLost
  OBVIOUS
<1>1. Init => /\ PollsInAWait /\ SecureUpToTheWait /\ ReadyIsSecure
              /\ BelievesTheSecond /\ LostIsLost
  BY DEF Init, PollsInAWait, SecureUpToTheWait, ReadyIsSecure, BelievesTheSecond, LostIsLost
<1>2. /\ TypeOK /\ PollsInAWait /\ BelievesTheSecond /\ LostIsLost /\ [Next]_vars
      => BelievesTheSecond' /\ LostIsLost'
  BY StepBelieves
<1> QED BY <1>1, <1>2, InitTypes, StepTypes, StepSecures, PTL DEF Spec
=============================================================================
