-------------------------- MODULE SlotSave_proofs ---------------------------
(***************************************************************************)
(* Proofs about SlotSave, for any number of saves, machines and directories:*)
(* every state is well typed; and unless two saves overlapped, "uploaded"  *)
(* says that the snapshot was published, no `down` with require_save destroys*)
(* the machine of an upload that failed, and a prefetch accepts nothing but*)
(* one save's whole snapshot.                                              *)
(***************************************************************************)
EXTENDS SlotSave, FiniteSetTheorems, TLAPS

-----------------------------------------------------------------------------
(* Type correctness.  A transfer writes the machine's snapshot, so the      *)
(* types need that there is one.                                            *)

\* The script is started by the command that has saved the slot, and a
\* transfer is the only step of it that has a file open.
InOrder ==
    /\ \A s \in Saves :
        /\ cmd[s] \in {"guard", "save", "meta"} => script[s] = "idle"
        /\ cmd[s] \in {"save", "meta"} \/ script[s] # "idle" => dir[s] \in Dirs
        /\ cmd[s] = "meta" \/ script[s] # "idle" => slot[on[s]] # None
        /\ script[s] = "sending" <=> fd[s] # "none"
        /\ script[s] \in {"seed", "move", "movejson"} => ~rclone
        /\ rclone => fd[s] \in {"none", "bin"}
    /\ reader.at # "new" => reader.dir \in Dirs

Typed == TypeOK /\ InOrder

\* What a transfer writes is made of blocks of saves.
LEMMA WritesTypes ==
    ASSUME TypeOK, NEW s \in Saves, dir[s] \in Dirs, NEW name, NEW blocks \in Contents, Writes(s, name, blocks)
    PROVE  part' \in [Dirs -> Contents] /\ bin' \in [Dirs -> Contents]
  BY DEF TypeOK, Writes

LEMMA HeldTypes ==
    ASSUME TypeOK, NEW s \in Saves, dir[s] \in Dirs, NEW name
    PROVE  Held(s, name) \in Contents
  BY DEF TypeOK, Held

\* A step keeps the types and the order.
LEMMA StepTypes == Typed /\ [Next]_vars => Typed'
<1> SUFFICES ASSUME Typed, [Next]_vars PROVE Typed'
  OBVIOUS
<1> USE SavesAssumption, AttemptsAssumption DEF Typed, TypeOK, InOrder, config, local, server,
     history,
        Steps, ScriptSteps, Kinds, ReaderSteps
<1>1. ASSUME NEW s \in Saves, Command(s), UNCHANGED config PROVE Typed'
  <2>1. CASE GuardSkips(s)
    BY <2>1, <1>1 DEF GuardSkips, Goto
  <2>2. CASE GuardRaises(s)
    BY <2>2, <1>1 DEF GuardRaises, Raises
  <2>3. CASE Resolves(s)
    BY <2>3, <1>1 DEF Resolves, Goto
  <2>4. CASE SavesSlot(s)
    BY <2>4, <1>1 DEF SavesSlot, Goto, SlotWritten
  <2>5. CASE SavesNothing(s)
    <3>1. /\ cmd[s] = "save" /\ cmd' = [cmd EXCEPT ![s] = "tail"]
          /\ result' = [result EXCEPT ![s] = "empty"]
          /\ UNCHANGED <<script, dir, try, fd, meta, up, server, reader, published>>
      BY <2>5, <1>1 DEF SavesNothing, Goto
    <3>2. /\ slot' \in [Machines -> Saves \cup {None}] /\ clean' \in [Saves -> BOOLEAN]
          /\ overlapped' \in SUBSET Saves
          /\ \A m \in Machines : slot[m] # None => slot'[m] # None
      <4>1. CASE UNCHANGED <<slot, clean, overlapped>>
        BY <4>1
      <4>2. CASE SlotWritten(s)
        BY <4>2 DEF SlotWritten
      <4> QED BY <2>5, <1>1, <4>1, <4>2 DEF SavesNothing
    <3>3. TypeOK'
      BY <2>5, <1>1, <3>1, <3>2
    <3>4. InOrder'
      BY <2>5, <1>1, <3>1, <3>2
    <3> QED BY <3>3, <3>4
  <2>6. CASE SendsMetadata(s)
    BY <2>6, <1>1 DEF SendsMetadata, Goto
  <2>7. CASE SeesOk(s)
    BY <2>7, <1>1 DEF SeesOk, Reports, Raises
  <2>8. CASE SeesFailure(s)
    BY <2>8, <1>1 DEF SeesFailure, Reports, Raises
  <2>9. CASE Destroys(s)
    BY <2>9, <1>1 DEF Destroys, Goto
  <2>10. CASE Verifies(s)
    BY <2>10, <1>1 DEF Verifies
  <2> QED BY <1>1, <2>1, <2>2, <2>3, <2>4, <2>5, <2>6, <2>7, <2>8, <2>9, <2>10 DEF Command
<1>2. ASSUME NEW s \in Saves, Script(s), UNCHANGED config PROVE Typed'
  <2>1. CASE Exits(s)
    BY <2>1, <1>2 DEF Exits, Closes
  <2>2. CASE Seeds(s)
    BY <2>2, <1>2 DEF Seeds, ScriptGoto
  <2>3. CASE Opens(s)
    <3>1. dir[s] \in Dirs /\ slot[on[s]] \in Saves
      BY <2>3, <1>2 DEF Opens, ScriptGoto
    <3>2. Held(s, Target) \cup {slot[on[s]], Hole} \in Contents
      BY <3>1, HeldTypes DEF Contents
    <3>3. part' \in [Dirs -> Contents] /\ bin' \in [Dirs -> Contents]
      BY <2>3, <1>2, <3>1, <3>2, WritesTypes DEF Opens
    <3>4. clean' \in [Saves -> BOOLEAN]
      BY <2>3, <1>2 DEF Opens
    <3>5. fd' = [fd EXCEPT ![s] = Target] /\ script' = [script EXCEPT ![s] = "sending"] /\ script[s] = "send"
      BY <2>3, <1>2 DEF Opens, ScriptGoto
    <3>6. UNCHANGED <<cmd, result, dir, try, local, jpart, reader, history>>
      BY <2>3, <1>2 DEF Opens
    <3> QED BY <2>3, <1>2, <3>3, <3>4, <3>5, <3>6 DEF Target
  <2>4. CASE Fails(s)
    BY <2>4, <1>2 DEF Fails, Closes
  <2>5. CASE Sent(s)
    <3>1. dir[s] \in Dirs /\ slot[on[s]] \in Saves
      BY <2>5, <1>2 DEF Sent, ScriptGoto
    <3>2. {slot[on[s]]} \in Contents /\ (Held(s, fd[s]) \cup {slot[on[s]]}) \ {Hole} \in Contents
      BY <3>1, HeldTypes DEF Contents
    <3>3. part' \in [Dirs -> Contents] /\ bin' \in [Dirs -> Contents]
      BY <2>5, <1>2, <3>1, <3>2, WritesTypes DEF Sent
    <3>4. published' \in SUBSET Saves
      BY <2>5, <1>2, <3>1 DEF Sent
    <3>5. /\ script' = [script EXCEPT ![s] = "json"] /\ try' = [try EXCEPT ![s] = 1]
          /\ fd' = [fd EXCEPT ![s] = "none"] /\ clean' = [clean EXCEPT ![s] = TRUE]
          /\ script[s] = "sending"
      BY <2>5, <1>2 DEF Sent, ScriptGoto, Closes
    <3>6. UNCHANGED <<cmd, result, dir, local, jpart, reader, overlapped>>
      BY <2>5, <1>2 DEF Sent
    <3> QED BY <2>5, <1>2, <3>3, <3>4, <3>5, <3>6
  <2>6. CASE SendsJson(s)
    BY <2>6, <1>2 DEF SendsJson, ScriptGoto
  <2>7. CASE Moves(s)
    <3>1. dir[s] \in Dirs /\ part[dir[s]] \in Contents
      BY <2>7, <1>2 DEF Moves, ScriptGoto
    <3>2. part' \in [Dirs -> Contents] /\ bin' \in [Dirs -> Contents]
      BY <2>7, <1>2, <3>1 DEF Moves, Renames, Contents, NoFile
    <3>3. published' \in SUBSET Saves
      BY <2>7, <1>2, <3>1 DEF Moves, Contents
    <3>4. script' = [script EXCEPT ![s] = "movejson"] /\ script[s] = "move"
      BY <2>7, <1>2 DEF Moves, ScriptGoto
    <3>5. fd' = [t \in Saves |-> IF t \in Writing("bin", dir[s]) THEN "unlinked"
                               ELSE IF t \in Writing("part", dir[s]) THEN "bin" ELSE fd[t]]
      BY <2>7, <1>2 DEF Moves, Renames
    <3>6. UNCHANGED <<cmd, result, dir, try, clean, local, jpart, reader, overlapped>>
      BY <2>7, <1>2 DEF Moves
    <3> QED BY <2>7, <1>2, <3>2, <3>3, <3>4, <3>5, <3>6 DEF Writing
  <2>8. CASE MovesJson(s)
    BY <2>8, <1>2 DEF MovesJson, ScriptGoto
  <2> QED BY <1>2, <2>1, <2>2, <2>3, <2>4, <2>5, <2>6, <2>7, <2>8 DEF Script
<1>3. ASSUME Reader, UNCHANGED config PROVE Typed'
  <2>1. CASE ReaderBegins
    <3>1. PICK d \in Dirs :
            reader' = IF bin[d] = NoFile THEN [reader EXCEPT !.at = "cold", !.dir = d]
                      ELSE [reader EXCEPT !.at = "size", !.dir = d, !.size = bin[d]]
      BY <2>1, <1>3 DEF ReaderBegins
    <3>2. bin[d] \in Contents
      OBVIOUS
    <3>3. /\ reader' \in [at : ReaderSteps, dir : Dirs \cup {None}, size : Contents, got : Contents]
          /\ reader'.dir = d
      BY <3>1, <3>2
    <3> QED BY <2>1, <1>3, <3>3 DEF ReaderBegins
  <2>2. CASE ReaderGets
    <3>1. reader.dir \in Dirs
      BY <2>2, <1>3 DEF ReaderGets
    <3> QED BY <2>2, <1>3, <3>1 DEF ReaderGets
  <2>3. CASE ReaderEnds
    <3>1. {} \in Contents
      BY DEF Contents
    <3>2. \/ reader' = [reader EXCEPT !.at = "ok", !.size = {}]
          \/ reader' = [reader EXCEPT !.at = "cold", !.size = {}, !.got = {}]
      BY <2>3, <1>3 DEF ReaderEnds
    <3>3. reader.at # "new"
      BY <2>3, <1>3 DEF ReaderEnds
    <3>4. /\ reader' \in [at : ReaderSteps, dir : Dirs \cup {None}, size : Contents, got : Contents]
          /\ reader'.dir = reader.dir
      <4>1. CASE reader' = [reader EXCEPT !.at = "ok", !.size = {}]
        BY <3>1, <4>1
      <4>2. CASE reader' = [reader EXCEPT !.at = "cold", !.size = {}, !.got = {}]
        BY <3>1, <4>2
      <4> QED BY <3>2, <4>1, <4>2
    <3> QED BY <2>3, <1>3, <3>3, <3>4 DEF ReaderEnds
  <2> QED BY <1>3, <2>1, <2>2, <2>3 DEF Reader
<1>4. CASE UNCHANGED vars
  BY <1>4 DEF vars
<1> QED BY <1>1, <1>2, <1>3, <1>4 DEF Next

\* The initial states are typed.
LEMMA InitTypes == Init => Typed
  BY SavesAssumption, AttemptsAssumption DEF Init, Typed, TypeOK, InOrder, Steps, ScriptSteps,
       Kinds, ReaderSteps,
     Contents, NoFile

\* Every reachable state of the saves is well typed.
THEOREM TypeCorrectness == Spec => []TypeOK
  BY InitTypes, StepTypes, PTL DEF Spec, Typed

-----------------------------------------------------------------------------
(* Who overlaps.                                                            *)

\* Two saves on one machine or in one directory.
Near(s, t) == on[s] = on[t] \/ dir[s] = dir[t]

\* Saves that are at work together, near one another, are known to overlap;
\* the machine's snapshot is that of a save at work, or of one that overlaps.
Apart ==
    \A s \in Saves :
        /\ \A t \in Saves \ {s} : AtWork(s) /\ AtWork(t) /\ Near(s, t) => s \in overlapped
        /\ AtWork(s) => slot[on[s]] = s \/ slot[on[s]] \in overlapped
        /\ AtWork(s) /\ s \notin overlapped => slot[on[s]] = s

\* A step keeps the saves apart, and an overlap is not forgotten.
LEMMA StepApart == Typed /\ Apart /\ [Next]_vars => Apart' /\ overlapped \subseteq overlapped'
<1> SUFFICES ASSUME Typed, Apart, [Next]_vars PROVE Apart' /\ overlapped \subseteq overlapped'
  OBVIOUS
<1> USE SavesAssumption DEF Typed, TypeOK, InOrder, Apart, Near, AtWork, config, local, server,
     history,
        Steps, ScriptSteps
<1>1. ASSUME NEW s \in Saves, Command(s), UNCHANGED config PROVE Apart' /\ overlapped \subseteq overlapped'
  <2>1. CASE GuardSkips(s)
    BY <2>1, <1>1 DEF GuardSkips, Goto
  <2>2. CASE GuardRaises(s)
    BY <2>2, <1>1 DEF GuardRaises, Raises
  <2>3. CASE Resolves(s)
    BY <2>3, <1>1 DEF Resolves, Goto
  <2>4. CASE SavesSlot(s)
    BY <2>4, <1>1 DEF SavesSlot, Goto, SlotWritten
  <2>5. CASE SavesNothing(s)
    BY <2>5, <1>1 DEF SavesNothing, Goto, SlotWritten
  <2>6. CASE SendsMetadata(s)
    BY <2>6, <1>1 DEF SendsMetadata, Goto
  <2>7. CASE SeesOk(s)
    BY <2>7, <1>1 DEF SeesOk, Reports, Raises
  <2>8. CASE SeesFailure(s)
    BY <2>8, <1>1 DEF SeesFailure, Reports, Raises
  <2>9. CASE Destroys(s)
    BY <2>9, <1>1 DEF Destroys, Goto
  <2>10. CASE Verifies(s)
    BY <2>10, <1>1 DEF Verifies
  <2> QED BY <1>1, <2>1, <2>2, <2>3, <2>4, <2>5, <2>6, <2>7, <2>8, <2>9, <2>10 DEF Command
<1>2. ASSUME NEW s \in Saves, Script(s), UNCHANGED config PROVE Apart' /\ overlapped \subseteq overlapped'
  <2>1. CASE Exits(s)
    BY <2>1, <1>2 DEF Exits, Closes
  <2>2. CASE Seeds(s)
    BY <2>2, <1>2 DEF Seeds, ScriptGoto
  <2>3. CASE Opens(s)
    BY <2>3, <1>2 DEF Opens, ScriptGoto, Held, Writes
  <2>4. CASE Fails(s)
    BY <2>4, <1>2 DEF Fails, Closes
  <2>5. CASE Sent(s)
    BY <2>5, <1>2 DEF Sent, ScriptGoto, Closes, Held, Writes
  <2>6. CASE SendsJson(s)
    BY <2>6, <1>2 DEF SendsJson, ScriptGoto
  <2>7. CASE Moves(s)
    BY <2>7, <1>2 DEF Moves, ScriptGoto, Renames
  <2>8. CASE MovesJson(s)
    BY <2>8, <1>2 DEF MovesJson, ScriptGoto
  <2> QED BY <1>2, <2>1, <2>2, <2>3, <2>4, <2>5, <2>6, <2>7, <2>8 DEF Script
<1>3. ASSUME Reader, UNCHANGED config PROVE Apart' /\ overlapped \subseteq overlapped'
  <2>1. CASE ReaderBegins
    BY <2>1, <1>3 DEF ReaderBegins
  <2>2. CASE ReaderGets
    BY <2>2, <1>3 DEF ReaderGets
  <2>3. CASE ReaderEnds
    BY <2>3, <1>3 DEF ReaderEnds
  <2> QED BY <1>3, <2>1, <2>2, <2>3 DEF Reader
<1>4. CASE UNCHANGED vars
  BY <1>4 DEF vars
<1> QED BY <1>1, <1>2, <1>3, <1>4 DEF Next

-----------------------------------------------------------------------------
(* What is published.                                                       *)

\* Who overlaps with nobody has its target to itself, from the transfer to the
\* end of its script.
Alone ==
    \A s \in Saves \ overlapped :
        /\ script[s] = "sending" => clean[s] /\ fd[s] = Target
        /\ script[s] \in {"json", "move"} /\ ~rclone => part[dir[s]] = {s}
        /\ script[s] = "movejson" => s \in published
        /\ script[s] = "json" /\ rclone => s \in published
        /\ script[s] = "ok" => s \in published

\* With require_save a down goes on only if nothing was uploaded, or all was.
DownGoesOn ==
    \A s \in Saves :
        require /\ kind[s] = "down" /\ cmd[s] \in {"tail", "end"} => result[s] # "upload-failed"

\* A step keeps a save alone that overlaps with nobody.
LEMMA StepAlone ==
    Typed /\ Apart /\ Alone /\ DownGoesOn /\ UploadedWasPublished /\ [Next]_vars
    => Alone' /\ DownGoesOn' /\ UploadedWasPublished'
<1> SUFFICES ASSUME Typed, Apart, Alone, DownGoesOn, UploadedWasPublished, [Next]_vars
    PROVE  Alone' /\ DownGoesOn' /\ UploadedWasPublished'
  OBVIOUS
<1> USE SavesAssumption DEF Typed, TypeOK, InOrder, Apart, Near, AtWork, Alone, DownGoesOn,
     UploadedWasPublished, config, local, server, history,
        Steps, ScriptSteps, Target
<1>1. ASSUME NEW s \in Saves, Command(s), UNCHANGED config PROVE Alone' /\ DownGoesOn' /\ UploadedWasPublished'
  <2>1. CASE GuardSkips(s)
    BY <2>1, <1>1 DEF GuardSkips, Goto
  <2>2. CASE GuardRaises(s)
    BY <2>2, <1>1 DEF GuardRaises, Raises
  <2>3. CASE Resolves(s)
    BY <2>3, <1>1 DEF Resolves, Goto
  <2>4. CASE SavesSlot(s)
    BY <2>4, <1>1 DEF SavesSlot, Goto, SlotWritten
  <2>5. CASE SavesNothing(s)
    BY <2>5, <1>1 DEF SavesNothing, Goto, SlotWritten
  <2>6. CASE SendsMetadata(s)
    BY <2>6, <1>1 DEF SendsMetadata, Goto
  <2>7. CASE SeesOk(s)
    BY <2>7, <1>1 DEF SeesOk, Reports, Raises
  <2>8. CASE SeesFailure(s)
    BY <2>8, <1>1 DEF SeesFailure, Reports, Raises
  <2>9. CASE Destroys(s)
    BY <2>9, <1>1 DEF Destroys, Goto
  <2>10. CASE Verifies(s)
    BY <2>10, <1>1 DEF Verifies
  <2> QED BY <1>1, <2>1, <2>2, <2>3, <2>4, <2>5, <2>6, <2>7, <2>8, <2>9, <2>10 DEF Command
<1>2. ASSUME NEW s \in Saves, Script(s), UNCHANGED config PROVE Alone' /\ DownGoesOn' /\ UploadedWasPublished'
  <2>1. CASE Exits(s)
    BY <2>1, <1>2 DEF Exits, Closes
  <2>2. CASE Seeds(s)
    <3>1. \A t \in Saves \ {s} : AtWork(t) /\ dir[t] = dir[s] => t \in overlapped
      BY <2>2, <1>2 DEF Seeds, ScriptGoto
    <3> QED BY <2>2, <1>2, <3>1 DEF Seeds, ScriptGoto, Writing
  <2>3. CASE Opens(s)
    <3>1. \A t \in Saves \ {s} : AtWork(t) /\ dir[t] = dir[s] => t \in overlapped /\ s \in overlapped
      BY <2>3, <1>2 DEF Opens, ScriptGoto
    <3>2. \A d \in Dirs \ {dir[s]} : part'[d] = part[d]
      BY <2>3, <1>2 DEF Opens, Writes
    <3>3. \A t \in Saves \ {s} : script'[t] = script[t] /\ fd'[t] = fd[t] 
      BY <2>3, <1>2 DEF Opens, ScriptGoto
    <3>4. \A t \in Saves \ {s} : clean'[t] = clean[t] \/ (dir[t] = dir[s] /\ script[t] = "sending")
      BY <2>3, <1>2 DEF Opens, Writing
    <3>5. script'[s] = "sending" /\ fd'[s] = Target /\ script[s] = "send"
      BY <2>3, <1>2 DEF Opens, ScriptGoto
    <3>6. s \notin overlapped => clean'[s]
      <4>1. clean'[s] = (Writing(Target, dir[s]) = {})
        BY <2>3, <1>2 DEF Opens
      <4>2. \A t \in Saves : fd[t] = Target /\ dir[t] = dir[s] => t # s /\ script[t] = "sending"
        BY <3>5
      <4>3. \A t \in Saves : fd[t] = Target /\ dir[t] = dir[s] => s \in overlapped
        BY <3>1, <4>2
      <4>4. s \notin overlapped => Writing(Target, dir[s]) = {}
        BY <4>3 DEF Writing
      <4> QED BY <4>1, <4>4
    <3>7. UNCHANGED <<cmd, result, dir, history>>
      BY <2>3, <1>2 DEF Opens
    <3> QED BY <2>3, <1>2, <3>1, <3>2, <3>3, <3>4, <3>5, <3>6, <3>7
  <2>4. CASE Fails(s)
    BY <2>4, <1>2 DEF Fails, Closes
  <2>5. CASE Sent(s)
    BY <2>5, <1>2 DEF Sent, ScriptGoto, Closes, Held, Writes
  <2>6. CASE SendsJson(s)
    BY <2>6, <1>2 DEF SendsJson, ScriptGoto
  <2>7. CASE Moves(s)
    <3>1. \A t \in Saves \ {s} : AtWork(t) /\ dir[t] = dir[s] => t \in overlapped
      BY <2>7, <1>2 DEF Moves, ScriptGoto
    <3>2. s \notin overlapped => s \in published'
      <4>1. Cardinality({s}) = 1
        BY FS_Singleton
      <4>2. s \notin overlapped => part[dir[s]] = {s}
        BY <2>7, <1>2 DEF Moves, ScriptGoto
      <4>3. s # Hole
        OBVIOUS
      <4> QED BY <2>7, <1>2, <4>1, <4>2, <4>3 DEF Moves
    <3>3. published \subseteq published' /\ UNCHANGED <<cmd, result, dir, clean, overlapped>>
      BY <2>7, <1>2 DEF Moves
    <3>4. \A d \in Dirs \ {dir[s]} : part'[d] = part[d]
      BY <2>7, <1>2 DEF Moves, Renames
    <3>5. \A t \in Saves : fd'[t] = fd[t] \/ (dir[t] = dir[s] /\ script[t] = "sending")
      BY <2>7, <1>2 DEF Moves, Renames, Writing
    <3>6. script' = [script EXCEPT ![s] = "movejson"] /\ script[s] = "move"
      BY <2>7, <1>2 DEF Moves, ScriptGoto
    <3> QED BY <2>7, <1>2, <3>1, <3>2, <3>3, <3>4, <3>5, <3>6
  <2>8. CASE MovesJson(s)
    BY <2>8, <1>2 DEF MovesJson, ScriptGoto
  <2> QED BY <1>2, <2>1, <2>2, <2>3, <2>4, <2>5, <2>6, <2>7, <2>8 DEF Script
<1>3. ASSUME Reader, UNCHANGED config PROVE Alone' /\ DownGoesOn' /\ UploadedWasPublished'
  <2>1. CASE ReaderBegins
    BY <2>1, <1>3 DEF ReaderBegins
  <2>2. CASE ReaderGets
    BY <2>2, <1>3 DEF ReaderGets
  <2>3. CASE ReaderEnds
    BY <2>3, <1>3 DEF ReaderEnds
  <2> QED BY <1>3, <2>1, <2>2, <2>3 DEF Reader
<1>4. CASE UNCHANGED vars
  BY <1>4 DEF vars
<1> QED BY <1>1, <1>2, <1>3, <1>4 DEF Next

-----------------------------------------------------------------------------
(* What a prefetch accepts.                                                 *)

\* A file that is missing, whole, or holds blocks of a save that overlapped
\* (one of the set O).
Good(F, O) == F = NoFile \/ (\E s \in Saves : F = {s}) \/ F \cap O # {}

\* On an rsync server, what is or will be current.bin is such a file, once the
\* transfer into it is over or has lost it.
PartsAreGood ==
    ~rclone =>
        /\ \A d \in Dirs : Good(bin[d], overlapped)
        /\ \A s \in Saves :
             /\ fd[s] \in {"bin", "unlinked"} => s \in overlapped
             /\ script[s] \in {"json", "move"} \/ fd[s] \in {"bin", "unlinked"}
                => Good(part[dir[s]], overlapped)

\* So is what a prefetch has got.
ReadsTheGood ==
    /\ reader.at \in {"size", "got"} => reader.size # NoFile
    /\ reader.at = "ok" => reader.got # NoFile
    /\ ~rclone /\ reader.at \in {"got", "ok"} => Good(reader.got, overlapped)

\* A step keeps good files good.
LEMMA StepGood ==
    Typed /\ Apart /\ Alone /\ PartsAreGood /\ ReadsTheGood /\ [Next]_vars => PartsAreGood' /\ ReadsTheGood'
<1> SUFFICES ASSUME Typed, Apart, Alone, PartsAreGood, ReadsTheGood, [Next]_vars
    PROVE  PartsAreGood' /\ ReadsTheGood'
  OBVIOUS
<1>a. \A F : Good(F, overlapped) => Good(F, overlapped')
  BY StepApart DEF Good
<1>b. \A F, O : F \cap O # {} \/ F = NoFile \/ (\E x \in Saves : F = {x}) => Good(F, O)
  BY DEF Good
<1>c. \A s \in Saves :
        /\ AtWork(s) => slot[on[s]] \in Saves
        /\ AtWork(s) /\ s \in overlapped => slot[on[s]] \in overlapped'
        /\ \A t \in Saves \ {s} : AtWork(s) /\ AtWork(t) /\ dir[s] = dir[t] =>
             s \in overlapped /\ s \in overlapped' /\ slot[on[s]] \in overlapped'
  BY StepApart DEF Apart, Near, Typed, TypeOK, InOrder, AtWork
<1>d. overlapped \subseteq overlapped'
  BY StepApart
<1> USE SavesAssumption DEF Typed, TypeOK, InOrder, AtWork, PartsAreGood, ReadsTheGood,
        config, local, server, history, Steps, ScriptSteps
<1>1. ASSUME NEW s \in Saves, Command(s), UNCHANGED config PROVE PartsAreGood' /\ ReadsTheGood'
  <2>1. CASE GuardSkips(s)
    BY <2>1, <1>1, <1>a, <1>b, <1>c, <1>d DEF GuardSkips, Goto
  <2>2. CASE GuardRaises(s)
    BY <2>2, <1>1, <1>a, <1>b, <1>c, <1>d DEF GuardRaises, Raises
  <2>3. CASE Resolves(s)
    BY <2>3, <1>1, <1>a, <1>b, <1>c, <1>d DEF Resolves, Goto
  <2>4. CASE SavesSlot(s)
    BY <2>4, <1>1, <1>a, <1>b, <1>c, <1>d DEF SavesSlot, Goto, SlotWritten
  <2>5. CASE SavesNothing(s)
    BY <2>5, <1>1, <1>a, <1>b, <1>c, <1>d DEF SavesNothing, Goto, SlotWritten
  <2>6. CASE SendsMetadata(s)
    BY <2>6, <1>1, <1>a, <1>b, <1>c, <1>d DEF SendsMetadata, Goto
  <2>7. CASE SeesOk(s)
    BY <2>7, <1>1, <1>a, <1>b, <1>c, <1>d DEF SeesOk, Reports, Raises
  <2>8. CASE SeesFailure(s)
    BY <2>8, <1>1, <1>a, <1>b, <1>c, <1>d DEF SeesFailure, Reports, Raises
  <2>9. CASE Destroys(s)
    BY <2>9, <1>1, <1>a, <1>b, <1>c, <1>d DEF Destroys, Goto
  <2>10. CASE Verifies(s)
    BY <2>10, <1>1, <1>a, <1>b, <1>c, <1>d DEF Verifies
  <2> QED BY <1>1, <2>1, <2>2, <2>3, <2>4, <2>5, <2>6, <2>7, <2>8, <2>9, <2>10 DEF Command
<1>2. ASSUME NEW s \in Saves, Script(s), UNCHANGED config PROVE PartsAreGood' /\ ReadsTheGood'
  <2>1. CASE Exits(s)
    BY <2>1, <1>2, <1>a, <1>b, <1>c, <1>d DEF Exits, Closes
  <2>2. CASE Seeds(s)
    <3>1. \A d \in Dirs : part'[d] = part[d] \/ part'[d] = bin[d]
      BY <2>2, <1>2 DEF Seeds
    <3>2. /\ script' = [script EXCEPT ![s] = "send"] /\ script[s] = "seed"
          /\ UNCHANGED <<cmd, result, dir, try, fd, local, bin, jpart, reader, history>>
      BY <2>2, <1>2 DEF Seeds, ScriptGoto
    <3> QED BY <2>2, <1>2, <3>1, <3>2, <1>a, <1>d
  <2>3. CASE Opens(s)
    <3>1. script' = [script EXCEPT ![s] = "sending"] /\ fd' = [fd EXCEPT ![s] = Target] /\ script[s] = "send"
      BY <2>3, <1>2 DEF Opens, ScriptGoto
    <3>2. ~rclone => /\ UNCHANGED bin /\ Target = "part"
                     /\ part' = [part EXCEPT ![dir[s]] = part[dir[s]] \cup {slot[on[s]], Hole}]
      BY <2>3, <1>2 DEF Opens, Writes, Held, Target
    <3>3. UNCHANGED <<cmd, result, dir, try, local, jpart, reader, history>>
      BY <2>3, <1>2 DEF Opens
    <3>4. ASSUME NEW t \in Saves \ {s}, AtWork(t), dir[t] = dir[s], ~rclone
          PROVE  Good(part'[dir[s]], overlapped')
      <4>1. slot[on[s]] \in overlapped'
        BY <1>c, <3>1, <3>4
      <4> QED BY <1>b, <3>1, <3>2, <3>4, <4>1
    <3> QED BY <2>3, <1>2, <3>1, <3>2, <3>3, <3>4, <1>a, <1>d
  <2>4. CASE Fails(s)
    BY <2>4, <1>2, <1>a, <1>b, <1>c, <1>d DEF Fails, Closes
  <2>5. CASE Sent(s)
    <3>1. /\ script' = [script EXCEPT ![s] = "json"] /\ script[s] = "sending"
          /\ fd' = [fd EXCEPT ![s] = "none"] /\ fd[s] # "none"
      BY <2>5, <1>2 DEF Sent, ScriptGoto, Closes
    <3>2. UNCHANGED <<cmd, result, dir, local, jpart, reader, overlapped>>
      BY <2>5, <1>2 DEF Sent
    <3> DEFINE F == IF clean[s] THEN {slot[on[s]]} ELSE (Held(s, fd[s]) \cup {slot[on[s]]}) \ {Hole}
    <3>3. Good(F, overlapped')
      <4>1. slot[on[s]] \in Saves
        BY <1>c, <3>1
      <4>2. CASE clean[s]
        BY <4>1, <4>2 DEF Good
      <4>3. CASE ~clean[s]
        <5>1. s \in overlapped
          BY <4>3, <3>1 DEF Alone
        <5>2. slot[on[s]] \in overlapped'
          BY <5>1, <1>c, <3>1
        <5>3. slot[on[s]] \in F /\ slot[on[s]] \in F \cap overlapped'
          BY <4>1, <4>3, <5>2
        <5> QED BY <5>3 DEF Good
      <4> QED BY <4>2, <4>3
    <3>4. Writes(s, fd[s], F)
      BY <2>5, <1>2 DEF Sent
    <3> HIDE DEF F
    <3>5. CASE fd[s] = "part"
      <4>1. UNCHANGED bin /\ part' = [part EXCEPT ![dir[s]] = F]
        BY <3>4, <3>5 DEF Writes
      <4> QED BY <2>5, <1>2, <3>1, <3>2, <3>3, <4>1, <1>a, <1>d
    <3>6. CASE fd[s] = "bin"
      <4>1. UNCHANGED part /\ bin' = [bin EXCEPT ![dir[s]] = F]
        BY <3>4, <3>6 DEF Writes
      <4> QED BY <2>5, <1>2, <3>1, <3>2, <3>3, <3>6, <4>1, <1>a, <1>d
    <3>7. CASE fd[s] = "unlinked"
      <4>1. UNCHANGED <<part, bin>>
        BY <3>4, <3>7 DEF Writes
      <4> QED BY <2>5, <1>2, <3>1, <3>2, <3>7, <4>1, <1>a, <1>d
    <3> QED BY <3>1, <3>5, <3>6, <3>7
  <2>6. CASE SendsJson(s)
    BY <2>6, <1>2, <1>a, <1>b, <1>c, <1>d DEF SendsJson, ScriptGoto
  <2>7. CASE Moves(s)
    <3>1. script' = [script EXCEPT ![s] = "movejson"] /\ script[s] = "move" /\ dir[s] \in Dirs /\ fd[s] = "none"
      BY <2>7, <1>2 DEF Moves, ScriptGoto
    <3>2. /\ bin' = [bin EXCEPT ![dir[s]] = part[dir[s]]] /\ part' = [part EXCEPT ![dir[s]] = NoFile]
          /\ UNCHANGED <<cmd, result, dir, reader, overlapped>>
      BY <2>7, <1>2 DEF Moves, Renames
    <3>3. \A t \in Saves : fd'[t] # fd[t] => dir[t] = dir[s] /\ script[t] = "sending"
      BY <2>7, <1>2 DEF Moves, Renames, Writing
    <3>4. \A t \in Saves \ {s} : dir[t] = dir[s] /\ script[t] = "sending" => t \in overlapped'
      BY <1>c, <3>1
    <3>5. ~rclone => \A d \in Dirs : Good(bin'[d], overlapped')
      BY <1>a, <3>1, <3>2
    <3>6. \A t \in Saves : Good(part[dir[t]], overlapped) /\ dir[t] \in Dirs => Good(part'[dir[t]], overlapped')
      BY <1>a, <1>b, <3>1, <3>2
    <3>7. \A t \in Saves : dir[t] = dir[s] => Good(part'[dir[t]], overlapped')
      BY <1>b, <3>1, <3>2
    <3>8. \A t \in Saves : dir'[t] = dir[t] /\ (t # s => script'[t] = script[t])
      BY <3>1, <3>2
    <3>9. PartsAreGood'
      BY <2>7, <1>2, <3>1, <3>3, <3>4, <3>5, <3>6, <3>7, <3>8, <1>d
    <3>10. ReadsTheGood'
      BY <2>7, <1>2, <3>2, <1>a
    <3> QED BY <3>9, <3>10
  <2>8. CASE MovesJson(s)
    BY <2>8, <1>2, <1>a, <1>b, <1>c, <1>d DEF MovesJson, ScriptGoto
  <2> QED BY <1>2, <2>1, <2>2, <2>3, <2>4, <2>5, <2>6, <2>7, <2>8 DEF Script
<1>3. ASSUME Reader, UNCHANGED config PROVE PartsAreGood' /\ ReadsTheGood'
  <2>1. CASE ReaderBegins
    BY <2>1, <1>3, <1>a, <1>b, <1>c, <1>d DEF ReaderBegins
  <2>2. CASE ReaderGets
    BY <2>2, <1>3, <1>a, <1>b, <1>c, <1>d DEF ReaderGets
  <2>3. CASE ReaderEnds
    <3>1. /\ UNCHANGED <<cmd, script, dir, fd, part, bin, overlapped>> /\ reader.at = "got"
          /\ \/ reader.got = reader.size /\ reader' = [reader EXCEPT !.at = "ok", !.size = {}]
             \/ reader' = [reader EXCEPT !.at = "cold", !.size = {}, !.got = {}]
      BY <2>3, <1>3 DEF ReaderEnds
    <3>2. ReadsTheGood'
      <4>1. CASE reader.got = reader.size /\ reader' = [reader EXCEPT !.at = "ok", !.size = {}]
        <5>1. reader'.at = "ok" /\ reader'.got = reader.got /\ reader.got # NoFile
          BY <3>1, <4>1
        <5> QED BY <2>3, <1>3, <3>1, <5>1
      <4>2. CASE reader' = [reader EXCEPT !.at = "cold", !.size = {}, !.got = {}]
        <5>1. reader'.at = "cold"
          BY <3>1, <4>2
        <5> QED BY <5>1
      <4> QED BY <3>1, <4>1, <4>2
    <3>3. PartsAreGood'
      BY <2>3, <1>3, <3>1
    <3> QED BY <3>2, <3>3
  <2> QED BY <1>3, <2>1, <2>2, <2>3 DEF Reader
<1>4. CASE UNCHANGED vars
  BY <1>4 DEF vars
<1> QED BY <1>1, <1>2, <1>3, <1>4 DEF Next

-----------------------------------------------------------------------------
(* The theorems.                                                            *)

IInv ==
    /\ Typed /\ Apart
    /\ Alone /\ DownGoesOn /\ UploadedWasPublished
    /\ PartsAreGood /\ ReadsTheGood

\* The invariant holds in every reachable state.
LEMMA Invariance == Spec => []IInv
<1>1. Init => IInv
  <2> SUFFICES ASSUME Init PROVE IInv
    OBVIOUS
  <2>1. Apart /\ Alone /\ DownGoesOn /\ UploadedWasPublished
    BY DEF Init, Apart, AtWork, Alone, DownGoesOn, UploadedWasPublished
  <2>2. PartsAreGood /\ ReadsTheGood
    BY DEF Init, PartsAreGood, ReadsTheGood, Good
  <2> QED BY <2>1, <2>2, InitTypes DEF IInv
<1>2. IInv /\ [Next]_vars => IInv'
  BY StepTypes, StepApart, StepAlone, StepGood DEF IInv
<1> QED BY <1>1, <1>2, PTL DEF Spec

\* "uploaded" says that the command's own snapshot was published.
THEOREM UploadsArePublished == Spec => []UploadedWasPublished
<1>1. IInv => UploadedWasPublished
  BY DEF IInv
<1> QED BY <1>1, Invariance, PTL

\* With require_save no `down` destroys the machine after an upload that
\* failed or did not reach the server.
THEOREM RequiredUploadIsKept == Spec => []RequiredUploadBeforeDestroy
<1>1. IInv => RequiredUploadBeforeDestroy
  BY DEF IInv, DownGoesOn, UploadedWasPublished, RequiredUploadBeforeDestroy
<1> QED BY <1>1, Invariance, PTL

\* A prefetch from an rsync server accepts one save's whole snapshot only.
THEOREM PrefetchesTheWhole == Spec => []PrefetchedIsWhole
<1>1. IInv => PrefetchedIsWhole
  BY DEF IInv, ReadsTheGood, Good, PrefetchedIsWhole
<1> QED BY <1>1, Invariance, PTL
=============================================================================
