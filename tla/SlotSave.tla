------------------------------ MODULE SlotSave ------------------------------
(***************************************************************************)
(* Saving a machine's slot to the cache server (cache.py,                  *)
(* save_and_upload_slot_cache) by the three commands that do it: `down`    *)
(* before it destroys, `replace` before it rents, and `cache copy`; and a  *)
(* prefetch that reads the server meanwhile.                               *)
(*                                                                         *)
(* A command (cmd) drives a script on the machine (script) over ssh; the   *)
(* script outlives a command that stops waiting.  Snapshots of one session *)
(* and signature share a directory of the server: .current.bin.part, which *)
(* rsync writes in place, current.bin, which a rename makes of it, and the *)
(* metadata beside them.  A file is the set of the saves whose blocks it   *)
(* holds, with Hole among them while some are missing; {} is no file.      *)
(***************************************************************************)
EXTENDS Naturals, FiniteSets

CONSTANTS
    Saves,     \* runs of save_and_upload_slot_cache
    Machines,  \* rented machines, all of one session, model, context and build
    Dirs,      \* the directories of the session, one for each signature: that of
               \* the machines' llama.cpp commit, and that of "unknown"
    None, Hole,
    Attempts   \* rsync is tried so often (3 in the script)

ASSUME SavesAssumption == Saves \cap {None, Hole} = {}
ASSUME AttemptsAssumption == Attempts \in Nat \ {0}

NoFile == {}

VARIABLES
    rclone, require, \* config.cache.rclone, config.cache.require_save
    kind, on,        \* the kind of command, the machine of its instance
    cmd, script,     \* [Saves -> Steps], [Saves -> ScriptSteps]
    result,          \* slot_cache_save, as the command records it
    dir,             \* [Saves -> Dirs]: the directory the signature names
    try,             \* [Saves -> 1..Attempts]
    fd, clean,       \* the file a script has open; nothing else wrote it since
    slot, meta,      \* whose current.bin a machine has; who has a current.json
    up,              \* [Machines -> BOOLEAN]: not destroyed
    part, bin,       \* [Dirs -> Contents], the two files on the cache server
    jpart,           \* the directories with a .current.json.part
    reader,          \* a prefetch: its step, its directory, what it got
    overlapped, published \* history, of each save

config == <<rclone, require, kind, on>>
local == <<slot, meta, up>>
server == <<part, bin, jpart>>
history == <<overlapped, published>>
vars == <<config, cmd, script, result, dir, try, fd, clean, local, server, reader, history>>

Steps == {"guard", "save", "meta", "wait", "tail", "raised", "end"}
ScriptSteps == {"idle", "seed", "send", "sending", "json", "move", "movejson", "ok", "exit"}
Kinds == {"down", "replace", "copy"}
ReaderSteps == {"new", "size", "got", "ok", "cold"}

Contents == SUBSET (Saves \cup {Hole})

TypeOK ==
    /\ rclone \in BOOLEAN /\ require \in BOOLEAN
    /\ kind \in [Saves -> Kinds] /\ on \in [Saves -> Machines]
    /\ cmd \in [Saves -> Steps] /\ script \in [Saves -> ScriptSteps]
    /\ result \in [Saves -> {"none", "skipped", "empty", "uploaded", "upload-failed"}]
    /\ dir \in [Saves -> Dirs \cup {None}] /\ try \in [Saves -> 1..Attempts]
    /\ fd \in [Saves -> {"none", "part", "bin", "unlinked"}] /\ clean \in [Saves -> BOOLEAN]
    /\ slot \in [Machines -> Saves \cup {None}] /\ meta \in SUBSET Machines
    /\ up \in [Machines -> BOOLEAN]
    /\ part \in [Dirs -> Contents] /\ bin \in [Dirs -> Contents]
    /\ jpart \in SUBSET Dirs
    /\ reader \in [at : ReaderSteps, dir : Dirs \cup {None},
                   size : Contents, got : Contents]
    /\ overlapped \in SUBSET Saves /\ published \in SUBSET Saves

Init ==
    /\ rclone \in BOOLEAN /\ require \in BOOLEAN
    /\ kind \in [Saves -> Kinds] /\ on \in [Saves -> Machines]
    /\ cmd = [s \in Saves |-> "guard"] /\ script = [s \in Saves |-> "idle"]
    /\ result = [s \in Saves |-> "none"] /\ dir = [s \in Saves |-> None]
    /\ try = [s \in Saves |-> 1]
    /\ fd = [s \in Saves |-> "none"] /\ clean = [s \in Saves |-> TRUE]
    /\ slot = [m \in Machines |-> None] /\ meta = {}
    /\ up = [m \in Machines |-> TRUE]
    /\ part = [d \in Dirs |-> NoFile] /\ bin = [d \in Dirs |-> NoFile]
    /\ jpart = {}
    /\ reader = [at |-> "new", dir |-> None, size |-> {}, got |-> {}]
    /\ overlapped = {} /\ published = {}

Goto(s, from, to) == cmd[s] = from /\ cmd' = [cmd EXCEPT ![s] = to]
ScriptGoto(s, from, to) == script[s] = from /\ script' = [script EXCEPT ![s] = to]

-----------------------------------------------------------------------------
(* The command.                                                             *)

\* A ClickException ends `down` and `cache copy`; `replace` catches it and
\* goes on ("slot-cache save on old instance failed; continuing").
Raises(s) == cmd' = [cmd EXCEPT ![s] = IF kind[s] = "replace" THEN "tail" ELSE "raised"]

\* _guard_cache_save: --no-cache, or a cache `up` has switched off; without
\* require_save, also what GuardRaises stops at.
GuardSkips(s) ==
    /\ Goto(s, "guard", "tail")
    /\ result' = [result EXCEPT ![s] = "skipped"]
    /\ UNCHANGED <<script, dir, try, fd, clean, local, server, reader, history>>

\* There is no endpoint, or the key cannot be put on the machine.
GuardRaises(s) ==
    /\ require /\ cmd[s] = "guard" /\ Raises(s)
    /\ UNCHANGED <<script, result, dir, try, fd, clean, local, server, reader, history>>

\* resolve_llama_commit, the signature and the directory it names; the state
\* is saved with it before the slot is.
Resolves(s) ==
    /\ up[on[s]] /\ Goto(s, "guard", "save")
    /\ \E d \in Dirs : dir' = [dir EXCEPT ![s] = d]
    /\ UNCHANGED <<script, result, try, fd, clean, local, server, reader, history>>

\* A save is at work from its slot save to the end of its script.
AtWork(t) == cmd[t] = "meta" \/ script[t] \notin {"idle", "ok", "exit"}

\* The scripts that write a file of the directory d.
Writing(name, d) == {t \in Saves : fd[t] = name /\ dir[t] = d}

\* llama.cpp writes current.bin of the machine anew, under the feet of a
\* script that still reads it there.
SlotWritten(s) ==
    /\ slot' = [slot EXCEPT ![on[s]] = s]
    /\ LET readers == {t \in Saves \ {s} : script[t] = "sending" /\ on[t] = on[s]}
           near == {t \in Saves \ {s} : AtWork(t) /\ (on[t] = on[s] \/ dir[t] = dir[s])}
       IN /\ clean' = [t \in Saves |-> clean[t] /\ t \notin readers]
          /\ overlapped' = overlapped \cup near \cup (IF near = {} THEN {} ELSE {s})

\* save_slot: the request is answered 200 with n_saved > 0.
SavesSlot(s) ==
    /\ up[on[s]] /\ Goto(s, "save", "meta") /\ SlotWritten(s)
    /\ UNCHANGED <<script, result, dir, try, fd, meta, up, server, reader, published>>

\* The slot holds nothing, or another answer, an exception or a timeout:
\* save_slot returns None for each of them, and the caller records "empty".
SavesNothing(s) ==
    /\ Goto(s, "save", "tail")
    /\ result' = [result EXCEPT ![s] = "empty"]
    /\ \/ UNCHANGED <<slot, clean, overlapped>>
       \/ up[on[s]] /\ SlotWritten(s)   \* the answer was lost, the file written
    /\ UNCHANGED <<script, dir, try, fd, meta, up, server, reader, published>>

\* _send_cache_metadata (whose failures are ignored), and the start of the
\* upload script.
SendsMetadata(s) ==
    /\ Goto(s, "meta", "wait")
    /\ meta' \in {meta, meta \cup {on[s]}}
    /\ script' = [script EXCEPT ![s] = IF rclone THEN "send" ELSE "seed"]
    /\ UNCHANGED <<result, dir, try, fd, clean, slot, up, server, reader, history>>

\* Mutant: a failed upload is reported and nothing more.
ReportsSoftly(s, outcome) ==
    /\ Goto(s, "wait", "tail") /\ result' = [result EXCEPT ![s] = outcome]

\* _report_upload_result
Reports(s, outcome) ==
    /\ cmd[s] = "wait" /\ result' = [result EXCEPT ![s] = outcome]
    /\ IF outcome = "upload-failed" /\ require
         THEN Raises(s) ELSE cmd' = [cmd EXCEPT ![s] = "tail"]

\* Mutant: the script's exit code is not looked at.
SeesItsEnd(s) ==
    /\ script[s] \in {"ok", "exit"} /\ Reports(s, "uploaded")
    /\ UNCHANGED <<script, dir, try, fd, clean, local, server, reader, history>>

\* The script prints "ok" as its last line and exits 0.
SeesOk(s) ==
    /\ script[s] = "ok" /\ Reports(s, "uploaded")
    /\ UNCHANGED <<script, dir, try, fd, clean, local, server, reader, history>>

\* It exits otherwise, or the connection is lost or 5400 s are over while it
\* runs on.
SeesFailure(s) ==
    /\ Reports(s, "upload-failed")
    /\ UNCHANGED <<script, dir, try, fd, clean, local, server, reader, history>>

\* What comes after the save: `down` destroys its machine, `replace` does
\* when the new one serves.  A script on it ends where it is.
Destroys(s) ==
    /\ kind[s] \in {"down", "replace"} /\ Goto(s, "tail", "end")
    /\ up' = [up EXCEPT ![on[s]] = FALSE]
    /\ script' = [t \in Saves |->
          IF on[t] = on[s] /\ script[t] \notin {"idle", "ok"} THEN "exit" ELSE script[t]]
    /\ fd' = [t \in Saves |-> IF on[t] = on[s] THEN "none" ELSE fd[t]]
    /\ clean' = [t \in Saves |-> clean[t] \/ on[t] = on[s]]
    /\ UNCHANGED <<result, dir, try, slot, meta, server, reader, history>>

\* `cache copy` asks for the size of current.bin on the server (rsync only):
\* another size is an error, and state.json says "uploaded" all the same.
Verifies(s) ==
    /\ kind[s] = "copy" /\ cmd[s] = "tail"
    /\ \/ result[s] # "uploaded" /\ cmd' = [cmd EXCEPT ![s] = "raised"]
       \/ result[s] = "uploaded" /\ cmd' = [cmd EXCEPT ![s] = "end"]
       \/ /\ result[s] = "uploaded" /\ ~rclone
          /\ bin[dir[s]] # {s}
          /\ cmd' = [cmd EXCEPT ![s] = "raised"]
    /\ UNCHANGED <<script, result, dir, try, fd, clean, local, server, reader, history>>

-----------------------------------------------------------------------------
(* The upload script, on the machine.                                       *)

\* The script lets its target go.
Closes(s) == fd' = [fd EXCEPT ![s] = "none"] /\ clean' = [clean EXCEPT ![s] = TRUE]

\* set -e, or an exit code of the script: 15, 16, or that of a command.
Exits(s) ==
    /\ script[s] \notin {"idle", "ok", "exit"}
    /\ script' = [script EXCEPT ![s] = "exit"] /\ Closes(s)
    /\ UNCHANGED <<cmd, result, dir, try, local, server, reader, history>>

\* "if a previous current.bin exists, copy it to .current.bin.part"; cp writes
\* into the file of that name if there is one.
Seeds(s) ==
    /\ ScriptGoto(s, "seed", "send")
    /\ LET d == dir[s]
       IN IF bin[d] = NoFile THEN UNCHANGED <<part, clean>>
          ELSE /\ part' = [part EXCEPT ![d] = bin[d]]
               /\ clean' = [t \in Saves |-> clean[t] /\ t \notin Writing("part", d)]
    /\ UNCHANGED <<cmd, result, dir, try, fd, local, bin, jpart, reader, history>>

\* Mutant: rsync writes current.bin itself.
TargetIsLive == "bin"

\* rsync --inplace writes .current.bin.part, rclone current.bin.
Target == IF rclone THEN "bin" ELSE "part"

\* What a file of the save's directory holds.
Held(s, name) == IF name = "part" THEN part[dir[s]] ELSE bin[dir[s]]

\* What a transfer does to the file it has open, wherever that is by now.
Writes(s, name, blocks) ==
    /\ part' = IF name = "part" THEN [part EXCEPT ![dir[s]] = blocks] ELSE part
    /\ bin' = IF name = "bin" THEN [bin EXCEPT ![dir[s]] = blocks] ELSE bin

\* rsync or rclone opens its target, which it creates if it must.
Opens(s) ==
    /\ ScriptGoto(s, "send", "sending")
    /\ LET others == Writing(Target, dir[s])
       IN clean' = [t \in Saves |-> IF t = s THEN others = {} ELSE clean[t] /\ t \notin others]
    /\ fd' = [fd EXCEPT ![s] = Target]
    /\ Writes(s, Target, Held(s, Target) \cup {slot[on[s]], Hole})
    /\ UNCHANGED <<cmd, result, dir, try, local, jpart, reader, history>>

\* Mutant: the attempts are not counted.
FailsForEver(s) ==
    /\ script[s] = "sending" /\ ~rclone
    /\ try' = [try EXCEPT ![s] = @ + 1]
    /\ script' = [script EXCEPT ![s] = "send"] /\ Closes(s)
    /\ UNCHANGED <<cmd, result, dir, local, server, reader, history>>

\* The script tries again, up to its last attempt; after that one it Exits.
Fails(s) ==
    /\ script[s] = "sending" /\ ~rclone /\ try[s] < Attempts
    /\ try' = [try EXCEPT ![s] = @ + 1]
    /\ script' = [script EXCEPT ![s] = "send"] /\ Closes(s)
    /\ UNCHANGED <<cmd, result, dir, local, server, reader, history>>

\* The transfer ends: the file is the machine's, but for the blocks another
\* transfer wrote at the same time.
Sent(s) ==
    /\ ScriptGoto(s, "sending", "json")
    /\ Writes(s, fd[s], IF clean[s] THEN {slot[on[s]]}
                        ELSE (Held(s, fd[s]) \cup {slot[on[s]]}) \ {Hole})
    /\ Closes(s) /\ try' = [try EXCEPT ![s] = 1]
    /\ published' = IF rclone /\ clean[s] THEN published \cup {slot[on[s]]} ELSE published
    /\ UNCHANGED <<cmd, result, dir, local, jpart, reader, overlapped>>

\* current.json: three attempts; without the file on the machine all fail.
SendsJson(s) ==
    /\ on[s] \in meta
    /\ ScriptGoto(s, "json", IF rclone THEN "ok" ELSE "move")
    /\ jpart' = IF rclone THEN jpart ELSE jpart \cup {dir[s]}
    /\ UNCHANGED <<cmd, result, dir, try, fd, clean, local, part, bin, reader, history>>

\* mv: who had the part open has current.bin open, and who had that open
\* writes a file without a name.
Renames(d) ==
    /\ bin' = [bin EXCEPT ![d] = part[d]] /\ part' = [part EXCEPT ![d] = NoFile]
    /\ fd' = [t \in Saves |-> IF t \in Writing("bin", d) THEN "unlinked"
                              ELSE IF t \in Writing("part", d) THEN "bin" ELSE fd[t]]

\* chmod && mv && mv, in one ssh: the snapshot first, and it fails (Exits)
\* when another script has moved the part away.
Moves(s) ==
    /\ ScriptGoto(s, "move", "movejson")
    /\ part[dir[s]] # NoFile /\ dir[s] \in jpart
    /\ Renames(dir[s])
    /\ published' = published \cup (IF Cardinality(part[dir[s]]) = 1
                                      THEN part[dir[s]] \ {Hole} ELSE {})
    /\ UNCHANGED <<cmd, result, dir, try, clean, local, jpart, reader, overlapped>>

MovesJson(s) ==
    /\ ScriptGoto(s, "movejson", "ok")
    /\ dir[s] \in jpart /\ jpart' = jpart \ {dir[s]}
    /\ UNCHANGED <<cmd, result, dir, try, fd, clean, local, part, bin, reader, history>>

-----------------------------------------------------------------------------
(* A prefetch of another machine (SlotPrefetch has its script in full).     *)

\* _prepare_slot_cache and the size the script asks for.
ReaderBegins ==
    /\ reader.at = "new"
    /\ \E d \in Dirs :
         reader' = IF bin[d] = NoFile THEN [reader EXCEPT !.at = "cold", !.dir = d]
                   ELSE [reader EXCEPT !.at = "size", !.dir = d, !.size = bin[d]]
    /\ UNCHANGED <<cmd, script, result, dir, try, fd, clean, local, server, history>>

\* The download reads the file that has the name when it opens it.
ReaderGets ==
    /\ reader.at = "size"
    /\ reader' = [reader EXCEPT !.at = "got", !.got = bin[reader.dir]]
    /\ UNCHANGED <<cmd, script, result, dir, try, fd, clean, local, server, history>>

\* Mutant: the final size is not compared.
ReaderTrusts ==
    /\ reader.at = "got" /\ reader' = [reader EXCEPT !.at = "ok", !.size = {}]
    /\ UNCHANGED <<cmd, script, result, dir, try, fd, clean, local, server, history>>

\* The final size is compared with the one asked for first.
ReaderEnds ==
    /\ reader.at = "got"
    /\ \/ reader.got = reader.size /\ reader' = [reader EXCEPT !.at = "ok", !.size = {}]
       \/ reader' = [reader EXCEPT !.at = "cold", !.size = {}, !.got = {}]
    /\ UNCHANGED <<cmd, script, result, dir, try, fd, clean, local, server, history>>

Command(s) ==
    \/ GuardSkips(s) \/ GuardRaises(s) \/ Resolves(s) \/ SavesSlot(s) \/ SavesNothing(s)
    \/ SendsMetadata(s) \/ SeesOk(s) \/ SeesFailure(s) \/ Destroys(s) \/ Verifies(s)
Script(s) ==
    \/ Exits(s) \/ Seeds(s) \/ Opens(s) \/ Fails(s) \/ Sent(s) \/ SendsJson(s)
    \/ Moves(s) \/ MovesJson(s)
Reader == ReaderBegins \/ ReaderGets \/ ReaderEnds

Next == ((\E s \in Saves : Command(s) \/ Script(s)) \/ Reader) /\ UNCHANGED config

Spec == Init /\ [][Next]_vars

-----------------------------------------------------------------------------
(* Properties.                                                              *)

\* "a partial upload is never visible as current.*" (cache.py): what a
\* prefetch accepts from an rsync server is one save's whole snapshot, whatever
\* uploads failed or were given up before, unless two uploads overlapped.
PrefetchedIsWhole ==
    reader.at = "ok" /\ ~rclone /\ reader.got \cap overlapped = {} =>
      \E s \in Saves : reader.got = {s}

\* A command that records "uploaded" had its own snapshot published, in the
\* directory a prefetch of that build looks into, unless two uploads overlapped.
UploadedWasPublished ==
    \A s \in Saves : result[s] = "uploaded" /\ s \notin overlapped => s \in published

\* require_save: "slot cache upload failed and require_save is set; instance
\* not destroyed".  No `down` destroys the machine after a slot save whose
\* snapshot did not reach the server.
RequiredUploadBeforeDestroy ==
    \A s \in Saves \ overlapped :
      require /\ kind[s] = "down" /\ cmd[s] = "end"
        /\ result[s] \in {"uploaded", "upload-failed"} => s \in published

\* README.md, require_save: "if losing the latest snapshot is worse than
\* leaving the Vast instance running".  A machine whose llama.cpp wrote the
\* snapshot a command asked for is not destroyed by it unless that snapshot
\* has reached the server.
RequiredSnapshotIsKept ==
    \A s \in Saves :
      require /\ kind[s] # "copy" /\ cmd[s] = "end" /\ slot[on[s]] = s => s \in published
=============================================================================
