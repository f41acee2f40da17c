--------------------------- MODULE SlotPrefetch ---------------------------
(***************************************************************************)
(* The scripts cache.py runs on the machine to prefetch the slot snapshot  *)
(* (rclone_prefetch_script, rsync_prefetch_script).  An aborted `up` can   *)
(* leave one running when the next `up --restart` starts another: both use *)
(* the same slot directory, and an flock is to keep them apart.            *)
(*                                                                         *)
(* A file is abstracted to the script whose download it holds, complete or *)
(* not.  rsync and rclone are external: rclone writes the target in place; *)
(* rsync, run without --inplace, writes a hidden temporary file it renames *)
(* to the target when it is complete.                                      *)
(***************************************************************************)
CONSTANTS
    Scripts,     \* runs of the prefetch on one machine
    Transports,  \* "rclone", "rsync" ([cache].rclone)
    None         \* no script, no file

ASSUME TransportsAssumption == Transports \subseteq {"rclone", "rsync"}
ASSUME NoneAssumption == None \notin Scripts

VARIABLES
    transport, \* which of the two scripts this deployment runs
    pc,       \* [Scripts -> Steps]
    trapped,  \* [Scripts -> BOOLEAN]: `trap cleanup EXIT` is set
    lock,     \* the script that holds .prefetch.lock, or None
    part,     \* whose complete download .current.bin.part is, or None
    bin,      \* whose download current.bin is, or None
    whole,    \* current.bin is complete
    cause     \* [Scripts -> why it failed], "none" before

vars == <<transport, pc, trapped, lock, part, bin, whole, cause>>

Steps == {"new", "size", "lock", "fetch", "verify", "move", "json", "cleanup", "ok", "failed"}
Causes == {"none", "empty", "busy", "slow", "broken"}

\* The steps between taking the flock and the end of the script.
Fetching == {"fetch", "verify", "move", "json"}

TypeOK ==
    /\ transport \in Transports
    /\ pc \in [Scripts -> Steps]
    /\ trapped \in [Scripts -> BOOLEAN]
    /\ lock \in Scripts \cup {None}
    /\ part \in Scripts \cup {None} /\ bin \in Scripts \cup {None}
    /\ whole \in BOOLEAN
    /\ cause \in [Scripts -> Causes]

Init ==
    /\ transport \in Transports
    /\ pc = [s \in Scripts |-> "new"]
    /\ trapped = [s \in Scripts |-> FALSE]
    /\ lock = None /\ part = None /\ bin = None /\ whole = FALSE
    /\ cause = [s \in Scripts |-> "none"]

files == <<part, bin, whole>>

Goto(s, from, to) == pc[s] = from /\ pc' = [pc EXCEPT ![s] = to]

\* exit 1: the EXIT trap runs if it is set by then.
ExitOne(s, why) ==
    /\ pc' = [pc EXCEPT ![s] = IF trapped[s] THEN "cleanup" ELSE "failed"]
    /\ cause' = [cause EXCEPT ![s] = why]
    /\ lock' = IF lock = s /\ ~trapped[s] THEN None ELSE lock

\* The rsync script sets its trap first and asks for the size, and then locks;
\* the rclone script locks first.
Begins(s) ==
    /\ Goto(s, "new", IF transport = "rsync" THEN "size" ELSE "lock")
    /\ trapped' = [trapped EXCEPT ![s] = (transport = "rsync")]
    /\ UNCHANGED <<lock, files, cause>>

\* Mutant: flock's verdict is ignored.
TakesLockAlways(s) ==
    /\ Goto(s, "lock", IF transport = "rsync" THEN "fetch" ELSE "size")
    /\ lock' = s /\ trapped' = [trapped EXCEPT ![s] = TRUE]
    /\ UNCHANGED <<files, cause>>

\* _PREFETCH_LOCK_SNIPPET: flock -n.  A machine without flock goes without the
\* lock (cache.py:163); flock is taken to be there.
TakesLock(s) ==
    /\ lock = None
    /\ Goto(s, "lock", IF transport = "rsync" THEN "fetch" ELSE "size")
    /\ lock' = s /\ trapped' = [trapped EXCEPT ![s] = TRUE]
    /\ UNCHANGED <<files, cause>>

\* Mutant: the rclone script, too, sets its trap before it tries the lock.
RefusedTrapped(s) ==
    /\ pc[s] = "lock" /\ lock # None
    /\ pc' = [pc EXCEPT ![s] = "cleanup"] /\ cause' = [cause EXCEPT ![s] = "busy"]
    /\ UNCHANGED <<lock, trapped, files>>

\* "another prefetch is still running; skipping"
Refused(s) ==
    /\ pc[s] = "lock" /\ lock # None
    /\ ExitOne(s, "busy")
    /\ UNCHANGED <<trapped, files>>

SizeKnown(s) ==
    /\ Goto(s, "size", IF transport = "rsync" THEN "lock" ELSE "fetch")
    /\ UNCHANGED <<trapped, lock, files, cause>>

\* Mutant: an empty cache is an outcome of its own.
NothingThereCold(s) ==
    /\ pc[s] = "size" /\ ExitOne(s, "cold")
    /\ UNCHANGED <<trapped, files>>

NothingThere(s) ==
    /\ pc[s] = "size" /\ ExitOne(s, "empty")
    /\ UNCHANGED <<trapped, files>>

\* rclone writes current.bin in place from its first byte.
Downloads(s) ==
    /\ pc[s] = "fetch" /\ transport = "rclone" /\ (bin # s \/ whole)
    /\ bin' = s /\ whole' = FALSE
    /\ UNCHANGED <<pc, trapped, lock, part, cause>>

\* stat at the 20 second mark: too few bytes for the rclone target.  The rsync
\* script looks at a name rsync has not created yet, so it always finds 0.
TooSlow(s) ==
    /\ pc[s] = "fetch"
    /\ ExitOne(s, "slow")
    /\ UNCHANGED <<trapped, files>>

Breaks(s) ==
    /\ pc[s] = "fetch" /\ ExitOne(s, "broken")
    /\ UNCHANGED <<trapped, files>>

Completes(s) ==
    /\ Goto(s, "fetch", "verify")
    /\ IF transport = "rsync"
         THEN part' = s /\ UNCHANGED <<bin, whole>>
         ELSE bin = s /\ whole' = TRUE /\ UNCHANGED <<part, bin>>
    /\ UNCHANGED <<trapped, lock, cause>>

\* The final size is compared with the size on the cache server.
Verifies(s) ==
    /\ pc[s] = "verify"
    /\ IF transport = "rsync" THEN part # None ELSE bin # None /\ whole
    /\ pc' = [pc EXCEPT ![s] = IF transport = "rsync" THEN "move" ELSE "json"]
    /\ UNCHANGED <<trapped, lock, files, cause>>

Mismatch(s) ==
    /\ pc[s] = "verify"
    /\ IF transport = "rsync" THEN part = None ELSE bin = None \/ ~whole
    /\ ExitOne(s, "broken")
    /\ UNCHANGED <<trapped, files>>

\* mv; without the source it fails and set -e ends the script.
Moves(s) ==
    /\ pc[s] = "move"
    /\ \/ /\ part # None /\ bin' = part /\ whole' = TRUE /\ part' = None
          /\ pc' = [pc EXCEPT ![s] = "json"] /\ UNCHANGED <<lock, cause>>
       \/ /\ part = None /\ ExitOne(s, "broken") /\ UNCHANGED files
    /\ UNCHANGED <<trapped>>

\* current.json is best effort; success=1, "ok", and the flock goes.
ReportsOk(s) ==
    /\ Goto(s, "json", "ok")
    /\ lock' = IF lock = s THEN None ELSE lock
    /\ UNCHANGED <<trapped, files, cause>>

\* cleanup(): rm -f, of whatever the names stand for.
Cleans(s) ==
    /\ Goto(s, "cleanup", "failed")
    /\ part' = None /\ bin' = None /\ whole' = FALSE
    /\ lock' = IF lock = s THEN None ELSE lock
    /\ UNCHANGED <<trapped, cause>>

Script(s) ==
    \/ Begins(s) \/ TakesLock(s) \/ Refused(s) \/ SizeKnown(s) \/ NothingThere(s)
    \/ Downloads(s) \/ TooSlow(s) \/ Breaks(s) \/ Completes(s)
    \/ Verifies(s) \/ Mismatch(s) \/ Moves(s) \/ ReportsOk(s) \/ Cleans(s)

Next == (\E s \in Scripts : Script(s)) /\ UNCHANGED transport

Spec == Init /\ [][Next]_vars

-----------------------------------------------------------------------------
(* Properties.                                                              *)

\* "refuse to overlap rather than interleave writes" (cache.py): at most one
\* script is between the flock and its end, whichever way each of them fails.
OneWriter == \A s, t \in Scripts : {pc[s], pc[t]} \subseteq Fetching => s = t

\* An rclone script that prints "ok" leaves its own complete current.bin
\* behind, which the restore is told to load next.
OkIsThere == [][\A s \in Scripts : ReportsOk(s) /\ transport = "rclone" => bin = s /\ whole]_vars
============================================================================
