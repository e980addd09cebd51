---------------------------- MODULE FileStorage -----------------------------
(***************************************************************************)
(* internal/storage with the goroutine that uses it: snapshotLoop of the   *)
(* engine saves the local counters every SnapshotInterval and once more    *)
(* when the engine is stopped; New loads them when the process starts.     *)
(*                                                                         *)
(* The counters a process holds only grow while snapshotLoop runs, so a    *)
(* number stands for them.  Save is a sequence of system calls, each of    *)
(* which may fail; the process may be killed between any two, and so may   *)
(* the machine.  The file system is external: a name refers to the content *)
(* the running system sees, and to the set of contents a power loss may    *)
(* leave under it.  The directory of the file exists.                      *)
(***************************************************************************)
EXTENDS Integers

CONSTANTS
  Absent, Empty, Torn, \* a name that does not exist, a file cut short
  MaxVersion           \* bound: how often the counters grow

ASSUME ContentAssumption ==
  /\ Absent \notin Nat /\ Empty \notin Nat /\ Torn \notin Nat
  /\ Absent # Empty /\ Absent # Torn

VARIABLES
  local,       \* Engine.localCounters
  stopCh,      \* whether Stop has closed stopCh
  pc,          \* where snapshotLoop is
  saving,      \* the copy that is being saved
  final,       \* whether it is the one taken because of stopCh
  temp,        \* filePath + ".tmp", as the running system sees it
  tempOnDisk,  \* the contents it may have after a power loss
  file,        \* filePath, as the running system sees it
  onDisk,      \* the contents it may have after a power loss
  failed,      \* history: whether the last Save returned an error
  atStop,      \* history: the local counters when Stop was called
  saved,       \* history: the greatest state a Save returned nil for and no
               \* power loss may have taken back
  durable      \* history: the same, where the directory was synced as well

vars == <<local, stopCh, pc, saving, final, temp, tempOnDisk, file, onDisk,
          failed, atStop, saved, durable>>
saveVars == <<local, stopCh, saving, final, atStop, durable>>

Content == Nat \cup {Absent, Empty, Torn}

\* Mutant: no fresh map is put in place of a file that is not there.
LoadAsIs(content) == content

\* The version Load finds in a file, a fresh map counting as version 0: there
\* is no file, it is empty, or it does not decode and New starts afresh.
Load(content) == IF content \in Nat THEN content ELSE 0

Steps == {"open", "write", "sync", "close", "rename", "syncdir"}

Init ==
  /\ local = 0 /\ stopCh = FALSE
  /\ pc = "idle" /\ saving = 0 /\ final = FALSE
  /\ temp = Absent /\ tempOnDisk = {Absent}
  /\ file = Absent /\ onDisk = {Absent}
  /\ failed = FALSE /\ atStop = 0 /\ saved = 0 /\ durable = 0

-----------------------------------------------------------------------------
(* The engine around the storage *)

\* Increments and merges of the engine.
Grow ==
  /\ pc # "down"
  /\ local < MaxVersion
  /\ local' = local + 1
  /\ UNCHANGED <<stopCh, pc, saving, final, temp, tempOnDisk, file, onDisk,
                 failed, atStop, saved, durable>>

\* snapshotLoop wakes up, because of the ticker or of stopCh, and copies.
Copy(isFinal) ==
  /\ pc = "idle"
  /\ saving' = local
  /\ final' = isFinal
  /\ pc' = "open"
  /\ UNCHANGED <<local, stopCh, temp, tempOnDisk, file, onDisk, failed, atStop,
                 saved, durable>>

Tick == Copy(FALSE)

\* Mutant: the final snapshot saves the copy made for the one before.
StopTickOld ==
  /\ stopCh
  /\ pc = "idle"
  /\ final' = TRUE
  /\ pc' = "open"
  /\ UNCHANGED <<local, stopCh, saving, temp, tempOnDisk, file, onDisk, failed,
                 atStop, saved, durable>>

StopTick == stopCh /\ Copy(TRUE)

\* Engine.Stop closes stopCh.
Stop ==
  /\ pc # "down" /\ ~stopCh
  /\ stopCh' = TRUE
  /\ atStop' = local
  /\ UNCHANGED <<local, pc, saving, final, temp, tempOnDisk, file, onDisk,
                 failed, saved, durable>>

-----------------------------------------------------------------------------
(* Save *)

\* Where the loop goes when Save has returned.
Returned == IF final THEN "ended" ELSE "idle"

\* Mutant: the file itself is opened and truncated.
OpenInPlace ==
  /\ pc = "open"
  /\ file' = Empty
  /\ temp' = Empty
  /\ tempOnDisk' = {Empty}
  /\ pc' = "write"
  /\ UNCHANGED <<saveVars, onDisk, failed, saved>>

\* OpenFile with O_CREATE and O_TRUNC.
Open ==
  /\ pc = "open"
  /\ temp' = Empty
  /\ tempOnDisk' = tempOnDisk \cup {Empty}
  /\ pc' = "write"
  /\ UNCHANGED <<saveVars, file, onDisk, failed, saved>>

\* What was written is on disk in part, in full or not at all.
Write ==
  /\ pc = "write"
  /\ temp' = saving
  /\ tempOnDisk' = tempOnDisk \cup {Torn, saving}
  /\ pc' = "sync"
  /\ UNCHANGED <<saveVars, file, onDisk, failed, saved>>

\* Mutant: the file is not synced before it is renamed.
SyncSkipped ==
  /\ pc = "sync"
  /\ pc' = "close"
  /\ UNCHANGED <<saveVars, temp, tempOnDisk, file, onDisk, failed, saved>>

Sync ==
  /\ pc = "sync"
  /\ tempOnDisk' = {temp}
  /\ pc' = "close"
  /\ UNCHANGED <<saveVars, temp, file, onDisk, failed, saved>>

Close ==
  /\ pc = "close"
  /\ pc' = "rename"
  /\ UNCHANGED <<saveVars, temp, tempOnDisk, file, onDisk, failed, saved>>

\* A rename is atomic, and on disk at some later time.
Rename ==
  /\ pc = "rename"
  /\ file' = temp
  /\ onDisk' = onDisk \cup tempOnDisk
  /\ temp' = Absent
  /\ tempOnDisk' = {Absent}
  /\ pc' = "syncdir"
  /\ UNCHANGED <<saveVars, failed, saved>>

\* Any call fails.  An error up to Rename is returned; a failed Write leaves a
\* part of the data in the temporary file.
Fail ==
  /\ pc \in Steps \ {"syncdir"}
  /\ IF pc = "write"
     THEN temp' = Torn /\ tempOnDisk' = tempOnDisk \cup {Torn}
     ELSE UNCHANGED <<temp, tempOnDisk>>
  /\ pc' = Returned
  /\ failed' = TRUE
  /\ UNCHANGED <<saveVars, file, onDisk, saved>>

\* Mutant: the directory is opened and never synced.
SyncDirForgotten ==
  /\ pc = "syncdir"
  /\ durable' = saving
  /\ saved' = saving
  /\ failed' = FALSE
  /\ pc' = Returned
  /\ UNCHANGED <<local, stopCh, saving, final, atStop, temp, tempOnDisk, file, onDisk>>

\* The directory is synced, or that fails and is ignored; Save returns nil.
SyncDir ==
  /\ pc = "syncdir"
  /\ \/ onDisk' = {file} /\ durable' = saving
     \/ UNCHANGED <<onDisk, durable>>
  /\ saved' = saving
  /\ failed' = FALSE
  /\ pc' = Returned
  /\ UNCHANGED <<local, stopCh, saving, final, atStop, temp, tempOnDisk, file>>

-----------------------------------------------------------------------------
(* Crashes *)

\* The process ends at any point: it is killed, or main returns after Stop,
\* which does not wait for snapshotLoop.
Exit ==
  /\ pc # "down"
  /\ pc' = "down"
  /\ UNCHANGED <<saveVars, temp, tempOnDisk, file, onDisk, failed, saved>>

\* The machine stops: the page cache is gone.
PowerLoss ==
  /\ pc' = "down"
  /\ \E content \in onDisk : file' = content /\ onDisk' = {content}
  /\ \E content \in tempOnDisk : temp' = content /\ tempOnDisk' = {content}
  /\ saved' = durable
  /\ UNCHANGED <<saveVars, failed>>

\* New: the state is loaded, or fresh.
Start ==
  /\ pc = "down"
  /\ pc' = "idle"
  /\ local' = Load(file)
  /\ stopCh' = FALSE
  /\ UNCHANGED <<saving, final, temp, tempOnDisk, file, onDisk, failed, atStop,
                 saved, durable>>

SaveStep == Open \/ Write \/ Sync \/ Close \/ Rename \/ SyncDir \/ Fail

Next == Grow \/ Tick \/ StopTick \/ Stop \/ SaveStep \/ Exit \/ PowerLoss \/ Start

Spec == Init /\ [][Next]_vars

\* Save goes on.  select picks at random among the ready cases, so stopCh is
\* picked in the end although the ticker may be ready each time.
Fairness == WF_vars(SaveStep) /\ SF_vars(StopTick)

FairSpec == Spec /\ Fairness
-----------------------------------------------------------------------------
(* Properties *)

\* The steps of the loop, the contents of both files and the versions.
TypeOK ==
  /\ local \in Nat /\ saving \in Nat
  /\ stopCh \in BOOLEAN /\ final \in BOOLEAN /\ failed \in BOOLEAN
  /\ pc \in Steps \cup {"idle", "ended", "down"}
  /\ temp \in Content /\ tempOnDisk \subseteq Content
  /\ file \in Content /\ onDisk \subseteq Content
  /\ atStop \in Nat /\ saved \in Nat /\ durable \in Nat

\* Whatever Load may ever find, after an exit or a power loss at any point of
\* Save, is a snapshot in full or no file (Save: "to prevent state corruption
\* if the node crashes mid-write").
SnapshotsAreWhole == {file} \cup onDisk \subseteq Nat \cup {Absent}

\* A state for which Save has returned nil is part of what is loaded after the
\* process exits, and after a power loss if its directory could be synced,
\* however later saves fail or are cut off.
SavedIsLoaded ==
  /\ saved <= Load(file)
  /\ \A content \in onDisk : durable <= Load(content)

\* Save and Load implement a register of snapshots.
Store == INSTANCE SnapshotStore WITH
  Snapshot <- Nat, value <- file, candidates <- onDisk

\* The file changes from one whole snapshot to another in one step, the rename,
\* and only a power loss takes it back, never beyond the last synced one.
ImplementsStore == Store!Spec

\* When the engine is stopped and the process lives on, the loop ends, and
\* unless the last Save failed, with everything saved that the counters held
\* when Stop was called (snapshotLoop: the snapshot "on stop").
StopIsSaved ==
  stopCh ~> (pc = "down" \/ (pc = "ended" /\ (failed \/ saved >= atStop)))
=============================================================================
