--------------------------- MODULE SnapshotStore ----------------------------
(***************************************************************************)
(* What FileStorage promises: a register that holds a whole snapshot or    *)
(* none.  Saving replaces the snapshot at once; a power loss brings back   *)
(* one of those saved since the last one known to be on disk.              *)
(***************************************************************************)
CONSTANTS Snapshot, Absent

VARIABLES
  value,       \* the snapshot a process that starts now would load
  candidates   \* the snapshots that may be there after a power loss

Init == value = Absent /\ candidates = {Absent}

Save == value' \in Snapshot /\ candidates' = candidates \cup {value'}

Flush == candidates' = {value} /\ UNCHANGED value

PowerLoss == value' \in candidates /\ candidates' = {value'}

Next == Save \/ Flush \/ PowerLoss

Spec == Init /\ [][Next]_<<value, candidates>>
=============================================================================
