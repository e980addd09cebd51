------------------------- MODULE FileStorageProofs --------------------------
(***************************************************************************)
(* FileStorage keeps whole snapshots and what it has saved, for any number *)
(* of versions, exits, power losses and failing calls.                     *)
(***************************************************************************)
EXTENDS FileStorage, TLAPS

\* What the steps of Save rely on: after the write the temporary file holds the
\* copy, after Sync also on disk; the copy is ahead of the file it replaces.
SaveInv ==
  /\ pc = "sync" => temp = saving
  /\ pc \in {"close", "rename"} => temp = saving /\ tempOnDisk = {saving}
  /\ pc = "syncdir" => file = saving
  /\ pc \in Steps => Load(file) <= saving /\ saving <= local
  /\ pc # "down" => Load(file) <= local

StorageInv ==
  /\ TypeOK
  /\ SaveInv
  /\ file \in onDisk
  /\ durable <= saved
  /\ SnapshotsAreWhole
  /\ SavedIsLoaded

\* A content is loaded as a version.
LEMMA LoadIsVersion == \A content \in Content : Load(content) \in Nat
BY DEF Load, Content

LEMMA StorageInit == Init => StorageInv
<1> SUFFICES ASSUME Init PROVE StorageInv
  OBVIOUS
<1> USE DEF Init
<1>1. TypeOK
  BY ZenonT(60) DEF TypeOK, Content, Steps
<1>2. Load(Absent) = 0
  BY ContentAssumption DEF Load
<1>3. SaveInv
  BY <1>2 DEF SaveInv, Steps
<1>4. file \in onDisk /\ durable <= saved /\ SnapshotsAreWhole /\ SavedIsLoaded
  BY SMTT(60), <1>2 DEF SnapshotsAreWhole, SavedIsLoaded
<1> QED
  BY <1>1, <1>3, <1>4 DEF StorageInv

\* Every step of the loop, of Save and of a crash keeps the types.
LEMMA TypeStep == TypeOK /\ [Next]_vars => TypeOK'
<1> SUFFICES ASSUME TypeOK, [Next]_vars PROVE TypeOK'
  OBVIOUS
<1> USE DEF TypeOK, saveVars, Steps, Content
<1>1. CASE Grow
  BY <1>1 DEF Grow
<1>2. CASE Tick \/ StopTick
  BY ZenonT(60), <1>2 DEF Tick, StopTick, Copy
<1>3. CASE Stop
  BY <1>3 DEF Stop
<1>4. CASE Open \/ Write \/ Sync
  BY ZenonT(60), <1>4 DEF Open, Write, Sync
<1>5. CASE Close \/ Rename
  BY ZenonT(60), <1>5 DEF Close, Rename
<1>6. CASE SyncDir
  <2>1. pc' \in {"ended", "idle"}
    BY <1>6 DEF SyncDir, Returned
  <2>2. onDisk' \subseteq Content /\ durable' \in Nat
    BY ZenonT(60), <1>6 DEF SyncDir
  <2>3. failed' \in BOOLEAN /\ saved' \in Nat
    BY ZenonT(60), <1>6 DEF SyncDir
  <2> QED
    BY <1>6, <2>1, <2>2, <2>3 DEF SyncDir
<1>7. CASE Fail
  <2>1. pc' \in {"ended", "idle"}
    <3>1. pc' = Returned
      BY <1>7 DEF Fail
    <3> QED
      BY <3>1 DEF Returned
  <2>2. \/ temp' = Torn /\ tempOnDisk' = tempOnDisk \cup {Torn}
        \/ temp' = temp /\ tempOnDisk' = tempOnDisk
    BY <1>7 DEF Fail
  <2>3. failed' \in BOOLEAN
    BY <1>7 DEF Fail
  <2> QED
    BY ZenonT(60), <1>7, <2>1, <2>2, <2>3 DEF Fail
<1>8. CASE Exit
  BY <1>8 DEF Exit
<1>9. CASE PowerLoss
  BY <1>9 DEF PowerLoss
<1>10. CASE Start
  BY ZenonT(60), <1>10, LoadIsVersion DEF Start
<1>11. CASE UNCHANGED vars
  BY SMTT(60), <1>11 DEF vars
<1> QED
  BY <1>1, <1>2, <1>3, <1>4, <1>5, <1>6, <1>7, <1>8, <1>9, <1>10, <1>11 DEF Next, SaveStep

\* The file changes only when it is replaced or the power fails.
LEMMA StorageStep == StorageInv /\ [Next]_vars => StorageInv'
<1> SUFFICES ASSUME StorageInv, [Next]_vars PROVE StorageInv'
  OBVIOUS
<1>t. TypeOK'
  BY TypeStep DEF StorageInv
<1> USE DEF StorageInv
<1>l. Load(file) \in Nat /\ \A content \in onDisk : Load(content) \in Nat
  BY LoadIsVersion DEF TypeOK
<1> DEFINE Rest == SaveInv' /\ (file \in onDisk)' /\ (durable <= saved)'
                   /\ SnapshotsAreWhole' /\ SavedIsLoaded'
<1> SUFFICES Rest
  BY <1>t
<1> USE DEF saveVars, Steps, SaveInv, SnapshotsAreWhole, SavedIsLoaded
<1>1. CASE Grow
  BY <1>1, <1>l DEF Grow, TypeOK, Load
<1>2. CASE Tick \/ StopTick
  BY <1>2, <1>l DEF Tick, StopTick, Copy, TypeOK, Load
<1>3. CASE Stop
  BY <1>3 DEF Stop, Load
<1>4. CASE Open \/ Write \/ Sync
  BY <1>4 DEF Open, Write, Sync, Load
<1>5. CASE Close
  BY <1>5 DEF Close, Load
<1>6. CASE Rename
  BY <1>6, <1>l DEF Rename, TypeOK, Load
<1>7. CASE SyncDir
  BY <1>7, <1>l DEF SyncDir, Returned, TypeOK, Load
<1>8. CASE Fail
  BY <1>8 DEF Fail, Returned, Load
<1>9. CASE Exit
  BY <1>9 DEF Exit, Load
<1>10. CASE PowerLoss
  BY <1>10, <1>l DEF PowerLoss, TypeOK, Load
<1>11. CASE Start
  BY <1>11, <1>l DEF Start, TypeOK, Load
<1>12. CASE UNCHANGED vars
  BY <1>12 DEF vars, Load
<1> QED
  BY ZenonT(60), <1>1, <1>2, <1>3, <1>4, <1>5, <1>6, <1>7, <1>8, <1>9, <1>10, <1>11, <1>12
  DEF Next, SaveStep

LEMMA StorageInvariant == Spec => []StorageInv
BY StorageInit, StorageStep, PTL DEF Spec

\* Types of the loop, the files and the versions.
THEOREM StorageTypeCorrect == Spec => []TypeOK
<1>1. StorageInv => TypeOK
  BY DEF StorageInv
<1> QED
  BY <1>1, StorageInvariant, PTL

\* Load never meets a file that Save left half written.
THEOREM SnapshotsStayWhole == Spec => []SnapshotsAreWhole
<1>1. StorageInv => SnapshotsAreWhole
  BY DEF StorageInv
<1> QED
  BY <1>1, StorageInvariant, PTL

\* What Save has returned nil for is loaded later.
THEOREM SavedStaysLoaded == Spec => []SavedIsLoaded
<1>1. StorageInv => SavedIsLoaded
  BY DEF StorageInv
<1> QED
  BY <1>1, StorageInvariant, PTL

\* Save, Load and crashes implement SnapshotStore: the rename is its Save, the
\* sync of the directory its Flush.
THEOREM StorageImplementsStore == Spec => ImplementsStore
<1>1. Init => Store!Init
  BY DEF Init, Store!Init
<1>2. StorageInv /\ [Next]_vars => [Store!Next]_<<file, onDisk>>
  <2> SUFFICES ASSUME StorageInv, [Next]_vars PROVE [Store!Next]_<<file, onDisk>>
    OBVIOUS
  <2> USE DEF saveVars
  <2>1. CASE Rename
    BY <2>1 DEF Rename, Store!Next, Store!Save, StorageInv, SaveInv, TypeOK
  <2>2. CASE SyncDir
    BY <2>2 DEF SyncDir, Store!Next, Store!Flush
  <2>3. CASE PowerLoss
    BY <2>3 DEF PowerLoss, Store!Next, Store!PowerLoss
  <2>4. CASE Grow \/ Tick \/ StopTick \/ Stop \/ Exit \/ Start
    BY <2>4 DEF Grow, Tick, StopTick, Copy, Stop, Exit, Start
  <2>5. CASE Open \/ Write \/ Sync \/ Close \/ Fail
    BY <2>5 DEF Open, Write, Sync, Close, Fail
  <2>6. CASE UNCHANGED vars
    BY <2>6 DEF vars
  <2> QED
    BY <2>1, <2>2, <2>3, <2>4, <2>5, <2>6 DEF Next, SaveStep
<1> QED
  BY <1>1, <1>2, StorageInvariant, PTL DEF Spec, ImplementsStore, Store!Spec
=============================================================================
