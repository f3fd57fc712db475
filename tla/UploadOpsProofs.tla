-------------------------- MODULE UploadOpsProofs --------------------------
(* Proofs about UploadOps, for any number of requests, files and paths:     *)
(* indexed files stay, removals are claimed, nothing is stranded, and the   *)
(* module implements Catalog.                                               *)
EXTENDS UploadOps, TLAPS

(* The loops of the handler stay within the files of the request. *)
CursorsInRange ==
    \A u \in Uploads :
        pc[u] \in {"write", "move", "rename", "settle", "discard"} => next[u] <= Size[u]

(* The file a cursor points at is a slot of the request. *)
LEMMA SlotInSlots ==
    ASSUME NEW u \in Uploads, NEW k \in 1..Size[u]
    PROVE  <<u, k>> \in SlotsOf(u) /\ <<u, k>> \in Slots
BY DEF Slots, SlotsOf

LEMMA SlotsOfSubset ==
    ASSUME NEW u \in Uploads
    PROVE  SlotsOf(u) \subseteq Slots
BY DEF Slots, SlotsOf

(* Writing to the journal keeps it a journal. *)
LEMMA JournalTyping ==
    ASSUME NEW D, NEW j \in [D -> JournalStates], NEW op
    PROVE  /\ CreateRow(j, op) \in [D -> JournalStates]
           /\ \A st \in JournalStates : /\ SetState(j, op, st) \in [D -> JournalStates]
                                        /\ SetStateTx(j, op, st) \in [D -> JournalStates]
BY DEF CreateRow, SetState, SetStateTx, JournalStates

(* Moving the cursor of one handler keeps all cursors in range. *)
PcTyping ==
    /\ pc \in [Uploads -> PCs]
    /\ next \in [Uploads -> Nat] /\ \A u \in Uploads : next[u] \in 1..Size[u] + 1
    /\ CursorsInRange

LEMMA GotoTyping ==
    ASSUME TypeOK, CursorsInRange, NEW u \in Uploads, NEW label \in PCs, NEW k \in 1..Size[u] + 1,
           label \in {"write", "move", "rename", "settle", "discard"} => k <= Size[u],
           Goto(u, label, k)
    PROVE  PcTyping'
BY UploadsAssumption DEF TypeOK, CursorsInRange, Goto, PcTyping

LEMMA FaultTyping ==
    ASSUME TypeOK, Fault \/ NoFault PROVE faults' \in 0..MaxFaults
BY UploadsAssumption DEF TypeOK, Fault, NoFault

LEMMA TypingInit == ASSUME Init PROVE TypeOK /\ CursorsInRange
BY UploadsAssumption DEF Init, TypeOK, CursorsInRange, PCs, Files, JournalStates

LEMMA TypingStep ==
    ASSUME TypeOK, CursorsInRange, [Next]_vars
    PROVE  TypeOK' /\ CursorsInRange'
<1> USE UploadsAssumption DEF TypeOK, CursorsInRange, At, Goto, Fault, NoFault, Slot, Last, PCs
<1>1. ASSUME NEW u \in Uploads, Arrive(u) PROVE TypeOK' /\ CursorsInRange'
  BY <1>1 DEF Arrive
<1>2. ASSUME NEW u \in Uploads, StageJournal(u) PROVE TypeOK' /\ CursorsInRange'
  <2>1. PcTyping'
    <3>1. \/ Goto(u, "stage", next[u] + 1) \/ Goto(u, "write", next[u]) \/ Goto(u, "discard", 1)
      BY <1>2 DEF StageJournal
    <3>2. /\ {1, next[u], next[u] + 1} \subseteq 1..Size[u] + 1
          /\ 1 <= Size[u] /\ next[u] <= Size[u]
      BY <1>2 DEF StageJournal
    <3> HIDE DEF TypeOK, CursorsInRange, Goto
    <3>3. CASE Goto(u, "stage", next[u] + 1)
      BY <3>2, <3>3, GotoTyping
    <3>4. CASE Goto(u, "write", next[u])
      BY <3>2, <3>4, GotoTyping
    <3>5. CASE Goto(u, "discard", 1)
      BY <3>2, <3>5, GotoTyping
    <3> QED BY <3>1, <3>3, <3>4, <3>5
  <2>2. stage' \in [Slots -> JournalStates]
    BY <1>2, JournalTyping DEF StageJournal
  <2>3. faults' \in 0..MaxFaults
    BY <1>2 DEF StageJournal
  <2> QED BY <1>2, <2>1, <2>2, <2>3 DEF StageJournal, PcTyping
<1>3. ASSUME NEW u \in Uploads, WritePart(u) PROVE TypeOK' /\ CursorsInRange'
  <2>1. next[u] \in 1..Size[u]
    BY <1>3 DEF WritePart
  <2>2. PcTyping'
    <3>1. Goto(u, "stage", next[u] + 1) \/ Goto(u, "discard", 1)
      BY <1>3 DEF WritePart
    <3> QED BY <2>1, <3>1, GotoTyping DEF PCs
  <2>3. parts' \subseteq Slots
    BY <1>3, <2>1, SlotInSlots DEF WritePart
  <2> QED BY <1>3, <2>2, <2>3 DEF WritePart, PcTyping
<1>4. ASSUME NEW u \in Uploads, StagingDone(u) PROVE TypeOK' /\ CursorsInRange'
  BY <1>4 DEF StagingDone
<1>5. ASSUME NEW u \in Uploads, Plan(u) PROVE TypeOK' /\ CursorsInRange'
  <2>1. PcTyping'
    <3>1. Goto(u, "move", 1)
      BY <1>5 DEF Plan
    <3>2. 1 \in 1..Size[u] + 1 /\ 1 <= Size[u]
      OBVIOUS
    <3> QED BY <3>1, <3>2, GotoTyping DEF PCs
  <2>2. target' \in [Slots -> Paths \cup {Nobody}]
    <3>1. PICK place \in [1..Size[u] -> {p \in Paths : Free(p)}] :
            target' = [s \in Slots |-> IF s[1] = u THEN place[s[2]] ELSE target[s]]
      BY <1>5 DEF Plan
    <3>2. ASSUME NEW s \in Slots, s[1] = u PROVE s[2] \in 1..Size[u]
      BY <3>2 DEF Slots
    <3> QED BY <3>1, <3>2
  <2>3. journal' \in [Uploads -> JournalStates]
    BY <1>5, JournalTyping DEF Plan
  <2> QED BY <1>5, <2>1, <2>2, <2>3 DEF Plan, PcTyping
<1>6. ASSUME NEW u \in Uploads, PlanRejected(u) PROVE TypeOK' /\ CursorsInRange'
  BY <1>6 DEF PlanRejected
<1>7. ASSUME NEW u \in Uploads, Move(u) \/ Rename(u) PROVE TypeOK' /\ CursorsInRange'
  <2>1. next[u] \in 1..Size[u]
    BY <1>7 DEF Move, Rename
  <2>2. PcTyping'
    <3>1. \/ Goto(u, "undo", 1) \/ Goto(u, "save", 1) \/ Goto(u, "rename", next[u])
          \/ next[u] # Size[u] /\ Goto(u, "move", next[u] + 1)
      BY <1>7 DEF Move, Rename, MoveFailed
    <3>2. CASE next[u] # Size[u] /\ Goto(u, "move", next[u] + 1)
      <4>1. next[u] + 1 \in 1..Size[u] + 1 /\ next[u] + 1 <= Size[u]
        BY <2>1, <3>2
      <4> QED BY <3>2, <4>1, GotoTyping DEF PCs
    <3>3. CASE Goto(u, "undo", 1) \/ Goto(u, "save", 1) \/ Goto(u, "rename", next[u])
      BY <2>1, <3>3, GotoTyping DEF PCs
    <3> QED BY <3>1, <3>2, <3>3
  <2>3. disk' \in [Paths -> Files \cup {Nobody}] /\ parts' \subseteq Slots
    BY <1>7, <2>1, SlotInSlots DEF Move, Rename, MoveFailed, RemovePart, Files
  <2>4. moved' \in [Uploads -> Nat] /\ \A v \in Uploads : moved'[v] \in 0..Size[v]
    BY <1>7, <2>1 DEF Move, Rename, MoveFailed
  <2>5. faults' \in 0..MaxFaults
    BY <1>7, FaultTyping DEF Move, Rename
  <2>6. UNCHANGED <<server, todo, lock, journal, stage, target, rows, crashes>>
    BY <1>7 DEF Move, Rename
  <2> QED BY <2>2, <2>3, <2>4, <2>5, <2>6 DEF PcTyping
<1>8. ASSUME NEW u \in Uploads, Save(u) PROVE TypeOK' /\ CursorsInRange'
  <2>1. PcTyping'
    BY <1>8, GotoTyping DEF Save
  <2>2. rows' \in [Paths -> Files \cup {Nobody}]
    BY <1>8, SlotsOfSubset DEF Save, SaveTx, Files, Claimed
  <2>3. journal' \in [Uploads -> JournalStates] /\ faults' \in 0..MaxFaults
    BY <1>8, JournalTyping, FaultTyping DEF Save, SaveTx, JournalStates
  <2> QED BY <1>8, <2>1, <2>2, <2>3 DEF Save, PcTyping
<1>9. ASSUME NEW u \in Uploads, Judge(u) PROVE TypeOK' /\ CursorsInRange'
  BY <1>9 DEF Judge, Release
<1>10. ASSUME NEW u \in Uploads, Undo(u) PROVE TypeOK' /\ CursorsInRange'
  BY <1>10 DEF Undo, RemovePaths
<1>11. ASSUME NEW u \in Uploads, Fail(u) PROVE TypeOK' /\ CursorsInRange'
  BY <1>11, JournalTyping DEF Fail, Release, JournalStates
<1>12. ASSUME NEW u \in Uploads, Complete(u) PROVE TypeOK' /\ CursorsInRange'
  <2>1. PcTyping'
    BY <1>12, GotoTyping DEF Complete
  <2>2. journal' \in [Uploads -> JournalStates] /\ faults' \in 0..MaxFaults
    BY <1>12, JournalTyping, FaultTyping DEF Complete, JournalStates
  <2> QED BY <1>12, <2>1, <2>2 DEF Complete, Release, PcTyping
<1>13. ASSUME NEW u \in Uploads, Settle(u) PROVE TypeOK' /\ CursorsInRange'
  BY <1>13, JournalTyping DEF Settle, JournalStates
<1>14. ASSUME NEW u \in Uploads, Discard(u) PROVE TypeOK' /\ CursorsInRange'
  <2>1. stage' \in [Slots -> JournalStates]
    BY <1>14, JournalTyping DEF Discard, JournalStates
  <2>2. parts' \subseteq Slots /\ faults' \in 0..MaxFaults
    BY <1>14 DEF Discard, RemovePart
  <2>3. PcTyping'
    <3>1. CASE Last(u)
      BY <1>14, <3>1, GotoTyping DEF Discard
    <3>2. CASE ~Last(u)
      <4>1. next[u] + 1 \in 1..Size[u] + 1 /\ next[u] + 1 <= Size[u]
        BY <1>14, <3>2 DEF Discard
      <4>2. Goto(u, "discard", next[u] + 1)
        BY <1>14, <3>2 DEF Discard
      <4> HIDE DEF TypeOK, CursorsInRange, Goto
      <4> QED BY <4>1, <4>2, GotoTyping
    <3> QED BY <3>1, <3>2
  <2> QED BY <1>14, <2>1, <2>2, <2>3 DEF Discard, PcTyping
<1>15. ASSUME NEW u \in Uploads, Abandon(u) PROVE TypeOK' /\ CursorsInRange'
  BY <1>15 DEF Abandon, Release
<1>16. ASSUME NEW p \in Paths, UserCopy(p) PROVE TypeOK' /\ CursorsInRange'
  BY <1>16 DEF UserCopy, Files
<1>17. ASSUME NEW p \in Paths, ScanImport(p) PROVE TypeOK' /\ CursorsInRange'
  BY <1>17 DEF ScanImport
<1>18. ASSUME NEW p \in Paths, DeleteIndexed(p) PROVE TypeOK' /\ CursorsInRange'
  BY <1>18 DEF DeleteIndexed
<1>19. CASE Crash
  BY <1>19 DEF Crash
<1>20. CASE Start
  BY <1>20 DEF Start, PendingOps
<1>21. CASE Ready
  BY <1>21 DEF Ready
<1>22. ASSUME NEW u \in Uploads, RecoverPrepared(u) PROVE TypeOK' /\ CursorsInRange'
  BY <1>22, JournalTyping DEF RecoverPrepared, Resolved, Unresolved, RemovePaths, JournalStates
<1>23. ASSUME NEW u \in Uploads, RecoverCommitted(u) PROVE TypeOK' /\ CursorsInRange'
  BY <1>23, JournalTyping DEF RecoverCommitted, Resolved, Unresolved, JournalStates
<1>24. ASSUME NEW s \in Slots, RecoverStaging(s) PROVE TypeOK' /\ CursorsInRange'
  BY <1>24, JournalTyping DEF RecoverStaging, RemovePart, JournalStates
<1>25. CASE UNCHANGED vars
  BY <1>25 DEF vars
<1> QED
  BY <1>1, <1>2, <1>3, <1>4, <1>5, <1>6, <1>7, <1>8, <1>9, <1>10, <1>11, <1>12, <1>13,
     <1>14, <1>15, <1>16, <1>17, <1>18, <1>19, <1>20, <1>21, <1>22, <1>23, <1>24, <1>25
  DEF Next, Handler, Recovery, Others

(* Type correctness of the upload specification. *)
THEOREM UploadTyping == Spec => [](TypeOK /\ CursorsInRange)
<1>1. Init => TypeOK /\ CursorsInRange
  BY TypingInit
<1>2. TypeOK /\ CursorsInRange /\ [Next]_vars => (TypeOK /\ CursorsInRange)'
  BY TypingStep
<1> QED
  BY <1>1, <1>2, PTL DEF Spec

-----------------------------------------------------------------------------
(* The inductive invariant behind IndexedFilesIntact. *)

(* Whoever is between Plan and Release holds the root lock, and nobody      *)
(* survives the death of the server.                                        *)
LockDiscipline ==
    /\ \A u \in Uploads : pc[u] \in LockedPCs => lock = u
    /\ server # "up" => lock = Nobody /\ \A u \in Uploads : pc[u] \in {"idle", "gone"}

(* The handlers whose files may have to be removed again. *)
Revocable(u) ==
    pc[u] \in {"move", "rename", "undo", "save"} \/ (pc[u] = "judge" /\ journal[u] = "prepared")

(* Their paths were chosen unindexed, and the lock keeps them so. *)
TargetsReserved ==
    \A u \in Uploads : Revocable(u) =>
        /\ journal[u] = "prepared"
        /\ \A s \in SlotsOf(u) : target[s] \in Paths /\ rows[target[s]] = Nobody

(* The files moved so far lie where the payload says, and only a user can    *)
(* have put something where the next one is about to be renamed.             *)
Placed ==
    \A u \in Uploads :
        /\ \A i \in 1..Size[u] :
             pc[u] = "save" \/ (pc[u] \in {"move", "rename"} /\ i < next[u])
               => disk[target[<<u, i>>]] = <<u, i>>
        /\ pc[u] = "rename" => disk[target[Slot(u)]] \in Foreign \cup {Nobody}

SafeInv == LockDiscipline /\ TargetsReserved /\ Placed /\ IndexedFilesIntact

LEMMA SafeInit == ASSUME Init PROVE SafeInv
BY DEF Init, SafeInv, LockDiscipline, TargetsReserved, Placed, IndexedFilesIntact,
       Revocable, LockedPCs, Indexed

(* A handler that goes to, or stays at, a step outside the critical section *)
(* without touching files, rows or anybody else leaves everything in order. *)
LEMMA OutsideStep ==
    ASSUME TypeOK, SafeInv, NEW u \in Uploads, NEW label \in PCs \ LockedPCs, NEW k,
           server = "up", server' = server, Goto(u, label, k), Release(u) \/ UNCHANGED lock,
           pc[u] \notin LockedPCs \/ Release(u),
           \A v \in Uploads \ {u} : journal'[v] = journal[v],
           UNCHANGED <<target, disk, rows>>
    PROVE  SafeInv'
<1>1. \A v \in Uploads \ {u} : pc'[v] = pc[v] /\ next'[v] = next[v]
  BY DEF TypeOK, Goto
<1>2. pc'[u] \notin LockedPCs
  BY DEF TypeOK, Goto
<1>3. LockDiscipline'
  BY <1>1, <1>2, UploadsAssumption DEF SafeInv, LockDiscipline, Release
<1>4. TargetsReserved'
  BY <1>1, <1>2 DEF SafeInv, TargetsReserved, Revocable, LockedPCs
<1>5. Placed'
  <2>1. ASSUME NEW v \in Uploads, NEW i \in 1..Size[v],
               pc'[v] = "save" \/ (pc'[v] \in {"move", "rename"} /\ i < next'[v])
        PROVE  disk[target[<<v, i>>]] = <<v, i>>
    <3>1. v # u
      BY <1>2, <2>1 DEF LockedPCs
    <3> QED BY <1>1, <2>1, <3>1 DEF SafeInv, Placed
  <2>2. ASSUME NEW v \in Uploads, pc'[v] = "rename"
        PROVE  disk[target[<<v, next'[v]>>]] \in Foreign \cup {Nobody}
    <3>1. v # u
      BY <1>2, <2>2 DEF LockedPCs
    <3> QED BY <1>1, <2>2, <3>1 DEF SafeInv, Placed, Slot
  <2> QED BY <2>1, <2>2 DEF Placed, Slot
<1>6. IndexedFilesIntact'
  BY DEF SafeInv, IndexedFilesIntact, Indexed
<1> QED BY <1>3, <1>4, <1>5, <1>6 DEF SafeInv

(* Steps of recovery, scans and deletions run while no handler is inside. *)
LEMMA NobodyInside ==
    ASSUME SafeInv, \A v \in Uploads : pc'[v] \notin LockedPCs
    PROVE  TargetsReserved' /\ Placed'
BY DEF TargetsReserved, Placed, Revocable, LockedPCs

LEMMA LockFree ==
    ASSUME SafeInv, lock = Nobody \/ server # "up"
    PROVE  \A v \in Uploads : pc[v] \notin LockedPCs
BY UploadsAssumption DEF SafeInv, LockDiscipline, LockedPCs

(* The handler that holds the lock is the only one inside. *)
LEMMA OnlyHolderInside ==
    ASSUME SafeInv, NEW u \in Uploads, lock = u
    PROVE  \A v \in Uploads \ {u} : pc[v] \notin LockedPCs
BY DEF SafeInv, LockDiscipline

LEMMA RemovedClaimed ==
    ASSUME NEW u \in Uploads, NEW k \in 1..Size[u]
    PROVE  RemovedBefore(u, k) \subseteq Claimed(u)
<1>1. \A i \in 1..k - 1 : i \in 1..Size[u]
  BY UploadsAssumption
<1>2. \A i \in 1..k - 1 : <<u, i>> \in SlotsOf(u)
  BY <1>1, SlotInSlots
<1> QED BY <1>2 DEF RemovedBefore, Claimed

LEMMA SafeStep ==
    ASSUME TypeOK, CursorsInRange, SafeInv, [Next]_vars
    PROVE  SafeInv'
<1>1. ASSUME NEW u \in Uploads, Arrive(u) PROVE SafeInv'
  <2>1. Goto(u, "stage", 1) /\ pc[u] = "idle"
    BY <1>1 DEF Arrive, At
  <2> QED BY <1>1, <2>1, OutsideStep DEF Arrive, At, PCs, LockedPCs
<1>2. ASSUME NEW u \in Uploads, StageJournal(u) PROVE SafeInv'
  <2>1. \E label \in {"stage", "write", "discard"} : \E k \in {1, next[u], next[u] + 1} :
          Goto(u, label, k)
    BY <1>2 DEF StageJournal
  <2> QED BY <1>2, <2>1, OutsideStep DEF StageJournal, At, PCs, LockedPCs
<1>3. ASSUME NEW u \in Uploads, WritePart(u) PROVE SafeInv'
  <2>1. Goto(u, "stage", next[u] + 1) \/ Goto(u, "discard", 1)
    BY <1>3 DEF WritePart
  <2> QED BY <1>3, <2>1, OutsideStep DEF WritePart, At, PCs, LockedPCs
<1>4. ASSUME NEW u \in Uploads, StagingDone(u) PROVE SafeInv'
  BY <1>4, OutsideStep DEF StagingDone, At, PCs, LockedPCs
<1>5. ASSUME NEW u \in Uploads, Plan(u) PROVE SafeInv'
  <2>1. \A v \in Uploads : pc[v] \notin LockedPCs
    BY <1>5, LockFree DEF Plan
  <2>2. pc' = [pc EXCEPT ![u] = "move"] /\ next'[u] = 1 /\ lock' = u /\ server' = "up"
    BY <1>5 DEF Plan, Goto, TypeOK, At
  <2>3. pc'[u] = "move" /\ \A v \in Uploads \ {u} : pc'[v] \notin LockedPCs
    BY <2>1, <2>2 DEF TypeOK
  <2>4. LockDiscipline'
    BY <2>2, <2>3, UploadsAssumption DEF LockDiscipline
  <2>5. TargetsReserved'
    <3>1. PICK place \in [1..Size[u] -> {p \in Paths : Free(p)}] :
            target' = [s \in Slots |-> IF s[1] = u THEN place[s[2]] ELSE target[s]]
      BY <1>5 DEF Plan
    <3>2. \A s \in SlotsOf(u) : target'[s] \in Paths /\ rows[target'[s]] = Nobody
      BY <3>1, SlotsOfSubset DEF SlotsOf, Free, Indexed
    <3>3. rows' = rows /\ journal'[u] = "prepared"
      BY <1>5 DEF Plan, CreateRow, TypeOK
    <3> QED BY <2>3, <3>2, <3>3 DEF TargetsReserved, Revocable, LockedPCs
  <2>6. Placed'
    BY <2>2, <2>3 DEF Placed, LockedPCs
  <2>7. IndexedFilesIntact'
    BY <1>5 DEF Plan, SafeInv, IndexedFilesIntact, Indexed
  <2> QED BY <2>4, <2>5, <2>6, <2>7 DEF SafeInv
<1>6. ASSUME NEW u \in Uploads, PlanRejected(u) PROVE SafeInv'
  BY <1>6, OutsideStep DEF PlanRejected, At, PCs, LockedPCs
<1>7. ASSUME NEW u \in Uploads, Move(u) \/ Rename(u) PROVE SafeInv'
  <2> DEFINE s == Slot(u)
             p == target[s]
  <2>1. lock = u /\ lock' = u /\ pc[u] \in {"move", "rename"} /\ server = "up" /\ server' = "up"
    BY <1>7 DEF Move, Rename, At, SafeInv, LockDiscipline, LockedPCs
  <2>2. next[u] \in 1..Size[u] /\ s \in SlotsOf(u) /\ s \in Slots
    BY <2>1, SlotInSlots, UploadsAssumption DEF TypeOK, CursorsInRange, Slot
  <2>3. \A v \in Uploads \ {u} : pc'[v] \notin LockedPCs
    BY <1>7, <2>1, OnlyHolderInside DEF Move, Rename, MoveFailed, Goto, TypeOK
  <2>4. pc'[u] \in {"move", "rename", "save", "undo"}
    BY <1>7 DEF Move, Rename, MoveFailed, Goto, TypeOK
  <2>5. LockDiscipline'
    BY <2>1, <2>3 DEF LockDiscipline
  <2>6. UNCHANGED <<target, rows, journal>>
    BY <1>7 DEF Move, Rename
  <2>7. TargetsReserved'
    BY <2>1, <2>3, <2>4, <2>6 DEF SafeInv, TargetsReserved, Revocable, LockedPCs
  <2>8. p \in Paths /\ rows[p] = Nobody
    BY <2>1, <2>2 DEF SafeInv, TargetsReserved, Revocable
  <2>9. ASSUME NEW i \in 1..Size[u], i < next[u]
        PROVE  /\ disk[target[<<u, i>>]] = <<u, i>>
               /\ <<u, i>> \in Slots /\ <<u, i>> # Nobody
               /\ target[<<u, i>>] \in Paths
    BY <2>1, <2>9, SlotInSlots, UploadsAssumption
    DEF SafeInv, Placed, TargetsReserved, Revocable
  <2>10. CASE MoveFailed(u)
    <3>1. Placed'
      BY <2>3, <2>10 DEF MoveFailed, Placed, LockedPCs, Goto, TypeOK
    <3>2. IndexedFilesIntact'
      BY <2>6, <2>10 DEF MoveFailed, SafeInv, IndexedFilesIntact, Indexed
    <3> QED BY <2>5, <2>7, <3>1, <3>2 DEF SafeInv
  <2>11. CASE ~OnDisk(p) /\ Goto(u, "rename", next[u]) /\ disk' = disk
    <3>1. pc'[u] = "rename" /\ next'[u] = next[u]
      BY <2>11 DEF Goto, TypeOK
    <3>3. Placed'
      BY <2>3, <2>6, <2>9, <2>11, <3>1 DEF Placed, LockedPCs, Slot, OnDisk
    <3>4. IndexedFilesIntact'
      BY <2>6, <2>11 DEF SafeInv, IndexedFilesIntact, Indexed
    <3> QED BY <2>5, <2>7, <3>3, <3>4 DEF SafeInv
  <2>12. CASE /\ pc[u] = "rename" /\ disk' = [disk EXCEPT ![p] = s]
              /\ IF Last(u) THEN Goto(u, "save", 1) ELSE Goto(u, "move", next[u] + 1)
    <3>1. Placed'
      <4>1. \A i \in 1..next[u] : disk'[target[<<u, i>>]] = <<u, i>>
        <5> TAKE i \in 1..next[u]
        <5>1. CASE i = next[u]
          BY <2>8, <2>12, <5>1 DEF Slot, TypeOK
        <5>2. CASE i # next[u]
          <6> i \in 1..Size[u] /\ i < next[u]
            BY <2>2, <5>2, UploadsAssumption
          <6>1. target[<<u, i>>] # p
            BY <2>9, <2>12, SlotInSlots, UploadsAssumption DEF SafeInv, Placed
          <6> QED BY <2>9, <2>12, <6>1 DEF TypeOK
        <5> QED BY <5>1, <5>2
      <4>2. pc'[u] = "save" => next[u] = Size[u]
        BY <2>12 DEF Goto, Last, TypeOK
      <4>3. pc'[u] # "save" => pc'[u] = "move" /\ next'[u] = next[u] + 1
        BY <2>12 DEF Goto, Last, TypeOK
      <4> QED BY <2>2, <2>3, <2>6, <4>1, <4>2, <4>3, UploadsAssumption DEF Placed, LockedPCs
    <3>2. IndexedFilesIntact'
      BY <2>6, <2>8, <2>12 DEF SafeInv, IndexedFilesIntact, Indexed, TypeOK
    <3> QED BY <2>5, <2>7, <3>1, <3>2 DEF SafeInv
  <2> QED BY <1>7, <2>10, <2>11, <2>12 DEF Move, Rename, Accepts, At
<1>8. ASSUME NEW u \in Uploads, Save(u) PROVE SafeInv'
  <2>1. lock = u /\ lock' = u /\ pc[u] = "save" /\ server = "up" /\ server' = "up"
    BY <1>8 DEF Save, At, SafeInv, LockDiscipline, LockedPCs
  <2>2. \A v \in Uploads \ {u} : pc'[v] \notin LockedPCs
    BY <1>8, <2>1, OnlyHolderInside DEF Save, Goto, TypeOK
  <2>3. pc'[u] \in {"complete", "judge"}
    BY <1>8 DEF Save, Goto, TypeOK
  <2>4. LockDiscipline'
    BY <2>1, <2>2 DEF LockDiscipline
  <2>5. Placed'
    BY <2>2, <2>3 DEF Placed, LockedPCs
  <2>6. CASE SaveTx(u)
    <3>1. TargetsReserved'
      <4>1. journal'[u] = "db_committed"
        BY <2>6 DEF SaveTx, SetStateTx, TypeOK
      <4> QED BY <2>2, <2>3, <4>1 DEF TargetsReserved, Revocable, LockedPCs
    <3>2. \A s \in SlotsOf(u) : disk[target[s]] = s
      BY <2>1 DEF SafeInv, Placed, SlotsOf
    <3>3. \A p \in Paths : rows'[p] # Nobody => disk[p] = rows'[p]
      BY <2>6, <3>2 DEF SaveTx, Claimed, SafeInv, IndexedFilesIntact, Indexed
    <3> QED BY <1>8, <2>4, <2>5, <3>1, <3>3 DEF SafeInv, IndexedFilesIntact, Indexed, Save
  <2>7. CASE UNCHANGED <<rows, journal>>
    <3>1. TargetsReserved'
      BY <1>8, <2>1, <2>2, <2>7 DEF Save, SafeInv, TargetsReserved, Revocable, LockedPCs
    <3> QED BY <1>8, <2>4, <2>5, <2>7, <3>1 DEF SafeInv, IndexedFilesIntact, Indexed, Save
  <2> QED BY <1>8, <2>6, <2>7 DEF Save
<1>9. ASSUME NEW u \in Uploads, Judge(u) PROVE SafeInv'
  <2>1. lock = u /\ pc[u] = "judge" /\ server = "up" /\ server' = "up"
    BY <1>9 DEF Judge, At, SafeInv, LockDiscipline, LockedPCs
  <2>2. CASE journal[u] = "prepared" /\ Goto(u, "undo", 1) /\ UNCHANGED lock
    <3>1. pc'[u] = "undo" /\ \A v \in Uploads \ {u} : pc'[v] \notin LockedPCs
      BY <2>1, <2>2, OnlyHolderInside DEF Goto, TypeOK
    <3>2. LockDiscipline'
      BY <2>1, <2>2, <3>1 DEF LockDiscipline
    <3>3. TargetsReserved'
      BY <1>9, <2>1, <2>2, <3>1 DEF Judge, SafeInv, TargetsReserved, Revocable, LockedPCs
    <3>4. Placed'
      BY <3>1 DEF Placed, LockedPCs
    <3> QED BY <1>9, <3>2, <3>3, <3>4 DEF Judge, SafeInv, IndexedFilesIntact, Indexed
  <2>3. CASE Goto(u, "discard", 1) /\ Release(u)
    BY <1>9, <2>1, <2>3, OutsideStep DEF Judge, PCs, LockedPCs
  <2> QED BY <1>9, <2>2, <2>3 DEF Judge, NotCommitted
<1>10. ASSUME NEW u \in Uploads, Undo(u) PROVE SafeInv'
  <2>1. lock = u /\ lock' = u /\ pc[u] = "undo" /\ server = "up" /\ server' = "up"
    BY <1>10 DEF Undo, At, SafeInv, LockDiscipline, LockedPCs
  <2>2. pc'[u] = "undo" /\ \A v \in Uploads \ {u} : pc'[v] \notin LockedPCs
    BY <1>10, <2>1, OnlyHolderInside DEF Undo, Goto, TypeOK
  <2>3. LockDiscipline'
    BY <2>1, <2>2 DEF LockDiscipline
  <2>4. TargetsReserved'
    BY <1>10, <2>1, <2>2 DEF Undo, SafeInv, TargetsReserved, Revocable, LockedPCs
  <2>5. Placed'
    BY <2>2 DEF Placed, LockedPCs
  <2>6. rows[target[Slot(u)]] = Nobody
    <3>1. Slot(u) \in SlotsOf(u)
      BY <1>10, SlotInSlots, UploadsAssumption DEF Undo, Slot, TypeOK
    <3> QED BY <2>1, <3>1 DEF SafeInv, TargetsReserved, Revocable
  <2>7. IndexedFilesIntact'
    BY <1>10, <2>6 DEF Undo, RemovePaths, SafeInv, IndexedFilesIntact, Indexed
  <2> QED BY <2>3, <2>4, <2>5, <2>7 DEF SafeInv
<1>11. ASSUME NEW u \in Uploads, Fail(u) PROVE SafeInv'
  <2>1. \A v \in Uploads \ {u} : journal'[v] = journal[v]
    BY <1>11 DEF Fail, SetState, TypeOK
  <2> QED BY <1>11, <2>1, OutsideStep DEF Fail, At, PCs, LockedPCs
<1>12. ASSUME NEW u \in Uploads, Complete(u) PROVE SafeInv'
  <2>1. \A v \in Uploads \ {u} : journal'[v] = journal[v]
    BY <1>12 DEF Complete, SetState, TypeOK
  <2>2. Goto(u, "settle", 1) \/ Goto(u, "discard", 1)
    BY <1>12 DEF Complete
  <2> QED BY <1>12, <2>1, <2>2, OutsideStep DEF Complete, At, PCs, LockedPCs
<1>13. ASSUME NEW u \in Uploads, Settle(u) PROVE SafeInv'
  <2>1. Goto(u, "gone", 1) \/ Goto(u, "settle", next[u] + 1)
    BY <1>13 DEF Settle
  <2> QED BY <1>13, <2>1, OutsideStep DEF Settle, At, PCs, LockedPCs
<1>14. ASSUME NEW u \in Uploads, Discard(u) PROVE SafeInv'
  <2>1. Goto(u, "gone", 1) \/ Goto(u, "discard", next[u] + 1)
    BY <1>14 DEF Discard
  <2> QED BY <1>14, <2>1, OutsideStep DEF Discard, At, PCs, LockedPCs
<1>15. ASSUME NEW u \in Uploads, Abandon(u) PROVE SafeInv'
  BY <1>15, OutsideStep DEF Abandon, PCs, LockedPCs
<1>16. ASSUME NEW p \in Paths, UserCopy(p) PROVE SafeInv'
  <2>1. ~OnDisk(p) /\ \A q \in Paths \ {p} : disk'[q] = disk[q]
    BY <1>16 DEF UserCopy, TypeOK
  <2>2. LockDiscipline' /\ TargetsReserved'
    BY <1>16 DEF UserCopy, SafeInv, LockDiscipline, TargetsReserved, Revocable
  <2>3. Placed'
    <3>1. ASSUME NEW u \in Uploads, NEW i \in 1..Size[u],
                 pc[u] = "save" \/ (pc[u] \in {"move", "rename"} /\ i < next[u])
          PROVE  disk'[target[<<u, i>>]] = <<u, i>>
      <4>1. disk[target[<<u, i>>]] = <<u, i>> /\ target[<<u, i>>] \in Paths /\ <<u, i>> \in Slots
        BY <3>1, SlotInSlots DEF SafeInv, Placed, TargetsReserved, Revocable
      <4>2. target[<<u, i>>] # p
        BY <2>1, <4>1, UploadsAssumption DEF OnDisk
      <4> QED BY <2>1, <4>1, <4>2
    <3>2. UNCHANGED <<pc, next, target>> /\ \E f \in Foreign : disk' = [disk EXCEPT ![p] = f]
      BY <1>16 DEF UserCopy
    <3>3. ASSUME NEW u \in Uploads, pc[u] = "rename"
          PROVE  disk'[target[Slot(u)]] \in Foreign \cup {Nobody}
      BY <3>2, <3>3 DEF SafeInv, Placed, TypeOK
    <3> QED BY <3>1, <3>2, <3>3 DEF Placed, Slot
  <2>4. IndexedFilesIntact'
    BY <1>16, <2>1 DEF UserCopy, SafeInv, IndexedFilesIntact, Indexed, OnDisk
  <2> QED BY <2>2, <2>3, <2>4 DEF SafeInv
<1>17. ASSUME NEW p \in Paths, ScanImport(p) PROVE SafeInv'
  <2>1. TargetsReserved' /\ Placed'
    BY <1>17, LockFree, NobodyInside DEF ScanImport
  <2>2. LockDiscipline'
    BY <1>17 DEF ScanImport, SafeInv, LockDiscipline
  <2>3. IndexedFilesIntact'
    BY <1>17 DEF ScanImport, SafeInv, IndexedFilesIntact, Indexed, TypeOK
  <2> QED BY <2>1, <2>2, <2>3 DEF SafeInv
<1>18. ASSUME NEW p \in Paths, DeleteIndexed(p) PROVE SafeInv'
  <2>1. TargetsReserved' /\ Placed'
    BY <1>18, LockFree, NobodyInside DEF DeleteIndexed
  <2>2. LockDiscipline'
    BY <1>18 DEF DeleteIndexed, SafeInv, LockDiscipline
  <2>3. IndexedFilesIntact'
    BY <1>18 DEF DeleteIndexed, SafeInv, IndexedFilesIntact, Indexed, TypeOK
  <2> QED BY <2>1, <2>2, <2>3 DEF SafeInv
<1>19. CASE Crash
  <2>1. \A v \in Uploads : pc'[v] \in {"idle", "gone"}
    BY <1>19 DEF Crash
  <2>2. TargetsReserved' /\ Placed'
    BY <2>1, NobodyInside DEF LockedPCs
  <2>3. LockDiscipline'
    BY <1>19, <2>1 DEF Crash, LockDiscipline, LockedPCs
  <2> QED BY <1>19, <2>2, <2>3 DEF Crash, SafeInv, IndexedFilesIntact, Indexed
<1>20. CASE Start \/ Ready
  <2>1. server # "up" /\ UNCHANGED <<pc, lock, disk, rows>>
    BY <1>20 DEF Start, Ready
  <2>2. TargetsReserved' /\ Placed'
    BY <2>1, LockFree, NobodyInside
  <2>3. LockDiscipline'
    BY <2>1, LockFree DEF SafeInv, LockDiscipline
  <2> QED BY <2>1, <2>2, <2>3 DEF SafeInv, IndexedFilesIntact, Indexed
<1>21. ASSUME server = "recovering", server' \in {"recovering", "down"}, UNCHANGED <<pc, lock, rows>>,
              \A p \in Paths : disk'[p] = disk[p] \/ rows[p] = Nobody
       PROVE  SafeInv'
  <2>1. TargetsReserved' /\ Placed'
    BY <1>21, LockFree, NobodyInside
  <2>2. LockDiscipline'
    BY <1>21 DEF SafeInv, LockDiscipline
  <2> QED BY <1>21, <2>1, <2>2 DEF SafeInv, IndexedFilesIntact, Indexed
<1>22. ASSUME NEW u \in Uploads, RecoverPrepared(u) PROVE SafeInv'
  <2>1. server' \in {"recovering", "down"}
    BY <1>22 DEF RecoverPrepared, Resolved, Unresolved
  <2>2. \A p \in Paths : disk'[p] = disk[p] \/ rows[p] = Nobody
    <3>1. CASE disk' = disk
      BY <3>1
    <3>2. CASE {p \in Claimed(u) : Indexed(p)} = {} /\ disk' = RemovePaths(Claimed(u))
      BY <3>2 DEF RemovePaths, Indexed
    <3>3. CASE /\ {p \in Claimed(u) : Indexed(p)} = {}
               /\ \E k \in 1..Size[u] : disk' = RemovePaths(RemovedBefore(u, k))
      <4>1. \A k \in 1..Size[u] : RemovedBefore(u, k) \subseteq Claimed(u)
        BY RemovedClaimed
      <4>2. PICK k \in 1..Size[u] : disk' = RemovePaths(RemovedBefore(u, k))
        BY <3>3
      <4>3. \A p \in RemovedBefore(u, k) : p \in Paths => rows[p] = Nobody
        BY <3>3, <4>1 DEF Indexed
      <4> QED BY <4>2, <4>3 DEF RemovePaths
    <3> QED BY <1>22, <3>1, <3>2, <3>3 DEF RecoverPrepared, RolledBack
  <2> QED BY <1>21, <1>22, <2>1, <2>2 DEF RecoverPrepared
<1>23. ASSUME NEW u \in Uploads, RecoverCommitted(u) PROVE SafeInv'
  <2>1. server' \in {"recovering", "down"}
    BY <1>23 DEF RecoverCommitted, Resolved, Unresolved
  <2> QED BY <1>21, <1>23, <2>1 DEF RecoverCommitted
<1>24. ASSUME NEW s \in Slots, RecoverStaging(s) PROVE SafeInv'
  BY <1>21, <1>24 DEF RecoverStaging
<1>25. CASE UNCHANGED vars
  BY <1>25 DEF vars, SafeInv, LockDiscipline, TargetsReserved, Placed, IndexedFilesIntact,
               Revocable, Indexed, Slot
<1> QED
  BY <1>1, <1>2, <1>3, <1>4, <1>5, <1>6, <1>7, <1>8, <1>9, <1>10, <1>11, <1>12, <1>13,
     <1>14, <1>15, <1>16, <1>17, <1>18, <1>19, <1>20, <1>22, <1>23, <1>24, <1>25
  DEF Next, Handler, Recovery, Others

(* Whatever fails, crashes or races, an indexed path holds the file its row *)
(* was made for.                                                            *)
THEOREM UploadKeepsIndexedFiles == Spec => []IndexedFilesIntact
<1>1. Init => SafeInv
  BY SafeInit
<1>2. TypeOK /\ CursorsInRange /\ SafeInv /\ [Next]_vars => SafeInv'
  BY SafeStep
<1>3. SafeInv => IndexedFilesIntact
  BY DEF SafeInv
<1> QED
  BY <1>1, <1>2, <1>3, UploadTyping, PTL DEF Spec

LEMMA RemovalStep ==
    ASSUME TypeOK, CursorsInRange, SafeInv, [Next]_vars
    PROVE  [ClaimedRemoval]_vars
<1>1. CASE disk' = disk
  BY <1>1 DEF ClaimedRemoval
<1>2. ASSUME NEW u \in Uploads, Rename(u), disk' # disk PROVE ClaimedRemoval
  <2>1. disk' = [disk EXCEPT ![target[Slot(u)]] = Slot(u)] /\ rows' = rows
    BY <1>2 DEF Rename, MoveFailed
  <2>2. pc[u] = "rename" /\ Slot(u) \in SlotsOf(u)
    BY <1>2, SlotInSlots, UploadsAssumption DEF Rename, At, Slot, TypeOK, CursorsInRange
  <2>3. /\ journal[u] \in Undecided /\ target[Slot(u)] \in Claimed(u)
        /\ rows[target[Slot(u)]] = Nobody
        /\ disk[target[Slot(u)]] \in Foreign \cup {Nobody}
    BY <2>2 DEF SafeInv, TargetsReserved, Placed, Revocable, Undecided, Claimed
  <2> QED BY <2>1, <2>3 DEF ClaimedRemoval, TypeOK
<1>3. ASSUME NEW u \in Uploads, Undo(u), disk' # disk PROVE ClaimedRemoval
  <2>1. disk' = RemovePaths({target[Slot(u)]}) /\ rows' = rows
    BY <1>3 DEF Undo
  <2>2. pc[u] = "undo" /\ Slot(u) \in SlotsOf(u)
    BY <1>3, SlotInSlots, UploadsAssumption DEF Undo, At, Slot, TypeOK
  <2>3. journal[u] \in Undecided /\ target[Slot(u)] \in Claimed(u) /\ rows[target[Slot(u)]] = Nobody
    BY <2>2 DEF SafeInv, TargetsReserved, Revocable, Undecided, Claimed
  <2> QED BY <2>1, <2>3 DEF ClaimedRemoval, RemovePaths
<1>4. ASSUME NEW p \in Paths, UserCopy(p) PROVE ClaimedRemoval
  BY <1>4 DEF UserCopy, ClaimedRemoval, OnDisk, TypeOK
<1>5. ASSUME NEW p \in Paths, DeleteIndexed(p) PROVE ClaimedRemoval
  BY <1>5 DEF DeleteIndexed, ClaimedRemoval, TypeOK
<1>6. ASSUME NEW u \in Uploads, RecoverPrepared(u), disk' # disk PROVE ClaimedRemoval
  <2>1. journal[u] \in Undecided /\ rows' = rows
    BY <1>6 DEF RecoverPrepared
  <2>2. {p \in Claimed(u) : Indexed(p)} = {} /\ \E ps \in SUBSET Claimed(u) : disk' = RemovePaths(ps)
    <3>1. \A k \in 1..Size[u] : RemovedBefore(u, k) \in SUBSET Claimed(u)
      BY RemovedClaimed
    <3> QED BY <1>6, <3>1 DEF RecoverPrepared, RolledBack
  <2>3. PICK ps \in SUBSET Claimed(u) : disk' = RemovePaths(ps)
    BY <2>2
  <2>4. \A p \in Paths : disk'[p] # disk[p] => disk'[p] = Nobody /\ p \in Claimed(u) /\ rows[p] = Nobody
    BY <2>2, <2>3 DEF RemovePaths, Indexed
  <2> QED BY <2>1, <2>4 DEF ClaimedRemoval
<1>7. [Next]_vars /\ disk' # disk =>
        \/ \E u \in Uploads : Rename(u) \/ Undo(u) \/ RecoverPrepared(u)
        \/ \E p \in Paths : UserCopy(p) \/ DeleteIndexed(p)
  BY DEF Next, Handler, Recovery, Others, vars, Arrive, StageJournal, WritePart, StagingDone,
         Plan, PlanRejected, Move, MoveFailed, Save, Judge, Fail, Complete, Settle, Discard,
         Abandon, ScanImport, Start, Ready, RecoverCommitted, RecoverStaging, Crash
<1> QED BY <1>1, <1>2, <1>3, <1>4, <1>5, <1>6, <1>7

(* No undo and no recovery removes a file that anybody has indexed, and     *)
(* nothing Teatro wrote is ever overwritten.                                *)
THEOREM UploadRemovalsStayClaimed == Spec => RemovalsStayClaimed
<1>1. TypeOK /\ CursorsInRange /\ SafeInv /\ [Next]_vars => [ClaimedRemoval]_vars
  BY RemovalStep
<1>2. TypeOK /\ CursorsInRange /\ SafeInv /\ [Next]_vars => SafeInv'
  BY SafeStep
<1>3. Init => SafeInv
  BY SafeInit
<1> QED
  BY <1>1, <1>2, <1>3, UploadTyping, PTL DEF Spec, RemovalsStayClaimed
-----------------------------------------------------------------------------
(* Uploads implement the abstract catalog: what readers see are the indexed *)
(* rows, and they change only by the transaction of a publication, by a     *)
(* scan and by a deletion.                                                  *)


(* The steps of a request before its transaction. *)
EarlyPCs == {"idle", "stage", "write", "lock", "move", "rename", "save"}

(* Nothing of a request is on disk before it holds the lock. *)
NothingPlacedYet ==
    \A u \in Uploads : pc[u] \in EarlyPCs \ LockedPCs =>
        \A p \in Paths : disk[p] \notin SlotsOf(u)

CatalogInv == TypeOK /\ CursorsInRange /\ SafeInv /\ NothingPlacedYet

LEMMA PublishingIsEarly == Publishing = {u \in Uploads : pc[u] \in EarlyPCs}
BY DEF Publishing, EarlyPCs

(* Under the invariant a row shows its file, before and after a step. *)
LEMMA RowsAreCatalogued ==
    /\ TypeOK /\ IndexedFilesIntact => Catalogued = rows
    /\ TypeOK' /\ IndexedFilesIntact' => Catalogued' = rows'
BY UploadsAssumption DEF TypeOK, IndexedFilesIntact, Indexed, Catalogued

LEMMA SlotsDisjoint ==
    ASSUME NEW u \in Uploads, NEW v \in Uploads, u # v
    PROVE  SlotsOf(u) \cap SlotsOf(v) = {}
BY DEF SlotsOf

-----------------------------------------------------------------------------
(* No request returns to a step before its transaction. *)
LEMMA EarlyStep ==
    ASSUME TypeOK, [Next]_vars, NEW v \in Uploads, pc'[v] \in EarlyPCs
    PROVE  /\ pc[v] \in EarlyPCs
           /\ pc'[v] \notin LockedPCs => pc[v] \notin LockedPCs
<1> USE DEF At, Goto, TypeOK, EarlyPCs, LockedPCs
<1>1. ASSUME NEW u \in Uploads, Arrive(u) \/ StageJournal(u) \/ WritePart(u) \/ StagingDone(u)
      PROVE  /\ pc[v] \in EarlyPCs
             /\ pc'[v] \notin LockedPCs => pc[v] \notin LockedPCs
  BY <1>1 DEF Arrive, StageJournal, WritePart, StagingDone
<1>2. ASSUME NEW u \in Uploads, Plan(u) \/ PlanRejected(u) \/ Move(u) \/ Rename(u) \/ Save(u)
      PROVE  /\ pc[v] \in EarlyPCs
             /\ pc'[v] \notin LockedPCs => pc[v] \notin LockedPCs
  BY <1>2 DEF Plan, PlanRejected, Move, Rename, MoveFailed, Save
<1>3. ASSUME NEW u \in Uploads,
             \/ Judge(u) \/ Undo(u) \/ Fail(u) \/ Complete(u) \/ Settle(u) \/ Discard(u)
             \/ Abandon(u)
      PROVE  pc'[v] = pc[v]
  BY <1>3 DEF Judge, Undo, Fail, Complete, Settle, Discard, Abandon
<1>4. CASE UNCHANGED pc
  BY <1>4
<1>5. CASE Crash
  BY <1>5 DEF Crash
<1>6. Recovery \/ Others \/ UNCHANGED vars => UNCHANGED pc
  BY DEF Recovery, Others, Start, Ready, RecoverPrepared, RecoverCommitted, RecoverStaging,
         UserCopy, ScanImport, DeleteIndexed, vars
<1> QED BY <1>1, <1>2, <1>3, <1>4, <1>5, <1>6 DEF Next, Handler

LEMMA PlacedLaterStep ==
    ASSUME CatalogInv, [Next]_vars
    PROVE  NothingPlacedYet'
<1> SUFFICES ASSUME NEW v \in Uploads, pc'[v] \in EarlyPCs \ LockedPCs,
                    NEW p \in Paths
             PROVE  disk'[p] \notin SlotsOf(v)
  BY DEF NothingPlacedYet
<1>1. pc[v] \in EarlyPCs \ LockedPCs /\ disk[p] \notin SlotsOf(v)
  BY EarlyStep DEF CatalogInv, NothingPlacedYet
<1>2. Nobody \notin SlotsOf(v) /\ Foreign \cap SlotsOf(v) = {}
  BY SlotsOfSubset, UploadsAssumption
<1>3. CASE disk' = disk
  BY <1>1, <1>3
<1>4. ASSUME NEW u \in Uploads, Rename(u), disk' # disk
      PROVE  disk'[p] \notin SlotsOf(v)
  <2>1. disk' = [disk EXCEPT ![target[Slot(u)]] = Slot(u)] /\ pc[u] = "rename"
    BY <1>4 DEF Rename, MoveFailed, At
  <2>2. Slot(u) \in SlotsOf(u)
    BY <2>1, SlotInSlots, UploadsAssumption DEF Slot, CatalogInv, TypeOK, CursorsInRange
  <2>3. u # v
    BY <1>1, <2>1 DEF LockedPCs
  <2>4. disk'[p] \in {disk[p], Slot(u)}
    BY <2>1 DEF CatalogInv, TypeOK
  <2> QED BY <1>1, <2>2, <2>3, <2>4, SlotsDisjoint
<1>5. ASSUME NEW u \in Uploads, Undo(u) \/ RecoverPrepared(u), disk' # disk
      PROVE  disk'[p] \notin SlotsOf(v)
  <2>1. \E ps : disk' = RemovePaths(ps)
    BY <1>5 DEF Undo, RecoverPrepared
  <2>2. disk'[p] \in {disk[p], Nobody}
    BY <2>1 DEF RemovePaths
  <2> QED BY <1>1, <1>2, <2>2
<1>6. ASSUME NEW q \in Paths, UserCopy(q) \/ DeleteIndexed(q)
      PROVE  disk'[p] \notin SlotsOf(v)
  <2>1. disk'[p] \in {disk[p], Nobody} \cup Foreign
    BY <1>6 DEF UserCopy, DeleteIndexed, CatalogInv, TypeOK
  <2> QED BY <1>1, <1>2, <2>1
<1>7. [Next]_vars /\ disk' # disk =>
        \/ \E u \in Uploads : Rename(u) \/ Undo(u) \/ RecoverPrepared(u)
        \/ \E q \in Paths : UserCopy(q) \/ DeleteIndexed(q)
  BY DEF Next, Handler, Recovery, Others, vars, Arrive, StageJournal, WritePart, StagingDone,
         Plan, PlanRejected, Move, MoveFailed, Save, Judge, Fail, Complete, Settle, Discard,
         Abandon, ScanImport, Start, Ready, RecoverCommitted, RecoverStaging, Crash
<1> QED BY <1>3, <1>4, <1>5, <1>6, <1>7

-----------------------------------------------------------------------------
(* The steps that change the rows *)

LEMMA SavePublishes ==
    ASSUME CatalogInv, CatalogInv', NEW u \in Uploads, Save(u), rows' # rows
    PROVE  Abstract!Publish(u)
<1>1. pc[u] = "save" /\ SaveTx(u) /\ pc'[u] \in {"complete", "judge"}
      /\ \A v \in Uploads \ {u} : pc'[v] = pc[v]
  BY DEF Save, At, Goto, CatalogInv, TypeOK
<1>2. u \in Publishing /\ Publishing' = Publishing \ {u}
  BY <1>1 DEF Publishing
<1>3. Catalogued = rows /\ Catalogued' = rows'
  BY RowsAreCatalogued DEF CatalogInv, SafeInv
<1>4. \A s \in SlotsOf(u) : target[s] \in Paths /\ rows[target[s]] = Nobody /\ disk[target[s]] = s
  <2>1. TargetsReserved /\ Placed /\ Revocable(u)
    BY <1>1 DEF CatalogInv, SafeInv, Revocable
  <2>2. \A s \in SlotsOf(u) : target[s] \in Paths /\ rows[target[s]] = Nobody
    BY <2>1 DEF TargetsReserved
  <2>3. \A s \in SlotsOf(u) : disk[target[s]] = s
    BY <1>1, <2>1 DEF Placed, SlotsOf
  <2> QED BY <2>2, <2>3
<1> DEFINE place == [s \in SlotsOf(u) |-> target[s]]
<1>5. place \in [SlotsOf(u) -> Paths]
  BY <1>4
<1>6. \A f, g \in SlotsOf(u) : place[f] = place[g] => f = g
  BY <1>4
<1>7. \A f \in SlotsOf(u) : Catalogued[place[f]] = Nobody
  BY <1>3, <1>4
<1>8. Catalogued' = [p \in Paths |->
         IF \E f \in SlotsOf(u) : place[f] = p
           THEN CHOOSE f \in SlotsOf(u) : place[f] = p
           ELSE Catalogued[p]]
  <2>1. rows' = [p \in Paths |->
           IF p \in Claimed(u) THEN CHOOSE s \in SlotsOf(u) : target[s] = p ELSE rows[p]]
    BY <1>1 DEF SaveTx
  <2>2. ASSUME NEW p \in Paths
        PROVE  /\ p \in Claimed(u) <=> \E f \in SlotsOf(u) : place[f] = p
               /\ p \in Claimed(u) =>
                    (CHOOSE s \in SlotsOf(u) : target[s] = p)
                      = (CHOOSE f \in SlotsOf(u) : place[f] = p)
    <3>1. p \in Claimed(u) <=> \E f \in SlotsOf(u) : place[f] = p
      BY DEF Claimed
    <3>2. ASSUME NEW s \in SlotsOf(u), target[s] = p
          PROVE  /\ (CHOOSE x \in SlotsOf(u) : target[x] = p) = s
                 /\ (CHOOSE f \in SlotsOf(u) : place[f] = p) = s
      BY <3>2, <1>4
    <3> QED BY <3>1, <3>2 DEF Claimed
  <2> QED BY <2>1, <2>2, <1>3
<1> HIDE DEF place
<1> QED BY <1>2, <1>5, <1>6, <1>7, <1>8 DEF Abstract!Publish

LEMMA ScanAdopts ==
    ASSUME CatalogInv, CatalogInv', NEW p \in Paths, ScanImport(p)
    PROVE  Abstract!Adopt(p)
<1>1. Catalogued = rows /\ Catalogued' = rows'
  BY RowsAreCatalogued DEF CatalogInv, SafeInv
<1>2. rows[p] = Nobody /\ rows' = [rows EXCEPT ![p] = disk[p]] /\ disk[p] # Nobody
  BY DEF ScanImport, Indexed, OnDisk
<1>3. Publishing' = Publishing
  BY DEF ScanImport, Publishing
<1>4. disk[p] \in Foreign \cup Slots
  BY <1>2 DEF CatalogInv, TypeOK, Files
<1>5. \A u \in Publishing : disk[p] \notin SlotsOf(u)
  <2>1. \A u \in Uploads : pc[u] \notin LockedPCs
    BY LockFree DEF ScanImport, CatalogInv
  <2> QED BY <2>1, PublishingIsEarly DEF CatalogInv, NothingPlacedYet
<1>6. disk[p] \in Abstract!Files
  BY <1>4 DEF Abstract!Files, Slots, SlotsOf
<1>7. disk[p] \notin UNION {[v \in Uploads |-> SlotsOf(v)][u] : u \in Publishing}
  BY <1>5 DEF Publishing
<1> QED BY <1>1, <1>2, <1>3, <1>6, <1>7 DEF Abstract!Adopt

LEMMA DeleteWithdraws ==
    ASSUME CatalogInv, CatalogInv', NEW p \in Paths, DeleteIndexed(p)
    PROVE  Abstract!Withdraw(p)
<1>1. Catalogued = rows /\ Catalogued' = rows'
  BY RowsAreCatalogued DEF CatalogInv, SafeInv
<1>2. rows[p] # Nobody /\ rows' = [rows EXCEPT ![p] = Nobody]
  BY DEF DeleteIndexed, Indexed
<1>3. Publishing' = Publishing
  BY DEF DeleteIndexed, Publishing
<1> QED BY <1>1, <1>2, <1>3 DEF Abstract!Withdraw

(* Every other step shows readers nothing, and can only end requests. *)
LEMMA OtherStepsClose ==
    ASSUME CatalogInv, CatalogInv', [Next]_vars, rows' = rows
    PROVE  Abstract!Close
<1>1. Catalogued' = Catalogued
  BY RowsAreCatalogued DEF CatalogInv, SafeInv
<1>2. Publishing' \subseteq Publishing
  BY EarlyStep DEF Publishing, EarlyPCs, CatalogInv
<1> QED BY <1>1, <1>2 DEF Abstract!Close

LEMMA RowsChange ==
    ASSUME [Next]_vars, rows' # rows
    PROVE  \/ \E u \in Uploads : Save(u)
           \/ \E p \in Paths : ScanImport(p) \/ DeleteIndexed(p)
BY DEF Next, Handler, Recovery, Others, vars, Arrive, StageJournal, WritePart, StagingDone,
       Plan, PlanRejected, Move, MoveFailed, Rename, Judge, Undo, Fail, Complete, Settle,
       Discard, Abandon, UserCopy, Start, Ready, RecoverPrepared, RecoverCommitted,
       RecoverStaging, Crash

LEMMA CatalogStep ==
    ASSUME CatalogInv, CatalogInv', [Next]_vars
    PROVE  [Abstract!Next]_<<Catalogued, Publishing>>
<1>1. CASE rows' = rows
  BY <1>1, OtherStepsClose DEF Abstract!Next
<1>2. CASE rows' # rows
  <2>1. ASSUME NEW u \in Uploads, Save(u) PROVE Abstract!Next
    BY <1>2, <2>1, SavePublishes DEF Abstract!Next
  <2>2. ASSUME NEW p \in Paths, ScanImport(p) \/ DeleteIndexed(p) PROVE Abstract!Next
    BY <2>2, ScanAdopts, DeleteWithdraws DEF Abstract!Next
  <2> QED BY <1>2, <2>1, <2>2, RowsChange
<1> QED BY <1>1, <1>2

LEMMA CatalogInit ==
    ASSUME Init PROVE Abstract!Init /\ CatalogInv
<1>1. CatalogInv
  BY TypingInit, SafeInit, SlotsOfSubset, UploadsAssumption
  DEF CatalogInv, NothingPlacedYet, Init
<1>2. Abstract!Init
  BY DEF Init, Abstract!Init, Catalogued, Publishing
<1> QED BY <1>1, <1>2

(* Uploads implement the abstract catalog: readers see the files of a batch *)
(* all at once or not at all, and at paths that showed nothing before.      *)
THEOREM UploadsImplementCatalog == Spec => ImplementsCatalog
<1>1. Init => Abstract!Init /\ CatalogInv
  BY CatalogInit
<1>2. CatalogInv /\ [Next]_vars => CatalogInv'
  BY TypingStep, SafeStep, PlacedLaterStep DEF CatalogInv
<1>3. CatalogInv /\ CatalogInv' /\ [Next]_vars => [Abstract!Next]_<<Catalogued, Publishing>>
  BY CatalogStep
<1> QED BY <1>1, <1>2, <1>3, PTL DEF Spec, ImplementsCatalog, Abstract!Spec
-----------------------------------------------------------------------------
(* The inductive invariant behind NothingIsStranded. *)

(* A published file lies at the path that the payload names for it. *)
AtTargets == \A p \in Paths : disk[p] \in Slots => target[disk[p]] = p

(* No row exists before the request holds the lock. *)
NoRowYet == \A u \in Uploads : pc[u] \in EarlyPCs \ LockedPCs => journal[u] = "absent"

(* What u has on disk is in the catalog. *)
Shown(u) == \A p \in Paths : disk[p] \in SlotsOf(u) => rows[p] = disk[p]

(* Once the transaction is known to have committed, everything is. *)
CommittedShown ==
    \A u \in Uploads :
        /\ journal[u] \in Committed \cup {"completed"} => Shown(u)
        /\ pc[u] = "complete" => journal[u] = "db_committed"

(* The parts that the renames have used up, and the row behind the part     *)
(* that is being written.                                                   *)
UsedUp(u, k) ==
    \/ pc[u] \in {"save", "complete", "settle"}
    \/ pc[u] \in {"move", "rename"} /\ k < next[u]

PartsFollow ==
    \A u \in Uploads :
        /\ pc[u] = "write" => stage[Slot(u)] \in Unfinished
        /\ \A k \in 1..Size[u] : UsedUp(u, k) => <<u, k>> \notin parts

PartsRecorded == faults = 0 => \A s \in parts : stage[s] \in Unfinished

StrandInv ==
    /\ CatalogInv /\ AtTargets /\ NoRowYet /\ CommittedShown
    /\ PartsFollow /\ PartsRecorded

LEMMA StrandInit == ASSUME Init PROVE StrandInv
<1>1. CatalogInv
  BY CatalogInit
<1>2. AtTargets /\ CommittedShown
  BY UploadsAssumption DEF Init, AtTargets, CommittedShown, Committed
<1>3. NoRowYet /\ PartsFollow /\ PartsRecorded
  BY DEF Init, NoRowYet, PartsFollow, PartsRecorded, UsedUp
<1> QED BY <1>1, <1>2, <1>3 DEF StrandInv

(* The disk, the payloads and the rows of the journal change by a few steps. *)
LEMMA DiskChanges ==
    ASSUME [Next]_vars, disk' # disk
    PROVE  \/ \E u \in Uploads : Rename(u) \/ Undo(u) \/ RecoverPrepared(u)
           \/ \E p \in Paths : UserCopy(p) \/ DeleteIndexed(p)
BY DEF Next, Handler, Recovery, Others, vars, Arrive, StageJournal, WritePart, StagingDone,
       Plan, PlanRejected, Move, MoveFailed, Save, Judge, Fail, Complete, Settle, Discard,
       Abandon, ScanImport, Start, Ready, RecoverCommitted, RecoverStaging, Crash

LEMMA TargetChanges ==
    ASSUME [Next]_vars, target' # target
    PROVE  \E u \in Uploads : Plan(u)
BY DEF Next, Handler, Recovery, Others, vars, Arrive, StageJournal, WritePart, StagingDone,
       PlanRejected, Move, Rename, Save, Judge, Undo, Fail, Complete, Settle, Discard,
       Abandon, ScanImport, UserCopy, DeleteIndexed, Start, Ready, RecoverPrepared,
       RecoverCommitted, RecoverStaging, Crash

LEMMA JournalChanges ==
    ASSUME TypeOK, [Next]_vars, NEW u \in Uploads, journal'[u] # journal[u]
    PROVE  \/ Plan(u) \/ Save(u) \/ Fail(u) \/ Complete(u)
           \/ RecoverPrepared(u) \/ RecoverCommitted(u)
<1>1. ASSUME NEW v \in Uploads,
             Plan(v) \/ Save(v) \/ Fail(v) \/ Complete(v) \/ RecoverPrepared(v) \/ RecoverCommitted(v)
      PROVE  v = u
  <2>1. \A w \in Uploads \ {v} : journal'[w] = journal[w]
    BY <1>1 DEF Plan, Save, SaveTx, Fail, Complete, RecoverPrepared, RecoverCommitted, Resolved,
               Unresolved, CreateRow, SetState, SetStateTx, TypeOK
  <2> QED BY <2>1
<1>2. journal' # journal
  OBVIOUS
<1>3. \E v \in Uploads :
        \/ Plan(v) \/ Save(v) \/ Fail(v) \/ Complete(v)
        \/ RecoverPrepared(v) \/ RecoverCommitted(v)
  BY <1>2 DEF Next, Handler, Recovery, Others, vars, Arrive, StageJournal, WritePart, StagingDone,
         PlanRejected, Move, Rename, Judge, Undo, Settle, Discard, Abandon, ScanImport,
         UserCopy, DeleteIndexed, Start, Ready, RecoverStaging, Crash
<1> QED BY <1>1, <1>3

(* What a step puts on disk: a file of a user, or the next file of a        *)
(* request that has not committed.                                          *)
LEMMA DiskStep ==
    ASSUME CatalogInv, [Next]_vars, NEW p \in Paths
    PROVE  \/ disk'[p] \in {disk[p], Nobody} \cup Foreign
           \/ \E u \in Uploads : /\ pc[u] = "rename" /\ disk'[p] = Slot(u)
                                 /\ p = target[Slot(u)] /\ target' = target
<1>1. ASSUME NEW u \in Uploads, Rename(u)
      PROVE  \/ disk'[p] = disk[p]
             \/ /\ pc[u] = "rename" /\ disk'[p] = Slot(u)
                /\ p = target[Slot(u)] /\ target' = target
  BY <1>1 DEF Rename, MoveFailed, At, CatalogInv, TypeOK
<1>2. ASSUME NEW u \in Uploads, Undo(u) \/ RecoverPrepared(u)
      PROVE  disk'[p] \in {disk[p], Nobody}
  <2>1. disk' = disk \/ \E ps : disk' = RemovePaths(ps)
    BY <1>2 DEF Undo, RecoverPrepared
  <2> QED BY <2>1 DEF RemovePaths
<1>3. ASSUME NEW q \in Paths, UserCopy(q) \/ DeleteIndexed(q)
      PROVE  disk'[p] \in {disk[p], Nobody} \cup Foreign
  BY <1>3 DEF UserCopy, DeleteIndexed, CatalogInv, TypeOK
<1> QED BY <1>1, <1>2, <1>3, DiskChanges

LEMMA AtTargetsStep ==
    ASSUME StrandInv, [Next]_vars
    PROVE  AtTargets'
<1> SUFFICES ASSUME NEW p \in Paths, disk'[p] \in Slots
             PROVE  target'[disk'[p]] = p
  BY DEF AtTargets
<1>1. CASE target' = target
  <2>1. CASE disk'[p] = disk[p]
    BY <1>1, <2>1 DEF StrandInv, AtTargets
  <2> QED BY <1>1, <2>1, DiskStep, UploadsAssumption DEF StrandInv
<1>2. ASSUME NEW u \in Uploads, Plan(u) PROVE target'[disk'[p]] = p
  <2>1. disk' = disk /\ pc[u] = "lock"
    BY <1>2 DEF Plan, At
  <2>2. disk[p] \notin SlotsOf(u)
    BY <2>1 DEF StrandInv, CatalogInv, NothingPlacedYet, EarlyPCs, LockedPCs
  <2>3. PICK place \in [1..Size[u] -> {q \in Paths : Free(q)}] :
          target' = [s \in Slots |-> IF s[1] = u THEN place[s[2]] ELSE target[s]]
    BY <1>2 DEF Plan
  <2>4. \A s \in Slots \ SlotsOf(u) : s[1] # u
    BY DEF Slots, SlotsOf
  <2>5. target'[disk[p]] = target[disk[p]]
    BY <2>1, <2>2, <2>3, <2>4
  <2> QED BY <2>1, <2>5 DEF StrandInv, AtTargets
<1> QED BY <1>1, <1>2, TargetChanges

LEMMA NoRowStep ==
    ASSUME StrandInv, [Next]_vars
    PROVE  NoRowYet'
<1> SUFFICES ASSUME NEW u \in Uploads, pc'[u] \in EarlyPCs \ LockedPCs
             PROVE  journal'[u] = "absent"
  BY DEF NoRowYet
<1>1. pc[u] \in EarlyPCs \ LockedPCs /\ journal[u] = "absent"
  BY EarlyStep DEF StrandInv, CatalogInv, NoRowYet
<1>2. ~Save(u) /\ ~Fail(u) /\ ~Complete(u)
  BY <1>1 DEF Save, Fail, Complete, At, LockedPCs
<1>3. ~RecoverPrepared(u) /\ ~RecoverCommitted(u)
  BY <1>1 DEF RecoverPrepared, RecoverCommitted, Undecided, Committed
<1>4. ~Plan(u)
  BY DEF Plan, Goto, StrandInv, CatalogInv, TypeOK, LockedPCs
<1> QED BY <1>1, <1>2, <1>3, <1>4, JournalChanges DEF StrandInv, CatalogInv

(* A committed request keeps what it shows. *)
LEMMA ShownKept ==
    ASSUME StrandInv, [Next]_vars, NEW u \in Uploads, Shown(u),
           journal[u] \in Committed \cup {"completed"}
    PROVE  Shown(u)'
<1> SUFFICES ASSUME NEW p \in Paths, disk'[p] \in SlotsOf(u)
             PROVE  rows'[p] = disk'[p]
  BY DEF Shown
<1>1. pc[u] \notin {"rename", "save"}
  BY DEF StrandInv, CatalogInv, SafeInv, TargetsReserved, Revocable, Committed
<1>2. disk'[p] = disk[p]
  <2>1. disk'[p] \notin Foreign \cup {Nobody}
    BY SlotsOfSubset, UploadsAssumption
  <2>2. ASSUME NEW v \in Uploads, pc[v] = "rename" PROVE disk'[p] # Slot(v)
    <3>1. v # u /\ Slot(v) \in SlotsOf(v)
      BY <1>1, <2>2, SlotInSlots, UploadsAssumption
      DEF Slot, StrandInv, CatalogInv, TypeOK, CursorsInRange
    <3> QED BY <3>1, SlotsDisjoint
  <2> QED BY <2>1, <2>2, DiskStep DEF StrandInv
<1>3. rows[p] = disk[p]
  BY <1>2 DEF Shown
<1>4. ASSUME NEW v \in Uploads, Save(v) PROVE rows'[p] = rows[p]
  <2>1. pc[v] = "save" /\ v # u
    BY <1>1, <1>4 DEF Save, At
  <2>2. p \notin Claimed(v)
    <3>1. \A s \in SlotsOf(v) : disk[target[s]] = s
      BY <2>1 DEF StrandInv, CatalogInv, SafeInv, Placed, SlotsOf
    <3> QED BY <1>2, <2>1, <3>1, SlotsDisjoint DEF Claimed
  <2> QED BY <1>4, <2>2 DEF Save, SaveTx
<1>5. ASSUME NEW q \in Paths, ScanImport(q) \/ DeleteIndexed(q) PROVE rows'[p] = disk'[p]
  <2>1. disk'[p] # Nobody /\ rows[p] # Nobody
    BY <1>2, <1>3, SlotsOfSubset, UploadsAssumption
  <2> QED BY <1>2, <1>3, <1>5, <2>1 DEF ScanImport, DeleteIndexed, Indexed, StrandInv, CatalogInv, TypeOK
<1> QED BY <1>2, <1>3, <1>4, <1>5, RowsChange

(* A request that becomes committed shows all that it has on disk. *)
LEMMA ShownAtCommit ==
    ASSUME StrandInv, [Next]_vars, NEW u \in Uploads,
           journal[u] \notin Committed \cup {"completed"},
           journal'[u] \in Committed \cup {"completed"}
    PROVE  Shown(u)'
<1> SUFFICES ASSUME NEW p \in Paths, disk'[p] \in SlotsOf(u)
             PROVE  rows'[p] = disk'[p]
  BY DEF Shown
<1>1. CASE Save(u)
  <2>1. pc[u] = "save" /\ disk' = disk /\ SaveTx(u)
    BY <1>1 DEF Save, At
  <2>2. \A s \in SlotsOf(u) : disk[target[s]] = s
    BY <2>1 DEF StrandInv, CatalogInv, SafeInv, Placed, SlotsOf
  <2>3. target[disk[p]] = p
    BY <2>1, SlotsOfSubset DEF StrandInv, AtTargets
  <2>4. p \in Claimed(u) /\ \A s \in SlotsOf(u) : target[s] = p => s = disk[p]
    BY <2>1, <2>2, <2>3 DEF Claimed
  <2>5. (CHOOSE s \in SlotsOf(u) : target[s] = p) = disk[p]
    BY <2>1, <2>3, <2>4
  <2> QED BY <2>1, <2>4, <2>5 DEF SaveTx
<1>2. CASE RecoverPrepared(u)
  <2>1. rows' = rows /\ target' = target
    BY <1>2 DEF RecoverPrepared
  <2>2. ~Unresolved(u)
    BY DEF Unresolved, SetState, Committed, StrandInv, CatalogInv, TypeOK
  <2>3. disk'[p] # Nobody
    BY SlotsOfSubset, UploadsAssumption
  <2>4. disk' = RemovePaths(Claimed(u)) \/ disk' = disk
    BY <1>2, <2>2 DEF RecoverPrepared, RolledBack
  <2>5. disk'[p] = disk[p] /\ p \in Claimed(u)
    <3>1. disk'[p] = disk[p]
      BY <2>3, <2>4 DEF RemovePaths
    <3>2. target[disk[p]] = p
      BY <3>1, SlotsOfSubset DEF StrandInv, AtTargets
    <3> QED BY <3>1, <3>2 DEF Claimed
  <2>6. disk' = disk
    BY <2>3, <2>4, <2>5 DEF RemovePaths
  <2>7. Indexed(p)
    <3>1. disk' # RemovePaths(RolledBack(u))
      BY <2>3, <2>5 DEF RemovePaths, RolledBack
    <3> QED BY <1>2, <2>2, <2>5, <3>1 DEF RecoverPrepared
  <2> QED BY <2>1, <2>6, <2>7 DEF StrandInv, CatalogInv, SafeInv, IndexedFilesIntact
<1>3. ~Plan(u) /\ ~Fail(u)
  BY DEF Plan, Fail, CreateRow, SetState, Committed, StrandInv, CatalogInv, TypeOK
<1>4. ~Complete(u)
  BY DEF Complete, At, StrandInv, CommittedShown, Committed
<1>5. ~RecoverCommitted(u)
  BY DEF RecoverCommitted
<1> QED BY <1>1, <1>2, <1>3, <1>4, <1>5, JournalChanges DEF StrandInv, CatalogInv

LEMMA CommittedShownStep ==
    ASSUME StrandInv, [Next]_vars
    PROVE  CommittedShown'
<1> SUFFICES ASSUME NEW u \in Uploads, pc'[u] = "complete"
             PROVE  journal'[u] = "db_committed"
  BY ShownKept, ShownAtCommit DEF CommittedShown, StrandInv
<1>1. CASE Save(u)
  BY <1>1 DEF Save, SaveTx, SetStateTx, Goto, StrandInv, CatalogInv, TypeOK
<1>2. ~Plan(u) /\ ~Fail(u) /\ ~Complete(u)
  BY DEF Plan, Fail, Complete, Goto, StrandInv, CatalogInv, TypeOK
<1>3. pc[u] = "complete" \/ Save(u)
  <2>1. ASSUME NEW v \in Uploads, Arrive(v) \/ StageJournal(v) \/ WritePart(v) \/ StagingDone(v)
                 \/ Plan(v) \/ PlanRejected(v) \/ Move(v) \/ Rename(v)
        PROVE  pc[u] = "complete"
    BY <2>1 DEF Arrive, StageJournal, WritePart, StagingDone, Plan, PlanRejected, Move, MoveFailed,
                Rename, Goto, StrandInv, CatalogInv, TypeOK
  <2>2. ASSUME NEW v \in Uploads, Judge(v) \/ Undo(v) \/ Fail(v) \/ Complete(v) \/ Settle(v)
                 \/ Discard(v) \/ Abandon(v)
        PROVE  pc[u] = "complete"
    BY <2>2 DEF Judge, Undo, Fail, Complete, Settle, Discard, Abandon, Goto,
                StrandInv, CatalogInv, TypeOK
  <2>3. ASSUME NEW v \in Uploads, Save(v), v # u PROVE pc[u] = "complete"
    BY <2>3 DEF Save, Goto, StrandInv, CatalogInv, TypeOK
  <2>4. Recovery \/ Others \/ UNCHANGED vars => UNCHANGED pc
    BY DEF Recovery, Others, Start, Ready, RecoverPrepared, RecoverCommitted, RecoverStaging,
           UserCopy, ScanImport, DeleteIndexed, vars
  <2>5. ~Crash
    BY DEF Crash, StrandInv, CatalogInv, TypeOK
  <2> QED BY <2>1, <2>2, <2>3, <2>4, <2>5 DEF Next, Handler
<1>4. CASE pc[u] = "complete"
  <2>1. journal[u] = "db_committed" /\ server = "up"
    BY <1>4 DEF StrandInv, CommittedShown, CatalogInv, SafeInv, LockDiscipline
  <2>2. ~Save(u) /\ ~RecoverPrepared(u) /\ ~RecoverCommitted(u)
    BY <1>4, <2>1 DEF Save, At, RecoverPrepared, RecoverCommitted
  <2> QED BY <1>2, <2>1, <2>2, JournalChanges DEF StrandInv, CatalogInv
<1> QED BY <1>1, <1>3, <1>4

(* A step of u, or a step that leaves u, its parts and their rows alone.    *)
OwnStep(u) ==
    \/ Arrive(u) \/ StageJournal(u) \/ WritePart(u) \/ StagingDone(u) \/ Plan(u) \/ PlanRejected(u)
    \/ Move(u) \/ Rename(u) \/ Save(u) \/ Judge(u) \/ Undo(u) \/ Fail(u) \/ Complete(u)
    \/ Settle(u) \/ Discard(u) \/ Abandon(u)

Untouched(u) ==
    /\ pc'[u] = pc[u] /\ next'[u] = next[u]
    /\ \A s \in SlotsOf(u) : stage'[s] = stage[s] /\ (s \in parts' <=> s \in parts)

LEMMA OwnStepIsLocal ==
    ASSUME CatalogInv, NEW u \in Uploads, NEW v \in Uploads, u # v, OwnStep(v)
    PROVE  Untouched(u)
<1>1. pc'[u] = pc[u] /\ next'[u] = next[u]
  BY DEF OwnStep, Arrive, StageJournal, WritePart, StagingDone, Plan, PlanRejected, Move, MoveFailed,
         Rename, Save, Judge, Undo, Fail, Complete, Settle, Discard, Abandon, Goto, CatalogInv, TypeOK
<1>2. Slot(v) \notin SlotsOf(u)
  BY DEF Slot, SlotsOf
<1>3. parts' \subseteq parts \cup {Slot(v)} /\ parts \subseteq parts' \cup {Slot(v)}
  BY DEF OwnStep, Arrive, StageJournal, WritePart, StagingDone, Plan, PlanRejected, Move, MoveFailed,
         Rename, Save, Judge, Undo, Fail, Complete, Settle, Discard, Abandon, RemovePart
<1>4. stage' = stage \/ \E st \in JournalStates : stage' = [stage EXCEPT ![Slot(v)] = st]
  BY DEF OwnStep, Arrive, StageJournal, WritePart, StagingDone, Plan, PlanRejected, Move,
         Rename, Save, Judge, Undo, Fail, Complete, Settle, Discard, Abandon, CreateRow, SetState,
         JournalStates
<1>5. \A s \in SlotsOf(u) : stage'[s] = stage[s]
  BY <1>2, <1>4, SlotsOfSubset DEF CatalogInv, TypeOK
<1> QED BY <1>1, <1>2, <1>3, <1>5 DEF Untouched

(* Recovery finds every handler gone, and a crash leaves none. *)
LEMMA StepsOfOthers ==
    ASSUME CatalogInv, [Next]_vars, NEW u \in Uploads
    PROVE  Untouched(u) \/ OwnStep(u) \/ pc'[u] \in {"idle", "gone"}
<1>1. ASSUME NEW v \in Uploads, OwnStep(v) PROVE Untouched(u) \/ OwnStep(u)
  BY <1>1, OwnStepIsLocal
<1>2. CASE Recovery
  <2>1. server # "up" /\ pc' = pc
    BY <1>2 DEF Recovery, Start, Ready, RecoverPrepared, RecoverCommitted, RecoverStaging
  <2> QED BY <2>1 DEF CatalogInv, SafeInv, LockDiscipline
<1>3. Others \/ UNCHANGED vars => Untouched(u)
  BY DEF Others, UserCopy, ScanImport, DeleteIndexed, vars, Untouched
<1>4. Crash => pc'[u] \in {"idle", "gone"}
  BY DEF Crash
<1> QED BY <1>1, <1>2, <1>3, <1>4 DEF Next, Handler, OwnStep

LEMMA PartsFollowStep ==
    ASSUME StrandInv, [Next]_vars
    PROVE  PartsFollow'
<1> SUFFICES ASSUME NEW u \in Uploads
             PROVE  /\ pc'[u] = "write" => stage'[<<u, next'[u]>>] \in Unfinished
                    /\ \A k \in 1..Size[u] : UsedUp(u, k)' => <<u, k>> \notin parts'
  BY DEF PartsFollow, Slot
<1>1. CASE pc'[u] \in {"idle", "gone"}
  BY <1>1 DEF UsedUp
<1>2. CASE Untouched(u)
  <2>1. \A k \in 1..Size[u] : <<u, k>> \in SlotsOf(u)
    BY SlotInSlots
  <2>2. pc[u] = "write" => next[u] \in 1..Size[u]
    BY UploadsAssumption DEF StrandInv, CatalogInv, TypeOK, CursorsInRange
  <2> QED BY <1>2, <2>1, <2>2 DEF Untouched, StrandInv, PartsFollow, UsedUp, Slot
<1>3. CASE StageJournal(u)
  <2>1. next[u] \in 1..Size[u]
    BY <1>3, UploadsAssumption DEF StageJournal, StrandInv, CatalogInv, TypeOK
  <2>2. pc'[u] \in {"stage", "discard"} \/ (Goto(u, "write", next[u]) /\ stage' = CreateRow(stage, Slot(u)))
    BY <1>3 DEF StageJournal, Goto, StrandInv, CatalogInv, TypeOK
  <2>3. CASE Goto(u, "write", next[u]) /\ stage' = CreateRow(stage, Slot(u))
    <3>1. pc'[u] = "write" /\ next'[u] = next[u]
      BY <2>3 DEF Goto, StrandInv, CatalogInv, TypeOK
    <3>2. stage'[Slot(u)] = "prepared"
      BY <2>1, <2>3, SlotInSlots DEF Slot, CreateRow, StrandInv, CatalogInv, TypeOK
    <3> QED BY <3>1, <3>2 DEF UsedUp, Slot, Unfinished, Undecided
  <2> QED BY <2>2, <2>3 DEF UsedUp
<1>4. CASE Arrive(u) \/ WritePart(u) \/ StagingDone(u) \/ PlanRejected(u) \/ Judge(u) \/ Undo(u)
           \/ Fail(u) \/ Discard(u) \/ Abandon(u)
  <2>1. pc'[u] \notin {"write", "save", "complete", "settle", "move", "rename"}
    BY <1>4 DEF Arrive, WritePart, StagingDone, PlanRejected, Judge, Undo, Fail, Discard, Abandon,
                Goto, StrandInv, CatalogInv, TypeOK
  <2> QED BY <2>1 DEF UsedUp
<1>5. CASE Plan(u)
  <2>1. pc'[u] = "move" /\ next'[u] = 1
    BY <1>5 DEF Plan, Goto, StrandInv, CatalogInv, TypeOK
  <2> QED BY <2>1 DEF UsedUp
<1>6. CASE Move(u)
  <2>1. pc[u] = "move" /\ parts' = parts /\ (pc'[u] = "undo" \/ (pc'[u] = "rename" /\ next'[u] = next[u]))
    BY <1>6 DEF Move, MoveFailed, At, Goto, StrandInv, CatalogInv, TypeOK
  <2> QED BY <2>1 DEF UsedUp, StrandInv, PartsFollow
<1>7. CASE Rename(u)
  <2>1. pc[u] = "rename" /\ next[u] \in 1..Size[u]
    BY <1>7, UploadsAssumption DEF Rename, At, StrandInv, CatalogInv, TypeOK, CursorsInRange
  <2>2. \/ pc'[u] = "undo"
        \/ /\ parts' = parts \ {Slot(u)}
           /\ \/ pc'[u] = "save" /\ next[u] = Size[u]
              \/ pc'[u] = "move" /\ next'[u] = next[u] + 1
    BY <1>7 DEF Rename, MoveFailed, RemovePart, Last, Goto, StrandInv, CatalogInv, TypeOK
  <2>3. \A k \in 1..Size[u] : k < next[u] => <<u, k>> \notin parts
    BY <2>1 DEF StrandInv, PartsFollow, UsedUp
  <2>4. CASE parts' = parts \ {Slot(u)} /\ pc'[u] = "save" /\ next[u] = Size[u]
    <3>1. \A k \in 1..Size[u] : k < next[u] \/ k = next[u]
      BY <2>4, UploadsAssumption
    <3> QED BY <2>3, <2>4, <3>1 DEF Slot
  <2>5. CASE parts' = parts \ {Slot(u)} /\ pc'[u] = "move" /\ next'[u] = next[u] + 1
    <3>1. \A k \in 1..Size[u] : k < next[u] + 1 => k < next[u] \/ k = next[u]
      BY <2>1, UploadsAssumption
    <3> QED BY <2>3, <2>5, <3>1 DEF Slot, UsedUp
  <2> QED BY <2>2, <2>4, <2>5 DEF UsedUp
<1>8. CASE Save(u) \/ Complete(u) \/ Settle(u)
  <2>1. pc[u] \in {"save", "complete", "settle"} /\ parts' = parts /\ pc'[u] # "write"
    BY <1>8 DEF Save, Complete, Settle, At, Goto, StrandInv, CatalogInv, TypeOK
  <2> QED BY <2>1 DEF UsedUp, StrandInv, PartsFollow
<1> QED BY <1>1, <1>2, <1>3, <1>4, <1>5, <1>6, <1>7, <1>8, StepsOfOthers DEF OwnStep, StrandInv

LEMMA PartsRecordedStep ==
    ASSUME StrandInv, [Next]_vars
    PROVE  PartsRecorded'
<1> SUFFICES ASSUME faults' = 0, NEW s \in parts'
             PROVE  stage'[s] \in Unfinished
  BY DEF PartsRecorded
<1>1. faults = 0 /\ ~Fault
  <2>1. ~Fault
    BY UploadsAssumption DEF Fault, StrandInv, CatalogInv, TypeOK
  <2>2. faults' = faults \/ Fault
    BY DEF Next, Handler, Recovery, Others, vars, Arrive, StageJournal, WritePart, StagingDone,
           Plan, PlanRejected, Move, Rename, Save, Judge, Undo, Fail, Complete, Settle, Discard,
           Abandon, ScanImport, UserCopy, DeleteIndexed, Start, Ready, RecoverPrepared, Resolved,
           Unresolved, RecoverCommitted, RecoverStaging, Crash, NoFault
  <2> QED BY <2>1, <2>2
<1>2. \A t \in parts : stage[t] \in Unfinished /\ t \in Slots
  BY <1>1 DEF StrandInv, PartsRecorded, CatalogInv, TypeOK
<1>3. CASE stage' = stage /\ parts' \subseteq parts
  BY <1>2, <1>3
<1>4. ASSUME NEW u \in Uploads, StageJournal(u) PROVE stage'[s] \in Unfinished
  <2>1. s \in parts /\ stage'[s] \in {stage[s], "prepared"}
    BY <1>2, <1>4 DEF StageJournal, CreateRow, StrandInv, CatalogInv, TypeOK
  <2> QED BY <1>2, <2>1 DEF Unfinished, Undecided
<1>5. ASSUME NEW u \in Uploads, WritePart(u) PROVE stage'[s] \in Unfinished
  <2>1. pc[u] = "write" /\ stage' = stage /\ parts' \subseteq parts \cup {Slot(u)}
    BY <1>5 DEF WritePart, At
  <2> QED BY <1>2, <2>1 DEF StrandInv, PartsFollow
<1>6. ASSUME NEW u \in Uploads, Settle(u) PROVE stage'[s] \in Unfinished
  <2>1. pc[u] = "settle" /\ next[u] \in 1..Size[u] /\ parts' = parts
    BY <1>6, UploadsAssumption DEF Settle, At, StrandInv, CatalogInv, TypeOK, CursorsInRange
  <2>2. s # Slot(u)
    BY <2>1 DEF StrandInv, PartsFollow, UsedUp, Slot
  <2>3. stage'[s] = stage[s]
    BY <1>2, <1>6, <2>1, <2>2 DEF Settle, SetState, StrandInv, CatalogInv, TypeOK
  <2> QED BY <1>2, <2>1, <2>3
<1>7. ASSUME NEW u \in Uploads, Discard(u) PROVE stage'[s] \in Unfinished
  <2>1. parts' = parts \ {Slot(u)} /\ stage' = SetState(stage, Slot(u), "completed")
    BY <1>1, <1>7 DEF Discard, RemovePart
  <2>2. stage'[s] = stage[s]
    BY <1>2, <2>1 DEF SetState, StrandInv, CatalogInv, TypeOK
  <2> QED BY <1>2, <2>1, <2>2
<1>8. ASSUME NEW t \in Slots, RecoverStaging(t) PROVE stage'[s] \in Unfinished
  <2>1. parts' = parts \ {t} /\ stage' = SetState(stage, t, "completed")
    BY <1>1, <1>8 DEF RecoverStaging, RemovePart
  <2>2. stage'[s] = stage[s]
    BY <1>2, <2>1 DEF SetState, StrandInv, CatalogInv, TypeOK
  <2> QED BY <1>2, <2>1, <2>2
<1>9. \/ stage' = stage /\ parts' \subseteq parts
      \/ \E u \in Uploads : StageJournal(u) \/ WritePart(u) \/ Settle(u) \/ Discard(u)
      \/ \E t \in Slots : RecoverStaging(t)
  BY DEF Next, Handler, Recovery, Others, vars, Arrive, StagingDone, Plan, PlanRejected, Move,
         MoveFailed, Rename, RemovePart, Save, Judge, Undo, Fail, Complete, Abandon, ScanImport,
         UserCopy, DeleteIndexed, Start, Ready, RecoverPrepared, RecoverCommitted, Crash
<1> QED BY <1>3, <1>4, <1>5, <1>6, <1>7, <1>8, <1>9

(* What an upload leaves on disk stays in its journal: nothing it wrote is  *)
(* unindexed once its row is completed, and while nothing fails every part  *)
(* has an unfinished row that makes the next start remove it.               *)
THEOREM NothingUploadedIsStranded == Spec => []NothingIsStranded
<1>1. Init => StrandInv
  BY StrandInit
<1>2. StrandInv /\ [Next]_vars => StrandInv'
  <2>1. StrandInv /\ [Next]_vars => CatalogInv'
    BY TypingStep, SafeStep, PlacedLaterStep DEF StrandInv, CatalogInv
  <2> QED
    BY <2>1, AtTargetsStep, NoRowStep, CommittedShownStep, PartsFollowStep, PartsRecordedStep
    DEF StrandInv
<1>3. StrandInv => NothingIsStranded
  BY DEF StrandInv, CommittedShown, Shown, PartsRecorded, NothingIsStranded
<1> QED BY <1>1, <1>2, <1>3, PTL DEF Spec
=============================================================================
