--------------------------- MODULE CoverOpsProofs ---------------------------
(* Proofs about CoverOps, for any requests, covers, errors and crashes, as  *)
(* long as no I/O error meets a reconciliation: the covers of the game are  *)
(* there, nothing is left over, and a start settles every operation.  The   *)
(* run CoversRecovery shows that the hypothesis is needed.                  *)
EXTENDS CoverOps, TLAPS

Pending == PendingOps(journal)

(* The files of an undecided operation: at each path the file of the row is *)
(* in its place or in the backup, and what replaces it may be there.        *)
HalfWay(s) ==
    /\ replaced[s] = {p \in New[s] : rows[p] # "none"}
    /\ obsolete[s] = Managed \ New[s]
    /\ \A p \in Paths :
         \/ backup[s][p] = "none" /\ disk[p] = rows[p]
         \/ backup[s][p] = "none" /\ rows[p] = "none" /\ p \in New[s] /\ disk[p] = s
         \/ backup[s][p] = rows[p] /\ rows[p] # "none" /\ disk[p] = "none"
         \/ backup[s][p] = rows[p] /\ rows[p] # "none" /\ p \in New[s] /\ disk[p] = s

(* Those of a committed one: only its own backups may be left. *)
Done(s) ==
    /\ disk = rows /\ alive /\ New[s] \subseteq Managed
    /\ \A p \in Paths : HasBackup(s, p) => p \in Entries(s)

(* One operation at most is pending, and everything else is in order. *)
FilesInv ==
    /\ \A s, t \in Pending : s = t
    /\ Pending = {} => disk = rows
    /\ \A s \in Saves \ Pending : backup[s] = Nothing
    /\ \A s \in Saves : journal[s] \in Undecided => HalfWay(s)
    /\ \A s \in Saves : journal[s] \in Committed => Done(s)
    /\ ~alive => rows = Nothing

Inside == {"reconcile", "plan", "aside", "write", "undo", "tidy"}

(* The lock excludes, and whoever reconciles has all pending rows to do. *)
LockInv ==
    /\ \A r \in Requests : pc[r] \in Inside => server = "up" /\ lock = r
    /\ \A r \in Requests : pc[r] # "save"
    /\ \A r \in Requests : pc[r] \in {"aside", "write", "undo", "tidy"} => r \in Saves
    /\ todo \subseteq Pending
    /\ Reconciling => todo = Pending
    /\ todo # {} => Reconciling

(* How far the holder of the lock is. *)
Reached(r) ==
    /\ pc[r] = "plan" => Pending = {}
    /\ pc[r] = "aside" =>
         /\ journal[r] \in Undecided /\ left[r] \subseteq obsolete[r]
         /\ \A p \in obsolete[r] : HasBackup(r, p) <=> p \notin left[r]
    /\ pc[r] = "write" =>
         /\ journal[r] \in Undecided /\ left[r] \subseteq New[r]
         /\ \A p \in obsolete[r] : HasBackup(r, p)
         /\ \A p \in New[r] \ left[r] : disk[p] = r
    /\ pc[r] = "undo" =>
         /\ journal[r] \in Undecided /\ left[r] \subseteq Entries(r)
         /\ \A p \in Entries(r) \ left[r] : ~HasBackup(r, p) /\ disk[p] = rows[p]
    /\ pc[r] = "tidy" =>
         /\ journal[r] \in Committed /\ left[r] \subseteq Entries(r)
         /\ \A p \in Entries(r) \ left[r] : ~HasBackup(r, p)

CInv == TypeOK /\ FilesInv /\ LockInv /\ \A r \in Requests : Reached(r)

-----------------------------------------------------------------------------
(* Types *)

USE CoversAssumption DEF Requests

LEMMA SetStateTyping ==
    ASSUME TypeOK, NEW s, NEW st \in JournalStates
    PROVE  /\ SetState(journal, s, st) \in [Saves -> JournalStates]
           /\ SetStateTx(journal, s, st) \in [Saves -> JournalStates]
           /\ CreateRow(journal, s) \in [Saves -> JournalStates]
BY DEF TypeOK, SetState, SetStateTx, CreateRow, JournalStates

LEMMA StatesOfRows ==
    {"prepared", "failed", "completed", "cleanup_pending", "db_committed"} \subseteq JournalStates
BY DEF JournalStates

LEMMA FaultTyping ==
    ASSUME TypeOK
    PROVE  /\ Fault \/ NoFault => faults' \in 0..MaxFaults
           /\ RecoveryFault \/ NoRecoveryFault => recoveryFaults' \in 0..MaxRecoveryFaults
BY DEF TypeOK, Fault, NoFault, RecoveryFault, NoRecoveryFault

LEMMA FileNames == Saves \subseteq Files /\ "none" \in Files /\ "first" \in Files
                   /\ Nothing \in [Paths -> Files] /\ "none" \notin Saves
BY DEF Files, Nothing

LEMMA BackupTyping ==
    ASSUME TypeOK, NEW s \in Saves, NEW paths
    PROVE  /\ DropBackups(s, paths) => backup' \in [Saves -> [Paths -> Files]]
           /\ PutBack(s, paths) \/ DropEntries(s, paths) =>
                disk' \in [Paths -> Files] /\ backup' \in [Saves -> [Paths -> Files]]
<1> DEFINE kept == [p \in Paths |-> IF p \in paths THEN "none" ELSE backup[s][p]]
<1>1. kept \in [Paths -> Files]
  BY FileNames DEF TypeOK
<1>2. [backup EXCEPT ![s] = kept] \in [Saves -> [Paths -> Files]]
  BY <1>1 DEF TypeOK
<1>3. PutBack(s, paths) => disk' \in [Paths -> Files]
  BY FileNames DEF TypeOK, PutBack
<1>4. DropEntries(s, paths) => disk' \in [Paths -> Files]
  BY FileNames DEF TypeOK, DropEntries
<1> QED BY <1>2, <1>3, <1>4 DEF DropBackups, PutBack, DropEntries

LEMMA TreatTyping ==
    ASSUME TypeOK, NEW s \in Saves, NEW paths, Treat(s, paths)
    PROVE  disk' \in [Paths -> Files] /\ backup' \in [Saves -> [Paths -> Files]]
<1>1. UNCHANGED disk => disk' \in [Paths -> Files]
  BY DEF TypeOK
<1> QED BY <1>1, BackupTyping DEF Treat

LEMMA SetAsideTyping ==
    ASSUME TypeOK, NEW s \in Saves, NEW p \in Paths, SetAside(s, p)
    PROVE  disk' \in [Paths -> Files] /\ backup' \in [Saves -> [Paths -> Files]]
<1>1. [backup[s] EXCEPT ![p] = disk[p]] \in [Paths -> Files]
  BY DEF TypeOK
<1> QED BY <1>1, FileNames DEF TypeOK, SetAside

LEMMA ControlTyping ==
    ASSUME TypeOK, NEW r \in Requests
    PROVE  /\ \A label \in PCs : Goto(r, label) => pc' \in [Requests -> PCs]
           /\ \A paths \in SUBSET Paths : Remaining(r, paths) => left' \in [Requests -> SUBSET Paths]
           /\ Leave(r) => /\ pc' \in [Requests -> PCs] /\ left' \in [Requests -> SUBSET Paths]
                          /\ lock' \in Requests \cup {Nobody}
<1>1. ASSUME NEW label \in PCs, Goto(r, label) PROVE pc' \in [Requests -> PCs]
  BY <1>1 DEF TypeOK, Goto
<1>2. ASSUME NEW paths \in SUBSET Paths, Remaining(r, paths)
      PROVE  left' \in [Requests -> SUBSET Paths]
  BY <1>2 DEF TypeOK, Remaining
<1>3. "gone" \in PCs /\ {} \in SUBSET Paths
  BY DEF PCs
<1> QED BY <1>1, <1>2, <1>3 DEF Leave

LEMMA PathSets ==
    ASSUME TypeOK, NEW s \in Saves
    PROVE  /\ New[s] \in SUBSET Paths /\ obsolete[s] \in SUBSET Paths /\ Entries(s) \in SUBSET Paths
           /\ Occupied(s) \in SUBSET Paths /\ InUse(s) \in SUBSET Paths /\ Managed \in SUBSET Paths
           /\ left[s] \in SUBSET Paths /\ (left[s] # {} => Next1(s) \in left[s] /\ Next1(s) \in Paths)
           /\ \A p : left[s] \ {p} \in SUBSET Paths
<1>1. s \in Requests
  OBVIOUS
<1>2. left[s] \in SUBSET Paths
  BY <1>1 DEF TypeOK
<1>3. left[s] # {} => Next1(s) \in left[s]
  BY DEF Next1
<1> QED BY <1>2, <1>3 DEF TypeOK, Entries, Occupied, InUse, Managed

LEMMA StartUndoTyping ==
    ASSUME TypeOK, NEW s \in Saves, StartUndo(s)
    PROVE  pc' \in [Requests -> PCs] /\ left' \in [Requests -> SUBSET Paths]
<1>1. s \in Requests /\ "undo" \in PCs
  BY DEF PCs
<1> QED BY <1>1, PathSets, ControlTyping DEF StartUndo

LEMMA HandlerTyping ==
    ASSUME TypeOK, NEW s \in Saves, Saving(s)
    PROVE  TypeOK'
<1>0. s \in Requests /\ {"aside", "write", "tidy", "gone", "undo"} \subseteq PCs
  BY DEF PCs
<1>1. CASE Prepare(s)
  <2>1. UNCHANGED <<server, todo, seen, alive, rows, disk, backup, recoveryFaults, crashes>> /\ faults' \in 0..MaxFaults
    BY <1>1, FaultTyping DEF Prepare
  <2>2. /\ pc' \in [Requests -> PCs] /\ left' \in [Requests -> SUBSET Paths]
        /\ lock' \in Requests \cup {Nobody}
    BY <1>0, <1>1, PathSets, ControlTyping DEF Prepare, TypeOK
  <2>3. journal' \in [Saves -> JournalStates]
    <3>1. journal' = CreateRow(journal, s) \/ journal' = journal
      BY <1>1 DEF Prepare
    <3>2. PICK st \in JournalStates : st = "failed"
      BY StatesOfRows
    <3>3. CreateRow(journal, s) \in [Saves -> JournalStates]
      BY <3>2, SetStateTyping
    <3>4. journal \in [Saves -> JournalStates]
      BY DEF TypeOK
    <3> QED BY <3>1, <3>3, <3>4
  <2>4. obsolete' \in [Saves -> SUBSET Paths]
    <3>1. obsolete' = [obsolete EXCEPT ![s] = InUse(s)] \/ obsolete' = obsolete
      BY <1>1 DEF Prepare
    <3>2. InUse(s) \in SUBSET Paths
      BY PathSets
    <3>3. obsolete \in [Saves -> SUBSET Paths]
      BY DEF TypeOK
    <3> QED BY <3>1, <3>2, <3>3
  <2>5. replaced' \in [Saves -> SUBSET Paths]
    <3>1. replaced' = [replaced EXCEPT ![s] = Occupied(s)] \/ replaced' = replaced
      BY <1>1 DEF Prepare
    <3>2. Occupied(s) \in SUBSET Paths
      BY PathSets
    <3>3. replaced \in [Saves -> SUBSET Paths]
      BY DEF TypeOK
    <3> QED BY <3>1, <3>2, <3>3
  <2> QED BY <2>1, <2>2, <2>3, <2>4, <2>5 DEF TypeOK
<1>2. CASE MoveAside(s)
  <2>1. UNCHANGED <<server, lock, todo, seen, obsolete, replaced, journal, alive, rows, recoveryFaults, crashes>>
        /\ faults' \in 0..MaxFaults
    BY <1>2, FaultTyping DEF MoveAside
  <2>2. pc' \in [Requests -> PCs] /\ left' \in [Requests -> SUBSET Paths]
    BY <1>0, <1>2, PathSets, ControlTyping, StartUndoTyping DEF MoveAside, TypeOK
  <2>3. disk' \in [Paths -> Files] /\ backup' \in [Saves -> [Paths -> Files]]
    BY <1>2, PathSets, SetAsideTyping DEF MoveAside, TypeOK
  <2> QED BY <2>1, <2>2, <2>3 DEF TypeOK
<1>3. CASE AllAside(s)
  <2>1. pc' \in [Requests -> PCs] /\ left' \in [Requests -> SUBSET Paths]
    BY <1>0, <1>3, PathSets, ControlTyping DEF AllAside
  <2> QED BY <1>3, <2>1 DEF AllAside, TypeOK
<1>4. CASE WriteCover(s)
  <2>1. UNCHANGED <<server, lock, todo, seen, obsolete, replaced, journal, alive, rows, recoveryFaults, crashes>>
        /\ faults' \in 0..MaxFaults
    BY <1>4, FaultTyping DEF WriteCover
  <2>2. pc' \in [Requests -> PCs] /\ left' \in [Requests -> SUBSET Paths]
    BY <1>0, <1>4, PathSets, ControlTyping, StartUndoTyping DEF WriteCover, TypeOK
  <2>3. Next1(s) \in Paths
    BY <1>4, PathSets DEF WriteCover
  <2>4. [disk EXCEPT ![Next1(s)] = s] \in [Paths -> Files]
    BY FileNames DEF TypeOK
  <2>5. disk' \in [Paths -> Files] /\ backup' \in [Saves -> [Paths -> Files]]
    BY <1>4, <2>3, <2>4, SetAsideTyping DEF WriteCover, TypeOK
  <2> QED BY <2>1, <2>2, <2>5 DEF TypeOK
<1>5. CASE Save(s)
  <2>1. UNCHANGED <<server, lock, todo, seen, obsolete, replaced, alive, disk, backup, recoveryFaults, crashes>>
        /\ faults' \in 0..MaxFaults
    BY <1>5, FaultTyping DEF Save
  <2>2. pc' \in [Requests -> PCs] /\ left' \in [Requests -> SUBSET Paths]
    BY <1>0, <1>5, PathSets, ControlTyping, StartUndoTyping DEF Save
  <2>3. journal' \in [Saves -> JournalStates]
    BY <1>5, SetStateTyping, StatesOfRows DEF Save, TypeOK
  <2>4. rows' \in [Paths -> Files]
    BY <1>5, FileNames DEF Save, TypeOK
  <2> QED BY <2>1, <2>2, <2>3, <2>4 DEF TypeOK
<1>6. CASE Undo(s)
  <2>1. UNCHANGED <<server, todo, seen, obsolete, replaced, alive, rows, recoveryFaults, crashes>>
        /\ faults' \in 0..MaxFaults
    BY <1>6, FaultTyping DEF Undo
  <2>2. /\ pc' \in [Requests -> PCs] /\ left' \in [Requests -> SUBSET Paths]
        /\ lock' \in Requests \cup {Nobody}
    BY <1>0, <1>6, PathSets, ControlTyping DEF Undo, TypeOK
  <2>3. journal' \in [Saves -> JournalStates]
    BY <1>6, SetStateTyping, StatesOfRows DEF Undo, TypeOK
  <2>4. [disk EXCEPT ![Next1(s)] = "none"] \in [Paths -> Files]
    BY FileNames DEF TypeOK
  <2>5. disk' \in [Paths -> Files] /\ backup' \in [Saves -> [Paths -> Files]]
    BY <1>6, <2>4, BackupTyping DEF Undo, TypeOK
  <2> QED BY <2>1, <2>2, <2>3, <2>5 DEF TypeOK
<1>7. CASE Tidy(s)
  <2>1. UNCHANGED <<server, todo, seen, obsolete, replaced, alive, rows, disk, recoveryFaults, crashes>>
        /\ faults' \in 0..MaxFaults
    BY <1>7, FaultTyping DEF Tidy
  <2>2. /\ pc' \in [Requests -> PCs] /\ left' \in [Requests -> SUBSET Paths]
        /\ lock' \in Requests \cup {Nobody}
    BY <1>0, <1>7, PathSets, ControlTyping DEF Tidy, TypeOK
  <2>3. journal' \in [Saves -> JournalStates]
    BY <1>7, SetStateTyping, StatesOfRows DEF Tidy, TypeOK
  <2>4. backup' \in [Saves -> [Paths -> Files]]
    BY <1>7, BackupTyping DEF Tidy, TypeOK
  <2> QED BY <2>1, <2>2, <2>3, <2>4 DEF TypeOK
<1>8. CASE Finish(s)
  <2>1. UNCHANGED <<server, todo, seen, obsolete, replaced, alive, rows, disk, backup, recoveryFaults, crashes>>
        /\ faults' \in 0..MaxFaults
    BY <1>8, FaultTyping DEF Finish
  <2>2. /\ pc' \in [Requests -> PCs] /\ left' \in [Requests -> SUBSET Paths]
        /\ lock' \in Requests \cup {Nobody}
    BY <1>0, <1>8, ControlTyping DEF Finish
  <2>3. journal' \in [Saves -> JournalStates]
    BY <1>8, SetStateTyping, StatesOfRows DEF Finish, TypeOK
  <2> QED BY <2>1, <2>2, <2>3 DEF TypeOK
<1> QED BY <1>1, <1>2, <1>3, <1>4, <1>5, <1>6, <1>7, <1>8 DEF Saving

LEMMA LeaveHolderTyping ==
    ASSUME TypeOK, lock # Nobody, Leave(lock)
    PROVE  /\ pc' \in [Requests -> PCs] /\ left' \in [Requests -> SUBSET Paths]
           /\ lock' \in Requests \cup {Nobody}
<1>1. lock \in Requests
  BY DEF TypeOK
<1> QED BY <1>1, ControlTyping

LEMMA ReconcileTyping ==
    ASSUME TypeOK, NEW o \in Saves, Reconcile(o) \/ Interrupt(o)
    PROVE  TypeOK'
<1>0. todo \ {o} \subseteq Saves /\ {} \subseteq Saves
  BY DEF TypeOK
<1>1. CASE Reconcile(o)
  <2>1. UNCHANGED <<server, seen, obsolete, replaced, alive, rows, faults, crashes>>
        /\ recoveryFaults' \in 0..MaxRecoveryFaults
    BY <1>1, FaultTyping DEF Reconcile
  <2>2. disk' \in [Paths -> Files] /\ backup' \in [Saves -> [Paths -> Files]]
    BY <1>1, TreatTyping DEF Reconcile
  <2>3. journal' \in [Saves -> JournalStates]
    BY <1>1, SetStateTyping, StatesOfRows DEF Reconcile
  <2>4. /\ pc' \in [Requests -> PCs] /\ left' \in [Requests -> SUBSET Paths]
        /\ lock' \in Requests \cup {Nobody} /\ todo' \subseteq Saves
    <3>1. CASE UNCHANGED <<lock, pc, left>> /\ todo' = todo \ {o}
      BY <1>0, <3>1 DEF TypeOK
    <3>2. CASE server = "up" /\ Leave(lock) /\ todo' = {}
      BY <1>0, <1>1, <3>2, LeaveHolderTyping DEF Reconcile, Reconciling
    <3> QED BY <1>1, <3>1, <3>2 DEF Reconcile, GiveUp
  <2> QED BY <2>1, <2>2, <2>3, <2>4 DEF TypeOK
<1>2. CASE Interrupt(o)
  <2>1. UNCHANGED <<seen, obsolete, replaced, journal, alive, rows, faults, recoveryFaults>> /\ todo' = {}
    BY <1>2 DEF Interrupt
  <2>2. disk' \in [Paths -> Files] /\ backup' \in [Saves -> [Paths -> Files]]
    BY <1>2, TreatTyping DEF Interrupt
  <2>3. /\ pc' \in [Requests -> PCs] /\ left' \in [Requests -> SUBSET Paths]
        /\ lock' \in Requests \cup {Nobody} /\ server' \in {"up", "down", "recovering"}
        /\ crashes' \in 0..MaxCrashes
    <3>1. CASE server = "up" /\ Leave(lock) /\ UNCHANGED <<server, crashes>>
      BY <1>2, <3>1, LeaveHolderTyping DEF Interrupt, Reconciling, TypeOK
    <3>2. CASE /\ server = "recovering" /\ crashes < MaxCrashes
               /\ server' = "down" /\ crashes' = crashes + 1 /\ UNCHANGED <<lock, pc, left>>
      BY <3>2 DEF TypeOK
    <3> QED BY <1>2, <3>1, <3>2 DEF Interrupt
  <2> QED BY <1>0, <2>1, <2>2, <2>3 DEF TypeOK
<1> QED BY <1>1, <1>2

LEMMA RequestTyping ==
    ASSUME TypeOK, NEW r \in Requests, Begin(r) \/ LockAssets(r) \/ Reconciled(r) \/ Abandon(r)
    PROVE  TypeOK'
<1>0. {"lock", "gone", "reconcile", "plan"} \subseteq PCs
  BY DEF PCs
<1>1. CASE Begin(r)
  <2>1. pc' \in [Requests -> PCs]
    BY <1>0, <1>1, ControlTyping DEF Begin
  <2>2. seen' \in [Requests -> SUBSET Paths]
    BY <1>1 DEF Begin, TypeOK, Managed
  <2> QED BY <1>1, <2>1, <2>2 DEF Begin, TypeOK
<1>2. CASE LockAssets(r)
  <2>1. pc' \in [Requests -> PCs]
    BY <1>0, <1>2, ControlTyping DEF LockAssets
  <2>2. todo' \subseteq Saves
    BY <1>2 DEF LockAssets, PendingOps, TypeOK
  <2> QED BY <1>2, <2>1, <2>2 DEF LockAssets, TypeOK
<1>3. CASE Reconciled(r)
  <2>1. pc' \in [Requests -> PCs]
    BY <1>0, <1>3, ControlTyping DEF Reconciled
  <2> QED BY <1>3, <2>1 DEF Reconciled, TypeOK
<1>4. CASE Abandon(r)
  <2>1. /\ pc' \in [Requests -> PCs] /\ left' \in [Requests -> SUBSET Paths]
        /\ lock' \in Requests \cup {Nobody}
    BY <1>4, ControlTyping DEF Abandon
  <2> QED BY <1>4, <2>1 DEF Abandon, TypeOK
<1> QED BY <1>1, <1>2, <1>3, <1>4

LEMMA OtherTyping ==
    ASSUME TypeOK,
           \/ \E r \in Deleters : DeleteGame(r)
           \/ Start \/ Ready \/ Crash \/ UNCHANGED vars
    PROVE  TypeOK'
<1>1. ASSUME NEW r \in Deleters, DeleteGame(r) PROVE TypeOK'
  <2>0. r \in Requests
    OBVIOUS
  <2>1. /\ pc' \in [Requests -> PCs] /\ left' \in [Requests -> SUBSET Paths]
        /\ lock' \in Requests \cup {Nobody}
    BY <1>1, <2>0, ControlTyping DEF DeleteGame
  <2>2. disk' \in [Paths -> Files] /\ rows' \in [Paths -> Files] /\ alive' \in BOOLEAN
    BY <1>1, FileNames DEF DeleteGame, TypeOK
  <2> QED BY <1>1, <2>1, <2>2 DEF DeleteGame, TypeOK
<1>2. CASE Start
  BY <1>2 DEF Start, PendingOps, TypeOK
<1>3. CASE Ready
  BY <1>3 DEF Ready, TypeOK
<1>4. CASE Crash
  <2>1. pc' \in [Requests -> PCs]
    BY <1>4 DEF Crash, PCs
  <2> QED BY <1>4, <2>1 DEF Crash, TypeOK
<1>5. CASE UNCHANGED vars
  BY <1>5 DEF vars, TypeOK
<1> QED BY <1>1, <1>2, <1>3, <1>4, <1>5

LEMMA TypingStep == TypeOK /\ [Next]_vars => TypeOK'
BY HandlerTyping, ReconcileTyping, RequestTyping, OtherTyping DEF Next, Recovery

LEMMA InitTyping == Init => TypeOK
<1> SUFFICES ASSUME Init PROVE TypeOK
  OBVIOUS
<1>1. "absent" \in JournalStates /\ "idle" \in PCs
  BY DEF JournalStates, PCs
<1>2. [Nothing EXCEPT ![FirstPath] = "first"] \in [Paths -> Files]
  BY FileNames
<1>3. backup \in [Saves -> [Paths -> Files]]
  BY FileNames DEF Init
<1> QED BY <1>1, <1>2, <1>3 DEF Init, TypeOK

(* The variables keep their types, whatever fails during recovery. *)
THEOREM CoversTyping == Spec => []TypeOK
BY InitTyping, TypingStep, PTL DEF Spec

-----------------------------------------------------------------------------
(* What the steps do to the files *)

LEMMA PendingRows ==
    ASSUME TypeOK
    PROVE  /\ Pending = {s \in Saves : journal[s] \in Unfinished}
           /\ Unfinished = Undecided \cup Committed /\ Undecided \cap Committed = {}
           /\ "completed" \notin Unfinished /\ "absent" \notin Unfinished
BY DEF Pending, PendingOps, TypeOK, Unfinished, Undecided, Committed

(* The update of a pending row takes effect. *)
LEMMA PendingSet ==
    ASSUME TypeOK, NEW s \in Saves, journal[s] \in Unfinished, NEW st
    PROVE  SetState(journal, s, st) = [journal EXCEPT ![s] = st]
BY DEF SetState, Unfinished, Undecided, Committed

LEMMA FilesFrame ==
    ASSUME FilesInv, UNCHANGED <<replaced, obsolete, journal, alive, rows, disk, backup>>
    PROVE  FilesInv'
BY DEF FilesInv, Pending, HalfWay, Done, Managed, HasBackup, Entries

(* A step that concerns no other operation. *)
LEMMA FilesOne ==
    ASSUME TypeOK, TypeOK', FilesInv, NEW s \in Saves,
           \A t \in Saves \ {s} : t \notin Pending /\ journal'[t] = journal[t] /\ backup'[t] = backup[t],
           journal'[s] \in Undecided => HalfWay(s)',
           journal'[s] \in Committed => Done(s)',
           journal'[s] \notin Unfinished => disk' = rows' /\ backup'[s] = Nothing,
           alive' = alive, ~alive => rows' = rows
    PROVE  FilesInv'
<1>1. Pending' = {t \in Saves : journal'[t] \in Unfinished}
  BY DEF Pending, PendingOps, TypeOK
<1>2. \A t \in Saves \ {s} : t \notin Pending' /\ journal'[t] \notin Unfinished /\ backup'[t] = Nothing
  BY <1>1, PendingRows DEF FilesInv
<1>3. Pending' \subseteq {s}
  BY <1>1, <1>2
<1>4. Pending' = {} => disk' = rows'
  BY <1>1
<1>5. \A t \in Saves \ Pending' : backup'[t] = Nothing
  BY <1>1, <1>2
<1>6. \A t \in Saves : journal'[t] \in Undecided => HalfWay(t)'
  BY <1>2 DEF Unfinished
<1>7. \A t \in Saves : journal'[t] \in Committed => Done(t)'
  BY <1>2 DEF Unfinished
<1>8. ~alive' => rows' = Nothing
  BY DEF FilesInv
<1>9. Nothing' = Nothing
  BY DEF Nothing
<1> QED BY <1>3, <1>4, <1>5, <1>6, <1>7, <1>8, <1>9 DEF FilesInv

LEMMA OnlyPending ==
    ASSUME TypeOK, FilesInv, NEW s \in Saves, journal[s] \in Unfinished
    PROVE  Pending = {s} /\ \A t \in Saves \ {s} : t \notin Pending
BY PendingRows DEF FilesInv

(* The entries of an undecided operation are all the paths that matter. *)
LEMMA EntriesOf ==
    ASSUME TypeOK, NEW s \in Saves, HalfWay(s)
    PROVE  /\ Managed \subseteq Entries(s) /\ replaced[s] \subseteq New[s]
           /\ replaced[s] \cup obsolete[s] = Managed
           /\ \A p \in Paths \ Entries(s) : backup[s][p] = "none" /\ disk[p] = "none" /\ rows[p] = "none"
           /\ Blocked(s) = {}
<1>1. /\ replaced[s] = {p \in New[s] : rows[p] # "none"} /\ obsolete[s] = Managed \ New[s]
      /\ New[s] \subseteq Paths
  BY DEF HalfWay
<1>2. /\ Managed \subseteq Entries(s) /\ replaced[s] \subseteq New[s]
      /\ replaced[s] \cup obsolete[s] = Managed
  BY <1>1 DEF Managed, Entries
<1>3. ASSUME NEW p \in Paths \ Entries(s)
      PROVE  backup[s][p] = "none" /\ disk[p] = "none" /\ rows[p] = "none"
  <2>1. rows[p] = "none" /\ p \notin New[s]
    BY <1>2 DEF Managed, Entries
  <2> QED BY <2>1 DEF HalfWay
<1>4. ASSUME NEW p \in replaced[s] PROVE HasBackup(s, p) \/ OnDisk(p)
  BY <1>1 DEF HalfWay, HasBackup, OnDisk
<1>5. ASSUME NEW p \in obsolete[s] PROVE ~(HasBackup(s, p) <=> OnDisk(p))
  <2>1. p \in Paths /\ rows[p] # "none" /\ p \notin New[s]
    BY <1>1 DEF Managed
  <2> QED BY <2>1 DEF HalfWay, HasBackup, OnDisk
<1>6. Blocked(s) = {}
  BY <1>4, <1>5 DEF Blocked
<1> QED BY <1>2, <1>3, <1>6

LEMMA PutBackFiles ==
    ASSUME TypeOK, NEW s \in Saves, HalfWay(s), NEW paths, PutBack(s, paths),
           UNCHANGED <<rows, replaced, obsolete>>
    PROVE  /\ HalfWay(s)'
           /\ \A p \in Paths \cap paths : backup'[s][p] = "none"
           /\ \A p \in Entries(s) \cap paths : disk'[p] = rows[p]
           /\ \A p \in Paths \ paths : disk'[p] = disk[p] /\ backup'[s][p] = backup[s][p]
           /\ \A t \in Saves \ {s} : backup'[t] = backup[t]
<1>1. /\ replaced[s] = {p \in New[s] : rows[p] # "none"} /\ obsolete[s] = Managed \ New[s]
      /\ New[s] \subseteq Paths
  BY DEF HalfWay
<1>2. /\ \A p \in Paths \cap paths : backup'[s][p] = "none"
      /\ \A p \in Paths \ paths : disk'[p] = disk[p] /\ backup'[s][p] = backup[s][p]
      /\ \A t \in Saves \ {s} : backup'[t] = backup[t]
  BY DEF PutBack, TypeOK
<1>3. ASSUME NEW p \in Entries(s), p \in paths PROVE disk'[p] = rows[p]
  <2>1. p \in Paths
    BY PathSets
  <2>2. disk'[p] = IF HasBackup(s, p) THEN backup[s][p]
                   ELSE IF p \in New[s] \ replaced[s] THEN "none" ELSE disk[p]
    BY <1>3, <2>1 DEF PutBack
  <2> QED BY <1>1, <2>1, <2>2 DEF HalfWay, HasBackup, Entries, Managed
<1>4. ASSUME NEW p \in Paths, p \in paths, p \notin Entries(s) PROVE disk'[p] = rows[p]
  <2>1. backup[s][p] = "none" /\ disk[p] = "none" /\ rows[p] = "none"
    BY <1>4, EntriesOf
  <2> QED BY <1>4, <2>1 DEF PutBack, HasBackup
<1>5. HalfWay(s)'
  <2>1. replaced'[s] = {p \in New[s] : rows'[p] # "none"} /\ obsolete'[s] = Managed' \ New[s]
    BY <1>1 DEF Managed
  <2>2. ASSUME NEW p \in Paths \cap paths PROVE backup'[s][p] = "none" /\ disk'[p] = rows'[p]
    BY <1>2, <1>3, <1>4
  <2>3. ASSUME NEW p \in Paths \ paths
        PROVE  disk'[p] = disk[p] /\ backup'[s][p] = backup[s][p] /\ rows'[p] = rows[p]
    BY <1>2
  <2> HIDE <1>1
  <2> QED BY <2>1, <2>2, <2>3 DEF HalfWay
<1> QED BY <1>2, <1>3, <1>5

LEMMA DropFiles ==
    ASSUME TypeOK, NEW s \in Saves, NEW paths, DropBackups(s, paths)
    PROVE  /\ \A p \in Paths \cap paths : backup'[s][p] = "none"
           /\ \A p \in Paths \ paths : backup'[s][p] = backup[s][p]
           /\ \A t \in Saves \ {s} : backup'[t] = backup[t]
BY DEF DropBackups, TypeOK

(* Reconciling some entries of the pending operation keeps its files in     *)
(* order, and reconciling all of them leaves only the covers of the game.   *)
LEMMA TreatFiles ==
    ASSUME TypeOK, FilesInv, NEW s \in Saves, journal[s] \in Unfinished,
           NEW paths \in SUBSET Entries(s), Treat(s, paths),
           disk' \in [Paths -> Files], backup' \in [Saves -> [Paths -> Files]],
           UNCHANGED <<rows, alive, replaced, obsolete>>
    PROVE  /\ \A t \in Saves \ {s} : backup'[t] = backup[t]
           /\ journal[s] \in Undecided => HalfWay(s)'
           /\ journal[s] \in Committed => Done(s)'
           /\ paths = Entries(s) => disk' = rows' /\ backup'[s] = Nothing
<1>0. paths \subseteq Paths /\ Entries(s) \subseteq Paths
  BY PathSets
<1>1. CASE RollsBack(s) /\ PutBack(s, paths)
  <2>1. HalfWay(s)
    BY <1>1 DEF RollsBack, FilesInv
  <2>2. /\ HalfWay(s)' /\ \A t \in Saves \ {s} : backup'[t] = backup[t]
        /\ \A p \in paths : backup'[s][p] = "none" /\ disk'[p] = rows[p]
        /\ \A p \in Paths \ paths : disk'[p] = disk[p] /\ backup'[s][p] = backup[s][p]
    BY <1>0, <1>1, <2>1, PutBackFiles
  <2>3. \A p \in Paths \ Entries(s) : backup[s][p] = "none" /\ disk[p] = "none" /\ rows[p] = "none"
    BY <2>1, EntriesOf
  <2>4. ASSUME paths = Entries(s) PROVE disk' = rows' /\ backup'[s] = Nothing
    <3>1. \A p \in Paths : disk'[p] = rows[p] /\ backup'[s][p] = "none"
      BY <2>2, <2>3, <2>4
    <3> QED BY <3>1 DEF TypeOK, Nothing
  <2>5. journal[s] \notin Committed
    BY <1>1, PendingRows DEF RollsBack
  <2> QED BY <2>2, <2>4, <2>5
<1>2. CASE Tidies(s) /\ DropBackups(s, paths) /\ UNCHANGED disk
  <2>1. Done(s) /\ journal[s] \notin Undecided
    BY <1>2, PendingRows DEF Tidies, FilesInv
  <2>2. /\ \A t \in Saves \ {s} : backup'[t] = backup[t]
        /\ \A p \in paths : backup'[s][p] = "none"
        /\ \A p \in Paths \ paths : backup'[s][p] = backup[s][p]
    BY <1>0, <1>2, DropFiles
  <2>3. Done(s)'
    <3>1. /\ disk' = rows' /\ alive' /\ New[s] \subseteq Managed'
      BY <1>2, <2>1 DEF Done, Managed
    <3>2. \A p \in Paths : backup'[s][p] # "none" => p \in Entries(s)
      BY <2>1, <2>2 DEF Done, HasBackup
    <3>3. Entries(s)' = Entries(s)
      BY DEF Entries
    <3> QED BY <3>1, <3>2, <3>3 DEF Done, HasBackup
  <2>4. ASSUME paths = Entries(s) PROVE backup'[s] = Nothing
    <3>1. \A p \in Paths : backup'[s][p] = "none"
      BY <2>1, <2>2, <2>4 DEF Done, HasBackup
    <3> QED BY <3>1 DEF Nothing
  <2> QED BY <1>2, <2>1, <2>2, <2>3, <2>4 DEF Done
<1>3. CASE Discards(s) /\ DropEntries(s, paths)
  <2>1. HalfWay(s) /\ journal[s] \notin Committed /\ rows = Nothing
    BY <1>3, PendingRows DEF Discards, FilesInv, Done
  <2>2. /\ \A t \in Saves \ {s} : backup'[t] = backup[t]
        /\ \A p \in paths : backup'[s][p] = "none" /\ disk'[p] = "none"
        /\ \A p \in Paths \ paths : backup'[s][p] = backup[s][p] /\ disk'[p] = disk[p]
    BY <1>0, <1>3, DropFiles DEF DropEntries
  <2>3. \A p \in Paths : rows[p] = "none"
    BY <2>1 DEF Nothing
  <2>4. HalfWay(s)'
    <3>1. replaced'[s] = {p \in New[s] : rows'[p] # "none"} /\ obsolete'[s] = Managed' \ New[s]
      BY <2>1 DEF Managed, HalfWay
    <3> QED BY <2>1, <2>2, <2>3, <3>1 DEF HalfWay
  <2>5. ASSUME paths = Entries(s) PROVE disk' = rows' /\ backup'[s] = Nothing
    <3>1. \A p \in Paths \ Entries(s) : backup[s][p] = "none" /\ disk[p] = "none"
      BY <2>1, EntriesOf
    <3>2. \A p \in Paths : disk'[p] = rows[p] /\ backup'[s][p] = "none"
      BY <2>2, <2>3, <2>5, <3>1
    <3> QED BY <3>2 DEF TypeOK, Nothing
  <2> QED BY <2>1, <2>2, <2>4, <2>5
<1> QED BY <1>1, <1>2, <1>3 DEF Treat

-----------------------------------------------------------------------------
(* The lock *)

(* A step of the one who holds the lock, after which nothing is being       *)
(* reconciled.                                                              *)
LEMMA HandlerLock ==
    ASSUME TypeOK, TypeOK', LockInv, NEW r \in Requests, pc[r] \in Inside, NEW to,
           pc' = [pc EXCEPT ![r] = to], todo' = {}, server' = "up",
           \/ /\ to \in {"plan", "aside", "write", "undo", "tidy"} /\ lock' = lock
              /\ to = "plan" \/ r \in Saves
           \/ to = "gone" /\ lock' = Nobody,
           Reached(r)'
    PROVE  LockInv' /\ \A q \in Requests : Reached(q)'
<1>1. server = "up" /\ lock = r /\ \A q \in Requests \ {r} : pc[q] \notin Inside /\ pc'[q] = pc[q]
  BY DEF LockInv, TypeOK
<1>2. pc'[r] = to
  BY DEF TypeOK
<1>3. ASSUME NEW q \in Requests \ {r} PROVE Reached(q)'
  BY <1>1, <1>3 DEF Reached, Inside
<1>4. \A q \in Requests : pc'[q] \in Inside => server' = "up" /\ lock' = q
  BY <1>1, <1>2 DEF Inside
<1>5. \A q \in Requests : pc'[q] # "save" /\ (pc'[q] \in {"aside", "write", "undo", "tidy"} => q \in Saves)
  BY <1>1, <1>2 DEF Inside, LockInv
<1>6. ~Reconciling'
  BY <1>1, <1>2 DEF Reconciling
<1>7. \A q \in Requests : Reached(q)'
  BY <1>3
<1> QED BY <1>4, <1>5, <1>6, <1>7 DEF LockInv

(* What the holder of the lock can rely on once it has reconciled.          *)
LEMMA Holder ==
    ASSUME CInv, NEW r \in Requests, NEW label \in Inside \ {"reconcile"}, At(r, label)
    PROVE  /\ TypeOK /\ FilesInv /\ LockInv /\ Reached(r)
           /\ server = "up" /\ lock = r /\ pc[r] = label /\ pc[r] \in Inside /\ todo = {}
           /\ label # "plan" => r \in Saves
<1>1. server = "up" /\ lock = r /\ pc[r] = label /\ label # "reconcile" /\ label \in Inside
  BY DEF CInv, LockInv, At
<1>2. ~Reconciling
  BY <1>1 DEF Reconciling
<1> QED BY <1>1, <1>2 DEF CInv, LockInv, Inside

-----------------------------------------------------------------------------
(* The steps of a replacement, one by one *)

LEMMA PrepareKeeps ==
    ASSUME CInv, NEW s \in Saves, Prepare(s), TypeOK'
    PROVE  CInv'
<1>0. s \in Requests /\ "plan" \in Inside \ {"reconcile"}
  BY DEF Inside
<1>1. /\ TypeOK /\ FilesInv /\ LockInv /\ Reached(s) /\ server = "up" /\ lock = s
      /\ pc[s] = "plan" /\ pc[s] \in Inside /\ todo = {}
  BY <1>0, Holder DEF Prepare
<1>2. Pending = {} /\ disk = rows /\ \A t \in Saves : backup[t] = Nothing /\ journal[t] \notin Unfinished
  BY <1>1, PendingRows DEF Reached, FilesInv
<1>3. UNCHANGED <<server, todo, alive, rows, disk, backup>>
  BY DEF Prepare
<1>4. CASE Fault /\ Leave(s) /\ UNCHANGED <<obsolete, replaced, journal>>
  <2>1. FilesInv'
    BY <1>1, <1>3, <1>4, FilesFrame
  <2>2. pc' = [pc EXCEPT ![s] = "gone"] /\ lock' = Nobody /\ pc'[s] = "gone"
    BY <1>0, <1>1, <1>4 DEF Leave, Goto, TypeOK
  <2>3. Reached(s)'
    BY <2>2 DEF Reached
  <2>4. LockInv' /\ \A q \in Requests : Reached(q)'
    BY <1>0, <1>1, <1>3, <2>2, <2>3, HandlerLock
  <2> QED BY <2>1, <2>4 DEF CInv
<1>5. CASE /\ replaced' = [replaced EXCEPT ![s] = Occupied(s)]
           /\ obsolete' = [obsolete EXCEPT ![s] = InUse(s)]
           /\ Remaining(s, InUse(s))
           /\ journal' = CreateRow(journal, s)
           /\ Goto(s, "aside") /\ NoFault /\ UNCHANGED lock
  <2>1. replaced'[s] = Occupied(s) /\ obsolete'[s] = InUse(s)
    BY <1>1, <1>5 DEF TypeOK
  <2>2. /\ journal'[s] = "prepared" /\ \A t \in Saves \ {s} : journal'[t] = journal[t]
    BY <1>1, <1>5 DEF CreateRow, TypeOK
  <2>3. left'[s] = InUse(s) /\ pc' = [pc EXCEPT ![s] = "aside"] /\ pc'[s] = "aside"
    BY <1>0, <1>1, <1>5 DEF Remaining, Goto, TypeOK
  <2>4. Occupied(s) = {p \in New[s] : rows[p] # "none"} /\ InUse(s) = Managed \ New[s]
    <3>1. seen[s] \subseteq Paths
      BY <1>0, <1>1 DEF TypeOK
    <3>2. \A p \in Paths : OnDisk(p) <=> p \in Managed
      BY <1>2 DEF OnDisk, Managed
    <3>3. Managed \subseteq Paths /\ New[s] \subseteq Paths
      BY DEF Managed
    <3> QED BY <1>2, <3>1, <3>2, <3>3 DEF Occupied, InUse, OnDisk
  <2>5. HalfWay(s)'
    <3>1. Managed' = Managed
      BY <1>3 DEF Managed
    <3>2. \A p \in Paths : backup'[s][p] = "none" /\ disk'[p] = rows'[p]
      BY <1>2, <1>3 DEF Nothing
    <3> QED BY <1>3, <2>1, <2>4, <3>1, <3>2 DEF HalfWay
  <2>6. FilesInv'
    <3>1. "prepared" \in Undecided /\ "prepared" \notin Committed /\ "prepared" \in Unfinished
      BY DEF Undecided, Committed, Unfinished
    <3> QED BY <1>1, <1>2, <1>3, <2>2, <2>5, <3>1, FilesOne
  <2>7. Reached(s)'
    <3>1. \A p \in InUse(s) : backup'[s][p] = "none"
      BY <1>2, <1>3, <2>4 DEF Nothing, Managed
    <3> QED BY <2>1, <2>2, <2>3, <3>1 DEF Reached, HasBackup, Undecided
  <2>8. LockInv' /\ \A q \in Requests : Reached(q)'
    BY <1>0, <1>1, <1>3, <1>5, <2>3, <2>7, HandlerLock
  <2> QED BY <2>6, <2>8 DEF CInv
<1> QED BY <1>4, <1>5 DEF Prepare

(* The undo begins with every entry. *)
LEMMA StartUndoKeeps ==
    ASSUME CInv, TypeOK', NEW s \in Saves, pc[s] \in {"aside", "write"}, server = "up",
           StartUndo(s), UNCHANGED <<server, lock, todo, obsolete, replaced, journal, alive, rows, disk, backup>>
    PROVE  CInv'
<1>0. s \in Requests /\ pc[s] \in Inside \ {"reconcile"} /\ At(s, pc[s])
  BY DEF Inside, At
<1>1. TypeOK /\ FilesInv /\ LockInv /\ Reached(s) /\ todo = {} /\ pc[s] \in Inside
  BY <1>0, Holder
<1>2. pc' = [pc EXCEPT ![s] = "undo"] /\ pc'[s] = "undo" /\ left'[s] = Entries(s)
  BY <1>0, <1>1 DEF StartUndo, Goto, Remaining, TypeOK
<1>3. Reached(s)'
  <2>1. journal[s] \in Undecided
    BY <1>1 DEF Reached
  <2>2. Entries(s)' = Entries(s)
    BY DEF Entries
  <2> QED BY <1>2, <2>1, <2>2 DEF Reached
<1>4. FilesInv'
  BY <1>1, FilesFrame
<1>5. LockInv' /\ \A q \in Requests : Reached(q)'
  BY <1>0, <1>1, <1>2, <1>3, HandlerLock
<1> QED BY <1>4, <1>5 DEF CInv

LEMMA AsideFiles ==
    ASSUME TypeOK, NEW s \in Saves, HalfWay(s), NEW p \in Managed, ~HasBackup(s, p), SetAside(s, p),
           UNCHANGED <<rows, replaced, obsolete>>
    PROVE  /\ HalfWay(s)' /\ HasBackup(s, p)' /\ disk'[p] = "none"
           /\ \A q \in Paths \ {p} : disk'[q] = disk[q] /\ backup'[s][q] = backup[s][q]
           /\ \A t \in Saves \ {s} : backup'[t] = backup[t]
<1>1. p \in Paths /\ rows[p] # "none" /\ disk[p] = rows[p]
  BY DEF Managed, HalfWay, HasBackup
<1>2. /\ disk'[p] = "none" /\ backup'[s][p] = rows[p]
      /\ \A q \in Paths \ {p} : disk'[q] = disk[q] /\ backup'[s][q] = backup[s][q]
      /\ \A t \in Saves \ {s} : backup'[t] = backup[t]
  BY <1>1 DEF SetAside, TypeOK
<1>3. HalfWay(s)'
  <2>1. replaced'[s] = {q \in New[s] : rows'[q] # "none"} /\ obsolete'[s] = Managed' \ New[s]
    BY DEF HalfWay, Managed
  <2> QED BY <1>1, <1>2, <2>1 DEF HalfWay
<1> QED BY <1>1, <1>2, <1>3 DEF HasBackup

LEMMA MoveAsideKeeps ==
    ASSUME CInv, NEW s \in Saves, MoveAside(s), TypeOK'
    PROVE  CInv'
<1>0. s \in Requests /\ "aside" \in Inside \ {"reconcile"}
  BY DEF Inside
<1>1. /\ TypeOK /\ FilesInv /\ LockInv /\ Reached(s) /\ server = "up" /\ lock = s
      /\ pc[s] = "aside" /\ pc[s] \in Inside /\ todo = {}
  BY <1>0, Holder DEF MoveAside
<1>2. UNCHANGED <<server, lock, todo, obsolete, replaced, journal, alive, rows>>
  BY DEF MoveAside
<1>3. /\ journal[s] \in Undecided /\ journal[s] \in Unfinished /\ HalfWay(s) /\ left[s] \subseteq obsolete[s]
      /\ \A p \in obsolete[s] : HasBackup(s, p) <=> p \notin left[s]
  BY <1>1 DEF Reached, FilesInv, Unfinished
<1>4. CASE SetAside(s, Next1(s)) /\ Remaining(s, left[s] \ {Next1(s)}) /\ NoFault /\ UNCHANGED pc
  <2>0. PICK p : p = Next1(s)
    OBVIOUS
  <2>1. p \in left[s] /\ p \in obsolete[s] /\ p \in Managed /\ p \in Paths /\ ~HasBackup(s, p)
    BY <1>1, <1>3, <2>0, PathSets DEF MoveAside, HalfWay
  <2>2. left'[s] = left[s] \ {p}
    BY <1>0, <1>1, <1>4, <2>0 DEF Remaining, TypeOK
  <2>3. /\ HalfWay(s)' /\ HasBackup(s, p)' /\ disk'[p] = "none"
        /\ \A q \in Paths \ {p} : disk'[q] = disk[q] /\ backup'[s][q] = backup[s][q]
        /\ \A t \in Saves \ {s} : backup'[t] = backup[t]
    BY <1>1, <1>2, <1>3, <1>4, <2>0, <2>1, AsideFiles
  <2>4. FilesInv'
    BY <1>1, <1>2, <1>3, <2>3, FilesOne, OnlyPending, PendingRows
  <2>5. Reached(s)'
    <3>1. obsolete[s] \subseteq Paths
      BY <1>1, PathSets
    <3>2. \A q \in obsolete[s] : HasBackup(s, q)' <=> q \notin left'[s]
      BY <1>3, <2>1, <2>2, <2>3, <3>1 DEF HasBackup
    <3> QED BY <1>1, <1>2, <1>3, <1>4, <2>2, <3>2 DEF Reached
  <2>6. pc' = [pc EXCEPT ![s] = "aside"]
    BY <1>1, <1>4 DEF TypeOK
  <2>7. LockInv' /\ \A q \in Requests : Reached(q)'
    BY <1>0, <1>1, <1>2, <2>5, <2>6, HandlerLock
  <2> QED BY <2>4, <2>7 DEF CInv
<1>5. CASE Fault /\ StartUndo(s) /\ UNCHANGED <<disk, backup>>
  BY <1>1, <1>2, <1>5, StartUndoKeeps
<1> QED BY <1>4, <1>5 DEF MoveAside

LEMMA AllAsideKeeps ==
    ASSUME CInv, NEW s \in Saves, AllAside(s), TypeOK'
    PROVE  CInv'
<1>0. s \in Requests /\ "aside" \in Inside \ {"reconcile"}
  BY DEF Inside
<1>1. /\ TypeOK /\ FilesInv /\ LockInv /\ Reached(s) /\ server = "up" /\ lock = s
      /\ pc[s] = "aside" /\ pc[s] \in Inside /\ todo = {}
  BY <1>0, Holder DEF AllAside
<1>2. UNCHANGED <<server, lock, todo, obsolete, replaced, journal, alive, rows, disk, backup>>
  BY DEF AllAside
<1>3. pc' = [pc EXCEPT ![s] = "write"] /\ pc'[s] = "write" /\ left'[s] = New[s]
  BY <1>0, <1>1 DEF AllAside, Goto, Remaining, TypeOK
<1>4. journal[s] \in Undecided /\ \A p \in obsolete[s] : HasBackup(s, p)
  BY <1>1 DEF Reached, AllAside
<1>5. Reached(s)'
  BY <1>2, <1>3, <1>4 DEF Reached, HasBackup
<1>6. FilesInv'
  BY <1>1, <1>2, FilesFrame
<1>7. LockInv' /\ \A q \in Requests : Reached(q)'
  BY <1>0, <1>1, <1>2, <1>3, <1>5, HandlerLock
<1> QED BY <1>6, <1>7 DEF CInv

LEMMA WriteCoverKeeps ==
    ASSUME CInv, NEW s \in Saves, WriteCover(s), TypeOK'
    PROVE  CInv'
<1>0. s \in Requests /\ "write" \in Inside \ {"reconcile"}
  BY DEF Inside
<1>1. /\ TypeOK /\ FilesInv /\ LockInv /\ Reached(s) /\ server = "up" /\ lock = s
      /\ pc[s] = "write" /\ pc[s] \in Inside /\ todo = {}
  BY <1>0, Holder DEF WriteCover
<1>2. UNCHANGED <<server, lock, todo, obsolete, replaced, journal, alive, rows>>
  BY DEF WriteCover
<1>3. /\ journal[s] \in Undecided /\ journal[s] \in Unfinished /\ HalfWay(s) /\ left[s] \subseteq New[s]
      /\ \A p \in obsolete[s] : HasBackup(s, p)
      /\ \A p \in New[s] \ left[s] : disk[p] = s
  BY <1>1 DEF Reached, FilesInv, Unfinished
<1>4. PICK p : p = Next1(s)
  OBVIOUS
<1>5. p \in left[s] /\ p \in New[s] /\ p \in Paths /\ New[s] \subseteq Paths /\ obsolete[s] \subseteq Paths
  BY <1>1, <1>3, <1>4, PathSets DEF WriteCover
<1>6. p \notin obsolete[s] /\ (p \in replaced[s] <=> p \in Managed)
  BY <1>3, <1>5 DEF HalfWay, Managed
<1>7. CASE p \in replaced[s] /\ ~HasBackup(s, p) /\ SetAside(s, p) /\ UNCHANGED <<pc, left>>
  <2>1. /\ HalfWay(s)'
        /\ \A q \in Paths \ {p} : disk'[q] = disk[q] /\ backup'[s][q] = backup[s][q]
        /\ \A t \in Saves \ {s} : backup'[t] = backup[t]
    BY <1>1, <1>2, <1>3, <1>6, <1>7, AsideFiles
  <2>2. FilesInv'
    BY <1>1, <1>2, <1>3, <2>1, FilesOne, OnlyPending, PendingRows
  <2>3. Reached(s)'
    <3>1. \A q \in obsolete[s] : HasBackup(s, q)'
      BY <1>3, <1>5, <1>6, <2>1 DEF HasBackup
    <3>2. \A q \in New[s] \ left[s] : disk'[q] = s
      BY <1>3, <1>5, <2>1
    <3> QED BY <1>1, <1>2, <1>3, <1>7, <3>1, <3>2 DEF Reached
  <2>4. pc' = [pc EXCEPT ![s] = "write"]
    BY <1>1, <1>7 DEF TypeOK
  <2>5. LockInv' /\ \A q \in Requests : Reached(q)'
    BY <1>0, <1>1, <1>2, <2>3, <2>4, HandlerLock
  <2> QED BY <2>2, <2>5 DEF CInv
<1>8. CASE /\ p \in replaced[s] => HasBackup(s, p)
           /\ ~OnDisk(p) /\ disk' = [disk EXCEPT ![p] = s]
           /\ Remaining(s, left[s] \ {p}) /\ UNCHANGED <<pc, backup>>
  <2>1. left'[s] = left[s] \ {p} /\ disk'[p] = s /\ \A q \in Paths \ {p} : disk'[q] = disk[q]
    BY <1>0, <1>1, <1>5, <1>8 DEF Remaining, TypeOK
  <2>2. HalfWay(s)'
    <3>1. replaced'[s] = {q \in New[s] : rows'[q] # "none"} /\ obsolete'[s] = Managed' \ New[s]
      BY <1>2, <1>3 DEF HalfWay, Managed
    <3>2. rows[p] # "none" => backup[s][p] = rows[p]
      BY <1>3, <1>5, <1>6, <1>8 DEF HalfWay, HasBackup, Managed
    <3>3. rows[p] = "none" => backup[s][p] = "none"
      BY <1>3, <1>5 DEF HalfWay
    <3> QED BY <1>2, <1>3, <1>5, <1>8, <2>1, <3>1, <3>2, <3>3 DEF HalfWay
  <2>3. FilesInv'
    BY <1>1, <1>2, <1>3, <1>8, <2>2, FilesOne, OnlyPending, PendingRows
  <2>4. Reached(s)'
    <3>1. \A q \in New[s] \ left'[s] : disk'[q] = s
      BY <1>3, <1>5, <2>1
    <3>2. \A q \in obsolete[s] : HasBackup(s, q)'
      BY <1>3, <1>8 DEF HasBackup
    <3> QED BY <1>1, <1>2, <1>3, <1>8, <2>1, <3>1, <3>2 DEF Reached
  <2>5. pc' = [pc EXCEPT ![s] = "write"]
    BY <1>1, <1>8 DEF TypeOK
  <2>6. LockInv' /\ \A q \in Requests : Reached(q)'
    BY <1>0, <1>1, <1>2, <2>4, <2>5, HandlerLock
  <2> QED BY <2>3, <2>6 DEF CInv
<1>9. CASE Fault /\ StartUndo(s) /\ UNCHANGED <<disk, backup>>
  BY <1>1, <1>2, <1>9, StartUndoKeeps
<1> QED BY <1>4, <1>7, <1>8, <1>9 DEF WriteCover

LEMMA SaveKeeps ==
    ASSUME CInv, NEW s \in Saves, Save(s), TypeOK'
    PROVE  CInv'
<1>0. s \in Requests /\ "write" \in Inside \ {"reconcile"}
  BY DEF Inside
<1>1. /\ TypeOK /\ FilesInv /\ LockInv /\ Reached(s) /\ server = "up" /\ lock = s
      /\ pc[s] = "write" /\ pc[s] \in Inside /\ todo = {}
  BY <1>0, Holder DEF Save
<1>2. UNCHANGED <<server, lock, todo, obsolete, replaced, alive, disk, backup>> /\ left[s] = {}
  BY DEF Save
<1>3. CASE StartUndo(s) /\ UNCHANGED <<rows, journal>>
  BY <1>1, <1>2, <1>3, StartUndoKeeps
<1>4. CASE /\ alive
           /\ rows' = [p \in Paths |-> IF p \in New[s] THEN s ELSE "none"]
           /\ journal' = SetStateTx(journal, s, "db_committed")
           /\ Goto(s, "tidy") /\ Remaining(s, Entries(s))
  <2>1. /\ journal[s] \in Unfinished /\ HalfWay(s)
        /\ \A p \in obsolete[s] : HasBackup(s, p)
        /\ \A p \in New[s] : disk[p] = s
    BY <1>1, <1>2 DEF Reached, FilesInv, Unfinished
  <2>2. journal'[s] = "db_committed" /\ \A t \in Saves \ {s} : journal'[t] = journal[t]
    BY <1>1, <1>4 DEF SetStateTx, TypeOK
  <2>3. pc' = [pc EXCEPT ![s] = "tidy"] /\ pc'[s] = "tidy" /\ left'[s] = Entries(s)
    BY <1>0, <1>1, <1>4 DEF Goto, Remaining, TypeOK
  <2>4. \A p \in Paths : disk[p] = rows'[p]
    <3>1. ASSUME NEW p \in Paths, p \notin New[s] PROVE disk[p] = "none"
      <4>1. CASE rows[p] = "none"
        BY <2>1, <3>1, <4>1 DEF HalfWay
      <4>2. CASE rows[p] # "none"
        <5>1. p \in obsolete[s]
          BY <2>1, <3>1, <4>2 DEF HalfWay, Managed
        <5> QED BY <2>1, <3>1, <5>1 DEF HalfWay, HasBackup
      <4> QED BY <4>1, <4>2
    <3> QED BY <1>4, <2>1, <3>1
  <2>5. Done(s)'
    <3>1. disk' = rows'
      BY <1>2, <2>4 DEF TypeOK
    <3>2. New[s] \subseteq Managed'
      BY <1>1, <1>4, FileNames, PathSets DEF Managed
    <3>3. \A p \in Paths : backup'[s][p] # "none" => p \in Entries(s)
      BY <1>1, <1>2, <2>1, EntriesOf
    <3>4. Entries(s)' = Entries(s)
      BY <1>2 DEF Entries
    <3> QED BY <1>2, <1>4, <3>1, <3>2, <3>3, <3>4 DEF Done, HasBackup
  <2>6. FilesInv'
    <3>1. "db_committed" \in Committed /\ "db_committed" \in Unfinished /\ "db_committed" \notin Undecided
      BY DEF Committed, Unfinished, Undecided
    <3> QED BY <1>1, <1>2, <1>4, <2>1, <2>2, <2>5, <3>1, FilesOne, OnlyPending
  <2>7. Reached(s)'
    <3>1. Entries(s)' = Entries(s)
      BY <1>2 DEF Entries
    <3> QED BY <2>2, <2>3, <3>1 DEF Reached, Committed
  <2>8. LockInv' /\ \A q \in Requests : Reached(q)'
    BY <1>0, <1>1, <1>2, <2>3, <2>7, HandlerLock
  <2> QED BY <2>6, <2>8 DEF CInv
<1> QED BY <1>3, <1>4 DEF Save

LEMMA UndoKeeps ==
    ASSUME CInv, NEW s \in Saves, Undo(s), TypeOK'
    PROVE  CInv'
<1>0. s \in Requests /\ "undo" \in Inside \ {"reconcile"}
  BY DEF Inside
<1>1. /\ TypeOK /\ FilesInv /\ LockInv /\ Reached(s) /\ server = "up" /\ lock = s
      /\ pc[s] = "undo" /\ pc[s] \in Inside /\ todo = {}
  BY <1>0, Holder DEF Undo
<1>2. UNCHANGED <<server, todo, obsolete, replaced, alive, rows>>
  BY DEF Undo
<1>3. /\ journal[s] \in Undecided /\ journal[s] \in Unfinished /\ HalfWay(s) /\ left[s] \subseteq Entries(s)
      /\ \A p \in Entries(s) \ left[s] : ~HasBackup(s, p) /\ disk[p] = rows[p]
  BY <1>1 DEF Reached, FilesInv, Unfinished
<1>4. PICK p : p = Next1(s)
  OBVIOUS
<1>5. p \in left[s] /\ p \in Entries(s) /\ p \in Paths /\ Entries(s) \subseteq Paths /\ Entries(s)' = Entries(s)
  BY <1>1, <1>2, <1>3, <1>4, PathSets DEF Undo, Entries
<1>6. CASE /\ p \in replaced[s] /\ HasBackup(s, p) /\ OnDisk(p)
           /\ disk' = [disk EXCEPT ![p] = "none"]
           /\ UNCHANGED <<pc, lock, left, journal, backup>>
  <2>1. disk'[p] = "none" /\ \A q \in Paths \ {p} : disk'[q] = disk[q]
    BY <1>1, <1>5, <1>6 DEF TypeOK
  <2>2. HalfWay(s)'
    <3>1. replaced'[s] = {q \in New[s] : rows'[q] # "none"} /\ obsolete'[s] = Managed' \ New[s]
      BY <1>2, <1>3 DEF HalfWay, Managed
    <3>2. backup[s][p] = rows[p] /\ rows[p] # "none"
      BY <1>3, <1>5, <1>6 DEF HalfWay, HasBackup
    <3> QED BY <1>2, <1>3, <1>5, <1>6, <2>1, <3>1, <3>2 DEF HalfWay
  <2>3. FilesInv'
    BY <1>1, <1>2, <1>3, <1>6, <2>2, FilesOne, OnlyPending, PendingRows
  <2>4. Reached(s)'
    <3>1. \A q \in Entries(s) \ left[s] : ~HasBackup(s, q)' /\ disk'[q] = rows'[q]
      BY <1>2, <1>3, <1>5, <1>6, <2>1 DEF HasBackup
    <3> QED BY <1>1, <1>3, <1>5, <1>6, <3>1 DEF Reached
  <2>5. pc' = [pc EXCEPT ![s] = "undo"]
    BY <1>1, <1>6 DEF TypeOK
  <2>6. LockInv' /\ \A q \in Requests : Reached(q)'
    BY <1>0, <1>1, <1>2, <1>6, <2>4, <2>5, HandlerLock
  <2> QED BY <2>3, <2>6 DEF CInv
<1>7. CASE PutBack(s, {p}) /\ Remaining(s, left[s] \ {p}) /\ UNCHANGED <<pc, lock, journal>>
  <2>1. /\ HalfWay(s)' /\ backup'[s][p] = "none" /\ disk'[p] = rows[p]
        /\ \A q \in Paths \ {p} : disk'[q] = disk[q] /\ backup'[s][q] = backup[s][q]
        /\ \A t \in Saves \ {s} : backup'[t] = backup[t]
    BY <1>1, <1>2, <1>3, <1>5, <1>7, PutBackFiles
  <2>2. FilesInv'
    BY <1>1, <1>2, <1>3, <1>7, <2>1, FilesOne, OnlyPending, PendingRows
  <2>3. left'[s] = left[s] \ {p}
    BY <1>0, <1>1, <1>7 DEF Remaining, TypeOK
  <2>4. Reached(s)'
    <3>1. \A q \in Entries(s) \ left'[s] : ~HasBackup(s, q)' /\ disk'[q] = rows'[q]
      BY <1>2, <1>3, <1>5, <2>1, <2>3 DEF HasBackup
    <3> QED BY <1>1, <1>3, <1>5, <1>7, <2>3, <3>1 DEF Reached
  <2>5. pc' = [pc EXCEPT ![s] = "undo"]
    BY <1>1, <1>7 DEF TypeOK
  <2>6. LockInv' /\ \A q \in Requests : Reached(q)'
    BY <1>0, <1>1, <1>2, <1>7, <2>4, <2>5, HandlerLock
  <2> QED BY <2>2, <2>6 DEF CInv
<1>8. CASE journal' = SetState(journal, s, "failed") /\ Leave(s) /\ UNCHANGED <<disk, backup>>
  <2>1. journal'[s] = "failed" /\ \A t \in Saves \ {s} : journal'[t] = journal[t]
    BY <1>1, <1>3, <1>8, PendingSet DEF TypeOK
  <2>2. HalfWay(s)'
    BY <1>2, <1>3, <1>8 DEF HalfWay, Managed
  <2>3. FilesInv'
    <3>1. "failed" \in Undecided /\ "failed" \notin Committed /\ "failed" \in Unfinished
      BY DEF Undecided, Committed, Unfinished
    <3> QED BY <1>1, <1>2, <1>3, <1>8, <2>1, <2>2, <3>1, FilesOne, OnlyPending
  <2>4. pc' = [pc EXCEPT ![s] = "gone"] /\ lock' = Nobody /\ pc'[s] = "gone"
    BY <1>0, <1>1, <1>8 DEF Leave, Goto, TypeOK
  <2>5. Reached(s)'
    BY <2>4 DEF Reached
  <2>6. LockInv' /\ \A q \in Requests : Reached(q)'
    BY <1>0, <1>1, <1>2, <2>4, <2>5, HandlerLock
  <2> QED BY <2>3, <2>6 DEF CInv
<1> QED BY <1>4, <1>6, <1>7, <1>8 DEF Undo

LEMMA TidyKeeps ==
    ASSUME CInv, NEW s \in Saves, Tidy(s), TypeOK'
    PROVE  CInv'
<1>0. s \in Requests /\ "tidy" \in Inside \ {"reconcile"}
  BY DEF Inside
<1>1. /\ TypeOK /\ FilesInv /\ LockInv /\ Reached(s) /\ server = "up" /\ lock = s
      /\ pc[s] = "tidy" /\ pc[s] \in Inside /\ todo = {}
  BY <1>0, Holder DEF Tidy
<1>2. UNCHANGED <<server, todo, obsolete, replaced, alive, rows, disk>>
  BY DEF Tidy
<1>3. /\ journal[s] \in Committed /\ journal[s] \in Unfinished /\ Done(s) /\ left[s] \subseteq Entries(s)
      /\ \A p \in Entries(s) \ left[s] : ~HasBackup(s, p)
  BY <1>1 DEF Reached, FilesInv, Unfinished
<1>4. PICK p : p = Next1(s)
  OBVIOUS
<1>5. p \in left[s] /\ p \in Entries(s) /\ p \in Paths /\ Entries(s) \subseteq Paths /\ Entries(s)' = Entries(s)
  BY <1>1, <1>2, <1>3, <1>4, PathSets DEF Tidy, Entries
<1>6. CASE DropBackups(s, {p}) /\ Remaining(s, left[s] \ {p}) /\ UNCHANGED <<pc, lock, journal>>
  <2>1. /\ backup'[s][p] = "none"
        /\ \A q \in Paths \ {p} : backup'[s][q] = backup[s][q]
        /\ \A t \in Saves \ {s} : backup'[t] = backup[t]
    BY <1>1, <1>5, <1>6, DropFiles
  <2>2. Done(s)'
    <3>1. \A q \in Paths : HasBackup(s, q)' => q \in Entries(s)
      BY <1>3, <2>1 DEF Done, HasBackup
    <3>2. Managed' = Managed
      BY <1>2 DEF Managed
    <3> QED BY <1>2, <1>3, <1>5, <3>1, <3>2 DEF Done
  <2>3. FilesInv'
    BY <1>1, <1>2, <1>3, <1>6, <2>1, <2>2, FilesOne, OnlyPending, PendingRows
  <2>4. left'[s] = left[s] \ {p}
    BY <1>0, <1>1, <1>6 DEF Remaining, TypeOK
  <2>5. Reached(s)'
    <3>1. \A q \in Entries(s) \ left'[s] : ~HasBackup(s, q)'
      BY <1>3, <1>5, <2>1, <2>4 DEF HasBackup
    <3> QED BY <1>1, <1>3, <1>5, <1>6, <2>4, <3>1 DEF Reached
  <2>6. pc' = [pc EXCEPT ![s] = "tidy"]
    BY <1>1, <1>6 DEF TypeOK
  <2>7. LockInv' /\ \A q \in Requests : Reached(q)'
    BY <1>0, <1>1, <1>2, <1>6, <2>5, <2>6, HandlerLock
  <2> QED BY <2>3, <2>7 DEF CInv
<1>7. CASE Leave(s) /\ journal' = SetState(journal, s, "cleanup_pending") /\ UNCHANGED backup
  <2>1. journal'[s] = "cleanup_pending" /\ \A t \in Saves \ {s} : journal'[t] = journal[t]
    BY <1>1, <1>3, <1>7, PendingSet DEF TypeOK
  <2>2. Done(s)'
    BY <1>2, <1>3, <1>7 DEF Done, Managed, HasBackup, Entries
  <2>3. FilesInv'
    <3>1. "cleanup_pending" \notin Undecided /\ "cleanup_pending" \in Committed /\ "cleanup_pending" \in Unfinished
      BY DEF Undecided, Committed, Unfinished
    <3> QED BY <1>1, <1>2, <1>3, <1>7, <2>1, <2>2, <3>1, FilesOne, OnlyPending
  <2>4. pc' = [pc EXCEPT ![s] = "gone"] /\ lock' = Nobody /\ pc'[s] = "gone"
    BY <1>0, <1>1, <1>7 DEF Leave, Goto, TypeOK
  <2>5. Reached(s)'
    BY <2>4 DEF Reached
  <2>6. LockInv' /\ \A q \in Requests : Reached(q)'
    BY <1>0, <1>1, <1>2, <2>4, <2>5, HandlerLock
  <2> QED BY <2>3, <2>6 DEF CInv
<1> QED BY <1>4, <1>6, <1>7 DEF Tidy

LEMMA FinishKeeps ==
    ASSUME CInv, NEW s \in Saves, Finish(s), TypeOK'
    PROVE  CInv'
<1>0. s \in Requests /\ {"undo", "tidy"} \subseteq Inside \ {"reconcile"}
  BY DEF Inside
<1>1. /\ TypeOK /\ FilesInv /\ LockInv /\ Reached(s) /\ server = "up" /\ lock = s
      /\ pc[s] \in {"undo", "tidy"} /\ pc[s] \in Inside /\ todo = {}
  BY <1>0, Holder DEF Finish
<1>2. UNCHANGED <<server, todo, obsolete, replaced, alive, rows, disk, backup>> /\ left[s] = {} /\ Leave(s)
  BY DEF Finish
<1>3. journal[s] \in Unfinished
  BY <1>1 DEF Reached, Unfinished
<1>4. disk = rows /\ backup[s] = Nothing
  <2>1. \A p \in Paths : disk[p] = rows[p] /\ backup[s][p] = "none"
    <3>1. CASE pc[s] = "undo"
      <4>1. HalfWay(s) /\ \A p \in Entries(s) : ~HasBackup(s, p) /\ disk[p] = rows[p]
        BY <1>1, <1>2, <3>1 DEF Reached, FilesInv
      <4> QED BY <1>1, <4>1, EntriesOf DEF HasBackup
    <3>2. CASE pc[s] = "tidy"
      <4>1. Done(s) /\ \A p \in Entries(s) : ~HasBackup(s, p)
        BY <1>1, <1>2, <3>2 DEF Reached, FilesInv
      <4> QED BY <4>1 DEF Done, HasBackup
    <3> QED BY <1>1, <3>1, <3>2
  <2> QED BY <1>1, <2>1 DEF TypeOK, Nothing
<1>5. FilesInv'
  <2>1. CASE journal' = journal
    BY <1>1, <1>2, <2>1, FilesFrame
  <2>2. CASE journal' = SetState(journal, s, "completed")
    <3>1. journal'[s] = "completed" /\ \A t \in Saves \ {s} : journal'[t] = journal[t]
      BY <1>1, <1>3, <2>2, PendingSet DEF TypeOK
    <3>2. "completed" \notin Unfinished /\ "completed" \notin Undecided /\ "completed" \notin Committed
      BY DEF Undecided, Committed, Unfinished
    <3> QED BY <1>1, <1>2, <1>3, <1>4, <3>1, <3>2, FilesOne, OnlyPending
  <2> QED BY <2>1, <2>2 DEF Finish
<1>6. pc' = [pc EXCEPT ![s] = "gone"] /\ lock' = Nobody /\ pc'[s] = "gone"
  BY <1>0, <1>1, <1>2 DEF Leave, Goto, TypeOK
<1>7. Reached(s)'
  BY <1>6 DEF Reached
<1>8. LockInv' /\ \A q \in Requests : Reached(q)'
  BY <1>0, <1>1, <1>2, <1>6, <1>7, HandlerLock
<1> QED BY <1>5, <1>8 DEF CInv

LEMMA DeleteKeeps ==
    ASSUME CInv, NEW r \in Deleters, DeleteGame(r), TypeOK'
    PROVE  CInv'
<1>0. r \in Requests /\ "plan" \in Inside \ {"reconcile"}
  BY DEF Inside
<1>1. /\ TypeOK /\ FilesInv /\ LockInv /\ Reached(r) /\ server = "up" /\ lock = r
      /\ pc[r] = "plan" /\ pc[r] \in Inside /\ todo = {}
  BY <1>0, Holder DEF DeleteGame
<1>2. Pending = {} /\ disk = rows /\ \A s \in Saves : journal[s] \notin Unfinished
  BY <1>1, PendingRows DEF Reached, FilesInv
<1>3. UNCHANGED <<server, todo, journal, backup>> /\ rows' = Nothing /\ alive' = FALSE /\ Leave(r)
  BY DEF DeleteGame
<1>4. disk' = Nothing
  <2>1. \A p \in Paths : p \notin Managed => disk[p] = "none"
    BY <1>2 DEF Managed
  <2> QED BY <2>1 DEF DeleteGame, Nothing
<1>5. FilesInv'
  <2>1. Pending' = {} /\ \A s \in Saves : journal'[s] \notin Undecided \cup Committed
    BY <1>2, <1>3 DEF Pending, Unfinished
  <2>2. \A s \in Saves : backup'[s] = Nothing
    BY <1>1, <1>2, <1>3 DEF FilesInv
  <2> QED BY <1>3, <1>4, <2>1, <2>2 DEF FilesInv, Nothing
<1>6. pc' = [pc EXCEPT ![r] = "gone"] /\ lock' = Nobody /\ pc'[r] = "gone"
  BY <1>0, <1>1, <1>3 DEF Leave, Goto, TypeOK
<1>7. Reached(r)'
  BY <1>6 DEF Reached
<1>8. LockInv' /\ \A q \in Requests : Reached(q)'
  BY <1>0, <1>1, <1>3, <1>6, <1>7, HandlerLock
<1> QED BY <1>5, <1>8 DEF CInv

-----------------------------------------------------------------------------
(* Requests before and after, crashes and starts *)

LEMMA RequestKeeps ==
    ASSUME CInv, NEW r \in Requests, TypeOK',
           Begin(r) \/ LockAssets(r) \/ Reconciled(r) \/ Abandon(r)
    PROVE  CInv'
<1> USE DEF CInv
<1>0. UNCHANGED <<replaced, obsolete, journal, alive, rows, disk, backup>>
  BY DEF Begin, LockAssets, Reconciled, Abandon
<1>1. FilesInv' /\ Pending' = Pending
  BY <1>0, FilesFrame DEF Pending
<1>2. CASE Begin(r)
  <2>1. /\ UNCHANGED <<server, lock, todo, left>> /\ pc'[r] \in {"lock", "gone"} /\ pc[r] = "idle"
        /\ server = "up" /\ \A q \in Requests \ {r} : pc'[q] = pc[q]
    BY <1>2 DEF Begin, At, Goto, TypeOK
  <2>2. Reconciling' <=> Reconciling
    BY <2>1 DEF Reconciling, TypeOK
  <2>3. LockInv'
    BY <1>1, <2>1, <2>2 DEF LockInv, Inside
  <2>4. ASSUME NEW q \in Requests PROVE Reached(q)'
    BY <1>0, <1>1, <2>1 DEF Reached, HasBackup, Entries
  <2> QED BY <1>1, <2>3, <2>4
<1>3. CASE LockAssets(r)
  <2>1. /\ server = "up" /\ server' = "up" /\ lock = Nobody /\ lock' = r /\ todo' = Pending
        /\ pc'[r] = "reconcile" /\ \A q \in Requests \ {r} : pc'[q] = pc[q]
    BY <1>3 DEF LockAssets, At, Goto, TypeOK, Pending
  <2>2. \A q \in Requests : pc[q] \notin Inside
    BY <2>1 DEF LockInv
  <2>3. Reconciling'
    BY <2>1 DEF Reconciling
  <2>4. LockInv'
    BY <1>1, <2>1, <2>2, <2>3 DEF LockInv, Inside
  <2>5. \A q \in Requests : Reached(q)'
    BY <2>1, <2>2 DEF Reached, Inside
  <2> QED BY <1>1, <2>4, <2>5
<1>4. CASE Reconciled(r)
  <2>1. /\ server = "up" /\ UNCHANGED <<server, lock, todo>> /\ todo = {} /\ pc[r] = "reconcile"
        /\ pc' = [pc EXCEPT ![r] = "plan"] /\ pc'[r] = "plan"
    BY <1>4 DEF Reconciled, At, Goto, TypeOK
  <2>2. pc[r] \in Inside /\ lock = r
    BY <2>1 DEF LockInv, Inside
  <2>3. Pending = {}
    BY <2>1, <2>2 DEF LockInv, Reconciling
  <2>4. Reached(r)'
    BY <1>1, <2>1, <2>3 DEF Reached
  <2>5. LockInv' /\ \A q \in Requests : Reached(q)'
    BY <2>1, <2>2, <2>4, HandlerLock
  <2> QED BY <1>1, <2>5
<1>5. CASE Abandon(r)
  <2>1. /\ server' = "up" /\ lock' = Nobody /\ todo' = {}
        /\ pc' = [pc EXCEPT ![r] = "gone"] /\ pc'[r] = "gone"
    BY <1>5 DEF Abandon, Leave, Goto, TypeOK
  <2>2. pc[r] \in Inside
    BY <1>5 DEF Abandon, LockInv, Inside, TypeOK, PCs
  <2>3. Reached(r)'
    BY <2>1 DEF Reached
  <2>4. LockInv' /\ \A q \in Requests : Reached(q)'
    BY <2>1, <2>2, <2>3, HandlerLock
  <2> QED BY <1>1, <2>4
<1> QED BY <1>2, <1>3, <1>4, <1>5

LEMMA ServerKeeps ==
    ASSUME CInv, TypeOK', Crash \/ Start \/ Ready \/ UNCHANGED vars
    PROVE  CInv'
<1> USE DEF CInv
<1>0. UNCHANGED <<replaced, obsolete, journal, alive, rows, disk, backup>>
  BY DEF Crash, Start, Ready, vars
<1>1. FilesInv' /\ Pending' = Pending
  BY <1>0, FilesFrame DEF Pending
<1>2. CASE Crash
  <2>1. /\ server' = "down" /\ lock' = Nobody /\ todo' = {}
        /\ \A q \in Requests : pc'[q] \in {"idle", "gone"}
    BY <1>2 DEF Crash
  <2>2. ~Reconciling'
    BY <2>1 DEF Reconciling
  <2>3. LockInv' /\ \A q \in Requests : Reached(q)'
    BY <2>1, <2>2 DEF LockInv, Reached, Inside
  <2> QED BY <1>1, <2>3
<1>3. CASE Start \/ Ready
  <2>1. /\ server # "up" /\ UNCHANGED <<lock, pc, left>>
        /\ \/ server' = "recovering" /\ todo' = Pending
           \/ server = "recovering" /\ todo = {} /\ todo' = {} /\ server' = "up"
    BY <1>3 DEF Start, Ready, Pending
  <2>2. \A q \in Requests : pc[q] \notin Inside
    BY <2>1 DEF LockInv
  <2>3. lock # Nobody => pc[lock] # "reconcile"
    BY <2>2 DEF TypeOK, Inside
  <2>4. todo' = Pending /\ (server' = "recovering" \/ Pending = {})
    BY <2>1 DEF LockInv, Reconciling
  <2>5. Reconciling' \/ (server' = "up" /\ todo' = {})
    BY <2>1, <2>3 DEF Reconciling
  <2>6. LockInv'
    BY <1>1, <2>1, <2>2, <2>4, <2>5 DEF LockInv, Inside
  <2>7. \A q \in Requests : Reached(q)'
    BY <2>1, <2>2 DEF Reached, Inside
  <2> QED BY <1>1, <2>6, <2>7
<1>4. CASE UNCHANGED vars
  <2>1. LockInv'
    BY <1>4 DEF vars, LockInv, Reconciling, Pending
  <2>2. ASSUME NEW q \in Requests PROVE Reached(q)'
    BY <1>4, <1>1 DEF vars, Reached, HasBackup, Entries
  <2> QED BY <1>1, <2>1, <2>2
<1> QED BY <1>2, <1>3, <1>4

-----------------------------------------------------------------------------
(* Reconciliation *)

(* Nothing is in the way of a reconciliation. *)
LEMMA NeverRefused ==
    ASSUME TypeOK, FilesInv, NEW o \in Saves, journal[o] \in Unfinished
    PROVE  ~Refuses(o)
<1>1. RollsBack(o) => Blocked(o) = {}
  BY EntriesOf DEF RollsBack, FilesInv
<1>2. Tidies(o) => \A p \in New[o] : OnDisk(p)
  BY DEF Tidies, FilesInv, Done, Managed, OnDisk
<1> QED BY <1>1, <1>2 DEF Refuses

(* Nobody who holds the lock is past his reconciliation meanwhile. *)
LEMMA WhileReconciling ==
    ASSUME CInv, Reconciling
    PROVE  \A q \in Requests : pc[q] \in Inside => pc[q] = "reconcile"
BY DEF CInv, LockInv, Reconciling

LEMMA ReconcileKeeps ==
    ASSUME CInv, TypeOK', MaxRecoveryFaults = 0, NEW o \in Saves, Reconcile(o)
    PROVE  CInv'
<1>1. /\ TypeOK /\ FilesInv /\ LockInv /\ Reconciling /\ o \in todo /\ todo = Pending
      /\ UNCHANGED <<server, obsolete, replaced, alive, rows>>
  BY DEF CInv, LockInv, Reconcile
<1>2. journal[o] \in Unfinished /\ todo = {o}
  BY <1>1, PendingRows DEF FilesInv
<1>3. /\ Treat(o, Entries(o)) /\ journal' = SetState(journal, o, "completed")
      /\ todo' = todo \ {o} /\ UNCHANGED <<lock, pc, left>>
  <2>1. ~RecoveryFault
    BY <1>1 DEF RecoveryFault, TypeOK
  <2> QED BY <1>1, <1>2, <2>1, NeverRefused DEF Reconcile
<1>4. journal'[o] = "completed" /\ \A t \in Saves \ {o} : journal'[t] = journal[t]
  BY <1>1, <1>2, <1>3, PendingSet DEF TypeOK
<1>5. /\ disk' = rows' /\ backup'[o] = Nothing
      /\ \A t \in Saves \ {o} : backup'[t] = backup[t]
  <2>1. disk' \in [Paths -> Files] /\ backup' \in [Saves -> [Paths -> Files]]
    BY DEF TypeOK
  <2> QED BY <1>1, <1>2, <1>3, <2>1, TreatFiles
<1>6. "completed" \notin Unfinished /\ "completed" \notin Undecided /\ "completed" \notin Committed
  BY DEF Undecided, Committed, Unfinished
<1>7. FilesInv'
  BY <1>1, <1>2, <1>4, <1>5, <1>6, FilesOne, OnlyPending
<1>8. Pending' = {}
  <2>1. Pending' = {t \in Saves : journal'[t] \in Unfinished}
    BY DEF Pending, PendingOps, TypeOK
  <2> QED BY <1>1, <1>2, <1>4, <1>6, <2>1, PendingRows
<1>9. LockInv'
  BY <1>1, <1>2, <1>3, <1>8 DEF LockInv
<1>10. \A q \in Requests : Reached(q)'
  BY <1>1, <1>3, WhileReconciling DEF Reached, Inside
<1> QED BY <1>7, <1>9, <1>10 DEF CInv

LEMMA InterruptKeeps ==
    ASSUME CInv, TypeOK', NEW o \in Saves, Interrupt(o)
    PROVE  CInv'
<1>1. /\ TypeOK /\ FilesInv /\ LockInv /\ Reconciling /\ o \in todo /\ todo = Pending /\ todo' = {}
      /\ UNCHANGED <<obsolete, replaced, journal, alive, rows>>
  BY DEF CInv, LockInv, Interrupt
<1>2. journal[o] \in Unfinished
  BY <1>1, PendingRows
<1>3. PICK paths \in SUBSET (Entries(o) \ Blocked(o)) : Treat(o, paths)
  BY DEF Interrupt
<1>4. /\ \A t \in Saves \ {o} : backup'[t] = backup[t]
      /\ journal[o] \in Undecided => HalfWay(o)'
      /\ journal[o] \in Committed => Done(o)'
  <2>1. disk' \in [Paths -> Files] /\ backup' \in [Saves -> [Paths -> Files]]
    BY DEF TypeOK
  <2>2. paths \in SUBSET Entries(o)
    BY <1>3
  <2> QED BY <1>1, <1>2, <1>3, <2>1, <2>2, TreatFiles
<1>5. FilesInv'
  BY <1>1, <1>2, <1>4, FilesOne, OnlyPending
<1>6. CASE server = "up" /\ Leave(lock) /\ UNCHANGED <<server, crashes>>
  <2>1. lock \in Requests /\ pc[lock] = "reconcile"
    BY <1>1, <1>6 DEF Reconciling, TypeOK
  <2>2. PICK r \in Requests : r = lock
    BY <2>1
  <2>3. /\ pc' = [pc EXCEPT ![r] = "gone"] /\ pc'[r] = "gone" /\ lock' = Nobody
        /\ pc[r] \in Inside /\ server' = "up"
    BY <1>1, <1>6, <2>1, <2>2 DEF Leave, Goto, TypeOK, Inside
  <2>4. Reached(r)'
    BY <2>3 DEF Reached
  <2>5. LockInv' /\ \A q \in Requests : Reached(q)'
    BY <1>1, <2>3, <2>4, HandlerLock
  <2> QED BY <1>5, <2>5 DEF CInv
<1>7. CASE server = "recovering" /\ server' = "down" /\ UNCHANGED <<lock, pc, left>>
  <2>1. \A q \in Requests : pc[q] \notin Inside
    BY <1>1, <1>7 DEF LockInv
  <2>2. ~Reconciling'
    BY <1>7 DEF Reconciling
  <2>3. LockInv' /\ \A q \in Requests : Reached(q)'
    BY <1>1, <1>7, <2>1, <2>2 DEF LockInv, Reached, Inside
  <2> QED BY <1>5, <2>3 DEF CInv
<1> QED BY <1>6, <1>7 DEF Interrupt

-----------------------------------------------------------------------------
(* The invariant, and what follows *)

LEMMA InitKeeps == Init => CInv
<1> SUFFICES ASSUME Init PROVE CInv
  OBVIOUS
<1>1. TypeOK
  BY InitTyping
<1>2. Pending = {} /\ \A s \in Saves : journal[s] \notin Undecided \cup Committed
  BY DEF Init, Pending, PendingOps, Unfinished, Undecided, Committed
<1>3. FilesInv
  BY <1>2 DEF Init, FilesInv
<1>4. LockInv /\ \A r \in Requests : Reached(r)
  BY <1>2 DEF Init, LockInv, Reached, Inside, Reconciling
<1> QED BY <1>1, <1>3, <1>4 DEF CInv

LEMMA CoversStep == MaxRecoveryFaults = 0 /\ CInv /\ [Next]_vars => CInv'
<1> SUFFICES ASSUME MaxRecoveryFaults = 0, CInv, [Next]_vars
             PROVE  CInv'
  OBVIOUS
<1>1. TypeOK'
  BY TypingStep DEF CInv
<1>2. ASSUME NEW s \in Saves, Saving(s)
      PROVE  CInv'
  BY <1>1, <1>2, PrepareKeeps, MoveAsideKeeps, AllAsideKeeps, WriteCoverKeeps, SaveKeeps,
     UndoKeeps, TidyKeeps, FinishKeeps DEF Saving
<1>3. ASSUME NEW r \in Requests, Begin(r) \/ LockAssets(r) \/ Reconciled(r) \/ Abandon(r)
      PROVE  CInv'
  BY <1>1, <1>3, RequestKeeps
<1>4. ASSUME NEW r \in Deleters, DeleteGame(r)
      PROVE  CInv'
  BY <1>1, <1>4, DeleteKeeps
<1>5. ASSUME NEW s \in Saves, Interrupt(s)
      PROVE  CInv'
  BY <1>1, <1>5, InterruptKeeps
<1>6. ASSUME NEW s \in Saves, Reconcile(s)
      PROVE  CInv'
  BY <1>1, <1>6, ReconcileKeeps
<1>7. CASE Start \/ Ready \/ Crash \/ UNCHANGED vars
  BY <1>1, <1>7, ServerKeeps
<1> QED BY <1>2, <1>3, <1>4, <1>5, <1>6, <1>7 DEF Next, Recovery

LEMMA CoversFollow == CInv => CoversAreThere /\ SettledLeavesNoFile
<1> SUFFICES ASSUME CInv PROVE CoversAreThere /\ SettledLeavesNoFile
  OBVIOUS
<1>0. TypeOK /\ FilesInv
  BY DEF CInv
<1>1. ASSUME NEW p \in Managed, disk[p] # rows[p]
      PROVE  \E s \in Saves : backup[s][p] = rows[p] /\ journal[s] \in Undecided
  <2>1. p \in Paths /\ rows[p] # "none"
    BY DEF Managed
  <2>2. PICK s \in Pending : TRUE
    BY <1>0, <1>1 DEF FilesInv
  <2>3. s \in Saves /\ journal[s] \in Undecided \cup Committed
    BY <1>0, <2>2, PendingRows
  <2>4. journal[s] \in Undecided
    BY <1>0, <1>1, <2>3 DEF FilesInv, Done
  <2>5. HalfWay(s)
    BY <1>0, <2>3, <2>4 DEF FilesInv
  <2> QED BY <1>1, <2>1, <2>3, <2>4, <2>5 DEF HalfWay
<1>2. CoversAreThere
  BY <1>1 DEF CoversAreThere
<1>3. ASSUME Pending = {}
      PROVE  {p \in Paths : OnDisk(p)} \subseteq Managed /\ \A s \in Saves : backup[s] = Nothing
  BY <1>0, <1>3 DEF FilesInv, OnDisk, Managed
<1> QED BY <1>2, <1>3 DEF SettledLeavesNoFile, Pending

(* For any requests, covers and paths, handler errors, disconnects and      *)
(* crashes: each cover of the game is there, or will be put back.           *)
THEOREM CoversAreKept ==
    ASSUME MaxRecoveryFaults = 0
    PROVE  Spec => []CoversAreThere
<1>1. CInv /\ [Next]_vars => CInv'
  BY CoversStep
<1> QED BY <1>1, InitKeeps, CoversFollow, PTL DEF Spec

(* Once every operation is settled, no backup and no file is left over.     *)
THEOREM CoversLeaveNothing ==
    ASSUME MaxRecoveryFaults = 0
    PROVE  Spec => []SettledLeavesNoFile
<1>1. CInv /\ [Next]_vars => CInv'
  BY CoversStep
<1> QED BY <1>1, InitKeeps, CoversFollow, PTL DEF Spec

(* A start settles every operation before the server answers requests.      *)
THEOREM StartsSettleCovers ==
    ASSUME MaxRecoveryFaults = 0
    PROVE  Spec => StartSettlesCovers
<1>1. CInv /\ [Next]_vars => CInv'
  BY CoversStep
<1>2. ASSUME CInv, [Next]_vars, server = "recovering", server' = "up"
      PROVE  PendingOps(journal) = {}
  <2>1. Ready
    <3>1. ASSUME NEW s \in Saves, Saving(s) \/ Interrupt(s) \/ Reconcile(s) PROVE FALSE
      <4>1. CASE Saving(s)
        BY <1>2, <4>1 DEF Saving, Prepare, MoveAside, AllAside, WriteCover, Save, Undo, Tidy, Finish, At
      <4>2. CASE Interrupt(s) \/ Reconcile(s)
        BY <1>2, <4>2 DEF Interrupt, Reconcile
      <4> QED BY <3>1, <4>1, <4>2
    <3>2. ASSUME NEW r \in Requests, Begin(r) \/ LockAssets(r) \/ Reconciled(r) \/ Abandon(r) PROVE FALSE
      BY <1>2, <3>2 DEF Begin, LockAssets, Reconciled, Abandon, At
    <3>3. ASSUME NEW r \in Deleters, DeleteGame(r) PROVE FALSE
      BY <1>2, <3>3 DEF DeleteGame, At
    <3>4. ~Start /\ ~Crash /\ ~UNCHANGED vars
      BY <1>2 DEF Start, Crash, vars
    <3> QED BY <1>2, <3>1, <3>2, <3>3, <3>4 DEF Next, Recovery
  <2> QED BY <1>2, <2>1 DEF Ready, CInv, LockInv, Reconciling, Pending
<1>3. CInv /\ [Next]_vars => [server = "recovering" /\ server' = "up" => PendingOps(journal) = {}]_vars
  BY <1>2
<1> QED BY <1>1, <1>3, InitKeeps, PTL DEF Spec, StartSettlesCovers
=============================================================================
