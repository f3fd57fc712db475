------------------------------ MODULE CoverOps ------------------------------
(* Replacing the managed covers of a game: under the lock of the asset root *)
(* the pending cover operations are reconciled first, the covers in use are *)
(* moved to backups, the new ones are written, one transaction moves the    *)
(* row and the journal together, and the backups go; and what the next      *)
(* holder of the lock, or the next start, makes of a replacement that       *)
(* stopped half-way.                                                        *)
(*                                                                          *)
(* A file is named for the request that wrote it; "first" is the cover the  *)
(* game had at the start.                                                   *)
EXTENDS FileJournal, Integers, FiniteSets

CONSTANTS
    Saves,      \* requests that replace the covers of the game
    Deleters,   \* requests that delete the game
    Paths,      \* cover paths of the game below the asset root
    New,        \* New[s]: the paths of the covers that s brings
    FirstPath,  \* the path of the cover the game has at the start
    Nobody,
    MaxFaults,          \* I/O errors met by requests
    MaxRecoveryFaults,  \* I/O errors met while reconciling
    MaxCrashes

ASSUME CoversAssumption ==
    /\ New \in [Saves -> SUBSET Paths] /\ \A s \in Saves : New[s] # {}
    /\ FirstPath \in Paths /\ Saves \cap Deleters = {}
    /\ Nobody \notin Saves \cup Deleters /\ {"first", "none"} \cap Saves = {}
    /\ MaxFaults \in Nat /\ MaxRecoveryFaults \in Nat /\ MaxCrashes \in Nat

VARIABLES
    server,    \* "up", "down" or "recovering"
    lock,      \* the request that holds the lock of the asset root
    pc,        \* pc[r]: where the handler of r is
    todo,      \* the pending rows the holder of the lock has still to reconcile
    seen,      \* seen[r]: the cover paths r read before it took the lock
    obsolete,  \* obsolete[s]: the other covers s replaces, from its payload
    replaced,  \* replaced[s]: the new paths that were occupied, from its payload
    left,      \* left[s]: what the loop of this step has still to do
    journal,   \* journal[s]: the row of the operation
    alive,     \* the game is in the database
    rows,      \* rows[p]: the file for which the game has a cover at p
    disk,      \* disk[p]: the file at p
    backup,    \* backup[s][p]: the file from p in the trash directory of s
    faults, recoveryFaults, crashes

vars == <<server, lock, pc, todo, seen, obsolete, replaced, left, journal,
          alive, rows, disk, backup, faults, recoveryFaults, crashes>>

Requests == Saves \cup Deleters
Files == Saves \cup {"first", "none"}
PCs == {"idle", "lock", "reconcile", "plan", "aside", "write", "save", "undo", "tidy", "gone"}
Nothing == [p \in Paths |-> "none"]

TypeOK ==
    /\ server \in {"up", "down", "recovering"}
    /\ lock \in Requests \cup {Nobody}
    /\ pc \in [Requests -> PCs]
    /\ todo \subseteq Saves
    /\ seen \in [Requests -> SUBSET Paths]
    /\ obsolete \in [Saves -> SUBSET Paths]
    /\ replaced \in [Saves -> SUBSET Paths]
    /\ left \in [Requests -> SUBSET Paths]
    /\ journal \in [Saves -> JournalStates]
    /\ alive \in BOOLEAN
    /\ rows \in [Paths -> Files]
    /\ disk \in [Paths -> Files]
    /\ backup \in [Saves -> [Paths -> Files]]
    /\ faults \in 0..MaxFaults /\ recoveryFaults \in 0..MaxRecoveryFaults
    /\ crashes \in 0..MaxCrashes

Init ==
    /\ server = "up" /\ lock = Nobody /\ todo = {}
    /\ pc = [r \in Requests |-> "idle"]
    /\ seen = [r \in Requests |-> {}] /\ obsolete = [s \in Saves |-> {}]
    /\ replaced = [s \in Saves |-> {}] /\ left = [r \in Requests |-> {}]
    /\ journal = [s \in Saves |-> "absent"]
    /\ alive = TRUE
    /\ rows = [Nothing EXCEPT ![FirstPath] = "first"]
    /\ disk = [Nothing EXCEPT ![FirstPath] = "first"]
    /\ backup = [s \in Saves |-> Nothing]
    /\ faults = 0 /\ recoveryFaults = 0 /\ crashes = 0

-----------------------------------------------------------------------------
(* Vocabulary *)

At(s, label) == server = "up" /\ pc[s] = label
Goto(s, label) == pc' = [pc EXCEPT ![s] = label]
Remaining(s, paths) == left' = [left EXCEPT ![s] = paths]
Leave(s) == Goto(s, "gone") /\ Remaining(s, {}) /\ lock' = Nobody

Fault == faults < MaxFaults /\ faults' = faults + 1
NoFault == faults' = faults
RecoveryFault == recoveryFaults < MaxRecoveryFaults /\ recoveryFaults' = recoveryFaults + 1
NoRecoveryFault == recoveryFaults' = recoveryFaults

Managed == {p \in Paths : rows[p] # "none"}
OnDisk(p) == disk[p] # "none"
HasBackup(s, p) == backup[s][p] # "none"
Next1(s) == CHOOSE p \in left[s] : TRUE

(* The files a rollback of s puts back or removes. *)
Entries(s) == New[s] \cup obsolete[s]

(* move_managed of a cover to its backup. *)
SetAside(s, p) ==
    /\ disk' = [disk EXCEPT ![p] = "none"]
    /\ backup' = [backup EXCEPT ![s][p] = disk[p]]

(* rollback_cover_files of some entries: a backup goes back over the new    *)
(* cover, and a new cover without a backup is removed.                      *)
MutNewCoverKept(s, paths) ==
    /\ disk' = [p \in Paths |-> IF p \in paths /\ HasBackup(s, p) THEN backup[s][p] ELSE disk[p]]
    /\ backup' = [backup EXCEPT ![s] =
         [p \in Paths |-> IF p \in paths THEN "none" ELSE backup[s][p]]]
PutBack(s, paths) ==
    /\ disk' = [p \in Paths |->
         IF p \in paths /\ HasBackup(s, p) THEN backup[s][p]
         ELSE IF p \in paths \cap (New[s] \ replaced[s]) THEN "none" ELSE disk[p]]
    /\ backup' = [backup EXCEPT ![s] =
         [p \in Paths |-> IF p \in paths THEN "none" ELSE backup[s][p]]]

(* An entry whose file is on neither side, or an obsolete cover on both. *)
MutNoReplay(s) == {p \in replaced[s] \cup obsolete[s] : ~HasBackup(s, p)}
Blocked(s) ==
    {p \in replaced[s] : ~HasBackup(s, p) /\ ~OnDisk(p)}
    \cup {p \in obsolete[s] : HasBackup(s, p) <=> OnDisk(p)}

(* cleanup_cover_files drops backups, discard_cover_files everything. *)
DropBackups(s, paths) ==
    backup' = [backup EXCEPT ![s] =
         [p \in Paths |-> IF p \in paths THEN "none" ELSE backup[s][p]]]

DropEntries(s, paths) ==
    /\ disk' = [p \in Paths |-> IF p \in paths THEN "none" ELSE disk[p]]
    /\ DropBackups(s, paths)

-----------------------------------------------------------------------------
(* Reconciliation, by the holder of the lock or by a start *)

(* What to do with an operation: reconcile_cover_operation_locked. *)
MutUndoCommitted(o) == alive
RollsBack(o) == journal[o] \in Undecided /\ alive
Tidies(o) == journal[o] \in Committed /\ alive
Discards(o) == ~alive

Treat(o, paths) ==
    \/ RollsBack(o) /\ PutBack(o, paths)
    \/ Tidies(o) /\ DropBackups(o, paths) /\ UNCHANGED disk
    \/ Discards(o) /\ DropEntries(o, paths)

Refuses(o) ==
    \/ RollsBack(o) /\ Blocked(o) # {}
    \/ Tidies(o) /\ \E p \in New[o] : ~OnDisk(p)

Reconciling ==
    \/ server = "recovering"
    \/ server = "up" /\ lock # Nobody /\ pc[lock] = "reconcile"

(* A start goes on with the next row after an error, a request gives up. *)
GiveUp(o) ==
    \/ /\ server = "recovering" /\ todo' = todo \ {o}
       /\ UNCHANGED <<lock, pc, left>>
    \/ /\ server = "up" /\ todo' = {}
       /\ Leave(lock)

Reconcile(o) ==
    /\ Reconciling /\ o \in todo
    /\ \/ /\ ~Refuses(o) /\ NoRecoveryFault
          /\ Treat(o, Entries(o))
          /\ journal' = SetState(journal, o, "completed")
          /\ todo' = todo \ {o} /\ UNCHANGED <<lock, pc, left>>
       \/ /\ (Refuses(o) /\ NoRecoveryFault) \/ RecoveryFault
          /\ \E paths \in SUBSET (Entries(o) \ Blocked(o)) : Treat(o, paths)
          /\ journal' = SetState(journal, o, "failed")
          /\ GiveUp(o)
    /\ UNCHANGED <<server, seen, obsolete, replaced, alive, rows, faults, crashes>>

(* The process dies, or the request is dropped, between two files.  (That a *)
(* rename which had begun before the drop ends after the lock was taken     *)
(* again is left out; see Abandon.)                                         *)
Interrupt(o) ==
    /\ Reconciling /\ o \in todo
    /\ \E paths \in SUBSET (Entries(o) \ Blocked(o)) : Treat(o, paths)
    /\ \/ /\ server = "up" /\ Leave(lock) /\ UNCHANGED <<server, crashes>>
       \/ /\ server = "recovering" /\ crashes < MaxCrashes
          /\ server' = "down" /\ crashes' = crashes + 1 /\ UNCHANGED <<lock, pc, left>>
    /\ todo' = {}
    /\ UNCHANGED <<seen, obsolete, replaced, journal, alive, rows, faults, recoveryFaults>>

-----------------------------------------------------------------------------
(* replace_cover_bytes and apply_metadata *)

Begin(r) ==
    /\ At(r, "idle")
    /\ seen' = [seen EXCEPT ![r] = Managed]
    /\ IF alive THEN Goto(r, "lock") ELSE Goto(r, "gone")
    /\ UNCHANGED <<server, lock, todo, obsolete, replaced, left, journal, alive,
                   rows, disk, backup, faults, recoveryFaults, crashes>>

LockAssets(r) ==
    /\ At(r, "lock") /\ lock = Nobody
    /\ lock' = r /\ todo' = PendingOps(journal)
    /\ Goto(r, "reconcile")
    /\ UNCHANGED <<server, seen, obsolete, replaced, left, journal, alive, rows,
                   disk, backup, faults, recoveryFaults, crashes>>

Reconciled(r) ==
    /\ At(r, "reconcile") /\ todo = {}
    /\ Goto(r, "plan")
    /\ UNCHANGED <<server, lock, todo, seen, obsolete, replaced, left, journal,
                   alive, rows, disk, backup, faults, recoveryFaults, crashes>>

(* The payload: the new paths that are occupied, and the covers in use that *)
(* are not among them, those of the row read earlier and those of the       *)
(* database now.                                                            *)
Occupied(s) == {p \in New[s] : OnDisk(p)}
MutStaleCovers(s) == {p \in seen[s] \ New[s] : OnDisk(p)}
InUse(s) == {p \in (seen[s] \cup Managed) \ New[s] : OnDisk(p)}

Prepare(s) ==
    /\ At(s, "plan") /\ s \in Saves
    /\ \/ /\ replaced' = [replaced EXCEPT ![s] = Occupied(s)]
          /\ obsolete' = [obsolete EXCEPT ![s] = InUse(s)]
          /\ Remaining(s, InUse(s))
          /\ journal' = CreateRow(journal, s)
          /\ Goto(s, "aside") /\ NoFault /\ UNCHANGED lock
       \/ /\ Fault /\ Leave(s)
          /\ UNCHANGED <<obsolete, replaced, journal>>
    /\ UNCHANGED <<server, todo, seen, alive, rows, disk, backup,
                   recoveryFaults, crashes>>

StartUndo(s) == Goto(s, "undo") /\ Remaining(s, Entries(s))

MoveAside(s) ==
    /\ At(s, "aside") /\ left[s] # {}
    /\ \/ /\ SetAside(s, Next1(s)) /\ Remaining(s, left[s] \ {Next1(s)})
          /\ NoFault /\ UNCHANGED pc
       \/ Fault /\ StartUndo(s) /\ UNCHANGED <<disk, backup>>
    /\ UNCHANGED <<server, lock, todo, seen, obsolete, replaced, journal, alive,
                   rows, recoveryFaults, crashes>>

AllAside(s) ==
    /\ At(s, "aside") /\ left[s] = {}
    /\ Goto(s, "write") /\ Remaining(s, New[s])
    /\ UNCHANGED <<server, lock, todo, seen, obsolete, replaced, journal, alive,
                   rows, disk, backup, faults, recoveryFaults, crashes>>

(* A cover is moved aside and the new one written before the next entry. *)
WriteCover(s) ==
    /\ At(s, "write") /\ left[s] # {}
    /\ LET p == Next1(s) IN
         \/ /\ p \in replaced[s] /\ ~HasBackup(s, p)
            /\ SetAside(s, p) /\ NoFault /\ UNCHANGED <<pc, left>>
         \/ /\ (p \in replaced[s] => HasBackup(s, p)) /\ ~OnDisk(p)
            /\ disk' = [disk EXCEPT ![p] = s]
            /\ Remaining(s, left[s] \ {p})
            /\ NoFault /\ UNCHANGED <<pc, backup>>
         \/ Fault /\ StartUndo(s) /\ UNCHANGED <<disk, backup>>
    /\ UNCHANGED <<server, lock, todo, seen, obsolete, replaced, journal, alive,
                   rows, recoveryFaults, crashes>>

(* save_cover and save_igdb_metadata: row, cover assets and journal at once; *)
(* a game that is gone rolls the transaction back.                          *)
Save(s) ==
    /\ At(s, "write") /\ left[s] = {}
    /\ \/ /\ alive /\ NoFault
          /\ rows' = [p \in Paths |-> IF p \in New[s] THEN s ELSE "none"]
          /\ journal' = SetStateTx(journal, s, "db_committed")
          /\ Goto(s, "tidy") /\ Remaining(s, Entries(s))
       \/ /\ (~alive /\ NoFault) \/ Fault
          /\ StartUndo(s)
          /\ UNCHANGED <<rows, journal>>
    /\ UNCHANGED <<server, lock, todo, seen, obsolete, replaced, alive, disk,
                   backup, recoveryFaults, crashes>>

(* rollback_cover_files in the handler: a new cover over a backup is removed *)
(* before the backup goes back; what cannot be put back is left to recovery. *)
Undo(s) ==
    /\ At(s, "undo") /\ left[s] # {}
    /\ LET p == Next1(s) IN
         \/ /\ p \in replaced[s] /\ HasBackup(s, p) /\ OnDisk(p)
            /\ disk' = [disk EXCEPT ![p] = "none"]
            /\ NoFault /\ UNCHANGED <<pc, lock, left, journal, backup>>
         \/ /\ p \notin Blocked(s) /\ ~(p \in replaced[s] /\ HasBackup(s, p) /\ OnDisk(p))
            /\ PutBack(s, {p}) /\ Remaining(s, left[s] \ {p})
            /\ NoFault /\ UNCHANGED <<pc, lock, journal>>
         \/ /\ (p \in Blocked(s) /\ NoFault) \/ Fault
            /\ journal' = SetState(journal, s, "failed")
            /\ Leave(s) /\ UNCHANGED <<disk, backup>>
    /\ UNCHANGED <<server, todo, seen, obsolete, replaced, alive, rows,
                   recoveryFaults, crashes>>

(* commit_prepared_covers: every new cover is there, so the backups go. *)
Tidy(s) ==
    /\ At(s, "tidy") /\ left[s] # {}
    /\ \/ /\ DropBackups(s, {Next1(s)}) /\ Remaining(s, left[s] \ {Next1(s)})
          /\ NoFault /\ UNCHANGED <<pc, lock, journal>>
       \/ /\ Fault /\ Leave(s)
          /\ journal' = SetState(journal, s, "cleanup_pending")
          /\ UNCHANGED backup
    /\ UNCHANGED <<server, todo, seen, obsolete, replaced, alive, rows, disk,
                   recoveryFaults, crashes>>

(* complete(), whose error is only reported. *)
Finish(s) ==
    /\ At(s, "undo") \/ At(s, "tidy")
    /\ left[s] = {}
    /\ \/ journal' = SetState(journal, s, "completed") /\ NoFault
       \/ UNCHANGED journal /\ Fault
    /\ Leave(s)
    /\ UNCHANGED <<server, todo, seen, obsolete, replaced, alive, rows, disk,
                   backup, recoveryFaults, crashes>>

(* Deleting the game takes its covers along; DeleteOps has the steps. *)
DeleteGame(r) ==
    /\ At(r, "plan") /\ r \in Deleters
    /\ alive' = FALSE
    /\ rows' = Nothing
    /\ disk' = [p \in Paths |-> IF p \in Managed \cup seen[r] THEN "none" ELSE disk[p]]
    /\ Leave(r)
    /\ UNCHANGED <<server, todo, seen, obsolete, replaced, journal, backup,
                   faults, recoveryFaults, crashes>>

(* The client disconnects and the handler is dropped with the lock.  A      *)
(* rename that had begun goes on in a blocking thread: one that ends before *)
(* the lock is taken again is the step that makes it and then Abandon; that *)
(* it may end later, when another request holds the lock, is left out.      *)
Abandon(r) ==
    /\ server = "up" /\ pc[r] \notin {"idle", "lock", "gone"}
    /\ Leave(r) /\ todo' = {}
    /\ UNCHANGED <<server, seen, obsolete, replaced, journal, alive, rows, disk,
                   backup, faults, recoveryFaults, crashes>>

-----------------------------------------------------------------------------
(* Crash and start *)

Crash ==
    /\ server = "up" /\ crashes < MaxCrashes
    /\ server' = "down" /\ crashes' = crashes + 1
    /\ lock' = Nobody /\ todo' = {}
    /\ pc' = [r \in Requests |-> IF pc[r] = "idle" THEN "idle" ELSE "gone"]
    /\ left' = [r \in Requests |-> {}]
    /\ UNCHANGED <<seen, obsolete, replaced, journal, alive, rows, disk, backup,
                   faults, recoveryFaults>>

Start ==
    /\ server = "down"
    /\ server' = "recovering" /\ todo' = PendingOps(journal)
    /\ UNCHANGED <<lock, pc, seen, obsolete, replaced, left, journal, alive,
                   rows, disk, backup, faults, recoveryFaults, crashes>>

Ready ==
    /\ server = "recovering" /\ todo = {}
    /\ server' = "up"
    /\ UNCHANGED <<lock, pc, todo, seen, obsolete, replaced, left, journal, alive,
                   rows, disk, backup, faults, recoveryFaults, crashes>>

-----------------------------------------------------------------------------
Saving(s) ==
    \/ Prepare(s) \/ MoveAside(s) \/ AllAside(s) \/ WriteCover(s) \/ Save(s)
    \/ Undo(s) \/ Tidy(s) \/ Finish(s)

Recovery == Start \/ Ready \/ \E o \in Saves : Reconcile(o)

Next ==
    \/ \E r \in Requests : Begin(r) \/ LockAssets(r) \/ Reconciled(r) \/ Abandon(r)
    \/ \E s \in Saves : Saving(s) \/ Interrupt(s)
    \/ \E r \in Deleters : DeleteGame(r)
    \/ Recovery \/ Crash

Spec == Init /\ [][Next]_vars

-----------------------------------------------------------------------------
(* Properties *)

(* A game never shows a broken cover for good: each cover of its row is the *)
(* very file the row was saved for, or that file is in the backup of an     *)
(* operation that is still to be rolled back (prepare_cover_assets,         *)
(* reconcile_cover_operation_locked).                                       *)
CoversAreThere ==
    \A p \in Managed :
        \/ disk[p] = rows[p]
        \/ \E s \in Saves : backup[s][p] = rows[p] /\ journal[s] \in Undecided

(* Once every operation is settled nothing is left over: no file but the    *)
(* covers of the game, and no backup.                                       *)
SettledLeavesNoFile ==
    PendingOps(journal) = {} =>
        /\ (lock = Nobody => {p \in Paths : OnDisk(p)} \subseteq Managed)
        /\ \A s \in Saves : backup[s] = Nothing

(* A start settles every operation, however often it was interrupted: one   *)
(* that it cannot settle would make every later cover change and deletion   *)
(* fail, since reconcile_pending_covers_locked comes first in each.         *)
StartSettlesCovers ==
    [][server = "recovering" /\ server' = "up" => PendingOps(journal) = {}]_vars
=============================================================================
