----------------------------- MODULE UploadOps -----------------------------
(* Uploads into the managed library: staging of the request body, the       *)
(* journaled publication of the files under the root lock, and what the     *)
(* next server start makes of an upload that stopped half-way.              *)
(*                                                                          *)
(* One request u brings Size[u] files.  Its k-th file is the slot <<u, k>>, *)
(* which is also the content the file has wherever it lies.  Every file     *)
(* received from the client is staged under .uploads with a journal row of  *)
(* its own; a generated playlist is written straight to its place.          *)
EXTENDS FileJournal, Integers, FiniteSets

CONSTANTS
    Uploads,    \* upload requests
    Size,       \* Size[u]: the number of files request u publishes
    Generated,  \* the slots that are playlists Teatro writes itself
    Paths,      \* relative paths inside the library root
    Foreign,    \* files that users copy into the root by hand
    Nobody,     \* no file, no path, no lock holder
    MaxFaults,  \* bound on the I/O and database errors of a behaviour
    MaxCrashes  \* bound on the times the server process dies

Slots == UNION {{<<u, k>> : k \in 1..Size[u]} : u \in Uploads}
SlotsOf(u) == {<<u, k>> : k \in 1..Size[u]}

ASSUME UploadsAssumption ==
    /\ Size \in [Uploads -> Nat \ {0}]
    /\ Generated \subseteq Slots
    /\ Nobody \notin Paths \cup Uploads \cup Slots \cup Foreign
    /\ Foreign \cap Slots = {}
    /\ MaxFaults \in Nat /\ MaxCrashes \in Nat

VARIABLES
    server,   \* "up", "down", or "recovering" (reconcile before serving)
    todo,     \* the pending rows this start has not reconciled yet
    lock,     \* the request holding the advisory lock of the root
    pc,       \* pc[u]: where the handler of u is
    next,     \* next[u]: the file the loop of that step is at
    moved,    \* moved[u]: how many published files an undo has to remove
    journal,  \* journal[u]: the row of the publication of u
    stage,    \* stage[s]: the row of the staging file of slot s
    target,   \* target[s]: the path the journaled payload names for s
    parts,    \* the slots whose .part file exists under .uploads
    disk,     \* disk[p]: the file at p
    rows,     \* rows[p]: the file that the rom_files row of p stands for
    faults, crashes

vars == <<server, todo, lock, pc, next, moved, journal, stage, target,
          parts, disk, rows, faults, crashes>>

PCs == {"idle", "stage", "write", "lock", "move", "rename", "save", "judge",
        "undo", "complete", "settle", "discard", "gone"}

(* The steps a handler takes while it holds the root lock. *)
LockedPCs == {"move", "rename", "save", "judge", "undo", "complete"}

Files == Slots \cup Foreign

TypeOK ==
    /\ server \in {"up", "down", "recovering"}
    /\ todo \subseteq Uploads \cup Slots
    /\ lock \in Uploads \cup {Nobody}
    /\ pc \in [Uploads -> PCs]
    /\ next \in [Uploads -> Nat] /\ \A u \in Uploads : next[u] \in 1..Size[u] + 1
    /\ moved \in [Uploads -> Nat] /\ \A u \in Uploads : moved[u] \in 0..Size[u]
    /\ journal \in [Uploads -> JournalStates]
    /\ stage \in [Slots -> JournalStates]
    /\ target \in [Slots -> Paths \cup {Nobody}]
    /\ parts \subseteq Slots
    /\ disk \in [Paths -> Files \cup {Nobody}]
    /\ rows \in [Paths -> Files \cup {Nobody}]
    /\ faults \in 0..MaxFaults
    /\ crashes \in 0..MaxCrashes

Init ==
    /\ server = "up" /\ todo = {} /\ lock = Nobody
    /\ pc = [u \in Uploads |-> "idle"]
    /\ next = [u \in Uploads |-> 1]
    /\ moved = [u \in Uploads |-> 0]
    /\ journal = [u \in Uploads |-> "absent"]
    /\ stage = [s \in Slots |-> "absent"]
    /\ target = [s \in Slots |-> Nobody]
    /\ parts = {}
    /\ disk = [p \in Paths |-> Nobody]
    /\ rows = [p \in Paths |-> Nobody]
    /\ faults = 0 /\ crashes = 0

-----------------------------------------------------------------------------
(* Vocabulary *)

At(u, label) == server = "up" /\ pc[u] = label

Goto(u, label, k) ==
    /\ pc' = [pc EXCEPT ![u] = label]
    /\ next' = [next EXCEPT ![u] = k]

(* An I/O or database error, of which a behaviour has at most MaxFaults. *)
Fault == faults < MaxFaults /\ faults' = faults + 1
NoFault == faults' = faults

Slot(u) == <<u, next[u]>>
Last(u) == next[u] = Size[u]

(* The paths named in the payload of u: relative_paths. *)
Claimed(u) == {target[s] : s \in SlotsOf(u)}

Indexed(p) == rows[p] # Nobody
OnDisk(p) == disk[p] # Nobody

Free(p) == ~Indexed(p) /\ ~OnDisk(p)

(* move_new and write_new_atomic refuse a target that exists. *)
MutOverwrites(p) == TRUE
Accepts(p) == ~OnDisk(p)

(* file_store().remove: a missing file is not an error. *)
RemovePaths(ps) == [p \in Paths |-> IF p \in ps THEN Nobody ELSE disk[p]]

RemovePart(s) == parts' = parts \ {s}

Release(u) == lock' = IF lock = u THEN Nobody ELSE lock

-----------------------------------------------------------------------------
(* Staging the request body: stage_file_field *)

Arrive(u) ==
    /\ At(u, "idle")
    /\ Goto(u, "stage", 1)
    /\ UNCHANGED <<server, todo, lock, moved, journal, stage, target, parts,
                   disk, rows, faults, crashes>>

(* The staging row is written before the staging file. *)
StageJournal(u) ==
    /\ At(u, "stage") /\ next[u] <= Size[u]
    /\ IF Slot(u) \in Generated
         THEN /\ Goto(u, "stage", next[u] + 1)
              /\ NoFault /\ UNCHANGED stage
         ELSE \/ /\ stage' = CreateRow(stage, Slot(u))
                 /\ Goto(u, "write", next[u]) /\ NoFault
              \/ /\ Fault /\ UNCHANGED stage
                 /\ Goto(u, "discard", 1)
    /\ UNCHANGED <<server, todo, lock, moved, journal, target, parts, disk,
                   rows, crashes>>

(* Create the .part file and stream the field into it.  A body over the     *)
(* size limit, too little disk space or a write error ends the request; a   *)
(* part that was created is still there when the discarding starts.         *)
WritePart(u) ==
    /\ At(u, "write")
    /\ \/ /\ parts' = parts \cup {Slot(u)}
          /\ Goto(u, "stage", next[u] + 1)
       \/ /\ parts' \in {parts, parts \cup {Slot(u)}}
          /\ Goto(u, "discard", 1)
    /\ UNCHANGED <<server, todo, lock, moved, journal, stage, target, disk,
                   rows, faults, crashes>>

StagingDone(u) ==
    /\ At(u, "stage") /\ next[u] > Size[u]
    /\ Goto(u, "lock", 1)
    /\ UNCHANGED <<server, todo, lock, moved, journal, stage, target, parts,
                   disk, rows, faults, crashes>>

-----------------------------------------------------------------------------
(* Publication: finalize_upload and finalize_upload_batch *)

(* Take the root lock, give every file a path that is neither on disk nor   *)
(* indexed, and journal those paths.  Names are compared within one game    *)
(* only, so two games of a batch may be given the same path.                *)
Plan(u) ==
    /\ At(u, "lock") /\ lock = Nobody
    /\ \E place \in [1..Size[u] -> {p \in Paths : Free(p)}] :
         target' = [s \in Slots |-> IF s[1] = u THEN place[s[2]] ELSE target[s]]
    /\ journal' = CreateRow(journal, u)
    /\ lock' = u
    /\ Goto(u, "move", 1)
    /\ UNCHANGED <<server, todo, moved, stage, parts, disk, rows, faults, crashes>>

(* An invalid plan, no available name, or a failed journal insert: nothing  *)
(* has been moved and no row exists.                                        *)
PlanRejected(u) ==
    /\ At(u, "lock") /\ lock = Nobody
    /\ Goto(u, "discard", 1)
    /\ UNCHANGED <<server, todo, lock, moved, journal, stage, target, parts,
                   disk, rows, faults, crashes>>

(* A file that cannot be moved: the ones moved so far are to be removed. *)
MoveFailed(u) ==
    /\ moved' = [moved EXCEPT ![u] = next[u] - 1]
    /\ Goto(u, "undo", 1)
    /\ UNCHANGED <<disk, parts>>

(* move_new / write_new_atomic of the next file, first half: an occupied    *)
(* target is refused.                                                       *)
Move(u) ==
    /\ At(u, "move")
    /\ LET p == target[Slot(u)] IN
         \/ /\ Accepts(p) /\ NoFault
            /\ Goto(u, "rename", next[u])
            /\ UNCHANGED <<moved, disk, parts>>
         \/ ~Accepts(p) /\ NoFault /\ MoveFailed(u)
         \/ Fault /\ MoveFailed(u)
    /\ UNCHANGED <<server, todo, lock, journal, stage, target, rows, crashes>>

(* Second half: rename(2) replaces whatever lies at the target by now.  The *)
(* lock keeps other requests away since the check, but not a user.          *)
Rename(u) ==
    /\ At(u, "rename")
    /\ \/ /\ disk' = [disk EXCEPT ![target[Slot(u)]] = Slot(u)]
          /\ RemovePart(Slot(u))
          /\ IF Last(u) THEN Goto(u, "save", 1) ELSE Goto(u, "move", next[u] + 1)
          /\ NoFault /\ UNCHANGED moved
       \/ Fault /\ MoveFailed(u)
    /\ UNCHANGED <<server, todo, lock, journal, stage, target, rows, crashes>>

(* create_with_file / create_grouped_roms: the rows of every file and the   *)
(* journal state change in one transaction.  An error may be reported       *)
(* before or after the commit took effect.  UNIQUE (root_id, relative_path) *)
(* is not what fails: the lock has kept the paths unindexed since Plan.     *)
MutRowPerTransaction(u) ==
    /\ rows' = [rows EXCEPT ![target[<<u, 1>>]] = <<u, 1>>]
    /\ journal' = SetStateTx(journal, u, "db_committed")
SaveTx(u) ==
    /\ \A s \in SlotsOf(u) : ~Indexed(target[s])
    /\ rows' = [p \in Paths |->
         IF p \in Claimed(u)
           THEN CHOOSE s \in SlotsOf(u) : target[s] = p
           ELSE rows[p]]
    /\ journal' = SetStateTx(journal, u, "db_committed")

Save(u) ==
    /\ At(u, "save")
    /\ \/ SaveTx(u) /\ NoFault /\ Goto(u, "complete", 1)
       \/ SaveTx(u) /\ Fault /\ Goto(u, "judge", 1)
       \/ Fault /\ Goto(u, "judge", 1) /\ UNCHANGED <<rows, journal>>
    /\ UNCHANGED <<server, todo, lock, moved, stage, target, parts, disk, crashes>>

(* recover_upload_persistence_error: only a row still in prepared allows    *)
(* the files to be removed; otherwise, or when the state cannot be read,    *)
(* they are retained for reconciliation.                                    *)
MutUndoAnyway(u) == TRUE
NotCommitted(u) == journal[u] = "prepared"

Judge(u) ==
    /\ At(u, "judge")
    /\ \/ /\ NotCommitted(u) /\ NoFault
          /\ moved' = [moved EXCEPT ![u] = Size[u]]
          /\ Goto(u, "undo", 1)
          /\ UNCHANGED lock
       \/ /\ \/ ~NotCommitted(u) /\ NoFault
             \/ Fault
          /\ Goto(u, "discard", 1)
          /\ Release(u)
          /\ UNCHANGED moved
    /\ UNCHANGED <<server, todo, journal, stage, target, parts, disk, rows, crashes>>

(* Remove the next published file; a failing removal is only logged. *)
Undo(u) ==
    /\ At(u, "undo") /\ next[u] <= moved[u]
    /\ \/ disk' = RemovePaths({target[Slot(u)]}) /\ NoFault
       \/ Fault /\ UNCHANGED disk
    /\ Goto(u, "undo", next[u] + 1)
    /\ UNCHANGED <<server, todo, lock, moved, journal, stage, target, parts,
                   rows, crashes>>

(* file_operations::fail, whose own database error is only logged. *)
Fail(u) ==
    /\ At(u, "undo") /\ next[u] > moved[u]
    /\ \/ journal' = SetState(journal, u, "failed") /\ NoFault
       \/ Fault /\ UNCHANGED journal
    /\ Goto(u, "discard", 1)
    /\ Release(u)
    /\ UNCHANGED <<server, todo, moved, stage, target, parts, disk, rows, crashes>>

(* Loading the new games or completing the row may fail after the commit:   *)
(* the request reports an error and the row stays behind.                   *)
Complete(u) ==
    /\ At(u, "complete")
    /\ \/ /\ journal' = SetState(journal, u, "completed") /\ NoFault
          /\ Goto(u, "settle", 1)
       \/ /\ Fault /\ UNCHANGED journal
          /\ Goto(u, "discard", 1)
    /\ Release(u)
    /\ UNCHANGED <<server, todo, moved, stage, target, parts, disk, rows, crashes>>

-----------------------------------------------------------------------------
(* Leaving the request: upload_rom and upload_batch *)

(* After success every staging row is completed; its part has been moved. *)
Settle(u) ==
    /\ At(u, "settle")
    /\ \/ stage' = SetState(stage, Slot(u), "completed") /\ NoFault
       \/ Fault /\ UNCHANGED stage
    /\ IF Last(u) THEN Goto(u, "gone", 1) ELSE Goto(u, "settle", next[u] + 1)
    /\ UNCHANGED <<server, todo, lock, moved, journal, target, parts, disk,
                   rows, crashes>>

(* discard_staged_upload: remove the part, then complete the row; neither   *)
(* error stops the other step or the loop.                                  *)
Discard(u) ==
    /\ At(u, "discard")
    /\ \/ /\ RemovePart(Slot(u))
          /\ stage' = SetState(stage, Slot(u), "completed") /\ NoFault
       \/ /\ Fault /\ UNCHANGED parts
          /\ stage' = SetState(stage, Slot(u), "completed")
       \/ /\ Fault /\ UNCHANGED stage
          /\ RemovePart(Slot(u))
    /\ IF Last(u) THEN Goto(u, "gone", 1) ELSE Goto(u, "discard", next[u] + 1)
    /\ UNCHANGED <<server, todo, lock, moved, journal, target, disk, rows, crashes>>

(* The client disconnects: the handler is dropped at an await, the lock     *)
(* with it, and nothing is cleaned up until the next start.  A rename that  *)
(* had begun goes on in a blocking thread: one that ends before the lock is *)
(* taken again is Rename and then Abandon; that it may end later, when      *)
(* another request holds the lock, is left out.                             *)
Abandon(u) ==
    /\ server = "up" /\ pc[u] \notin {"idle", "gone"}
    /\ Goto(u, "gone", 1)
    /\ Release(u)
    /\ UNCHANGED <<server, todo, moved, journal, stage, target, parts, disk,
                   rows, faults, crashes>>

-----------------------------------------------------------------------------
(* Everybody else in the root *)

(* A user copies a file into the library by hand, at any time. *)
UserCopy(p) ==
    /\ ~OnDisk(p)
    /\ \E f \in Foreign :
         /\ \A q \in Paths : disk[q] # f
         /\ disk' = [disk EXCEPT ![p] = f]
    /\ UNCHANGED <<server, todo, lock, pc, next, moved, journal, stage, target,
                   parts, rows, faults, crashes>>

(* A scan, holding the root lock, indexes a file that lies in the library   *)
(* without a row.                                                           *)
ScanImport(p) ==
    /\ server = "up" /\ lock = Nobody
    /\ OnDisk(p) /\ ~Indexed(p)
    /\ rows' = [rows EXCEPT ![p] = disk[p]]
    /\ UNCHANGED <<server, todo, lock, pc, next, moved, journal, stage, target,
                   parts, disk, faults, crashes>>

(* A game deletion that ran to its end: row and file are gone. *)
DeleteIndexed(p) ==
    /\ server = "up" /\ lock = Nobody
    /\ Indexed(p)
    /\ rows' = [rows EXCEPT ![p] = Nobody]
    /\ disk' = [disk EXCEPT ![p] = Nobody]
    /\ UNCHANGED <<server, todo, lock, pc, next, moved, journal, stage, target,
                   parts, faults, crashes>>

-----------------------------------------------------------------------------
(* Crash and start: AppState::initialize and file_operations::reconcile *)

Crash ==
    /\ server # "down" /\ crashes < MaxCrashes
    /\ crashes' = crashes + 1
    /\ server' = "down" /\ lock' = Nobody /\ todo' = {}
    /\ pc' = [u \in Uploads |-> IF pc[u] = "idle" THEN "idle" ELSE "gone"]
    /\ next' = [u \in Uploads |-> 1]
    /\ UNCHANGED <<moved, journal, stage, target, parts, disk, rows, faults>>

(* The pending rows are read once; this model reconciles them in any order, *)
(* the code in the order of their creation.                                 *)
Start ==
    /\ server = "down"
    /\ server' = "recovering"
    /\ todo' = PendingOps(journal) \cup PendingOps(stage)
    /\ UNCHANGED <<lock, pc, next, moved, journal, stage, target, parts, disk,
                   rows, faults, crashes>>

(* complete() failing aborts the start; fail() failing is only logged. *)
Resolved(op) ==
    \/ /\ journal' = SetState(journal, op, "completed")
       /\ todo' = todo \ {op} /\ NoFault /\ UNCHANGED server
    \/ /\ Fault /\ UNCHANGED journal
       /\ server' = "down" /\ todo' = {}

Unresolved(op) ==
    /\ todo' = todo \ {op} /\ UNCHANGED server
    /\ journal' = SetState(journal, op, "failed")

MutFirstPathOnly(u) == {target[<<u, 1>>]}
RolledBack(u) == Claimed(u)

(* The paths that were removed when the removal of a later one failed. *)
RemovedBefore(u, k) == {target[<<u, i>>] : i \in 1..k - 1}

(* reconcile_prepared_upload: the rows decide which side won.  An error, in *)
(* a query or on the disk, leaves the row failed whichever side it was.     *)
RecoverPrepared(u) ==
    /\ server = "recovering" /\ u \in todo /\ journal[u] \in Undecided
    /\ LET persisted == {p \in Claimed(u) : Indexed(p)} IN
         \/ /\ persisted = {}
            /\ disk' = RemovePaths(RolledBack(u))
            /\ Resolved(u)
         \/ /\ persisted = {}
            /\ Fault
            /\ \E k \in 1..Size[u] : disk' = RemovePaths(RemovedBefore(u, k))
            /\ Unresolved(u)
         \/ /\ persisted = Claimed(u) /\ (\A p \in persisted : OnDisk(p))
            /\ UNCHANGED disk
            /\ Resolved(u)
         \/ /\ persisted # {}
            /\ \/ (persisted # Claimed(u) \/ (\E p \in persisted : ~OnDisk(p))) /\ NoFault
               \/ Fault
            /\ UNCHANGED disk
            /\ Unresolved(u)
    /\ UNCHANGED <<lock, pc, next, moved, stage, target, parts, rows, crashes>>

(* reconcile_committed_upload: nothing is removed, every file must be there. *)
(* A missing file or an error marks the row failed, although it committed.   *)
RecoverCommitted(u) ==
    /\ server = "recovering" /\ u \in todo /\ journal[u] \in Committed
    /\ \/ (\A p \in Claimed(u) : OnDisk(p)) /\ Resolved(u)
       \/ /\ \/ (\E p \in Claimed(u) : ~OnDisk(p)) /\ NoFault
             \/ Fault
          /\ Unresolved(u)
    /\ UNCHANGED <<lock, pc, next, moved, stage, target, parts, disk, rows, crashes>>

(* A staging row names no published path: its part is removed and it is done. *)
RecoverStaging(s) ==
    /\ server = "recovering" /\ s \in todo /\ stage[s] \in Unfinished
    /\ \/ /\ RemovePart(s)
          /\ stage' = SetState(stage, s, "completed")
          /\ todo' = todo \ {s} /\ NoFault /\ UNCHANGED server
       \/ /\ RemovePart(s)
          /\ Fault /\ UNCHANGED stage
          /\ server' = "down" /\ todo' = {}
       \/ /\ Fault /\ UNCHANGED <<parts, server>>
          /\ stage' = SetState(stage, s, "failed")
          /\ todo' = todo \ {s}
    /\ UNCHANGED <<lock, pc, next, moved, journal, target, disk, rows, crashes>>

(* Reconciliation is over: parts older than the configured age are swept,   *)
(* and the server begins to serve; a sweep that fails aborts the start.     *)
Ready ==
    /\ server = "recovering" /\ todo = {}
    /\ \/ server' = "up" /\ NoFault
       \/ server' = "down" /\ Fault
    /\ \E old \in SUBSET parts : parts' = parts \ old
    /\ UNCHANGED <<todo, lock, pc, next, moved, journal, stage, target, disk,
                   rows, crashes>>

-----------------------------------------------------------------------------
Handler(u) ==
    \/ StageJournal(u) \/ WritePart(u) \/ StagingDone(u)
    \/ Plan(u) \/ PlanRejected(u) \/ Move(u) \/ Rename(u) \/ Save(u) \/ Judge(u)
    \/ Undo(u) \/ Fail(u) \/ Complete(u) \/ Settle(u) \/ Discard(u)

Recovery ==
    \/ Start \/ Ready
    \/ \E u \in Uploads : RecoverPrepared(u) \/ RecoverCommitted(u)
    \/ \E s \in Slots : RecoverStaging(s)

Others == \E p \in Paths : UserCopy(p) \/ ScanImport(p) \/ DeleteIndexed(p)

Next ==
    \/ \E u \in Uploads : Arrive(u) \/ Handler(u) \/ Abandon(u)
    \/ Recovery \/ Others \/ Crash

Spec == Init /\ [][Next]_vars

(* A running handler is driven by the async runtime, and the operator's     *)
(* supervisor restarts a dead server; nobody promises requests, copies,     *)
(* scans or deletions.                                                      *)
FairSpec == Spec /\ WF_vars(Recovery) /\ \A u \in Uploads : WF_vars(Handler(u))

-----------------------------------------------------------------------------
(* Properties *)

(* Every indexed path holds exactly the file its row was made for, through  *)
(* failed publications, abandoned requests, reused paths and recovery: no   *)
(* undo or reconcile ever takes away a file that some other request or a    *)
(* scan has meanwhile indexed at the same path.                             *)
IndexedFilesIntact == \A p \in Paths : Indexed(p) => disk[p] = rows[p]

(* What an upload leaves on disk stays in its journal.  A row is marked     *)
(* completed only once nothing the publication wrote is left lying around   *)
(* unindexed; and as long as no I/O or database call fails, every staging   *)
(* file is named by an unfinished row, so that a crash or a client that     *)
(* went away never strands a file that the next start does not remove.      *)
NothingIsStranded ==
    /\ \A u \in Uploads, p \in Paths :
         journal[u] = "completed" /\ disk[p] \in SlotsOf(u) => rows[p] = disk[p]
    /\ faults = 0 => \A s \in parts : stage[s] \in Unfinished

(* A step takes a file away from its path only by deleting an indexed file  *)
(* together with its row, or at an unindexed path that an undecided upload  *)
(* has claimed.  It puts another file in its place only where a user copied *)
(* a file onto a claimed path between the check and the rename.             *)
ClaimedRemoval ==
    \A p \in Paths : disk[p] # Nobody /\ disk'[p] # disk[p] =>
        /\ rows'[p] = Nobody
        /\ Indexed(p) \/ \E u \in Uploads : journal[u] \in Undecided /\ p \in Claimed(u)
        /\ disk'[p] # Nobody => disk[p] \in Foreign
RemovalsStayClaimed == [][ClaimedRemoval]_vars

(* The catalog that readers see: the rows whose file is there. *)
Catalogued == [p \in Paths |-> IF disk[p] = rows[p] THEN rows[p] ELSE Nobody]

(* The requests whose transaction may still take effect. *)
Publishing == {u \in Uploads : pc[u] \in {"idle", "stage", "write", "lock", "move", "rename", "save"}}

Abstract == INSTANCE Catalog WITH
    Bundle <- [u \in Uploads |-> SlotsOf(u)], NoFile <- Nobody,
    catalog <- Catalogued, open <- Publishing

(* Uploads implement the catalog: while its request runs, a batch becomes   *)
(* visible as a whole or not at all, at paths of its own, whatever fails on *)
(* the way; only what a failed or dropped request left behind is ever       *)
(* adopted file by file.                                                    *)
ImplementsCatalog == Abstract!Spec

=============================================================================
