----------------------------- MODULE DeleteOps -----------------------------
(* Deleting games and unindexed sidecars: the artifacts are moved into a    *)
(* trash directory of the operation, the rows go in one transaction, and    *)
(* the trash is emptied, all under the locks of every root involved; and    *)
(* what the next server start makes of a delete that stopped half-way.      *)
(*                                                                          *)
(* A path holds the file it held at the start, "orig", or one that a user   *)
(* copied there later, "copy".  An entry of a delete is a file or a game    *)
(* folder with what is in it, and has a place of its own in the trash.  The *)
(* entries of a delete follow the order of its games, which is not          *)
(* modelled: each loop takes them in any order.                             *)
EXTENDS FileJournal, Integers, FiniteSets

CONSTANTS
    Deletes,     \* delete requests
    Games,       \* roms
    Wants,       \* Wants[d]: the games a request asks for; {} for sidecars
    Sidecars,    \* Sidecars[d]: the unindexed files a cleanup request lists
    FilesOf,     \* FilesOf[g]: the library files and cover assets of g
    Fresh,       \* games that no scan has indexed yet at the start
    Paths, RootOf, FolderOf,  \* a path, its root, and its game folder
    Folders, Roots, AssetRoot,
    Copyable,    \* the paths a user copies files to
    Nobody,
    MaxFaults, MaxCrashes

ASSUME DeletesAssumption ==
    /\ Wants \in [Deletes -> SUBSET Games] /\ Fresh \subseteq Games
    /\ Sidecars \in [Deletes -> SUBSET Paths]
    /\ \A d \in Deletes : Wants[d] = {} \/ Sidecars[d] = {}
    /\ FilesOf \in [Games -> SUBSET Paths] /\ Copyable \subseteq Paths
    /\ \A g, h \in Games \ Fresh : g # h => FilesOf[g] \cap FilesOf[h] = {}
    /\ RootOf \in [Paths -> Roots] /\ FolderOf \in [Paths -> Folders \cup {Nobody}]
    /\ Folders \cap Paths = {} /\ Nobody \notin Folders \cup Paths \cup Deletes
    \* A game folder is a directory of one root.
    /\ \A p, q \in Paths : FolderOf[p] = FolderOf[q] /\ FolderOf[p] # Nobody => RootOf[p] = RootOf[q]
    /\ Roots \subseteq Nat /\ AssetRoot \in Roots
    /\ MaxFaults \in Nat /\ MaxCrashes \in Nat

VARIABLES
    server,   \* "up", "down" or "recovering"
    todo,     \* the pending rows this start has not reconciled yet
    lock,     \* lock[r]: the request holding the lock of root r
    pc,       \* pc[d]: where the handler of d is
    found,    \* found[d]: the games d read before it locked anything
    entries,  \* entries[d]: the files and folders of the journaled payload
    left,     \* left[d]: the entries the loop of this step has still to do
    dirty,    \* dirty[d]: a trash entry could not be removed
    journal,  \* journal[d]: the row of the operation
    overtaken,\* ghost: overtaken[d]: the paths that d planned to move although
              \* they were by then another game's
    games,    \* the games in the database
    fresh,    \* the games not indexed yet
    rows,     \* rows[p]: the file for which a game of the database has p
    disk,     \* disk[p]: the file at p
    trash,    \* trash[d][unit][p]: the file from p in the trash of that entry
    faults, crashes

vars == <<server, todo, lock, pc, found, entries, left, dirty, journal, overtaken,
          games, fresh, rows, disk, trash, faults, crashes>>

Units == Paths \cup Folders
Contents == {"none", "orig", "copy"}
Empty == [p \in Paths |-> "none"]
PCs == {"idle", "lock", "move", "commit", "restore", "cleanup", "gone"}

TypeOK ==
    /\ server \in {"up", "down", "recovering"}
    /\ todo \subseteq Deletes
    /\ lock \in [Roots -> Deletes \cup {Nobody}]
    /\ pc \in [Deletes -> PCs]
    /\ found \in [Deletes -> SUBSET Games]
    /\ entries \in [Deletes -> SUBSET Units]
    /\ left \in [Deletes -> SUBSET Units]
    /\ dirty \in [Deletes -> BOOLEAN]
    /\ journal \in [Deletes -> JournalStates]
    /\ overtaken \in [Deletes -> SUBSET Paths]
    /\ games \subseteq Games /\ fresh \subseteq Fresh
    /\ rows \in [Paths -> Contents]
    /\ disk \in [Paths -> Contents]
    /\ trash \in [Deletes -> [Units -> [Paths -> Contents]]]
    /\ faults \in 0..MaxFaults /\ crashes \in 0..MaxCrashes

Init ==
    /\ server = "up" /\ todo = {}
    /\ lock = [r \in Roots |-> Nobody]
    /\ pc = [d \in Deletes |-> "idle"]
    /\ found = [d \in Deletes |-> {}]
    /\ entries = [d \in Deletes |-> {}]
    /\ left = [d \in Deletes |-> {}]
    /\ dirty = [d \in Deletes |-> FALSE]
    /\ journal = [d \in Deletes |-> "absent"]
    /\ overtaken = [d \in Deletes |-> {}]
    /\ games = Games \ Fresh /\ fresh = Fresh
    /\ rows = [p \in Paths |->
                 IF \E g \in Games \ Fresh : p \in FilesOf[g] THEN "orig" ELSE "none"]
    /\ disk = [p \in Paths |-> "orig"]
    /\ trash = [d \in Deletes |-> [unit \in Units |-> Empty]]
    /\ faults = 0 /\ crashes = 0

-----------------------------------------------------------------------------
(* Vocabulary *)

At(d, label) == server = "up" /\ pc[d] = label
Goto(d, label) == pc' = [pc EXCEPT ![d] = label]
Fault == faults < MaxFaults /\ faults' = faults + 1
NoFault == faults' = faults

Remaining(d, units) == left' = [left EXCEPT ![d] = units]

Indexed(p) == rows[p] # "none"

(* An entry is a file, or a game folder with everything in it. *)
Members(unit) == {p \in Paths : p = unit \/ FolderOf[p] = unit}

DiskHas(unit) == \E p \in Members(unit) : disk[p] # "none"
TrashHas(d, unit) == \E p \in Members(unit) : trash[d][unit][p] # "none"

(* move_managed(_directory) to the trash path. *)
ToTrash(d, unit) ==
    /\ disk' = [p \in Paths |-> IF p \in Members(unit) THEN "none" ELSE disk[p]]
    /\ trash' = [trash EXCEPT ![d][unit] =
         [p \in Paths |-> IF p \in Members(unit) THEN disk[p] ELSE "none"]]

(* remove / remove_directory_all of the trash paths. *)
MutTrashKept(d, units) == UNCHANGED trash
EmptyTrash(d, units) ==
    trash' = [trash EXCEPT ![d] =
         [unit \in Units |-> IF unit \in units THEN Empty ELSE trash[d][unit]]]

(* The entries that hold p, of which move_managed back puts one in place.   *)
Holding(d, units, p) == {unit \in units : trash[d][unit][p] # "none"}

FromTrash(d, units) ==
    /\ disk' = [p \in Paths |->
         IF Holding(d, units, p) = {} THEN disk[p]
           ELSE trash[d][CHOOSE unit \in Holding(d, units, p) : TRUE][p]]
    /\ EmptyTrash(d, units)

ReleaseAll(d) == lock' = [r \in Roots |-> IF lock[r] = d THEN Nobody ELSE lock[r]]

(* The handler returns or is dropped; its locks go with it. *)
Leave(d) ==
    /\ Goto(d, "gone") /\ ReleaseAll(d)
    /\ Remaining(d, {}) /\ dirty' = [dirty EXCEPT ![d] = FALSE]

-----------------------------------------------------------------------------
(* delete_rom, delete_roms_for_platform, delete_all_roms, cleanup_sidecars *)

(* The games are read before any lock is taken; a single game that is not   *)
(* there is answered 404, an empty bulk deletion only writes its audit row. *)
Begin(d) ==
    /\ At(d, "idle")
    /\ found' = [found EXCEPT ![d] = Wants[d] \cap games]
    /\ IF Sidecars[d] = {} /\ Wants[d] \cap games = {} THEN Goto(d, "gone") ELSE Goto(d, "lock")
    /\ UNCHANGED <<server, todo, lock, entries, overtaken, left, dirty, journal, games,
                   fresh, rows, disk, trash, faults, crashes>>

Touched(d) == Sidecars[d] \cup UNION {FilesOf[g] : g \in found[d]}

(* A game deletion locks the asset root as well, a sidecar cleanup does not. *)
NeededRoots(d) ==
    {RootOf[p] : p \in Touched(d)} \cup (IF found[d] = {} THEN {} ELSE {AssetRoot})

(* The roots are kept in a BTreeSet, so every request locks them in the     *)
(* same order.                                                              *)
MutHashOrder(d) == {r \in NeededRoots(d) : lock[r] # d}
NextRoots(d) ==
    {r \in NeededRoots(d) : lock[r] # d /\ \A q \in NeededRoots(d) : q < r => lock[q] = d}

LockRoot(d) ==
    /\ At(d, "lock")
    /\ \E r \in NextRoots(d) :
         /\ lock[r] = Nobody
         /\ lock' = [lock EXCEPT ![r] = d]
    /\ UNCHANGED <<server, todo, pc, found, entries, overtaken, left, dirty, journal, games,
                   fresh, rows, disk, trash, faults, crashes>>

HoldsAll(d) == \A r \in NeededRoots(d) : lock[r] = d

LibraryFiles(g) == {p \in FilesOf[g] : RootOf[p] # AssetRoot}

(* A game of two or more files that all lie in one game folder. *)
Packaged(g, folder) ==
    /\ Cardinality(LibraryFiles(g)) >= 2
    /\ \A p \in LibraryFiles(g) : FolderOf[p] = folder

(* folder_has_files_outside_roms: another game has a file in the folder. *)
MutNeverShared(d, folder) == FALSE
Shared(d, folder) ==
    \E g \in games \ found[d] : \E p \in FilesOf[g] : FolderOf[p] = folder

(* Deleting a game takes its folder if it is a package nobody shares, or    *)
(* else its files one by one; and its covers.                               *)
Candidates(d) ==
    LET whole == {f \in Folders : \E g \in found[d] : Packaged(g, f) /\ ~Shared(d, f)}
    IN whole \cup {p \in Touched(d) : FolderOf[p] \notin whole \/ RootOf[p] = AssetRoot
                                      \/ \E g \in found[d] : p \in FilesOf[g] /\ ~Packaged(g, FolderOf[p])}

(* The paths of a game on the list that a game indexed since then has.      *)
TakenOver(d) ==
    {p \in Paths : /\ \E h \in found[d] : p \in FilesOf[h]
                   /\ \E g \in games \ found[d] : p \in FilesOf[g]}

(* With all locks held: entries that exist are journaled, missing ones are  *)
(* only reported.  A cleanup also checks that its list is still what lies   *)
(* in the library unindexed; nobody checks the games again.                 *)
Plan(d) ==
    /\ At(d, "lock") /\ HoldsAll(d)
    /\ \A p \in Sidecars[d] : disk[p] # "none" /\ ~Indexed(p)
    /\ entries' = [entries EXCEPT ![d] = {unit \in Candidates(d) : DiskHas(unit)}]
    /\ Remaining(d, {unit \in Candidates(d) : DiskHas(unit)})
    /\ journal' = CreateRow(journal, d)
    /\ overtaken' = [overtaken EXCEPT ![d] = TakenOver(d)]
    /\ Goto(d, "move")
    /\ UNCHANGED <<server, todo, lock, found, dirty, games, fresh, rows, disk,
                   trash, faults, crashes>>

(* A changed preview, pending covers that cannot be reconciled, a failing   *)
(* query or journal insert: nothing has been touched.                       *)
PlanRejected(d) ==
    /\ At(d, "lock") /\ HoldsAll(d)
    /\ \/ (\E p \in Sidecars[d] : disk[p] = "none" \/ Indexed(p)) /\ NoFault
       \/ Fault
    /\ Leave(d)
    /\ UNCHANGED <<server, todo, found, entries, overtaken, journal, games,
                   fresh, rows, disk, trash, crashes>>

(* move_delete_entries: an entry that cannot be moved, perhaps because it   *)
(* went with its folder, sends the moved ones back.                         *)
MoveEntry(d) ==
    /\ At(d, "move")
    /\ \E unit \in left[d] :
         \/ /\ DiskHas(unit) /\ ToTrash(d, unit)
            /\ Remaining(d, left[d] \ {unit})
            /\ NoFault /\ UNCHANGED pc
         \/ /\ \/ ~DiskHas(unit) /\ NoFault
               \/ Fault
            /\ Remaining(d, entries[d] \ left[d])
            /\ Goto(d, "restore")
            /\ UNCHANGED <<disk, trash>>
    /\ UNCHANGED <<server, todo, lock, found, entries, overtaken, dirty, journal, games,
                   fresh, rows, crashes>>

AllMoved(d) ==
    /\ At(d, "move") /\ left[d] = {}
    /\ Goto(d, "commit")
    /\ UNCHANGED <<server, todo, lock, found, entries, overtaken, left, dirty, journal,
                   games, fresh, rows, disk, trash, faults, crashes>>

(* commit_delete_rows: the games, their rows and the journal state in one   *)
(* transaction.                                                             *)
DeleteTx(d) ==
    /\ games' = games \ found[d]
    /\ rows' = [p \in Paths |->
         IF \E g \in found[d] : p \in FilesOf[g] THEN "none" ELSE rows[p]]
    /\ journal' = SetStateTx(journal, d, "db_committed")

(* Games that somebody else deleted meanwhile roll the transaction back; an *)
(* error may also be reported before or after the commit took effect.       *)
Commit(d) ==
    /\ At(d, "commit")
    /\ Remaining(d, entries[d])
    /\ \/ /\ found[d] \subseteq games
          /\ DeleteTx(d)
          /\ \/ Goto(d, "cleanup") /\ NoFault
             \/ Goto(d, "restore") /\ Fault
       \/ /\ \/ ~(found[d] \subseteq games) /\ NoFault
             \/ Fault
          /\ Goto(d, "restore")
          /\ UNCHANGED <<games, rows, journal>>
    /\ UNCHANGED <<server, todo, lock, found, entries, overtaken, dirty, fresh, disk,
                   trash, crashes>>

(* restore_delete_entries: an occupied original path, or an error, leaves   *)
(* the entry in the trash and is only logged.                               *)
Restore(d) ==
    /\ At(d, "restore")
    /\ \E unit \in left[d] :
         /\ \/ /\ TrashHas(d, unit) /\ ~DiskHas(unit)
               /\ FromTrash(d, {unit}) /\ NoFault
            \/ /\ \/ ~TrashHas(d, unit) /\ NoFault
                  \/ DiskHas(unit) /\ NoFault
                  \/ Fault
               /\ UNCHANGED <<disk, trash>>
         /\ Remaining(d, left[d] \ {unit})
    /\ UNCHANGED <<server, todo, lock, pc, found, entries, overtaken, dirty, journal, games,
                   fresh, rows, crashes>>

(* file_operations::fail, whose own database error is only logged. *)
Fail(d) ==
    /\ At(d, "restore") /\ left[d] = {}
    /\ \/ journal' = SetState(journal, d, "failed") /\ NoFault
       \/ Fault /\ UNCHANGED journal
    /\ Leave(d)
    /\ UNCHANGED <<server, todo, found, entries, overtaken, games, fresh, rows,
                   disk, trash, crashes>>

(* finish_delete_cleanup *)
Cleanup(d) ==
    /\ At(d, "cleanup")
    /\ \E unit \in left[d] :
         /\ \/ EmptyTrash(d, {unit}) /\ NoFault /\ UNCHANGED dirty
            \/ /\ Fault /\ UNCHANGED trash
               /\ dirty' = [dirty EXCEPT ![d] = TRUE]
         /\ Remaining(d, left[d] \ {unit})
    /\ UNCHANGED <<server, todo, lock, pc, found, entries, overtaken, journal, games, fresh,
                   rows, disk, crashes>>

Finish(d) ==
    /\ At(d, "cleanup") /\ left[d] = {}
    /\ \/ /\ journal' = SetState(journal, d, IF dirty[d] THEN "cleanup_pending" ELSE "completed")
          /\ NoFault
       \/ Fault /\ UNCHANGED journal
    /\ Leave(d)
    /\ UNCHANGED <<server, todo, found, entries, overtaken, games, fresh, rows,
                   disk, trash, crashes>>

(* The client disconnects and the handler is dropped with its locks.  A     *)
(* rename that had begun goes on in a blocking thread: one that ends before *)
(* the lock is taken again is MoveEntry, Restore or Cleanup and then        *)
(* Abandon; that it may end later, when another holds the lock, is left     *)
(* out.                                                                     *)
Abandon(d) ==
    /\ server = "up" /\ pc[d] \notin {"idle", "gone"}
    /\ Leave(d)
    /\ UNCHANGED <<server, todo, found, entries, overtaken, journal, games,
                   fresh, rows, disk, trash, faults, crashes>>

-----------------------------------------------------------------------------
(* Everybody else *)

(* A scan or an upload indexes files as a new game, under the root lock. *)
IndexGame(g) ==
    /\ server = "up" /\ g \in fresh
    /\ \A p \in FilesOf[g] : lock[RootOf[p]] = Nobody /\ disk[p] # "none" /\ ~Indexed(p)
    /\ fresh' = fresh \ {g} /\ games' = games \cup {g}
    /\ rows' = [p \in Paths |-> IF p \in FilesOf[g] THEN disk[p] ELSE rows[p]]
    /\ UNCHANGED <<server, todo, lock, pc, found, entries, overtaken, left, dirty, journal,
                   disk, trash, faults, crashes>>

UserCopy(p) ==
    /\ p \in Copyable /\ disk[p] = "none" /\ \A d \in Deletes, unit \in Units : trash[d][unit][p] # "copy"
    /\ disk' = [disk EXCEPT ![p] = "copy"]
    /\ UNCHANGED <<server, todo, lock, pc, found, entries, overtaken, left, dirty, journal,
                   games, fresh, rows, trash, faults, crashes>>

-----------------------------------------------------------------------------
(* Crash and start *)

Crash ==
    /\ server # "down" /\ crashes < MaxCrashes
    /\ crashes' = crashes + 1
    /\ server' = "down" /\ todo' = {}
    /\ lock' = [r \in Roots |-> Nobody]
    /\ pc' = [d \in Deletes |-> IF pc[d] = "idle" THEN "idle" ELSE "gone"]
    /\ left' = [d \in Deletes |-> {}] /\ dirty' = [d \in Deletes |-> FALSE]
    /\ UNCHANGED <<found, entries, overtaken, journal, games, fresh, rows, disk,
                   trash, faults>>

(* pending orders the rows by a wall clock that can be set back: any order. *)
Start ==
    /\ server = "down"
    /\ server' = "recovering" /\ todo' = PendingOps(journal)
    /\ UNCHANGED <<lock, pc, found, entries, overtaken, left, dirty, journal, games, fresh,
                   rows, disk, trash, faults, crashes>>

Resolved(d) ==
    \/ /\ journal' = SetState(journal, d, "completed")
       /\ todo' = todo \ {d} /\ NoFault /\ UNCHANGED server
    \/ /\ Fault /\ UNCHANGED journal
       /\ server' = "down" /\ todo' = {}

Unresolved(d) ==
    /\ todo' = todo \ {d} /\ UNCHANGED server
    /\ journal' = SetState(journal, d, "failed")

(* cleanup_resolved_delete_entries stops at the first error. *)
DiscardTrash(d) ==
    /\ \/ EmptyTrash(d, entries[d]) /\ Resolved(d)
       \/ /\ \E done \in SUBSET entries[d] : EmptyTrash(d, done)
          /\ Fault /\ Unresolved(d)
    /\ UNCHANGED disk

(* An entry that lies on both sides, or on neither, stops the restoring. *)
Restorable(d) == {unit \in entries[d] : TrashHas(d, unit) /\ ~DiskHas(unit)}
Torn(d) == {unit \in entries[d] : TrashHas(d, unit) <=> DiskHas(unit)}

(* Of two entries that hold the same path, or of a file and its folder,     *)
(* the one that is back first may be in the way of the other.               *)
Compatible(d, units) == \A p \in Paths : \A u, v \in Holding(d, units, p) : u = v
Crowded(units) == \E u, v \in units : u # v /\ Members(u) \cap Members(v) # {}

RestoreTrash(d) ==
    \/ Torn(d) = {} /\ Compatible(d, Restorable(d)) /\ FromTrash(d, Restorable(d)) /\ Resolved(d)
    \/ /\ \E done \in SUBSET Restorable(d) : Compatible(d, done) /\ FromTrash(d, done)
       /\ \/ (Torn(d) # {} \/ Crowded(Restorable(d))) /\ NoFault
          \/ Fault
       /\ Unresolved(d)

(* reconcile_prepared_delete: games that are all gone mean the transaction  *)
(* committed, games that are all there that it did not.  A cleanup of       *)
(* sidecars names no game and is always restored.                           *)
MutAnyGone(d) == found[d] # {} /\ \E g \in found[d] : g \notin games
Won(d) == found[d] # {} /\ found[d] \cap games = {}

RecoverPrepared(d) ==
    /\ server = "recovering" /\ d \in todo /\ journal[d] \in Undecided
    /\ \/ Won(d) /\ DiscardTrash(d)
       \/ ~Won(d) /\ found[d] \subseteq games /\ RestoreTrash(d)
       \/ /\ ~Won(d) /\ ~(found[d] \subseteq games)
          /\ Unresolved(d) /\ NoFault /\ UNCHANGED <<disk, trash>>
    /\ UNCHANGED <<lock, pc, found, entries, overtaken, left, dirty, games, fresh, rows, crashes>>

(* reconcile_committed_delete *)
RecoverCommitted(d) ==
    /\ server = "recovering" /\ d \in todo /\ journal[d] \in Committed
    /\ DiscardTrash(d)
    /\ UNCHANGED <<lock, pc, found, entries, overtaken, left, dirty, games, fresh, rows, crashes>>

(* A crash between two entries of a reconciliation, which counts as a       *)
(* fault: the row is as it was.                                             *)
CrashInRecovery(d) ==
    /\ server = "recovering" /\ d \in todo /\ Fault
    /\ \/ /\ Won(d) \/ journal[d] \in Committed
          /\ \E done \in SUBSET entries[d] : EmptyTrash(d, done)
          /\ UNCHANGED disk
       \/ /\ ~Won(d) /\ found[d] \subseteq games /\ journal[d] \in Undecided
          /\ \E done \in SUBSET Restorable(d) : Compatible(d, done) /\ FromTrash(d, done)
    /\ server' = "down" /\ todo' = {}
    /\ UNCHANGED <<lock, pc, found, entries, overtaken, left, dirty, journal, games, fresh,
                   rows, crashes>>

Ready ==
    /\ server = "recovering" /\ todo = {}
    /\ server' = "up"
    /\ UNCHANGED <<todo, lock, pc, found, entries, overtaken, left, dirty, journal, games,
                   fresh, rows, disk, trash, faults, crashes>>

-----------------------------------------------------------------------------
Handler(d) ==
    \/ LockRoot(d) \/ Plan(d) \/ PlanRejected(d) \/ MoveEntry(d) \/ AllMoved(d)
    \/ Commit(d) \/ Restore(d) \/ Fail(d) \/ Cleanup(d) \/ Finish(d)

Recovery ==
    \/ Start \/ Ready
    \/ \E d \in Deletes : RecoverPrepared(d) \/ RecoverCommitted(d)

Next ==
    \/ \E d \in Deletes : Begin(d) \/ Handler(d) \/ Abandon(d)
    \/ \E g \in Games : IndexGame(g)
    \/ \E p \in Paths : UserCopy(p)
    \/ \E d \in Deletes : CrashInRecovery(d)
    \/ Recovery \/ Crash

Spec == Init /\ [][Next]_vars

FairSpec == Spec /\ WF_vars(Recovery) /\ \A d \in Deletes : WF_vars(Handler(d))

-----------------------------------------------------------------------------
(* Properties *)

(* A delete takes no file of a game that it does not delete: each file of a *)
(* game in the database is in its place, or in the trash of a delete of     *)
(* that very game that can still be rolled back, whatever failed, was       *)
(* dropped, was copied over or crashed.  Exempt is a path that was taken    *)
(* over: the delete read its games before it locked (delete.rs:43, 98),     *)
(* another deletion removed one of them and a new game was indexed there.   *)
(* Such a file it moves, and may lose (DeletesStale.cfg).                   *)
GamesKeepTheirFiles ==
    \A g \in games : \A p \in FilesOf[g] :
        \/ disk[p] = rows[p]
        \/ \E d \in Deletes, unit \in Units :
              /\ g \in found[d] /\ journal[d] \in Undecided
              /\ trash[d][unit][p] = rows[p]
        \/ \E d \in Deletes : g \notin found[d] /\ p \in overtaken[d]

(* Nothing is stranded: a file lies in the trash of an operation only while *)
(* the row of the operation is there for the next start to work on.         *)
TrashIsJournaled ==
    \A d \in Deletes, unit \in Units, p \in Paths :
        trash[d][unit][p] # "none" => journal[d] \in Unfinished

(* Requests that lock several roots never wait for each other for ever. *)
WaitersAreAnswered == \A d \in Deletes : pc[d] = "lock" ~> pc[d] = "gone"
=============================================================================
