----------------------------- MODULE LibraryScan -----------------------------
(* The scan of the managed library: it walks the root, plans every new game *)
(* folder, and adds the games it can describe to the catalog, in place      *)
(* (src/services/library/scan.rs).  Users copy, change and remove files     *)
(* meanwhile, a game may be deleted between scans, the scan may be          *)
(* cancelled at any await, and the server may die and recover from its      *)
(* journal.  (Names that other modules have too begin with Scan: one proofs *)
(* module may be about both.)                                               *)
EXTENDS IngestPlan, FileJournal

CONSTANTS
    Dirs,        \* the directories of the root
    Kind,        \* Kind[dir]: "folder" of a game, "loose" files, "alien" platform
    Info,        \* Info[name]: the file of that name, as IngestPlan describes it
    NameOrder,   \* the names in the order of a directory listing
    Sort,        \* Sort[name]: "game", "sidecar", "internal" or "odd"
    Playlist,    \* Playlist[title]: the names a playlist of the title may get
    Home,        \* Home[name]: the directory named after the playlist name
    Layouts,     \* the contents of the root at the start: directory -> set of names
    MaxFaults,   \* bound on the I/O and database errors of a behaviour
    MaxStops,    \* bound on cancellations and crashes together
    MaxUser,     \* bound on the changes users make
    UserPaths,   \* the paths users meddle with
    MaxOps       \* bound on the journal rows that are not completed

Names == DOMAIN Info
Paths == Dirs \X Names
Ops == 1..MaxOps

ASSUME ScanAssumption ==
    /\ Layouts \subseteq [Dirs -> SUBSET Names]
    /\ ToSet(NameOrder) = Names
    /\ Kind \in [Dirs -> {"folder", "loose", "alien"}]
    /\ Sort \in [Names -> {"game", "sidecar", "internal", "odd"}]
    /\ Home \in [Names -> {dir \in Dirs : Kind[dir] = "folder"}]
    /\ UserPaths \subseteq Paths
    /\ MaxOps \in Nat /\ MaxFaults \in Nat /\ MaxStops \in Nat /\ MaxUser \in Nat

VARIABLES
    server,    \* "up" or "recovering"
    pending,   \* the rows this start has not reconciled yet
    pc,        \* where the scan is; "idle" between scans
    batches,   \* what discovery found and nobody has planned yet
    planned,   \* the batches with exactly one game that are to be imported
    current,   \* the batch that is being imported, if any
    scanned,   \* the paths discovery counted
    outcome,   \* outcome[path]: how often the result names the path
    op,        \* the journal row of the batch in hand, or NoOp
    changed,   \* paths whose file somebody else changed since discovery
    disk,      \* disk[dir]: the names of the files there
    catalog,   \* the games of the catalog, each the set of its paths
    journal,   \* journal[o]: the state of the row
    claim,     \* claim[o]: the path in its payload
    lost,      \* paths whose file users took away and no scan has seen again
    faults, stops, user

local == <<pc, batches, planned, current, scanned, outcome, op>>
stored == <<disk, catalog, journal, claim>>
world == <<server, pending, changed, lost>>
counts == <<faults, stops, user>>
scanVars == <<local, stored, world, counts>>

NoOp == 0

PCs == {"idle", "discover", "plan", "revalidate", "normalize", "reserve", "journal",
        "write", "save", "judge", "complete", "done"}

(* A batch: its files, the directory where they are, the one where          *)
(* discovery saw them, and whether something else there forbids an import.  *)
AnyBatch == [dir : Dirs, names : SUBSET Names, seen : Dirs, blocked : BOOLEAN]

ScanTypeOK ==
    /\ server \in {"up", "recovering"} /\ pending \subseteq Ops
    /\ pc \in PCs
    /\ batches \subseteq AnyBatch /\ planned \subseteq AnyBatch
    /\ current \subseteq AnyBatch /\ \A b, c \in current : b = c
    /\ scanned \subseteq Paths /\ outcome \in [Paths -> Nat]
    /\ op \in Ops \cup {NoOp}
    /\ changed \subseteq Paths /\ lost \subseteq Paths
    /\ disk \in [Dirs -> SUBSET Names]
    /\ catalog \subseteq SUBSET Paths
    /\ journal \in [Ops -> JournalStates] /\ claim \in [Ops -> Paths \cup {<<>>}]
    /\ faults \in 0..MaxFaults /\ stops \in 0..MaxStops /\ user \in 0..MaxUser

Nothing == [path \in Paths |-> 0]

Rest ==
    /\ pc = "idle" /\ batches = {} /\ planned = {} /\ current = {}
    /\ scanned = {} /\ outcome = Nothing /\ op = NoOp

ScanInit ==
    /\ server = "up" /\ pending = {} /\ Rest
    /\ changed = {} /\ lost = {} /\ catalog = {}
    /\ disk \in Layouts
    /\ journal = [o \in Ops |-> "absent"] /\ claim = [o \in Ops |-> <<>>]
    /\ faults = 0 /\ stops = 0 /\ user = 0

-----------------------------------------------------------------------------
(* Vocabulary *)

At(label) == server = "up" /\ pc = label
Fault == faults < MaxFaults /\ faults' = faults + 1 /\ UNCHANGED <<stops, user>>

Indexed == UNION catalog
OnDisk(path) == path[2] \in disk[path[1]]
IsDir(dir) == disk[dir] # {}

(* is_obvious_sidecar and is_internal_name: a sidecar is passed over unless *)
(* it is indexed, a dotted name even without being counted.                 *)
IgnoredSidecar(path) == Sort[path[2]] = "sidecar" /\ path \notin Indexed
Internal(path) == Sort[path[2]] = "internal"
Odd(path) == Sort[path[2]] = "odd"

Counted(path) == OnDisk(path) /\ ~Internal(path)
Considered(path) == Counted(path) /\ ~Odd(path) /\ ~IgnoredSidecar(path)
ToImport(dir) == {n \in Names : Considered(<<dir, n>>)}

Blocked(dir) == \E n \in disk[dir] : Odd(<<dir, n>>)

(* The batches of a directory: a game folder is one, a loose file is one.   *)
(* The code sorts them by path; here a phase takes them in any order.       *)
NewBatch(dir, names) == [dir |-> dir, names |-> names, seen |-> dir,
                         blocked |-> Kind[dir] = "folder" /\ Blocked(dir)]
BatchesOf(dir) ==
    CASE Kind[dir] = "alien"  -> {}
      [] Kind[dir] = "folder" -> {NewBatch(dir, ToImport(dir))} \ {NewBatch(dir, {})}
      [] Kind[dir] = "loose"  -> {NewBatch(dir, {n}) : n \in ToImport(dir)}

PathsOf(b) == {b.dir} \X b.names
SeenOf(b) == {b.seen} \X b.names

(* A batch gets one disposition as a whole, under the paths discovery saw:  *)
(* reject_batch, and the count of imported files.                           *)
MutFirstOnly(b) ==
    LET first == CHOOSE p \in SeenOf(b) : TRUE IN [outcome EXCEPT ![first] = @ + 1]
Reported(b) == [p \in Paths |-> IF p \in SeenOf(b) THEN outcome[p] + 1 ELSE outcome[p]]

(* The error paths of a scan leave scan_library: the job fails, the root    *)
(* lock is released, and what was committed stays.                          *)
Leave == pc' = "idle" /\ batches' = {} /\ planned' = {} /\ current' = {}
         /\ scanned' = {} /\ outcome' = Nothing /\ op' = NoOp

Goto(label) == pc' = label /\ UNCHANGED <<batches, planned, current, scanned>>

-----------------------------------------------------------------------------
(* Discovery and planning *)

StartScan ==
    /\ At("idle") /\ Goto("discover")
    /\ UNCHANGED <<outcome, op, stored, world, counts>>

(* discover: the whole walk is one step, and the sizes and times it reads   *)
(* are what revalidate_batch compares with later.                           *)
Discover ==
    /\ At("discover") /\ pc' = "plan"
    /\ scanned' = {p \in Paths : Counted(p)}
    /\ batches' = UNION {BatchesOf(dir) : dir \in Dirs}
    /\ outcome' = [p \in Paths |->
         IF Counted(p) /\ (Kind[p[1]] = "alien" \/ ~Considered(p)) THEN 1 ELSE 0]
    /\ changed' = {} /\ lost' = {p \in lost : ~OnDisk(p)}
    /\ UNCHANGED <<planned, current, op, server, pending, stored, counts>>

DiscoverFails ==
    /\ At("discover") /\ Fault /\ Leave /\ UNCHANGED <<stored, world>>

Grouped(name) == Info[name].ext \in Manifests \/ Parse(Info[name]).disc # 0

(* A batch lists its files in the order of the directory, so that its names *)
(* decide the plan; the table holds the plan of every set of names.         *)
Listing(names) == SelectSeq(NameOrder, LAMBDA n : n \in names)
Plans ==
    {[names |-> names,
      plan  |-> LET listed == Listing(names)
                IN BuildPlan([k \in DOMAIN listed |-> Info[listed[k]]])] :
     names \in SUBSET Names}
PlanOf(names) == (CHOOSE p \in Plans : p.names = names).plan

DescribesOneGame(names) == PlanOf(names).errors = {} /\ Len(PlanOf(names).roms) = 1
FilesOf(names) == PlanOf(names).roms[1].files

(* plan_batch: the only plan it keeps describes exactly one game. *)
Untried(b) ==
    /\ PathsOf(b) \cap Indexed = {} /\ ~b.blocked
    /\ Kind[b.dir] = "loose" => \A n \in b.names : ~Grouped(n)
MutAnyPlan(b) == Untried(b) /\ PlanOf(b.names).roms # <<>>
Importable(b) == Untried(b) /\ DescribesOneGame(b.names)

Readable(b) == \A n \in b.names : Info[n].ext \in Manifests => OnDisk(<<b.dir, n>>)

PlanBatch ==
    /\ At("plan")
    /\ \/ batches = {} /\ pc' = "revalidate" /\ UNCHANGED <<batches, planned, outcome>>
       \/ \E b \in batches :
            /\ batches' = batches \ {b} /\ UNCHANGED pc
            /\ IF Importable(b) /\ Readable(b)
                 THEN planned' = planned \cup {b} /\ UNCHANGED outcome
                 ELSE outcome' = Reported(b) /\ UNCHANGED planned
    /\ UNCHANGED <<current, scanned, op, stored, world, counts>>

-----------------------------------------------------------------------------
(* Import of one batch, under the root lock all along *)

MutSkipsOne(result) ==
    /\ pc' = "revalidate" /\ current' = {} /\ op' = NoOp /\ outcome' = result
    /\ planned' = {b \in planned : b # CHOOSE c \in planned : TRUE}
    /\ UNCHANGED <<batches, scanned>>
NextBatch(result) ==
    /\ pc' = "revalidate" /\ current' = {} /\ op' = NoOp /\ outcome' = result
    /\ UNCHANGED <<batches, planned, scanned>>

(* revalidate_batch *)
Unchanged(b) == \A p \in PathsOf(b) : OnDisk(p) /\ p \notin changed /\ p \notin Indexed

Revalidate ==
    /\ At("revalidate")
    /\ \/ planned = {} /\ Goto("done") /\ UNCHANGED outcome
       \/ \E b \in planned :
            /\ planned' = planned \ {b} /\ UNCHANGED <<batches, scanned>>
            /\ IF Unchanged(b)
                 THEN pc' = "normalize" /\ current' = {b} /\ UNCHANGED outcome
                 ELSE outcome' = Reported(b) /\ UNCHANGED <<pc, current>>
    /\ UNCHANGED <<op, stored, world, counts>>

(* The playlist of a game, if it has one: m3u_directory_name.  The name of  *)
(* one that is still to be written is that of the first disc, and avoids    *)
(* the names of the batch.                                                  *)
HasPlaylist(names) == \E f \in ToSet(FilesOf(names)) : f.role = "launch_manifest"
Generates(names) == \E f \in ToSet(FilesOf(names)) : f.key = 0
GeneratedName(names) ==
    LET first == Listing(names)[FilesOf(names)[2].key]
    IN SelectSeq(Playlist[Info[first].title], LAMBDA n : n \notin names)[1]
NameOf(names, f) == IF f.key = 0 THEN GeneratedName(names) ELSE Listing(names)[f.key]
PlaylistName(names) ==
    NameOf(names, CHOOSE f \in ToSet(FilesOf(names)) : f.role = "launch_manifest")

(* What the scan relies on when the planner describes one game: the game    *)
(* has the files of the batch and at most a playlist besides; only grouped  *)
(* files have a playlist, and one; and a playlist that Teatro writes gets a *)
(* name that discovery does not pass over and no file of the batch has.     *)
ASSUME PlannerAssumption ==
    \A names \in {n \in SUBSET Names : DescribesOneGame(n)} :
        LET files == ToSet(FilesOf(names)) IN
          /\ {NameOf(names, f) : f \in {g \in files : g.key # 0}} = names
          /\ \A f \in files : f.key = 0 => f.role = "launch_manifest"
          /\ \A f, g \in files :
               f.role = "launch_manifest" /\ g.role = "launch_manifest" => f = g
          /\ HasPlaylist(names) => \E n \in names : Grouped(n)
          /\ HasPlaylist(names) => PlaylistName(names) \in Names
          /\ Generates(names) =>
               Sort[PlaylistName(names)] = "game" /\ PlaylistName(names) \notin names

(* normalize_m3u_game_folder: the folder takes the name of its playlist, by *)
(* one rename and without a journal row.                                    *)
Normalize ==
    /\ At("normalize")
    /\ \E b \in current :
         LET from == b.dir
             to == Home[PlaylistName(b.names)]
             Follow(paths) == paths \cup {<<to, p[2]>> : p \in {q \in paths : q[1] = from}}
         IN \/ /\ HasPlaylist(b.names) => to = from
               /\ Goto("reserve") /\ UNCHANGED <<outcome, op, disk, changed, lost>>
            \/ /\ HasPlaylist(b.names) /\ to # from /\ IsDir(to)
               /\ NextBatch(Reported(b)) /\ UNCHANGED <<disk, changed, lost>>
            \/ /\ HasPlaylist(b.names) /\ to # from /\ ~IsDir(to)
               /\ disk' = [disk EXCEPT ![to] = disk[from], ![from] = {}]
               /\ changed' = Follow(changed) /\ lost' = Follow(lost)
               /\ current' = {[b EXCEPT !.dir = to]} /\ pc' = "reserve"
               /\ UNCHANGED <<batches, planned, scanned, outcome, op>>
    /\ UNCHANGED <<catalog, journal, claim, server, pending, counts>>

NewPath(b) == <<b.dir, PlaylistName(b.names)>>

(* prepare_in_place_finalization: a playlist to be written needs a free     *)
(* path; the files of the batch keep theirs.                                *)
Reserve ==
    /\ At("reserve")
    /\ \E b \in current :
         IF ~Generates(b.names)
           THEN Goto("save") /\ UNCHANGED <<outcome, op>>
           ELSE IF OnDisk(NewPath(b)) \/ NewPath(b) \in Indexed
                  THEN NextBatch(Reported(b))
                  ELSE Goto("journal") /\ UNCHANGED <<outcome, op>>
    /\ UNCHANGED <<stored, world, counts>>

JournalPlaylist ==
    /\ At("journal")
    /\ \E b \in current :
         LET free == {o \in Ops : journal[o] \in {"absent", "completed"}} IN
           /\ free # {} /\ op' = Min(free)
           /\ journal' = CreateRow(journal, Min(free))
           /\ claim' = [claim EXCEPT ![Min(free)] = NewPath(b)]
    /\ Goto("write")
    /\ UNCHANGED <<outcome, disk, catalog, world, counts>>

Write(path) == disk' = [disk EXCEPT ![path[1]] = @ \cup {path[2]}]
Erase(path) == disk' = [disk EXCEPT ![path[1]] = @ \ {path[2]}]

WritePlaylist ==
    /\ At("write")
    /\ \E b \in current : ~OnDisk(NewPath(b)) /\ Write(NewPath(b))
    /\ Goto("save")
    /\ UNCHANGED <<outcome, op, catalog, journal, claim, world, counts>>

(* write_new_atomic refuses a path that a user has taken meanwhile, or      *)
(* fails before or after the file is there.                                 *)
WriteFails ==
    /\ At("write")
    /\ \E b \in current :
         \/ OnDisk(NewPath(b)) /\ UNCHANGED <<disk, counts>>
         \/ Fault /\ (UNCHANGED disk \/ Write(NewPath(b)))
    /\ journal' = SetState(journal, op, "failed")
    /\ Leave /\ UNCHANGED <<catalog, claim, world>>

(* UNIQUE(root_id, relative_path): neither a file that the plan names twice *)
(* nor one that a game of the catalog has can be stored.                    *)
Repeats(names) ==
    \E i, j \in DOMAIN FilesOf(names) : i # j /\ FilesOf(names)[i].key = FilesOf(names)[j].key
GameOf(b) == {<<b.dir, NameOf(b.names, f)>> : f \in ToSet(FilesOf(b.names))}
Storable(b) == ~Repeats(b.names) /\ GameOf(b) \cap Indexed = {}

(* create_grouped_roms: rows and journal state in one transaction. *)
Save ==
    /\ At("save")
    /\ \E b \in current :
         /\ Storable(b)
         /\ catalog' = catalog \cup {GameOf(b)}
         /\ IF op = NoOp
              THEN NextBatch(Reported(b)) /\ UNCHANGED journal
              ELSE /\ journal' = SetStateTx(journal, op, "db_committed")
                   /\ Goto("complete") /\ UNCHANGED <<outcome, op>>
    /\ UNCHANGED <<disk, claim, world, counts>>

SaveFails ==
    /\ At("save")
    /\ \/ \E b \in current : ~Storable(b) /\ UNCHANGED counts
       \/ Fault
    /\ IF op = NoOp THEN Leave ELSE Goto("judge") /\ UNCHANGED <<outcome, op>>
    /\ UNCHANGED <<stored, world>>

(* recover_generated_manifest_error: the playlist goes if the row still     *)
(* says prepared; a row that cannot be read leaves it to the next start.    *)
Judge ==
    /\ At("judge") /\ journal[op] = "prepared"
    /\ \E b \in current :
         \/ Erase(NewPath(b)) /\ UNCHANGED counts
         \/ Fault /\ UNCHANGED disk
    /\ journal' = SetState(journal, op, "failed")
    /\ Leave /\ UNCHANGED <<catalog, claim, world>>

CompleteRow ==
    /\ At("complete")
    /\ journal' = SetState(journal, op, "completed")
    /\ \E b \in current : NextBatch(Reported(b))
    /\ UNCHANGED <<disk, catalog, claim, world, counts>>

(* Any other error of the database or the disk ends the scan where it is. *)
StepFails ==
    /\ server = "up"
    /\ pc \in {"revalidate", "normalize", "reserve", "journal", "judge", "complete"}
    /\ pc = "revalidate" => planned # {}
    /\ Fault /\ Leave
    /\ UNCHANGED <<stored, world>>

(* Covers are looked up without the lock; no result of that is kept here. *)
Finish == At("done") /\ Leave /\ UNCHANGED <<stored, world, counts>>

-----------------------------------------------------------------------------
(* Everybody else *)

Stop == stops < MaxStops /\ stops' = stops + 1 /\ UNCHANGED <<faults, user>>

(* cancel_scan aborts the workflow at whatever await it is.  A folder       *)
(* rename that had begun goes on in a blocking thread: one that ends at     *)
(* once is the rename and then Cancel; that it may end when the next scan   *)
(* or another request is at work is left out.                               *)
Cancel ==
    /\ server = "up" /\ pc # "idle" /\ Stop /\ Leave
    /\ UNCHANGED <<stored, world>>

Crash ==
    /\ server = "up" /\ Stop /\ Leave
    /\ server' = "recovering" /\ pending' = PendingOps(journal)
    /\ UNCHANGED <<stored, changed, lost>>

MutKeepRow(o) == FALSE
Persisted(o) == claim[o] \in Indexed

Reconciled(o, state) ==
    /\ journal' = SetState(journal, o, state)
    /\ pending' = pending \ {o}
    /\ UNCHANGED <<local, catalog, claim, server, changed, lost>>

(* reconcile_prepared_upload: the rows decide whether the playlist stays. *)
RecoverUndecided(o) ==
    /\ server = "recovering" /\ o \in pending /\ journal[o] \in Undecided
    /\ \/ ~Persisted(o) /\ Erase(claim[o]) /\ UNCHANGED counts /\ Reconciled(o, "completed")
       \/ Persisted(o) /\ OnDisk(claim[o]) /\ UNCHANGED <<disk, counts>> /\ Reconciled(o, "completed")
       \/ Persisted(o) /\ ~OnDisk(claim[o]) /\ UNCHANGED <<disk, counts>> /\ Reconciled(o, "failed")
       \/ Fault /\ UNCHANGED disk /\ Reconciled(o, "failed")

RecoverCommitted(o) ==
    /\ server = "recovering" /\ o \in pending /\ journal[o] \in Committed
    /\ \/ OnDisk(claim[o]) /\ UNCHANGED counts /\ Reconciled(o, "completed")
       \/ ~OnDisk(claim[o]) /\ UNCHANGED counts /\ Reconciled(o, "failed")
       \/ Fault /\ Reconciled(o, "failed")
    /\ UNCHANGED disk

Ready ==
    /\ server = "recovering" /\ pending = {} /\ server' = "up"
    /\ UNCHANGED <<pending, changed, lost, local, stored, counts>>

Meddle == user < MaxUser /\ user' = user + 1 /\ UNCHANGED <<faults, stops>>

UserAdds(path) ==
    /\ ~OnDisk(path) /\ Meddle /\ Write(path)
    /\ changed' = changed \cup {path}
    /\ UNCHANGED <<local, catalog, journal, claim, server, pending, lost>>

UserRemoves(path) ==
    /\ OnDisk(path) /\ Meddle /\ Erase(path)
    /\ changed' = changed \cup {path} /\ lost' = lost \cup {path}
    /\ UNCHANGED <<local, catalog, journal, claim, server, pending>>

UserChanges(path) ==
    /\ OnDisk(path) /\ Meddle
    /\ changed' = changed \cup {path}
    /\ UNCHANGED <<local, stored, server, pending, lost>>

(* A deletion takes the root lock, so it comes between scans.  A game of    *)
(* several files goes with everything in its folder, unless another game    *)
(* has a file there: package_folder_candidate, protect_shared_package_folders. *)
PackageFolders(game) ==
    {dir \in Dirs : /\ Kind[dir] = "folder" /\ \E p, q \in game : p # q
                    /\ \A p \in game : p[1] = dir
                    /\ \A p \in Indexed \ game : p[1] # dir}
GameDeleted(game) ==
    /\ server = "up" /\ pc \in {"idle", "done"} /\ Meddle
    /\ catalog' = catalog \ {game}
    /\ disk' = [dir \in Dirs |-> IF dir \in PackageFolders(game) THEN {}
                                 ELSE {n \in disk[dir] : <<dir, n>> \notin game}]
    /\ changed' = changed \cup game
    /\ UNCHANGED <<local, journal, claim, server, pending, lost>>

-----------------------------------------------------------------------------
Scan ==
    \/ StartScan \/ Discover \/ DiscoverFails \/ PlanBatch \/ Revalidate
    \/ Normalize \/ Reserve \/ JournalPlaylist \/ WritePlaylist \/ WriteFails
    \/ Save \/ SaveFails \/ Judge \/ CompleteRow \/ StepFails \/ Finish

Recovery == Ready \/ \E o \in Ops : RecoverUndecided(o) \/ RecoverCommitted(o)

ScanNext ==
    \/ Scan \/ Recovery \/ Cancel \/ Crash
    \/ \E path \in UserPaths : UserAdds(path) \/ UserRemoves(path) \/ UserChanges(path)
    \/ \E game \in catalog : GameDeleted(game)

ScanSpec == ScanInit /\ [][ScanNext]_scanVars

(* An administrator goes on starting scans, and the server restarts. *)
FairScans == ScanSpec /\ WF_scanVars(Scan) /\ WF_scanVars(Recovery)

-----------------------------------------------------------------------------
(* The result of a scan names every file it counted exactly once: as        *)
(* imported, as already indexed or as left alone (the debug_assert at the   *)
(* end of scan_library).                                                    *)
OneDisposition ==
    pc = "done" => \A p \in Paths : outcome[p] = IF p \in scanned THEN 1 ELSE 0

(* A path in the catalog has its file, unless a user took it away and no    *)
(* scan has seen it since: no row comes from a stale discovery, no folder   *)
(* is renamed away from under a game, and no recovery of a scan that        *)
(* stopped half-way removes a playlist that a later scan took for the       *)
(* user's.                                                                  *)
IndexedFilesExist == \A p \in Indexed : OnDisk(p) \/ p \in lost

(* A scan adds a game folder whole: the new game has every file of it that  *)
(* was there when discovery looked, and none of another folder.             *)
GamesAreWhole ==
    [][\A g \in catalog' \ catalog : \A p \in g :
         /\ \A q \in g : q[1] = p[1]
         /\ Kind[p[1]] = "folder" =>
              \A n \in disk[p[1]] : Sort[n] = "game" /\ <<p[1], n>> \notin changed
                                      => <<p[1], n>> \in g]_scanVars

(* The folders a scan can import: nothing is in the way of the playlist or  *)
(* of the new name of the folder, or was there when the scan looked (what   *)
(* is in the way may itself be renamed later in the scan).                  *)
Importables == {b \in UNION {BatchesOf(dir) : dir \in Dirs} : Importable(b)}
Unobstructed(b) ==
    /\ ~Repeats(b.names)
    /\ HasPlaylist(b.names) =>
         LET home == Home[PlaylistName(b.names)] IN
           /\ home = b.dir \/ (~IsDir(home) /\ \A p \in scanned : p[1] # home)
           /\ <<home, PlaylistName(b.names)>> \notin Indexed

(* What interrupted earlier scans does not matter: a scan that ends leaves   *)
(* no folder out that describes one game, unless users meddled with it.     *)
NothingLeftOut ==
    pc = "done" /\ changed = {} => \A b \in Importables : ~Unobstructed(b)

(* Scans get to their end again and again: no folder makes every scan fail, *)
(* but for one whose playlist lists itself.  Such a folder is planned as a  *)
(* game that has the playlist twice (add_reference, disc_sets.rs:248), and  *)
(* the error of the database on the second row ends every scan there, until *)
(* a user takes the playlist away.                                          *)
ListsItself(n) == Info[n].ext = "m3u" /\ n \in ToSet(Info[n].refs)

ScansFinish ==
    []<>(pc = "done" \/ \E b \in Importables : \E n \in b.names : ListsItself(n))
=============================================================================
