---------------------------- MODULE GogImports ----------------------------
(* GOG setup imports: admission under the upload permit, the supervisor and *)
(* the workflow of each job, the in-memory record that clients poll, and    *)
(* cancellation.                                                            *)
(*                                                                          *)
(* The eighteen phases of GogImportPhase are taken together where no file,  *)
(* lock or thread tells them apart: "prepare" ends with the private         *)
(* workspace filled, "extract" runs innoextract, "package" runs on a        *)
(* blocking thread, "stage" copies the archive into .uploads.  Publication  *)
(* itself is the upload that UploadOps models in detail.                    *)
EXTENDS Integers, FiniteSets

CONSTANTS
    Jobs,         \* import requests
    Watched,      \* the jobs that some browser polls and may cancel
    Permits,      \* uploads and imports that may run at the same time
    Capacity,     \* TERMINAL_JOB_CAPACITY
    MaxEvents,    \* MAX_RETAINED_EVENTS
    MaxOutput,    \* MaxOutput[j]: bound on the lines innoextract prints for j
    MaxStuck      \* MaxStuck[j]: bound on what of j cannot be removed

Rank == [queued |-> 0, prepare |-> 1, extract |-> 2, package |-> 3, stage |-> 4,
         publish |-> 5, cleanup |-> 6, complete |-> 7]
Phases == DOMAIN Rank

ASSUME GogAssumption ==
    /\ Watched \subseteq Jobs
    /\ Permits \in Nat \ {0} /\ Capacity \in Nat
    /\ MaxEvents \in Nat /\ MaxEvents >= Cardinality(Phases)
    /\ MaxOutput \in [Jobs -> Nat] /\ MaxStuck \in [Jobs -> Nat]

VARIABLES
    record,     \* record[j]: the state of the job, "none" before, "pruned" after
    phase,      \* phase[j]: the phase its record shows
    handle,     \* the jobs whose record holds an abort handle
    signal,     \* the jobs whose canceller has yet to call abort
    aborted,    \* the jobs whose running workflow task is told to stop
    sup,        \* sup[j]: where the request and then the supervisor of j is
    work,       \* work[j]: where the workflow task of j is
    packing,    \* the jobs whose packaging thread runs
    setup,      \* the jobs whose setup files lie under .uploads
    workspace,  \* the jobs whose private workspace exists
    archive,    \* the jobs whose generated archive lies under .uploads
    stuck,      \* stuck[j]: what of j was to be removed when that failed
    published,  \* published[j]: what publication has done for j
    log,        \* log[j]: the events of the record
    client      \* client[j]: the cursor of the poller and what it was shown

vars == <<record, phase, handle, signal, aborted, sup, work, packing, setup,
          workspace, archive, stuck, published, log, client>>

Terminal == {"succeeded", "failed", "cancelled"}
Ended == {"ok", "error", "aborted"}

(* The steps of a request during which it holds an upload permit. *)
Holding == {"upload", "start", "attach", "join", "cleanup", "report"}

TypeOK ==
    /\ record \in [Jobs -> {"none", "queued", "running", "pruned"} \cup Terminal]
    /\ phase \in [Jobs -> Phases]
    /\ sup \in [Jobs -> Holding \cup {"idle", "done"}]
    /\ work \in [Jobs -> {"idle", "spawned", "prepare", "extract", "package", "packed",
                          "stage", "publish"} \cup Ended]
    /\ \A s \in {handle, signal, aborted, packing, setup, workspace, archive} : s \subseteq Jobs
    /\ stuck \in [Jobs -> SUBSET {"setup", "workspace", "archive"}]
    /\ published \in [Jobs -> {"no", "begun", "done"}]
    /\ \A j \in Jobs :
         /\ log[j].next \in Nat /\ log[j].truncated \in BOOLEAN
         /\ log[j].phases \cup log[j].outputs \subseteq 1..log[j].next
         /\ client[j].seen \subseteq 1..client[j].cursor

NoEvents == [next |-> 0, phases |-> {}, outputs |-> {}, truncated |-> FALSE]
NoPolls == [cursor |-> 0, seen |-> {}]

Init ==
    /\ record = [j \in Jobs |-> "none"] /\ phase = [j \in Jobs |-> "queued"]
    /\ handle = {} /\ signal = {} /\ aborted = {}
    /\ sup = [j \in Jobs |-> "idle"] /\ work = [j \in Jobs |-> "idle"]
    /\ packing = {} /\ setup = {} /\ workspace = {} /\ archive = {}
    /\ stuck = [j \in Jobs |-> {}]
    /\ published = [j \in Jobs |-> "no"]
    /\ log = [j \in Jobs |-> NoEvents]
    /\ client = [j \in Jobs |-> NoPolls]

files == <<setup, workspace, archive, stuck, published>>
registry == <<record, phase, handle, log>>

-----------------------------------------------------------------------------
(* The record: every operation is one critical section of the registry *)

(* The retained events are bounded by number and by size: the oldest lines  *)
(* of output go first (how many the size takes is left open), phases stay.  *)
Oldest(seqs, n) == {s \in seqs : Cardinality({t \in seqs : t <= s}) <= n}

MutPhasesEvicted(l) ==
    {[l EXCEPT !.phases = @ \ Oldest(l.phases, n), !.truncated = @ \/ n > 0] :
        n \in {i \in 0..Cardinality(l.phases) :
                   Cardinality(l.phases) + Cardinality(l.outputs) - i <= MaxEvents}}
Retained(l) ==
    {[l EXCEPT !.outputs = @ \ Oldest(l.outputs, n), !.truncated = @ \/ n > 0] :
        n \in {i \in 0..Cardinality(l.outputs) :
                   Cardinality(l.phases) + Cardinality(l.outputs) - i <= MaxEvents}}

(* append_event *)
WithPhase(l) == Retained([l EXCEPT !.next = @ + 1, !.phases = @ \cup {l.next + 1}])
WithOutput(l) == Retained([l EXCEPT !.next = @ + 1, !.outputs = @ \cup {l.next + 1}])

Reporting(j) == record[j] = "running"

(* set_phase: ignored unless the record is running, refused backwards. *)
SetPhase(j, p) ==
    IF Reporting(j) /\ Rank[p] > Rank[phase[j]]
      THEN /\ phase' = [phase EXCEPT ![j] = p]
           /\ \E l \in WithPhase(log[j]) : log' = [log EXCEPT ![j] = l]
      ELSE UNCHANGED <<phase, log>>

(* prune_locked: terminal records go when they are too old, the oldest ones *)
(* also when they are too many.  The times are of a wall clock, so any may  *)
(* be the oldest; running jobs are never pruned.  With a record go its      *)
(* events, and its poller is answered 404 from then on.                     *)
Pruned(r, ph, l, c) ==
    LET finished == {j \in Jobs : r[j] \in Terminal} IN
    \E gone \in SUBSET finished :
        /\ Cardinality(finished \ gone) <= Capacity
        /\ record' = [j \in Jobs |-> IF j \in gone THEN "pruned" ELSE r[j]]
        /\ phase' = [j \in Jobs |-> IF j \in gone THEN "queued" ELSE ph[j]]
        /\ log' = [j \in Jobs |-> IF j \in gone THEN NoEvents ELSE l[j]]
        /\ client' = [j \in Jobs |-> IF j \in gone THEN NoPolls ELSE c[j]]

-----------------------------------------------------------------------------
(* Admission: import_gog_setup *)

(* The permit is awaited before the body is read. *)
Receive(j) ==
    /\ sup[j] = "idle"
    /\ Cardinality({i \in Jobs : sup[i] \in Holding}) < Permits
    /\ sup' = [sup EXCEPT ![j] = "upload"]
    /\ UNCHANGED <<registry, signal, aborted, work, packing, files, client>>

(* read_gog_import_multipart: the first setup file is staged. *)
StageSetup(j) ==
    /\ sup[j] = "upload" /\ j \notin setup
    /\ setup' = setup \cup {j}
    /\ UNCHANGED <<registry, signal, aborted, sup, work, packing, workspace, archive,
                   stuck, published, client>>

(* A broken body, or a set of files that is not admitted, is cleaned up; if *)
(* the client disconnects nobody cleans up before the next start.           *)
Refuse(j) ==
    /\ sup[j] = "upload"
    /\ setup' \in {setup, setup \ {j}}
    /\ sup' = [sup EXCEPT ![j] = "done"]
    /\ UNCHANGED <<registry, signal, aborted, work, packing, workspace, archive,
                   stuck, published, client>>

(* reserve and spawn_gog_import_worker, without an await in between. *)
Admit(j) ==
    /\ sup[j] = "upload" /\ j \in setup
    /\ Pruned([record EXCEPT ![j] = "queued"], phase, log, client)
    /\ sup' = [sup EXCEPT ![j] = "start"]
    /\ UNCHANGED <<handle, signal, aborted, work, packing, files>>

-----------------------------------------------------------------------------
(* The supervisor: supervise_gog_import_worker *)

(* A job cancelled while it was queued is not started. *)
Begin(j) ==
    /\ sup[j] = "start"
    /\ IF record[j] = "queued"
         THEN /\ record' = [record EXCEPT ![j] = "running"]
              /\ work' = [work EXCEPT ![j] = "spawned"]
              /\ sup' = [sup EXCEPT ![j] = "attach"]
         ELSE /\ sup' = [sup EXCEPT ![j] = "cleanup"]
              /\ UNCHANGED <<record, work>>
    /\ UNCHANGED <<phase, handle, log, signal, aborted, packing, files, client>>

Stop(j) == aborted' = IF work[j] \in Ended THEN aborted ELSE aborted \cup {j}

(* attach_abort_handle: a record that is terminal by now aborts at once; one *)
(* that is gone does not, and the error is only logged.                     *)
MutAttachBlindly(j) == handle' = handle \cup {j} /\ UNCHANGED aborted
AttachHandle(j) ==
    IF record[j] \in Terminal
      THEN Stop(j) /\ UNCHANGED handle
      ELSE /\ handle' = IF record[j] = "pruned" THEN handle ELSE handle \cup {j}
           /\ UNCHANGED aborted

Attach(j) ==
    /\ sup[j] = "attach"
    /\ AttachHandle(j)
    /\ sup' = [sup EXCEPT ![j] = "join"]
    /\ UNCHANGED <<record, phase, log, signal, work, packing, files, client>>

MutAwaitResult(j) == work[j] \in {"ok", "error"}
Joined(j) == work[j] \in Ended

(* Only the cleanup of a successful import shows as a phase. *)
Join(j) ==
    /\ sup[j] = "join" /\ Joined(j)
    /\ IF work[j] = "ok" THEN SetPhase(j, "cleanup") ELSE UNCHANGED <<phase, log>>
    /\ sup' = [sup EXCEPT ![j] = "cleanup"]
    /\ UNCHANGED <<record, handle, signal, aborted, work, packing, files, client>>

(* A removal that fails is only logged (cleanup_path) or not noticed at all *)
(* (the drop of a TempDir), and the row of the file is completed as usual.  *)
Spare(j, kept) ==
    /\ kept # {} => Cardinality(stuck[j] \cup kept) <= MaxStuck[j]
    /\ stuck' = [stuck EXCEPT ![j] = @ \cup kept]

DiscardSetup(j) ==
    \/ setup' = setup \ {j} /\ Spare(j, {})
    \/ j \in setup /\ UNCHANGED setup /\ Spare(j, {"setup"})

(* cleanup_staged_operations; a job that never ran has nothing to report. *)
CleanUp(j) ==
    /\ sup[j] = "cleanup"
    /\ DiscardSetup(j)
    /\ sup' = [sup EXCEPT ![j] = IF work[j] \in Ended THEN "report" ELSE "done"]
    /\ UNCHANGED <<registry, signal, aborted, work, packing, workspace, archive,
                   published, client>>

Outcome(j) == IF work[j] = "ok" THEN "succeeded" ELSE "failed"

(* succeed and fail: a terminal record stays as it is; then the permit goes. *)
Report(j) ==
    /\ sup[j] = "report"
    /\ \/ /\ Reporting(j) /\ Outcome(j) = "succeeded"
          /\ \E l \in WithPhase(log[j]) :
               Pruned([record EXCEPT ![j] = "succeeded"], [phase EXCEPT ![j] = "complete"],
                      [log EXCEPT ![j] = l], client)
          /\ handle' = handle \ {j}
       \/ /\ Reporting(j) /\ Outcome(j) = "failed"
          /\ Pruned([record EXCEPT ![j] = "failed"], phase, log, client)
          /\ handle' = handle \ {j}
       \/ ~Reporting(j) /\ UNCHANGED <<registry, client>>
    /\ sup' = [sup EXCEPT ![j] = "done"]
    /\ UNCHANGED <<signal, aborted, work, packing, files>>

-----------------------------------------------------------------------------
(* The workflow: import_setup.  A task that was told to stop does not       *)
(* continue after the await it has reached.                                 *)
At(j, step) == work[j] = step /\ j \notin aborted

Go(j, step) == work' = [work EXCEPT ![j] = step]

(* Validation, the target, the hash of innoextract, the private copies. *)
Prepare(j) ==
    /\ At(j, "spawned")
    /\ SetPhase(j, "prepare")
    /\ workspace' = workspace \cup {j}
    /\ Go(j, "prepare")
    /\ UNCHANGED <<record, handle, signal, aborted, sup, packing, setup, archive,
                   stuck, published, client>>

(* The probes, the integrity test and the extraction. *)
Extract(j) ==
    /\ At(j, "prepare")
    /\ SetPhase(j, "extract")
    /\ Go(j, "extract")
    /\ UNCHANGED <<record, handle, signal, aborted, sup, packing, files, client>>

(* capture_stream and append_output: a line of innoextract, for as long as  *)
(* the record still shows the phase of the process.                         *)
Output(j) ==
    /\ work[j] = "extract"
    /\ log[j].next < MaxOutput[j] + Cardinality(log[j].phases)
    /\ Reporting(j) /\ phase[j] = "extract"
    /\ \E l \in WithOutput(log[j]) : log' = [log EXCEPT ![j] = l]
    /\ UNCHANGED <<record, phase, handle, signal, aborted, sup, work, packing, files,
                   client>>

(* package_extracted_tree, on a thread that no abort reaches. *)
Package(j) ==
    /\ At(j, "extract")
    /\ SetPhase(j, "package")
    /\ packing' = packing \cup {j}
    /\ Go(j, "package")
    /\ UNCHANGED <<record, handle, signal, aborted, sup, files, client>>

(* The thread ends, whether or not anybody still waits for it. *)
Packed(j) ==
    /\ j \in packing
    /\ packing' = packing \ {j}
    /\ IF At(j, "package") THEN Go(j, "packed") ELSE UNCHANGED work
    /\ UNCHANGED <<registry, signal, aborted, sup, files, client>>

(* publish_archive: the journal row and the copy in .uploads. *)
StageArchive(j) ==
    /\ At(j, "packed")
    /\ SetPhase(j, "stage")
    /\ archive' = archive \cup {j}
    /\ Go(j, "stage")
    /\ UNCHANGED <<record, handle, signal, aborted, sup, packing, setup, workspace,
                   stuck, published, client>>

(* finalize_upload begins; that the phase is ignored stops nothing. *)
Publish(j) ==
    /\ At(j, "stage")
    /\ SetPhase(j, "publish")
    /\ published' = [published EXCEPT ![j] = "begun"]
    /\ Go(j, "publish")
    /\ UNCHANGED <<record, handle, signal, aborted, sup, packing, setup, workspace,
                   archive, stuck, client>>

(* The drop of the TempDir of a workflow, however that ends. *)
RemoveWorkspace(j, kept) ==
    /\ "workspace" \in kept => j \in workspace
    /\ workspace' = IF "workspace" \in kept THEN workspace ELSE workspace \ {j}

(* The archive is in the library: it was moved there, so that no part is    *)
(* left to remove; its row is settled.                                      *)
Finish(j) ==
    /\ At(j, "publish")
    /\ published' = [published EXCEPT ![j] = "done"]
    /\ archive' = archive \ {j}
    /\ \E kept \in SUBSET {"workspace"} : RemoveWorkspace(j, kept) /\ Spare(j, kept)
    /\ Go(j, "ok")
    /\ UNCHANGED <<registry, signal, aborted, sup, packing, setup, client>>

MutArchiveKept(j, kept) == UNCHANGED archive
RemoveArchive(j, kept) ==
    archive' = IF "archive" \in kept THEN archive ELSE archive \ {j}

(* Any step may fail; what it had staged is removed on the way out, as far  *)
(* as that succeeds.  A publication that fails has been undone, or stays    *)
(* for the next start, or failed only after its commit; only where it was   *)
(* undone the archive is again, or still, a part under .uploads.            *)
Fail(j) ==
    /\ j \notin aborted /\ work[j] \notin Ended \cup {"idle", "spawned", "package"}
    /\ published' \in IF work[j] = "publish"
                        THEN {[published EXCEPT ![j] = p] : p \in {"no", "begun", "done"}}
                        ELSE {published}
    /\ \E kept \in SUBSET {"workspace", "archive"} :
         /\ "archive" \in kept => j \in archive /\ published'[j] = "no"
         /\ RemoveArchive(j, kept) /\ RemoveWorkspace(j, kept)
         /\ Spare(j, kept)
    /\ Go(j, "error")
    /\ UNCHANGED <<registry, signal, aborted, sup, packing, setup, client>>

(* The task is dropped: the process group of innoextract is killed and the  *)
(* workspace removed, which may also fail because the packaging thread      *)
(* still writes there.  Nothing removes the archive it had staged.          *)
Drop(j) ==
    /\ j \in aborted /\ work[j] \notin Ended \cup {"idle"}
    /\ \/ \E kept \in SUBSET {"workspace"} : RemoveWorkspace(j, kept) /\ Spare(j, kept)
       \/ j \in packing /\ UNCHANGED <<workspace, stuck>>
    /\ Go(j, "aborted")
    /\ aborted' = aborted \ {j}
    /\ UNCHANGED <<registry, signal, sup, packing, setup, archive, published, client>>

-----------------------------------------------------------------------------
(* Clients *)

(* cancel: the record is marked under the lock of the registry. *)
MutCancelAnytime(j) == TRUE
InTime(j) == Rank[phase[j]] < Rank["publish"]

Cancel(j) ==
    /\ j \in Watched /\ record[j] \in {"queued", "running"} /\ InTime(j)
    /\ record' = [record EXCEPT ![j] = "cancelled"]
    /\ handle' = handle \ {j}
    /\ signal' = IF j \in handle THEN signal \cup {j} ELSE signal
    /\ UNCHANGED <<phase, log, aborted, sup, work, packing, files, client>>

(* abort is called after the lock is released; it does nothing to a task    *)
(* that has ended.                                                          *)
Abort(j) ==
    /\ j \in signal
    /\ signal' = signal \ {j}
    /\ Stop(j)
    /\ UNCHANGED <<registry, sup, work, packing, files, client>>

NextCursor(j) == log[j].next

(* snapshot: the events after the cursor; the answer names the next cursor. *)
Poll(j) ==
    /\ j \in Watched /\ record[j] \notin {"none", "pruned"}
    /\ LET shown == {s \in log[j].phases \cup log[j].outputs : s > client[j].cursor} IN
       Pruned(record, phase, log, [client EXCEPT ![j] =
                  [cursor |-> NextCursor(j), seen |-> @.seen \cup shown]])
    /\ UNCHANGED <<handle, signal, aborted, sup, work, packing, files>>

-----------------------------------------------------------------------------
Supervisor(j) == Begin(j) \/ Attach(j) \/ Join(j) \/ CleanUp(j) \/ Report(j)

Workflow(j) ==
    \/ Prepare(j) \/ Extract(j) \/ Output(j) \/ Package(j) \/ StageArchive(j)
    \/ Publish(j) \/ Finish(j) \/ Fail(j) \/ Drop(j)

Next ==
    \/ \E j \in Jobs :
         \/ Receive(j) \/ StageSetup(j) \/ Refuse(j) \/ Admit(j)
         \/ Supervisor(j) \/ Workflow(j) \/ Packed(j)
         \/ Cancel(j) \/ Abort(j) \/ Poll(j)

Spec == Init /\ [][Next]_vars

(* Tasks and threads that are ready are run; innoextract has a time limit,  *)
(* and a canceller calls abort right after it released the lock.  Clients   *)
(* are not forced to upload, poll or cancel.                                *)
FairSpec ==
    /\ Spec
    /\ \A j \in Jobs :
         WF_vars(Supervisor(j)) /\ WF_vars(Workflow(j)) /\ WF_vars(Packed(j)) /\ WF_vars(Abort(j))

-----------------------------------------------------------------------------
(* Properties *)

(* Nothing of an admitted job outlives it, neither setup files nor a        *)
(* workspace nor a staged archive, whatever it was doing when it failed or  *)
(* was cancelled, with two exceptions.  A workflow that was aborted may     *)
(* leave its workspace and its archive, whose row is open, to the next      *)
(* start.  And what was to be removed but could not be stays, without an    *)
(* open row: a workspace until the next start, a part under .uploads until  *)
(* a start that finds it old (api/admin/multipart.rs:735, gog_import        *)
(* mod.rs:942, 960).                                                        *)
NothingLeftBehind ==
    \A j \in Jobs : sup[j] = "done" /\ record[j] # "none" =>
        /\ j \in setup => "setup" \in stuck[j]
        /\ j \in workspace => "workspace" \in stuck[j] \/ work[j] = "aborted"
        /\ j \in archive => "archive" \in stuck[j] \/ work[j] = "aborted"

(* Once a cancellation has been delivered, or has found a job that was not  *)
(* started yet, the import never enters the library.                        *)
CancelledStaysOut ==
    [][\A j \in Jobs :
         record[j] = "cancelled" /\ sup[j] # "attach" /\ j \notin signal /\ published[j] = "no"
           => published'[j] = "no"]_vars

(* A record that succeeded is in the library, and a cancelled one was       *)
(* cancelled before its publication phase: both outcomes are final.         *)
OutcomesAreTrue ==
    \A j \in Jobs :
        /\ record[j] = "succeeded" => published[j] = "done"
        /\ record[j] = "cancelled" => Rank[phase[j]] < Rank["publish"]

(* Every phase a job has entered stays in its log, however much output      *)
(* pushes, and a client that follows next_event_seq is shown all of them;   *)
(* every line of output too unless the job says that output was truncated.  *)
PollersMissNothing ==
    \A j \in Watched :
        LET shown == client[j] IN
        /\ Cardinality(log[j].phases) = Rank[phase[j]]
        /\ log[j].phases \cap (1..shown.cursor) \subseteq shown.seen
        /\ ~log[j].truncated => shown.seen = 1..shown.cursor

(* Every admitted import ends, whatever it was doing when it failed or was  *)
(* cancelled, and gives its permit back.                                    *)
AdmittedImportsEnd == \A j \in Jobs : sup[j] = "start" ~> sup[j] = "done"
=============================================================================
