---------------------------- MODULE Conversions ----------------------------
(* Conversion imports: a request reserves one of a few places, waits for an *)
(* upload permit, receives its files into a private workspace and launches  *)
(* a task.  The task inspects the input and, one conversion at a time, has  *)
(* a blocking codec compress and verify it, then publishes the output as a  *)
(* journaled upload.  Blocking work cannot be dropped: it keeps the place,  *)
(* the codec permit, the workspace and the instance lock until it ends.     *)
(* Administrators cancel and poll, clients disconnect, conversions take too *)
(* long, and the server is shut down or dies.                               *)
EXTENDS JobRecords

CONSTANTS
    Format,        \* Format[j]: what the platform of j is converted to
    Discs,         \* the discs of a CHD import
    Places,        \* permits of ConversionRegistry::capacity
    UploadPermits, \* upload permits of the server
    Sticky         \* bound: the imports whose files the disk may refuse to remove

ASSUME ConversionsAssumption ==
    /\ Format \in [Jobs -> {"chd", "wua", "rvz", "7z"}]
    /\ {Discs, Places, UploadPermits} \subseteq Nat \ {0}
    /\ Sticky \subseteq Jobs

VARIABLES
    server,      \* "up"; "stopping", while blocking work goes on; "down"; "starting"
    step,        \* step[j]: where the handler, then the task, of j is
    cancel,      \* cancel[j]: the cancellation flag
    notified,    \* notified[j]: the Notify of the entry holds a permit
    publishing,  \* publishing[j]: of the entry
    codec,       \* codec[j]: the blocking work of j
    stage,       \* stage[j]: the stage its codec is in
    workspace,   \* workspace[j]: its directory under .conversion-staging exists
    stuck,       \* the imports whose directory could not be removed
    pending,     \* pending[j]: the journal row of the publication is not completed
    parts,       \* parts[j]: its parts under .uploads exist
    game         \* game[j]: its output is in the library

signals == <<cancel, notified, publishing>>
blocking == <<codec, stage>>
disk == <<pending, parts, game>>
vars == <<recordVars, server, step, signals, blocking, workspace, stuck, disk>>

Steps == {"none", "waiting", "uploading", "inspect", "inspecting", "queue",
          "compressing", "joining", "publish", "stage", "finalize",
          "tidy", "undo", "metadata", "clean", "discard", "report", "refuse", "gone"}

(* The phases the codecs publish, one for each stage that looks at the flag *)
(* before it begins.                                                        *)
ChdStages == [i \in 1..2 * Discs |-> 7]     \* compress, verify and compare each disc
WuaStages == <<5, 6, 7>>                    \* pack, finalize, verify
RvzStages == <<5, 7>>                       \* compress, verify
SevenZipStages == <<5, 7>>                  \* compress, verify

Stages(j) ==
    CASE Format[j] = "chd" -> ChdStages
      [] Format[j] = "wua" -> WuaStages
      [] Format[j] = "rvz" -> RvzStages
      [] Format[j] = "7z" -> SevenZipStages

TypeOK ==
    /\ RecordsTypeOK
    /\ server \in {"up", "stopping", "down", "starting"}
    /\ step \in [Jobs -> Steps]
    /\ {cancel, notified, publishing} \subseteq [Jobs -> BOOLEAN]
    /\ codec \in [Jobs -> {"idle", "inspecting", "coding", "done", "failed"}]
    /\ \A j \in Jobs : stage[j] \in 0..Len(Stages(j))
    /\ {workspace, pending, parts, game} \subseteq [Jobs -> BOOLEAN]
    /\ stuck \subseteq Jobs
    \* What is staged for publication is journaled until it was given up.
    /\ \A j \in Jobs : parts[j] => pending[j] \/ step[j] \in {"discard", "refuse", "gone"}

Never == [j \in Jobs |-> FALSE]

Init ==
    /\ RecordsInit
    /\ server = "up"
    /\ step = [j \in Jobs |-> "none"]
    /\ cancel = Never /\ notified = Never /\ publishing = Never
    /\ codec = [j \in Jobs |-> "idle"] /\ stage = [j \in Jobs |-> 0]
    /\ workspace = Never /\ stuck = {}
    /\ pending = Never /\ parts = Never /\ game = Never

-----------------------------------------------------------------------------
(* Who holds what: a place is shared with the blocking work, the codec      *)
(* permit is handed to it.                                                  *)

Live(j) == step[j] \notin {"none", "gone"}
Working(j) == codec[j] \in {"inspecting", "coding"}

PlacesTaken == {j \in Jobs : Live(j) \/ Working(j)}

Converting == {j \in Jobs : codec[j] = "coding"}
Uploading == {j \in Jobs : step[j] = "uploading"}

Go(j, from, to) ==
    /\ server = "up"
    /\ step[j] = from
    /\ step' = [step EXCEPT ![j] = to]

Set(f, j, value) == [f EXCEPT ![j] = value]

(* set_phase of a record that was evicted is an error, which gives up.      *)
Enter(j, from, to, order) ==
    /\ Go(j, from, IF Known(j) THEN to ELSE "discard")
    /\ SetPhase(j, order)
    /\ UNCHANGED <<state, handle, ended>>

-----------------------------------------------------------------------------
(* The request *)

(* reserve: the new record runs.  (Its entry stays at least as long.)       *)
Reserve(j) ==
    /\ Cardinality(PlacesTaken) < Places
    /\ Go(j, "none", "waiting")
    /\ PruneAfter(Set(state, j, "running"), Set(phase, j, 1), ended)
    /\ UNCHANGED <<handle, server, signals, blocking, workspace, stuck, disk>>

(* The upload permit, then the workspace.                                   *)
OpenWorkspace(j) ==
    /\ Cardinality(Uploading) < UploadPermits
    /\ Go(j, "waiting", "uploading")
    /\ workspace' = Set(workspace, j, TRUE)
    /\ UNCHANGED <<recordVars, server, signals, blocking, stuck, disk>>

(* The last field was received: the flag is looked at before a field only.  *)
Launch(j) ==
    /\ Go(j, "uploading", "inspect")
    /\ UNCHANGED <<recordVars, server, signals, blocking, workspace, stuck, disk>>

(* A reservation is dropped: nobody reads its flags any more.               *)
Unshare(j) ==
    /\ cancel' = Set(cancel, j, FALSE)
    /\ notified' = Set(notified, j, FALSE)
    /\ publishing' = Set(publishing, j, FALSE)

(* The drop of a TempDir: nobody notices when the directory stays.          *)
RemoveWorkspace(j) ==
    \/ workspace' = Set(workspace, j, FALSE) /\ UNCHANGED stuck
    \/ /\ workspace[j] /\ j \in Sticky
       /\ stuck' = stuck \cup {j} /\ UNCHANGED workspace

(* An error, a field after a cancellation, or a client that is gone: the    *)
(* workspace is dropped, then the reservation.                              *)
GiveUp(j) ==
    /\ \E from \in {"waiting", "uploading"} : Go(j, from, "gone")
    /\ RemoveWorkspace(j)
    /\ Fail(j)
    /\ Unshare(j)
    /\ UNCHANGED <<server, blocking, disk>>

-----------------------------------------------------------------------------
(* The task *)

BeginInspection(j) ==
    /\ Enter(j, "inspect", "inspecting", 2)
    /\ codec' = Set(codec, j, IF Known(j) THEN "inspecting" ELSE "idle")
    /\ UNCHANGED <<server, signals, stage, workspace, stuck, disk>>

EndInspection(j) ==
    /\ \/ codec[j] = "done" /\ Enter(j, "inspecting", "queue", 4)
       \/ codec[j] = "failed" /\ Go(j, "inspecting", "discard") /\ UNCHANGED recordVars
    /\ codec' = Set(codec, j, "idle")
    /\ UNCHANGED <<server, signals, stage, workspace, stuck, disk>>

(* select: the notification of cancel, or the permit of the codec, after    *)
(* which the flag and the space are looked at without another await.        *)
HearCancel(j) ==
    /\ notified[j]
    /\ Go(j, "queue", "discard")
    /\ notified' = Set(notified, j, FALSE)
    /\ UNCHANGED <<recordVars, server, cancel, publishing, blocking, workspace, stuck, disk>>

BeginCodec(j) ==
    /\ Converting = {}
    /\ \/ /\ ~cancel[j] /\ Enter(j, "queue", "compressing", 5)
          /\ codec' = Set(codec, j, IF Known(j) THEN "coding" ELSE "idle")
          /\ stage' = Set(stage, j, IF Known(j) THEN 1 ELSE 0)
       \/ /\ Go(j, "queue", "discard")
          /\ UNCHANGED <<recordVars, blocking>>
    /\ UNCHANGED <<server, signals, workspace, stuck, disk>>

(* After an hour the flag is set and the blocking work is joined.           *)
MutDropWriter(j) ==
    /\ codec[j] = "coding"
    /\ Go(j, "compressing", "discard")
    /\ cancel' = Set(cancel, j, TRUE)
    /\ UNCHANGED <<recordVars, server, notified, publishing, blocking, workspace, stuck, disk>>
MutJoinOnly(j) ==
    /\ codec[j] = "coding"
    /\ Go(j, "compressing", "joining")
    /\ UNCHANGED <<recordVars, server, signals, blocking, workspace, stuck, disk>>
TimeOut(j) ==
    /\ codec[j] = "coding"
    /\ Go(j, "compressing", "joining")
    /\ cancel' = Set(cancel, j, TRUE)
    /\ UNCHANGED <<recordVars, server, notified, publishing, blocking, workspace, stuck, disk>>

Joined(j) ==
    /\ codec' = Set(codec, j, "idle") /\ stage' = Set(stage, j, 0)
    /\ UNCHANGED <<recordVars, server, cancel, notified, workspace, stuck, disk>>

GiveUpCodec(j) ==
    /\ codec[j] \in {"done", "failed"}
    /\ Go(j, "compressing", "discard") \/ Go(j, "joining", "discard")
    /\ Joined(j) /\ UNCHANGED publishing

(* The output keeps to its limits: under the lock of the entry the flag is  *)
(* looked at for the last time and publication begins.                      *)
MutLateFlag(j) == FALSE
Stopped(j) == cancel[j]

Publish(j) ==
    /\ codec[j] = "done" /\ ~Stopped(j)
    /\ Go(j, "compressing", "publish")
    /\ publishing' = Set(publishing, j, TRUE)
    /\ Joined(j)

(* The root is looked up and the upload is journaled.                       *)
Prepare(j) ==
    /\ \/ /\ Enter(j, "publish", "stage", 9)
          /\ pending' = Set(pending, j, Known(j))
       \/ Enter(j, "publish", "discard", 9) /\ UNCHANGED pending
    /\ UNCHANGED <<server, signals, blocking, workspace, stuck, parts, game>>

StageParts(j) ==
    /\ \/ Go(j, "stage", "finalize") /\ parts' = Set(parts, j, TRUE)
       \/ Go(j, "stage", "undo") /\ \E some \in BOOLEAN : parts' = Set(parts, j, some)
    /\ UNCHANGED <<recordVars, server, signals, blocking, workspace, stuck, pending, game>>

(* finalize_upload: all or nothing (UploadOps).                             *)
Finalize(j) ==
    /\ \/ /\ Go(j, "finalize", "tidy")
          /\ game' = Set(game, j, TRUE) /\ parts' = Set(parts, j, FALSE)
       \/ Go(j, "finalize", "undo") /\ UNCHANGED <<game, parts>>
    /\ UNCHANGED <<recordVars, server, signals, blocking, workspace, stuck, pending>>

(* The parts that are left go, or stay if that fails, which is only logged; *)
(* either way the row is completed, unless the database fails.              *)
Tidy(j) ==
    /\ Go(j, "tidy", "metadata") \/ Go(j, "undo", "discard")
    /\ \/ parts' = Set(parts, j, FALSE)
       \/ j \in Sticky /\ UNCHANGED parts
    /\ \E failed \in BOOLEAN : pending' = Set(pending, j, failed)
    /\ UNCHANGED <<recordVars, server, signals, blocking, workspace, stuck, game>>

(* Metadata are matched for a minute at most; whatever comes of it is a     *)
(* warning of the result.                                                   *)
MatchMetadata(j) ==
    /\ Go(j, "metadata", "clean")
    /\ SetPhase(j, 10)
    /\ UNCHANGED <<state, handle, ended, server, signals, blocking, workspace, stuck, disk>>

DropWorkspace(j) ==
    /\ Go(j, "clean", "report") \/ Go(j, "discard", "refuse")
    /\ RemoveWorkspace(j)
    /\ UNCHANGED <<recordVars, server, signals, blocking, disk>>

Report(j) ==
    /\ \/ Go(j, "report", "gone") /\ Succeed(j)
       \/ Go(j, "refuse", "gone") /\ Fail(j)
    /\ Unshare(j)
    /\ UNCHANGED <<server, blocking, workspace, stuck, disk>>

Task(j) ==
    \/ BeginInspection(j) \/ EndInspection(j)
    \/ HearCancel(j) \/ BeginCodec(j) \/ TimeOut(j) \/ GiveUpCodec(j)
    \/ Publish(j) \/ Prepare(j) \/ StageParts(j) \/ Finalize(j) \/ Tidy(j)
    \/ MatchMetadata(j) \/ DropWorkspace(j) \/ Report(j)

-----------------------------------------------------------------------------
(* The blocking work.  When its task is gone, in a shutdown, the workspace  *)
(* goes with it, if it can be removed.                                      *)

Ends(j, result) ==
    /\ codec' = Set(codec, j, IF step[j] = "gone" THEN "idle" ELSE result)
    /\ \/ workspace' = Set(workspace, j, workspace[j] /\ step[j] # "gone")
       \/ j \in Sticky /\ UNCHANGED workspace
    /\ cancel' = Set(cancel, j, cancel[j] /\ step[j] # "gone")
    /\ UNCHANGED <<server, step, notified, publishing, stuck, disk>>

Inspect(j) ==
    /\ codec[j] = "inspecting"
    /\ \E result \in {"done", "failed"} : Ends(j, result)
    /\ UNCHANGED <<recordVars, stage>>

NextStage(j) ==
    /\ codec[j] = "coding" /\ ~cancel[j] /\ stage[j] < Len(Stages(j))
    /\ stage' = [stage EXCEPT ![j] = @ + 1]
    /\ SetPhase(j, Stages(j)[stage[j] + 1])
    /\ UNCHANGED <<state, handle, ended, server, step, signals, codec, workspace, stuck, disk>>

(* The last stage ends, or the codec fails or meets the flag.               *)
StopCoding(j) ==
    /\ codec[j] = "coding"
    /\ \/ stage[j] = Len(Stages(j)) /\ Ends(j, "done")
       \/ Ends(j, "failed")
    /\ stage' = Set(stage, j, 0)
    /\ UNCHANGED recordVars

Work(j) == Inspect(j) \/ NextStage(j) \/ StopCoding(j)

-----------------------------------------------------------------------------
(* Administrators: cancel marks the record and raises the flag under the    *)
(* lock of the entry; after publication has begun it is refused.  (On a     *)
(* record that is terminal or evicted it has no effect that anyone reads.)  *)
Cancel(j) ==
    /\ server = "up" /\ ~publishing[j]
    /\ MarkCancelled(j)
    /\ cancel' = Set(cancel, j, TRUE)
    /\ notified' = Set(notified, j, TRUE)
    /\ UNCHANGED <<server, publishing, step, blocking, workspace, stuck, disk>>

PollRecord ==
    /\ server = "up" /\ Poll
    /\ UNCHANGED <<server, step, signals, blocking, workspace, stuck, disk>>

-----------------------------------------------------------------------------
(* The process *)

(* Its memory is lost: records and tasks.                                   *)
Forget ==
    /\ state' = [j \in Jobs |-> IF state[j] = "absent" THEN "absent" ELSE "pruned"]
    /\ phase' = [j \in Jobs |-> 0]
    /\ handle' = Never
    /\ ended' = <<>>
    /\ step' = [j \in Jobs |-> IF Live(j) THEN "gone" ELSE step[j]]
    /\ notified' = Never /\ publishing' = Never
    /\ UNCHANGED disk

(* A shutdown drops the tasks, and with them the reservations and, if they  *)
(* can be removed, the workspaces; blocking work goes on with the workspace *)
(* it shares, and sees the flag.                                            *)
Shutdown ==
    /\ server = "up" /\ server' = "stopping"
    /\ Forget
    /\ cancel' = [j \in Jobs |-> Working(j)]
    /\ codec' = [j \in Jobs |-> IF Working(j) THEN codec[j] ELSE "idle"]
    /\ \E kept \in SUBSET Sticky :
         workspace' = [j \in Jobs |-> workspace[j] /\ (Working(j) \/ j \in kept)]
    /\ UNCHANGED <<stage, stuck>>

(* The instance lock is held by the state that the blocking work shares.    *)
LockHolders == {j \in Jobs : Working(j)}

Exit ==
    /\ server = "stopping" /\ LockHolders = {}
    /\ server' = "down"
    /\ UNCHANGED <<recordVars, step, signals, blocking, workspace, stuck, disk>>

Kill ==
    /\ server # "down" /\ server' = "down"
    /\ Forget
    /\ cancel' = Never
    /\ codec' = [j \in Jobs |-> "idle"] /\ stage' = [j \in Jobs |-> 0]
    /\ UNCHANGED <<workspace, stuck>>

(* A start removes abandoned workspaces and then reconciles the journal; an *)
(* error of either ends it.  (Parts without an open row go when they are    *)
(* found old; see UploadOps.)                                               *)
CleanupAbandoned ==
    /\ server = "down" /\ server' = "starting"
    /\ workspace' = Never /\ stuck' = {}
    /\ UNCHANGED <<recordVars, step, signals, blocking, disk>>

Reconcile ==
    /\ server = "starting" /\ server' = "up"
    /\ pending' = Never
    /\ \E old \in SUBSET Jobs :
         parts' = [j \in Jobs |-> parts[j] /\ ~pending[j] /\ j \notin old]
    /\ UNCHANGED <<recordVars, step, signals, blocking, workspace, stuck, game>>

Process == Shutdown \/ Exit \/ Kill \/ CleanupAbandoned \/ Reconcile

-----------------------------------------------------------------------------
Handle(j) == Reserve(j) \/ OpenWorkspace(j) \/ Launch(j) \/ GiveUp(j)

Next ==
    \/ PollRecord \/ Process
    \/ \E j \in Jobs : Handle(j) \/ Task(j) \/ Work(j) \/ Cancel(j)

Spec == Init /\ [][Next]_vars

(* Tasks run; inspections end; a codec that meets the flag stops (without   *)
(* it, it may take for ever); and an operator starts a server that is down. *)
Runs(j) == Task(j) \/ Inspect(j) \/ (cancel[j] /\ StopCoding(j))

FairSpec ==
    /\ Spec
    /\ \A j \in Jobs : WF_vars(Runs(j))
    /\ WF_vars(Exit \/ CleanupAbandoned \/ Reconcile)

-----------------------------------------------------------------------------
(* Properties *)

(* Only the import of a running record publishes: one that was reported as  *)
(* cancelled, failed or evicted never puts a game into the library, however *)
(* late the cancellation (docs/api.md: 409 after publication begins).       *)
PublishedWhileRunning ==
    [][\A j \in Jobs : game'[j] # game[j] => state[j] = "running"]_vars

(* Blocking work has its workspace under it until it ends, whether its task *)
(* timed out, was dropped or the server is started again; one conversion    *)
(* runs at a time; and of the workspaces of a running server every one but  *)
(* those that could not be removed belongs to an import, and these never    *)
(* outnumber the places.                                                    *)
StagingIsHeld ==
    /\ \A j \in Jobs : Working(j) => workspace[j]
    /\ Cardinality({j \in Jobs : codec[j] = "coding"}) <= 1
    /\ server = "up" =>
         /\ {j \in Jobs : workspace[j]} \ stuck \subseteq {j \in Jobs : Live(j)}
         /\ Cardinality({j \in Jobs : workspace[j]} \ stuck) <= Places

(* An import that was launched ends: even a codec that hangs is stopped     *)
(* after its hour, the place and the workspace come back, and the next      *)
(* import in the queue gets the codec.  (Each import is launched once, so   *)
(* all of them are at rest again and again exactly if none goes on for      *)
(* ever.)                                                                   *)
AtRest(j) ==
    /\ step[j] \in {"none", "waiting", "uploading", "gone"} /\ ~Working(j)
    /\ workspace[j] => step[j] = "uploading" \/ j \in stuck

LaunchedImportsEnd == []<>(\A j \in Jobs : AtRest(j))
=============================================================================
