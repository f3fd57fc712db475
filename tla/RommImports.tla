---------------------------- MODULE RommImports ----------------------------
(* The workflow of a RomM import, composed with the registry and the        *)
(* supervisor of JobRegistry: it resolves the remote game, refuses what the *)
(* library already has, downloads each file into the journaled staging      *)
(* area, verifies the bytes, checks for a duplicate once more and hands the *)
(* files to the ordinary upload publication.  It may fail at every step,    *)
(* reach its time limit, or be aborted at every await.                      *)
EXTENDS JobRegistry

CONSTANTS
    Files,      \* Files[j]: how many remote files the import j takes
    Game,       \* Game[j]: what the duplicate rules see of it (hashes, names, title)
    MaxStuck    \* bound on the removals of staged files that fail

ASSUME RommAssumption ==
    /\ MaxPhase = 6 /\ Jobs \subseteq Admissible
    /\ Files \in [Jobs -> Nat \ {0}] /\ MaxStuck \in Nat

VARIABLES
    step,       \* step[j]: where the workflow is, or that it was dropped
    staged,     \* staged[j]: the files whose staging the workflow answers for
    parts,      \* the files in .uploads, as <<import, number>>
    stuck,      \* the parts whose removal was tried and failed
    rows,       \* rows[<<j, i>>]: state of the journal row of a staged file
    outcome,    \* outcome[j]: what the workflow is about to return
    library     \* the imports whose game is in the library

rommVars == <<step, staged, parts, stuck, rows, outcome, library>>
vars == <<registryVars, rommVars>>

Slots == UNION {{j} \X (1..Files[j]) : j \in Jobs}
Own(j) == {j} \X (1..Files[j])

Steps == {"begin", "resolve", "check", "download", "create", "stream",
          "recheck", "ingest", "commit", "finalize", "attach", "discard", "ended", "dropped"}

TypeOK ==
    /\ RegistryTypeOK
    /\ step \in [Jobs -> Steps]
    /\ staged \in [Jobs -> SUBSET Nat] /\ \A j \in Jobs : staged[j] \subseteq 1..Files[j]
    /\ parts \subseteq Slots /\ stuck \subseteq Slots
    /\ rows \in [Slots -> {"none", "prepared", "completed"}]
    /\ outcome \in [Jobs -> {"none", "imported", "already_present", "failed"}]
    /\ library \subseteq Jobs

Init ==
    /\ RegistryInit
    /\ step = [j \in Jobs |-> "begin"]
    /\ staged = [j \in Jobs |-> {}]
    /\ parts = {} /\ stuck = {}
    /\ rows = [s \in Slots |-> "none"]
    /\ outcome = [j \in Jobs |-> "none"]
    /\ library = {}

-----------------------------------------------------------------------------
(* The steps of a workflow that has not been dropped *)

Busy == UNCHANGED <<state, handle, ended, sup, met>>

Goto(j, from, to) ==
    /\ work[j] \in Alive /\ step[j] = from
    /\ step' = [step EXCEPT ![j] = to]
    /\ Busy

(* Going to a step that begins a phase publishes it. *)
Enter(j, from, to, order) ==
    /\ Goto(j, from, to)
    /\ SetPhase(j, order)
    /\ UNCHANGED work

Proceed(j, from, to) == Goto(j, from, to) /\ UNCHANGED <<phase, work>>

Decide(j, answer) == outcome' = [outcome EXCEPT ![j] = answer]

MutAlwaysOk(answer) == "ok"
ResultOf(answer) == IF answer = "failed" THEN "failed" ELSE "ok"

Finish(j, from, answer) ==
    /\ Goto(j, from, "ended")
    /\ Decide(j, answer)
    /\ Return(j, ResultOf(answer))
    /\ UNCHANGED phase

Begin(j) ==
    /\ Enter(j, "begin", "resolve", 1)
    /\ UNCHANGED <<staged, parts, stuck, rows, outcome, library>>

(* Settings, remote detail, selection, limits, platform, safe names. *)
Resolve(j) ==
    /\ \/ Enter(j, "resolve", "check", 2) /\ UNCHANGED outcome
       \/ Finish(j, "resolve", "failed")
    /\ UNCHANGED <<staged, parts, stuck, rows, library>>

(* find_duplicate: a content hash, a file name or the title of the game.    *)
MutOwnOnly(j) == j \in library
Duplicate(j) == \E k \in library : Game[k] = Game[j]

Check(j) ==
    /\ \/ ~Duplicate(j) /\ Enter(j, "check", "download", 3) /\ UNCHANGED outcome
       \/ Duplicate(j) /\ Finish(j, "check", "already_present")
       \/ Finish(j, "check", "failed")
    /\ UNCHANGED <<staged, parts, stuck, rows, library>>

-----------------------------------------------------------------------------
(* download_all *)

NextFile(j) == Cardinality(staged[j]) + 1

SetRow(j, i, s) == rows' = [rows EXCEPT ![<<j, i>>] = s]

(* The file's row is prepared before anything lies in the staging area; a   *)
(* root that is missing, read-only or full, or the journal, ends the loop.  *)
StageRow(j) ==
    /\ NextFile(j) <= Files[j]
    /\ \/ /\ Proceed(j, "download", "create")
          /\ SetRow(j, NextFile(j), "prepared")
          /\ UNCHANGED outcome
       \/ /\ Proceed(j, "download", "discard")
          /\ Decide(j, "failed")
          /\ UNCHANGED rows
    /\ UNCHANGED <<staged, parts, stuck, library>>

Taken(j) == staged' = [staged EXCEPT ![j] = @ \cup {NextFile(j)}]

(* What fails after the row was prepared is cleaned up with the rest.       *)
CreatePart(j) ==
    /\ \/ /\ Proceed(j, "create", "stream")
          /\ parts' = parts \cup {<<j, NextFile(j)>>}
          /\ UNCHANGED <<staged, outcome>>
       \/ /\ Proceed(j, "create", "discard")
          /\ Taken(j) /\ Decide(j, "failed")
          /\ UNCHANGED parts
    /\ UNCHANGED <<stuck, rows, library>>

Stream(j) ==
    /\ Taken(j)
    /\ \/ Proceed(j, "stream", "download") /\ UNCHANGED outcome
       \/ Proceed(j, "stream", "discard") /\ Decide(j, "failed")
    /\ UNCHANGED <<parts, stuck, rows, library>>

-----------------------------------------------------------------------------
(* finish_import *)

(* verify_downloads: a size that differs from the declared one is an error; *)
(* a hash that does is only reported.                                       *)
Verify(j) ==
    /\ NextFile(j) > Files[j]
    /\ \/ Enter(j, "download", "recheck", 4) /\ UNCHANGED outcome
       \/ Enter(j, "download", "discard", 4) /\ Decide(j, "failed")
    /\ UNCHANGED <<staged, parts, stuck, rows, library>>

Recheck(j) ==
    /\ \/ ~Duplicate(j) /\ Enter(j, "recheck", "ingest", 5) /\ UNCHANGED outcome
       \/ Duplicate(j) /\ Proceed(j, "recheck", "discard") /\ Decide(j, "already_present")
       \/ Proceed(j, "recheck", "discard") /\ Decide(j, "failed")
    /\ UNCHANGED <<staged, parts, stuck, rows, library>>

(* finalize_upload, finalize_upload_batch: the files are moved under the    *)
(* root lock.  A name or slug that is taken gets a number.                  *)
Place(j) ==
    /\ \/ Proceed(j, "ingest", "commit") /\ parts' = parts \ Own(j) /\ UNCHANGED outcome
       \/ /\ Proceed(j, "ingest", "discard") /\ Decide(j, "failed")
          /\ \E moved \in SUBSET Own(j) : parts' = parts \ moved
    /\ UNCHANGED <<staged, stuck, rows, library>>

(* The transaction of the game rows; an error after it is an error too.     *)
Commit(j) ==
    /\ \/ Enter(j, "commit", "finalize", 6) /\ UNCHANGED outcome
       \/ Proceed(j, "commit", "discard") /\ Decide(j, "failed")
    /\ library' \in {library, library \cup {j}}
    /\ step'[j] = "finalize" => j \in library'
    /\ UNCHANGED <<staged, parts, stuck, rows>>

(* The hashes are stored and the staging rows completed.  An error is only  *)
(* logged, here and in CompleteRow: it leaves a prepared row without a part, *)
(* as an abort before this step does.                                       *)
Finalize(j) ==
    /\ Proceed(j, "finalize", "attach")
    /\ rows' = [s \in Slots |-> IF s \in Own(j) THEN "completed" ELSE rows[s]]
    /\ staged' = [staged EXCEPT ![j] = {}]
    /\ Decide(j, "imported")
    /\ UNCHANGED <<parts, stuck, library>>

(* Metadata, cover and the IGDB fallback: best effort. *)
AttachMetadata(j) ==
    /\ Finish(j, "attach", outcome[j])
    /\ UNCHANGED <<staged, parts, stuck, rows, library>>

-----------------------------------------------------------------------------
(* discard_staged, in any order of the files: cleanup_path removes the part, *)
(* or logs that it cannot; the row is completed afterwards either way, and   *)
(* nobody answers for the file any more.                                     *)

MutRowFirst(j, i) == TRUE
Tried(j, i) == <<j, i>> \notin parts \/ <<j, i>> \in stuck

RemovePart(j) ==
    /\ Proceed(j, "discard", "discard")
    /\ \E i \in staged[j] :
         /\ ~Tried(j, i)
         /\ \/ parts' = parts \ {<<j, i>>} /\ UNCHANGED stuck
            \/ /\ Cardinality(stuck) < MaxStuck
               /\ stuck' = stuck \cup {<<j, i>>} /\ UNCHANGED parts
    /\ UNCHANGED <<staged, rows, outcome, library>>

CompleteRow(j) ==
    /\ Proceed(j, "discard", "discard")
    /\ \E i \in staged[j] :
         /\ Tried(j, i)
         /\ SetRow(j, i, "completed")
         /\ staged' = [staged EXCEPT ![j] = @ \ {i}]
    /\ UNCHANGED <<parts, stuck, outcome, library>>

Discarded(j) ==
    /\ staged[j] = {}
    /\ Finish(j, "discard", outcome[j])
    /\ UNCHANGED <<staged, parts, stuck, rows, library>>

-----------------------------------------------------------------------------
(* A workflow is dropped at an await with all it knows, by an abort or by   *)
(* the time limit, at which the task returns an error.                      *)
Drop(j) ==
    /\ step' = [step EXCEPT ![j] = "dropped"]
    /\ staged' = [staged EXCEPT ![j] = {}]
    /\ Decide(j, "none")
    /\ UNCHANGED <<parts, stuck, rows, library>>

Abort(j) == Stop(j) /\ Drop(j)

TimeOut(j) ==
    /\ work[j] \in Alive /\ step[j] # "begin"
    /\ Return(j, "failed") /\ Drop(j)
    /\ Busy
    /\ UNCHANGED phase

Workflow(j) ==
    \/ Begin(j) \/ Resolve(j) \/ Check(j)
    \/ StageRow(j) \/ CreatePart(j) \/ Stream(j)
    \/ Verify(j) \/ Recheck(j) \/ Place(j) \/ Commit(j) \/ Finalize(j) \/ AttachMetadata(j)
    \/ RemovePart(j) \/ CompleteRow(j) \/ Discarded(j)
    \/ TimeOut(j)

(* What tokio polls of a job: its supervisor and its workflow. *)
Task(j) == (Supervise(j) /\ UNCHANGED rommVars) \/ Workflow(j) \/ Abort(j)

Next ==
    \/ Snapshot /\ UNCHANGED rommVars
    \/ \E j \in Jobs :
         \/ Request(j) /\ UNCHANGED rommVars
         \/ Task(j)

Spec == Init /\ [][Next]_vars

(* tokio polls a supervisor that can go on and drops a task that was        *)
(* aborted; how long the steps of a workflow take nobody knows.             *)
FairSpec ==
    Spec /\ (\A j \in Jobs : WF_vars((Supervise(j) /\ UNCHANGED rommVars) \/ Abort(j)))

-----------------------------------------------------------------------------
(* Properties *)

(* Nothing staged is forgotten: while a downloaded file lies in the staging *)
(* area its row is undecided, so that the next start removes it, and a      *)
(* workflow that ran to its end, by whatever path, left none.  Exempt are   *)
(* the parts whose removal was tried and failed: cleanup_path only logs     *)
(* that, and their rows are completed (file_store.rs:438, import.rs:596,    *)
(* 952), which leaves them to the sweep of old parts at a later start.       *)
StagedIsAccounted ==
    /\ \A s \in parts \ stuck : rows[s] = "prepared"
    /\ \A j \in Jobs : step[j] = "ended" => parts \cap Own(j) \subseteq stuck

(* What a job reports is what happened to the library: a success is a game  *)
(* published by it or one that it found and did not add to.                 *)
OutcomesAreTrue ==
    \A j \in Jobs :
        /\ state[j] = "succeeded" => outcome[j] \in {"imported", "already_present"}
        /\ outcome[j] = "imported" => j \in library
        /\ outcome[j] = "already_present" => j \notin library /\ Duplicate(j)

(* A second copy of a game is published only by an import that worked while *)
(* the one that published the first did: the checks look outside the root   *)
(* lock, and a publication whose name is taken chooses another, so imports  *)
(* that hold an upload permit together may both find no copy; but whoever   *)
(* gets a permit after a copy was published, and the permit that published  *)
(* it was given back, finds that copy.                                      *)
CopiesMet == \A j, k \in library : j # k /\ Game[j] = Game[k] => k \in met[j]

(* RommCopies.cfg: src/services/romm_source/duplicates.rs:6, "so no single  *)
(* missed check can produce a second copy".  With the two permits of the    *)
(* default configuration TLC finds two copies.                              *)
OneCopy == \A j, k \in library : Game[j] = Game[k] => j = k
=============================================================================
