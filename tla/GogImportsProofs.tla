-------------------------- MODULE GogImportsProofs --------------------------
(* GOG setup imports, for any jobs, permits, capacity and number of events: *)
(* where a record, its supervisor and its workflow may be together tells    *)
(* what still lies on the disk, that an outcome is what happened to the     *)
(* library, and that a poller is shown every event that was not dropped.    *)
(* In the second part, the replay protection of the requests that bring     *)
(* the files of an import.                                                  *)
EXTENDS GogImports, BackgroundTransfers, FiniteSetTheorems, TLAPS

USE GogAssumption

(* What a record keeps of its events, and what a poller knows of them. *)
Log == [next : Nat, phases : SUBSET Nat, outputs : SUBSET Nat, truncated : BOOLEAN]
Cursor == [cursor : Nat, seen : SUBSET Nat]

Typed ==
    /\ record \in [Jobs -> {"none", "queued", "running", "pruned"} \cup Terminal]
    /\ phase \in [Jobs -> Phases]
    /\ sup \in [Jobs -> Holding \cup {"idle", "done"}]
    /\ work \in [Jobs -> {"idle", "spawned", "prepare", "extract", "package", "packed",
                          "stage", "publish"} \cup Ended]
    /\ handle \subseteq Jobs /\ signal \subseteq Jobs /\ aborted \subseteq Jobs
    /\ packing \subseteq Jobs /\ setup \subseteq Jobs /\ workspace \subseteq Jobs
    /\ archive \subseteq Jobs
    /\ stuck \in [Jobs -> SUBSET {"setup", "workspace", "archive"}]
    /\ published \in [Jobs -> {"no", "begun", "done"}]
    /\ log \in [Jobs -> Log] /\ client \in [Jobs -> Cursor]

(* The records, the supervisors and the workflows go together. *)
Progress(j) ==
    /\ record[j] = "none" => sup[j] \in {"idle", "upload", "done"}
    /\ sup[j] \in {"idle", "upload"} => record[j] = "none"
    /\ record[j] = "queued" => sup[j] = "start"
    /\ record[j] = "running" => sup[j] \in {"attach", "join", "cleanup", "report"} /\ work[j] # "idle"
    /\ sup[j] \in {"idle", "upload", "start"} => work[j] = "idle"
    /\ sup[j] \in {"attach", "join"} => work[j] # "idle"
    /\ sup[j] = "report" => work[j] \in Ended
    /\ sup[j] \in {"cleanup", "done"} => work[j] \in Ended \cup {"idle"}

(* What may still lie on the disk of a job, unless its removal failed. *)
Leftovers(j) ==
    /\ sup[j] = "report" \/ (sup[j] = "done" /\ record[j] # "none") =>
         (j \in setup => "setup" \in stuck[j])
    /\ j \in workspace =>
         work[j] \notin {"idle", "spawned", "ok", "error"} \/ "workspace" \in stuck[j]
    /\ j \in archive => work[j] \in {"stage", "publish", "aborted"} \/ "archive" \in stuck[j]

Truth(j) ==
    /\ work[j] = "ok" => published[j] = "done"
    /\ work[j] = "publish" => published[j] # "no"
    /\ record[j] = "succeeded" => work[j] = "ok"
    /\ record[j] = "cancelled" => Rank[phase[j]] < Rank["publish"]

(* A running job can be told to stop, and a cancelled one was told. *)
Delivered(j) ==
    /\ record[j] = "running" => sup[j] = "attach" \/ j \in handle
    /\ record[j] = "cancelled" /\ sup[j] # "attach" /\ j \notin signal =>
         work[j] \in Ended \cup {"idle"} \/ j \in aborted

(* The phase of a record that runs is the one its workflow has reached. *)
Reached == [spawned |-> 0, prepare |-> 1, extract |-> 2, package |-> 3, packed |-> 3,
            stage |-> 4, publish |-> 5]
Shows(j) ==
    /\ record[j] \in {"none", "queued"} => Rank[phase[j]] = 0
    /\ record[j] = "running" /\ work[j] \in DOMAIN Reached => Rank[phase[j]] = Reached[work[j]]
    /\ record[j] = "running" /\ work[j] = "ok" =>
         Rank[phase[j]] = IF sup[j] \in {"attach", "join"} THEN 5 ELSE 6

Control(j) == Progress(j) /\ Leftovers(j) /\ Truth(j) /\ Delivered(j) /\ Shows(j)

Whole(l) ==
    /\ l.phases \cup l.outputs \subseteq 1..l.next
    /\ ~l.truncated => l.phases \cup l.outputs = 1..l.next
Followed(l, c) ==
    /\ c.cursor <= l.next /\ c.seen \subseteq 1..c.cursor
    /\ l.phases \cap (1..c.cursor) \subseteq c.seen
    /\ ~l.truncated => c.seen = 1..c.cursor
Events(j) ==
    /\ Whole(log[j]) /\ Followed(log[j], client[j])
    /\ Cardinality(log[j].phases) = Rank[phase[j]]

JobInv(j) == Control(j) /\ Events(j)
Inv == Typed /\ \A j \in Jobs : JobInv(j)

-----------------------------------------------------------------------------
LEMMA Ranks ==
    /\ Phases = {"queued", "prepare", "extract", "package", "stage", "publish", "cleanup", "complete"}
    /\ Rank["queued"] = 0 /\ Rank["prepare"] = 1 /\ Rank["extract"] = 2 /\ Rank["package"] = 3
    /\ Rank["stage"] = 4 /\ Rank["publish"] = 5 /\ Rank["cleanup"] = 6 /\ Rank["complete"] = 7
BY DEF Phases, Rank

LEMMA ReachedSteps ==
    /\ DOMAIN Reached = {"spawned", "prepare", "extract", "package", "packed", "stage", "publish"}
    /\ Reached["spawned"] = 0 /\ Reached["prepare"] = 1 /\ Reached["extract"] = 2
    /\ Reached["package"] = 3 /\ Reached["packed"] = 3 /\ Reached["stage"] = 4 /\ Reached["publish"] = 5
BY DEF Reached

LEMMA NoneIsOldest ==
    ASSUME NEW seqs, IsFiniteSet(seqs), seqs \subseteq Nat
    PROVE  Oldest(seqs, 0) = {}
<1> SUFFICES ASSUME NEW s \in seqs, Cardinality({t \in seqs : t <= s}) <= 0
             PROVE FALSE
  BY DEF Oldest
<1> DEFINE below == {t \in seqs : t <= s}
<1>1. IsFiniteSet(below) /\ s \in below
  BY FS_Subset
<1>2. Cardinality(below) \in Nat /\ Cardinality(below) # 0
  BY <1>1, FS_CardinalityType, FS_EmptySet
<1> QED BY <1>2

(* Making room takes lines of output and no phases. *)
LEMMA RetainedEvents ==
    ASSUME NEW l \in Log, Whole(l), NEW r \in Retained(l)
    PROVE  /\ r \in Log /\ r.next = l.next /\ r.phases = l.phases /\ r.outputs \subseteq l.outputs
           /\ ~r.truncated => ~l.truncated /\ r.outputs = l.outputs
<1>1. PICK n \in 0..Cardinality(l.outputs) :
        r = [l EXCEPT !.outputs = @ \ Oldest(l.outputs, n), !.truncated = @ \/ n > 0]
  BY DEF Retained
<1>2. IsFiniteSet(l.outputs) /\ l.outputs \subseteq Nat
  <2>1. l.outputs \subseteq 1..l.next /\ l.next \in Nat
    BY DEF Whole, Log
  <2>2. IsFiniteSet(1..l.next)
    BY <2>1, FS_Interval
  <2> QED BY <2>1, <2>2, FS_Subset
<1>3. n \in Nat
  BY <1>1, <1>2, FS_CardinalityType
<1>4. /\ r.next = l.next /\ r.phases = l.phases
      /\ r.outputs = l.outputs \ Oldest(l.outputs, n)
      /\ r.truncated = (l.truncated \/ n > 0)
      /\ r \in Log
  BY <1>1 DEF Log
<1>5. n = 0 => r.outputs = l.outputs
  BY <1>2, <1>4, NoneIsOldest
<1>6. ~r.truncated => ~l.truncated /\ n = 0
  <2>1. ~r.truncated => ~l.truncated /\ ~(n > 0)
    BY <1>4, Zenon
  <2> QED BY <1>3, <2>1
<1> QED BY <1>4, <1>5, <1>6

LEMMA PhaseAdded ==
    ASSUME NEW l \in Log, Whole(l), NEW r \in WithPhase(l)
    PROVE  /\ r \in Log /\ Whole(r)
           /\ Cardinality(r.phases) = Cardinality(l.phases) + 1
           /\ \A c \in Cursor : Followed(l, c) => Followed(r, c)
<1> DEFINE m == [l EXCEPT !.next = @ + 1, !.phases = @ \cup {l.next + 1}]
<1>0. l.next + 1 \in Nat /\ l.phases \in SUBSET Nat /\ l.outputs \in SUBSET Nat
  BY DEF Log
<1>1. /\ m \in Log /\ m.next = l.next + 1 /\ m.phases = l.phases \cup {l.next + 1}
      /\ m.outputs = l.outputs /\ m.truncated = l.truncated
  <2>1. m \in Log
    <3>1. l.phases \cup {l.next + 1} \in SUBSET Nat
      BY <1>0
    <3> QED BY <1>0, <3>1, Zenon DEF Log
  <2>2. /\ m.next = l.next + 1 /\ m.phases = l.phases \cup {l.next + 1}
        /\ m.outputs = l.outputs /\ m.truncated = l.truncated
    BY Zenon DEF Log
  <2> QED BY <2>1, <2>2
<1>2. l.next \in Nat /\ l.phases \subseteq Nat /\ l.outputs \subseteq Nat
  BY DEF Log
<1>3. Whole(m)
  BY <1>1, <1>2 DEF Whole
<1>4. r \in Retained(m)
  BY DEF WithPhase
<1> HIDE DEF m
<1>5. /\ r \in Log /\ r.next = l.next + 1 /\ r.phases = l.phases \cup {l.next + 1}
      /\ r.outputs \subseteq l.outputs
      /\ ~r.truncated => ~l.truncated /\ r.outputs = l.outputs
  BY <1>1, <1>3, <1>4, RetainedEvents
<1>6. Whole(r)
  BY <1>2, <1>5 DEF Whole
<1>7. Cardinality(r.phases) = Cardinality(l.phases) + 1
  <2>1. l.phases \subseteq 1..l.next /\ l.next + 1 \notin l.phases
    BY <1>2 DEF Whole
  <2>2. IsFiniteSet(1..l.next)
    BY <1>2, FS_Interval
  <2>3. IsFiniteSet(l.phases)
    BY <2>1, <2>2, FS_Subset
  <2>4. Cardinality(l.phases \cup {l.next + 1}) = Cardinality(l.phases) + 1
    BY <2>1, <2>3, FS_AddElement
  <2> QED BY <1>5, <2>4
<1>8. ASSUME NEW c \in Cursor, Followed(l, c) PROVE Followed(r, c)
  <2>1. c.cursor \in Nat /\ c.cursor <= l.next
    BY <1>8 DEF Cursor, Followed
  <2> QED BY <1>2, <1>5, <1>8, <2>1 DEF Followed
<1> QED BY <1>5, <1>6, <1>7, <1>8

LEMMA OutputAdded ==
    ASSUME NEW l \in Log, Whole(l), NEW r \in WithOutput(l)
    PROVE  /\ r \in Log /\ Whole(r) /\ r.phases = l.phases
           /\ \A c \in Cursor : Followed(l, c) => Followed(r, c)
<1> DEFINE m == [l EXCEPT !.next = @ + 1, !.outputs = @ \cup {l.next + 1}]
<1>0. l.next + 1 \in Nat /\ l.phases \in SUBSET Nat /\ l.outputs \in SUBSET Nat
  BY DEF Log
<1>1. /\ m \in Log /\ m.next = l.next + 1 /\ m.outputs = l.outputs \cup {l.next + 1}
      /\ m.phases = l.phases /\ m.truncated = l.truncated
  <2>1. m \in Log
    <3>1. l.outputs \cup {l.next + 1} \in SUBSET Nat
      BY <1>0
    <3> QED BY <1>0, <3>1, Zenon DEF Log
  <2>2. /\ m.next = l.next + 1 /\ m.outputs = l.outputs \cup {l.next + 1}
        /\ m.phases = l.phases /\ m.truncated = l.truncated
    BY Zenon DEF Log
  <2> QED BY <2>1, <2>2
<1>2. l.next \in Nat /\ l.phases \subseteq Nat /\ l.outputs \subseteq Nat
  BY DEF Log
<1>3. Whole(m)
  BY <1>1, <1>2 DEF Whole
<1>4. r \in Retained(m)
  BY DEF WithOutput
<1> HIDE DEF m
<1>5. /\ r \in Log /\ r.next = l.next + 1 /\ r.phases = l.phases
      /\ r.outputs \subseteq l.outputs \cup {l.next + 1}
      /\ ~r.truncated => ~l.truncated /\ r.outputs = l.outputs \cup {l.next + 1}
  BY <1>1, <1>3, <1>4, RetainedEvents
<1>6. Whole(r)
  BY <1>2, <1>5 DEF Whole
<1>7. ASSUME NEW c \in Cursor, Followed(l, c) PROVE Followed(r, c)
  <2>1. c.cursor \in Nat /\ c.cursor <= l.next
    BY <1>7 DEF Cursor, Followed
  <2> QED BY <1>2, <1>5, <1>7, <2>1 DEF Followed
<1> QED BY <1>5, <1>6, <1>7

-----------------------------------------------------------------------------
(* What a step of one job leaves of the others: a record may be forgotten.  *)
SameRecord(k) ==
    record'[k] = record[k] /\ phase'[k] = phase[k] /\ log'[k] = log[k] /\ client'[k] = client[k]
Forgotten(k) ==
    /\ record'[k] = "pruned" /\ phase'[k] = "queued"
    /\ log'[k] = NoEvents /\ client'[k] = NoPolls
SameTasks(k) ==
    /\ sup'[k] = sup[k] /\ work'[k] = work[k] /\ published'[k] = published[k]
    /\ (k \in handle') = (k \in handle) /\ (k \in signal') = (k \in signal)
    /\ (k \in aborted') = (k \in aborted) /\ (k \in setup') = (k \in setup)
    /\ (k \in workspace') = (k \in workspace) /\ (k \in archive') = (k \in archive)
    /\ stuck'[k] = stuck[k]
Bystander(k) == SameTasks(k) /\ (SameRecord(k) \/ (record[k] \in Terminal /\ Forgotten(k)))
Others(j) == \A k \in Jobs \ {j} : Bystander(k)

LEMMA NothingYet ==
    /\ NoEvents \in Log /\ NoPolls \in Cursor
    /\ Whole(NoEvents) /\ Followed(NoEvents, NoPolls)
    /\ Cardinality(NoEvents.phases) = Rank["queued"]
<1>1. NoEvents.next = 0 /\ NoEvents.phases = {} /\ NoEvents.outputs = {}
  BY DEF NoEvents
<1>2. NoPolls.cursor = 0 /\ NoPolls.seen = {}
  BY DEF NoPolls
<1>3. NoEvents \in Log
  BY Zenon DEF NoEvents, Log
<1>4. NoPolls \in Cursor
  BY DEF NoPolls, Cursor
<1>5. 1..0 = {}
  OBVIOUS
<1>6. Cardinality({}) = 0
  BY FS_EmptySet
<1> QED BY <1>1, <1>2, <1>3, <1>4, <1>5, <1>6, Ranks DEF Whole, Followed

LEMMA ForgottenEvents ==
    ASSUME NEW k \in Jobs, Forgotten(k)
    PROVE  Events(k)'
BY NothingYet DEF Forgotten, Events

LEMMA BystanderKeeps ==
    ASSUME NEW k \in Jobs, JobInv(k), Bystander(k)
    PROVE  JobInv(k)'
<1>1. CASE SameRecord(k)
  <2>1. Events(k)'
    BY <1>1 DEF SameRecord, Events, JobInv
  <2>2. Control(k)'
    BY <1>1 DEF SameRecord, SameTasks, Bystander, JobInv, Control, Progress, Leftovers, Truth, Delivered, Shows
  <2> QED BY <2>1, <2>2 DEF JobInv
<1>2. CASE record[k] \in Terminal /\ Forgotten(k)
  <2>1. Events(k)'
    BY <1>2, ForgottenEvents
  <2>2. Control(k)'
    BY <1>2 DEF Forgotten, SameTasks, Bystander, JobInv, Control, Progress, Leftovers, Truth, Delivered, Shows, Terminal
  <2> QED BY <2>1, <2>2 DEF JobInv
<1> QED BY <1>1, <1>2 DEF Bystander

LEMMA LocalStep ==
    ASSUME Inv, NEW j \in Jobs, Typed', Others(j), Control(j)', Events(j)'
    PROVE  Inv'
BY BystanderKeeps DEF Inv, Others, JobInv

(* prune_locked: a record is kept as it is or forgotten. *)
LEMMA PrunedRecords ==
    ASSUME NEW r, NEW ph \in [Jobs -> Phases], NEW l \in [Jobs -> Log], NEW c \in [Jobs -> Cursor],
           r \in [Jobs -> {"none", "queued", "running", "pruned"} \cup Terminal],
           Pruned(r, ph, l, c)
    PROVE  /\ record' \in [Jobs -> {"none", "queued", "running", "pruned"} \cup Terminal]
           /\ phase' \in [Jobs -> Phases] /\ log' \in [Jobs -> Log] /\ client' \in [Jobs -> Cursor]
           /\ \A k \in Jobs :
                \/ record'[k] = r[k] /\ phase'[k] = ph[k] /\ log'[k] = l[k] /\ client'[k] = c[k]
                \/ r[k] \in Terminal /\ Forgotten(k)
<1>1. PICK gone \in SUBSET {j \in Jobs : r[j] \in Terminal} :
        /\ record' = [j \in Jobs |-> IF j \in gone THEN "pruned" ELSE r[j]]
        /\ phase' = [j \in Jobs |-> IF j \in gone THEN "queued" ELSE ph[j]]
        /\ log' = [j \in Jobs |-> IF j \in gone THEN NoEvents ELSE l[j]]
        /\ client' = [j \in Jobs |-> IF j \in gone THEN NoPolls ELSE c[j]]
  BY DEF Pruned
<1>2. NoEvents \in Log /\ NoPolls \in Cursor /\ "queued" \in Phases
  BY NothingYet, Ranks
<1> QED BY <1>1, <1>2 DEF Forgotten

(* set_phase, called with the phase that follows the one of the record.     *)
LEMMA PhaseSet ==
    ASSUME Typed, NEW j \in Jobs, Events(j), NEW p \in Phases, SetPhase(j, p),
           Reporting(j) => Rank[p] = Rank[phase[j]] + 1,
           UNCHANGED client
    PROVE  /\ phase' \in [Jobs -> Phases] /\ log' \in [Jobs -> Log]
           /\ \A k \in Jobs \ {j} : phase'[k] = phase[k] /\ log'[k] = log[k]
           /\ phase'[j] = IF Reporting(j) THEN p ELSE phase[j]
           /\ Events(j)'
<1>1. CASE ~Reporting(j)
  BY <1>1 DEF SetPhase, Typed, Events
<1>2. CASE Reporting(j)
  <2>1. Rank[p] > Rank[phase[j]]
    BY <1>2, Ranks DEF Typed
  <2>2. PICK l \in WithPhase(log[j]) : log' = [log EXCEPT ![j] = l]
    BY <1>2, <2>1 DEF SetPhase
  <2>3. phase' = [phase EXCEPT ![j] = p]
    BY <1>2, <2>1 DEF SetPhase
  <2>4. /\ log[j] \in Log /\ Whole(log[j]) /\ client[j] \in Cursor /\ Followed(log[j], client[j])
        /\ Cardinality(log[j].phases) = Rank[phase[j]]
    BY DEF Events, Typed
  <2>5. /\ l \in Log /\ Whole(l) /\ Followed(l, client[j])
        /\ Cardinality(l.phases) = Rank[phase[j]] + 1
    BY <2>4, PhaseAdded
  <2>6. log'[j] = l /\ phase'[j] = p /\ client'[j] = client[j]
    BY <2>2, <2>3 DEF Typed
  <2>7. Events(j)'
    BY <1>2, <2>5, <2>6 DEF Events
  <2> QED BY <1>2, <2>2, <2>3, <2>5, <2>7 DEF Typed
<1> QED BY <1>1, <1>2

LEMMA SilentEvents ==
    ASSUME Inv, NEW j \in Jobs, UNCHANGED <<phase, log, client>>
    PROVE  Events(j)'
BY DEF Inv, JobInv, Events

-----------------------------------------------------------------------------
LEMMA InitInv == ASSUME Init PROVE Inv
<1>1. Typed
  BY NothingYet, Ranks DEF Init, Typed, Holding, Ended
<1>2. ASSUME NEW j \in Jobs PROVE Control(j)
  BY Ranks, ReachedSteps DEF Init, Control, Progress, Leftovers, Truth, Delivered, Shows
<1>3. ASSUME NEW j \in Jobs PROVE Events(j)
  BY NothingYet DEF Init, Events
<1> QED BY <1>1, <1>2, <1>3 DEF Inv, JobInv

(* The request until it is admitted or refused. *)
LEMMA RequestSteps ==
    ASSUME Inv, NEW j \in Jobs, Receive(j) \/ StageSetup(j) \/ Refuse(j)
    PROVE  Inv'
<1> USE DEF Typed, Holding
<1>1. UNCHANGED <<record, phase, log, client, handle, signal, aborted, work, workspace, archive, stuck, published>>
  BY DEF Receive, StageSetup, Refuse, registry, files
<1>2. Typed'
  BY <1>1 DEF Inv, Receive, StageSetup, Refuse, files
<1>3. Others(j)
  BY <1>1 DEF Inv, Others, Bystander, SameTasks, SameRecord, Receive, StageSetup, Refuse, files
<1>4. Control(j)'
  <2>1. Control(j)
    BY DEF Inv, JobInv
  <2>2. sup[j] \in {"idle", "upload"} /\ sup'[j] \in {"upload", "done"}
    BY DEF Inv, Receive, StageSetup, Refuse
  <2> QED BY <1>1, <2>1, <2>2 DEF Control, Progress, Leftovers, Truth, Delivered, Shows
<1> QED BY <1>1, <1>2, <1>3, <1>4, SilentEvents, LocalStep

LEMMA AdmitStep ==
    ASSUME Inv, NEW j \in Jobs, Admit(j)
    PROVE  Inv'
<1> DEFINE r == [record EXCEPT ![j] = "queued"]
<1>1. /\ Typed /\ Control(j) /\ Events(j) /\ record[j] = "none" /\ work[j] = "idle" /\ sup[j] = "upload"
      /\ Pruned(r, phase, log, client) /\ sup' = [sup EXCEPT ![j] = "start"]
      /\ UNCHANGED <<handle, signal, aborted, work, packing, setup, workspace, archive, stuck, published>>
  BY DEF Inv, JobInv, Admit, Control, Progress, files
<1>2. /\ r \in [Jobs -> {"none", "queued", "running", "pruned"} \cup Terminal]
      /\ r[j] = "queued" /\ \A k \in Jobs \ {j} : r[k] = record[k]
  BY <1>1 DEF Typed
<1> HIDE DEF r
<1>3. /\ record' \in [Jobs -> {"none", "queued", "running", "pruned"} \cup Terminal]
      /\ phase' \in [Jobs -> Phases] /\ log' \in [Jobs -> Log] /\ client' \in [Jobs -> Cursor]
      /\ \A k \in Jobs :
           \/ record'[k] = r[k] /\ phase'[k] = phase[k] /\ log'[k] = log[k] /\ client'[k] = client[k]
           \/ r[k] \in Terminal /\ Forgotten(k)
  <2>1. phase \in [Jobs -> Phases] /\ log \in [Jobs -> Log] /\ client \in [Jobs -> Cursor]
    BY <1>1 DEF Typed
  <2> QED BY <1>1, <1>2, <2>1, PrunedRecords
<1>4. Typed'
  BY <1>1, <1>3 DEF Typed, Holding
<1>5. Others(j)
  BY <1>1, <1>2, <1>3 DEF Others, Bystander, SameTasks, SameRecord, Typed
<1>6. record'[j] = "queued" /\ phase'[j] = phase[j] /\ log'[j] = log[j] /\ client'[j] = client[j] /\ sup'[j] = "start"
  BY <1>1, <1>2, <1>3 DEF Terminal, Typed
<1>7. Events(j)'
  BY <1>1, <1>6 DEF Events
<1>8. Control(j)'
  BY <1>1, <1>6 DEF Control, Progress, Leftovers, Truth, Delivered, Shows
<1> QED BY <1>4, <1>5, <1>7, <1>8, LocalStep

-----------------------------------------------------------------------------
(* The supervisor *)

LEMMA BeginStep ==
    ASSUME Inv, NEW j \in Jobs, Begin(j)
    PROVE  Inv'
<1>1. Typed /\ Control(j) /\ sup[j] = "start" /\ work[j] = "idle"
  BY DEF Inv, JobInv, Control, Progress, Begin
<1>2. /\ UNCHANGED <<phase, log, client, handle, signal, aborted, packing, setup, workspace, archive, stuck, published>>
      /\ \A k \in Jobs \ {j} : record'[k] = record[k] /\ work'[k] = work[k] /\ sup'[k] = sup[k]
  BY <1>1 DEF Begin, files, Typed
<1>3. Typed'
  BY <1>1 DEF Begin, files, Typed, Holding
<1>4. Others(j)
  BY <1>2 DEF Others, Bystander, SameTasks, SameRecord
<1>5. Control(j)'
  <2>1. CASE record[j] = "queued"
    BY <1>1, <1>2, <2>1, Ranks, ReachedSteps DEF Begin, Typed, Control, Progress, Leftovers, Truth, Delivered, Shows, Terminal
  <2>2. CASE record[j] # "queued"
    BY <1>1, <1>2, <2>2, Ranks, ReachedSteps DEF Begin, Typed, Control, Progress, Leftovers, Truth, Delivered, Shows, Terminal
  <2> QED BY <2>1, <2>2
<1> QED BY <1>2, <1>3, <1>4, <1>5, SilentEvents, LocalStep

LEMMA AttachStep ==
    ASSUME Inv, NEW j \in Jobs, Attach(j)
    PROVE  Inv'
<1>1. Typed /\ Control(j) /\ sup[j] = "attach" /\ sup' = [sup EXCEPT ![j] = "join"]
  BY DEF Inv, JobInv, Attach
<1>2. UNCHANGED <<record, work, phase, log, client, signal, packing, setup, workspace, archive, stuck, published>>
  BY DEF Attach, files
<1>3. /\ record[j] \in Terminal => handle' = handle /\ aborted' = IF work[j] \in Ended THEN aborted ELSE aborted \cup {j}
      /\ record[j] \notin Terminal => aborted' = aborted /\ handle' = IF record[j] = "pruned" THEN handle ELSE handle \cup {j}
  BY DEF Attach, AttachHandle, Stop
<1>4. Typed'
  BY <1>1, <1>2, <1>3 DEF Typed, Holding
<1>5. Others(j)
  BY <1>1, <1>2, <1>3 DEF Others, Bystander, SameTasks, SameRecord, Typed
<1>6. Control(j)'
  <2>1. sup'[j] = "join"
    BY <1>1 DEF Typed
  <2>2. Progress(j)' /\ Leftovers(j)' /\ Truth(j)' /\ Shows(j)'
    BY <1>1, <1>2, <2>1, ReachedSteps DEF Control, Progress, Leftovers, Truth, Shows
  <2>3. Delivered(j)'
    BY <1>1, <1>2, <1>3, <2>1 DEF Control, Progress, Delivered, Terminal
  <2> QED BY <2>2, <2>3 DEF Control
<1> QED BY <1>2, <1>4, <1>5, <1>6, SilentEvents, LocalStep

LEMMA JoinStep ==
    ASSUME Inv, NEW j \in Jobs, Join(j)
    PROVE  Inv'
<1>1. /\ Typed /\ Control(j) /\ Events(j) /\ sup[j] = "join" /\ work[j] \in Ended
      /\ sup' = [sup EXCEPT ![j] = "cleanup"]
  BY DEF Inv, JobInv, Join, Joined
<1>2. UNCHANGED <<record, work, client, handle, signal, aborted, packing, setup, workspace, archive, stuck, published>>
  BY DEF Join, files
<1>3. /\ phase' \in [Jobs -> Phases] /\ log' \in [Jobs -> Log]
      /\ \A k \in Jobs \ {j} : phase'[k] = phase[k] /\ log'[k] = log[k]
      /\ phase'[j] = IF work[j] = "ok" /\ Reporting(j) THEN "cleanup" ELSE phase[j]
      /\ Events(j)'
  <2>1. CASE work[j] = "ok"
    <3>1. SetPhase(j, "cleanup")
      BY <2>1 DEF Join
    <3>2. Reporting(j) => Rank["cleanup"] = Rank[phase[j]] + 1
      BY <1>1, <2>1, Ranks DEF Control, Shows, Reporting
    <3> QED BY <1>1, <1>2, <2>1, <3>1, <3>2, Ranks, PhaseSet
  <2>2. CASE work[j] # "ok"
    <3>1. UNCHANGED <<phase, log>>
      BY <2>2 DEF Join
    <3> QED BY <1>1, <1>2, <2>2, <3>1, SilentEvents DEF Typed
  <2> QED BY <2>1, <2>2
<1>4. Typed'
  BY <1>1, <1>2, <1>3 DEF Typed, Holding
<1>5. Others(j)
  BY <1>1, <1>2, <1>3 DEF Others, Bystander, SameTasks, SameRecord, Typed
<1>6. Control(j)'
  <2>1. sup'[j] = "cleanup"
    BY <1>1 DEF Typed
  <2>2. Progress(j)' /\ Leftovers(j)' /\ Delivered(j)'
    BY <1>1, <1>2, <2>1 DEF Control, Progress, Leftovers, Delivered
  <2>3. record[j] # "running" => phase'[j] = phase[j]
    BY <1>3 DEF Reporting
  <2>4. Truth(j)'
    BY <1>1, <1>2, <2>1, <2>3 DEF Control, Truth
  <2>5. Shows(j)'
    BY <1>1, <1>2, <1>3, <2>1, <2>3, Ranks, ReachedSteps DEF Control, Shows, Reporting, Ended
  <2> QED BY <2>2, <2>4, <2>5 DEF Control
<1> QED BY <1>3, <1>4, <1>5, <1>6, LocalStep

(* A removal that fails adds to what is stuck of that job. *)
LEMMA SpareAdds ==
    ASSUME Typed, NEW j \in Jobs, NEW kept \in SUBSET {"setup", "workspace", "archive"}, Spare(j, kept)
    PROVE  /\ stuck' \in [Jobs -> SUBSET {"setup", "workspace", "archive"}]
           /\ stuck'[j] = stuck[j] \cup kept
           /\ \A k \in Jobs \ {j} : stuck'[k] = stuck[k]
BY DEF Typed, Spare

LEMMA CleanUpStep ==
    ASSUME Inv, NEW j \in Jobs, CleanUp(j)
    PROVE  Inv'
<1>1. /\ Typed /\ Control(j) /\ sup[j] = "cleanup"
      /\ sup' = [sup EXCEPT ![j] = IF work[j] \in Ended THEN "report" ELSE "done"]
  BY DEF Inv, JobInv, CleanUp
<1>2. UNCHANGED <<record, work, phase, log, client, handle, signal, aborted, packing, workspace, archive, published>>
  BY DEF CleanUp, registry
<1>3. PICK kept \in SUBSET {"setup"} :
        Spare(j, kept) /\ setup' = IF kept = {} THEN setup \ {j} ELSE setup
  BY DEF CleanUp, DiscardSetup
<1>4. /\ stuck' \in [Jobs -> SUBSET {"setup", "workspace", "archive"}]
      /\ stuck'[j] = stuck[j] \cup kept
      /\ \A k \in Jobs \ {j} : stuck'[k] = stuck[k]
  BY <1>1, <1>3, SpareAdds
<1>5. Typed'
  BY <1>1, <1>2, <1>3, <1>4 DEF Typed, Holding
<1>6. Others(j)
  BY <1>1, <1>2, <1>3, <1>4 DEF Others, Bystander, SameTasks, SameRecord, Typed
<1>7. Control(j)'
  <2>1. /\ j \in setup' => "setup" \in stuck'[j]
        /\ sup'[j] = IF work[j] \in Ended THEN "report" ELSE "done"
    BY <1>1, <1>3, <1>4 DEF Typed
  <2>2. Leftovers(j)'
    BY <1>1, <1>2, <1>4, <2>1 DEF Control, Leftovers
  <2> QED BY <1>1, <1>2, <2>1, <2>2, ReachedSteps DEF Control, Progress, Truth, Delivered, Shows, Ended
<1> QED BY <1>2, <1>5, <1>6, <1>7, SilentEvents, LocalStep

(* What Report and Poll hand to prune: the records of the others as they    *)
(* are, and one of j that is in order.                                      *)
Handed(j, r, ph, l, c) ==
    /\ r \in [Jobs -> {"none", "queued", "running", "pruned"} \cup Terminal]
    /\ ph \in [Jobs -> Phases] /\ l \in [Jobs -> Log] /\ c \in [Jobs -> Cursor]
    /\ \A k \in Jobs \ {j} : r[k] = record[k] /\ ph[k] = phase[k] /\ l[k] = log[k] /\ c[k] = client[k]
    /\ Whole(l[j]) /\ Followed(l[j], c[j]) /\ Cardinality(l[j].phases) = Rank[ph[j]]

LEMMA HandedOver ==
    ASSUME NEW j \in Jobs, NEW r, NEW ph, NEW l, NEW c, Handed(j, r, ph, l, c), Pruned(r, ph, l, c),
           \A k \in Jobs \ {j} : SameTasks(k)
    PROVE  /\ record' \in [Jobs -> {"none", "queued", "running", "pruned"} \cup Terminal]
           /\ phase' \in [Jobs -> Phases] /\ log' \in [Jobs -> Log] /\ client' \in [Jobs -> Cursor]
           /\ Others(j) /\ Events(j)'
           /\ \/ record'[j] = r[j] /\ phase'[j] = ph[j]
              \/ r[j] \in Terminal /\ record'[j] = "pruned" /\ phase'[j] = "queued"
<1>1. /\ record' \in [Jobs -> {"none", "queued", "running", "pruned"} \cup Terminal]
      /\ phase' \in [Jobs -> Phases] /\ log' \in [Jobs -> Log] /\ client' \in [Jobs -> Cursor]
      /\ \A k \in Jobs :
           \/ record'[k] = r[k] /\ phase'[k] = ph[k] /\ log'[k] = l[k] /\ client'[k] = c[k]
           \/ r[k] \in Terminal /\ Forgotten(k)
  BY PrunedRecords DEF Handed
<1>2. Others(j)
  BY <1>1 DEF Others, Bystander, SameRecord, Handed
<1>3. Events(j)'
  <2>1. CASE record'[j] = r[j] /\ phase'[j] = ph[j] /\ log'[j] = l[j] /\ client'[j] = c[j]
    BY <2>1 DEF Events, Handed
  <2> QED BY <1>1, <2>1, ForgottenEvents
<1> QED BY <1>1, <1>2, <1>3 DEF Forgotten

LEMMA ReportStep ==
    ASSUME Inv, NEW j \in Jobs, Report(j)
    PROVE  Inv'
<1>1. /\ Typed /\ Control(j) /\ Events(j) /\ sup[j] = "report" /\ sup' = [sup EXCEPT ![j] = "done"]
      /\ UNCHANGED <<signal, aborted, work, packing, setup, workspace, archive, stuck, published>>
  BY DEF Inv, JobInv, Report, files
<1>2. sup'[j] = "done" /\ \A k \in Jobs \ {j} : sup'[k] = sup[k]
  BY <1>1 DEF Typed
<1>3. CASE ~Reporting(j)
  <2>1. UNCHANGED <<record, phase, handle, log, client>>
    BY <1>3 DEF Report, registry
  <2>2. Typed' /\ Others(j)
    BY <1>1, <1>2, <2>1 DEF Typed, Holding, Others, Bystander, SameTasks, SameRecord
  <2>3. Control(j)'
    BY <1>1, <1>2, <1>3, <2>1 DEF Control, Progress, Leftovers, Truth, Delivered, Shows, Reporting
  <2> QED BY <2>1, <2>2, <2>3, SilentEvents, LocalStep
<1>4. CASE Reporting(j)
  <2>1. handle' = handle \ {j} /\ record[j] = "running"
    BY <1>4 DEF Report, Reporting
  <2>2. \A k \in Jobs \ {j} : SameTasks(k)
    BY <1>1, <1>2, <2>1 DEF SameTasks
  <2>3. PICK r, ph, l : /\ Handed(j, r, ph, l, client) /\ Pruned(r, ph, l, client)
                        /\ r[j] \in {"succeeded", "failed"}
                        /\ r[j] = "succeeded" => work[j] = "ok"
    <3>1. CASE Outcome(j) = "succeeded"
      <4>1. PICK l \in WithPhase(log[j]) :
              Pruned([record EXCEPT ![j] = "succeeded"], [phase EXCEPT ![j] = "complete"],
                     [log EXCEPT ![j] = l], client)
        BY <1>4, <3>1 DEF Report
      <4>2. work[j] = "ok"
        BY <3>1 DEF Outcome
      <4>3. Rank[phase[j]] = 6
        BY <1>1, <2>1, <4>2 DEF Control, Shows
      <4>4. /\ log[j] \in Log /\ Whole(log[j]) /\ client[j] \in Cursor /\ Followed(log[j], client[j])
            /\ Cardinality(log[j].phases) = 6
        BY <1>1, <4>3 DEF Events, Typed
      <4>5. l \in Log /\ Whole(l) /\ Followed(l, client[j]) /\ Cardinality(l.phases) = Rank["complete"]
        BY <4>4, PhaseAdded, Ranks
      <4>6. Handed(j, [record EXCEPT ![j] = "succeeded"], [phase EXCEPT ![j] = "complete"],
                      [log EXCEPT ![j] = l], client)
        BY <1>1, <4>5, Ranks DEF Handed, Typed, Terminal
      <4>7. [record EXCEPT ![j] = "succeeded"][j] = "succeeded"
        BY <1>1 DEF Typed
      <4> QED BY <4>1, <4>2, <4>6, <4>7
    <3>2. CASE Outcome(j) = "failed"
      <4>1. Pruned([record EXCEPT ![j] = "failed"], phase, log, client)
        BY <1>4, <3>2 DEF Report
      <4>2. Handed(j, [record EXCEPT ![j] = "failed"], phase, log, client)
        BY <1>1 DEF Handed, Typed, Terminal, Events
      <4>3. [record EXCEPT ![j] = "failed"][j] = "failed"
        BY <1>1 DEF Typed
      <4> QED BY <4>1, <4>2, <4>3
    <3> QED BY <3>1, <3>2 DEF Outcome
  <2>4. /\ record' \in [Jobs -> {"none", "queued", "running", "pruned"} \cup Terminal]
        /\ phase' \in [Jobs -> Phases] /\ log' \in [Jobs -> Log] /\ client' \in [Jobs -> Cursor]
        /\ Others(j) /\ Events(j)'
        /\ record'[j] \in {"succeeded", "failed", "pruned"}
        /\ record'[j] = "succeeded" => work[j] = "ok"
    BY <2>2, <2>3, HandedOver
  <2>5. Typed'
    BY <1>1, <2>1, <2>4 DEF Typed, Holding
  <2>6. Control(j)'
    BY <1>1, <1>2, <2>1, <2>4 DEF Control, Progress, Leftovers, Truth, Delivered, Shows
  <2> QED BY <2>4, <2>5, <2>6, LocalStep
<1> QED BY <1>3, <1>4

(* snapshot: what the client has not seen yet is what lies after its cursor.*)
LEMMA PollStep ==
    ASSUME Inv, NEW j \in Jobs, Poll(j)
    PROVE  Inv'
<1> DEFINE shown == {s \in log[j].phases \cup log[j].outputs : s > client[j].cursor}
           c == [client EXCEPT ![j] = [cursor |-> NextCursor(j), seen |-> @.seen \cup shown]]
<1>1. /\ Typed /\ Control(j) /\ Events(j) /\ Pruned(record, phase, log, c)
      /\ UNCHANGED <<handle, signal, aborted, sup, work, packing, setup, workspace, archive, stuck, published>>
  BY DEF Inv, JobInv, Poll, files
<1>2. /\ log[j].next \in Nat /\ client[j].cursor \in Nat /\ client[j].cursor <= log[j].next
      /\ log[j].phases \subseteq Nat /\ log[j].outputs \subseteq Nat /\ client[j].seen \subseteq Nat
      /\ Whole(log[j]) /\ Followed(log[j], client[j])
  BY <1>1 DEF Typed, Log, Cursor, Events, Followed
<1>3. c[j].cursor = log[j].next /\ c[j].seen = client[j].seen \cup shown
  BY <1>1 DEF Typed, NextCursor
<1>4. c \in [Jobs -> Cursor] /\ \A k \in Jobs \ {j} : c[k] = client[k]
  BY <1>1, <1>2 DEF Typed, Cursor, NextCursor
<1> HIDE DEF c
<1>5. Followed(log[j], c[j])
  <2> DEFINE now == log[j].next
             old == client[j].cursor
             kept == log[j].phases \cup log[j].outputs
  <2>1. kept \subseteq 1..now /\ client[j].seen \subseteq 1..old /\ 1..old \subseteq 1..now
    BY <1>2 DEF Followed, Whole
  <2>2. log[j].phases \cap 1..now \subseteq c[j].seen
    <3>1. ASSUME NEW s \in log[j].phases PROVE s \in c[j].seen
      <4>1. CASE s <= client[j].cursor
        BY <1>2, <1>3, <2>1, <4>1 DEF Followed
      <4>2. CASE s > client[j].cursor
        BY <1>3, <4>2
      <4> QED BY <1>2, <4>1, <4>2
    <3> QED BY <3>1
  <2>3. ~log[j].truncated => c[j].seen = 1..now
    <3> SUFFICES ASSUME ~log[j].truncated PROVE c[j].seen = 1..now
      OBVIOUS
    <3>1. kept = 1..now /\ client[j].seen = 1..old
      BY <1>2 DEF Whole, Followed
    <3>2. shown = {s \in 1..now : s > old}
      BY <3>1
    <3> QED BY <1>2, <1>3, <3>1, <3>2
  <2> QED BY <1>2, <1>3, <2>1, <2>2, <2>3 DEF Followed
<1>6. Handed(j, record, phase, log, c)
  BY <1>1, <1>4, <1>5 DEF Handed, Typed, Events
<1>7. \A k \in Jobs \ {j} : SameTasks(k)
  BY <1>1 DEF SameTasks
<1>8. /\ record' \in [Jobs -> {"none", "queued", "running", "pruned"} \cup Terminal]
      /\ phase' \in [Jobs -> Phases] /\ log' \in [Jobs -> Log] /\ client' \in [Jobs -> Cursor]
      /\ Others(j) /\ Events(j)'
      /\ \/ record'[j] = record[j] /\ phase'[j] = phase[j]
         \/ record[j] \in Terminal /\ record'[j] = "pruned" /\ phase'[j] = "queued"
  BY <1>1, <1>6, <1>7, HandedOver
<1>9. Typed'
  BY <1>1, <1>8 DEF Typed
<1>10. Control(j)'
  BY <1>1, <1>8 DEF Control, Progress, Leftovers, Truth, Delivered, Shows, Terminal
<1> QED BY <1>8, <1>9, <1>10, LocalStep

-----------------------------------------------------------------------------
(* The workflow *)

(* The steps of the workflow that show a phase go one step further.         *)
LEMMA AdvanceStep ==
    ASSUME Inv, NEW j \in Jobs, NEW p \in Phases, NEW to,
           SetPhase(j, p), At(j, work[j]), Go(j, to),
           <<work[j], to, p>> \in {<<"spawned", "prepare", "prepare">>, <<"prepare", "extract", "extract">>,
                                  <<"extract", "package", "package">>, <<"packed", "stage", "stage">>,
                                  <<"stage", "publish", "publish">>},
           UNCHANGED <<record, handle, signal, aborted, sup, setup, stuck, client>>,
           packing' \in {packing, packing \cup {j}},
           workspace' = IF to = "prepare" THEN workspace \cup {j} ELSE workspace,
           archive' = IF to = "stage" THEN archive \cup {j} ELSE archive,
           published' = IF to = "publish" THEN [published EXCEPT ![j] = "begun"] ELSE published
    PROVE  Inv'
<1>1. Typed /\ Control(j) /\ Events(j)
  BY DEF Inv, JobInv
<1>2. work' = [work EXCEPT ![j] = to] /\ j \notin aborted
  BY DEF Go, At
<1>3. Reporting(j) => Rank[p] = Rank[phase[j]] + 1
  BY <1>1, Ranks, ReachedSteps DEF Control, Shows, Reporting
<1>4. /\ phase' \in [Jobs -> Phases] /\ log' \in [Jobs -> Log]
      /\ \A k \in Jobs \ {j} : phase'[k] = phase[k] /\ log'[k] = log[k]
      /\ phase'[j] = IF Reporting(j) THEN p ELSE phase[j]
      /\ Events(j)'
  BY <1>1, <1>3, PhaseSet
<1>5. Typed'
  BY <1>1, <1>2, <1>4 DEF Typed
<1>6. Others(j)
  BY <1>1, <1>2, <1>4 DEF Others, Bystander, SameTasks, SameRecord, Typed
<1>7. Control(j)'
  <2>1. work'[j] = to /\ sup'[j] = sup[j] /\ record'[j] = record[j]
    BY <1>1, <1>2 DEF Typed
  <2>2. Progress(j)'
    BY <1>1, <2>1 DEF Control, Progress, Ended
  <2>3. Leftovers(j)'
    BY <1>1, <2>1 DEF Control, Leftovers
  <2>4. published'[j] = IF to = "publish" THEN "begun" ELSE published[j]
    BY <1>1 DEF Typed
  <2>5. record[j] = "cancelled" => phase'[j] = phase[j]
    BY <1>4 DEF Reporting
  <2>6. Truth(j)'
    BY <1>1, <2>1, <2>4, <2>5 DEF Control, Truth
  <2>7. Delivered(j)'
    BY <1>1, <1>2, <2>1 DEF Control, Delivered, Ended
  <2>8. Shows(j)'
    BY <1>1, <1>4, <2>1, Ranks, ReachedSteps DEF Control, Progress, Shows, Reporting
  <2> QED BY <2>2, <2>3, <2>6, <2>7, <2>8 DEF Control
<1> QED BY <1>4, <1>5, <1>6, <1>7, LocalStep

LEMMA PhaseSteps ==
    ASSUME Inv, NEW j \in Jobs,
           Prepare(j) \/ Extract(j) \/ Package(j) \/ StageArchive(j) \/ Publish(j)
    PROVE  Inv'
<1>1. CASE Prepare(j)
  <2>1. /\ At(j, work[j]) /\ work[j] = "spawned" /\ SetPhase(j, "prepare") /\ Go(j, "prepare")
        /\ UNCHANGED <<record, handle, signal, aborted, sup, setup, client, packing, archive, stuck, published>>
        /\ workspace' = workspace \cup {j}
    BY <1>1 DEF Prepare, At
  <2> QED BY <2>1, Ranks, AdvanceStep
<1>2. CASE Extract(j)
  <2>1. /\ At(j, work[j]) /\ work[j] = "prepare" /\ SetPhase(j, "extract") /\ Go(j, "extract")
        /\ UNCHANGED <<record, handle, signal, aborted, sup, setup, client, packing, workspace, archive, stuck, published>>
    BY <1>2 DEF Extract, At, files
  <2> QED BY <2>1, Ranks, AdvanceStep
<1>3. CASE Package(j)
  <2>1. /\ At(j, work[j]) /\ work[j] = "extract" /\ SetPhase(j, "package") /\ Go(j, "package")
        /\ UNCHANGED <<record, handle, signal, aborted, sup, setup, client, workspace, archive, stuck, published>>
        /\ packing' = packing \cup {j}
    BY <1>3 DEF Package, At, files
  <2> QED BY <2>1, Ranks, AdvanceStep
<1>4. CASE StageArchive(j)
  <2>1. /\ At(j, work[j]) /\ work[j] = "packed" /\ SetPhase(j, "stage") /\ Go(j, "stage")
        /\ UNCHANGED <<record, handle, signal, aborted, sup, setup, client, packing, workspace, stuck, published>>
        /\ archive' = archive \cup {j}
    BY <1>4 DEF StageArchive, At
  <2> QED BY <2>1, Ranks, AdvanceStep
<1>5. CASE Publish(j)
  <2>1. /\ At(j, work[j]) /\ work[j] = "stage" /\ SetPhase(j, "publish") /\ Go(j, "publish")
        /\ UNCHANGED <<record, handle, signal, aborted, sup, setup, client, packing, workspace, archive, stuck>>
        /\ published' = [published EXCEPT ![j] = "begun"]
    BY <1>5 DEF Publish, At
  <2> QED BY <2>1, Ranks, AdvanceStep
<1> QED BY <1>1, <1>2, <1>3, <1>4, <1>5

LEMMA OutputStep ==
    ASSUME Inv, NEW j \in Jobs, Output(j)
    PROVE  Inv'
<1>1. /\ Typed /\ Control(j) /\ Events(j)
      /\ UNCHANGED <<record, phase, handle, signal, aborted, sup, work, packing, setup, workspace, archive, stuck, published, client>>
  BY DEF Inv, JobInv, Output, files
<1>2. PICK l \in WithOutput(log[j]) : log' = [log EXCEPT ![j] = l]
  BY DEF Output
<1>3. /\ log[j] \in Log /\ Whole(log[j]) /\ client[j] \in Cursor /\ Followed(log[j], client[j])
      /\ Cardinality(log[j].phases) = Rank[phase[j]]
  BY <1>1 DEF Typed, Events
<1>4. l \in Log /\ Whole(l) /\ l.phases = log[j].phases /\ Followed(l, client[j])
  BY <1>3, OutputAdded
<1>5. log'[j] = l
  BY <1>1, <1>2 DEF Typed
<1>6. Typed'
  BY <1>1, <1>2, <1>4 DEF Typed
<1>7. Others(j)
  BY <1>1, <1>2 DEF Others, Bystander, SameTasks, SameRecord, Typed
<1>8. Events(j)'
  BY <1>1, <1>3, <1>4, <1>5 DEF Events
<1>9. Control(j)'
  BY <1>1 DEF Control, Progress, Leftovers, Truth, Delivered, Shows
<1> QED BY <1>6, <1>7, <1>8, <1>9, LocalStep

(* The thread ends, the workflow ends, fails or is dropped. *)
LEMMA EndSteps ==
    ASSUME Inv, NEW j \in Jobs, Packed(j) \/ Finish(j) \/ Fail(j) \/ Drop(j)
    PROVE  Inv'
<1>1. /\ Typed /\ Control(j)
      /\ UNCHANGED <<record, phase, log, client, handle, signal, sup, setup>>
  BY DEF Inv, JobInv, Packed, Finish, Fail, Drop, registry, files
<1>2. CASE Packed(j)
  <2>1. /\ UNCHANGED <<aborted, workspace, archive, stuck, published>> /\ packing' = packing \ {j}
        /\ \/ work' = work
           \/ work[j] = "package" /\ j \notin aborted /\ work' = [work EXCEPT ![j] = "packed"]
    BY <1>2 DEF Packed, files, At, Go
  <2>2. Typed' /\ Others(j)
    BY <1>1, <2>1 DEF Typed, Others, Bystander, SameTasks, SameRecord
  <2>3. Control(j)'
    <3>1. CASE work' = work
      BY <1>1, <2>1, <3>1 DEF Control, Progress, Leftovers, Truth, Delivered, Shows
    <3>2. CASE work[j] = "package" /\ j \notin aborted /\ work'[j] = "packed"
      BY <1>1, <2>1, <3>2, ReachedSteps DEF Control, Progress, Leftovers, Truth, Delivered, Shows, Ended
    <3> QED BY <1>1, <2>1, <3>1, <3>2 DEF Typed
  <2> QED BY <1>1, <2>2, <2>3, SilentEvents, LocalStep
<1>3. CASE Finish(j)
  <2>1. /\ work[j] = "publish" /\ j \notin aborted
        /\ published' = [published EXCEPT ![j] = "done"] /\ archive' = archive \ {j}
        /\ work' = [work EXCEPT ![j] = "ok"]
        /\ UNCHANGED <<aborted, packing>>
    BY <1>3 DEF Finish, At, Go
  <2>5. PICK kept \in SUBSET {"workspace"} : RemoveWorkspace(j, kept) /\ Spare(j, kept)
    BY <1>3 DEF Finish
  <2>6. /\ stuck' \in [Jobs -> SUBSET {"setup", "workspace", "archive"}]
        /\ stuck'[j] = stuck[j] \cup kept
        /\ \A k \in Jobs \ {j} : stuck'[k] = stuck[k]
    BY <1>1, <2>5, SpareAdds
  <2>7. workspace' = IF "workspace" \in kept THEN workspace ELSE workspace \ {j}
    BY <2>5 DEF RemoveWorkspace
  <2>2. Typed' /\ Others(j)
    <3>1. Typed'
      BY <1>1, <2>1, <2>6, <2>7 DEF Typed, Ended
    <3>2. ASSUME NEW k \in Jobs \ {j} PROVE SameTasks(k) /\ SameRecord(k)
      BY <1>1, <2>1, <2>6, <2>7 DEF SameTasks, SameRecord, Typed
    <3> QED BY <3>1, <3>2 DEF Others, Bystander
  <2>3. /\ work'[j] = "ok" /\ published'[j] = "done" /\ j \notin archive'
        /\ j \in workspace' => "workspace" \in stuck'[j]
        /\ stuck[j] \subseteq stuck'[j]
    BY <1>1, <2>1, <2>6, <2>7 DEF Typed
  <2>4. Control(j)'
    <3>1. Leftovers(j)'
      BY <1>1, <2>1, <2>3 DEF Control, Leftovers, Ended
    <3>2. Progress(j)' /\ Truth(j)' /\ Shows(j)'
      BY <1>1, <2>1, <2>3, ReachedSteps DEF Control, Progress, Truth, Shows, Ended
    <3>3. Delivered(j)'
      BY <1>1, <2>1, <2>3 DEF Control, Delivered, Ended
    <3> QED BY <3>1, <3>2, <3>3 DEF Control
  <2> QED BY <1>1, <2>2, <2>4, SilentEvents, LocalStep
<1>4. CASE Fail(j)
  <2>1. /\ work[j] \notin Ended \cup {"idle", "spawned", "package"} /\ j \notin aborted
        /\ published' = published \/ \E p \in {"no", "begun", "done"} : published' = [published EXCEPT ![j] = p]
        /\ work' = [work EXCEPT ![j] = "error"] /\ UNCHANGED <<aborted, packing>>
    BY <1>4 DEF Fail, Go
  <2>5. PICK kept \in SUBSET {"workspace", "archive"} :
          RemoveArchive(j, kept) /\ RemoveWorkspace(j, kept) /\ Spare(j, kept)
    BY <1>4 DEF Fail
  <2>6. /\ stuck' \in [Jobs -> SUBSET {"setup", "workspace", "archive"}]
        /\ stuck'[j] = stuck[j] \cup kept
        /\ \A k \in Jobs \ {j} : stuck'[k] = stuck[k]
    BY <1>1, <2>5, SpareAdds
  <2>7. /\ workspace' = IF "workspace" \in kept THEN workspace ELSE workspace \ {j}
        /\ archive' = IF "archive" \in kept THEN archive ELSE archive \ {j}
    BY <2>5 DEF RemoveWorkspace, RemoveArchive
  <2>2. Typed' /\ Others(j)
    <3>1. Typed'
      <4>1. published' \in [Jobs -> {"no", "begun", "done"}]
        BY <1>1, <2>1 DEF Typed
      <4>2. work' \in [Jobs -> {"idle", "spawned", "prepare", "extract", "package", "packed",
                               "stage", "publish"} \cup Ended]
        BY <1>1, <2>1 DEF Typed, Ended
      <4>3. workspace' \subseteq Jobs /\ archive' \subseteq Jobs
        BY <1>1, <2>7 DEF Typed
      <4> QED BY <1>1, <2>1, <2>6, <4>1, <4>2, <4>3 DEF Typed
    <3>2. ASSUME NEW k \in Jobs \ {j} PROVE SameTasks(k) /\ SameRecord(k)
      <4>1. published'[k] = published[k] /\ work'[k] = work[k]
        BY <1>1, <2>1 DEF Typed
      <4> QED BY <1>1, <2>1, <2>6, <2>7, <4>1 DEF SameTasks, SameRecord
    <3> QED BY <3>1, <3>2 DEF Others, Bystander
  <2>3. /\ work'[j] = "error"
        /\ j \in workspace' => "workspace" \in stuck'[j]
        /\ j \in archive' => "archive" \in stuck'[j]
        /\ stuck[j] \subseteq stuck'[j]
    BY <1>1, <2>1, <2>6, <2>7 DEF Typed
  <2>4. Control(j)'
    <3>1. Leftovers(j)'
      BY <1>1, <2>1, <2>3 DEF Control, Leftovers, Ended
    <3>2. Progress(j)' /\ Truth(j)' /\ Shows(j)'
      BY <1>1, <2>1, <2>3, ReachedSteps DEF Control, Progress, Truth, Shows, Ended
    <3>3. Delivered(j)'
      BY <1>1, <2>1, <2>3 DEF Control, Delivered, Ended
    <3> QED BY <3>1, <3>2, <3>3 DEF Control
  <2> QED BY <1>1, <2>2, <2>4, SilentEvents, LocalStep
<1>5. CASE Drop(j)
  <2>1. /\ work[j] \notin Ended \cup {"idle"} /\ j \in aborted /\ aborted' = aborted \ {j}
        /\ workspace' \in {workspace, workspace \ {j}}
        /\ work' = [work EXCEPT ![j] = "aborted"] /\ UNCHANGED <<archive, published, packing>>
    BY <1>5 DEF Drop, Go, RemoveWorkspace
  <2>5. /\ stuck' \in [Jobs -> SUBSET {"setup", "workspace", "archive"}]
        /\ stuck[j] \subseteq stuck'[j]
        /\ \A k \in Jobs \ {j} : stuck'[k] = stuck[k]
    <3>1. CASE UNCHANGED stuck
      BY <1>1, <3>1 DEF Typed
    <3>2. ASSUME NEW kept \in SUBSET {"workspace"}, Spare(j, kept)
          PROVE  /\ stuck' \in [Jobs -> SUBSET {"setup", "workspace", "archive"}]
                 /\ stuck[j] \subseteq stuck'[j]
                 /\ \A k \in Jobs \ {j} : stuck'[k] = stuck[k]
      BY <1>1, <3>2, SpareAdds
    <3> QED BY <1>5, <3>1, <3>2 DEF Drop
  <2>2. Typed' /\ Others(j)
    <3>1. Typed'
      BY <1>1, <2>1, <2>5 DEF Typed, Ended
    <3>2. ASSUME NEW k \in Jobs \ {j} PROVE SameTasks(k) /\ SameRecord(k)
      BY <1>1, <2>1, <2>5 DEF SameTasks, SameRecord, Typed
    <3> QED BY <3>1, <3>2 DEF Others, Bystander
  <2>3. work'[j] = "aborted"
    BY <1>1, <2>1 DEF Typed
  <2>4. Control(j)'
    <3>1. Leftovers(j)'
      BY <1>1, <2>1, <2>3, <2>5 DEF Control, Leftovers, Ended
    <3>2. Progress(j)' /\ Truth(j)' /\ Shows(j)'
      BY <1>1, <2>1, <2>3, <2>5, ReachedSteps DEF Control, Progress, Truth, Shows, Ended
    <3>3. Delivered(j)'
      BY <1>1, <2>1, <2>3, <2>5 DEF Control, Delivered, Ended
    <3> QED BY <3>1, <3>2, <3>3 DEF Control
  <2> QED BY <1>1, <2>2, <2>4, SilentEvents, LocalStep
<1> QED BY <1>2, <1>3, <1>4, <1>5

LEMMA CancelSteps ==
    ASSUME Inv, NEW j \in Jobs, Cancel(j) \/ Abort(j)
    PROVE  Inv'
<1>1. /\ Typed /\ Control(j)
      /\ UNCHANGED <<phase, log, client, sup, work, packing, setup, workspace, archive, stuck, published>>
  BY DEF Inv, JobInv, Cancel, Abort, registry, files
<1>2. CASE Cancel(j)
  <2>1. /\ record[j] \in {"queued", "running"} /\ Rank[phase[j]] < Rank["publish"]
        /\ record' = [record EXCEPT ![j] = "cancelled"] /\ handle' = handle \ {j}
        /\ aborted' = aborted
        /\ signal' = IF j \in handle THEN signal \cup {j} ELSE signal
    BY <1>2 DEF Cancel, InTime
  <2>2. Typed' /\ Others(j)
    BY <1>1, <2>1 DEF Typed, Terminal, Others, Bystander, SameTasks, SameRecord
  <2>3. record'[j] = "cancelled"
    BY <1>1, <2>1 DEF Typed
  <2>4. Control(j)'
    BY <1>1, <2>1, <2>3 DEF Control, Progress, Leftovers, Truth, Delivered, Shows
  <2> QED BY <1>1, <2>2, <2>4, SilentEvents, LocalStep
<1>3. CASE Abort(j)
  <2>1. /\ UNCHANGED <<record, handle>> /\ signal' = signal \ {j}
        /\ aborted' = IF work[j] \in Ended THEN aborted ELSE aborted \cup {j}
    BY <1>3 DEF Abort, Stop, registry
  <2>2. Typed' /\ Others(j)
    BY <1>1, <2>1 DEF Typed, Others, Bystander, SameTasks, SameRecord
  <2>3. Control(j)'
    BY <1>1, <2>1 DEF Control, Progress, Leftovers, Truth, Delivered, Shows
  <2> QED BY <1>1, <2>2, <2>3, SilentEvents, LocalStep
<1> QED BY <1>2, <1>3

LEMMA InvStep ==
    ASSUME Inv, [Next]_vars
    PROVE  Inv'
<1>1. ASSUME NEW j \in Jobs, Supervisor(j) PROVE Inv'
  BY <1>1, BeginStep, AttachStep, JoinStep, CleanUpStep, ReportStep DEF Supervisor
<1>2. ASSUME NEW j \in Jobs, Workflow(j) PROVE Inv'
  BY <1>2, PhaseSteps, OutputStep, EndSteps DEF Workflow
<1>3. CASE UNCHANGED vars
  BY <1>3 DEF vars, Inv, Typed, JobInv, Control, Progress, Leftovers, Truth, Delivered, Shows, Events
<1> QED
  BY <1>1, <1>2, <1>3, RequestSteps, AdmitStep, EndSteps, CancelSteps, PollStep DEF Next

LEMMA InvHolds == Spec => []Inv
BY InitInv, InvStep, PTL DEF Spec

-----------------------------------------------------------------------------
(* The record, the tasks and the files of every import are in one of their  *)
(* states, and the cursor of a client is one it was given.                  *)
THEOREM GogTyping == Spec => []TypeOK
<1>1. Inv => TypeOK
  BY DEF Inv, Typed, TypeOK, JobInv, Events, Whole, Followed, Log, Cursor
<1> QED BY <1>1, InvHolds, PTL

(* NothingLeftBehind for every number of imports and permits, however many  *)
(* removals fail: the setup files go with the supervisor's cleanup, the     *)
(* workspace and the archive with the end of the workflow, however it ends  *)
(* but for an abort, and what stays of them is what could not be removed.   *)
THEOREM GogLeavesNothing == Spec => []NothingLeftBehind
<1>1. Inv => NothingLeftBehind
  BY DEF Inv, JobInv, Control, Progress, Leftovers, NothingLeftBehind, Ended
<1> QED BY <1>1, InvHolds, PTL

(* OutcomesAreTrue for every instance. *)
THEOREM GogOutcomesAreTrue == Spec => []OutcomesAreTrue
<1>1. Inv => OutcomesAreTrue
  BY DEF Inv, JobInv, Control, Truth, OutcomesAreTrue
<1> QED BY <1>1, InvHolds, PTL

(* PollersMissNothing for every bound on the events, every amount of output *)
(* and any number of clients.                                               *)
THEOREM GogPollersMissNothing == Spec => []PollersMissNothing
<1>1. Inv => PollersMissNothing
  BY DEF Inv, JobInv, Events, Followed, PollersMissNothing
<1> QED BY <1>1, InvHolds, PTL

(* CancelledStaysOut for every instance: a cancelled job whose workflow     *)
(* could still publish has been told to stop.                               *)
THEOREM GogCancelledStaysOut == Spec => CancelledStaysOut
<1>1. ASSUME Inv, [Next]_vars
      PROVE  \A j \in Jobs :
               record[j] = "cancelled" /\ sup[j] # "attach" /\ j \notin signal /\ published[j] = "no"
                 => published'[j] = "no"
  <2> SUFFICES ASSUME NEW j \in Jobs, record[j] = "cancelled", sup[j] # "attach",
                      j \notin signal, published[j] = "no"
               PROVE  published'[j] = "no"
    OBVIOUS
  <2>1. /\ work[j] \in Ended \cup {"idle"} \/ j \in aborted
        /\ work[j] # "publish"
        /\ published \in [Jobs -> {"no", "begun", "done"}]
    BY <1>1 DEF Inv, JobInv, Control, Delivered, Truth, Typed
  <2>2. ASSUME NEW k \in Jobs, Publish(k) \/ Finish(k) \/ Fail(k) PROVE published'[j] = published[j]
    BY <2>1, <2>2 DEF Publish, Finish, Fail, At, Ended
  <2>3. UNCHANGED published \/ \E k \in Jobs : Publish(k) \/ Finish(k) \/ Fail(k)
    BY <1>1 DEF Next, vars, files, Supervisor, Workflow, Receive, StageSetup, Refuse, Admit, Begin, Attach,
                Join, CleanUp, Report, Prepare, Extract, Output, Package, Packed, StageArchive, Drop,
                Cancel, Abort, Poll
  <2>4. published'[j] = published[j]
    BY <2>2, <2>3
  <2> QED BY <2>4
<1> QED BY <1>1, InvHolds, PTL DEF Spec, CancelledStaysOut

-----------------------------------------------------------------------------
(* The requests that bring the transfers of an import are protected from    *)
(* being repeated.  For every number of keys and requests and every         *)
(* capacity: the types, the agreement of an entry with the requests of its  *)
(* key, and from it that the work of a key is repeated only where an answer *)
(* was lost and that an outcome is final, until the entry is evicted.       *)
HIDE GogAssumption

(* A running entry carries the token of a request. *)
RunningOwned == \A k \in Keys : entry[k] = "running" => owner[k] \in Requests

EntriesTyped == TransfersTypeOK /\ RunningOwned

(* What prune leaves of an entry. *)
LEMMA PrunedEntries ==
    ASSUME NEW entries \in [Keys -> EntryStates], NEW gone \in SUBSET Keys
    PROVE  /\ Without(entries, gone) \in [Keys -> EntryStates]
           /\ \A k \in Keys :
                Without(entries, gone)[k] = IF k \in gone THEN "none" ELSE entries[k]
BY DEF Without, EntryStates

LEMMA ClaimTyped ==
    ASSUME EntriesTyped, NEW r \in Requests, NEW k \in Keys, Claim(r, k)
    PROVE  EntriesTyped'
<1>1. PICK gone \in SUBSET Keys :
        /\ evicted' = evicted \cup gone
        /\ LET kept == Without(entry, gone) IN
            IF Free(kept[k])
              THEN /\ entry' = [kept EXCEPT ![k] = "running"]
                   /\ owner' = [owner EXCEPT ![k] = r]
                   /\ at' = [at EXCEPT ![r] = "running"]
              ELSE /\ entry' = kept
                   /\ at' = [at EXCEPT ![r] = Answer(kept[k])]
                   /\ UNCHANGED owner
  BY DEF Claim
<1> DEFINE kept == Without(entry, gone)
<1>2. /\ kept \in [Keys -> EntryStates]
      /\ \A j \in Keys : kept[j] = IF j \in gone THEN "none" ELSE entry[j]
  BY PrunedEntries DEF EntriesTyped, TransfersTypeOK
<1>3. at[r] = "new" /\ key' = [key EXCEPT ![r] = k] /\ UNCHANGED <<signals, fired, worked>>
  BY DEF Claim
<1> HIDE DEF kept
<1>4. CASE Free(kept[k])
  <2>1. /\ entry' = [kept EXCEPT ![k] = "running"]
        /\ owner' = [owner EXCEPT ![k] = r]
        /\ at' = [at EXCEPT ![r] = "running"]
    BY <1>1, <1>4 DEF kept
  <2> QED
    BY <1>1, <1>2, <1>3, <2>1
    DEF EntriesTyped, TransfersTypeOK, RunningOwned, EntryStates, Live, Answers
<1>5. CASE ~Free(kept[k])
  <2>1. entry' = kept /\ at' = [at EXCEPT ![r] = Answer(kept[k])] /\ owner' = owner
    BY <1>1, <1>5 DEF kept
  <2>2. kept[k] \in {"running", "complete", "cancelled"}
    BY <1>2, <1>5 DEF Free, EntryStates
  <2>3. Answer(kept[k]) \in Answers
    BY <2>2 DEF Answer, Answers
  <2> QED
    BY <1>1, <1>2, <1>3, <2>1, <2>3
    DEF EntriesTyped, TransfersTypeOK, RunningOwned, EntryStates, Live, Answers
<1> QED BY <1>4, <1>5

LEMMA CancelTyped ==
    ASSUME EntriesTyped, NEW k \in Keys, CancelKey(k)
    PROVE  EntriesTyped'
<1>1. PICK gone \in SUBSET Keys :
        /\ evicted' = evicted \cup gone
        /\ LET kept == Without(entry, gone) IN
            IF Cancellable(kept[k])
              THEN /\ entry' = [kept EXCEPT ![k] = "cancelled"]
                   /\ signals' = signals \cup {owner[k]}
              ELSE entry' = kept /\ UNCHANGED signals
  BY DEF CancelKey
<1> DEFINE kept == Without(entry, gone)
<1>2. /\ kept \in [Keys -> EntryStates]
      /\ \A j \in Keys : kept[j] = IF j \in gone THEN "none" ELSE entry[j]
  BY PrunedEntries DEF EntriesTyped, TransfersTypeOK
<1>3. UNCHANGED <<owner, key, at, fired, worked>>
  BY DEF CancelKey
<1> HIDE DEF kept
<1>4. CASE Cancellable(kept[k])
  <2>1. entry' = [kept EXCEPT ![k] = "cancelled"] /\ signals' = signals \cup {owner[k]}
    BY <1>1, <1>4 DEF kept
  <2>2. owner[k] \in Requests
    BY <1>2, <1>4 DEF Cancellable, EntriesTyped, RunningOwned
  <2> QED
    BY <1>1, <1>2, <1>3, <2>1, <2>2 DEF EntriesTyped, TransfersTypeOK, RunningOwned, EntryStates
<1>5. CASE ~Cancellable(kept[k])
  <2>1. entry' = kept /\ signals' = signals
    BY <1>1, <1>5 DEF kept
  <2> QED
    BY <1>1, <1>2, <1>3, <2>1 DEF EntriesTyped, TransfersTypeOK, RunningOwned, EntryStates
<1> QED BY <1>4, <1>5

LEMMA CompleteTyped ==
    ASSUME EntriesTyped, NEW r \in Requests, Complete(r)
    PROVE  EntriesTyped'
<1>1. at[r] = "answered" /\ CompleteEntry(r) /\ at' = [at EXCEPT ![r] = "succeeded"]
      /\ UNCHANGED <<key, signals, fired, worked>>
  BY DEF Complete
<1>2. key[r] \in Keys
  BY <1>1 DEF EntriesTyped, TransfersTypeOK
<1>3. CASE Completable(entry[key[r]])
  <2> DEFINE done == [entry EXCEPT ![key[r]] = "complete"]
  <2>1. PICK gone \in SUBSET Keys :
          owner' = [owner EXCEPT ![key[r]] = r] /\ entry' = Without(done, gone)
          /\ evicted' = evicted \cup gone
    BY <1>1, <1>3 DEF CompleteEntry
  <2>2. done \in [Keys -> EntryStates]
    BY <1>2 DEF EntriesTyped, TransfersTypeOK, EntryStates
  <2>3. /\ entry' \in [Keys -> EntryStates]
        /\ \A j \in Keys : entry'[j] = IF j \in gone THEN "none" ELSE done[j]
    <3> HIDE DEF done
    <3> QED BY <2>1, <2>2, PrunedEntries
  <2>4. owner' \in [Keys -> Requests \cup {NoRequest}] /\ evicted' \subseteq Keys
    BY <2>1 DEF EntriesTyped, TransfersTypeOK
  <2>5. RunningOwned'
    <3> SUFFICES ASSUME NEW j \in Keys, entry'[j] = "running" PROVE owner'[j] \in Requests
      BY DEF RunningOwned
    <3>1. done[j] = "running"
      BY <2>3
    <3>2. entry[j] = "running" /\ j # key[r]
      BY <3>1, <1>2 DEF EntriesTyped, TransfersTypeOK
    <3> QED
      BY <3>2, <2>1, <1>2 DEF EntriesTyped, TransfersTypeOK, RunningOwned
  <2>6. at' \in [Requests -> {"new"} \cup Live \cup Answers]
    BY <1>1 DEF EntriesTyped, TransfersTypeOK, Answers
  <2>7. \A q \in Requests : at'[q] # "new" => key'[q] \in Keys
    BY <1>1, <1>2 DEF EntriesTyped, TransfersTypeOK
  <2> QED
    BY <1>1, <2>3, <2>4, <2>5, <2>6, <2>7 DEF EntriesTyped, TransfersTypeOK
<1>4. CASE ~Completable(entry[key[r]])
  <2>1. UNCHANGED <<entry, owner, evicted>>
    BY <1>1, <1>4 DEF CompleteEntry
  <2> QED
    BY <1>1, <2>1 DEF EntriesTyped, TransfersTypeOK, RunningOwned, Answers
<1> QED BY <1>3, <1>4

LEMMA LeaveTyped ==
    ASSUME EntriesTyped, NEW r \in Requests, at[r] \in Live, NEW as \in Answers, DropLease(r, as)
    PROVE  EntriesTyped'
<1>1. key[r] \in Keys
  BY DEF EntriesTyped, TransfersTypeOK, Live
<1>2. entry' = [entry EXCEPT ![key[r]] = IF Releasable(@) THEN "none" ELSE @]
  BY DEF DropLease, Release
<1> QED
  BY <1>1, <1>2 DEF DropLease, EntriesTyped, TransfersTypeOK, RunningOwned, EntryStates

LEMMA EntriesTypedHolds == TransfersSpec => []EntriesTyped
<1>1. TransfersInit => EntriesTyped
  BY DEF TransfersInit, EntriesTyped, TransfersTypeOK, RunningOwned, EntryStates
<1>2. EntriesTyped /\ [TransfersNext]_transferVars => EntriesTyped'
  <2> SUFFICES ASSUME EntriesTyped, [TransfersNext]_transferVars PROVE EntriesTyped'
    OBVIOUS
  <2>1. CASE \E k \in Keys : CancelKey(k)
    BY <2>1, CancelTyped
  <2>2. CASE \E r \in Requests, k \in Keys : Claim(r, k)
    BY <2>2, ClaimTyped
  <2>3. CASE \E r \in Requests : Complete(r)
    BY <2>3, CompleteTyped
  <2>4. CASE \E r \in Requests : Signal(r)
    BY <2>4 DEF Signal, EntriesTyped, TransfersTypeOK, RunningOwned
  <2>5. CASE \E r \in Requests : Succeed(r)
    BY <2>5 DEF Succeed, EntriesTyped, TransfersTypeOK, RunningOwned, Live
  <2>6. CASE \E r \in Requests : LeaseFails(r) \/ StopOwner(r) \/ Disconnect(r)
    BY <2>6, LeaveTyped DEF LeaseFails, StopOwner, Disconnect, Live, Answers
  <2>7. CASE UNCHANGED transferVars
    BY <2>7 DEF transferVars, EntriesTyped, TransfersTypeOK, RunningOwned
  <2> QED
    BY <2>1, <2>2, <2>3, <2>4, <2>5, <2>6, <2>7 DEF TransfersNext, Serve
<1> QED BY <1>1, <1>2, PTL DEF TransfersSpec

(* The type invariant: the cancellation of a running entry always finds a   *)
(* request to stop.                                                         *)
THEOREM TransfersTyping == TransfersSpec => []TransfersTypeOK
<1>1. EntriesTyped => TransfersTypeOK
  BY DEF EntriesTyped
<1> QED BY <1>1, EntriesTypedHolds, PTL

-----------------------------------------------------------------------------
(* The entries and the requests of a key agree *)

EntriesInv == EntriesTyped /\ EntryTellsTheOwner

(* A step that moves no request between the owners, the winners and the     *)
(* rest leaves both sets as they are.                                       *)
LEMMA SameOwners ==
    ASSUME NEW k \in Keys,
           \A q \in Requests :
              /\ (key'[q] = k /\ at'[q] \in Live) <=> (key[q] = k /\ at[q] \in Live)
              /\ (key'[q] = k /\ at'[q] = "succeeded")
                    <=> (key[q] = k /\ at[q] = "succeeded")
    PROVE  Owners(k)' = Owners(k) /\ Winners(k)' = Winners(k)
BY DEF Owners, Winners

LEMMA ClaimAgrees ==
    ASSUME EntriesInv, NEW r \in Requests, NEW k \in Keys, Claim(r, k)
    PROVE  EntryTellsTheOwner'
<1>1. PICK gone \in SUBSET Keys :
        /\ evicted' = evicted \cup gone
        /\ LET kept == Without(entry, gone) IN
            IF Free(kept[k])
              THEN /\ entry' = [kept EXCEPT ![k] = "running"]
                   /\ owner' = [owner EXCEPT ![k] = r]
                   /\ at' = [at EXCEPT ![r] = "running"]
              ELSE /\ entry' = kept
                   /\ at' = [at EXCEPT ![r] = Answer(kept[k])]
                   /\ UNCHANGED owner
  BY DEF Claim
<1> DEFINE kept == Without(entry, gone)
<1>2. /\ kept \in [Keys -> EntryStates]
      /\ \A j \in Keys : kept[j] = IF j \in gone THEN "none" ELSE entry[j]
  BY PrunedEntries DEF EntriesInv, EntriesTyped, TransfersTypeOK
<1>3. at[r] = "new" /\ key' = [key EXCEPT ![r] = k]
  BY DEF Claim
<1>4. entry \in [Keys -> EntryStates] /\ owner \in [Keys -> Requests \cup {NoRequest}]
      /\ key \in [Requests -> Keys \cup {NoKey}] /\ DOMAIN at = Requests
  BY DEF EntriesInv, EntriesTyped, TransfersTypeOK
<1> HIDE DEF kept
<1> SUFFICES ASSUME NEW j \in Keys, j \notin evicted'
             PROVE  Agrees(j)'
  BY DEF EntryTellsTheOwner
<1>5. kept[j] = entry[j] /\ j \notin evicted
  BY <1>1, <1>2
<1>6. CASE Free(kept[k])
  <2>1. /\ entry' = [kept EXCEPT ![k] = "running"]
        /\ owner' = [owner EXCEPT ![k] = r]
        /\ at' = [at EXCEPT ![r] = "running"]
    BY <1>1, <1>6 DEF kept
  <2>2. CASE j = k
    <3>1. Owners(k) = {} /\ Winners(k) = {}
      BY <1>5, <1>6, <2>2 DEF EntriesInv, EntryTellsTheOwner, Agrees, Free
    <3>2. Owners(k)' = {r} /\ Winners(k)' = {}
      BY <3>1, <2>1, <1>3, <1>4 DEF Owners, Winners, Live
    <3>3. entry'[j] = "running" /\ owner'[j] = r
      BY <2>1, <2>2, <1>2, <1>4
    <3> QED BY <2>2, <3>2, <3>3 DEF Agrees
  <2>3. CASE j # k
    <3>1. Owners(j)' = Owners(j) /\ Winners(j)' = Winners(j)
      BY <2>1, <2>3, <1>3, <1>4, SameOwners DEF Live
    <3>2. entry'[j] = entry[j] /\ owner'[j] = owner[j]
      BY <2>1, <2>3, <1>2, <1>4, <1>5
    <3> QED BY <3>1, <3>2, <1>5 DEF EntriesInv, EntryTellsTheOwner, Agrees
  <2> QED BY <2>2, <2>3
<1>7. CASE ~Free(kept[k])
  <2>1. entry' = kept /\ at' = [at EXCEPT ![r] = Answer(kept[k])] /\ owner' = owner
    BY <1>1, <1>7 DEF kept
  <2>2. kept[k] \in {"running", "complete", "cancelled"}
    BY <1>2, <1>7 DEF Free, EntryStates
  <2>3. at'[r] \notin Live /\ at'[r] # "succeeded"
    BY <2>1, <2>2, <1>4 DEF Answer, Live
  <2>4. Owners(j)' = Owners(j) /\ Winners(j)' = Winners(j)
    BY <2>1, <2>3, <1>3, <1>4, SameOwners DEF Live
  <2> QED BY <2>1, <2>4, <1>5 DEF EntriesInv, EntryTellsTheOwner, Agrees
<1> QED BY <1>6, <1>7

LEMMA CancelAgrees ==
    ASSUME EntriesInv, NEW k \in Keys, CancelKey(k)
    PROVE  EntryTellsTheOwner'
<1>1. PICK gone \in SUBSET Keys :
        /\ evicted' = evicted \cup gone
        /\ LET kept == Without(entry, gone) IN
            IF Cancellable(kept[k])
              THEN /\ entry' = [kept EXCEPT ![k] = "cancelled"]
                   /\ signals' = signals \cup {owner[k]}
              ELSE entry' = kept /\ UNCHANGED signals
  BY DEF CancelKey
<1> DEFINE kept == Without(entry, gone)
<1>2. /\ kept \in [Keys -> EntryStates]
      /\ \A j \in Keys : kept[j] = IF j \in gone THEN "none" ELSE entry[j]
  BY PrunedEntries DEF EntriesInv, EntriesTyped, TransfersTypeOK
<1>3. UNCHANGED <<owner, key, at>>
  BY DEF CancelKey
<1>4. entry' = kept \/ (kept[k] = "running" /\ entry' = [kept EXCEPT ![k] = "cancelled"])
  BY <1>1 DEF Cancellable
<1> HIDE DEF kept
<1>5. ASSUME NEW j \in Keys, j \notin evicted'
      PROVE  /\ j \notin evicted
             /\ Owners(j)' = Owners(j) /\ Winners(j)' = Winners(j) /\ owner'[j] = owner[j]
             /\ \/ entry'[j] = entry[j]
                \/ entry[j] = "running" /\ entry'[j] = "cancelled"
  BY <1>1, <1>2, <1>3, <1>4, <1>5, SameOwners
<1> QED BY <1>5 DEF EntriesInv, EntryTellsTheOwner, Agrees

LEMMA CompleteAgrees ==
    ASSUME EntriesInv, NEW r \in Requests, Complete(r)
    PROVE  EntryTellsTheOwner'
<1>1. at[r] = "answered" /\ CompleteEntry(r) /\ at' = [at EXCEPT ![r] = "succeeded"]
      /\ key' = key
  BY DEF Complete
<1>2. entry \in [Keys -> EntryStates] /\ owner \in [Keys -> Requests \cup {NoRequest}]
      /\ key[r] \in Keys /\ DOMAIN at = Requests
  BY <1>1 DEF EntriesInv, EntriesTyped, TransfersTypeOK
<1> PICK k \in Keys : k = key[r]
  BY <1>2
<1>3. r \in Owners(k)
  BY <1>1 DEF Owners, Live
<1>4. ASSUME NEW j \in Keys, j # k
      PROVE  Owners(j)' = Owners(j) /\ Winners(j)' = Winners(j)
  BY <1>1, <1>2, <1>4, SameOwners DEF Live
<1>5. /\ Owners(k)' = Owners(k) \ {r}
      /\ Winners(k)' = Winners(k) \cup {r}
  BY <1>1, <1>2 DEF Owners, Winners, Live
<1>6. CASE Completable(entry[k])
  <2> DEFINE done == [entry EXCEPT ![k] = "complete"]
  <2>1. PICK gone \in SUBSET Keys :
          owner' = [owner EXCEPT ![k] = r] /\ entry' = Without(done, gone)
          /\ evicted' = evicted \cup gone
    BY <1>1, <1>6 DEF CompleteEntry
  <2>2. done \in [Keys -> EntryStates]
    BY <1>2 DEF EntryStates
  <2>3. \A j \in Keys : entry'[j] = IF j \in gone THEN "none" ELSE done[j]
    <3> HIDE DEF done
    <3> QED BY <2>1, <2>2, PrunedEntries
  <2>4. ASSUME NEW j \in Keys, j \notin evicted', j # k
        PROVE  j \notin evicted /\ entry'[j] = entry[j] /\ owner'[j] = owner[j]
    BY <2>1, <2>3, <2>4, <1>2
  <2>5. ASSUME k \notin evicted'
        PROVE  /\ entry'[k] = "complete" /\ owner'[k] = r
               /\ Owners(k)' = {} /\ Winners(k)' = {r}
    <3>1. entry'[k] = "complete" /\ owner'[k] = r /\ k \notin evicted
      BY <2>1, <2>3, <2>5, <1>2
    <3>2. Owners(k) = {owner[k]} /\ Winners(k) = {}
      BY <3>1, <1>2, <1>6 DEF EntriesInv, EntryTellsTheOwner, Agrees, Completable
    <3> QED BY <3>1, <3>2, <1>3, <1>5
  <2>6. k \notin evicted' => Agrees(k)'
    BY <2>5 DEF Agrees
  <2>7. ASSUME NEW j \in Keys, j \notin evicted', j # k PROVE Agrees(j)'
    BY <2>4, <2>7, <1>4 DEF EntriesInv, EntryTellsTheOwner, Agrees
  <2> QED BY <2>6, <2>7 DEF EntryTellsTheOwner
<1>7. CASE ~Completable(entry[k])
  <2>1. UNCHANGED <<entry, owner, evicted>>
    BY <1>1, <1>7 DEF CompleteEntry
  <2>2. ASSUME k \notin evicted
        PROVE  /\ entry[k] = "cancelled"
               /\ Owners(k)' \cup Winners(k)' \subseteq {owner[k]}
    <3>1. entry[k] = "cancelled"
      BY <2>2, <1>2, <1>3, <1>7 DEF EntriesInv, EntryTellsTheOwner, Agrees, Completable, EntryStates
    <3>2. Owners(k) \cup Winners(k) \subseteq {owner[k]}
      BY <3>1, <2>2, <1>2 DEF EntriesInv, EntryTellsTheOwner, Agrees
    <3> QED BY <3>1, <3>2, <1>3, <1>5
  <2>3. k \notin evicted => Agrees(k)'
    BY <2>1, <2>2 DEF Agrees
  <2>4. ASSUME NEW j \in Keys, j \notin evicted, j # k PROVE Agrees(j)'
    BY <2>1, <2>4, <1>4 DEF EntriesInv, EntryTellsTheOwner, Agrees
  <2> QED BY <2>1, <2>3, <2>4 DEF EntryTellsTheOwner
<1> QED BY <1>6, <1>7

LEMMA LeaveAgrees ==
    ASSUME EntriesInv, NEW r \in Requests, at[r] \in Live,
           NEW as \in {"failed", "stopped", "lost"}, DropLease(r, as)
    PROVE  EntryTellsTheOwner'
<1>1. /\ entry' = [entry EXCEPT ![key[r]] = IF Releasable(@) THEN "none" ELSE @]
      /\ at' = [at EXCEPT ![r] = as] /\ UNCHANGED <<owner, key, evicted>>
  BY DEF DropLease, Release
<1>2. entry \in [Keys -> EntryStates] /\ key[r] \in Keys /\ DOMAIN at = Requests
  BY DEF EntriesInv, EntriesTyped, TransfersTypeOK, Live
<1>3. r \in Owners(key[r])
  BY DEF Owners
<1>4. ASSUME NEW j \in Keys, j # key[r]
      PROVE  /\ Owners(j)' = Owners(j) /\ Winners(j)' = Winners(j)
             /\ entry'[j] = entry[j]
  BY <1>1, <1>2, <1>4, SameOwners DEF Live
<1>5. /\ Owners(key[r])' = Owners(key[r]) \ {r}
      /\ Winners(key[r])' = Winners(key[r])
  BY <1>1, <1>2 DEF Owners, Winners, Live
<1>6. ASSUME key[r] \notin evicted
      PROVE  \/ /\ entry'[key[r]] = "none"
                /\ Owners(key[r])' = {} /\ Winners(key[r])' = {}
             \/ /\ entry'[key[r]] = "cancelled"
                /\ Owners(key[r])' \cup Winners(key[r])' \subseteq {owner[key[r]]}
  <2>1. CASE entry[key[r]] = "running"
    <3>1. Owners(key[r]) = {owner[key[r]]} /\ Winners(key[r]) = {}
      BY <2>1, <1>2, <1>6 DEF EntriesInv, EntryTellsTheOwner, Agrees
    <3> QED BY <3>1, <2>1, <1>1, <1>2, <1>3, <1>5 DEF Releasable
  <2>2. CASE entry[key[r]] = "cancelled"
    <3>1. Owners(key[r]) \cup Winners(key[r]) \subseteq {owner[key[r]]}
      BY <2>2, <1>2, <1>6 DEF EntriesInv, EntryTellsTheOwner, Agrees
    <3> QED BY <3>1, <2>2, <1>1, <1>2, <1>5 DEF Releasable
  <2>3. CASE entry[key[r]] \in {"none", "complete"}
    BY <2>3, <1>2, <1>3, <1>6 DEF EntriesInv, EntryTellsTheOwner, Agrees
  <2> QED BY <2>1, <2>2, <2>3, <1>2 DEF EntryStates
<1> QED BY <1>1, <1>4, <1>6 DEF EntriesInv, EntryTellsTheOwner, Agrees

(* EntryTellsTheOwner for every instance: it and the types are inductive.   *)
THEOREM TransfersAgree == TransfersSpec => []EntryTellsTheOwner
<1>1. TransfersInit => EntryTellsTheOwner
  BY DEF TransfersInit, EntryTellsTheOwner, Agrees, Owners, Winners, Live
<1>2. EntriesInv /\ [TransfersNext]_transferVars => EntryTellsTheOwner'
  <2> SUFFICES ASSUME EntriesInv, [TransfersNext]_transferVars PROVE EntryTellsTheOwner'
    OBVIOUS
  <2>1. CASE \E k \in Keys : CancelKey(k)
    BY <2>1, CancelAgrees
  <2>2. CASE \E r \in Requests, k \in Keys : Claim(r, k)
    BY <2>2, ClaimAgrees
  <2>3. CASE \E r \in Requests : Complete(r)
    BY <2>3, CompleteAgrees
  <2>4. CASE \E r \in Requests : Signal(r)
    BY <2>4 DEF Signal, EntriesInv, EntryTellsTheOwner, Agrees, Owners, Winners
  <2>5. CASE \E r \in Requests : Succeed(r)
    <3>1. PICK r \in Requests : Succeed(r)
      BY <2>5
    <3>2. \A k \in Keys : Owners(k)' = Owners(k) /\ Winners(k)' = Winners(k)
      BY <3>1, SameOwners DEF Succeed, EntriesInv, EntriesTyped, TransfersTypeOK, Live
    <3> QED BY <3>1, <3>2 DEF Succeed, EntriesInv, EntryTellsTheOwner, Agrees
  <2>6. CASE \E r \in Requests : LeaseFails(r) \/ StopOwner(r) \/ Disconnect(r)
    BY <2>6, LeaveAgrees DEF LeaseFails, StopOwner, Disconnect, Live
  <2>7. CASE UNCHANGED transferVars
    BY <2>7 DEF transferVars, EntriesInv, EntryTellsTheOwner, Agrees, Owners, Winners
  <2> QED
    BY <2>1, <2>2, <2>3, <2>4, <2>5, <2>6, <2>7 DEF TransfersNext, Serve
<1>3. TransfersSpec => []EntriesTyped
  BY EntriesTypedHolds
<1> QED BY <1>1, <1>2, <1>3, PTL DEF TransfersSpec, EntriesInv

(* A handler succeeds once, and its request does not run again. *)
WorkedOnce == \A r \in worked : at[r] \in {"answered", "succeeded", "failed", "lost"}

LEMMA WorkedHolds == TransfersSpec => []WorkedOnce
<1>1. TransfersInit => WorkedOnce
  BY DEF TransfersInit, WorkedOnce
<1>2. EntriesTyped /\ WorkedOnce /\ [TransfersNext]_transferVars => WorkedOnce'
  <2> SUFFICES ASSUME EntriesTyped, WorkedOnce, [TransfersNext]_transferVars
               PROVE  WorkedOnce'
    OBVIOUS
  <2>1. at \in [Requests -> {"new"} \cup Live \cup Answers] /\ worked \subseteq Requests
    BY DEF EntriesTyped, TransfersTypeOK
  <2>2. ASSUME NEW r \in Requests, NEW k \in Keys, Claim(r, k) PROVE WorkedOnce'
    BY <2>1, <2>2 DEF Claim, WorkedOnce
  <2>3. ASSUME NEW r \in Requests, Succeed(r) \/ Complete(r) PROVE WorkedOnce'
    BY <2>1, <2>3 DEF Succeed, Complete, WorkedOnce
  <2>4. ASSUME NEW r \in Requests, LeaseFails(r) \/ StopOwner(r) \/ Disconnect(r) PROVE WorkedOnce'
    BY <2>1, <2>4 DEF LeaseFails, StopOwner, Disconnect, DropLease, WorkedOnce
  <2>5. CASE UNCHANGED <<at, worked>>
    BY <2>5 DEF WorkedOnce
  <2> QED
    BY <2>2, <2>3, <2>4, <2>5 DEF TransfersNext, Serve, CancelKey, Signal, transferVars
<1> QED BY <1>1, <1>2, EntriesTypedHolds, PTL DEF TransfersSpec

(* WorkRepeatsOnlyIfLost for every instance: whatever the entry says, it    *)
(* leaves room for one request only, but for those whose answer was lost.   *)
THEOREM TransfersRepeatOnlyLost == TransfersSpec => []WorkRepeatsOnlyIfLost
<1>1. EntriesTyped /\ EntryTellsTheOwner /\ WorkedOnce => WorkRepeatsOnlyIfLost
  <2> SUFFICES ASSUME EntriesTyped, EntryTellsTheOwner, WorkedOnce,
                      NEW k \in Keys \ evicted,
                      NEW r \in Workers(k), NEW q \in Workers(k) \cup Owners(k),
                      ~AnswerLost(r), ~AnswerLost(q)
               PROVE  r = q
    BY DEF WorkRepeatsOnlyIfLost
  <2>1. r \in Owners(k) \cup Winners(k) /\ q \in Owners(k) \cup Winners(k)
    BY DEF EntriesTyped, TransfersTypeOK, WorkedOnce, Workers, AnswerLost, Owners, Winners, Live
  <2> QED
    BY <2>1 DEF EntriesTyped, TransfersTypeOK, EntryStates, EntryTellsTheOwner, Agrees
<1> QED BY <1>1, EntriesTypedHolds, TransfersAgree, WorkedHolds, PTL

(* OutcomeIsFinal for every instance: no step of a request or of a          *)
(* cancellation changes a terminal entry but its eviction.                  *)
THEOREM TransfersFinal == TransfersSpec => OutcomeIsFinal
<1>1. ASSUME EntriesInv, [TransfersNext]_transferVars
      PROVE  \A k \in Keys :
               entry[k] \in {"complete", "cancelled"} =>
                   \/ entry'[k] = entry[k] /\ owner'[k] = owner[k]
                   \/ k \in evicted'
  <2> SUFFICES ASSUME NEW k \in Keys, entry[k] \in {"complete", "cancelled"}, k \notin evicted'
               PROVE  entry'[k] = entry[k] /\ owner'[k] = owner[k]
    OBVIOUS
  <2>1. entry \in [Keys -> EntryStates] /\ owner \in [Keys -> Requests \cup {NoRequest}]
    BY <1>1 DEF EntriesInv, EntriesTyped, TransfersTypeOK
  <2>2. CASE \E j \in Keys : CancelKey(j)
    BY <2>1, <2>2 DEF CancelKey, Cancellable, Without
  <2>3. CASE \E r \in Requests, j \in Keys : Claim(r, j)
    <3>1. PICK r \in Requests, j \in Keys, gone \in SUBSET Keys :
            /\ evicted' = evicted \cup gone
            /\ LET kept == Without(entry, gone) IN
               \/ /\ Free(kept[j])
                  /\ entry' = [kept EXCEPT ![j] = "running"]
                  /\ owner' = [owner EXCEPT ![j] = r]
               \/ entry' = kept /\ UNCHANGED owner
      BY <2>3 DEF Claim
    <3>2. k \notin gone
      BY <3>1
    <3> QED BY <2>1, <3>1, <3>2 DEF Free, Without
  <2>4. CASE \E r \in Requests : Complete(r)
    BY <2>1, <2>4 DEF Complete, CompleteEntry, Completable, Without
  <2>5. CASE \E r \in Requests : Signal(r)
    BY <2>5 DEF Signal
  <2>6. CASE \E r \in Requests : Succeed(r)
    BY <2>6 DEF Succeed
  <2>7. CASE \E r \in Requests : LeaseFails(r) \/ StopOwner(r) \/ Disconnect(r)
    BY <2>1, <2>7 DEF LeaseFails, StopOwner, Disconnect, DropLease, Release, Releasable
  <2>8. CASE UNCHANGED transferVars
    BY <2>8 DEF transferVars
  <2> QED
    BY <1>1, <2>2, <2>3, <2>4, <2>5, <2>6, <2>7, <2>8 DEF TransfersNext, Serve
<1>2. TransfersSpec => []EntriesInv
  BY EntriesTypedHolds, TransfersAgree, PTL DEF EntriesInv
<1> QED BY <1>1, <1>2, PTL DEF TransfersSpec, OutcomeIsFinal
=============================================================================
