------------------------- MODULE ConversionsProofs -------------------------
(* For any imports, formats and places.  Only the import of a running       *)
(* record publishes a game: a reservation whose flag is down belongs to a   *)
(* running record, and once publication has begun, no cancellation is       *)
(* accepted.  Blocking work keeps its workspace, and neither the places nor *)
(* the codec are ever given away twice.                                     *)
EXTENDS Conversions, FiniteSetTheorems, TLAPS

USE ConversionsAssumption

-----------------------------------------------------------------------------
(* What the operations of the registry do to its records *)

(* prune evicts terminal records and leaves the others alone. *)
LEMMA PruneKeepsStates ==
    ASSUME NEW states \in [Jobs -> States], NEW phases, NEW queue,
           PruneAfter(states, phases, queue)
    PROVE  /\ state' \in [Jobs -> States]
           /\ \A j \in Jobs : states[j] \notin Terminal => state'[j] = states[j]
BY DEF PruneAfter, Pruned, States, Terminal

(* Only a report, a failure or a cancellation of j itself ends the record   *)
(* of j while it runs.                                                      *)
LEMMA OthersRun ==
    ASSUME state \in [Jobs -> States], NEW j \in Jobs,
           Succeed(j) \/ Fail(j) \/ MarkCancelled(j)
    PROVE  /\ state' \in [Jobs -> States]
           /\ \A k \in Jobs \ {j} : state[k] = "running" => state'[k] = "running"
<1>1. CASE Unchanged
  BY <1>1 DEF Unchanged, recordVars
<1>2. ASSUME NEW result \in Terminal, NEW phases, End(j, result, phases)
      PROVE  /\ state' \in [Jobs -> States]
             /\ \A k \in Jobs \ {j} : state[k] = "running" => state'[k] = "running"
  <2> DEFINE states == [state EXCEPT ![j] = result]
  <2>1. /\ states \in [Jobs -> States]
        /\ \A k \in Jobs \ {j} : states[k] = state[k]
    BY DEF States
  <2>2. PruneAfter(states, phases, Append(ended, j))
    BY <1>2 DEF End
  <2> QED
    BY <2>1, <2>2, PruneKeepsStates DEF Terminal
<1> QED
  BY <1>1, <1>2 DEF Succeed, Fail, MarkCancelled, Terminal

(* A poll ends no running record. *)
LEMMA PollKeepsRunning ==
    ASSUME state \in [Jobs -> States], Poll
    PROVE  /\ state' \in [Jobs -> States]
           /\ \A k \in Jobs : state[k] = "running" => state'[k] = "running"
<1>1. PICK queue \in {ended, Tail(ended)} : PruneAfter(state, phase, queue)
  BY DEF Poll, Prune
<1> QED
  BY <1>1, PruneKeepsStates DEF Terminal

-----------------------------------------------------------------------------
(* Only a running record publishes *)

Committing == {"publish", "stage", "finalize"}

Typed ==
    /\ state \in [Jobs -> States]
    /\ step \in [Jobs -> Steps]
    /\ cancel \in [Jobs -> BOOLEAN]
    /\ publishing \in [Jobs -> BOOLEAN]

(* What the flags of j say about its record. *)
Honest(j) ==
    /\ Live(j) /\ ~cancel[j] => state[j] = "running"
    /\ step[j] \in Committing => publishing[j] /\ state[j] = "running"

Inv == Typed /\ \A j \in Jobs : Honest(j)

(* The others are left alone: their flags, and their records if they run. *)
OthersKept(j) ==
    \A k \in Jobs \ {j} :
        /\ step'[k] = step[k] /\ cancel'[k] = cancel[k] /\ publishing'[k] = publishing[k]
        /\ state[k] = "running" => state'[k] = "running"

LEMMA OneAtATime ==
    ASSUME Inv, NEW j \in Jobs, Typed', OthersKept(j), Honest(j)'
    PROVE  Inv'
BY DEF Inv, OthersKept, Honest, Live, Typed

-----------------------------------------------------------------------------
LEMMA HandleKeepsInv ==
    ASSUME Inv, NEW j \in Jobs, Handle(j)
    PROVE  Inv'
<1>1. CASE Reserve(j)
  <2>1. /\ state' \in [Jobs -> States]
        /\ state'[j] = "running"
        /\ \A k \in Jobs \ {j} : state[k] = "running" => state'[k] = "running"
    <3>1. /\ Set(state, j, "running") \in [Jobs -> States]
          /\ PruneAfter(Set(state, j, "running"), Set(phase, j, 1), ended)
      BY <1>1 DEF Reserve, Set, Inv, Typed, States
    <3>2. /\ Set(state, j, "running")[j] = "running"
          /\ \A k \in Jobs \ {j} : Set(state, j, "running")[k] = state[k]
      BY DEF Set, Inv, Typed
    <3> QED
      BY <3>1, <3>2, PruneKeepsStates DEF Terminal
  <2>2. Typed' /\ OthersKept(j) /\ Honest(j)'
    BY <1>1, <2>1 DEF Reserve, Go, signals, Inv, Typed, Steps, OthersKept, Honest, Live, Committing
  <2> QED
    BY <2>2, OneAtATime
<1>2. CASE OpenWorkspace(j) \/ Launch(j)
  <2>1. Typed' /\ OthersKept(j) /\ Honest(j)'
    BY <1>2 DEF OpenWorkspace, Launch, Go, signals, recordVars, Inv, Typed, Steps, OthersKept, Honest,
                Live, Committing
  <2> QED
    BY <2>1, OneAtATime
<1>3. CASE GiveUp(j)
  <2>1. /\ state' \in [Jobs -> States]
        /\ \A k \in Jobs \ {j} : state[k] = "running" => state'[k] = "running"
    BY <1>3, OthersRun DEF GiveUp, Inv, Typed
  <2>3. /\ step' = [step EXCEPT ![j] = "gone"]
        /\ cancel' = [cancel EXCEPT ![j] = FALSE] /\ publishing' = [publishing EXCEPT ![j] = FALSE]
    BY <1>3 DEF GiveUp, Go, Unshare, Set
  <2>2. Typed' /\ OthersKept(j) /\ Honest(j)'
    BY <2>1, <2>3 DEF Inv, Typed, Steps, OthersKept, Honest, Live, Committing
  <2> QED
    BY <2>2, OneAtATime
<1> QED
  BY <1>1, <1>2, <1>3 DEF Handle

(* A task before and after publication: its record and its flags stay, or   *)
(* the flag is raised.                                                      *)
Quiet(j) ==
    /\ state' = state
    /\ \E to \in Steps \ Committing : step' = [step EXCEPT ![j] = to]
    /\ Live(j)
    /\ \/ UNCHANGED cancel
       \/ cancel' = [cancel EXCEPT ![j] = TRUE]
    /\ UNCHANGED publishing

LEMMA QuietKeepsInv ==
    ASSUME Inv, NEW j \in Jobs, Quiet(j)
    PROVE  Inv'
<1>2. Typed'
  BY DEF Quiet, Inv, Typed
<1>3. OthersKept(j) /\ Honest(j)'
  BY DEF Quiet, Inv, Typed, OthersKept, Honest, Live
<1>1. Typed' /\ OthersKept(j) /\ Honest(j)'
  BY <1>2, <1>3
<1> QED
  BY <1>1, OneAtATime

LEMMA TaskKeepsInv ==
    ASSUME Inv, NEW j \in Jobs, Task(j)
    PROVE  Inv'
<1> USE DEF Committing
<1>1. ASSUME NEW from \in Steps, NEW to \in Steps \ Committing, NEW order,
             Enter(j, from, to, order), from \notin {"none", "gone"},
             UNCHANGED signals
      PROVE  Quiet(j)
  BY <1>1 DEF Enter, Go, signals, Quiet, Live, Inv, Steps
<1>2. ASSUME NEW from \in Steps, NEW to \in Steps \ Committing, Go(j, from, to),
             from \notin {"none", "gone"}, UNCHANGED <<state, publishing>>,
             UNCHANGED cancel \/ cancel' = [cancel EXCEPT ![j] = TRUE]
      PROVE  Quiet(j)
  BY <1>2 DEF Go, Quiet, Live, Inv, Typed
<1>3. CASE BeginInspection(j) \/ EndInspection(j)
  <2>1. Quiet(j)
    BY <1>1, <1>2, <1>3 DEF BeginInspection, EndInspection, signals, recordVars, Steps
  <2> QED
    BY <2>1, QuietKeepsInv
<1>4. CASE HearCancel(j) \/ BeginCodec(j) \/ TimeOut(j) \/ GiveUpCodec(j)
  <2>1. Quiet(j)
    BY <1>1, <1>2, <1>4
    DEF HearCancel, BeginCodec, TimeOut, GiveUpCodec, Joined, signals, recordVars, Set, Steps
  <2> QED
    BY <2>1, QuietKeepsInv
<1>5. CASE Publish(j)
  <2>1. Typed' /\ OthersKept(j) /\ Honest(j)'
    BY <1>5 DEF Publish, Joined, Stopped, Go, Set, recordVars, Inv, Typed, Steps, OthersKept, Honest, Live
  <2> QED
    BY <2>1, OneAtATime
<1>6. CASE Prepare(j)
  <2>1. Typed' /\ OthersKept(j) /\ Honest(j)'
    BY <1>6 DEF Prepare, Enter, Go, signals, Inv, Typed, Steps, OthersKept, Honest, Live
  <2> QED
    BY <2>1, OneAtATime
<1>7. CASE StageParts(j) \/ Finalize(j)
  <2>1. Typed' /\ OthersKept(j) /\ Honest(j)'
    BY <1>7 DEF StageParts, Finalize, Go, signals, recordVars, Inv, Typed, Steps, OthersKept, Honest, Live
  <2> QED
    BY <2>1, OneAtATime
<1>8. CASE Tidy(j) \/ MatchMetadata(j) \/ DropWorkspace(j)
  <2>1. Quiet(j)
    BY <1>2, <1>8 DEF Tidy, MatchMetadata, DropWorkspace, signals, recordVars, Steps
  <2> QED
    BY <2>1, QuietKeepsInv
<1>9. CASE Report(j)
  <2>1. /\ state' \in [Jobs -> States]
        /\ \A k \in Jobs \ {j} : state[k] = "running" => state'[k] = "running"
    BY <1>9, OthersRun DEF Report, Inv, Typed
  <2>3. /\ step' = [step EXCEPT ![j] = "gone"]
        /\ cancel' = [cancel EXCEPT ![j] = FALSE] /\ publishing' = [publishing EXCEPT ![j] = FALSE]
    BY <1>9 DEF Report, Go, Unshare, Set
  <2>2. Typed' /\ OthersKept(j) /\ Honest(j)'
    BY <2>1, <2>3 DEF Inv, Typed, Steps, OthersKept, Honest, Live
  <2> QED
    BY <2>2, OneAtATime
<1> QED
  BY <1>3, <1>4, <1>5, <1>6, <1>7, <1>8, <1>9 DEF Task

LEMMA WorkKeepsInv ==
    ASSUME Inv, NEW j \in Jobs, Work(j)
    PROVE  Inv'
<1>1. CASE NextStage(j)
  BY <1>1 DEF NextStage, signals, Inv, Typed, Honest, Live
<1>2. CASE Inspect(j) \/ StopCoding(j)
  <2>1. /\ UNCHANGED <<state, phase, step, publishing>>
        /\ cancel' = [cancel EXCEPT ![j] = cancel[j] /\ step[j] # "gone"]
    BY <1>2 DEF Inspect, StopCoding, Ends, Set, recordVars
  <2> QED
    BY <2>1 DEF Inv, Typed, Honest, Live
<1> QED
  BY <1>1, <1>2 DEF Work

LEMMA CancelKeepsInv ==
    ASSUME Inv, NEW j \in Jobs, Cancel(j)
    PROVE  Inv'
<1>1. /\ state' \in [Jobs -> States]
      /\ \A k \in Jobs \ {j} : state[k] = "running" => state'[k] = "running"
  BY OthersRun DEF Cancel, Inv, Typed
<1>2. Typed' /\ OthersKept(j) /\ Honest(j)'
  BY <1>1 DEF Cancel, Set, Inv, Typed, OthersKept, Honest, Live
<1> QED
  BY <1>2, OneAtATime

LEMMA ProcessKeepsInv ==
    ASSUME Inv, Process
    PROVE  Inv'
<1>1. CASE Shutdown \/ Kill
  <2>1. Forget /\ cancel' \in [Jobs -> BOOLEAN]
    <3>1. \A j \in Jobs : Working(j) \in BOOLEAN
      BY DEF Working
    <3>2. CASE Shutdown
      BY <3>1, <3>2, Zenon DEF Shutdown
    <3>3. CASE Kill
      BY <3>3 DEF Kill, Never
    <3> QED
      BY <1>1, <3>2, <3>3
  <2>2. Typed' /\ \A j \in Jobs : ~Live(j)'
    BY <2>1 DEF Forget, Never, Inv, Typed, Live, States, Steps
  <2> QED
    BY <2>2 DEF Inv, Honest, Live, Committing
<1>2. CASE Exit \/ CleanupAbandoned \/ Reconcile
  BY <1>2 DEF Exit, CleanupAbandoned, Reconcile, signals, recordVars, Inv, Typed, Honest, Live
<1> QED
  BY <1>1, <1>2 DEF Process

-----------------------------------------------------------------------------
LEMMA InitEstablishesInv == Init => Inv
BY DEF Init, RecordsInit, Never, Inv, Typed, States, Steps, Honest, Live, Committing

LEMMA NextKeepsInv == Inv /\ [Next]_vars => Inv'
<1> SUFFICES ASSUME Inv, [Next]_vars
             PROVE  Inv'
  OBVIOUS
<1>1. CASE UNCHANGED vars
  BY <1>1 DEF vars, recordVars, signals, Inv, Typed, Honest, Live
<1>2. CASE PollRecord
  BY <1>2, PollKeepsRunning DEF PollRecord, signals, Inv, Typed, Honest, Live
<1>3. CASE Process
  BY <1>3, ProcessKeepsInv
<1>4. ASSUME NEW j \in Jobs, Handle(j) \/ Task(j) \/ Work(j) \/ Cancel(j)
      PROVE  Inv'
  BY <1>4, HandleKeepsInv, TaskKeepsInv, WorkKeepsInv, CancelKeepsInv
<1> QED
  BY <1>1, <1>2, <1>3, <1>4 DEF Next

(* Games appear at the end of finalization only, which a running record     *)
(* has reached.                                                             *)
LEMMA OnlyFinalizePublishes ==
    ASSUME Next, ~UNCHANGED game
    PROVE  \E j \in Jobs : Finalize(j)
<1>1. ASSUME NEW j \in Jobs, Handle(j) \/ Work(j) \/ Cancel(j)
      PROVE  FALSE
  BY <1>1 DEF Handle, Reserve, OpenWorkspace, Launch, GiveUp, Work, Inspect, NextStage,
              StopCoding, Ends, Cancel, disk
<1>2. ASSUME NEW j \in Jobs, Task(j), ~Finalize(j)
      PROVE  FALSE
  BY <1>2 DEF Task, BeginInspection, EndInspection, HearCancel, BeginCodec, TimeOut, GiveUpCodec,
              Publish, Joined, Prepare, StageParts, Tidy, MatchMetadata, DropWorkspace, Report, disk
<1>3. ~PollRecord /\ ~Process
  BY DEF PollRecord, Process, Shutdown, Kill, Forget, Exit, CleanupAbandoned, Reconcile, disk
<1> QED
  BY <1>1, <1>2, <1>3 DEF Next

GamesTyped == game \in [Jobs -> BOOLEAN]

LEMMA NextKeepsGames == GamesTyped /\ [Next]_vars => GamesTyped'
BY OnlyFinalizePublishes DEF GamesTyped, Finalize, Set, vars, disk

LEMMA PublicationNeedsARunningRecord ==
    ASSUME Inv, GamesTyped, Next, NEW j \in Jobs, game'[j] # game[j]
    PROVE  state[j] = "running"
<1>1. PICK k \in Jobs : Finalize(k)
  BY OnlyFinalizePublishes
<1>2. k = j
  BY <1>1 DEF Finalize, Go, Set, GamesTyped
<1> QED
  BY <1>1, <1>2 DEF Finalize, Go, Inv, Honest, Committing

(* An import whose record was cancelled, failed or evicted publishes no     *)
(* game, whatever its task and its codec still do.                          *)
THEOREM OnlyRunningPublishes == Spec => PublishedWhileRunning
<1>1. Inv /\ GamesTyped /\ [Next]_vars
        => [\A j \in Jobs : game'[j] # game[j] => state[j] = "running"]_vars
  BY PublicationNeedsARunningRecord
<1>2. Init => GamesTyped
  BY DEF Init, GamesTyped, Never
<1> QED
  BY InitEstablishesInv, NextKeepsInv, NextKeepsGames, <1>1, <1>2, PTL
  DEF Spec, PublishedWhileRunning

-----------------------------------------------------------------------------
(* Who holds a workspace.  Blocking work belongs to a step that waits for   *)
(* it, or to a task that was dropped with the server; the places are taken  *)
(* by those who are live, and nobody is when the server is not up.          *)
Bare == {"none", "waiting", "report", "refuse", "gone"}

HeldBy(j) ==
    /\ Working(j) => workspace[j]
    /\ server = "up" =>
         /\ codec[j] = "inspecting" => step[j] = "inspecting"
         /\ codec[j] = "coding" => step[j] \in {"compressing", "joining"}
         /\ step[j] \notin Bare => workspace[j]
         /\ workspace[j] => step[j] \notin Bare \/ j \in stuck
    /\ server # "up" => ~Live(j)
    /\ server \in {"down", "starting"} => ~Working(j)
    /\ server = "starting" => ~workspace[j]

StagingTyped ==
    /\ server \in {"up", "stopping", "down", "starting"}
    /\ step \in [Jobs -> Steps]
    /\ codec \in [Jobs -> {"idle", "inspecting", "coding", "done", "failed"}]
    /\ workspace \in [Jobs -> BOOLEAN]

OneConverts == \A i, k \in Jobs : i \in Converting /\ k \in Converting => i = k

StagingInv ==
    /\ StagingTyped
    /\ \A j \in Jobs : HeldBy(j)
    /\ OneConverts
    /\ server = "up" => Cardinality(PlacesTaken) <= Places

(* A step of j: it holds what it should, the others keep what they had, and *)
(* neither a place nor the codec is taken by the way.                       *)
Local(j) ==
    /\ StagingTyped' /\ HeldBy(j)' /\ UNCHANGED server
    /\ \A k \in Jobs \ {j} :
         /\ step'[k] = step[k] /\ codec'[k] = codec[k] /\ workspace'[k] = workspace[k]
         /\ k \in stuck => k \in stuck'

Frugal(j) == (Live(j) \/ Working(j))' => Live(j) \/ Working(j)
Idle(j) == codec'[j] = "coding" => codec[j] = "coding"

LEMMA FewerPlaces ==
    ASSUME NEW S \in SUBSET Jobs, NEW T \in SUBSET Jobs, S \subseteq T, Cardinality(T) <= Places
    PROVE  Cardinality(S) <= Places
<1>1. IsFiniteSet(T) /\ IsFiniteSet(S)
  BY RecordsAssumption, FS_Subset
<1>2. Cardinality(S) <= Cardinality(T) /\ Cardinality(S) \in Nat /\ Cardinality(T) \in Nat
  BY <1>1, FS_Subset, FS_CardinalityType
<1> QED
  BY <1>2

LEMMA LocalKeepsHeld ==
    ASSUME StagingInv, NEW j \in Jobs, Local(j)
    PROVE  /\ \A k \in Jobs : HeldBy(k)'
           /\ Frugal(j) => PlacesTaken' \subseteq PlacesTaken
           /\ Idle(j) \/ Converting = {} => OneConverts'
<1>1. \A k \in Jobs : HeldBy(k)'
  BY DEF StagingInv, Local, HeldBy, Live, Working
<1>2. Frugal(j) => PlacesTaken' \subseteq PlacesTaken
  BY DEF Local, Frugal, PlacesTaken, Live, Working
<1>3. Idle(j) \/ Converting = {} => OneConverts'
  BY DEF StagingInv, Local, Idle, OneConverts, Converting
<1> QED
  BY <1>1, <1>2, <1>3

LEMMA FrugalKeepsStaging ==
    ASSUME StagingInv, NEW j \in Jobs, Local(j), Frugal(j), Idle(j) \/ Converting = {}
    PROVE  StagingInv'
<1>1. server' = "up" => Cardinality(PlacesTaken') <= Places
  <2>1. PlacesTaken' \in SUBSET Jobs /\ PlacesTaken \in SUBSET Jobs
    BY DEF PlacesTaken
  <2> QED
    BY <2>1, LocalKeepsHeld, FewerPlaces DEF StagingInv, Local
<1> QED
  BY <1>1, LocalKeepsHeld DEF StagingInv, Local

LEMMA HandleKeepsStaging ==
    ASSUME StagingInv, NEW j \in Jobs, Handle(j)
    PROVE  StagingInv'
<1> USE DEF StagingInv, StagingTyped, Local, Frugal, Idle, HeldBy, Live, Working, Bare, Steps, Go, Set, blocking
<1>1. CASE Reserve(j)
  <2>1. Local(j) /\ Idle(j) /\ PlacesTaken' \subseteq PlacesTaken \cup {j}
    BY <1>1 DEF Reserve, PlacesTaken
  <2>2. Cardinality(PlacesTaken') <= Places
    <3>1. IsFiniteSet(PlacesTaken) /\ Cardinality(PlacesTaken) \in Nat
      BY RecordsAssumption, FS_Subset, FS_CardinalityType DEF PlacesTaken
    <3>2. Cardinality(PlacesTaken \cup {j}) \in {Cardinality(PlacesTaken), Cardinality(PlacesTaken) + 1}
      BY <3>1, FS_AddElement, Zenon
    <3>3. Cardinality(PlacesTaken \cup {j}) \in Nat /\ Cardinality(PlacesTaken) < Places
      BY <1>1, <3>1, FS_AddElement, FS_CardinalityType DEF Reserve
    <3>4. Cardinality(PlacesTaken \cup {j}) <= Places
      BY <3>1, <3>2, <3>3, ConversionsAssumption
    <3> QED
      BY <2>1, <3>4, FewerPlaces DEF PlacesTaken
  <2> QED
    BY <2>1, <2>2, LocalKeepsHeld
<1>2. CASE OpenWorkspace(j)
  BY <1>2, FrugalKeepsStaging DEF OpenWorkspace
<1>3. CASE Launch(j)
  BY <1>3, FrugalKeepsStaging DEF Launch
<1>4. CASE GiveUp(j)
  <2>1. /\ server = "up" /\ step[j] \in {"waiting", "uploading"} /\ UNCHANGED <<server, codec>>
        /\ step' = [step EXCEPT ![j] = "gone"] /\ RemoveWorkspace(j)
    BY <1>4 DEF GiveUp
  <2>2. Local(j) /\ Frugal(j) /\ Idle(j)
    BY <2>1 DEF RemoveWorkspace
  <2> QED
    BY <2>2, FrugalKeepsStaging
<1> QED
  BY <1>1, <1>2, <1>3, <1>4 DEF Handle

LEMMA TaskKeepsStaging ==
    ASSUME StagingInv, NEW j \in Jobs, Task(j)
    PROVE  StagingInv'
<1> USE DEF StagingInv, StagingTyped, Local, Frugal, Idle, HeldBy, Live, Working, Bare, Steps, Go, Enter, Set, blocking
<1>1. CASE BeginInspection(j) \/ EndInspection(j)
  <2>1. CASE EndInspection(j)
    BY <2>1, FrugalKeepsStaging DEF EndInspection
  <2>2. CASE BeginInspection(j) /\ Known(j)
    <3>1. /\ server = "up" /\ UNCHANGED <<server, workspace, stuck>> /\ step[j] = "inspect"
          /\ step' = [step EXCEPT ![j] = "inspecting"] /\ codec' = [codec EXCEPT ![j] = "inspecting"]
      BY <2>2 DEF BeginInspection
    <3>2. Local(j) /\ Frugal(j) /\ Idle(j)
      BY <3>1
    <3> QED
      BY <3>2, FrugalKeepsStaging
  <2>3. CASE BeginInspection(j) /\ ~Known(j)
    BY <2>3, FrugalKeepsStaging DEF BeginInspection
  <2> QED
    BY <1>1, <2>1, <2>2, <2>3
<1>2. CASE BeginCodec(j)
  <2>1. CASE Known(j) /\ step'[j] = "compressing"
    <3>1. /\ server = "up" /\ UNCHANGED <<server, workspace, stuck>> /\ step[j] = "queue"
          /\ step' = [step EXCEPT ![j] = "compressing"] /\ codec' = [codec EXCEPT ![j] = "coding"]
      BY <1>2, <2>1 DEF BeginCodec
    <3>2. Local(j) /\ Frugal(j) /\ Converting = {}
      BY <1>2, <3>1 DEF BeginCodec
    <3> QED
      BY <3>2, FrugalKeepsStaging
  <2>3. CASE Known(j) /\ step'[j] # "compressing"
    BY <1>2, <2>3, FrugalKeepsStaging DEF BeginCodec
  <2>2. CASE ~Known(j)
    BY <1>2, <2>2, FrugalKeepsStaging DEF BeginCodec
  <2> QED
    BY <2>1, <2>2, <2>3
<1>3. CASE HearCancel(j) \/ TimeOut(j) \/ GiveUpCodec(j) \/ Publish(j)
  <2>1. Local(j) /\ Frugal(j) /\ Idle(j)
    BY <1>3 DEF HearCancel, TimeOut, GiveUpCodec, Publish, Joined
  <2> QED
    BY <2>1, FrugalKeepsStaging
<1>4. CASE Prepare(j) \/ StageParts(j) \/ Finalize(j) \/ Tidy(j) \/ MatchMetadata(j) \/ DropWorkspace(j) \/ Report(j)
  <2>1. Local(j) /\ Frugal(j) /\ Idle(j)
    <3>1. CASE Prepare(j) \/ StageParts(j)
      BY <3>1 DEF Prepare, StageParts
    <3>2. CASE Finalize(j) \/ Tidy(j) \/ MatchMetadata(j)
      BY <3>2 DEF Finalize, Tidy, MatchMetadata
    <3>3. CASE DropWorkspace(j)
      <4>1. /\ server = "up" /\ UNCHANGED <<server, codec>> /\ RemoveWorkspace(j)
            /\ \/ step[j] = "clean" /\ step' = [step EXCEPT ![j] = "report"]
               \/ step[j] = "discard" /\ step' = [step EXCEPT ![j] = "refuse"]
        BY <3>3 DEF DropWorkspace
      <4>2. StagingTyped' /\ UNCHANGED server
        <5>1. workspace' \in [Jobs -> BOOLEAN]
          BY <4>1 DEF RemoveWorkspace
        <5>2. step' \in [Jobs -> Steps]
          BY <4>1
        <5> QED
          BY <4>1, <5>1, <5>2
      <4> QED
        BY <4>1, <4>2 DEF RemoveWorkspace
    <3>4. CASE Report(j)
      BY <3>4 DEF Report
    <3> QED BY <1>4, <3>1, <3>2, <3>3, <3>4
  <2> QED
    BY <2>1, FrugalKeepsStaging
<1> QED
  BY <1>1, <1>2, <1>3, <1>4 DEF Task

LEMMA WorkKeepsStaging ==
    ASSUME StagingInv, NEW j \in Jobs, Work(j)
    PROVE  StagingInv'
<1>1. Local(j) /\ Frugal(j) /\ Idle(j)
  <2> USE DEF Ends, Set, StagingInv, StagingTyped, Local, Frugal, Idle, HeldBy, Live, Working, Bare
  <2>1. CASE Inspect(j)
    <3>1. /\ codec[j] = "inspecting" /\ UNCHANGED <<server, step, stuck>>
      BY <2>1 DEF Inspect
    <3>2. \E result \in {"idle", "done", "failed"} : codec' = [codec EXCEPT ![j] = result]
      BY <2>1 DEF Inspect
    <3>3. \/ workspace' = [workspace EXCEPT ![j] = workspace[j] /\ step[j] # "gone"]
          \/ workspace' = workspace
      BY <2>1 DEF Inspect
    <3>4. StagingTyped'
      BY <3>1, <3>2, <3>3
    <3> QED
      BY <3>1, <3>2, <3>3, <3>4
  <2>2. CASE NextStage(j)
    BY <2>2 DEF NextStage
  <2>3. CASE StopCoding(j)
    BY <2>3 DEF StopCoding
  <2> QED
    BY <2>1, <2>2, <2>3 DEF Work
<1> QED
  BY <1>1, FrugalKeepsStaging

LEMMA ProcessKeepsStaging ==
    ASSUME StagingInv, Process
    PROVE  StagingInv'
<1> USE DEF StagingInv, StagingTyped, HeldBy, Live, Working, OneConverts, Converting
<1>1. CASE Shutdown
  BY <1>1 DEF Shutdown, Forget, Steps
<1>2. CASE Kill
  BY <1>2 DEF Kill, Forget, Steps
<1>3. CASE Exit
  BY <1>3 DEF Exit, LockHolders, blocking
<1>4. CASE CleanupAbandoned
  BY <1>4 DEF CleanupAbandoned, blocking, Never
<1>5. CASE Reconcile
  <2>1. PlacesTaken' = {}
    BY <1>5 DEF Reconcile, blocking, PlacesTaken
  <2> QED
    BY <1>5, <2>1, FS_EmptySet, ConversionsAssumption DEF Reconcile, blocking, Bare
<1> QED
  BY <1>1, <1>2, <1>3, <1>4, <1>5 DEF Process

LEMMA StagingInvHolds == Spec => []StagingInv
<1>1. Init => StagingInv
  <2> SUFFICES ASSUME Init PROVE StagingInv
    OBVIOUS
  <2>1. PlacesTaken = {}
    BY DEF Init, PlacesTaken, Live, Working
  <2> QED
    BY <2>1, FS_EmptySet, ConversionsAssumption
    DEF Init, StagingInv, StagingTyped, HeldBy, Bare, Live, Working, OneConverts, Converting, Never, Steps
<1>2. StagingInv /\ [Next]_vars => StagingInv'
  <2> SUFFICES ASSUME StagingInv, [Next]_vars
               PROVE  StagingInv'
    OBVIOUS
  <2>1. CASE UNCHANGED <<server, step, codec, workspace, stuck>>
    BY <2>1 DEF StagingInv, StagingTyped, HeldBy, Live, Working, OneConverts, Converting, PlacesTaken
  <2>2. CASE PollRecord \/ UNCHANGED vars \/ \E j \in Jobs : Cancel(j)
    BY <2>1, <2>2 DEF PollRecord, Cancel, vars, blocking
  <2>3. ASSUME NEW j \in Jobs, Handle(j) \/ Task(j) \/ Work(j)
        PROVE  StagingInv'
    BY <2>3, HandleKeepsStaging, TaskKeepsStaging, WorkKeepsStaging
  <2> QED
    BY <2>2, <2>3, ProcessKeepsStaging DEF Next
<1> QED
  BY <1>1, <1>2, PTL DEF Spec

(* Nothing pulls the workspace from under blocking work, not a time-out,    *)
(* nor a shutdown, nor the next start; conversion runs one at a time, and   *)
(* the places bound the workspaces but those that could not be removed:     *)
(* conversion.rs and conversion/registry.                                   *)
THEOREM WorkspacesAreHeld == Spec => []StagingIsHeld
<1>1. ASSUME StagingInv PROVE StagingIsHeld
  <2>1. Cardinality(Converting) <= 1
    <3>1. CASE Converting = {}
      BY <3>1, FS_EmptySet
    <3>2. ASSUME NEW j \in Converting PROVE Cardinality(Converting) <= 1
      <4>1. Converting = {j}
        BY <1>1 DEF StagingInv, OneConverts, Converting
      <4>2. Cardinality({j}) = 1
        BY FS_Singleton, Zenon
      <4> QED
        BY <4>1, <4>2
    <3> QED
      BY <3>1, <3>2
  <2>2. ASSUME server = "up"
        PROVE  /\ {j \in Jobs : workspace[j]} \ stuck \subseteq {j \in Jobs : Live(j)}
               /\ {j \in Jobs : workspace[j]} \ stuck \subseteq PlacesTaken
    BY <1>1, <2>2 DEF StagingInv, HeldBy, Bare, Live, PlacesTaken
  <2>3. server = "up" => Cardinality({j \in Jobs : workspace[j]} \ stuck) <= Places
    BY <1>1, <2>2, FewerPlaces DEF StagingInv, PlacesTaken
  <2> QED
    BY <1>1, <2>1, <2>2, <2>3 DEF StagingIsHeld, StagingInv, HeldBy, Converting
<1> QED
  BY <1>1, StagingInvHolds, PTL
=============================================================================
