------------------------- MODULE RommImportsProofs -------------------------
(* For any jobs, files, capacity and permits: a terminal record of the      *)
(* registry only ever goes away, what is staged stays journaled unless its   *)
(* removal fails, the outcome that a record tells is what happened to the   *)
(* library, and two copies of a game come only from imports that held an    *)
(* upload permit together.  In the last part, the connection to the server  *)
(* that the imports read from.                                              *)
EXTENDS RommImports, RommSource, TLAPS, FiniteSetTheorems

USE RecordsAssumption, JobsAssumption, RommAssumption

-----------------------------------------------------------------------------
(* What the operations of the registry do to its records *)

(* prune evicts terminal records and leaves the others alone. *)
LEMMA PruneKeeps ==
    ASSUME NEW states \in [Jobs -> States], NEW phases \in [Jobs -> Nat], NEW queue,
           PruneAfter(states, phases, queue)
    PROVE  /\ state' \in [Jobs -> States] /\ phase' \in [Jobs -> Nat]
           /\ \A j \in Jobs : state'[j] \in {states[j], "pruned"}
           /\ \A j \in Jobs : states[j] \notin Terminal => state'[j] = states[j]
           /\ \A j \in Jobs : state'[j] # "pruned" => phase'[j] = phases[j]
BY DEF PruneAfter, Pruned, Phases, States, Terminal

(* A transition to a terminal state touches the record of that job, and the *)
(* terminal records that are evicted.                                       *)
LEMMA EndKeeps ==
    ASSUME state \in [Jobs -> States], phase \in [Jobs -> Nat],
           NEW j \in Jobs, NEW result \in Terminal,
           NEW phases \in [Jobs -> Nat], End(j, result, phases),
           \A k \in Jobs \ {j} : phases[k] = phase[k]
    PROVE  /\ state' \in [Jobs -> States] /\ phase' \in [Jobs -> Nat]
           /\ state'[j] \in {result, "pruned"}
           /\ \A k \in Jobs \ {j} :
                /\ state'[k] \in {state[k], "pruned"}
                /\ state[k] \notin Terminal => state'[k] = state[k]
                /\ state'[k] # "pruned" => phase'[k] = phase[k]
<1> DEFINE states == [state EXCEPT ![j] = result]
<1>1. /\ states \in [Jobs -> States]
      /\ \A k \in Jobs \ {j} : states[k] = state[k]
  BY DEF States
<1>2. PruneAfter(states, phases, Append(ended, j))
  BY DEF End
<1>3. states[j] = result
  OBVIOUS
<1> HIDE DEF states
<1>4. /\ state' \in [Jobs -> States] /\ phase' \in [Jobs -> Nat]
      /\ \A k \in Jobs : state'[k] \in {states[k], "pruned"}
      /\ \A k \in Jobs : states[k] \notin Terminal => state'[k] = states[k]
      /\ \A k \in Jobs : state'[k] # "pruned" => phase'[k] = phases[k]
  BY <1>1, <1>2, PruneKeeps
<1> QED
  BY <1>1, <1>3, <1>4

-----------------------------------------------------------------------------
(* Types, as far as they are needed *)

Typed ==
    /\ state \in [Jobs -> States]
    /\ phase \in [Jobs -> Nat]
    /\ sup \in [Jobs -> {"none", "start", "permit", "spawn", "attach", "wait", "gone"}]
    /\ work \in [Jobs -> {"none", "ok", "failed", "stopped"} \cup Alive]
    /\ met \in [Jobs -> SUBSET Jobs]
    /\ step \in [Jobs -> Steps]
    /\ library \subseteq Jobs
    /\ \A j \in Jobs : state[j] = "absent" => sup[j] = "none"

(* What a step of the registry does to the records. *)
RecordsKept ==
    /\ state' \in [Jobs -> States] /\ phase' \in [Jobs -> Nat]
    /\ \A k \in Jobs : state'[k] = "absent" => state[k] = "absent"
    /\ \A k \in Jobs : IsTerminal(k) =>
         /\ state'[k] \in {state[k], "pruned"}
         /\ state'[k] = state[k] => phase'[k] = phase[k]

LEMMA EndIsFinal ==
    ASSUME Typed, NEW j \in Jobs, NEW result \in Terminal,
           NEW phases \in [Jobs -> Nat], End(j, result, phases),
           \A k \in Jobs \ {j} : phases[k] = phase[k],
           ~IsTerminal(j)
    PROVE  RecordsKept
BY EndKeeps DEF RecordsKept, IsTerminal, Terminal, Typed, States

LEMMA ReportIsFinal ==
    ASSUME Typed, NEW j \in Jobs, Report(j)
    PROVE  RecordsKept
<1>1. CASE TooLate(j) /\ UNCHANGED <<state, phase>>
  BY <1>1 DEF RecordsKept, Typed, IsTerminal
<1>2. CASE End(j, "succeeded", [phase EXCEPT ![j] = MaxPhase + 1]) /\ ~TooLate(j)
  <2>1. /\ [phase EXCEPT ![j] = MaxPhase + 1] \in [Jobs -> Nat]
        /\ \A k \in Jobs \ {j} : [phase EXCEPT ![j] = MaxPhase + 1][k] = phase[k]
    BY DEF Typed
  <2> QED
    BY <1>2, <2>1, EndIsFinal DEF TooLate, Terminal
<1>3. CASE End(j, "failed", phase) /\ ~TooLate(j)
  BY <1>3, EndIsFinal DEF TooLate, Terminal, Typed
<1> QED
  BY <1>1, <1>2, <1>3 DEF Report, Succeed, Fail, Unchanged, recordVars

LEMMA RequestIsFinal ==
    ASSUME Typed, NEW j \in Jobs, Request(j)
    PROVE  RecordsKept
<1>1. CASE Reserve(j)
  <2>1. /\ [state EXCEPT ![j] = "queued"] \in [Jobs -> States]
        /\ \A k \in Jobs : IsTerminal(k) => [state EXCEPT ![j] = "queued"][k] = state[k]
    BY <1>1 DEF Reserve, Typed, States, IsTerminal, Terminal
  <2>2. PruneAfter([state EXCEPT ![j] = "queued"], phase, ended) /\ phase \in [Jobs -> Nat]
    BY <1>1 DEF Reserve, Typed
  <2> HIDE DEF Reserve
  <2>3. /\ state' \in [Jobs -> States] /\ phase' \in [Jobs -> Nat]
        /\ \A k \in Jobs : state'[k] \in {[state EXCEPT ![j] = "queued"][k], "pruned"}
        /\ \A k \in Jobs : state'[k] # "pruned" => phase'[k] = phase[k]
    BY <2>1, <2>2, PruneKeeps
  <2> QED
    BY <2>1, <2>3 DEF RecordsKept, IsTerminal, Terminal
<1>2. CASE Cancel(j)
  BY <1>2, EndIsFinal DEF Cancel, MarkCancelled, IsTerminal, Terminal, Typed
<1> QED
  BY <1>1, <1>2 DEF Request

LEMMA SnapshotIsFinal ==
    ASSUME Typed, Snapshot
    PROVE  RecordsKept
<1>1. PICK queue \in {ended, Tail(ended)} : PruneAfter(state, phase, queue)
  BY DEF Snapshot, Poll, Prune
<1> QED
  BY <1>1, PruneKeeps DEF RecordsKept, Typed, IsTerminal, Terminal

-----------------------------------------------------------------------------
(* Every step keeps the records and the types.  What a workflow does to the *)
(* records is its phase.                                                    *)

LEMMA PhaseIsFinal ==
    ASSUME Typed, NEW j \in Jobs, NEW order \in Nat, Busy,
           SetPhase(j, order) \/ UNCHANGED phase
    PROVE  RecordsKept
BY DEF Typed, Busy, SetPhase, RecordsKept, IsTerminal, Terminal

(* The step a workflow goes to, whether it returns, and the library. *)
Moves(j) ==
    /\ Busy
    /\ \E order \in Nat : SetPhase(j, order) \/ UNCHANGED phase
    /\ work[j] \in Alive
    /\ \E to \in Steps : step' = [step EXCEPT ![j] = to]
    /\ \/ UNCHANGED work
       \/ \E result \in {"ok", "failed"} : work' = [work EXCEPT ![j] = result]
    /\ library' \in {library, library \cup {j}}

LEMMA WorkflowMoves ==
    ASSUME NEW j \in Jobs, Workflow(j)
    PROVE  Moves(j)
<1>1. /\ \A from, to \in Steps : Proceed(j, from, to) /\ UNCHANGED library => Moves(j)
      /\ \A from, to \in Steps, order \in Nat :
           Enter(j, from, to, order) /\ library' \in {library, library \cup {j}} => Moves(j)
      /\ \A from \in Steps : \A answer : Finish(j, from, answer) /\ UNCHANGED library => Moves(j)
  BY DEF Proceed, Enter, Finish, Goto, Return, ResultOf, Moves, Steps
<1>2. CASE Begin(j) \/ Resolve(j) \/ Check(j) \/ StageRow(j) \/ CreatePart(j) \/ Stream(j)
  BY <1>1, <1>2 DEF Begin, Resolve, Check, StageRow, CreatePart, Stream, Steps
<1>3. CASE Verify(j) \/ Recheck(j) \/ Place(j) \/ Finalize(j) \/ AttachMetadata(j)
  BY <1>1, <1>3 DEF Verify, Recheck, Place, Finalize, AttachMetadata, Steps
<1>4. CASE Commit(j)
  BY <1>4 DEF Commit, Enter, Proceed, Goto, Moves, Steps
<1>5. CASE RemovePart(j) \/ CompleteRow(j) \/ Discarded(j)
  BY <1>1, <1>5 DEF RemovePart, CompleteRow, Discarded, Steps
<1>6. CASE TimeOut(j)
  BY <1>6 DEF TimeOut, Drop, Return, Moves, Steps
<1> QED
  BY <1>2, <1>3, <1>4, <1>5, <1>6 DEF Workflow

LEMMA StepIsFinal ==
    ASSUME Typed, [Next]_vars
    PROVE  RecordsKept /\ Typed'
<1>1. CASE Snapshot /\ UNCHANGED rommVars
  BY <1>1, SnapshotIsFinal DEF Snapshot, Poll, rommVars, RecordsKept, Typed
<1>2. ASSUME NEW j \in Jobs, Request(j), UNCHANGED rommVars
      PROVE  RecordsKept /\ Typed'
  <2>1. RecordsKept
    BY <1>2, RequestIsFinal
  <2>2. CASE Reserve(j)
    <3>1. state'[j] # "absent"
      <4> DEFINE states == [state EXCEPT ![j] = "queued"]
      <4>1. states \in [Jobs -> States] /\ states[j] = "queued" /\ phase \in [Jobs -> Nat]
        BY DEF Typed, States
      <4>2. PruneAfter(states, phase, ended)
        BY <2>2 DEF Reserve
      <4> HIDE DEF states
      <4> QED
        BY <4>1, <4>2, PruneKeeps DEF Terminal
    <3> QED
      BY <1>2, <2>1, <2>2, <3>1 DEF Reserve, rommVars, RecordsKept, Typed
  <2>3. CASE Cancel(j)
    BY <1>2, <2>1, <2>3 DEF Cancel, MarkCancelled, rommVars, RecordsKept, Typed, Alive
  <2> QED
    BY <1>2, <2>2, <2>3 DEF Request
<1>3. ASSUME NEW j \in Jobs, Supervise(j), UNCHANGED rommVars
      PROVE  RecordsKept /\ Typed'
  <2>1. CASE Report(j)
    BY <1>3, <2>1, ReportIsFinal DEF Report, SupStep, rommVars, RecordsKept, Typed
  <2>2. CASE StartJob(j)
    BY <1>3, <2>2 DEF StartJob, recordVars, SupStep, rommVars, RecordsKept, Typed, IsTerminal, Terminal, States
  <2>3. CASE TakePermit(j)
    <3>1. met' \in [Jobs -> SUBSET Jobs]
      BY <2>3 DEF TakePermit, Holders, Typed
    <3> QED
      BY <1>3, <2>3, <3>1 DEF TakePermit, recordVars, SupStep, rommVars, RecordsKept, Typed, IsTerminal
  <2>4. CASE Spawn(j) \/ Attach(j)
    BY <1>3, <2>4
    DEF Spawn, Attach, recordVars, SupStep, rommVars, RecordsKept, Typed, IsTerminal, Alive
  <2> QED
    BY <1>3, <2>1, <2>2, <2>3, <2>4 DEF Supervise
<1>4. ASSUME NEW j \in Jobs, Workflow(j)
      PROVE  RecordsKept /\ Typed'
  <2>1. Moves(j)
    BY <1>4, WorkflowMoves
  <2>2. RecordsKept
    BY <2>1, PhaseIsFinal DEF Moves
  <2>3. step' \in [Jobs -> Steps] /\ library' \subseteq Jobs /\ sup' = sup /\ met' = met
    BY <2>1 DEF Moves, Busy, Typed
  <2>4. work' \in [Jobs -> {"none", "ok", "failed", "stopped"} \cup Alive]
    BY <2>1 DEF Moves, Typed
  <2> QED
    BY <2>2, <2>3, <2>4 DEF RecordsKept, Typed
<1>5. ASSUME NEW j \in Jobs, Abort(j)
      PROVE  RecordsKept /\ Typed'
  BY <1>5 DEF Abort, Stop, recordVars, Drop, RecordsKept, Typed, IsTerminal, Steps
<1>6. CASE UNCHANGED vars
  BY <1>6 DEF vars, registryVars, recordVars, rommVars, RecordsKept, Typed, IsTerminal
<1> QED
  BY <1>1, <1>2, <1>3, <1>4, <1>5, <1>6 DEF Next, Task

LEMMA InitTyped == Init => Typed
BY DEF Init, RegistryInit, RecordsInit, Typed, States, Steps

LEMMA RommTyping == Spec => []Typed
BY InitTyped, StepIsFinal, PTL DEF Spec

(* A terminal record never changes: reports, phases and cancellations that  *)
(* come late are dropped, and eviction only removes it.                     *)
THEOREM RommTerminalIsFinal == Spec => TerminalIsFinal
<1>1. Typed /\ [Next]_vars => [\A j \in Jobs : IsTerminal(j) =>
                                 /\ state'[j] \in {state[j], "pruned"}
                                 /\ state'[j] = state[j] => phase'[j] = phase[j]]_recordVars
  BY StepIsFinal DEF RecordsKept
<1> QED
  BY <1>1, RommTyping, PTL DEF Spec, TerminalIsFinal

-----------------------------------------------------------------------------
(* Copies.  While a workflow lives its supervisor holds a permit, so what   *)
(* is published between its last duplicate check and its transaction is     *)
(* published by an import that it met.                                      *)

Holding(j) == sup[j] \in {"spawn", "attach", "wait"}

(* Who holds a permit has met everyone else who does, and was met by them.  *)
Meeting ==
    \A j, k \in Jobs :
        /\ j # k /\ Holding(j) /\ Holding(k) => k \in met[j]
        /\ k \in met[j] => j \in met[k]

AliveHolds ==
    \A j \in Jobs :
        /\ work[j] \in Alive => sup[j] \in {"attach", "wait"}
        /\ sup[j] \in {"none", "start", "permit", "spawn"} => work[j] = "none" /\ step[j] = "begin"

BeforeCommit ==
    {"begin", "resolve", "check", "download", "create", "stream", "recheck", "ingest", "commit"}

Unpublished == \A j \in Jobs : step[j] \in BeforeCommit => j \notin library

(* An import past its last check knows of every copy, or met its importer.  *)
Checked ==
    \A j \in Jobs : work[j] \in Alive /\ step[j] \in {"ingest", "commit"} =>
        \A k \in library : Game[k] = Game[j] => k \in met[j]

CopiesInv == Typed /\ Meeting /\ AliveHolds /\ Unpublished /\ Checked /\ CopiesMet

LEMMA InitCopies == Init => CopiesInv
BY InitTyped
DEF Init, RegistryInit, RecordsInit, CopiesInv, Meeting, Holding, AliveHolds, Unpublished, Checked, CopiesMet, Alive

(* Steps that leave the workflows' variables alone. *)
LEMMA RegistryKeepsChecked ==
    ASSUME CopiesInv, UNCHANGED rommVars,
           \A j \in Jobs : met[j] \subseteq met'[j],
           \A j \in Jobs : work'[j] \in Alive => work[j] \in Alive \/ step[j] = "begin"
    PROVE  Unpublished' /\ Checked' /\ CopiesMet'
BY DEF CopiesInv, Typed, rommVars, Unpublished, Checked, CopiesMet

(* Whoever takes a permit meets its holders; every supervisor has one       *)
(* before it spawns.                                                        *)
LEMMA SupervisorKeepsMeeting ==
    ASSUME CopiesInv, NEW j \in Jobs, Supervise(j)
    PROVE  Meeting' /\ \A k \in Jobs : met[k] \subseteq met'[k]
<1>1. CASE TakePermit(j)
  <2>1. /\ sup[j] = "permit" /\ sup' = [sup EXCEPT ![j] = "spawn"]
        /\ met' = [k \in Jobs |-> IF k = j THEN met[j] \cup Holders
                                 ELSE IF k \in Holders THEN met[k] \cup {j} ELSE met[k]]
    BY <1>1 DEF TakePermit, SupStep
  <2>2. \A k \in Jobs : k \in Holders <=> Holding(k)
    BY DEF Holders, Holding
  <2>3. ~Holding(j) /\ \A k \in Jobs \ {j} : Holding(k)' <=> Holding(k)
    BY <2>1 DEF Holding, CopiesInv, Typed
  <2>4. \A k \in Jobs : met[k] \subseteq met'[k]
    BY <2>1
  <2>5. Meeting'
    <3>1. SUFFICES ASSUME NEW k \in Jobs, NEW l \in Jobs
                   PROVE  /\ k # l /\ Holding(k)' /\ Holding(l)' => l \in met'[k]
                          /\ l \in met'[k] => k \in met'[l]
      BY DEF Meeting
    <3>2. k # l /\ Holding(k)' /\ Holding(l)' => l \in met'[k]
      BY <2>1, <2>2, <2>3 DEF CopiesInv, Meeting
    <3>3. l \in met'[k] => k \in met'[l]
      BY <2>1, <2>2, <2>3 DEF CopiesInv, Meeting
    <3> QED
      BY <3>2, <3>3
  <2> QED
    BY <2>4, <2>5
<1>2. CASE StartJob(j) \/ Spawn(j) \/ Attach(j) \/ Report(j)
  BY <1>2 DEF StartJob, Spawn, Attach, recordVars, Report, SupStep, CopiesInv, Meeting, Holding, Typed
<1> QED
  BY <1>1, <1>2 DEF Supervise

LEMMA RegistryStep ==
    ASSUME CopiesInv, UNCHANGED rommVars,
           Snapshot \/ \E j \in Jobs : Request(j) \/ Supervise(j)
    PROVE  Meeting' /\ AliveHolds' /\ Unpublished' /\ Checked' /\ CopiesMet'
<1>1. CASE Snapshot
  <2>1. Meeting' /\ AliveHolds'
    BY <1>1 DEF Snapshot, Poll, CopiesInv, Meeting, Holding, AliveHolds, rommVars
  <2> QED
    BY <1>1, <2>1, RegistryKeepsChecked DEF Snapshot, Poll
<1>2. ASSUME NEW j \in Jobs, Request(j)
      PROVE  Meeting' /\ AliveHolds' /\ Unpublished' /\ Checked' /\ CopiesMet'
  <2>1. Meeting' /\ UNCHANGED met
    BY <1>2 DEF Request, Reserve, Cancel, MarkCancelled, CopiesInv, Meeting, Holding, Typed
  <2>2. AliveHolds' /\ \A k \in Jobs : work'[k] \in Alive => work[k] \in Alive
    <3>1. CASE Reserve(j)
      BY <1>2, <3>1 DEF Reserve, CopiesInv, AliveHolds, Alive, Typed, rommVars
    <3>2. CASE Cancel(j)
      <4>1. sup' = sup /\ step' = step
        BY <3>2 DEF Cancel, MarkCancelled, rommVars
      <4>2. \A k \in Jobs : work'[k] = work[k] \/ (work[k] = "running" /\ work'[k] = "aborting")
        BY <3>2 DEF Cancel, MarkCancelled, CopiesInv, Typed
      <4> QED
        BY <4>1, <4>2 DEF CopiesInv, AliveHolds, Alive, Typed
    <3> QED
      BY <1>2, <3>1, <3>2 DEF Request
  <2> QED
    BY <2>1, <2>2, RegistryKeepsChecked
<1>3. ASSUME NEW j \in Jobs, Supervise(j)
      PROVE  Meeting' /\ AliveHolds' /\ Unpublished' /\ Checked' /\ CopiesMet'
  <2>1. Meeting' /\ \A k \in Jobs : met[k] \subseteq met'[k]
    BY <1>3, SupervisorKeepsMeeting
  <2>2. /\ AliveHolds'
        /\ \A k \in Jobs : work'[k] \in Alive => work[k] \in Alive \/ step[k] = "begin"
    <3>1. CASE StartJob(j) \/ TakePermit(j) \/ Report(j)
      BY <1>3, <3>1 DEF StartJob, TakePermit, recordVars, Report, SupStep, CopiesInv, AliveHolds, Alive, Typed, rommVars
    <3>2. CASE Spawn(j) \/ Attach(j)
      BY <1>3, <3>2 DEF Spawn, Attach, recordVars, SupStep, CopiesInv, AliveHolds, Alive, Typed, rommVars
    <3> QED
      BY <1>3, <3>1, <3>2 DEF Supervise
  <2> QED
    BY <2>1, <2>2, RegistryKeepsChecked
<1> QED
  BY <1>1, <1>2, <1>3

(* A step that ends, or goes on without publishing. *)
Proceeds(j) ==
    /\ UNCHANGED <<sup, met, library>>
    /\ work[j] \in Alive
    /\ \E to \in Steps :
         /\ step' = [step EXCEPT ![j] = to]
         /\ to \in BeforeCommit => step[j] \in BeforeCommit
         /\ to \in {"ingest", "commit"} => ~Duplicate(j) \/ step[j] = "ingest"
    /\ \/ UNCHANGED work
       \/ \E result \in {"ok", "failed"} : work' = [work EXCEPT ![j] = result]

LEMMA WorkflowProceeds ==
    ASSUME NEW j \in Jobs, Workflow(j), ~Commit(j)
    PROVE  Proceeds(j)
<1>1. CASE Begin(j) \/ Resolve(j) \/ Check(j)
  BY <1>1
  DEF Begin, Resolve, Check, Enter, Finish, Goto, Busy, Return, ResultOf, Proceeds, Steps, BeforeCommit
<1>2. CASE StageRow(j) \/ CreatePart(j) \/ Stream(j)
  BY <1>2 DEF StageRow, CreatePart, Stream, Proceed, Goto, Busy, Proceeds, Steps, BeforeCommit
<1>3. CASE Verify(j) \/ Recheck(j) \/ Place(j)
  BY <1>3 DEF Verify, Recheck, Place, Enter, Proceed, Goto, Busy, Proceeds, Steps, BeforeCommit
<1>4. CASE Finalize(j) \/ AttachMetadata(j) \/ RemovePart(j) \/ CompleteRow(j) \/ Discarded(j)
  BY <1>4
  DEF Finalize, AttachMetadata, RemovePart, CompleteRow, Discarded, Proceed, Finish, Goto, Busy,
      Return, ResultOf, Proceeds, Steps, BeforeCommit
<1>5. CASE TimeOut(j)
  BY <1>5 DEF TimeOut, Drop, Return, Busy, Proceeds, Steps, BeforeCommit
<1> QED
  BY <1>1, <1>2, <1>3, <1>4, <1>5 DEF Workflow

LEMMA ProceedsStep ==
    ASSUME CopiesInv, NEW j \in Jobs, Proceeds(j)
    PROVE  Meeting' /\ AliveHolds' /\ Unpublished' /\ Checked' /\ CopiesMet'
<1>1. Meeting' /\ CopiesMet' /\ Unpublished'
  BY DEF Proceeds, CopiesInv, Meeting, Holding, CopiesMet, Unpublished, Typed
<1>2. AliveHolds'
  BY DEF Proceeds, CopiesInv, AliveHolds, Typed, Alive
<1>3. Checked'
  BY DEF Proceeds, CopiesInv, Checked, Duplicate, Typed, Alive
<1> QED
  BY <1>1, <1>2, <1>3

(* The transaction: whoever else lives and is past its checks has met the   *)
(* publisher.                                                               *)
LEMMA CommitStep ==
    ASSUME CopiesInv, NEW j \in Jobs, Commit(j)
    PROVE  Meeting' /\ AliveHolds' /\ Unpublished' /\ Checked' /\ CopiesMet'
<1>1. /\ work[j] \in Alive /\ step[j] = "commit"
      /\ UNCHANGED <<sup, work, met>>
      /\ library' \in {library, library \cup {j}}
      /\ \E to \in {"finalize", "discard"} : step' = [step EXCEPT ![j] = to]
  BY DEF Commit, Enter, Proceed, Goto, Busy
<1>2. Meeting' /\ AliveHolds'
  BY <1>1 DEF CopiesInv, Meeting, Holding, AliveHolds, Typed, Alive
<1>3. Unpublished'
  BY <1>1 DEF CopiesInv, Unpublished, Typed, BeforeCommit
<1>4. \A k \in Jobs \ {j} : work[k] \in Alive => j \in met[k]
  BY <1>1 DEF CopiesInv, Meeting, Holding, AliveHolds
<1>5. Checked'
  BY <1>1, <1>4 DEF Checked, CopiesInv, Typed
<1>6. CopiesMet'
  BY <1>1 DEF CopiesMet, CopiesInv, Meeting, Checked, Typed
<1> QED
  BY <1>2, <1>3, <1>5, <1>6

LEMMA AbortStep ==
    ASSUME CopiesInv, NEW j \in Jobs, Abort(j)
    PROVE  Meeting' /\ AliveHolds' /\ Unpublished' /\ Checked' /\ CopiesMet'
BY DEF Abort, Stop, recordVars, Drop, CopiesInv, Meeting, Holding, AliveHolds, Unpublished, Checked, CopiesMet,
       Typed, Alive, BeforeCommit

LEMMA NextCopies ==
    ASSUME CopiesInv, [Next]_vars
    PROVE  CopiesInv'
<1>1. Typed'
  BY StepIsFinal DEF CopiesInv
<1>2. CASE UNCHANGED vars
  BY <1>1, <1>2
  DEF vars, registryVars, recordVars, rommVars, CopiesInv, Meeting, Holding, AliveHolds, Unpublished, Checked,
      CopiesMet
<1>3. CASE Next
  BY <1>1, <1>3, RegistryStep, WorkflowProceeds, ProceedsStep, CommitStep, AbortStep
  DEF Next, Task, CopiesInv
<1> QED
  BY <1>2, <1>3

(* For any number of upload permits: imports leave two copies of one game   *)
(* only if they held a permit together, whatever fails, times out or is     *)
(* cancelled on the way.  (With one permit no two do.)                      *)
THEOREM CopiesCameTogether == Spec => []CopiesMet
<1>1. CopiesInv /\ [Next]_vars => CopiesInv'
  BY NextCopies
<1>2. CopiesInv => CopiesMet
  BY DEF CopiesInv
<1> QED
  BY InitCopies, <1>1, <1>2, PTL DEF Spec

-----------------------------------------------------------------------------
(* The staging area.  A part is taken into account before it exists, by its *)
(* row, and is answered for as long as its workflow lives or until its      *)
(* removal was tried.                                                       *)

StagingTyped ==
    /\ step \in [Jobs -> Steps]
    /\ DOMAIN staged = Jobs /\ DOMAIN rows = Slots
    /\ parts \subseteq Slots

(* The parts of j that were not given up. *)
Kept(j) == {i \in 1..Files[j] : <<j, i>> \in parts \ stuck}

Bare(j) == Kept(j) = {}

StagedBy(j) ==
    /\ staged[j] \subseteq 1..Files[j]
    /\ step[j] \in {"begin", "resolve", "check"} => staged[j] = {}
    /\ step[j] \in {"create", "stream"} => NextFile(j) \in 1..Files[j] /\ rows[<<j, NextFile(j)>>] = "prepared"
    /\ \A i \in Kept(j) :
         /\ rows[<<j, i>>] = "prepared"
         /\ step[j] # "dropped" => i \in staged[j] \/ (step[j] = "stream" /\ i = NextFile(j))
    /\ step[j] \in {"commit", "finalize", "attach", "ended"} => Bare(j)

StagingInv == StagingTyped /\ \A j \in Jobs : StagedBy(j)

LEMMA SlotsAre ==
    /\ \A j \in Jobs : \A i : <<j, i>> \in Slots <=> i \in 1..Files[j]
    /\ \A s \in Slots : \E j \in Jobs : \E i \in 1..Files[j] : s = <<j, i>>
    /\ \A j \in Jobs : \A s : s \in Own(j) <=> \E i \in 1..Files[j] : s = <<j, i>>
BY DEF Slots, Own

LEMMA SlotsApart ==
    ASSUME NEW j \in Jobs, NEW k \in Jobs \ {j}, NEW i
    PROVE  <<k, i>> \notin Own(j)
BY DEF Own

LEMMA NextFileIsNatural ==
    ASSUME NEW j \in Jobs, staged[j] \subseteq 1..Files[j]
    PROVE  NextFile(j) \in Nat \ {0}
<1>1. IsFiniteSet(1..Files[j])
  BY FS_Interval
<1>2. Cardinality(staged[j]) \in Nat
  BY <1>1, FS_Subset, FS_CardinalityType
<1> QED
  BY <1>2 DEF NextFile

(* A step of j, as the others see it. *)
Apart(j) ==
    \A k \in Jobs \ {j} :
        /\ step'[k] = step[k] /\ staged'[k] = staged[k]
        /\ Kept(k)' = Kept(k)
        /\ \A i \in 1..Files[k] : rows'[<<k, i>>] = rows[<<k, i>>]

LEMMA ApartKeeps ==
    ASSUME StagingInv, NEW j \in Jobs, StagingTyped', Apart(j), StagedBy(j)'
    PROVE  StagingInv'
<1>1. ASSUME NEW k \in Jobs \ {j} PROVE StagedBy(k)'
  <2>1. NextFile(k) \in 1..Files[k] => rows'[<<k, NextFile(k)>>] = rows[<<k, NextFile(k)>>]
    BY DEF Apart
  <2>2. step'[k] = step[k] /\ staged'[k] = staged[k] /\ NextFile(k)' = NextFile(k)
    BY DEF Apart, NextFile
  <2>3. StagedBy(k)
    BY DEF StagingInv
  <2>4. \A i \in Kept(k) : i \in 1..Files[k]
    BY DEF Kept
  <2>5. Kept(k)' = Kept(k) /\ \A i \in 1..Files[k] : rows'[<<k, i>>] = rows[<<k, i>>]
    BY DEF Apart
  <2> HIDE DEF NextFile
  <2> QED
    BY <2>1, <2>2, <2>3, <2>4, <2>5 DEF StagedBy, Bare
<1> QED
  BY <1>1 DEF StagingInv

LEMMA WorkflowStages ==
    ASSUME StagingInv, NEW j \in Jobs, Workflow(j)
    PROVE  StagingTyped' /\ Apart(j) /\ StagedBy(j)'
<1> USE SlotsAre DEF StagingInv, StagingTyped, Apart, StagedBy, Bare, Kept, Enter, Proceed, Finish, Goto, Steps
<1>1. NextFile(j) \in Nat \ {0} /\ StagedBy(j)
  BY NextFileIsNatural
<1>2. UNCHANGED staged => NextFile(j)' = NextFile(j)
  BY DEF NextFile
<1>3. CASE Begin(j) \/ Resolve(j) \/ Check(j)
  BY <1>1, <1>2, <1>3 DEF Begin, Resolve, Check
<1>4. CASE StageRow(j)
  <2>3. StagingTyped'
    BY <1>1, <1>4 DEF StageRow, SetRow
  <2>4. Apart(j)
    BY <1>1, <1>4 DEF StageRow, SetRow
  <2>1. StagingTyped' /\ Apart(j)
    BY <2>3, <2>4
  <2>2. StagedBy(j)'
    <3>1. CASE NextFile(j) <= Files[j] /\ Proceed(j, "download", "create") /\ SetRow(j, NextFile(j), "prepared")
      BY <1>1, <1>2, <1>4, <3>1 DEF StageRow, SetRow
    <3>2. CASE Proceed(j, "download", "discard") /\ UNCHANGED rows
      BY <1>1, <1>2, <1>4, <3>2 DEF StageRow
    <3> QED BY <1>4, <3>1, <3>2 DEF StageRow
  <2> QED BY <2>1, <2>2
<1>5. CASE CreatePart(j)
  <2>1. UNCHANGED <<rows, stuck>> /\ \A s : s \notin Own(j) => (s \in parts' <=> s \in parts)
    BY <1>1, <1>5 DEF CreatePart, Taken
  <2>3. StagingTyped' /\ \A k \in Jobs \ {j} : step'[k] = step[k] /\ staged'[k] = staged[k]
    BY <1>1, <1>5 DEF CreatePart, Taken
  <2>2. StagedBy(j)'
    BY <1>1, <1>2, <1>5 DEF CreatePart, Taken
  <2>4. \A k \in Jobs \ {j} : \A i : <<k, i>> \notin Own(j)
    BY SlotsApart
  <2>5. \A k \in Jobs \ {j} : Kept(k)' = Kept(k)
    BY <2>1, <2>4 DEF Kept
  <2> QED BY <2>1, <2>2, <2>3, <2>5
<1>6. CASE Stream(j)
  BY <1>1, <1>6 DEF Stream, Taken
<1>7. CASE Verify(j) \/ Recheck(j) \/ Commit(j) \/ AttachMetadata(j) \/ Discarded(j)
  BY <1>1, <1>2, <1>7 DEF Verify, Recheck, Commit, AttachMetadata, Discarded
<1>8. CASE Place(j)
  <2>1. UNCHANGED <<rows, stuck>> /\ \A s : s \notin Own(j) => (s \in parts' <=> s \in parts)
    BY <1>1, <1>8 DEF Place
  <2>3. StagingTyped' /\ \A k \in Jobs \ {j} : step'[k] = step[k] /\ staged'[k] = staged[k]
    BY <1>1, <1>8 DEF Place
  <2>2. StagedBy(j)'
    BY <1>1, <1>2, <1>8 DEF Place
  <2>4. \A k \in Jobs \ {j} : \A i : <<k, i>> \notin Own(j)
    BY SlotsApart
  <2>5. \A k \in Jobs \ {j} : Kept(k)' = Kept(k)
    BY <2>1, <2>4 DEF Kept
  <2> QED BY <2>1, <2>2, <2>3, <2>5
<1>9. CASE Finalize(j)
  BY <1>1, <1>9 DEF Finalize
<1>10. CASE RemovePart(j)
  BY <1>1, <1>2, <1>10 DEF RemovePart, Tried
<1>11. CASE CompleteRow(j)
  <2>1. PICK i \in staged[j] : /\ Tried(j, i) /\ SetRow(j, i, "completed")
                               /\ staged' = [staged EXCEPT ![j] = @ \ {i}]
    BY <1>11 DEF CompleteRow
  <2>2. StagingTyped' /\ Apart(j)
    BY <1>1, <1>11, <2>1 DEF CompleteRow, SetRow
  <2>3. StagedBy(j)'
    BY <1>1, <1>11, <2>1 DEF CompleteRow, SetRow, Tried
  <2> QED BY <2>2, <2>3
<1>12. CASE TimeOut(j)
  BY <1>1, <1>12 DEF TimeOut, Drop
<1> QED
  BY <1>3, <1>4, <1>5, <1>6, <1>7, <1>8, <1>9, <1>10, <1>11, <1>12 DEF Workflow

LEMMA WorkflowKeepsStaging ==
    ASSUME StagingInv, NEW j \in Jobs, Workflow(j)
    PROVE  StagingInv'
BY WorkflowStages, ApartKeeps

(* A staged file never lies there without an undecided row, which the next  *)
(* start would remove it by, and no workflow that ends leaves one, but for  *)
(* the files whose removal was tried and failed: romm import.rs,            *)
(* download_all, discard_staged and finish_import.                          *)
THEOREM StagedFilesAreAccounted == Spec => []StagedIsAccounted
<1>1. Init => StagingInv
  <2> SUFFICES ASSUME Init PROVE StagingInv
    OBVIOUS
  <2> QED
    BY DEF Init, StagingInv, StagingTyped, StagedBy, Bare, Kept, Steps
<1>2. StagingInv /\ [Next]_vars => StagingInv'
  <2> SUFFICES ASSUME StagingInv, [Next]_vars
               PROVE  StagingInv'
    OBVIOUS
  <2>1. CASE UNCHANGED rommVars
    BY <2>1 DEF rommVars, StagingInv, StagingTyped, StagedBy, Bare, Kept, NextFile
  <2>2. ASSUME NEW j \in Jobs, Abort(j)
        PROVE  StagingInv'
    <3>1. StagingTyped' /\ Apart(j) /\ StagedBy(j)'
      BY <2>2, SlotsAre DEF Abort, Drop, Apart, StagingInv, StagingTyped, StagedBy, Bare, Kept, Steps
    <3> QED
      BY <3>1, ApartKeeps
  <2> QED
    BY <2>1, <2>2, WorkflowKeepsStaging DEF Next, Task, vars
<1>3. StagingInv => StagedIsAccounted
  <2> SUFFICES ASSUME StagingInv PROVE StagedIsAccounted
    OBVIOUS
  <2>1. ASSUME NEW s \in parts \ stuck PROVE rows[s] = "prepared"
    <3>1. PICK j \in Jobs : \E i \in 1..Files[j] : s = <<j, i>>
      BY SlotsAre DEF StagingInv, StagingTyped
    <3>2. PICK i \in 1..Files[j] : s = <<j, i>>
      BY <3>1
    <3> QED
      BY <3>2 DEF StagingInv, StagedBy, Kept
  <2>2. ASSUME NEW j \in Jobs, step[j] = "ended", NEW s \in parts \ stuck, s \in Own(j) PROVE FALSE
    <3>1. PICK i \in 1..Files[j] : s = <<j, i>>
      BY <2>2, SlotsAre
    <3> QED
      BY <2>2, <3>1 DEF StagingInv, StagedBy, Bare, Kept
  <2> QED
    BY <2>1, <2>2 DEF StagedIsAccounted
<1> QED
  BY <1>1, <1>2, <1>3, PTL DEF Spec

-----------------------------------------------------------------------------
(* Outcomes.  What a workflow is about to return says what it did to the    *)
(* library; a record succeeds only with a workflow that returned, and then  *)
(* nothing of that job moves any more.                                      *)
Succeeded(j) == outcome[j] \in {"imported", "already_present"}

TrueOf(j) ==
    /\ step[j] \in BeforeCommit => j \notin library
    /\ step[j] = "finalize" => j \in library
    /\ step[j] = "attach" => outcome[j] = "imported"
    /\ step[j] = "discard" => outcome[j] \in {"failed", "already_present"}
    /\ outcome[j] = "imported" => j \in library
    /\ outcome[j] = "already_present" => j \notin library /\ Duplicate(j) /\ step[j] \in {"discard", "ended"}
    /\ work[j] = "ok" => Succeeded(j)
    /\ state[j] = "succeeded" => work[j] = "ok" /\ sup[j] = "gone"

OutcomeInv == Typed /\ DOMAIN outcome = Jobs /\ \A j \in Jobs : TrueOf(j)

(* What a step leaves the other jobs. *)
Outside(j) ==
    /\ library' \in {library, library \cup {j}}
    /\ \A k \in Jobs \ {j} :
         /\ step'[k] = step[k] /\ outcome'[k] = outcome[k] /\ work'[k] = work[k] /\ sup'[k] = sup[k]
         /\ state'[k] = "succeeded" => state[k] = "succeeded"

LEMMA OutsideKeeps ==
    ASSUME OutcomeInv, NEW j \in Jobs, Typed', DOMAIN outcome' = Jobs, Outside(j), TrueOf(j)'
    PROVE  OutcomeInv'
<1>1. \A k \in Jobs : Duplicate(k) => Duplicate(k)'
  BY DEF Duplicate, Outside
<1> QED
  BY <1>1 DEF OutcomeInv, Outside, TrueOf, Succeeded

(* Only a report makes a record succeed. *)
LEMMA EndSucceeds ==
    ASSUME Typed, NEW j \in Jobs, NEW result \in Terminal, NEW phases \in [Jobs -> Nat], End(j, result, phases)
    PROVE  \A k \in Jobs : state'[k] = "succeeded" => state[k] = "succeeded" \/ (k = j /\ result = "succeeded")
<1> DEFINE states == [state EXCEPT ![j] = result]
<1>1. states \in [Jobs -> States] /\ PruneAfter(states, phases, Append(ended, j))
  BY DEF Typed, States, Terminal, End
<1>2. \A k \in Jobs : state'[k] \in {states[k], "pruned"}
  <2> HIDE DEF states
  <2> QED
    BY <1>1, PruneKeeps
<1> QED
  BY <1>2 DEF Typed

LEMMA RegistryKeepsOutcomes ==
    ASSUME OutcomeInv, Typed', UNCHANGED rommVars,
           Snapshot \/ \E j \in Jobs : Request(j) \/ Supervise(j)
    PROVE  OutcomeInv'
<1> USE DEF rommVars
<1>1. CASE Snapshot
  <2>1. PICK queue \in {ended, Tail(ended)} : PruneAfter(state, phase, queue)
    BY <1>1 DEF Snapshot, Poll, Prune
  <2>2. \A k \in Jobs : state'[k] \in {state[k], "pruned"}
    BY <2>1, PruneKeeps DEF OutcomeInv, Typed
  <2> QED
    BY <1>1, <2>2 DEF Snapshot, OutcomeInv, TrueOf, Succeeded, Duplicate
<1>2. ASSUME NEW j \in Jobs, Reserve(j) PROVE OutcomeInv'
  <2> DEFINE states == [state EXCEPT ![j] = "queued"]
  <2>1. states \in [Jobs -> States] /\ PruneAfter(states, phase, ended) /\ phase \in [Jobs -> Nat]
    BY <1>2 DEF OutcomeInv, Typed, States, Reserve
  <2>2. \A k \in Jobs : state'[k] \in {states[k], "pruned"}
    <3> HIDE DEF states
    <3> QED
      BY <2>1, PruneKeeps
  <2>3. \A k \in Jobs : state'[k] = "succeeded" => state[k] = "succeeded" /\ k # j
    BY <2>2 DEF OutcomeInv, Typed
  <2> QED
    BY <1>2, <2>3, OutsideKeeps DEF Reserve, OutcomeInv, Typed, Outside, TrueOf, Succeeded, Duplicate
<1>3. ASSUME NEW j \in Jobs, Cancel(j) PROVE OutcomeInv'
  <2>1. \A k \in Jobs : state'[k] = "succeeded" => state[k] = "succeeded"
    BY <1>3, EndSucceeds DEF Cancel, MarkCancelled, OutcomeInv, Typed, Terminal
  <2>2. /\ UNCHANGED sup
        /\ \A k \in Jobs : work'[k] = work[k] \/ (work[k] = "running" /\ work'[k] = "aborting")
    BY <1>3 DEF Cancel, OutcomeInv, Typed
  <2> QED
    BY <2>1, <2>2 DEF OutcomeInv, TrueOf, Succeeded, Duplicate
<1>4. ASSUME NEW j \in Jobs, Report(j) PROVE OutcomeInv'
  <2>1. UNCHANGED work /\ sup[j] = "wait" /\ sup' = [sup EXCEPT ![j] = "gone"]
    BY <1>4 DEF Report, SupStep
  <2>2. \A k \in Jobs : state'[k] = "succeeded" => state[k] = "succeeded" \/ (k = j /\ work[j] = "ok")
    <3>1. [phase EXCEPT ![j] = MaxPhase + 1] \in [Jobs -> Nat] /\ phase \in [Jobs -> Nat]
      BY DEF OutcomeInv, Typed
    <3> QED
      BY <1>4, <3>1, EndSucceeds
      DEF Report, Succeed, Fail, Unchanged, recordVars, Terminal, OutcomeInv
  <2> QED
    BY <2>1, <2>2 DEF OutcomeInv, Typed, TrueOf, Succeeded, Duplicate
<1>5. ASSUME NEW j \in Jobs, StartJob(j) \/ TakePermit(j) \/ Spawn(j) \/ Attach(j) PROVE OutcomeInv'
  <2>1. \A k \in Jobs : state'[k] = "succeeded" => state[k] = "succeeded"
    BY <1>5 DEF StartJob, TakePermit, Spawn, Attach, recordVars, OutcomeInv, Typed
  <2>2. /\ \A k \in Jobs : sup[k] = "gone" => sup'[k] = "gone" /\ work'[k] = work[k]
        /\ \A k \in Jobs : work'[k] = "ok" => work[k] = "ok"
    BY <1>5 DEF StartJob, TakePermit, Spawn, Attach, SupStep, recordVars, OutcomeInv, Typed
  <2> QED
    BY <2>1, <2>2 DEF OutcomeInv, TrueOf, Succeeded, Duplicate
<1> QED
  BY <1>1, <1>2, <1>3, <1>4, <1>5 DEF Request, Supervise

LEMMA WorkflowKeepsOutcomes ==
    ASSUME OutcomeInv, Typed', NEW j \in Jobs, Workflow(j)
    PROVE  OutcomeInv'
<1>1. /\ work[j] \in Alive /\ state' = state /\ sup' = sup
      /\ \A k \in Jobs \ {j} : step'[k] = step[k] /\ work'[k] = work[k]
      /\ library' \in {library, library \cup {j}}
  BY WorkflowMoves DEF Moves, Busy, OutcomeInv, Typed
<1>2. state'[j] # "succeeded"
  BY <1>1 DEF OutcomeInv, TrueOf, Alive
<1>3. Duplicate(j) => Duplicate(j)'
  BY <1>1 DEF Duplicate
<1>4. ASSUME UNCHANGED outcome \/ \E answer : Decide(j, answer), TrueOf(j)'
      PROVE  OutcomeInv'
  <2>1. DOMAIN outcome' = Jobs /\ \A k \in Jobs \ {j} : outcome'[k] = outcome[k]
    BY <1>4 DEF Decide, OutcomeInv
  <2> QED
    BY <1>1, <1>4, <2>1, OutsideKeeps DEF Outside
<1> USE DEF OutcomeInv, TrueOf, Succeeded, BeforeCommit, Decide, Enter, Proceed, Finish, Goto, Return, ResultOf, Alive
<1>5. CASE Begin(j) \/ Resolve(j) \/ StageRow(j) \/ CreatePart(j) \/ Stream(j) \/ Verify(j) \/ Place(j)
  <2>1. TrueOf(j)' /\ (UNCHANGED outcome \/ \E answer : Decide(j, answer))
    BY <1>1, <1>2, <1>3, <1>5 DEF Begin, Resolve, StageRow, CreatePart, Stream, Verify, Place, Typed
  <2> QED
    BY <2>1, <1>4
<1>6. CASE Check(j) \/ Recheck(j)
  <2>1. TrueOf(j)' /\ (UNCHANGED outcome \/ \E answer : Decide(j, answer))
    BY <1>1, <1>2, <1>3, <1>6 DEF Check, Recheck, Typed
  <2> QED
    BY <2>1, <1>4
<1>7. CASE Commit(j)
  <2>1. TrueOf(j)' /\ (UNCHANGED outcome \/ \E answer : Decide(j, answer))
    BY <1>1, <1>2, <1>3, <1>7 DEF Commit, Typed
  <2> QED
    BY <2>1, <1>4
<1>8. CASE Finalize(j) \/ AttachMetadata(j) \/ RemovePart(j) \/ CompleteRow(j) \/ Discarded(j)
  <2>1. TrueOf(j)' /\ (UNCHANGED outcome \/ \E answer : Decide(j, answer))
    BY <1>1, <1>2, <1>3, <1>8 DEF Finalize, AttachMetadata, RemovePart, CompleteRow, Discarded, Typed
  <2> QED
    BY <2>1, <1>4
<1>9. CASE TimeOut(j)
  <2>1. TrueOf(j)' /\ (UNCHANGED outcome \/ \E answer : Decide(j, answer))
    BY <1>1, <1>2, <1>9 DEF TimeOut, Drop, Typed
  <2> QED
    BY <2>1, <1>4
<1> QED
  BY <1>5, <1>6, <1>7, <1>8, <1>9 DEF Workflow

(* A job that succeeded published its game, or found it and added nothing,  *)
(* whatever was cancelled, aborted or failed around it and however many     *)
(* imports run at once: the result of import_game and job_supervisor.rs.    *)
THEOREM RommOutcomesAreTrue == Spec => []OutcomesAreTrue
<1>1. Init => OutcomeInv
  BY InitTyped DEF Init, RegistryInit, RecordsInit, OutcomeInv, TrueOf, Succeeded
<1>2. OutcomeInv /\ [Next]_vars => OutcomeInv'
  <2> SUFFICES ASSUME OutcomeInv, [Next]_vars
               PROVE  OutcomeInv'
    OBVIOUS
  <2>1. Typed'
    BY StepIsFinal DEF OutcomeInv
  <2>2. CASE UNCHANGED vars
    BY <2>1, <2>2 DEF vars, registryVars, recordVars, rommVars, OutcomeInv, TrueOf, Succeeded, Duplicate
  <2>3. ASSUME NEW j \in Jobs, Abort(j)
        PROVE  OutcomeInv'
    <3>1. Outside(j) /\ DOMAIN outcome' = Jobs /\ TrueOf(j)'
      BY <2>3 DEF Abort, Stop, recordVars, Drop, Decide, Outside, OutcomeInv, Typed, TrueOf, Succeeded, BeforeCommit
    <3> QED
      BY <2>1, <3>1, OutsideKeeps
  <2> QED
    BY <2>1, <2>2, <2>3, RegistryKeepsOutcomes, WorkflowKeepsOutcomes DEF Next, Task
<1>3. OutcomeInv => OutcomesAreTrue
  BY DEF OutcomeInv, TrueOf, Succeeded, OutcomesAreTrue
<1> QED
  BY <1>1, <1>2, <1>3, PTL DEF Spec

-----------------------------------------------------------------------------
(* The source of the imports: the connection to the RomM server, for every  *)
(* list its catalog may have and every page size.                           *)
HIDE RommAssumption
HIDE JobsAssumption
HIDE RecordsAssumption

RequestSteps == {"idle", "auth", "ask", "call", "refused", "replace", "store", "forget"}

IndexType == [stored : BOOLEAN, games : SUBSET RemoteGame]

SourceTyped ==
    /\ settings \in Settings \cup {NoSettings}
    /\ index \in IndexType /\ (index.stored \/ index.games = {})
    /\ cache \in Token \cup {NoToken}
    /\ catalog \in [Accounts -> Seq(Nat)] /\ \A a \in Accounts : catalog[a] \in Catalogs[a]
    /\ accepted \subseteq Token /\ granted \in 0..MaxTokens
    /\ at \in [Requests -> RequestSteps] /\ task \in [Requests -> Tasks \cup {"none"}]
    /\ own \in [Requests -> Settings \cup {NoSettings}]
    /\ bearer \in [Requests -> Token \cup {NoToken}]
    /\ games \in [Requests -> SUBSET RemoteGame]
    /\ offset \in [Requests -> Nat] /\ steady \in [Requests -> BOOLEAN]

(* The games a has shown to a client that has read n of its list.           *)
Shown(a, n) == {[account |-> a, id |-> catalog[a][i]] : i \in {i \in DOMAIN catalog[a] : i <= n}}

(* What a request holds belongs to the settings it loaded.                  *)
Loaded(r) ==
    /\ at[r] \in {"auth", "ask", "call", "refused", "replace", "store"} => own[r] \in Settings
    /\ at[r] = "call" /\ bearer[r] # NoToken => bearer[r].account = own[r].account
    /\ \A g \in games[r] : g.account = own[r].account
    /\ at[r] = "idle" => games[r] = {} /\ offset[r] = 0 /\ ~steady[r]

(* What it has read is the beginning of the list, and all of it at the end. *)
Reads(r) ==
    steady[r] =>
        /\ own[r].account \in Accounts
        /\ games[r] = Shown(own[r].account, offset[r])
        /\ at[r] = "replace" => Len(catalog[own[r].account]) <= offset[r]

SourceInv == SourceTyped /\ \A r \in Requests : Loaded(r) /\ Reads(r)

LEMMA LowerOf ==
    ASSUME NEW x \in Nat, NEW y \in Nat
    PROVE  Min({x, y}) = IF x <= y THEN x ELSE y
<1>1. \A z \in {x, y} : (\A w \in {x, y} : z <= w) => z = IF x <= y THEN x ELSE y
  OBVIOUS
<1>2. \E z \in {x, y} : \A w \in {x, y} : z <= w
  OBVIOUS
<1> QED BY <1>1, <1>2 DEF Min

(* A page goes on where what was shown before it ends, and is the end of   *)
(* the list when it is not full.                                            *)
LEMMA PageEntries ==
    ASSUME SourceTyped, NEW a \in Accounts, NEW n \in Nat
    PROVE  /\ Shown(a, n) \cup {[account |-> a, id |-> Page(a, n)[i]] : i \in DOMAIN Page(a, n)}
                = Shown(a, n + PageSize)
           /\ LastPage(Page(a, n)) => Len(catalog[a]) <= n + PageSize
           /\ \A i \in DOMAIN Page(a, n) : Page(a, n)[i] \in Nat
<1> DEFINE list == catalog[a]
           last == IF n + PageSize <= Len(list) THEN n + PageSize ELSE Len(list)
           page == Page(a, n)
<1>1. list \in Seq(Nat) /\ PageSize \in Nat /\ PageSize # 0
  BY RommSourceAssumption DEF SourceTyped
<1>2. Len(list) \in Nat /\ n + PageSize \in Nat
  BY <1>1
<1>3. Min({n + PageSize, Len(list)}) = last
  BY <1>2, LowerOf
<1>4. page = SubSeq(list, n + 1, last)
  BY <1>3 DEF Page
<1> HIDE DEF page, list
<1>5. /\ page \in Seq(Nat)
      /\ \A i \in DOMAIN page : page[i] = list[n + i] /\ n + i \in DOMAIN list /\ n + i <= n + PageSize
      /\ \A i \in DOMAIN list : i <= n + PageSize /\ ~(i <= n) => i - n \in DOMAIN page /\ n + (i - n) = i
      /\ Len(page) < PageSize => Len(list) <= n + PageSize
  <2>1. last \in Nat /\ last <= Len(list) /\ last <= n + PageSize
    BY <1>1
  <2>2. last < n + PageSize => last = Len(list)
    BY <1>1
  <2>3. \A i \in DOMAIN list : i <= n + PageSize => i <= last
    BY <1>1
  <2> HIDE DEF last
  <2>4. page \in Seq(Nat)
    BY <1>1, <1>4, <2>1
  <2>5. Len(page) = IF n + 1 <= last THEN last - n ELSE 0
    BY <1>1, <1>4, <2>1
  <2>6. \A i \in 1..Len(page) : page[i] = list[n + i]
    BY <1>1, <1>4, <2>1
  <2>7. \A i \in 1..Len(page) : n + i \in 1..Len(list) /\ n + i <= n + PageSize
    <3>1. TAKE i \in 1..Len(page)
    <3>2. Len(page) \in Nat /\ i \in Nat /\ 1 <= i /\ i <= Len(page)
      BY <2>4
    <3>3. i <= last - n
      BY <1>1, <2>1, <2>5, <3>2
    <3>4. n + i <= last /\ 1 <= n + i /\ n + i \in Nat
      BY <1>1, <2>1, <3>2, <3>3
    <3> QED BY <1>1, <2>1, <3>4
  <2>8. ASSUME NEW i \in DOMAIN list, i <= n + PageSize, ~(i <= n)
        PROVE i - n \in DOMAIN page /\ n + (i - n) = i
    <3>1. i \in 1..Len(list) /\ i <= last
      BY <1>1, <2>3, <2>8
    <3>2. i - n \in 1..Len(page) /\ n + (i - n) = i
      BY <1>1, <2>1, <2>5, <2>8, <3>1
    <3> QED BY <2>4, <3>2
  <2>9. Len(page) < PageSize => Len(list) <= n + PageSize
    BY <1>1, <2>1, <2>2, <2>5
  <2>10. \A i \in DOMAIN page : page[i] = list[n + i] /\ n + i \in DOMAIN list /\ n + i <= n + PageSize
    BY <1>1, <2>4, <2>6, <2>7
  <2> QED BY <2>4, <2>8, <2>9, <2>10
<1>6. LastPage(page) => Len(list) <= n + PageSize
  BY <1>5 DEF LastPage
<1> DEFINE Entry(i) == [account |-> a, id |-> list[i]]
           Upto(m) == {i \in DOMAIN list : i <= m}
           new == {[account |-> a, id |-> page[i]] : i \in DOMAIN page}
<1>7. new = {Entry(n + i) : i \in DOMAIN page}
  BY <1>5
<1> HIDE DEF Entry
<1>8. {Entry(i) : i \in Upto(n)} \cup {Entry(n + i) : i \in DOMAIN page} = {Entry(i) : i \in Upto(n + PageSize)}
  <2>1. ASSUME NEW i \in DOMAIN page PROVE n + i \in Upto(n + PageSize)
    BY <1>5
  <2>2. ASSUME NEW i \in Upto(n + PageSize), i \notin Upto(n)
        PROVE \E k \in DOMAIN page : n + k = i
    BY <1>5, <2>2
  <2>3. Upto(n) \subseteq Upto(n + PageSize)
    BY <1>1
  <2> HIDE DEF Upto
  <2> QED BY <2>1, <2>2, <2>3
<1>9. /\ Shown(a, n) = {Entry(i) : i \in Upto(n)}
      /\ Shown(a, n + PageSize) = {Entry(i) : i \in Upto(n + PageSize)}
  BY DEF Shown, Entry, list
<1>10. Shown(a, n) \cup new = Shown(a, n + PageSize)
  BY <1>7, <1>8, <1>9
<1>11. \A i \in DOMAIN page : page[i] \in Nat
  <2>1. page \in [DOMAIN page -> Nat]
    BY <1>5
  <2> QED BY <2>1
<1> QED BY <1>6, <1>10, <1>11 DEF page, list

-----------------------------------------------------------------------------
(* A request leaves the others alone, and the server that is read. *)
Untouched(k) ==
    /\ at'[k] = at[k] /\ own'[k] = own[k] /\ bearer'[k] = bearer[k]
    /\ games'[k] = games[k] /\ offset'[k] = offset[k] /\ steady'[k] = steady[k]

LEMMA LocalStep ==
    ASSUME SourceInv, NEW r \in Requests, SourceTyped', UNCHANGED catalog, \A k \in Requests \ {r} : Untouched(k),
           Loaded(r)', Reads(r)'
    PROVE  SourceInv'
<1>1. ASSUME NEW k \in Requests \ {r} PROVE Loaded(k)' /\ Reads(k)'
  BY DEF SourceInv, Untouched, Loaded, Reads, Shown
<1> QED BY <1>1 DEF SourceInv

LEMMA SourceInvInit == ASSUME SourceInit PROVE SourceInv
<1>1. SourceTyped
  BY RommSourceAssumption DEF SourceInit, SourceTyped, IndexType, NoIndex, NoToken, NoSettings, RequestSteps, Tasks
<1>2. ASSUME NEW r \in Requests PROVE Loaded(r) /\ Reads(r)
  BY DEF SourceInit, Loaded, Reads
<1> QED BY <1>1, <1>2 DEF SourceInv

(* A request that ends forgets what it held. *)
LEMMA FinishKeeps ==
    ASSUME SourceInv, NEW r \in Requests, EndRequest(r), UNCHANGED catalog,
           settings' = settings, cache' \in {cache, NoToken}, UNCHANGED <<accepted, granted>>,
           index' = index \/ index' = [stored |-> TRUE, games |-> games[r]]
    PROVE  SourceInv'
<1>a. index' \in IndexType /\ (index'.stored \/ index'.games = {})
  <2>1. CASE index' = index
    BY <2>1 DEF SourceInv, SourceTyped
  <2>2. CASE index' = [stored |-> TRUE, games |-> games[r]]
    <3>1. games[r] \in SUBSET RemoteGame
      BY DEF SourceInv, SourceTyped
    <3>2. index'.stored = TRUE /\ TRUE \in BOOLEAN
      BY <2>2
    <3> QED BY <2>2, <3>1, <3>2, Zenon DEF IndexType
  <2> QED BY <2>1, <2>2
<1>1. SourceTyped'
  BY <1>a DEF SourceInv, SourceTyped, EndRequest, NoSettings, NoToken, RequestSteps, Tasks
<1>2. \A k \in Requests \ {r} : Untouched(k)
  BY DEF SourceInv, SourceTyped, EndRequest, Untouched
<1>3. Loaded(r)' /\ Reads(r)'
  BY DEF SourceInv, SourceTyped, EndRequest, Loaded, Reads
<1> QED BY <1>1, <1>2, <1>3, LocalStep

(* Nor does a step that only moves on. *)
LEMMA MoveKeeps ==
    ASSUME SourceInv, NEW r \in Requests, NEW to \in RequestSteps, at' = [at EXCEPT ![r] = to],
           to \notin {"call", "idle", "replace"},
           to \in {"auth", "ask", "refused", "store"} => own[r] \in Settings,
           task' \in [Requests -> Tasks \cup {"none"}],
           UNCHANGED <<catalog, accepted, granted, cache, own, bearer, games, offset, steady>>,
           settings' \in Settings \cup {NoSettings}, index' \in {index, NoIndex}
    PROVE  SourceInv'
<1>a. index' \in IndexType /\ (index'.stored \/ index'.games = {})
  <2>1. CASE index' = index
    BY <2>1 DEF SourceInv, SourceTyped
  <2>2. CASE index' = NoIndex
    <3>1. {} \in SUBSET RemoteGame /\ FALSE \in BOOLEAN
      OBVIOUS
    <3>2. index'.games = {}
      BY <2>2 DEF NoIndex
    <3> QED BY <2>2, <3>1, <3>2, Zenon DEF IndexType, NoIndex
  <2> QED BY <2>1, <2>2
<1>1. SourceTyped'
  BY <1>a DEF SourceInv, SourceTyped
<1>2. at'[r] = to /\ \A k \in Requests \ {r} : Untouched(k)
  BY DEF SourceInv, SourceTyped, Untouched
<1>3. Loaded(r)' /\ Reads(r)'
  BY <1>2 DEF SourceInv, Loaded, Reads, Shown
<1> QED BY <1>1, <1>2, <1>3, LocalStep

LEMMA LoadSteps ==
    ASSUME SourceInv, NEW r \in Requests, Load(r) \/ LoadStored(r)
    PROVE  SourceInv'
<1>1. CASE Load(r)
  <2>1. PICK t \in Reading :
          /\ settings # NoSettings /\ at[r] = "idle" /\ at' = [at EXCEPT ![r] = "auth"]
          /\ task' = [task EXCEPT ![r] = t] /\ own' = [own EXCEPT ![r] = settings]
          /\ steady' = [steady EXCEPT ![r] = t = "refresh"]
          /\ UNCHANGED <<settings, index, cache, catalog, accepted, granted, bearer, games, offset>>
    BY <1>1 DEF Load, Go, stored, client, remote
  <2>2. settings \in Settings
    BY <2>1 DEF SourceInv, SourceTyped
  <2>3. SourceTyped'
    BY <2>1 DEF SourceInv, SourceTyped, RequestSteps, Tasks, Reading
  <2>4. at'[r] = "auth" /\ own'[r] = settings /\ \A k \in Requests \ {r} : Untouched(k)
    BY <2>1 DEF SourceInv, SourceTyped, Untouched
  <2>5. games[r] = {} /\ offset[r] = 0
    BY <2>1 DEF SourceInv, Loaded
  <2>6. settings.account \in Accounts
    BY <2>2 DEF Settings
  <2>7. Shown(settings.account, 0) = {}
    BY <2>6 DEF SourceInv, SourceTyped, Shown
  <2>8. Loaded(r)' /\ Reads(r)'
    BY <2>1, <2>2, <2>4, <2>5, <2>6, <2>7 DEF Loaded, Reads, Shown
  <2> QED BY <2>1, <2>3, <2>4, <2>8, LocalStep
<1>2. CASE LoadStored(r)
  <2>1. PICK s \in Settings :
          /\ at[r] = "idle" /\ at' = [at EXCEPT ![r] = "store"] /\ own' = [own EXCEPT ![r] = s]
          /\ task' = [task EXCEPT ![r] = IF settings = s THEN "save" ELSE "reset"]
          /\ UNCHANGED <<settings, index, cache, catalog, accepted, granted, bearer, games, offset, steady>>
    BY <1>2 DEF LoadStored, Go, stored, client, remote
  <2>2. SourceTyped'
    BY <2>1 DEF SourceInv, SourceTyped, RequestSteps, Tasks
  <2>3. at'[r] = "store" /\ own'[r] = s /\ \A k \in Requests \ {r} : Untouched(k)
    BY <2>1 DEF SourceInv, SourceTyped, Untouched
  <2>4. games[r] = {} /\ ~steady[r]
    BY <2>1 DEF SourceInv, Loaded
  <2>5. Loaded(r)' /\ Reads(r)'
    BY <2>1, <2>3, <2>4 DEF Loaded, Reads
  <2> QED BY <2>1, <2>2, <2>3, <2>5, LocalStep
<1> QED BY <1>1, <1>2

(* The token of a call is one that was granted to the account of r. *)
LEMMA TokenSteps ==
    ASSUME SourceInv, NEW r \in Requests, Authorize(r) \/ Grant(r)
    PROVE  SourceInv'
<1>1. /\ SourceTyped /\ Loaded(r) /\ Reads(r) /\ own[r] \in Settings /\ own[r].account \in Accounts
      /\ UNCHANGED <<settings, index, catalog, task, own, games, offset, steady>>
  BY DEF SourceInv, Loaded, Authorize, Grant, Go, Settings, stored, client, remote
<1>2. CASE at' = [at EXCEPT ![r] = "ask"] /\ UNCHANGED <<cache, accepted, granted, bearer>>
  BY <1>1, <1>2, MoveKeeps DEF RequestSteps, SourceTyped
<1>3. CASE \E t \in Token \cup {NoToken} :
             /\ t = NoToken \/ t.account = own[r].account
             /\ at' = [at EXCEPT ![r] = "call"] /\ bearer' = [bearer EXCEPT ![r] = t]
             /\ cache' \in Token \cup {NoToken} /\ accepted' \subseteq Token /\ granted' \in 0..MaxTokens
  <2>1. PICK t \in Token \cup {NoToken} :
             /\ t = NoToken \/ t.account = own[r].account
             /\ at' = [at EXCEPT ![r] = "call"] /\ bearer' = [bearer EXCEPT ![r] = t]
             /\ cache' \in Token \cup {NoToken} /\ accepted' \subseteq Token /\ granted' \in 0..MaxTokens
    BY <1>3
  <2>2. SourceTyped'
    BY <1>1, <2>1 DEF SourceTyped, RequestSteps
  <2>3. at'[r] = "call" /\ bearer'[r] = t /\ \A k \in Requests \ {r} : Untouched(k)
    BY <1>1, <2>1 DEF SourceTyped, Untouched
  <2>4. at[r] # "idle"
    BY DEF Authorize, Grant, Go
  <2>5. Loaded(r)' /\ Reads(r)'
    BY <1>1, <2>1, <2>3 DEF Loaded, Reads, Shown
  <2> QED BY <1>1, <2>2, <2>3, <2>5, LocalStep
<1>4. CASE Authorize(r)
  <2>1. /\ UNCHANGED <<cache, accepted, granted>>
        /\ \/ at' = [at EXCEPT ![r] = "ask"] /\ UNCHANGED bearer
           \/ /\ at' = [at EXCEPT ![r] = "call"]
              /\ \/ bearer' = [bearer EXCEPT ![r] = cache] /\ cache.account = own[r].account
                 \/ bearer' = [bearer EXCEPT ![r] = NoToken]
    BY <1>4 DEF Authorize, Go, Cached, client, remote
  <2> QED BY <1>1, <1>2, <1>3, <2>1 DEF SourceTyped
<1>5. CASE Grant(r)
  <2> DEFINE t == [account |-> own[r].account, n |-> granted + 1]
  <2>1. /\ granted < MaxTokens /\ granted' = granted + 1 /\ accepted' = accepted \cup {t}
        /\ at' = [at EXCEPT ![r] = "call"] /\ cache' = t /\ bearer' = [bearer EXCEPT ![r] = t]
    BY <1>5 DEF Grant, Go
  <2>2. granted + 1 \in 1..MaxTokens /\ granted + 1 \in 0..MaxTokens
    BY <1>1, <2>1, RommSourceAssumption DEF SourceTyped
  <2>3. t \in Token /\ t.account = own[r].account
    BY <1>1, <2>2 DEF Token
  <2>4. accepted' \subseteq Token
    BY <1>1, <2>1, <2>3 DEF SourceTyped
  <2> HIDE DEF t
  <2> QED BY <1>3, <2>1, <2>2, <2>3, <2>4
<1> QED BY <1>4, <1>5

-----------------------------------------------------------------------------
(* The requests that end: what is left of them is an index, if anything.   *)
LEMMA EndSteps ==
    ASSUME SourceInv, NEW r \in Requests, Abandon(r) \/ ForgetRefused(r) \/ ReplaceIndex(r) \/ ForgetToken(r)
    PROVE  SourceInv'
<1>1. CASE Abandon(r)
  BY <1>1, FinishKeeps DEF Abandon, stored, client, remote
<1>2. CASE ForgetRefused(r)
  BY <1>2, FinishKeeps DEF ForgetRefused, stored, remote
<1>3. CASE ReplaceIndex(r)
  BY <1>3, FinishKeeps DEF ReplaceIndex, client, remote
<1>4. CASE ForgetToken(r)
  BY <1>4, FinishKeeps DEF ForgetToken, stored, remote
<1> QED BY <1>1, <1>2, <1>3, <1>4

(* An answer that is no page of the list. *)
LEMMA AnswerSteps ==
    ASSUME SourceInv, NEW r \in Requests, Refuse(r) \/ Answer(r)
    PROVE  SourceInv'
<1>1. /\ at[r] = "call" /\ own[r] \in Settings /\ task \in [Requests -> Tasks \cup {"none"}]
      /\ UNCHANGED <<settings, index, cache, catalog, accepted, granted>>
      /\ settings \in Settings \cup {NoSettings}
  BY DEF SourceInv, SourceTyped, Loaded, Refuse, Answer, Answers, stored, client, remote
<1>2. CASE EndRequest(r)
  BY <1>1, <1>2, FinishKeeps
<1>3. CASE \E to \in {"refused", "auth"} : at' = [at EXCEPT ![r] = to]
  <2>1. CASE ~ EndRequest(r)
    <3>1. UNCHANGED <<own, bearer, games, offset, steady>>
      BY <2>1 DEF Refuse, Answer, Keep
    <3>2. task' \in [Requests -> Tasks \cup {"none"}]
      BY <1>1, <2>1 DEF Refuse, Answer, Keep, Tasks
    <3> QED BY <1>1, <1>3, <3>1, <3>2, MoveKeeps DEF RequestSteps
  <2> QED BY <1>2, <2>1
<1>4. EndRequest(r) \/ \E to \in {"refused", "auth"} : at' = [at EXCEPT ![r] = to]
  BY DEF Refuse, Answer, Go
<1> QED BY <1>2, <1>3, <1>4

(* Saving and clearing the settings disturbs no request that is at work. *)
LEMMA SettingSteps ==
    ASSUME SourceInv, NEW r \in Requests, Save(r) \/ Clear(r)
    PROVE  SourceInv'
<1>1. /\ settings \in Settings \cup {NoSettings} /\ task \in [Requests -> Tasks \cup {"none"}]
      /\ at[r] = "store" => own[r] \in Settings
  BY DEF SourceInv, SourceTyped, Loaded
<1>2. /\ at' = [at EXCEPT ![r] = "forget"] /\ "forget" \in RequestSteps
      /\ UNCHANGED <<catalog, accepted, granted, cache, own, bearer, games, offset, steady>>
  BY DEF Save, Clear, Go, Keep, client, remote, RequestSteps
<1>3. settings' \in Settings \cup {NoSettings} /\ index' \in {index, NoIndex}
  BY <1>1 DEF Save, Clear, Go
<1>4. task' \in [Requests -> Tasks \cup {"none"}]
  BY <1>1 DEF Save, Clear, Keep, Tasks
<1> QED BY <1>2, <1>3, <1>4, MoveKeeps

(* A page is added to what was read, or the refresh is given up. *)
LEMMA PageStep ==
    ASSUME SourceInv, NEW r \in Requests, AnswerPage(r)
    PROVE  SourceInv'
<1> DEFINE a == own[r].account
           page == Page(a, offset[r])
           new == {[account |-> a, id |-> page[i]] : i \in DOMAIN page}
           to == IF LastPage(page) THEN "replace" ELSE "auth"
<1>1. /\ SourceTyped /\ Loaded(r) /\ Reads(r) /\ at[r] = "call"
      /\ UNCHANGED <<settings, index, cache, catalog, accepted, granted>>
  BY DEF SourceInv, AnswerPage, Answers, stored, client, remote
<1>2. own[r] \in Settings /\ a \in Accounts /\ offset[r] \in Nat
  BY <1>1 DEF Loaded, Settings, SourceTyped
<1>3. CASE EndRequest(r)
  BY <1>1, <1>3, FinishKeeps
<1>4. CASE ~ EndRequest(r)
  <2>1. /\ games' = [games EXCEPT ![r] = games[r] \cup new]
        /\ offset' = [offset EXCEPT ![r] = offset[r] + PageSize]
        /\ at' = [at EXCEPT ![r] = to]
        /\ UNCHANGED <<task, own, bearer, steady>>
    BY <1>1, <1>4 DEF AnswerPage, Source, SourceTyped
  <2>2. /\ Shown(a, offset[r]) \cup new = Shown(a, offset[r] + PageSize)
        /\ LastPage(page) => Len(catalog[a]) <= offset[r] + PageSize
        /\ \A i \in DOMAIN page : page[i] \in Nat
    BY <1>1, <1>2, PageEntries
  <2> HIDE DEF page
  <2>3. new \subseteq RemoteGame /\ \A g \in new : g.account = a
    BY <1>2, <2>2 DEF RemoteGame
  <2>4. to \in RequestSteps /\ to \notin {"idle", "call"} /\ (to = "replace" => LastPage(page))
    BY DEF RequestSteps
  <2> HIDE DEF new, to
  <2>5. offset[r] + PageSize \in Nat
    BY <1>2, RommSourceAssumption
  <2>6. games[r] \cup new \in SUBSET RemoteGame
    BY <1>1, <2>3 DEF SourceTyped
  <2>7. SourceTyped'
    BY <1>1, <2>1, <2>4, <2>5, <2>6 DEF SourceTyped
  <2>8. /\ at'[r] = to /\ games'[r] = games[r] \cup new /\ offset'[r] = offset[r] + PageSize
        /\ \A k \in Requests \ {r} : Untouched(k)
    BY <1>1, <2>1 DEF SourceTyped, Untouched
  <2>9. Loaded(r)'
    BY <1>1, <1>2, <2>1, <2>3, <2>4, <2>8 DEF Loaded
  <2>10. Reads(r)'
    <3>1. SUFFICES ASSUME steady[r]
                   PROVE  /\ games'[r] = Shown(a, offset'[r])
                          /\ at'[r] = "replace" => Len(catalog[a]) <= offset'[r]
      BY <1>1, <1>2, <2>1 DEF Reads, Shown
    <3>2. games[r] = Shown(a, offset[r])
      BY <1>1, <3>1 DEF Reads
    <3> QED BY <2>2, <2>4, <2>8, <3>2
  <2> QED BY <1>1, <2>7, <2>8, <2>9, <2>10, LocalStep
<1> QED BY <1>3, <1>4

-----------------------------------------------------------------------------
(* The servers and the clock. *)
LEMMA OutsideSteps ==
    ASSUME SourceInv, ChangeCatalog \/ Revoke \/ Expire
    PROVE  SourceInv'
<1>1. CASE ChangeCatalog
  <2>1. PICK a \in Accounts : \E c \in Catalogs[a] \ {catalog[a]} :
          /\ catalog' = [catalog EXCEPT ![a] = c]
          /\ steady' = [r \in Requests |-> steady[r] /\ own[r].account # a]
          /\ UNCHANGED <<settings, index, cache, accepted, granted, at, task, own, bearer, games, offset>>
    BY <1>1 DEF ChangeCatalog, stored, client
  <2>2. PICK c \in Catalogs[a] : catalog' = [catalog EXCEPT ![a] = c]
    BY <2>1
  <2>3. c \in Seq(Nat)
    BY RommSourceAssumption
  <2>4. steady' \in [Requests -> BOOLEAN]
    BY <2>1, Zenon
  <2>5. SourceTyped'
    BY <2>1, <2>2, <2>3, <2>4 DEF SourceInv, SourceTyped
  <2>6. ASSUME NEW r \in Requests PROVE Loaded(r)' /\ Reads(r)'
    <3>1. steady'[r] => steady[r] /\ own[r].account # a
      BY <2>1
    <3>2. steady'[r] => own[r].account \in Accounts /\ catalog'[own[r].account] = catalog[own[r].account]
      BY <2>2, <3>1 DEF SourceInv, SourceTyped, Reads
    <3>3. Loaded(r)'
      BY <2>1, <3>1 DEF SourceInv, Loaded
    <3> QED BY <2>1, <3>1, <3>2, <3>3 DEF SourceInv, Reads, Shown
  <2> QED BY <2>5, <2>6 DEF SourceInv
<1>2. CASE Revoke \/ Expire
  <2>1. /\ UNCHANGED <<settings, index, catalog, granted, at, task, own, bearer, games, offset, steady>>
        /\ accepted' \subseteq accepted /\ cache' \in {cache, NoToken}
    BY <1>2 DEF Revoke, Expire, Keep, stored, client, remote
  <2>2. SourceTyped'
    BY <2>1 DEF SourceInv, SourceTyped
  <2>3. ASSUME NEW r \in Requests PROVE Loaded(r)' /\ Reads(r)'
    BY <2>1 DEF SourceInv, Loaded, Reads, Shown
  <2> QED BY <2>2, <2>3 DEF SourceInv
<1> QED BY <1>1, <1>2

LEMMA RestartStep == ASSUME SourceInv, Restart PROVE SourceInv'
<1>1. SourceTyped'
  BY DEF SourceInv, SourceTyped, Restart, stored, remote, RequestSteps, Tasks
<1>2. ASSUME NEW r \in Requests PROVE Loaded(r)' /\ Reads(r)'
  BY DEF Restart, Loaded, Reads
<1> QED BY <1>1, <1>2 DEF SourceInv

LEMMA SourceInvStep == ASSUME SourceInv, [SourceNext]_sourceVars PROVE SourceInv'
<1>1. ASSUME NEW r \in Requests, RequestStep(r) PROVE SourceInv'
  BY <1>1, LoadSteps, TokenSteps, EndSteps, AnswerSteps, PageStep, SettingSteps DEF RequestStep
<1>2. CASE UNCHANGED sourceVars
  BY <1>2 DEF SourceInv, SourceTyped, Loaded, Reads, Shown, sourceVars, stored, client, remote
<1> QED BY <1>1, <1>2, OutsideSteps, RestartStep DEF SourceNext

LEMMA SourceInvHolds == SourceSpec => []SourceInv
<1> QED BY SourceInvInit, SourceInvStep, PTL DEF SourceSpec

-----------------------------------------------------------------------------
(* Every variable keeps its type, and an index that is not stored is empty. *)
THEOREM RommSourceTyping == SourceSpec => []SourceTypeOK
<1>1. SourceInv => SourceTypeOK
  BY DEF SourceInv, SourceTyped, SourceTypeOK, IndexType, RequestSteps
<1> QED BY <1>1, SourceInvHolds, PTL

(* romm_source/client.rs: whatever settings the requests at work loaded and *)
(* whenever the shared token is granted, refused, forgotten or expires, a   *)
(* request sends a token only to the server, and as the user, it belongs to.*)
THEOREM RommSourceTokens == SourceSpec => []TokensStayHome
<1>1. SourceInv => TokensStayHome
  BY DEF SourceInv, Loaded, TokensStayHome
<1> QED BY <1>1, SourceInvHolds, PTL

(* romm_source/catalog.rs: the index a refresh stores holds the games of one*)
(* server, and all of its list if the list did not change while it was read,*)
(* for every list, page size and order of the requests.                     *)
THEOREM RommSourceSnapshots == SourceSpec => SnapshotsAreTrue
<1>1. ASSUME SourceInv, [SourceNext]_sourceVars, NEW r \in Requests, ReplaceIndex(r)
      PROVE  /\ \A g \in index'.games : g.account = own[r].account
             /\ steady[r] => index'.games = Listing(own[r].account)
  <2>1. index'.games = games[r] /\ at[r] = "replace" /\ Loaded(r) /\ Reads(r)
    BY <1>1 DEF ReplaceIndex, SourceInv
  <2>2. ASSUME steady[r] PROVE games[r] = Listing(own[r].account)
    <3> DEFINE a == own[r].account
    <3>1. games[r] = Shown(a, offset[r]) /\ Len(catalog[a]) <= offset[r] /\ a \in Accounts
      BY <2>1, <2>2 DEF Reads
    <3>2. catalog[a] \in Seq(Nat) /\ offset[r] \in Nat
      BY <1>1, <3>1 DEF SourceInv, SourceTyped
    <3>3. {i \in DOMAIN catalog[a] : i <= offset[r]} = DOMAIN catalog[a]
      BY <3>1, <3>2
    <3> QED BY <3>1, <3>3 DEF Shown, Listing
  <2> QED BY <2>1, <2>2 DEF Loaded
<1>2. SourceInv /\ [SourceNext]_sourceVars => [\A r \in Requests : ReplaceIndex(r) =>
          /\ \A g \in index'.games : g.account = own[r].account
          /\ steady[r] => index'.games = Listing(own[r].account)]_sourceVars
  BY <1>1
<1> QED BY <1>2, SourceInvHolds, PTL DEF SourceSpec, SnapshotsAreTrue
=============================================================================
