----------------------------- MODULE JobRecords -----------------------------
(* The records of one process-local job registry (library scans, RomM       *)
(* imports and conversions have one each): a record is queued, runs through *)
(* phases and becomes terminal once; terminal records are evicted by age    *)
(* and by number.  Every operation is one critical section.                 *)
EXTENDS Naturals, Sequences, FiniteSets, SequencesExt

CONSTANTS
    Jobs,
    Capacity,      \* TERMINAL_CAPACITY
    MaxPhase       \* the largest phase order a workflow publishes

ASSUME RecordsAssumption == IsFiniteSet(Jobs) /\ Capacity \in Nat /\ MaxPhase \in Nat

VARIABLES
    state,      \* state[j]: of the record of j; "absent" before, "pruned" after
    phase,      \* phase[j]: phase_order of the record
    handle,     \* handle[j]: the record holds the abort handle of the workflow
    ended       \* the terminal records, oldest first

recordVars == <<state, phase, handle, ended>>

Terminal == {"succeeded", "failed", "cancelled"}
States == {"absent", "queued", "running", "pruned"} \cup Terminal

(* The states are compared as strings: every one must be among these, and a *)
(* record is terminal exactly if it has a time of its end.                  *)
RecordsTypeOK ==
    /\ state \in [Jobs -> States]
    /\ phase \in [Jobs -> 0..MaxPhase + 1]
    /\ handle \in [Jobs -> BOOLEAN]
    /\ ended \in Seq(Jobs) /\ IsInjective(ended)
    /\ ToSet(ended) = {j \in Jobs : state[j] \in Terminal}

RecordsInit ==
    /\ state = [j \in Jobs |-> "absent"]
    /\ phase = [j \in Jobs |-> 0]
    /\ handle = [j \in Jobs |-> FALSE]
    /\ ended = <<>>

-----------------------------------------------------------------------------
IsTerminal(j) == state[j] \in Terminal
Known(j) == state[j] \notin {"absent", "pruned"}

(* prune: the oldest terminal records beyond the capacity go. *)
Excess(queue) == IF Len(queue) > Capacity THEN Len(queue) - Capacity ELSE 0

Retained(queue) == SubSeq(queue, Excess(queue) + 1, Len(queue))

Pruned(states, queue) ==
    [j \in Jobs |-> IF states[j] \in Terminal /\ ~Contains(Retained(queue), j)
                      THEN "pruned" ELSE states[j]]

(* A record that goes takes its phase along. *)
Phases(states, phases) == [j \in Jobs |-> IF states[j] = "pruned" THEN 0 ELSE phases[j]]

(* prune, after the states and phases of some records changed. *)
PruneAfter(states, phases, queue) ==
    /\ ended' = Retained(queue)
    /\ state' = Pruned(states, queue)
    /\ phase' = Phases(Pruned(states, queue), phases)

(* prune at the start of reserve and snapshot. *)
Prune(queue) == PruneAfter(state, phase, queue)

(* A transition to a terminal state, followed by the prune of that call. *)
End(j, result, phases) ==
    /\ PruneAfter([state EXCEPT ![j] = result], phases, Append(ended, j))
    /\ handle' = [handle EXCEPT ![j] = FALSE]

Unchanged == UNCHANGED recordVars

(* succeed and fail do nothing to a record that is terminal or gone. *)
MutNeverTooLate(j) == FALSE
TooLate(j) == IsTerminal(j) \/ ~Known(j)

Succeed(j) ==
    \/ TooLate(j) /\ Unchanged
    \/ /\ ~TooLate(j) /\ state[j] = "running"
       /\ End(j, "succeeded", [phase EXCEPT ![j] = MaxPhase + 1])

Fail(j) ==
    \/ TooLate(j) /\ Unchanged
    \/ ~TooLate(j) /\ End(j, "failed", phase)

(* cancel marks a job that is not terminal. *)
MarkCancelled(j) ==
    /\ state[j] \in {"queued", "running"}
    /\ End(j, "cancelled", phase)

(* set_phase: an order below the current one, or an unknown job, is an      *)
(* error that the workflow ignores; a terminal record is left alone.        *)
SetPhase(j, order) ==
    phase' = [phase EXCEPT ![j] = IF state[j] = "running" /\ order > @ THEN order ELSE @]

(* A poll prunes: what is beyond the capacity, and the oldest record when   *)
(* its hour is over.                                                        *)
Poll ==
    /\ ended # <<>>
    /\ Prune(ended) \/ Prune(Tail(ended))
    /\ UNCHANGED handle

-----------------------------------------------------------------------------
(* Whoever races with whom (cancel, the report of the supervisor, a late    *)
(* phase of the workflow), a terminal snapshot is final until it is evicted. *)
TerminalIsFinal ==
    [][\A j \in Jobs : IsTerminal(j) =>
          /\ state'[j] \in {state[j], "pruned"}
          /\ state'[j] = state[j] => phase'[j] = phase[j]]_recordVars
=============================================================================
