---------------------------- MODULE JobRegistry ----------------------------
(* The task that supervises each admitted job (library scans and RomM       *)
(* imports): it starts the job, waits for an upload permit if the job needs *)
(* one, spawns the workflow, attaches its abort handle to the record and    *)
(* reports how the workflow ended, while administrators cancel at any       *)
(* moment.  The records are those of JobRecords; the workflow itself is a   *)
(* module of its own (RommImports), which composes its steps with these     *)
(* actions.                                                                 *)
EXTENDS JobRecords

CONSTANTS
    Admissible,    \* the jobs whose workflow waits for an upload permit
    Permits        \* upload permits

ASSUME JobsAssumption == Admissible \subseteq Jobs /\ Permits \in Nat \ {0}

VARIABLES
    sup,        \* sup[j]: where the supervisor of j is
    work,       \* work[j]: the workflow task of j
    met         \* ghost: met[j]: the jobs that held a permit together with j

registryVars == <<recordVars, sup, work, met>>

Alive == {"running", "aborting"}

RegistryTypeOK ==
    /\ RecordsTypeOK
    /\ sup \in [Jobs -> {"none", "start", "permit", "spawn", "attach", "wait", "gone"}]
    /\ work \in [Jobs -> {"none", "ok", "failed", "stopped"} \cup Alive]
    /\ met \in [Jobs -> SUBSET Jobs]

RegistryInit ==
    /\ RecordsInit
    /\ sup = [j \in Jobs |-> "none"]
    /\ work = [j \in Jobs |-> "none"]
    /\ met = [j \in Jobs |-> {}]

-----------------------------------------------------------------------------
(* Requests *)

Reserve(j) ==
    /\ state[j] = "absent"
    /\ PruneAfter([state EXCEPT ![j] = "queued"], phase, ended)
    /\ sup' = [sup EXCEPT ![j] = "start"]
    /\ UNCHANGED <<handle, work, met>>

Snapshot == Poll /\ UNCHANGED <<sup, work, met>>

(* cancel marks the record, aborts through the handle it takes from it, and *)
(* prunes.  (The registry is unlocked for the abort; only the number of     *)
(* records could tell.)                                                     *)
Cancel(j) ==
    /\ MarkCancelled(j)
    /\ work' = [work EXCEPT ![j] = IF handle[j] /\ @ = "running" THEN "aborting" ELSE @]
    /\ UNCHANGED <<sup, met>>

-----------------------------------------------------------------------------
(* The supervisor of a job *)

SupStep(j, from, to) == sup[j] = from /\ sup' = [sup EXCEPT ![j] = to]

(* start: a cancelled or unknown job is not run. *)
StartJob(j) ==
    \/ /\ state[j] = "queued"
       /\ SupStep(j, "start", IF j \in Admissible THEN "permit" ELSE "spawn")
       /\ state' = [state EXCEPT ![j] = "running"]
       /\ UNCHANGED <<phase, handle, ended, work, met>>
    \/ /\ state[j] # "queued"
       /\ SupStep(j, "start", "gone")
       /\ UNCHANGED <<recordVars, work, met>>

MutHeldTooShort == {j \in Admissible : sup[j] \in {"spawn", "attach"}}
Holders == {j \in Admissible : sup[j] \in {"spawn", "attach", "wait"}}

TakePermit(j) ==
    /\ Cardinality(Holders) < Permits
    /\ SupStep(j, "permit", "spawn")
    /\ met' = [k \in Jobs |-> IF k = j THEN met[j] \cup Holders
                             ELSE IF k \in Holders THEN met[k] \cup {j} ELSE met[k]]
    /\ UNCHANGED <<recordVars, work>>

Spawn(j) ==
    /\ SupStep(j, "spawn", "attach")
    /\ work' = [work EXCEPT ![j] = "running"]
    /\ UNCHANGED <<recordVars, met>>

(* attach_abort_handle: a job cancelled meanwhile is aborted at once; one   *)
(* that is no longer known is an error, which is only logged.               *)
MutAttachRegardless(j) == FALSE
CancelledMeanwhile(j) == IsTerminal(j)

Attach(j) ==
    /\ SupStep(j, "attach", "wait")
    /\ \/ /\ CancelledMeanwhile(j)
          /\ work' = [work EXCEPT ![j] = IF @ = "running" THEN "aborting" ELSE @]
          /\ UNCHANGED handle
       \/ /\ ~CancelledMeanwhile(j)
          /\ handle' = [handle EXCEPT ![j] = Known(j)]
          /\ UNCHANGED work
    /\ UNCHANGED <<state, phase, ended, met>>

Report(j) ==
    /\ work[j] \in {"ok", "failed", "stopped"}
    /\ SupStep(j, "wait", "gone")
    /\ IF work[j] = "ok" THEN Succeed(j) ELSE Fail(j)
    /\ UNCHANGED <<work, met>>

-----------------------------------------------------------------------------
(* What a workflow does to its record *)

(* The workflow returns with a result or an error, even when an abort has   *)
(* been requested that it has not reached an await for, ...                 *)
Return(j, result) == work' = [work EXCEPT ![j] = result]

(* ... or it is dropped at an await once it was aborted.                    *)
Stop(j) ==
    /\ work[j] = "aborting"
    /\ work' = [work EXCEPT ![j] = "stopped"]
    /\ UNCHANGED <<recordVars, sup, met>>

-----------------------------------------------------------------------------
Request(j) == Reserve(j) \/ Cancel(j)

Supervise(j) ==
    StartJob(j) \/ TakePermit(j) \/ Spawn(j) \/ Attach(j) \/ Report(j)

-----------------------------------------------------------------------------
(* Properties *)

(* Every supervised job settles.  Once its supervisor waits, cancelling the *)
(* job stops the workflow, even one that would never return by itself; and  *)
(* a workflow that was stopped, failed or succeeded is reported, so that    *)
(* its record is terminal (or evicted as cancelled) when the supervisor     *)
(* gives up its permit.                                                     *)
JobsSettle ==
    \A j \in Jobs :
        sup[j] = "wait" /\ (state[j] = "cancelled" \/ work[j] \notin Alive)
          ~> sup[j] = "gone" /\ work[j] \notin Alive /\ state[j] \in Terminal \cup {"pruned"}
=============================================================================
