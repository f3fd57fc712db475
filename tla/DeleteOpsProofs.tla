-------------------------- MODULE DeleteOpsProofs --------------------------
(* Proofs about DeleteOps, for any number of requests, games, files, roots  *)
(* and folders: what lies in the trash is journaled, and no game loses a    *)
(* file as long as its paths were no other game's.                          *)
EXTENDS DeleteOps, FiniteSetTheorems, TLAPS

(* Writing to the journal keeps it a journal. *)
LEMMA JournalTyping ==
    ASSUME NEW j \in [Deletes -> JournalStates], NEW op, NEW st \in JournalStates
    PROVE  /\ CreateRow(j, op) \in [Deletes -> JournalStates]
           /\ SetState(j, op, st) \in [Deletes -> JournalStates]
           /\ SetStateTx(j, op, st) \in [Deletes -> JournalStates]
BY DEF CreateRow, SetState, SetStateTx, JournalStates

LEMMA StatesOfRows ==
    {"prepared", "failed", "completed", "cleanup_pending", "db_committed"} \subseteq JournalStates
BY DEF JournalStates

LEMMA FaultTyping ==
    ASSUME TypeOK, Fault \/ NoFault PROVE faults' \in 0..MaxFaults
BY DeletesAssumption DEF TypeOK, Fault, NoFault

(* Moving entries keeps the disk and the trash typed. *)
LEMMA ToTrashTyping ==
    ASSUME TypeOK, NEW d \in Deletes, NEW unit \in Units, ToTrash(d, unit)
    PROVE  /\ disk' \in [Paths -> Contents]
           /\ trash' \in [Deletes -> [Units -> [Paths -> Contents]]]
<1>1. \A p \in Paths : disk[p] \in Contents
  BY DEF TypeOK
<1>2. "none" \in Contents
  BY DEF Contents
<1>3. disk' \in [Paths -> Contents]
  BY <1>1, <1>2 DEF ToTrash
<1>4. [p \in Paths |-> IF p \in Members(unit) THEN disk[p] ELSE "none"] \in [Paths -> Contents]
  BY <1>1, <1>2
<1> QED BY <1>3, <1>4 DEF ToTrash, TypeOK

LEMMA EmptyTrashTyping ==
    ASSUME TypeOK, NEW d \in Deletes, NEW units, EmptyTrash(d, units)
    PROVE  trash' \in [Deletes -> [Units -> [Paths -> Contents]]]
<1>1. Empty \in [Paths -> Contents]
  BY DEF Empty, Contents
<1>2. [unit \in Units |-> IF unit \in units THEN Empty ELSE trash[d][unit]] \in [Units -> [Paths -> Contents]]
  BY <1>1 DEF TypeOK
<1> QED BY <1>2 DEF EmptyTrash, TypeOK

LEMMA FromTrashTyping ==
    ASSUME TypeOK, NEW d \in Deletes, NEW units \in SUBSET Units, FromTrash(d, units)
    PROVE  /\ disk' \in [Paths -> Contents]
           /\ trash' \in [Deletes -> [Units -> [Paths -> Contents]]]
<1>1. trash' \in [Deletes -> [Units -> [Paths -> Contents]]]
  BY EmptyTrashTyping DEF FromTrash
<1>2. ASSUME NEW p \in Paths, Holding(d, units, p) # {}
      PROVE  trash[d][CHOOSE unit \in Holding(d, units, p) : TRUE][p] \in Contents
  <2>1. (CHOOSE unit \in Holding(d, units, p) : TRUE) \in Holding(d, units, p)
    BY <1>2
  <2>2. Holding(d, units, p) \subseteq Units
    BY DEF Holding
  <2> QED BY <2>1, <2>2 DEF TypeOK
<1>3. \A p \in Paths : disk[p] \in Contents
  BY DEF TypeOK
<1> QED BY <1>1, <1>2, <1>3 DEF FromTrash

LEMMA PlannedUnits ==
    ASSUME TypeOK, NEW d \in Deletes PROVE Candidates(d) \subseteq Units
<1>1. Touched(d) \subseteq Paths
  BY DeletesAssumption DEF Touched, TypeOK
<1> QED BY <1>1 DEF Candidates, Units

LEMMA TypingInit == ASSUME Init PROVE TypeOK
<1>1. Empty \in [Paths -> Contents]
  BY DEF Empty, Contents
<1> QED BY <1>1, DeletesAssumption DEF Init, TypeOK, PCs, Contents, JournalStates

LEMMA LeaveTyping ==
    ASSUME TypeOK, NEW d \in Deletes, Leave(d)
    PROVE  /\ pc' \in [Deletes -> PCs] /\ lock' \in [Roots -> Deletes \cup {Nobody}]
           /\ left' \in [Deletes -> SUBSET Units] /\ dirty' \in [Deletes -> BOOLEAN]
BY DEF Leave, Goto, ReleaseAll, Remaining, TypeOK, PCs

LEMMA HandlerTyping ==
    ASSUME TypeOK, NEW d \in Deletes, Begin(d) \/ Handler(d) \/ Abandon(d)
    PROVE  TypeOK'
<1> USE DEF At, Goto, NoFault, Remaining, PCs
<1>1. CASE Begin(d)
  BY <1>1 DEF Begin, TypeOK
<1>2. CASE LockRoot(d)
  BY <1>2 DEF LockRoot, TypeOK
<1>3. CASE Plan(d)
  <2>1. journal' \in [Deletes -> JournalStates]
    BY <1>3, JournalTyping, StatesOfRows DEF Plan, TypeOK
  <2>2. entries' \in [Deletes -> SUBSET Units] /\ left' \in [Deletes -> SUBSET Units]
    BY <1>3, PlannedUnits DEF Plan, TypeOK
  <2>3. overtaken' \in [Deletes -> SUBSET Paths]
    BY <1>3 DEF Plan, TakenOver, TypeOK
  <2> QED BY <1>3, <2>1, <2>2, <2>3 DEF Plan, TypeOK
<1>4. CASE PlanRejected(d)
  BY <1>4, LeaveTyping, FaultTyping DEF PlanRejected, TypeOK
<1>5. CASE MoveEntry(d)
  <2>1. PICK unit \in left[d] :
          \/ ToTrash(d, unit) /\ Remaining(d, left[d] \ {unit}) /\ UNCHANGED pc
          \/ Remaining(d, entries[d] \ left[d]) /\ Goto(d, "restore") /\ UNCHANGED <<disk, trash>>
    BY <1>5 DEF MoveEntry
  <2>2. unit \in Units
    BY DEF TypeOK
  <2>3. disk' \in [Paths -> Contents] /\ trash' \in [Deletes -> [Units -> [Paths -> Contents]]]
    BY <2>1, <2>2, ToTrashTyping DEF TypeOK
  <2>4. left' \in [Deletes -> SUBSET Units] /\ pc' \in [Deletes -> PCs]
    <3>1. \E units \in SUBSET Units : Remaining(d, units)
      BY <2>1 DEF TypeOK
    <3>2. UNCHANGED pc \/ Goto(d, "restore")
      BY <2>1
    <3>3. left' \in [Deletes -> SUBSET Units]
      BY <3>1 DEF TypeOK, Remaining
    <3>4. pc' \in [Deletes -> PCs]
      BY <3>2 DEF TypeOK, Goto, PCs
    <3> QED BY <3>3, <3>4
  <2>5. faults' \in 0..MaxFaults
    BY <1>5, FaultTyping DEF MoveEntry
  <2> QED BY <1>5, <2>3, <2>4, <2>5 DEF MoveEntry, TypeOK
<1>6. CASE AllMoved(d)
  BY <1>6 DEF AllMoved, TypeOK
<1>7. CASE Commit(d)
  <2>1. journal' \in [Deletes -> JournalStates]
    <3>1. journal' = journal \/ journal' = SetStateTx(journal, d, "db_committed")
      BY <1>7 DEF Commit, DeleteTx
    <3> QED BY <3>1, JournalTyping, StatesOfRows DEF TypeOK
  <2>3. faults' \in 0..MaxFaults
    BY <1>7, FaultTyping DEF Commit
  <2>2. rows' \in [Paths -> Contents] /\ games' \subseteq Games
    BY <1>7 DEF Commit, DeleteTx, Contents, TypeOK
  <2> QED BY <1>7, <2>1, <2>2, <2>3 DEF Commit, TypeOK
<1>8. CASE Restore(d)
  <2>1. PICK unit \in left[d] :
          /\ FromTrash(d, {unit}) \/ UNCHANGED <<disk, trash>>
          /\ Remaining(d, left[d] \ {unit})
    BY <1>8 DEF Restore
  <2>2. {unit} \in SUBSET Units
    BY DEF TypeOK
  <2>3. disk' \in [Paths -> Contents] /\ trash' \in [Deletes -> [Units -> [Paths -> Contents]]]
    BY <2>1, <2>2, FromTrashTyping DEF TypeOK
  <2>4. left' \in [Deletes -> SUBSET Units] /\ faults' \in 0..MaxFaults
    BY <1>8, <2>1, FaultTyping DEF Restore, TypeOK
  <2> QED BY <1>8, <2>3, <2>4 DEF Restore, TypeOK
<1>9. CASE Fail(d)
  <2>1. journal' \in [Deletes -> JournalStates]
    <3>1. journal' = journal \/ journal' = SetState(journal, d, "failed")
      BY <1>9 DEF Fail
    <3> QED BY <3>1, JournalTyping, StatesOfRows DEF TypeOK
  <2>2. faults' \in 0..MaxFaults
    BY <1>9, FaultTyping DEF Fail
  <2> QED BY <1>9, <2>1, <2>2, LeaveTyping DEF Fail, TypeOK
<1>10. CASE Cleanup(d)
  <2>1. PICK unit \in left[d] :
          /\ EmptyTrash(d, {unit}) \/ UNCHANGED trash
          /\ dirty' = dirty \/ dirty' = [dirty EXCEPT ![d] = TRUE]
          /\ Remaining(d, left[d] \ {unit})
    BY <1>10 DEF Cleanup
  <2>2. trash' \in [Deletes -> [Units -> [Paths -> Contents]]]
    BY <2>1, EmptyTrashTyping DEF TypeOK
  <2>3. left' \in [Deletes -> SUBSET Units] /\ dirty' \in [Deletes -> BOOLEAN] /\ faults' \in 0..MaxFaults
    BY <1>10, <2>1, FaultTyping DEF Cleanup, TypeOK
  <2> QED BY <1>10, <2>2, <2>3 DEF Cleanup, TypeOK
<1>11. CASE Finish(d)
  <2>0. journal \in [Deletes -> JournalStates]
    BY DEF TypeOK
  <2>1. journal' = journal \/ \E st \in {"completed", "cleanup_pending"} : journal' = SetState(journal, d, st)
    BY <1>11 DEF Finish
  <2>2. journal' \in [Deletes -> JournalStates]
    BY <2>0, <2>1, JournalTyping, StatesOfRows
  <2>3. faults' \in 0..MaxFaults
    BY <1>11, FaultTyping DEF Finish, TypeOK
  <2> QED BY <1>11, <2>2, <2>3, LeaveTyping DEF Finish, TypeOK
<1>12. CASE Abandon(d)
  BY <1>12, LeaveTyping DEF Abandon, TypeOK
<1> QED
  BY <1>1, <1>2, <1>3, <1>4, <1>5, <1>6, <1>7, <1>8, <1>9, <1>10, <1>11, <1>12 DEF Handler

(* What one operation of the recovery does to files, journal and server. *)
LEMMA ReconcileTyping ==
    ASSUME TypeOK, NEW d \in Deletes,
           RecoverPrepared(d) \/ RecoverCommitted(d) \/ CrashInRecovery(d)
    PROVE  TypeOK'
<1>1. /\ disk' \in [Paths -> Contents]
      /\ trash' \in [Deletes -> [Units -> [Paths -> Contents]]]
  <2>1. \/ UNCHANGED <<disk, trash>>
        \/ UNCHANGED disk /\ \E units : EmptyTrash(d, units)
        \/ \E units \in SUBSET Restorable(d) : FromTrash(d, units)
    BY DEF RecoverPrepared, RecoverCommitted, CrashInRecovery, DiscardTrash, RestoreTrash
  <2>2. SUBSET Restorable(d) \subseteq SUBSET Units
    BY DEF Restorable, TypeOK
  <2> QED BY <2>1, <2>2, EmptyTrashTyping, FromTrashTyping DEF TypeOK
<1>2. /\ journal' \in [Deletes -> JournalStates]
      /\ faults' \in 0..MaxFaults /\ todo' \subseteq Deletes
      /\ server' \in {"up", "down", "recovering"}
  <2>1. \/ Resolved(d) \/ (Unresolved(d) /\ (Fault \/ NoFault))
        \/ Fault /\ server' = "down" /\ todo' = {} /\ UNCHANGED journal
    <3>1. CASE RecoverPrepared(d) \/ RecoverCommitted(d)
      <4>1. DiscardTrash(d) \/ RestoreTrash(d) \/ (Unresolved(d) /\ NoFault)
        <5>1. CASE RecoverPrepared(d)
          BY <5>1 DEF RecoverPrepared
        <5>2. CASE RecoverCommitted(d)
          BY <5>2 DEF RecoverCommitted
        <5> QED BY <3>1, <5>1, <5>2
      <4> QED BY <4>1 DEF DiscardTrash, RestoreTrash
    <3>2. CASE CrashInRecovery(d)
      BY <3>2 DEF CrashInRecovery
    <3> QED BY <3>1, <3>2
  <2>2. /\ journal' = journal \/ \E st \in {"completed", "failed"} : journal' = SetState(journal, d, st)
        /\ Fault \/ NoFault
        /\ todo' \in {{}, todo \ {d}} /\ server' \in {"down", server}
    BY <2>1 DEF Resolved, Unresolved
  <2>3. journal' \in [Deletes -> JournalStates]
    <3>1. journal \in [Deletes -> JournalStates]
      BY DEF TypeOK
    <3> QED BY <2>2, <3>1, JournalTyping, StatesOfRows
  <2> QED BY <2>2, <2>3, FaultTyping DEF TypeOK
<1>3. UNCHANGED <<lock, pc, found, entries, overtaken, left, dirty, games, fresh, rows, crashes>>
  BY DEF RecoverPrepared, RecoverCommitted, CrashInRecovery
<1> QED BY <1>1, <1>2, <1>3 DEF TypeOK

LEMMA TypingStep ==
    ASSUME TypeOK, [Next]_vars
    PROVE  TypeOK'
<1>1. ASSUME NEW g \in Games, IndexGame(g) PROVE TypeOK'
  BY <1>1 DEF IndexGame, TypeOK
<1>2. ASSUME NEW p \in Paths, UserCopy(p) PROVE TypeOK'
  BY <1>2 DEF UserCopy, TypeOK, Contents
<1>3. CASE Start \/ Ready
  BY <1>3 DEF Start, Ready, PendingOps, TypeOK
<1>4. CASE Crash
  BY <1>4, DeletesAssumption DEF Crash, TypeOK, PCs
<1>5. CASE UNCHANGED vars
  BY <1>5 DEF vars, TypeOK
<1> QED
  BY <1>1, <1>2, <1>3, <1>4, <1>5, HandlerTyping, ReconcileTyping DEF Next, Recovery

(* Type correctness of the delete specification. *)
THEOREM DeletesTyping == Spec => []TypeOK
<1> QED BY TypingInit, TypingStep, PTL DEF Spec

-----------------------------------------------------------------------------
(* What lies in the trash is journaled.  A handler that is at work left the *)
(* row of its delete in the state of its phase; whatever is in the trash is *)
(* part of an entry of the payload, which the loops of the handler have not *)
(* moved twice and have not forgotten.                                      *)

QuietWhileDown == server # "up" => \A d \in Deletes : pc[d] \in {"idle", "gone"}

Phase(d) ==
    /\ pc[d] \in {"idle", "lock"} => journal[d] = "absent"
    /\ pc[d] \in {"move", "commit"} => journal[d] = "prepared"
    /\ pc[d] = "restore" => journal[d] \in Unfinished
    /\ pc[d] = "cleanup" => journal[d] = "db_committed"

Accounted(d) ==
    \A unit \in Units, p \in Paths :
        trash[d][unit][p] # "none" =>
            /\ unit \in entries[d] /\ p \in Members(unit)
            /\ journal[d] \in Unfinished
            /\ pc[d] = "move" => unit \notin left[d]
            /\ pc[d] = "cleanup" /\ ~dirty[d] => unit \in left[d]

Sound(d) == left[d] \subseteq entries[d] /\ Phase(d) /\ Accounted(d)

TrashInv == TypeOK /\ QuietWhileDown /\ \A d \in Deletes : Sound(d)

LEMMA JournalWords ==
    /\ Unfinished = {"prepared", "failed", "db_committed", "cleanup_pending"}
    /\ Undecided = {"prepared", "failed"} /\ Committed = {"db_committed", "cleanup_pending"}
BY DEF Unfinished, Undecided, Committed

(* A state that is written with SetState, SetStateTx or CreateRow. *)
LEMMA Written ==
    ASSUME NEW j \in [Deletes -> JournalStates], NEW op \in Deletes, NEW st
    PROVE  /\ SetStateTx(j, op, st)[op] = st /\ CreateRow(j, op)[op] = "prepared"
           /\ j[op] \in Unfinished => SetState(j, op, st)[op] = st
           /\ \A e \in Deletes \ {op} : /\ SetState(j, op, st)[e] = j[e]
                                        /\ SetStateTx(j, op, st)[e] = j[e]
                                        /\ CreateRow(j, op)[e] = j[e]
BY JournalWords DEF SetState, SetStateTx, CreateRow

(* Emptying and moving only ever touch the trash of the delete that does it. *)
LEMMA Emptied ==
    ASSUME TypeOK, NEW d \in Deletes, NEW units, EmptyTrash(d, units)
    PROVE  /\ \A e \in Deletes \ {d} : trash'[e] = trash[e]
           /\ \A unit \in Units, p \in Paths :
                 trash'[d][unit][p] = IF unit \in units THEN "none" ELSE trash[d][unit][p]
BY DEF EmptyTrash, Empty, TypeOK

LEMMA Trashed ==
    ASSUME TypeOK, NEW d \in Deletes, NEW unit \in Units, ToTrash(d, unit)
    PROVE  /\ \A e \in Deletes \ {d} : trash'[e] = trash[e]
           /\ \A u \in Units, p \in Paths :
                 trash'[d][u][p] = IF u # unit THEN trash[d][u][p]
                                   ELSE IF p \in Members(unit) THEN disk[p] ELSE "none"
BY DEF ToTrash, TypeOK

(* A delete keeps its part of the invariant while others work. *)
LEMMA SoundElsewhere ==
    ASSUME TypeOK, NEW e \in Deletes, Sound(e),
           pc'[e] = pc[e], journal'[e] = journal[e], entries'[e] = entries[e],
           left'[e] = left[e], dirty'[e] = dirty[e], trash'[e] = trash[e]
    PROVE  Sound(e)'
BY DEF Sound, Phase, Accounted, Members

(* A step that only takes from the trash, of a delete whose handler is gone. *)
LEMMA SoundWhenGone ==
    ASSUME TypeOK, NEW d \in Deletes, Sound(d), pc'[d] = "gone",
           entries'[d] = entries[d], left'[d] \subseteq left[d],
           \A unit \in Units, p \in Paths :
               trash'[d][unit][p] # "none" =>
                   trash[d][unit][p] # "none" /\ journal'[d] \in Unfinished
    PROVE  Sound(d)'
BY DEF Sound, Phase, Accounted, Members

LEMMA TrashInit == ASSUME Init PROVE TrashInv
<1>1. TypeOK
  BY TypingInit
<1>2. \A d \in Deletes : Sound(d)
  BY DEF Init, Sound, Phase, Accounted, Empty
<1>3. QuietWhileDown
  BY DEF Init, QuietWhileDown
<1> QED BY <1>1, <1>2, <1>3 DEF TrashInv

LEMMA LeaveWith ==
    ASSUME TypeOK, NEW d \in Deletes, Leave(d)
    PROVE  /\ pc'[d] = "gone" /\ left'[d] = {}
           /\ \A e \in Deletes \ {d} :
                 pc'[e] = pc[e] /\ left'[e] = left[e] /\ dirty'[e] = dirty[e]
BY DEF Leave, Goto, Remaining, TypeOK

(* Every step of the handler keeps the delete sound. *)
LEMMA HandlerSound ==
    ASSUME TrashInv, NEW d \in Deletes, Begin(d) \/ Handler(d) \/ Abandon(d)
    PROVE  Sound(d)'
<1> USE DEF TrashInv, At, Goto, Remaining
<1>0. TypeOK /\ Sound(d)
  OBVIOUS
<1>1. CASE Begin(d)
  BY <1>0, <1>1 DEF Begin, Sound, Phase, Accounted, Members, TypeOK
<1>2. CASE LockRoot(d)
  BY <1>0, <1>2, SoundElsewhere DEF LockRoot
<1>3. CASE Plan(d)
  <2>1. \A unit \in Units, p \in Paths : trash[d][unit][p] = "none"
    BY <1>0, <1>3, JournalWords DEF Plan, Sound, Phase, Accounted
  <2>2. journal'[d] = "prepared" /\ left'[d] = entries'[d] /\ pc'[d] = "move"
    BY <1>0, <1>3, Written DEF Plan, TypeOK
  <2>3. trash' = trash
    BY <1>3 DEF Plan
  <2> QED BY <2>1, <2>2, <2>3 DEF Sound, Phase, Accounted
<1>4. CASE PlanRejected(d)
  BY <1>0, <1>4, LeaveWith, SoundWhenGone, JournalWords
  DEF PlanRejected, Sound, Phase, Accounted
<1>5. CASE MoveEntry(d)
  <2>1. PICK unit \in left[d] :
          \/ ToTrash(d, unit) /\ Remaining(d, left[d] \ {unit}) /\ UNCHANGED pc
          \/ Remaining(d, entries[d] \ left[d]) /\ Goto(d, "restore") /\ UNCHANGED <<disk, trash>>
    BY <1>5 DEF MoveEntry
  <2>2. unit \in Units /\ unit \in entries[d] /\ journal[d] = "prepared" /\ pc[d] = "move"
    BY <1>0, <1>5 DEF MoveEntry, TypeOK, Sound, Phase
  <2>3. UNCHANGED <<entries, dirty, journal>>
    BY <1>5 DEF MoveEntry
  <2>4. CASE ToTrash(d, unit) /\ Remaining(d, left[d] \ {unit}) /\ UNCHANGED pc
    <3>1. left'[d] = left[d] \ {unit} /\ pc'[d] = "move"
      BY <1>0, <2>2, <2>4 DEF TypeOK
    <3>2. Accounted(d)'
      BY <1>0, <2>2, <2>3, <2>4, <3>1, Trashed, JournalWords DEF Sound, Accounted, Members
    <3> QED BY <1>0, <2>2, <2>3, <3>1, <3>2 DEF Sound, Phase
  <2>5. CASE Remaining(d, entries[d] \ left[d]) /\ Goto(d, "restore") /\ UNCHANGED <<disk, trash>>
    <3>1. left'[d] = entries[d] \ left[d] /\ pc'[d] = "restore"
      BY <1>0, <2>5 DEF TypeOK
    <3> QED BY <1>0, <2>2, <2>3, <2>5, <3>1, JournalWords DEF Sound, Phase, Accounted, Members
  <2> QED BY <2>1, <2>4, <2>5
<1>6. CASE AllMoved(d)
  BY <1>0, <1>6 DEF AllMoved, Sound, Phase, Accounted, Members, TypeOK
<1>7. CASE Commit(d)
  <2>1. left'[d] = entries[d] /\ UNCHANGED <<entries, dirty, trash>> /\ journal[d] = "prepared"
    BY <1>0, <1>7 DEF Commit, TypeOK, Sound, Phase
  <2>2. \/ journal'[d] = "db_committed" /\ pc'[d] \in {"cleanup", "restore"}
        \/ journal'[d] = "prepared" /\ pc'[d] = "restore"
    <3>1. \/ DeleteTx(d) /\ pc'[d] \in {"cleanup", "restore"}
          \/ UNCHANGED journal /\ pc'[d] = "restore"
      BY <1>0, <1>7 DEF Commit, TypeOK
    <3> QED BY <1>0, <2>1, <3>1, Written DEF DeleteTx, TypeOK
  <2> QED BY <1>0, <2>1, <2>2, JournalWords DEF Sound, Phase, Accounted, Members
<1>8. CASE Restore(d)
  <2>1. PICK unit \in left[d] :
          /\ FromTrash(d, {unit}) \/ UNCHANGED <<disk, trash>>
          /\ Remaining(d, left[d] \ {unit})
    BY <1>8 DEF Restore
  <2>2. UNCHANGED <<pc, entries, dirty, journal>> /\ pc[d] = "restore"
    BY <1>8 DEF Restore
  <2>3. left'[d] = left[d] \ {unit}
    BY <1>0, <2>1 DEF TypeOK
  <2>4. \A u \in Units, p \in Paths : trash'[d][u][p] # "none" => trash'[d][u][p] = trash[d][u][p]
    BY <1>0, <2>1, Emptied DEF FromTrash
  <2> QED BY <1>0, <2>2, <2>3, <2>4 DEF Sound, Phase, Accounted, Members
<1>9. CASE Fail(d)
  <2>1. journal[d] \in Unfinished
    BY <1>0, <1>9 DEF Fail, Sound, Phase
  <2>2. journal'[d] \in Unfinished
    BY <1>0, <1>9, <2>1, Written, JournalWords DEF Fail, TypeOK
  <2> QED BY <1>0, <1>9, <2>2, LeaveWith, SoundWhenGone DEF Fail
<1>10. CASE Cleanup(d)
  <2>1. PICK unit \in left[d] :
          /\ \/ EmptyTrash(d, {unit}) /\ UNCHANGED dirty
             \/ UNCHANGED trash /\ dirty' = [dirty EXCEPT ![d] = TRUE]
          /\ Remaining(d, left[d] \ {unit})
    BY <1>10 DEF Cleanup
  <2>2. UNCHANGED <<pc, entries, journal>> /\ pc[d] = "cleanup"
    BY <1>10 DEF Cleanup
  <2>3. left'[d] = left[d] \ {unit}
    BY <1>0, <2>1 DEF TypeOK
  <2>4. CASE EmptyTrash(d, {unit}) /\ UNCHANGED dirty
    <3>1. \A u \in Units, p \in Paths :
            trash'[d][u][p] # "none" => u # unit /\ trash'[d][u][p] = trash[d][u][p]
      BY <1>0, <2>4, Emptied
    <3> QED BY <1>0, <2>2, <2>3, <2>4, <3>1 DEF Sound, Phase, Accounted, Members
  <2>5. CASE UNCHANGED trash /\ dirty' = [dirty EXCEPT ![d] = TRUE]
    <3>1. dirty'[d]
      BY <1>0, <2>5 DEF TypeOK
    <3> QED BY <1>0, <2>2, <2>3, <2>5, <3>1 DEF Sound, Phase, Accounted, Members
  <2> QED BY <2>1, <2>4, <2>5
<1>11. CASE Finish(d)
  <2>1. journal[d] = "db_committed" /\ pc[d] = "cleanup" /\ left[d] = {}
    BY <1>0, <1>11 DEF Finish, Sound, Phase
  <2>2. \A unit \in Units, p \in Paths : trash[d][unit][p] # "none" => dirty[d]
    BY <1>0, <2>1 DEF Sound, Accounted
  <2>3. dirty[d] => journal'[d] \in Unfinished
    BY <1>0, <1>11, <2>1, Written, JournalWords DEF Finish, TypeOK
  <2> QED BY <1>0, <1>11, <2>2, <2>3, LeaveWith, SoundWhenGone DEF Finish
<1>12. CASE Abandon(d)
  BY <1>0, <1>12, LeaveWith, SoundWhenGone DEF Abandon, Sound, Accounted
<1> QED
  BY <1>1, <1>2, <1>3, <1>4, <1>5, <1>6, <1>7, <1>8, <1>9, <1>10, <1>11, <1>12 DEF Handler

(* And it touches no other delete. *)
LEMMA HandlerElsewhere ==
    ASSUME TypeOK, NEW d \in Deletes, Begin(d) \/ Handler(d) \/ Abandon(d), NEW e \in Deletes \ {d}
    PROVE  /\ pc'[e] = pc[e] /\ journal'[e] = journal[e] /\ entries'[e] = entries[e]
           /\ left'[e] = left[e] /\ dirty'[e] = dirty[e] /\ trash'[e] = trash[e]
           /\ found'[e] = found[e] /\ server' = server /\ server = "up"
<1> USE DEF At, Goto, Remaining
<1>1. pc'[e] = pc[e] /\ left'[e] = left[e] /\ dirty'[e] = dirty[e] /\ entries'[e] = entries[e]
      /\ found'[e] = found[e] /\ server' = server /\ server = "up"
  BY LeaveWith DEF Handler, Begin, LockRoot, Plan, PlanRejected, MoveEntry, AllMoved, Commit, Restore,
      Fail, Cleanup, Finish, Abandon, TypeOK
<1>2. journal'[e] = journal[e]
  <2>0. journal \in [Deletes -> JournalStates]
    BY DEF TypeOK
  <2>1. PICK st : \/ journal' = journal \/ journal' = CreateRow(journal, d)
                  \/ journal' = SetState(journal, d, st) \/ journal' = SetStateTx(journal, d, st)
    BY DEF Handler, Begin, LockRoot, Plan, PlanRejected, MoveEntry, AllMoved, Commit, DeleteTx, Restore,
      Fail, Cleanup, Finish, Abandon
  <2> QED BY <2>0, <2>1, Written
<1>3. trash'[e] = trash[e]
  <2>1. \/ trash' = trash \/ \E unit \in left[d] : ToTrash(d, unit)
        \/ \E units : EmptyTrash(d, units)
    BY DEF Handler, Begin, LockRoot, Plan, PlanRejected, MoveEntry, AllMoved, Commit, DeleteTx, Restore,
      Fail, Cleanup, Finish, Abandon, FromTrash
  <2>2. left[d] \subseteq Units
    BY DEF TypeOK
  <2> QED BY <2>1, <2>2, Trashed, Emptied
<1> QED BY <1>1, <1>2, <1>3

(* The reconciliation of one delete, for the delete itself. *)
LEMMA ReconcileSound ==
    ASSUME TrashInv, NEW d \in Deletes,
           RecoverPrepared(d) \/ RecoverCommitted(d) \/ CrashInRecovery(d)
    PROVE  Sound(d)'
<1> USE DEF TrashInv
<1>1. TypeOK /\ Sound(d) /\ pc[d] \in {"idle", "gone"}
  BY DEF QuietWhileDown, RecoverPrepared, RecoverCommitted, CrashInRecovery
<1>2. journal[d] \in Unfinished \/ UNCHANGED journal
  BY JournalWords DEF RecoverPrepared, RecoverCommitted, CrashInRecovery
<1>3. UNCHANGED <<pc, entries, left, dirty>>
  BY DEF RecoverPrepared, RecoverCommitted, CrashInRecovery
<1>4. ASSUME NEW unit \in Units, NEW p \in Paths, trash'[d][unit][p] # "none"
      PROVE  trash[d][unit][p] # "none"
  <2>1. UNCHANGED trash \/ \E units : EmptyTrash(d, units)
    BY DEF RecoverPrepared, RecoverCommitted, CrashInRecovery, DiscardTrash, RestoreTrash, FromTrash
  <2> QED BY <1>1, <1>4, <2>1, Emptied
<1>5. CASE UNCHANGED journal
  BY <1>1, <1>3, <1>4, <1>5 DEF Sound, Phase, Accounted, Members
<1>6. CASE pc[d] = "gone" /\ ~UNCHANGED journal /\ Unresolved(d)
  <2>1. journal'[d] \in Unfinished
    <3>1. journal[d] \in Unfinished /\ journal' = SetState(journal, d, "failed")
      BY <1>2, <1>6 DEF Unresolved
    <3>2. journal \in [Deletes -> JournalStates]
      BY <1>1 DEF TypeOK
    <3> QED BY <3>1, <3>2, Written, JournalWords
  <2> QED BY <1>1, <1>3, <1>4, <1>6, <2>1, SoundWhenGone
<1>7. CASE pc[d] = "gone" /\ ~UNCHANGED journal /\ ~Unresolved(d)
  <2>1. \/ EmptyTrash(d, entries[d])
        \/ Torn(d) = {} /\ EmptyTrash(d, Restorable(d))
    BY <1>7 DEF RecoverPrepared, RecoverCommitted, CrashInRecovery, DiscardTrash, RestoreTrash, FromTrash
  <2>2. ASSUME NEW unit \in Units, NEW p \in Paths, trash'[d][unit][p] # "none"
        PROVE  FALSE
    <3>1. trash[d][unit][p] # "none"
      BY <2>2, <1>4
    <3>2. unit \in entries[d] /\ p \in Members(unit)
      BY <1>1, <3>1 DEF Sound, Accounted
    <3>3. TrashHas(d, unit)
      BY <3>1, <3>2 DEF TrashHas
    <3>4. CASE EmptyTrash(d, entries[d])
      BY <1>1, <2>2, <3>2, <3>4, Emptied
    <3>5. CASE Torn(d) = {} /\ EmptyTrash(d, Restorable(d))
      <4>1. unit \in Restorable(d)
        BY <3>2, <3>3, <3>5 DEF Torn, Restorable
      <4> QED BY <1>1, <2>2, <3>5, <4>1, Emptied
    <3> QED BY <2>1, <3>4, <3>5
  <2> QED BY <1>1, <1>3, <1>7, <2>2, SoundWhenGone
<1>8. pc[d] = "idle" => UNCHANGED journal
  BY <1>1, <1>2, JournalWords DEF Sound, Phase
<1> QED BY <1>1, <1>5, <1>6, <1>7, <1>8

LEMMA ReconcileElsewhere ==
    ASSUME TypeOK, NEW d \in Deletes,
           RecoverPrepared(d) \/ RecoverCommitted(d) \/ CrashInRecovery(d),
           NEW e \in Deletes \ {d}
    PROVE  /\ journal'[e] = journal[e] /\ trash'[e] = trash[e]
           /\ UNCHANGED <<lock, pc, found, entries, left, dirty, games, fresh, rows>>
<1>1. UNCHANGED <<lock, pc, found, entries, left, dirty, games, fresh, rows>>
  BY DEF RecoverPrepared, RecoverCommitted, CrashInRecovery
<1>2. journal'[e] = journal[e]
  <2>0. journal \in [Deletes -> JournalStates]
    BY DEF TypeOK
  <2>1. PICK st : journal' = journal \/ journal' = SetState(journal, d, st)
    BY DEF RecoverPrepared, RecoverCommitted, CrashInRecovery, DiscardTrash, RestoreTrash,
      Resolved, Unresolved
  <2> QED BY <2>0, <2>1, Written
<1>3. trash'[e] = trash[e]
  <2>1. UNCHANGED trash \/ \E units : EmptyTrash(d, units)
    BY DEF RecoverPrepared, RecoverCommitted, CrashInRecovery, DiscardTrash, RestoreTrash, FromTrash
  <2> QED BY <2>1, Emptied
<1> QED BY <1>1, <1>2, <1>3

LEMMA TrashStep ==
    ASSUME TrashInv, [Next]_vars
    PROVE  TrashInv'
<1> USE DEF TrashInv
<1>0. TypeOK'
  BY TypingStep
<1>1. ASSUME NEW d \in Deletes, Begin(d) \/ Handler(d) \/ Abandon(d) PROVE TrashInv'
  <2>1. \A e \in Deletes : Sound(e)'
    BY <1>1, HandlerSound, HandlerElsewhere, SoundElsewhere
  <2>2. QuietWhileDown'
    <3>1. server' = server /\ server = "up"
      BY <1>1 DEF Handler, Begin, LockRoot, Plan, PlanRejected, MoveEntry, AllMoved, Commit, Restore,
        Fail, Cleanup, Finish, Abandon, At
    <3> QED BY <3>1 DEF QuietWhileDown
  <2> QED BY <1>0, <2>1, <2>2
<1>2. ASSUME NEW d \in Deletes, RecoverPrepared(d) \/ RecoverCommitted(d) \/ CrashInRecovery(d)
      PROVE  TrashInv'
  <2>1. \A e \in Deletes : Sound(e)'
    BY <1>2, ReconcileSound, ReconcileElsewhere, SoundElsewhere
  <2>2. QuietWhileDown'
    BY <1>2 DEF QuietWhileDown, RecoverPrepared, RecoverCommitted, CrashInRecovery
  <2> QED BY <1>0, <2>1, <2>2
<1>3. ASSUME \/ \E g \in Games : IndexGame(g)
             \/ \E p \in Paths : UserCopy(p)
             \/ Start \/ Ready \/ UNCHANGED vars
      PROVE  TrashInv'
  <2>1. UNCHANGED <<pc, journal, entries, left, dirty, trash>>
    BY <1>3 DEF IndexGame, UserCopy, Start, Ready, vars
  <2>2. \A e \in Deletes : Sound(e)'
    BY <2>1, SoundElsewhere
  <2>3. QuietWhileDown'
    BY <1>3 DEF QuietWhileDown, IndexGame, UserCopy, Start, Ready, vars
  <2> QED BY <1>0, <2>2, <2>3
<1>4. CASE Crash
  <2>1. ASSUME NEW e \in Deletes PROVE Sound(e)'
    <3>1. UNCHANGED <<journal, entries, trash>> /\ left'[e] = {}
          /\ pc'[e] = IF pc[e] = "idle" THEN "idle" ELSE "gone"
      BY <1>4 DEF Crash
    <3>2. Sound(e)
      OBVIOUS
    <3> QED BY <3>1, <3>2 DEF Sound, Phase, Accounted, Members
  <2>2. QuietWhileDown'
    BY <1>4 DEF Crash, QuietWhileDown
  <2> QED BY <1>0, <2>1, <2>2
<1> QED BY <1>1, <1>2, <1>3, <1>4 DEF Next, Recovery

(* What is in the trash of a delete is there for the next start to decide   *)
(* about: no operation whose row says it is over keeps a file.              *)
THEOREM TrashStaysJournaled == Spec => []TrashIsJournaled
<1>1. TrashInv => TrashIsJournaled
  BY DEF TrashInv, TrashIsJournaled, Sound, Accounted
<1> QED BY <1>1, TrashInit, TrashStep, PTL DEF Spec

-----------------------------------------------------------------------------
(* Games keep their files.  A delete moves only what it has locked and what *)
(* belongs to its own games, so a file that is in the trash of a delete is  *)
(* of a game the row of that delete decides about.  The games are read      *)
(* before the locks are taken: what a game indexed in between has at the    *)
(* path of a deleted one would be moved as well, and is what overtaken      *)
(* names from the plan on.                                                  *)

TakenFrom(g, p) == \E d \in Deletes : g \notin found[d] /\ p \in overtaken[d]

Kept(g, p) ==
    \/ disk[p] = rows[p]
    \/ \E d \in Deletes, unit \in Units :
          g \in found[d] /\ journal[d] \in Undecided /\ trash[d][unit][p] = rows[p]
    \/ TakenFrom(g, p)

(* Nothing is overtaken before there is a plan. *)
Unplanned(d) == pc[d] \in {"idle", "lock"} => overtaken[d] = {}

RowsOfGames == \A g \in games : \A p \in FilesOf[g] : rows[p] # "none"

GamesApart == \A g, h \in games : g # h => FilesOf[g] \cap FilesOf[h] = {}

(* What a delete is about to move is locked and is its own, or overtaken.   *)
Reserved(d) ==
    pc[d] = "move" =>
        \A unit \in entries[d] : \A p \in Members(unit) :
            /\ lock[RootOf[p]] = d
            /\ \A g \in games : p \in FilesOf[g] => g \in found[d] \/ p \in overtaken[d]

KeepInv ==
    /\ TrashInv /\ GamesKeepTheirFiles /\ RowsOfGames /\ GamesApart
    /\ \A d \in Deletes : Reserved(d) /\ Unplanned(d)

LEMMA PathsOfGames ==
    ASSUME TypeOK, NEW g \in games
    PROVE  g \in Games /\ FilesOf[g] \subseteq Paths
BY DeletesAssumption DEF TypeOK

LEMMA AllKept == GamesKeepTheirFiles <=> \A g \in games : \A p \in FilesOf[g] : Kept(g, p)
BY DEF GamesKeepTheirFiles, Kept, TakenFrom

LEMMA KeepInit == ASSUME Init PROVE KeepInv
<1>1. TrashInv
  BY TrashInit
<1>2. \A g \in Games \ Fresh : \A p \in FilesOf[g] : rows[p] = "orig" /\ disk[p] = "orig"
  BY DeletesAssumption DEF Init
<1>3. games = Games \ Fresh
  BY DEF Init
<1>4. GamesKeepTheirFiles /\ RowsOfGames
  BY <1>2, <1>3 DEF GamesKeepTheirFiles, RowsOfGames
<1>5. GamesApart
  BY <1>3, DeletesAssumption DEF GamesApart
<1>6. \A d \in Deletes : Reserved(d) /\ Unplanned(d)
  BY DEF Init, Reserved, Unplanned
<1> QED BY <1>1, <1>4, <1>5, <1>6 DEF KeepInv

(* The files, the rows and the games stay, and no operation stops being     *)
(* undecided: whatever was kept is kept.                                    *)
LEMMA KeptByFrame ==
    ASSUME TypeOK, NEW g, NEW p, Kept(g, p),
           UNCHANGED <<disk, rows, trash>>,
           \A d \in Deletes : journal[d] \in Undecided =>
               journal'[d] \in Undecided /\ found'[d] = found[d],
           \A d \in Deletes : overtaken[d] # {} =>
               overtaken'[d] = overtaken[d] /\ found'[d] = found[d]
    PROVE  Kept(g, p)'
BY DEF Kept, TakenFrom

(* Emptying the trash of a delete that decided against the game, or that    *)
(* has committed.                                                           *)
LEMMA KeptByEmptying ==
    ASSUME TypeOK, NEW d \in Deletes, NEW g, NEW p \in Paths, Kept(g, p),
           UNCHANGED <<disk, rows, found, overtaken>>,
           \/ UNCHANGED trash
           \/ \E units : EmptyTrash(d, units),
           g \notin found[d] \/ journal[d] \notin Undecided,
           \A e \in Deletes \ {d} : journal'[e] = journal[e]
    PROVE  Kept(g, p)'
<1>1. \A e \in Deletes \ {d} : trash'[e] = trash[e]
  BY Emptied
<1>2. CASE disk[p] = rows[p]
  BY <1>2 DEF Kept
<1>3. CASE \E e \in Deletes, unit \in Units :
             g \in found[e] /\ journal[e] \in Undecided /\ trash[e][unit][p] = rows[p]
  BY <1>1, <1>3 DEF Kept
<1> QED BY <1>2, <1>3 DEF Kept, TakenFrom

(* What moving back does to one path: it puts the one copy back that the    *)
(* moved entries hold of it, or leaves the path alone.                      *)
LEMMA PutBack ==
    ASSUME TypeOK, NEW d \in Deletes, Sound(d), NEW units \in SUBSET Units,
           \A unit \in units : ~DiskHas(unit),
           Compatible(d, units), FromTrash(d, units), NEW p \in Paths
    PROVE  /\ disk'[p] # disk[p] => disk[p] = "none"
           /\ \A unit \in units : trash[d][unit][p] # "none" => disk'[p] = trash[d][unit][p]
           /\ \A unit \in Units \ units : trash'[d][unit][p] = trash[d][unit][p]
           /\ \A e \in Deletes \ {d} : trash'[e] = trash[e]
<1>1. /\ \A e \in Deletes \ {d} : trash'[e] = trash[e]
      /\ \A unit \in Units \ units : trash'[d][unit][p] = trash[d][unit][p]
  BY Emptied DEF FromTrash
<1>2. CASE Holding(d, units, p) = {}
  <2>1. disk'[p] = disk[p]
    BY <1>2 DEF FromTrash
  <2>2. \A unit \in units : trash[d][unit][p] = "none"
    BY <1>2 DEF Holding
  <2> QED BY <1>1, <2>1, <2>2
<1>3. CASE Holding(d, units, p) # {}
  <2> DEFINE u == CHOOSE unit \in Holding(d, units, p) : TRUE
  <2>1. u \in Holding(d, units, p)
    BY <1>3
  <2>2. disk'[p] = trash[d][u][p]
    BY <1>3 DEF FromTrash
  <2> HIDE DEF u
  <2>3. u \in units /\ trash[d][u][p] # "none"
    BY <2>1 DEF Holding
  <2>4. p \in Members(u)
    BY <2>3 DEF Sound, Accounted
  <2>5. disk[p] = "none"
    BY <2>3, <2>4 DEF DiskHas
  <2>6. \A unit \in units : trash[d][unit][p] # "none" => unit = u
    BY <2>1 DEF Compatible, Holding
  <2> QED BY <1>1, <2>2, <2>5, <2>6
<1> QED BY <1>2, <1>3

(* So a kept file stays kept, by the path itself or by what is left in the  *)
(* trash.                                                                   *)
LEMMA KeptByPuttingBack ==
    ASSUME TypeOK, NEW d \in Deletes, Sound(d), NEW units \in SUBSET Units,
           \A unit \in units : ~DiskHas(unit),
           Compatible(d, units), FromTrash(d, units),
           NEW g, NEW p \in Paths, Kept(g, p), rows[p] # "none",
           UNCHANGED <<rows, found, overtaken>>,
           \A e \in Deletes \ {d} : journal'[e] = journal[e],
           \/ journal[d] \in Undecided => journal'[d] \in Undecided
           \/ \A unit \in Units \ units : trash[d][unit][p] = "none"
    PROVE  Kept(g, p)'
<1>1. CASE disk[p] = rows[p]
  BY <1>1, PutBack DEF Kept
<1>2. ASSUME NEW e \in Deletes, NEW unit \in Units,
             g \in found[e], journal[e] \in Undecided, trash[e][unit][p] = rows[p]
      PROVE  Kept(g, p)'
  <2>1. CASE e # d
    <3>1. trash'[e] = trash[e] /\ journal'[e] = journal[e]
      BY <2>1, PutBack
    <3> QED BY <1>2, <3>1 DEF Kept
  <2>2. CASE e = d /\ unit \in units
    <3>1. disk'[p] = rows[p]
      BY <1>2, <2>2, PutBack
    <3> QED BY <3>1 DEF Kept
  <2>3. CASE e = d /\ unit \notin units
    <3>1. trash'[d][unit][p] = trash[d][unit][p]
      BY <2>3, PutBack
    <3>2. journal'[d] \in Undecided
      BY <1>2, <2>3
    <3> QED BY <1>2, <2>3, <3>1, <3>2 DEF Kept
  <2> QED BY <2>1, <2>2, <2>3
<1> QED BY <1>1, <1>2 DEF Kept, TakenFrom

(* The plan reserves what it is about to move. *)
LEMMA PlanReserves ==
    ASSUME KeepInv, NEW d \in Deletes, Plan(d)
    PROVE  Reserved(d)'
<1> USE DEF KeepInv, TrashInv
<1>1. /\ entries'[d] = {unit \in Candidates(d) : DiskHas(unit)} /\ UNCHANGED <<lock, games, found>>
      /\ overtaken'[d] = TakenOver(d)
  BY DEF Plan, TypeOK
<1>2. HoldsAll(d) /\ \A p \in Sidecars[d] : ~Indexed(p)
  BY DEF Plan
<1>3. found[d] \subseteq Games /\ \A h \in found[d] : FilesOf[h] \subseteq Paths
  BY DeletesAssumption DEF TypeOK
<1>4. \A p \in Touched(d) : lock[RootOf[p]] = d
  BY <1>2 DEF HoldsAll, NeededRoots
<1>5. ASSUME NEW unit \in Candidates(d), NEW p \in Members(unit)
      PROVE  /\ lock[RootOf[p]] = d
             /\ \A g \in games : p \in FilesOf[g] => g \in found[d] \/ p \in TakenOver(d)
  <2>1. p \in Paths /\ (p = unit \/ FolderOf[p] = unit)
    BY DEF Members
  <2>2. CASE unit \in Folders
    <3>1. p # unit
      BY <2>1, <2>2, DeletesAssumption
    <3>2. Touched(d) \cap Folders = {}
      BY <1>3, DeletesAssumption DEF Touched
    <3>3. PICK h \in found[d] : Packaged(h, unit) /\ ~Shared(d, unit)
      BY <2>2, <3>2 DEF Candidates
    <3>4. PICK q \in LibraryFiles(h) : TRUE
      BY <3>3, FS_EmptySet DEF Packaged
    <3>5. q \in Touched(d) /\ q \in Paths /\ FolderOf[q] = unit
      BY <1>3, <3>3, <3>4 DEF Packaged, LibraryFiles, Touched
    <3>6. RootOf[p] = RootOf[q]
      BY <2>1, <2>2, <3>1, <3>5, DeletesAssumption
    <3>7. ASSUME NEW g \in games, p \in FilesOf[g] PROVE g \in found[d]
      BY <2>1, <3>1, <3>3, <3>7 DEF Shared
    <3> QED BY <1>4, <3>5, <3>6, <3>7
  <2>3. CASE unit \notin Folders
    <3>1. unit \in Touched(d)
      BY <2>3 DEF Candidates
    <3>2. unit \in Paths
      BY <1>3, <3>1, DeletesAssumption DEF Touched
    <3>3. p = unit
      BY <2>1, <2>3, <3>2, DeletesAssumption
    <3>4. ASSUME NEW g \in games, p \in FilesOf[g] PROVE g \in found[d] \/ p \in TakenOver(d)
      <4>1. CASE p \in Sidecars[d]
        BY <1>2, <3>4, <4>1 DEF Indexed, RowsOfGames
      <4>2. CASE \E h \in found[d] : p \in FilesOf[h]
        BY <2>1, <3>4, <4>2 DEF TakenOver
      <4> QED BY <3>1, <3>3, <4>1, <4>2 DEF Touched
    <3> QED BY <1>4, <3>1, <3>3, <3>4
  <2> QED BY <2>2, <2>3
<1> QED BY <1>1, <1>5 DEF Reserved, Members

(* Moving an entry takes files of the games of the delete to its trash. *)
LEMMA MoveKeeps ==
    ASSUME KeepInv, NEW d \in Deletes, MoveEntry(d)
    PROVE  GamesKeepTheirFiles'
<1> USE DEF KeepInv, TrashInv
<1>1. UNCHANGED <<found, journal, games, rows, entries, overtaken>>
  BY DEF MoveEntry
<1>2. PICK unit \in left[d] : ToTrash(d, unit) \/ UNCHANGED <<disk, trash>>
  BY DEF MoveEntry
<1>3. pc[d] = "move" /\ Sound(d) /\ Reserved(d)
  BY DEF MoveEntry, At
<1>4. unit \in Units /\ unit \in entries[d] /\ journal[d] = "prepared"
  BY <1>3 DEF TypeOK, Sound, Phase
<1>5. CASE UNCHANGED <<disk, trash>>
  BY <1>1, <1>5 DEF GamesKeepTheirFiles
<1>6. CASE ToTrash(d, unit)
  <2>1. ASSUME NEW g \in games, NEW p \in FilesOf[g] PROVE Kept(g, p)'
    <3>1. Kept(g, p) /\ rows[p] # "none" /\ p \in Paths
      BY AllKept, PathsOfGames DEF RowsOfGames
    <3>2. CASE disk[p] = rows[p] /\ p \notin Members(unit)
      <4>1. disk'[p] = disk[p]
        BY <1>6, <3>1, <3>2 DEF ToTrash
      <4> QED BY <1>1, <3>2, <4>1 DEF Kept
    <3>3. CASE disk[p] = rows[p] /\ p \in Members(unit)
      <4>1. trash'[d][unit][p] = rows[p]
        BY <1>4, <1>6, <3>1, <3>3, Trashed
      <4>2. g \in found[d] \/ p \in overtaken[d]
        BY <1>3, <1>4, <3>3 DEF Reserved
      <4> QED BY <1>1, <1>4, <4>1, <4>2, JournalWords DEF Kept, TakenFrom
    <3>4. ASSUME NEW e \in Deletes, NEW u \in Units,
                 g \in found[e], journal[e] \in Undecided, trash[e][u][p] = rows[p]
          PROVE  Kept(g, p)'
      <4>1. ~(e = d /\ u = unit)
        BY <1>3, <3>1, <3>4 DEF Sound, Accounted
      <4>2. trash'[e][u][p] = trash[e][u][p]
        BY <1>4, <1>6, <3>1, <4>1, Trashed
      <4> QED BY <1>1, <3>4, <4>2 DEF Kept
    <3> QED BY <1>1, <3>1, <3>2, <3>3, <3>4 DEF Kept, TakenFrom
  <2> QED BY <1>1, <2>1 DEF GamesKeepTheirFiles, Kept, TakenFrom
<1> QED BY <1>2, <1>5, <1>6

(* The transaction takes the rows of its own games only. *)
LEMMA CommitKeeps ==
    ASSUME KeepInv, NEW d \in Deletes, Commit(d)
    PROVE  GamesKeepTheirFiles' /\ RowsOfGames' /\ GamesApart'
<1> USE DEF KeepInv, TrashInv
<1>1. UNCHANGED <<found, disk, trash, overtaken>>
  BY DEF Commit
<1>2. CASE UNCHANGED <<games, rows, journal>>
  BY <1>1, <1>2 DEF GamesKeepTheirFiles, RowsOfGames, GamesApart
<1>3. CASE found[d] \subseteq games /\ DeleteTx(d)
  <2>1. ASSUME NEW g \in games', NEW p \in FilesOf[g]
        PROVE  g \in games /\ g \notin found[d] /\ p \in Paths /\ rows'[p] = rows[p]
    <3>1. g \in games /\ g \notin found[d]
      BY <1>3 DEF DeleteTx
    <3>2. p \in Paths
      BY <3>1, PathsOfGames
    <3>3. \A h \in found[d] : p \notin FilesOf[h]
      BY <1>3, <3>1 DEF GamesApart
    <3> QED BY <1>3, <3>1, <3>2, <3>3 DEF DeleteTx
  <2>2. \A e \in Deletes \ {d} : journal'[e] = journal[e]
    <3>1. journal \in [Deletes -> JournalStates] /\ journal' = SetStateTx(journal, d, "db_committed")
      BY <1>3 DEF DeleteTx, TypeOK
    <3> QED BY <3>1, Written
  <2>3. ASSUME NEW g \in games', NEW p \in FilesOf[g] PROVE Kept(g, p)'
    <3>1. Kept(g, p)
      BY <2>1, AllKept
    <3> QED BY <1>1, <2>1, <2>2, <3>1 DEF Kept, TakenFrom
  <2>4. GamesApart'
    BY <1>3 DEF GamesApart, DeleteTx
  <2> QED BY <2>1, <2>3, <2>4 DEF GamesKeepTheirFiles, Kept, TakenFrom, RowsOfGames
<1> QED BY <1>2, <1>3 DEF Commit

(* Moving an entry back, or emptying it once the delete committed. *)
LEMMA RestoreKeeps ==
    ASSUME KeepInv, NEW d \in Deletes, Restore(d)
    PROVE  GamesKeepTheirFiles'
<1> USE DEF KeepInv, TrashInv
<1>1. UNCHANGED <<found, journal, games, rows, overtaken>>
  BY DEF Restore
<1>2. PICK unit \in left[d] : \/ ~DiskHas(unit) /\ FromTrash(d, {unit})
                              \/ UNCHANGED <<disk, trash>>
  BY DEF Restore
<1>3. CASE UNCHANGED <<disk, trash>>
  BY <1>1, <1>3 DEF GamesKeepTheirFiles
<1>4. CASE ~DiskHas(unit) /\ FromTrash(d, {unit})
  <2>1. {unit} \in SUBSET Units
    BY DEF TypeOK
  <2>2. Compatible(d, {unit}) /\ \A u \in {unit} : ~DiskHas(u)
    BY <1>4 DEF Compatible, Holding
  <2>3. ASSUME NEW g \in games, NEW p \in FilesOf[g] PROVE Kept(g, p)'
    <3>1. Kept(g, p) /\ rows[p] # "none" /\ p \in Paths /\ Sound(d)
      BY AllKept, PathsOfGames DEF RowsOfGames
    <3> QED BY <1>1, <1>4, <2>1, <2>2, <3>1, KeptByPuttingBack
  <2> QED BY <1>1, <2>3 DEF GamesKeepTheirFiles, Kept, TakenFrom
<1> QED BY <1>2, <1>3, <1>4

LEMMA CleanupKeeps ==
    ASSUME KeepInv, NEW d \in Deletes, Cleanup(d)
    PROVE  GamesKeepTheirFiles'
<1> USE DEF KeepInv, TrashInv
<1>1. UNCHANGED <<found, journal, games, rows, disk, overtaken>> /\ journal[d] \notin Undecided
  BY JournalWords DEF Cleanup, At, Sound, Phase
<1>2. UNCHANGED trash \/ \E units : EmptyTrash(d, units)
  BY DEF Cleanup
<1>3. ASSUME NEW g \in games, NEW p \in FilesOf[g] PROVE Kept(g, p)'
  <2>1. Kept(g, p) /\ p \in Paths
    BY AllKept, PathsOfGames
  <2> QED BY <1>1, <1>2, <2>1, KeptByEmptying
<1> QED BY <1>1, <1>3 DEF GamesKeepTheirFiles, Kept, TakenFrom

(* The steps of a handler that move no file and no row. *)
LEMMA OtherwiseKeeps ==
    ASSUME KeepInv, NEW d \in Deletes,
           \/ Begin(d) \/ LockRoot(d) \/ Plan(d) \/ PlanRejected(d) \/ AllMoved(d)
           \/ Fail(d) \/ Finish(d) \/ Abandon(d)
    PROVE  GamesKeepTheirFiles'
<1> USE DEF KeepInv, TrashInv
<1>1. UNCHANGED <<games, rows, disk, trash>>
  BY DEF Begin, LockRoot, Plan, PlanRejected, AllMoved, Fail, Finish, Abandon
<1>2. ASSUME NEW e \in Deletes, journal[e] \in Undecided
      PROVE  journal'[e] \in Undecided /\ found'[e] = found[e]
  <2>1. CASE e # d
    BY <1>2, <2>1, HandlerElsewhere DEF Handler
  <2>2. CASE e = d /\ (Begin(d) \/ Plan(d) \/ Finish(d))
    BY <1>2, <2>2, JournalWords DEF Begin, Plan, Finish, At, Sound, Phase
  <2>3. CASE e = d /\ (LockRoot(d) \/ PlanRejected(d) \/ AllMoved(d) \/ Abandon(d))
    BY <1>2, <2>3 DEF LockRoot, PlanRejected, AllMoved, Abandon
  <2>4. CASE e = d /\ Fail(d)
    <3>1. journal \in [Deletes -> JournalStates] /\ journal[d] \in Unfinished
      BY <1>2, <2>4, JournalWords DEF TypeOK
    <3>2. journal' = journal \/ journal' = SetState(journal, d, "failed")
      BY <2>4 DEF Fail
    <3>3. UNCHANGED found
      BY <2>4 DEF Fail
    <3> QED BY <1>2, <2>4, <3>1, <3>2, <3>3, Written, JournalWords
  <2> QED BY <2>1, <2>2, <2>3, <2>4
<1>3. ASSUME NEW e \in Deletes, overtaken[e] # {}
      PROVE  overtaken'[e] = overtaken[e] /\ found'[e] = found[e]
  <2>1. pc[e] \notin {"idle", "lock"}
    BY <1>3 DEF Unplanned
  <2> QED BY <2>1 DEF Begin, LockRoot, Plan, PlanRejected, AllMoved, Fail, Finish, Abandon, At, TypeOK
<1>4. ASSUME NEW g \in games, NEW p \in FilesOf[g] PROVE Kept(g, p)'
  <2>1. Kept(g, p)
    BY AllKept
  <2> HIDE DEF KeepInv, TrashInv
  <2> QED BY <1>1, <1>2, <1>3, <2>1, KeptByFrame DEF KeepInv, TrashInv
<1> QED BY <1>1, <1>4 DEF GamesKeepTheirFiles, Kept, TakenFrom

(* A delete that nobody works for is reconciled: a lost transaction means   *)
(* that its games are there, all of them, and then their files are put      *)
(* back; a committed one means that none of them is.                        *)
LEMMA ReconcileKeeps ==
    ASSUME KeepInv, NEW d \in Deletes,
           RecoverPrepared(d) \/ RecoverCommitted(d) \/ CrashInRecovery(d)
    PROVE  GamesKeepTheirFiles'
<1> USE DEF KeepInv, TrashInv
<1>1. /\ UNCHANGED <<found, games, rows, overtaken>> /\ TypeOK /\ Sound(d)
      /\ \A e \in Deletes \ {d} : journal'[e] = journal[e]
  BY ReconcileElsewhere DEF RecoverPrepared, RecoverCommitted, CrashInRecovery
<1>2. journal[d] \in Undecided =>
        journal'[d] \in Undecided \/ (~UNCHANGED journal /\ ~Unresolved(d))
  <2>1. journal \in [Deletes -> JournalStates]
    BY DEF TypeOK
  <2> QED BY <2>1, Written, JournalWords DEF Unresolved
<1>3. CASE /\ UNCHANGED disk
           /\ UNCHANGED trash \/ \E units : EmptyTrash(d, units)
           /\ found[d] \cap games = {} \/ journal[d] \notin Undecided
  <2>1. ASSUME NEW g \in games, NEW p \in FilesOf[g] PROVE Kept(g, p)'
    <3>1. Kept(g, p) /\ p \in Paths
      BY AllKept, PathsOfGames
    <3>2. g \notin found[d] \/ journal[d] \notin Undecided
      BY <1>3
    <3> QED BY <1>1, <1>3, <3>1, <3>2, KeptByEmptying
  <2> QED BY <1>1, <2>1 DEF GamesKeepTheirFiles, Kept, TakenFrom
<1>4. CASE /\ UNCHANGED <<disk, trash>>
           /\ journal[d] \in Undecided => journal'[d] \in Undecided
  BY <1>1, <1>4, AllKept, PathsOfGames, KeptByFrame DEF GamesKeepTheirFiles, Kept, TakenFrom
<1>5. ASSUME NEW units \in SUBSET Restorable(d), Compatible(d, units), FromTrash(d, units),
             \/ journal[d] \in Undecided => journal'[d] \in Undecided
             \/ Torn(d) = {} /\ units = Restorable(d)
      PROVE  GamesKeepTheirFiles'
  <2>1. units \in SUBSET Units /\ \A unit \in units : ~DiskHas(unit)
    BY <1>1 DEF Restorable, TypeOK
  <2>2. ASSUME Torn(d) = {}, units = Restorable(d), NEW unit \in Units \ units, NEW p \in Paths
        PROVE  trash[d][unit][p] = "none"
    <3>1. SUFFICES ASSUME trash[d][unit][p] # "none" PROVE FALSE
      OBVIOUS
    <3>2. unit \in entries[d] /\ p \in Members(unit)
      BY <1>1, <3>1 DEF Sound, Accounted
    <3>3. TrashHas(d, unit)
      BY <3>1, <3>2 DEF TrashHas
    <3> QED BY <2>2, <3>2, <3>3 DEF Torn, Restorable
  <2>3. ASSUME NEW g \in games, NEW p \in FilesOf[g] PROVE Kept(g, p)'
    <3>1. Kept(g, p) /\ rows[p] # "none" /\ p \in Paths
      BY AllKept, PathsOfGames DEF RowsOfGames
    <3>2. \/ journal[d] \in Undecided => journal'[d] \in Undecided
          \/ \A unit \in Units \ units : trash[d][unit][p] = "none"
      BY <1>5, <2>2, <3>1
    <3> QED BY <1>1, <1>5, <2>1, <3>1, <3>2, KeptByPuttingBack
  <2> QED BY <1>1, <2>3 DEF GamesKeepTheirFiles, Kept, TakenFrom
<1>6. CASE RecoverPrepared(d)
  <2>1. CASE Won(d) /\ DiscardTrash(d)
    BY <1>3, <2>1 DEF Won, DiscardTrash
  <2>2. CASE RestoreTrash(d)
    <3>1. CASE Torn(d) = {} /\ Compatible(d, Restorable(d)) /\ FromTrash(d, Restorable(d))
      BY <1>5, <3>1
    <3>2. CASE /\ Unresolved(d)
               /\ \E done \in SUBSET Restorable(d) : Compatible(d, done) /\ FromTrash(d, done)
      BY <1>2, <1>5, <3>2
    <3> QED BY <2>2, <3>1, <3>2 DEF RestoreTrash
  <2>3. CASE Unresolved(d) /\ UNCHANGED <<disk, trash>>
    BY <1>2, <1>4, <2>3
  <2> QED BY <1>6, <2>1, <2>2, <2>3 DEF RecoverPrepared
<1>7. CASE RecoverCommitted(d)
  BY <1>3, <1>7, JournalWords DEF RecoverCommitted, DiscardTrash
<1>8. CASE CrashInRecovery(d)
  <2>1. UNCHANGED journal
    BY <1>8 DEF CrashInRecovery
  <2>2. CASE /\ Won(d) \/ journal[d] \in Committed
             /\ \E done \in SUBSET entries[d] : EmptyTrash(d, done)
             /\ UNCHANGED disk
    BY <1>3, <2>2, JournalWords DEF Won
  <2>3. CASE \E done \in SUBSET Restorable(d) : Compatible(d, done) /\ FromTrash(d, done)
    BY <1>5, <2>1, <2>3
  <2> QED BY <1>8, <2>2, <2>3 DEF CrashInRecovery
<1> QED BY <1>6, <1>7, <1>8

(* A new game is what lies at its paths, none of which a game has.          *)
LEMMA IndexKeeps ==
    ASSUME KeepInv, NEW new \in Games, IndexGame(new)
    PROVE  /\ GamesKeepTheirFiles' /\ RowsOfGames' /\ GamesApart'
           /\ \A d \in Deletes : Reserved(d)' /\ Unplanned(d)'
<1> USE DEF KeepInv, TrashInv
<1>1. UNCHANGED <<disk, trash, journal, found, lock, pc, entries, overtaken>> /\ games' = games \cup {new}
  BY DEF IndexGame
<1>2. FilesOf[new] \subseteq Paths
  BY DeletesAssumption
<1>3. ASSUME NEW g \in games, NEW p \in FilesOf[g] PROVE p \notin FilesOf[new]
  BY <1>2 DEF IndexGame, RowsOfGames, Indexed
<1>4. ASSUME NEW g \in games, NEW p \in FilesOf[g]
      PROVE  rows'[p] = rows[p] /\ rows[p] # "none" /\ Kept(g, p)'
  <2>1. Kept(g, p) /\ p \in Paths
    BY AllKept, PathsOfGames
  <2>2. rows'[p] = rows[p]
    BY <1>3, <2>1 DEF IndexGame
  <2>3. UNCHANGED <<disk, trash, journal, found, overtaken>> /\ rows[p] # "none"
    BY <1>1 DEF RowsOfGames
  <2> HIDE DEF KeepInv, TrashInv
  <2> QED BY <2>1, <2>2, <2>3 DEF Kept, TakenFrom
<1>5. ASSUME NEW p \in FilesOf[new] PROVE rows'[p] = disk'[p] /\ rows'[p] # "none"
  BY <1>2, <1>5 DEF IndexGame
<1>6. ASSUME NEW d \in Deletes, pc[d] = "move", NEW unit \in entries[d], NEW p \in Members(unit)
      PROVE  p \notin FilesOf[new]
  <2>1. lock[RootOf[p]] = d
    BY <1>6 DEF Reserved
  <2>2. d # Nobody
    BY DeletesAssumption
  <2> QED BY <2>1, <2>2 DEF IndexGame
<1>7. GamesKeepTheirFiles'
  BY <1>1, <1>4, <1>5 DEF GamesKeepTheirFiles, Kept, TakenFrom
<1>8. RowsOfGames'
  BY <1>1, <1>4, <1>5 DEF RowsOfGames
<1>9. GamesApart'
  BY <1>1, <1>3 DEF GamesApart
<1>10. ASSUME NEW d \in Deletes PROVE Reserved(d)' /\ Unplanned(d)'
  BY <1>1, <1>6 DEF Reserved, Members, Unplanned
<1> QED BY <1>7, <1>8, <1>9, <1>10

(* What a delete reserved stays reserved while it moves. *)
LEMMA ReservedByHandler ==
    ASSUME KeepInv, NEW d \in Deletes, Begin(d) \/ Handler(d) \/ Abandon(d),
           NEW e \in Deletes
    PROVE  Reserved(e)' /\ Unplanned(e)'
<1> USE DEF KeepInv, TrashInv
<1>1. games' \subseteq games
  BY DEF Handler, Begin, LockRoot, Plan, PlanRejected, MoveEntry, AllMoved, Commit, DeleteTx, Restore,
    Fail, Cleanup, Finish, Abandon
<1>2. \A r \in Roots : lock[r] = e /\ e # d => lock'[r] = e
  BY DeletesAssumption DEF Handler, Begin, LockRoot, Plan, PlanRejected, MoveEntry, AllMoved, Commit, Restore,
    Fail, Cleanup, Finish, Abandon, Leave, ReleaseAll, TypeOK
<1>3. CASE e # d
  <2>0. overtaken'[e] = overtaken[e]
    BY <1>3 DEF Handler, Begin, LockRoot, Plan, PlanRejected, MoveEntry, AllMoved, Commit, Restore,
      Fail, Cleanup, Finish, Abandon, TypeOK
  <2>1. pc'[e] = pc[e] /\ entries'[e] = entries[e] /\ found'[e] = found[e]
    BY <1>3, HandlerElsewhere
  <2>2. \A p \in Paths : RootOf[p] \in Roots
    BY DeletesAssumption
  <2>3. Reserved(e) /\ Unplanned(e)
    OBVIOUS
  <2>4. \A unit : Members(unit)' = Members(unit) /\ Members(unit) \subseteq Paths
    BY DEF Members
  <2> HIDE DEF KeepInv, TrashInv
  <2> QED BY <1>1, <1>2, <1>3, <2>0, <2>1, <2>2, <2>3, <2>4 DEF Reserved, Unplanned
<1>4. CASE e = d /\ Plan(d)
  <2>1. pc'[d] = "move"
    BY <1>4 DEF Plan, Goto, TypeOK
  <2> QED BY <1>4, <2>1, PlanReserves DEF Unplanned
<1>5. CASE e = d /\ MoveEntry(d)
  <2>1. pc[d] = "move" /\ pc'[d] \in {"move", "restore"}
    BY <1>5 DEF MoveEntry, At, Goto, TypeOK
  <2>2. UNCHANGED <<lock, entries, found, overtaken>>
    BY <1>5 DEF MoveEntry
  <2> QED BY <1>1, <1>5, <2>1, <2>2 DEF Reserved, Members, Unplanned
<1>6. CASE e = d /\ ~Plan(d) /\ ~MoveEntry(d)
  <2>1. pc'[d] # "move"
    BY <1>6 DEF Handler, Begin, LockRoot, PlanRejected, AllMoved, Commit, Restore,
      Fail, Cleanup, Finish, Abandon, Leave, Goto, At, TypeOK
  <2>2. Reserved(d)'
    BY <2>1 DEF Reserved
  <2>3. UNCHANGED overtaken
    BY <1>1, <1>6 DEF Handler, Begin, LockRoot, PlanRejected, AllMoved, Commit, Restore,
      Fail, Cleanup, Finish, Abandon
  <2>4. pc'[d] \in {"idle", "lock"} => pc[d] \in {"idle", "lock"}
    BY <1>6 DEF Handler, Begin, LockRoot, PlanRejected, AllMoved, Commit, Restore,
      Fail, Cleanup, Finish, Abandon, Leave, Goto, At, TypeOK
  <2> QED BY <1>6, <2>2, <2>3, <2>4 DEF Unplanned
<1> QED BY <1>3, <1>4, <1>5, <1>6

LEMMA KeepStep ==
    ASSUME KeepInv, [Next]_vars
    PROVE  KeepInv'
<1>0. TypeOK /\ TrashInv'
  BY TrashStep DEF KeepInv, TrashInv
<1>1. ASSUME NEW d \in Deletes, Begin(d) \/ Handler(d) \/ Abandon(d) PROVE KeepInv'
  <2>2. GamesKeepTheirFiles'
    BY <1>1, MoveKeeps, CommitKeeps, RestoreKeeps, CleanupKeeps, OtherwiseKeeps DEF Handler
  <2>3. RowsOfGames' /\ GamesApart'
    <3>1. CASE Commit(d)
      BY <3>1, CommitKeeps
    <3>2. CASE ~Commit(d)
      <4>1. UNCHANGED <<games, rows>>
        BY <1>1, <3>2 DEF Handler, Begin, LockRoot, Plan, PlanRejected, MoveEntry, AllMoved, Restore,
          Fail, Cleanup, Finish, Abandon
      <4> QED BY <4>1 DEF KeepInv, RowsOfGames, GamesApart
    <3> QED BY <3>1, <3>2
  <2>4. \A e \in Deletes : Reserved(e)' /\ Unplanned(e)'
    BY <1>1, ReservedByHandler
  <2> QED BY <1>0, <2>2, <2>3, <2>4 DEF KeepInv
<1>2. ASSUME NEW g \in Games, IndexGame(g) PROVE KeepInv'
  BY <1>0, <1>2, IndexKeeps DEF KeepInv
<1>3. ASSUME NEW d \in Deletes, RecoverPrepared(d) \/ RecoverCommitted(d) \/ CrashInRecovery(d)
      PROVE  KeepInv'
  <2>1. UNCHANGED <<lock, pc, found, entries, games, rows, overtaken>>
    BY <1>3 DEF RecoverPrepared, RecoverCommitted, CrashInRecovery
  <2>2. \A e \in Deletes : Reserved(e)' /\ Unplanned(e)'
    BY <2>1 DEF KeepInv, Reserved, Members, Unplanned
  <2> QED BY <1>0, <1>3, <2>1, <2>2, ReconcileKeeps DEF KeepInv, RowsOfGames, GamesApart
<1>4. ASSUME NEW p \in Paths, UserCopy(p) PROVE KeepInv'
  <2>1. UNCHANGED <<lock, pc, found, entries, games, rows, journal, trash, overtaken>>
    BY <1>4 DEF UserCopy
  <2>2. \A q \in Paths : disk'[q] # disk[q] => disk[q] = "none"
    BY <1>0, <1>4 DEF UserCopy, TypeOK
  <2>3. ASSUME NEW g \in games, NEW q \in FilesOf[g] PROVE Kept(g, q)'
    <3>1. Kept(g, q) /\ rows[q] # "none" /\ q \in Paths
      BY <1>0, AllKept, PathsOfGames DEF KeepInv, RowsOfGames
    <3> QED BY <2>1, <2>2, <3>1 DEF Kept, TakenFrom
  <2>4. GamesKeepTheirFiles' /\ RowsOfGames' /\ GamesApart'
    BY <2>1, <2>3 DEF GamesKeepTheirFiles, Kept, TakenFrom, KeepInv, RowsOfGames, GamesApart
  <2>5. \A e \in Deletes : Reserved(e)' /\ Unplanned(e)'
    BY <2>1 DEF KeepInv, Reserved, Members, Unplanned
  <2> QED BY <1>0, <2>4, <2>5 DEF KeepInv
<1>5. CASE Start \/ Ready \/ Crash \/ UNCHANGED vars
  <2>1. UNCHANGED <<found, entries, games, rows, journal, disk, trash, overtaken>>
    BY <1>5 DEF Start, Ready, Crash, vars
  <2>2. ASSUME NEW e \in Deletes PROVE Reserved(e)' /\ Unplanned(e)'
    <3>1. \/ UNCHANGED <<lock, pc>> \/ pc'[e] = "gone"
          \/ (pc'[e] = "idle" /\ pc[e] = "idle")
      BY <1>5 DEF Start, Ready, Crash, vars
    <3> QED BY <2>1, <3>1 DEF KeepInv, Reserved, Members, Unplanned
  <2>3. GamesKeepTheirFiles' /\ RowsOfGames' /\ GamesApart'
    BY <2>1 DEF KeepInv, GamesKeepTheirFiles, RowsOfGames, GamesApart
  <2> QED BY <1>0, <2>2, <2>3 DEF KeepInv
<1> QED BY <1>1, <1>2, <1>3, <1>4, <1>5 DEF Next, Recovery

(* No game in the database loses a file to a delete of other games,         *)
(* whatever failed, was dropped, raced or was copied over, unless the file  *)
(* lies at a path that was another game's when the delete read its games.   *)
THEOREM DeletesKeepFiles == Spec => []GamesKeepTheirFiles
<1>1. KeepInv => GamesKeepTheirFiles
  BY DEF KeepInv
<1> QED BY <1>1, KeepInit, KeepStep, PTL DEF Spec
=============================================================================
