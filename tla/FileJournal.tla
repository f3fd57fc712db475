---------------------------- MODULE FileJournal ----------------------------
(* The journal of managed-file operations: one row per operation in the     *)
(* table file_operations, whose state drives what recovery does with the    *)
(* files the operation touched (src/repositories/file_operations.rs and     *)
(* src/services/file_operations.rs).  A journal is a function from          *)
(* operation ids to row states; "absent" is an id with no row.              *)

(* FileOperationState, and the absence of a row. *)
JournalStates ==
    {"absent", "prepared", "db_committed", "cleanup_pending", "completed", "failed"}

(* The states in which reconciliation decides from the database which side won. *)
Undecided == {"prepared", "failed"}

(* The states that say the metadata transaction committed. *)
Committed == {"db_committed", "cleanup_pending"}

(* The rows that repositories::file_operations::pending returns. *)
Unfinished == Undecided \cup Committed

(* create: a fresh row starts in prepared. *)
CreateRow(journal, op) == [journal EXCEPT ![op] = "prepared"]

(* set_state: the UPDATE touches no row that does not exist, and never      *)
(* takes a completed row back to another state.                             *)
SetState(journal, op, state) ==
    IF journal[op] = "absent" \/ (journal[op] = "completed" /\ state # "completed")
      THEN journal
      ELSE [journal EXCEPT ![op] = state]

(* set_state_tx: unconditional, inside the caller's transaction. *)
SetStateTx(journal, op, state) == [journal EXCEPT ![op] = state]

PendingOps(journal) == {op \in DOMAIN journal : journal[op] \in Unfinished}
=============================================================================
