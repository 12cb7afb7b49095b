----------------------------- MODULE TaskStore -----------------------------
(***************************************************************************)
(* The persistence interface of one task list, as the NoSQL store          *)
(* implements it (common/persistence/nosql/nosql_task_store.go): the row   *)
(* of the task list (the range ID of the current lease and the persisted   *)
(* ack level) and the rows of its tasks.                                   *)
(*                                                                         *)
(* A store is a record; rangeID = 0 stands for a task list without a row.  *)
(* Each operator is one conditional statement of the database (a           *)
(* light-weight transaction on the partition of the task list), except     *)
(* CompleteTasksLessThan, which carries no condition.                      *)
(***************************************************************************)
EXTENDS Integers, FiniteSets

CONSTANT Payload   \* the tasks callers add: what a row refers to

Rows == [id : Nat, p : Payload]

Stores == [rangeID : Nat, ackLevel : Nat, tasks : SUBSET Rows]

EmptyStore == [rangeID |-> 0, ackLevel |-> 0, tasks |-> {}]

(***************************************************************************)
(* LeaseTaskList is a read followed by a conditional write of the row that *)
(* was read: `seen' is that row.  The condition is on the range ID alone,  *)
(* and the ack level that was read is written back.  A row that was absent *)
(* is inserted with range ID 1 and ack level 0.                            *)
(***************************************************************************)
\* Mutant: the write of the lease is not conditioned on the row that was read.
LeaseAppliesAlways(store, seen) == TRUE

\* The condition of the write.
LeaseApplies(store, seen) == store.rangeID = seen.rangeID

LeaseTaskList(store, seen) ==
  [store EXCEPT !.rangeID = seen.rangeID + 1, !.ackLevel = seen.ackLevel]

\* Mutant: writes are not conditioned on the lease.
OwnsUnchecked(store, rangeID) == TRUE

\* The condition of UpdateTaskList and of CreateTasks: the caller's lease.
Owns(store, rangeID) == store.rangeID = rangeID

UpdateTaskList(store, ackLevel) == [store EXCEPT !.ackLevel = ackLevel]

\* An insert replaces a row that has the same key.
CreateTasks(store, rows) ==
  [store EXCEPT !.tasks =
     {t \in @ : \A r \in rows : r.id # t.id} \cup rows]

\* The batchSize lowest rows with readLevel < id <= maxReadLevel.
Window(store, readLevel, maxReadLevel) ==
  {t \in store.tasks : readLevel < t.id /\ t.id <= maxReadLevel}

GetTasks(store, readLevel, maxReadLevel, batchSize) ==
  LET rows == Window(store, readLevel, maxReadLevel)
  IN  {t \in rows : Cardinality({u \in rows : u.id < t.id}) < batchSize}

\* Mutant: one row too many is deleted.
CompleteTasksPast(store, taskID) ==
  [store EXCEPT !.tasks = {t \in @ : t.id > taskID + 1}]

\* All rows up to and including taskID, whoever asks.
CompleteTasksLessThan(store, taskID) ==
  [store EXCEPT !.tasks = {t \in @ : t.id > taskID}]

\* The database drops rows whose time to live has passed.
DropRow(store, row) == [store EXCEPT !.tasks = @ \ {row}]
============================================================================
