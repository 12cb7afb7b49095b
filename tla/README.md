# Verification of Cadence: TLA+ models, model checking and proofs

This directory holds TLA+ specifications of the parts of Cadence whose
correctness depends on the order in which several processes act, the TLC
configurations that check them on small instances, and proofs checked by TLAPS.
The reference is the Go code of the repository.

## The system and what is modelled

Cadence runs workflows as event-sourced state machines. Its services are:

* **frontend**: validates requests and routes them. No state of its own.
* **history**: owns the workflow executions, in shards. A host leases a shard by
  raising its range ID in the database, which fences the writes of earlier
  owners. A shard writes workflow state together with transfer, timer and
  replication tasks, and its queues read the tasks back and execute them.
* **matching**: owns the task lists. The history service adds decision and
  activity tasks, workers poll them. A task list manager leases its list the
  same way.
* **worker**: system workflows (scavengers, failover, batch operations).
* **common**: persistence, messaging, caches, domain metadata, rate limiters.

Three parts are modelled, the ones in which several processes share rows of the
database and each may be wrong about who owns them:

1. the **matching task list**: managers that lease a list, write, read, dispatch and
   delete its tasks;
2. the **history shard**: contexts that lease a shard, write workflows and tasks under
   the lease, and the queues (v2) that read, process and delete those tasks;
3. the **matching semaphore**: hosts that serve a bucket of tokens from a cache, and
   the history tasks that acquire tokens from them.

`PROJECT.json` lists all components with their status.

## Modules

| module | models | source |
| --- | --- | --- |
| `AckManager` | the ack manager, as operators on a record | `common/messaging/ackManager.go` |
| `TaskStore` | the rows of one task list in the database and the statements on them | `common/persistence/nosql/nosql_task_store.go` |
| `TaskList` | the task list managers, their goroutines and their callers | `service/matching/tasklist/{task_list_manager,task_writer,task_reader,task_gc,db}.go` |
| `TaskListInv` | the inductive invariant of `TaskList` in ten layers | |
| `MCTaskList` | instances of `TaskList` for TLC | |
| `AtLeastOnce` | abstract: what the queues of a shard promise | |
| `ShardContext` | the contexts of a shard, its row, its tasks, delayed statements | `service/history/shard/context.go`, `common/persistence/nosql/nosql_{shard,execution}_store.go` |
| `ShardQueue` | the contexts composed with their queues | `service/history/queuev2/queue_base.go` |
| `MCShardQueue` | instances of both for TLC | |
| `VirtualSlice` | predicates, ranges, slices: read, split, merge | `service/history/queuev2/{virtual_slice,predicate_operation,range,pending_task_tracker}.go` |
| `VirtualQueues` | the virtual queues of one owner, their loops, the mitigator, the persisted state | `service/history/queuev2/{virtual_queue,virtual_queue_manager,queue_base,mitigator}.go` |
| `MCVirtualQueues` | instances of `VirtualQueues` for TLC, with its fairness | |
| `BucketCache` | the buckets of a semaphore and a host's cache of one | `common/semaphore/buckets.go`, `service/matching/semaphore/bucket_cache.go` |
| `Semaphore` | the managers of a bucket, the calls they serve, the rows, the holds of workflows | `service/matching/semaphore/*.go`, `service/matching/handler/{engine,membership}.go`, `.../cassandra/semaphore_tokens.go` |
| `MCSemaphore` | instances of `Semaphore` for TLC | |

| proofs | about |
| --- | --- |
| `TaskListTypes` | the ack manager's operations; types of `TaskList` (layer 1); leases, task IDs and the order of reading (layers 2 to 4) |
| `TaskListLevels` | layers 5 and 6: the writer's batch, the levels |
| `TaskListSafe` | layers 7 and 8, and that a safe row stays safe |
| `TaskListKept` | layers 9 and 10, and the theorems that no task is lost and none stranded |
| `ShardProofs` | leases, task IDs and delayed writes of a shard, alone and with its queues; that its queues lose no task |
| `SliceProofs` | what splitting and merging do to the tasks of slices and to what is still to be read |
| `SemaphoreProofs` | buckets, cache, types and agreement of rows, caches and holds |
| `SemaphoreServed` | managers and their callers; the theorems about the semaphore |

### Task list

A task list is loaded by a *task list manager*. `TaskList` has a set `Manager` of
incarnations of it: a host that unloads and loads the list again is two
elements, and two hosts may have it loaded at the same time, one of them without
knowing that its lease is gone. A crash needs no action: an incarnation may stop
taking steps at any point.

Each incarnation consists of goroutines, each with a program counter:

* `Load` (`taskWriter.Start`, `renewLeaseWithRetry`): `LeaseRead` and
  `LeaseWrite` are the two statements of `LeaseTaskList`; in between another
  manager may take the lease (`LeaseFails`), and the answer may get lost
  (`LeaseLost`).
* the writer loop (`taskWriterLoop`): `WriterTake` a batch from `appendCh`,
  `WriterAlloc` an ID per request, renewing the lease when the block is used up
  (`RenewRead`, `RenewWrite`, `RenewFails`, `RenewLost`), write the batch
  (`WriterCreates`, `WriterRejected`, `WriterErrs`), and `WriterPublish` the read
  level and the answers. A write of unknown outcome goes to `late` and may take
  effect later, as long as its range ID is current (`LateWrite`).
* the reader pump (`getTasksPump`): `PumpStart` on a signal, `PumpRead` one window
  after another, `PumpEmpty` or `PumpAdd` row by row; `PumpTimer` and
  `PumpPersists`/`PumpRejected`/`PumpPersistErrs` persist the ack level.
* dispatchers and completions: `Dispatch`, `DispatchExpired`, `RecordStarted` (the
  history service answers), `FinishOK`, or `FinishErr` and one of `RewriteOK`,
  `RewriteRetry`, `RewriteGivesUp` when the task could not be started and is
  appended again.
* the garbage collector: `GCDelete` and `GCSkip` of the levels in `gcReq`. A
  request waits there as long as it likes, which covers a delete that takes
  effect late.
* `Stop`, `WatchForStop` and `StopPersist` unload the list.

The callers of `AddTask` are `SyncMatch`, `AddTask`, `AddTaskReturns` and
`AddTaskGivesUp`. A goroutine's local variables are reset when they go out of
scope.

What the model abstracts:

* The channels `appendCh` and `taskBuffers` are bounded sets: requests and rows may
  be taken in any order, which covers the several buffers of the isolation
  groups. `BufferSize` bounds the rows in the buffers and in the hands of the pump.
* Task payloads are model values. A payload is added once; a caller that retries
  after an error adds another payload.
* Time is `Expire` (a schedule-to-start timeout passes) and the pump's timer, which
  may fire whenever the pump is idle.
* The thresholds of the collector are a choice between `GCDelete` and `GCSkip`.
* A write of the task list row that takes effect after its error was reported
  is the case of an answer that is lost (`LeaseLost`, `RenewLost`, and the choice
  of `dbAck` in `PumpPersists` and `StopPersist`).
* Forwarding between partitions, query tasks, isolation groups and rate limits
  are left out; they decide when and where a poller takes a task.
* The scavenger, which deletes the row of an idle task list if its range ID has not changed, is left out.

### History shard

`ShardContext` has a set `Context` of incarnations of `contextImpl`; several may believe
that they own the shard. The row of the shard has a range ID and a queue state;
`tasks` are the rows of immediate tasks. A context holds its lock during a whole
operation, so an operation is a little program with counter `pc`:

* `AcquireShard` and `RenewRange` send a renewal (`Renewal`), answered by
  `RenewOK`, `RenewRefused` (the shard is closed) or `RenewUnknown`;
* `Begin` starts a write of a workflow, of failover markers or tasks re-injected from the DLQ
  (`ReinjectHistoryTasks`; both are the kind "marker"), or `GenerateTaskIDs`,
  `GenerateTaskID` takes one ID after another, renewing the lease when the block is
  used up; `SendWrite` sends the write, answered by `WriteOK`, `WriteFails` (a condition
  of the workflow), `WriteRefused` (the lease is lost) or `WriteUnknown`, after which the
  lease is renewed, or the shard closed, before the lock is released;
* `UpdateQueueState` persists the shard's row, answered by `PersistOK`, `PersistRefused`
  or `PersistUnknown`;
* `GetMaxReadLevel` gives the queues the level up to which they may read;
* `Unload` and `Crash` end a context.

A statement is decided in the database by `Decide`; one whose caller gave up goes to
`late` and is decided whenever `DecideLate` happens, under the range ID it was sent with.
A write of failover markers or re-injected tasks of unknown outcome is not followed by a renewal in the code;
its callers retry it, so the properties about delayed writes speak of workflow writes.

`ShardQueue` gives each context its queue: `ProcessNewTasks` up to the context's level,
`LoadTasks`, `ProcessTask`, and `updateQueueState` as `UpdateState`, `DeleteTasks` or
`DeleteFails`, `PersistState`. Reads and deletes are not conditioned on the lease, and a closed
context's queue runs until it is stopped: that is where two owners meet. The slices
of a queue are one interval here.

`VirtualQueues` has the slices of one owner in full. Each virtual queue has a loop (`Loop`)
that reads a page from the slice its position points to (`Load`), or pauses when too many tasks
are pending; the position is an index, or `Detached` when the slice was
removed from the list. The main loop adds new tasks to the root queue
(`ProcessNewTasks`), computes and persists the state (`UpdateQueueState`, `DeleteTasks`,
`SaveState`) and handles the alert of too many pending tasks (`HandleAlert`, which selects the
busiest domains, then `SplitQueue` one queue after another: the tasks of the selected
domains move to the next queue, or are unloaded in the last one). `Restart` begins again from
the saved state. The operators of `VirtualSlice` follow the code's functions: split by key and
by predicate, the three kinds of merge, and the merge of read progress.

Task keys are numbers, a predicate is a set of domains or its complement, a task's
execution is one step at any time after it is loaded. Scheduled (timer) queues are left
out: they differ in how a key is made from a time.

Where the main loop goes from queue to queue the code takes the lock of one queue at a time. `HandleAlert`, which
cleans up all queues and selects, `UpdateQueueState`, and `SplitQueue`, which splits one queue and merges into the next, are
one step each. In between, the loops of the other queues may load tasks and tasks may finish, which
changes no range and no predicate; slices move in the main loop only. The mitigator reads the live counters of the trackers without the
lock (`mitigator.go:188`). That data race is not modelled: a count that has grown meanwhile makes the selection end earlier.

### Semaphore

An *owner* is one hold of one workflow. `holder` are the token rows and `held` the
owner rows of the database; a grant (`GrantSemaphoreToken`) is a conditional batch on both, whose three
outcomes are `GrantOutcome`, and which may take effect after its caller's timeout (`DecideLate`).
A host's registered manager goes through created, starting, running and stopped:
`GetOrCreate`, `Start`, `Claim` (the fenced range ID), `BuildCache` (the scan), `FinishLoad`
or `LoadFails`; calls that find it starting wait (`AwaitStartup`). `Stop` has three steps
(`BeginStop`, `OnStop` with the unregistration, `EndStop`, which wakes the waiters)
and is called by the idle timer (`GoIdle`), the fenced write of the ack level (`ClaimLost`,
`SaveAckLevel`), a failed load (`LoadFailed`) and the membership loop (`MembershipChange`, `UnloadStop`).
A call that is served takes the lock of the cache: `FindHeldToken` and `ConfirmToken`
answer from the cache after a read of the token row; `PickFreeToken`, `WriteGrant` and `RecordGrant` try free
tokens, at most `MaxGrantAttempts` times; `NoSlot` is the answer when none is left.
`AskForToken`, `Answer`, `GiveUp` and `ReleaseHold` are the workflow's side.

Abstractions: the scan is one page; the read of the metadata is part of `Claim`; the membership
loop handles a host's bucket in one step; the shutdown of an engine is a `Crash`. Nothing in
the code queues a waiter or releases a token yet, so neither does the model. A call of
`ReleaseSemaphore` creates and loads a manager as `AskForToken` does, and is then answered that it is not
implemented; it is left out.

## Properties and runs

| property | says |
| --- | --- |
| `TypeOK` (each module) | types; in `TaskList` also that every level that is persisted or used for a delete is a natural number, although an ack manager starts at -1; in `Semaphore` that the count of free tokens is never negative; in `VirtualQueues` that the reader's position is in the list |
| `NoTaskLost` (`TaskList`) | once `AddTask` returned without an error, the task was started, has expired, or is in a row above the persisted ack level |
| `AckNeverPassesTask` | no manager's ack level, and no level the collector was called with, covers every row of an unsettled task |
| `TaskIDsUnique` | a task ID names one row, in the store, in delayed writes and in every manager |
| `ReadInOrder` | the pump never meets the error of `ReadItem` that it treats as fatal |
| `NothingStranded` | in a manager without a fatal error, what holds back the ack level is in somebody's hands |
| `EventuallyDelivered` | an accepted task is started or expires as long as some manager keeps the lease |
| `OneOwner` | two open contexts never hold the same range ID |
| `TaskIDsFresh` | the IDs an operation has taken are in no row, no delayed statement and no other operation |
| `OutcomeDecided` | when an open context has released its lock, no delayed workflow write under its lease can still succeed |
| `NoLateTask` | a workflow's task never appears at or below a level up to which a queue of an open shard has read |
| `NothingBelowAck` | no unprocessed task lies below the persisted ack level, from where the next owner of a shard starts |
| `NoTaskLost` (`ShardQueue`, `VirtualQueues`) | refinement: the shard with its queues, and the virtual queues, implement `AtLeastOnce` |
| `NoStepLosesTask` | the steps of that refinement, where a run starts from a persisted state |
| `HeldOnce` | a task that was handed to the queues and not processed belongs to exactly one slice, which has loaded it or has yet to read it |
| `Recoverable` | the persisted queue state has every unprocessed task in exactly one slice, or at or above the level from which new tasks are handed out |
| `SlicesOrdered` | the slices of a queue stay in order and do not overlap |
| `CountersExact` | the counters that the mitigator selects domains by are the numbers of tasks in the tracker |
| `Processed` | `AtLeastOnce`'s liveness: a task that was created is processed at last |
| `RowsInverse` | token rows and owner rows say the same: one holder per token, one token per owner |
| `HoldsBacked` | the token a workflow has recorded is the one the database gives it |
| `CacheBacked` | the cache of a running manager agrees with itself and gives no owner a token that the database has not given it |
| `ServesRegistered` | a running manager has not begun to stop and its host knows it, or is about to stop it |
| `NobodyStranded` | a call that waits for a manager waits for a load in progress or for a Stop on its way |
| `HolderAnswered` | an owner that holds a token is not answered that there is none |

The refinement. `AtLeastOnce` has tasks to do and tasks done. Both instances map the tasks
done to the tasks some queue has processed. To do, in `ShardQueue`, are the unprocessed rows at or above the
persisted ack level, from where the next owner starts; in `VirtualQueues` the unprocessed rows. A step that
deletes a row or moves the persisted level past it too early is no step of the abstract specification. A task that is
written below the level was never to do in this sense: that there is none is `NothingBelowAck`.

| run | instance | result |
| --- | --- | --- |
| `tasklist_takeover` | blocks of one ID, so that every write beyond the first renews the lease, in four scenarios (`Bounds` of `MCTaskList`): two managers, three leases and one disturbance; two leases, a disturbance before the takeover and one after it; one manager, four leases and two disturbances; a takeover while two tasks are written | `TypeOK`, `TaskIDsUnique`, `AckNeverPassesTask`, `NoTaskLost` hold |
| `tasklist_batches` | one manager, blocks of two IDs, tasks that expire at any time, in two scenarios: two tasks in one batch and in several with one disturbance; one task with three disturbances | `NoTaskLost`, `ReadInOrder`, `NothingStranded` hold |
| `tasklist_liveness` | one manager, two tasks, a read window of one ID and one empty read before the pump yields | `EventuallyDelivered` holds |
| `shard_ownership` | blocks of one ID, in three scenarios (`Bounds` of `MCShardQueue`): two contexts, three ranges, operations of every kind; two contexts with their queues; one context after another on a host; one statement is delayed at a time | all seven properties hold |
| `shard_closed_owner` | one context, three ranges, a write and a renewal delayed together | finds `NoTaskLost` violated |
| `queues_faults` | three tasks of two domains, two queues, pages of two, two faults | `TypeOK`, `HeldOnce`, `CountersExact`, `NoTaskLost` hold |
| `queues_resumed` | from three persisted states: three queues, six or seven tasks of three domains | `SlicesOrdered`, `HeldOnce`, `Recoverable`, `NoStepLosesTask` hold |
| `queues_progress` | three tasks of one domain, one fault | `Processed` holds |
| `queues_empty_merge` | as `queues_faults`, a moved part may have no task | finds `NoTaskLost` violated |
| `queues_reader_stalls` | three slices in the second queue | finds `Processed` violated |
| `semaphore` | two hosts, two calls, two owners, two tokens, two managers, in five scenarios (`Bounds` of `MCSemaphore`) | all six properties hold |
| `semaphore_lost_answer` | the same with one call at a time | finds `HolderAnswered` violated |

Every property that holds is also shown to be sensitive to the code: for
each one `PROJECT.json` names a mutant, an operator that changes a definition the way
a plausible bug would, under which TLC finds the property violated.

### Findings

Four runs show a disagreement of the code with its own comments or documents;
`PROJECT.json` quotes them.

* `shard_closed_owner`: a workflow write takes IDs on both sides of a renewal, its outcome is
  unknown, and the renewal after it fails too. The shard is closed, but its queues still run and
  may read up to a level past the IDs of the old range. The write lands below it and the range delete of
  the closed shard's queue removes the task unprocessed. `NoLateTask` and `OutcomeDecided` hold
  because they speak of open shards.
* `queues_empty_merge`: merging a slice whose range has become empty with a slice of another predicate
  that begins at the same key keeps the empty range: the other slice's tasks are in no slice.
  `SomeTaskMoves` of `MCVirtualQueues` leaves these mitigations out of `queues_faults` and
  `queues_resumed`, so that those runs are about all the rest; `queues_progress` runs
  without that restriction, on one domain, and holds.
* `queues_reader_stalls`: the reader moves on with `Next()` of a slice that the clean-up may have removed from
  the list; the slices after it are not read until something resets the reader.
* `semaphore_lost_answer`: a grant is applied and its answer lost; another owner's attempt on the token makes
  it unavailable in the cache, and the retry of its holder is answered that there is no slot, as long as the manager lives.

### Bounds

`MaxRangeID` limits the leases; `MaxDisturbances`, `MaxFaults` and the `Bounds` of the MC modules
limit errors, lost answers, timers, stops, crashes, expiries and moves in a behaviour. Two or three are enough
for the combinations that the hazards name: a lost answer followed by a stale write back, a takeover with a
delayed write, a failed start followed by a failed append, a lost grant followed by a move. Small blocks, pages
and buffers make every boundary happen in nearly every behaviour: with blocks of one ID each further task
of an operation renews the lease in its middle; with pages of two and a critical count of two the mitigator acts on
three tasks. A semaphore of two tokens and two owners has a free token, a contended one, and none left. `MaxLate`
limits the statements that are delayed at a time, `MaxManagers` the managers created: two on one
host, or one on each. Splitting a large space into scenarios keeps a run to
a few minutes; what is proved below needs no bounds. Deadlock is not checked: when the incarnations, the tasks and
the faults are used up the system has nothing left to do.

### Fairness

`Fairness` of `TaskList` is weak fairness of each goroutine of a manager: the Go
scheduler runs a runnable goroutine, database calls return, pollers keep
coming, and the callers of `appendTask` read their channel. Disturbances are not
fair, so nothing depends on the timer, which would hide a lost wake-up.

`Fairness` of `MCVirtualQueues`: the loop of each queue runs when it is woken, pauses end, the main loop's `select`
starves none of its cases and finishes what it has begun, and a task that is loaded again and again is processed
at last, since the processor does not wait for the queue. It says nothing of faults.

## Proofs

Every theorem holds for all values of the constants that the named `ASSUME`s of its
module allow, which TLC evaluates on every run. The provers are named so that a proof does not depend on a fast machine: a
leaf goes to Zenon, with the arithmetic it needs cited from small lemmas (`Order`, `Chain`, `Whole`, `Successor`),
and one that is beyond Zenon says `SMTT`.

### Task list

`TaskListTypes` first proves what each operation of the ack manager does for arbitrary
item IDs. `AckItemFacts` is the main one: the ack level only rises, no
outstanding ID is forgotten, and the new level is below every ID that is still
outstanding. It rests on the existence of a greatest element of a bounded set of
integers, which comes from the well-foundedness of the naturals.

It then proves `Spec => []TypeOK` of `TaskList` for every set of managers and payloads and all
sizes, from `TaskListAssumption` only (the sizes are positive integers). `TypeOK` is not
inductive: `WriterPublish` takes the highest ID of the writer's batch, and
`StopPersist` and the collector use the ack level as a natural number. `TypeInv` of
`TaskListInv` adds the shape of the writer's batch at each place of its loop and that
the levels of a loaded manager were set. The proof has one step per action, and
under it one step per group of variables that the action changes.

The other theorems about `TaskList` rest on the inductive invariant `IInv` of
`TaskListInv`, from the same assumption. It has ten layers; each is inductive given
the ones before it, so that each proof deals with one idea:

1. `TypeInv`: types.
2. `LeaseInv`: no two managers hold the same lease, and a manager hands out the IDs
   of the block of its lease.
3. `RowInv`: IDs name rows uniquely; a used ID is in no block's unused part.
4. `OrderInv`: what the pump is about to read is above the read level, and what the ack
   manager tracks is between its levels.
5. `RenewInv`, `WriterInv`: the writer's batch has IDs above the manager's read level
   limit, and the owner's IDs are above the block of every other manager.
6. `LevelInv`: every level of a manager (read, remembered, about to be persisted,
   requested for deletion) is at or below its limit; the persisted one, and what
   a lease in progress has read of it, is at or below the owner's.
7. `ReadInv`: a request that replaces a row replaces one at or below the limit.
8. `FiniteInv`: there are finitely many rows.
9. `KeptInv`: whenever a caller has been, or is about to be, told that its task is
   written, the task is settled or has a *safe* row, later than the row that
   it replaces.
10. `HandInv`: in a running manager without a fatal error a row is in one place at a time (buffered, started,
   or being appended again), and the rows in those places are exactly those that hold back the ack level.

A row is safe (`Safe`) if it is in the store above the persisted ack level and no manager,
whether it has the lease or not, has acknowledged it, read past it, remembered a level
above it for the store or the collector, or is in the middle of a read or a lease that will
bring it past. `NoTaskLost` is not inductive because a stale manager's levels matter: its
deletes are not fenced. The argument of layer 9 has two halves. A row is safe when it is written
(`NewRowSafe`): its ID is above the limit of its writer and above the block of everybody
else, hence, by layer 6, above every level there is. And a safe row stays safe
(`SafeStep`) unless its task is settled or the row is completed after its task was appended
again, and then the answer to that append has brought a later safe row.

`NothingStranded` is half of layer 10 and not inductive without the other half: only because a row that leaves one place is not
still in another does completing it take its ID from both sides of the equation.

The theorems are `IDsUnique`, `LeaseGivesBlock`, `RowsReadInOrder` (`TaskListTypes`), `Inductive`,
`TasksKept`, `AckBelowTasks` and `HandsComplete` (`TaskListKept`). The lemmas named `...Changes` list the
actions that touch some variables, those named `...Effects` say what a step does to one
manager's part of them, and those named `...Step` show that a layer is inductive.

`EventuallyDelivered` is only model-checked: liveness under fairness is out of the
prover's reach. The layers of `IInv` are not part of a run: layer 1
quantifies over the natural numbers, which TLC cannot enumerate.

### History shard

`ShardProofs` is about `ShardContext` alone (`Spec`, with arbitrary updates of the queue state) and composed
with the queues (`QSpec`). Its assumptions are a positive range size, queue states that are natural numbers, and
that the bounds are natural numbers. None of the properties is inductive. `IInv` adds:

* `ContextsOK`: what an operation knows at each place of its program, and that the next ID of an open
  context is in the block of its range, above its level and above all that was read;
* `LeasesOK`: a range ID belongs to one context, counting a grant whose answer is still on its way;
* `IDsOK`: an ID that is written, delayed or taken is below the end of the newest block, and no context
  will take it again;
* `FreshOK`, `OrderOK`: the IDs of an operation are its own, and above the blocks of older leases;
* `LateOK`: whoever sent a delayed workflow write has lost its lease or is renewing it, and in the second case
  its queues have not read up to the write's IDs.

The lemmas `...Step` show what a group of actions does, `NextKeeps` and `QNextKeeps` that a step keeps `IInv`.
`LeaseIsExclusive`, `TaskIDsAreFresh`, `OutcomesAreDecided` and `ShardTypes` follow from it at once; `NoTaskIsLate` also needs that a new
row is the write of a context that holds the lease, or a delayed one (`NewTasks`).

The second half is about what the queues do to the tasks: `AckLevelSafe` (`NothingBelowAck`) and `TasksAreKept`
(`NoTaskLost`, the refinement of `AtLeastOnce`), for any number of owners whose queues read, delete and persist beside each other, whatever
statements are delayed and whoever crashes. `AckLevelSafe` holds as it stands. `NoTaskLost` does not, as the finding `shard_closed_owner`
shows, and `TasksAreKept` has what is missing as a hypothesis on the steps, `RecoveryDecided`: when the renewal after a workflow write of
unknown outcome fails, it was executed or refused before its caller gave up on it, so that it is not still on its way when the
shard is closed. TLC's counterexample in that run has one step that breaks the hypothesis, the one that closes the shard.

The inductive invariant `QInv` is stated with the IDs that a task may still be written with (`FutureID`): taken by an operation under the
current lease, carried by a delayed write under it, or yet to be given out under it or a later one. It says that

* every *level* there is (the persisted ack level, the one each context remembers, the ones in statements on their
  way, the one each queue has computed) is *passed*: the tasks below it are processed, and no future ID is
  below it;
* what a queue, of whichever owner, has read is processed or pending, and it has been allowed to read only
  below all future IDs;
* a statement that was refused, other than the first renewal of a new owner, was sent under an older lease.

It has a parameter. `QInv(TRUE)` speaks of the queues of all contexts, and also says that the level of a closed one is below all future IDs, which
needs the hypothesis; `QInv(FALSE)` leaves out the closed contexts, whose queues may still delete tasks but
can no longer write the shard's row, and is inductive without it.

Such levels matter for stale owners as much as for the current one, since deletes are not fenced, and a renewal of the lease writes
back the ack level that its context remembers. The proof sorts the steps by what they do to leases and statements (`Still`, `Sends`, `Leaves`, ...); in
each group it shows that no future ID appears, or that the new ones lie above every level.

### Slices

`SliceProofs` proves for arbitrary slices what the functions of `virtual_slice.go` do to the tasks that a slice *holds* (`Holds`:
the key is in its range and the domain satisfies its predicate), and to the keys that are still *to be read* (`ToRead`):

* `PredicateAlgebra`: `And`, `Or` and `Not` are what they are called, for each combination of the two kinds of predicates;
* `SplitByKeyKeepsTasks`, `SplitByPredicateKeepsTasks`: each task of a slice is held by exactly one of the parts;
* `MergeKeepsTasks`: what replaces two merged slices holds the tasks of both and no other, in order and
  without overlap, for equal and for different predicates and every way their ranges may lie. Both slices must have a key. That
  an empty one breaks it is the finding `queues_empty_merge`;
* `SplitProgressKeepsKeys`: a key that is to be read is to be read in the part that holds it. Nothing else is to be read as long as the progress begins at or
  after the slice. `UpdateAndGetState` moves the lower end of the slice and not that of the progress, and then the left part may read
  keys up to the split once more, which costs time and loses nothing;
* `SamePredicateProgress`, `DifferentPredicateProgress`: the merge of two progresses leaves to be read exactly what lies in one of the two
  ranges and was read in neither, and exactly what was to be read in either. The comments in the code list these as ten
  and as seven cases.

The slices are records of the right shape with integer ends (`IsSlice`); their trackers are arbitrary.

### Semaphore

`SemaphoreProofs` proves that the buckets of any semaphore partition its tokens (`BucketsPartition`), that
`updateToken` keeps the index by owner and the free count of a cache right whatever it writes
(`UpdateIndexed`), the types, and that `Agree` is inductive: `RowsInverse`, `HoldsBacked`
and `CacheBacked` with what each call has seen of the rows, which stays true because no token is released.
`SemaphoreServed` proves that `Served` is inductive: a manager that starts is loaded by exactly one call, one that has not begun
to stop is registered or about to be stopped, and one that has stopped has woken its waiters or
is about to. The theorems are `RowsAgree`, `HoldsAreBacked`, `CachesAreBacked`, `ServingIsRegistered`, `WaitersAreWoken`,
`SemaphoreTypes`. They assume that the bucket is one of the semaphore's and that the
special values are not owners (`BucketAssumption`, `SemaphoreAssumption`).

### Only model-checked

Liveness under fairness (`EventuallyDelivered`, `Processed`) is out of the prover's reach.

So are the invariants of `VirtualQueues` (`TypeOK`, `HeldOnce`, `Recoverable`, `CountersExact`, `SlicesOrdered`) and its refinement: they rest on what folds over
lists of slices and of progresses, and sums over trackers, compute for lists of any length, which takes an induction over
data; `SliceProofs` has what one split and one merge do. Moreover `HeldOnce` and `NoTaskLost` do not hold of
the queues in general (`queues_empty_merge`), so that they are checked on instances that leave the case out. TLC checks them on three to seven tasks.

`HolderAnswered` is what `semaphore_lost_answer` refutes.

## Not modelled

* **Workflow state** (`service/history/execution`, `decision`, `events`): sequential code over large records, under the
  lock of one workflow.
* **Replication, failover, domains**: a protocol between clusters of its own, over version
  histories and event branches. It is the largest part left out.
* **Timer queues, the cached reader, v1 queues, the DLQ**: they need the shard's clock, or repeat what the v2 queues do.
* **Matcher, forwarder, scaler, rate limiters, schedulers**: they decide when and where something happens
  within what the models allow at any time, mostly from averages over real time.
* **The scavenger of idle task lists**: its delete is conditioned on the range ID it has read, and what
  makes it act is an idle time of two days, which has no counterpart in the models.
* **Frontend, clients, persistence plumbing, visibility, archival, tools**: validation, conversion and I/O.
