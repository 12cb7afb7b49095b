------------------------------ MODULE TaskList ------------------------------
(***************************************************************************)
(* A task list of the matching service: the task list managers that load   *)
(* it, one after another or at the same time on several hosts, and the     *)
(* store they share (service/matching/tasklist).                           *)
(*                                                                         *)
(* A manager leases the task list by raising its range ID in the store.    *)
(* The lease gives it a block of task IDs and fences its writes: the       *)
(* store rejects a write that carries an older range ID.  Reads and range  *)
(* deletes are not fenced.  A manager is a writer goroutine (appends       *)
(* batches of tasks), a reader pump (loads tasks and persists the ack      *)
(* level), dispatchers (hand tasks to pollers) and one goroutine per task  *)
(* that is being completed.                                                *)
(*                                                                         *)
(* An element of Manager is one incarnation: a host that loads the task    *)
(* list again uses another one.  A stopped incarnation keeps its           *)
(* outstanding completions and deletes.  A crash needs no action: the      *)
(* incarnation takes no further step, which Spec allows at any point, and  *)
(* the write it was waiting for is a write of unknown outcome.             *)
(*                                                                         *)
(* A database write may fail and yet take effect later, as long as the     *)
(* range ID it was conditioned on is still current (`late').  A read that  *)
(* fails changes nothing and is not an action.                             *)
(***************************************************************************)
EXTENDS Integers, FiniteSets, AckManager, TaskStore

CONSTANTS
  Manager,          \* incarnations of the task list manager
  Expiring,         \* tasks with a schedule-to-start timeout
  RangeSize,        \* task IDs per lease
  BatchSize,        \* GetTasksBatchSize: rows per read
  BufferSize,       \* rows in taskBuffers or held by the pump or a dispatcher
  ReadRangeSize,    \* IDs covered by one read
  ReadIterations,   \* empty reads before the pump yields (10 in the code)
  WriteBatchSize,   \* requests written together (MaxTaskBatchSize + 1)
  AppendThreshold,  \* capacity of appendCh
  MaxRangeID        \* bound of the model: no lease beyond this range ID

ASSUME TaskListAssumption ==
  /\ Expiring \subseteq Payload
  /\ RangeSize \in Nat \ {0}
  /\ BatchSize \in Nat \ {0}
  /\ BufferSize \in Nat \ {0}
  /\ ReadRangeSize \in Nat \ {0}
  /\ ReadIterations \in Nat \ {0}
  /\ WriteBatchSize \in Nat \ {0}
  /\ AppendThreshold \in Nat
  /\ MaxRangeID \in Nat

VARIABLES
  store,     \* the task list's rows in the database
  late,      \* task writes that failed but may still take effect
  resp,      \* what the caller of AddTask was told, per payload
  done,      \* payloads the history service recorded as started
  expired,   \* payloads past their schedule-to-start timeout
  st,        \* life cycle of a manager
  lease,     \* taskListDB.rangeID
  dbAck,     \* taskListDB.ackLevel
  seen,      \* the row read by a LeaseTaskList in progress
  next,      \* taskIDBlock.start: the next task ID to hand out
  last,      \* taskIDBlock.end
  maxRead,   \* taskWriter.maxReadLevel
  appendCh,  \* requests queued for the writer
  wpc,       \* where the writer loop is
  wpend,     \* requests of the writer's batch without a task ID
  walloc,    \* requests of the writer's batch with their task IDs
  wres,      \* outcome of the writer's CreateTasks
  wstopped,  \* taskWriter.stopped
  replies,   \* responses on their way to the callers of appendTask
  rewriting, \* rows whose completion waits for their task to be re-appended
  fatal,     \* the reader or the writer asked for the list to be unloaded
  ack,       \* the ack manager
  notify,    \* notifyC holds a signal
  ppc,       \* where the reader pump is
  cursor,    \* read level of the read in progress
  pmax,      \* maxReadLevel of the read in progress
  iter,      \* empty reads so far
  batch,     \* rows read and not yet buffered
  buffer,    \* rows waiting for a poller, the one the pump is sending included
  started,   \* rows handed to a poller and not yet completed
  pval,      \* ack level the pump is about to persist
  sval,      \* ack level Stop is about to persist
  gcReq,     \* ack levels with which the garbage collector was called
  gcAck      \* taskGC.ackLevel

storeVars  == <<store, late>>
callerVars == <<resp, done, expired>>
leaseVars  == <<st, lease, dbAck, seen, next, last>>
writerVars == <<maxRead, appendCh, wpc, wpend, walloc, wres, wstopped, replies>>
pumpVars   == <<notify, ppc, cursor, pmax, iter, batch, pval>>
taskVars   == <<ack, buffer, started, rewriting>>
stopVars   == <<fatal, sval>>
gcVars     == <<gcReq, gcAck>>
vars == <<storeVars, callerVars, leaseVars, writerVars, pumpVars, taskVars,
          stopVars, gcVars>>

Requests == [p : Payload, old : Nat]            \* old = 0: sent by AddTask
Allocs   == [id : Nat, p : Payload, old : Nat]

NothingSeen == [rangeID |-> 0, ackLevel |-> 0]

Min2(a, b) == IF a < b THEN a ELSE b

\* rangeIDToTaskIDBlock
BlockStart(rangeID) == (rangeID - 1) * RangeSize + 1
BlockEnd(rangeID)   == rangeID * RangeSize

\* Mutant: a pending signal is overwritten.
SignalOverwrites(m, cond) == notify' = [notify EXCEPT ![m] = cond]

\* taskReader.Signal: the channel holds at most one signal.
SignalIf(m, cond) == notify' = [notify EXCEPT ![m] = @ \/ cond]

Signal(m) == SignalIf(m, TRUE)

Alive(m) == st[m] \in {"running", "stopping", "stopped"}

\* The db mutex is held while a lease renewal is in progress.
DbUnlocked(m) == wpc[m] # "renew"
-----------------------------------------------------------------------------
Init ==
  /\ store = EmptyStore /\ late = {}
  /\ resp = [p \in Payload |-> "none"] /\ done = {} /\ expired = {}
  /\ st = [m \in Manager |-> "new"]
  /\ lease = [m \in Manager |-> 0]
  /\ dbAck = [m \in Manager |-> 0]
  /\ seen = [m \in Manager |-> NothingSeen]
  /\ next = [m \in Manager |-> 0]
  /\ last = [m \in Manager |-> 0]
  /\ maxRead = [m \in Manager |-> 0]
  /\ appendCh = [m \in Manager |-> {}]
  /\ wpc = [m \in Manager |-> "idle"]
  /\ wpend = [m \in Manager |-> {}]
  /\ walloc = [m \in Manager |-> {}]
  /\ wres = [m \in Manager |-> "ok"]
  /\ wstopped = [m \in Manager |-> FALSE]
  /\ replies = [m \in Manager |-> {}]
  /\ rewriting = [m \in Manager |-> {}]
  /\ fatal = [m \in Manager |-> FALSE]
  /\ ack = [m \in Manager |-> NewAckManager]
  /\ notify = [m \in Manager |-> FALSE]
  /\ ppc = [m \in Manager |-> "idle"]
  /\ cursor = [m \in Manager |-> 0]
  /\ pmax = [m \in Manager |-> 0]
  /\ iter = [m \in Manager |-> 0]
  /\ batch = [m \in Manager |-> {}]
  /\ buffer = [m \in Manager |-> {}]
  /\ started = [m \in Manager |-> {}]
  /\ pval = [m \in Manager |-> 0]
  /\ sval = [m \in Manager |-> 0]
  /\ gcReq = [m \in Manager |-> {}]
  /\ gcAck = [m \in Manager |-> 0]
-----------------------------------------------------------------------------
(***************************************************************************)
(* Loading: taskListManagerImpl.Start and taskWriter.Start.  A manager     *)
(* without a lease steals the task list from whoever holds it.             *)
(***************************************************************************)
LeaseRead(m) ==
  /\ st[m] = "new" /\ store.rangeID < MaxRangeID
  /\ st' = [st EXCEPT ![m] = "leasing"]
  /\ seen' = [seen EXCEPT ![m] = [rangeID  |-> store.rangeID,
                                  ackLevel |-> store.ackLevel]]
  /\ UNCHANGED <<storeVars, callerVars, lease, dbAck, next, last, writerVars,
                 pumpVars, taskVars, stopVars, gcVars>>

LeaseWrite(m) ==
  LET rangeID == seen[m].rangeID + 1 IN
  /\ st[m] = "leasing" /\ LeaseApplies(store, seen[m])
  /\ store' = LeaseTaskList(store, seen[m])
  /\ st' = [st EXCEPT ![m] = "running"]
  /\ lease' = [lease EXCEPT ![m] = rangeID]
  /\ dbAck' = [dbAck EXCEPT ![m] = seen[m].ackLevel]
  /\ ack' = [ack EXCEPT ![m] = SetAckLevel(@, seen[m].ackLevel)]
  /\ next' = [next EXCEPT ![m] = BlockStart(rangeID)]
  /\ last' = [last EXCEPT ![m] = BlockEnd(rangeID)]
  /\ maxRead' = [maxRead EXCEPT ![m] = BlockStart(rangeID) - 1]
  /\ Signal(m)
  /\ seen' = [seen EXCEPT ![m] = NothingSeen]
  /\ UNCHANGED <<late, callerVars, appendCh, wpc, wpend, walloc, wres,
                 wstopped, replies, ppc, cursor, pmax, iter, batch, pval,
                 buffer, started, rewriting, stopVars, gcVars>>

\* The lease was taken but the answer was lost: the manager tries again.
LeaseLost(m) ==
  /\ st[m] = "leasing" /\ LeaseApplies(store, seen[m])
  /\ store' = LeaseTaskList(store, seen[m])
  /\ st' = [st EXCEPT ![m] = "new"]
  /\ seen' = [seen EXCEPT ![m] = NothingSeen]
  /\ UNCHANGED <<late, callerVars, lease, dbAck, next, last, writerVars,
                 pumpVars, taskVars, stopVars, gcVars>>

\* Another manager leased the task list in between: Start returns an error.
LeaseFails(m) ==
  /\ st[m] = "leasing" /\ ~LeaseApplies(store, seen[m])
  /\ st' = [st EXCEPT ![m] = "failed"]
  /\ seen' = [seen EXCEPT ![m] = NothingSeen]
  /\ UNCHANGED <<storeVars, callerVars, lease, dbAck, next, last, writerVars,
                 pumpVars, taskVars, stopVars, gcVars>>
-----------------------------------------------------------------------------
(***************************************************************************)
(* AddTask: a poller that is waiting takes the task (sync match), or the   *)
(* task goes to the writer.  An AddTask that fails before it has queued    *)
(* the task changes nothing.                                               *)
(***************************************************************************)
SyncMatch(m, p) ==
  /\ st[m] = "running" /\ resp[p] = "none"
  /\ resp' = [resp EXCEPT ![p] = "ok"]
  /\ done' = done \cup {p}
  /\ UNCHANGED <<storeVars, expired, leaseVars, writerVars, pumpVars, taskVars,
                 stopVars, gcVars>>

AddTask(m, p) ==
  /\ st[m] = "running" /\ ~wstopped[m] /\ resp[p] = "none"
  /\ Cardinality(appendCh[m]) < AppendThreshold
  /\ resp' = [resp EXCEPT ![p] = "wait"]
  /\ appendCh' = [appendCh EXCEPT ![m] = @ \cup {[p |-> p, old |-> 0]}]
  /\ UNCHANGED <<storeVars, done, expired, leaseVars, maxRead, wpc, wpend,
                 walloc, wres, wstopped, replies, pumpVars, taskVars,
                 stopVars, gcVars>>

\* The caller's context ends, or the writer stops, before an answer arrives.
\* The request stays where it is and may still be written.
AddTaskGivesUp(p) ==
  /\ resp[p] = "wait"
  /\ resp' = [resp EXCEPT ![p] = "err"]
  /\ replies' = [m \in Manager |->
                   {a \in replies[m] : a.req # [p |-> p, old |-> 0]}]
  /\ UNCHANGED <<storeVars, done, expired, leaseVars, maxRead, appendCh, wpc,
                 wpend, walloc, wres, wstopped, pumpVars, taskVars, stopVars,
                 gcVars>>

AddTaskReturns(m, p) ==
  \E a \in replies[m] :
    /\ a.req = [p |-> p, old |-> 0]
    /\ replies' = [replies EXCEPT ![m] = @ \ {a}]
    /\ resp' = [resp EXCEPT ![p] = IF a.res = "ok" THEN "ok" ELSE "err"]
    /\ SignalIf(m, a.res = "ok")
    /\ UNCHANGED <<storeVars, done, expired, leaseVars, maxRead, appendCh,
                   wpc, wpend, walloc, wres, wstopped, ppc, cursor, pmax,
                   iter, batch, pval, taskVars, stopVars, gcVars>>
-----------------------------------------------------------------------------
(***************************************************************************)
(* taskWriterLoop: take a batch, give every request a task ID (renewing    *)
(* the lease when the block is used up), write the batch, publish the      *)
(* read level and answer the callers.                                      *)
(***************************************************************************)
\* Callers of appendTask that still wait for an answer.
Waiting(m, req) ==
  IF req.old = 0 THEN resp[req.p] = "wait"
                 ELSE [id |-> req.old, p |-> req.p] \in rewriting[m]

\* sendWriteResponse
Answers(m, reqs, res) ==
  {[req |-> r, res |-> res] : r \in {q \in reqs : Waiting(m, q)}}

RequestOf(a) == [p |-> a.p, old |-> a.old]

WriterTake(m) ==
  \E reqs \in SUBSET appendCh[m] :
    /\ Alive(m) /\ ~wstopped[m] /\ wpc[m] = "idle" /\ reqs # {}
    /\ Cardinality(reqs) = Min2(Cardinality(appendCh[m]), WriteBatchSize)
    /\ appendCh' = [appendCh EXCEPT ![m] = @ \ reqs]
    /\ wpend' = [wpend EXCEPT ![m] = reqs]
    /\ wpc' = [wpc EXCEPT ![m] = "alloc"]
    /\ UNCHANGED <<storeVars, callerVars, leaseVars, maxRead, walloc, wres,
                   wstopped, replies, pumpVars, taskVars, stopVars, gcVars>>

WriterAlloc(m) ==
  \E req \in wpend[m] :
    /\ Alive(m) /\ wpc[m] = "alloc" /\ next[m] <= last[m]
    /\ walloc' = [walloc EXCEPT ![m] =
                    @ \cup {[id |-> next[m], p |-> req.p, old |-> req.old]}]
    /\ wpend' = [wpend EXCEPT ![m] = @ \ {req}]
    /\ next' = [next EXCEPT ![m] = @ + 1]
    /\ UNCHANGED <<storeVars, callerVars, st, lease, dbAck, seen, last, maxRead,
                   appendCh, wpc, wres, wstopped, replies, pumpVars, taskVars,
                   stopVars, gcVars>>

\* The read of LeaseTaskList: it fails unless the lease is still the caller's.
NeedsBlock(m) == Alive(m) /\ wpc[m] = "alloc" /\ wpend[m] # {} /\ next[m] > last[m]

RenewRead(m) ==
  /\ NeedsBlock(m) /\ Owns(store, lease[m]) /\ store.rangeID < MaxRangeID
  /\ wpc' = [wpc EXCEPT ![m] = "renew"]
  /\ seen' = [seen EXCEPT ![m] = [rangeID  |-> store.rangeID,
                                  ackLevel |-> store.ackLevel]]
  /\ UNCHANGED <<storeVars, callerVars, st, lease, dbAck, next, last, maxRead,
                 appendCh, wpend, walloc, wres, wstopped, replies, pumpVars,
                 taskVars, stopVars, gcVars>>

RenewWrite(m) ==
  LET rangeID == seen[m].rangeID + 1 IN
  /\ Alive(m) /\ wpc[m] = "renew" /\ LeaseApplies(store, seen[m])
  /\ store' = LeaseTaskList(store, seen[m])
  /\ lease' = [lease EXCEPT ![m] = rangeID]
  /\ dbAck' = [dbAck EXCEPT ![m] = seen[m].ackLevel]
  /\ next' = [next EXCEPT ![m] = BlockStart(rangeID)]
  /\ last' = [last EXCEPT ![m] = BlockEnd(rangeID)]
  /\ wpc' = [wpc EXCEPT ![m] = "alloc"]
  /\ seen' = [seen EXCEPT ![m] = NothingSeen]
  /\ UNCHANGED <<late, callerVars, st, maxRead, appendCh, wpend, walloc,
                 wres, wstopped, replies, pumpVars, taskVars, stopVars, gcVars>>

\* renewLeaseWithRetry gives up: the writer stops and fails its batch.
GiveUpLease(m) ==
  /\ wstopped' = [wstopped EXCEPT ![m] = TRUE]
  /\ fatal' = [fatal EXCEPT ![m] = TRUE]
  /\ wpc' = [wpc EXCEPT ![m] = "idle"]
  /\ wpend' = [wpend EXCEPT ![m] = {}]
  /\ walloc' = [walloc EXCEPT ![m] = {}]
  /\ replies' = [replies EXCEPT ![m] = @ \cup
       Answers(m, wpend[m] \cup {RequestOf(a) : a \in walloc[m]}, "failed")]
  /\ seen' = [seen EXCEPT ![m] = NothingSeen]
  /\ UNCHANGED <<late, callerVars, st, lease, dbAck, next, last, maxRead, appendCh, wres, pumpVars,
                 taskVars, sval, gcVars>>

RenewFails(m) ==
  /\ \/ NeedsBlock(m) /\ ~Owns(store, lease[m])
     \/ Alive(m) /\ wpc[m] = "renew" /\ ~LeaseApplies(store, seen[m])
  /\ GiveUpLease(m)
  /\ UNCHANGED store

\* The lease was renewed but the answer was lost: the retry, which still
\* carries the old range ID, is rejected.
RenewLost(m) ==
  /\ Alive(m) /\ wpc[m] = "renew" /\ LeaseApplies(store, seen[m])
  /\ store' = LeaseTaskList(store, seen[m])
  /\ GiveUpLease(m)

\* The rows of the batch: a task already past its timeout is not written again.
BatchRows(m) ==
  {[id |-> a.id, p |-> a.p] : a \in
     {b \in walloc[m] : b.old # 0 => b.p \notin expired}}

BatchReady(m) == Alive(m) /\ wpc[m] = "alloc" /\ wpend[m] = {}

WriterCreates(m) ==
  /\ BatchReady(m) /\ Owns(store, lease[m])
  /\ store' = CreateTasks(store, BatchRows(m))
  /\ wres' = [wres EXCEPT ![m] = "ok"]
  /\ wpc' = [wpc EXCEPT ![m] = "publish"]
  /\ UNCHANGED <<late, callerVars, leaseVars, maxRead, appendCh, wpend, walloc,
                 wstopped, replies, pumpVars, taskVars, stopVars, gcVars>>

\* A condition failure: the list belongs to another manager (handleErr).
WriterRejected(m) ==
  /\ BatchReady(m) /\ ~Owns(store, lease[m])
  /\ wres' = [wres EXCEPT ![m] = "failed"]
  /\ fatal' = [fatal EXCEPT ![m] = TRUE]
  /\ wpc' = [wpc EXCEPT ![m] = "publish"]
  /\ UNCHANGED <<storeVars, callerVars, leaseVars, maxRead, appendCh, wpend,
                 walloc, wstopped, replies, pumpVars, taskVars, sval, gcVars>>

\* Any other error: nobody knows whether the write takes effect, or when.
WriterErrs(m) ==
  /\ BatchReady(m)
  /\ late' = late \cup {[rangeID |-> lease[m], rows |-> BatchRows(m)]}
  /\ wres' = [wres EXCEPT ![m] = "error"]
  /\ wpc' = [wpc EXCEPT ![m] = "publish"]
  /\ UNCHANGED <<store, callerVars, leaseVars, maxRead, appendCh, wpend, walloc,
                 wstopped, replies, pumpVars, taskVars, stopVars, gcVars>>

LateWrite(w) ==
  /\ Owns(store, w.rangeID)
  /\ store' = CreateTasks(store, w.rows)
  /\ late' = late \ {w}
  /\ UNCHANGED <<callerVars, leaseVars, writerVars, pumpVars, taskVars,
                 stopVars, gcVars>>

\* The read level moves past the batch whatever became of it.
WriterPublish(m) ==
  /\ Alive(m) /\ wpc[m] = "publish"
  /\ maxRead' = [maxRead EXCEPT ![m] = Highest({a.id : a \in walloc[m]})]
  /\ replies' = [replies EXCEPT ![m] = @ \cup
                   Answers(m, {RequestOf(a) : a \in walloc[m]}, wres[m])]
  /\ walloc' = [walloc EXCEPT ![m] = {}]
  /\ wpc' = [wpc EXCEPT ![m] = "idle"]
  /\ wres' = [wres EXCEPT ![m] = "ok"]
  /\ UNCHANGED <<storeVars, callerVars, leaseVars, appendCh, wpend,
                 wstopped, pumpVars, taskVars, stopVars, gcVars>>
-----------------------------------------------------------------------------
(***************************************************************************)
(* getTasksPump: on a signal read the rows above the read level, in        *)
(* windows of ReadRangeSize IDs, and buffer them; on the timer persist the *)
(* ack level.                                                              *)
(***************************************************************************)
PumpStart(m) ==
  /\ st[m] = "running" /\ ppc[m] = "idle" /\ notify[m]
  /\ notify' = [notify EXCEPT ![m] = FALSE]
  /\ ppc' = [ppc EXCEPT ![m] = "read"]
  /\ cursor' = [cursor EXCEPT ![m] = ack[m].readLevel]
  /\ pmax' = [pmax EXCEPT ![m] = maxRead[m]]
  /\ iter' = [iter EXCEPT ![m] = 0]
  /\ UNCHANGED <<storeVars, callerVars, leaseVars, writerVars, batch, pval,
                 taskVars, stopVars, gcVars>>

\* The variables of a read go out of scope when it ends.
EndRead(m) ==
  /\ cursor' = [cursor EXCEPT ![m] = 0]
  /\ pmax' = [pmax EXCEPT ![m] = 0]
  /\ iter' = [iter EXCEPT ![m] = 0]

ReadsOn(m) == iter[m] < ReadIterations /\ cursor[m] < pmax[m]

\* getTaskBatch: one window; the first window with a row ends the read.
PumpRead(m) ==
  LET upper == Min2(cursor[m] + ReadRangeSize, pmax[m])
      rows  == GetTasks(store, cursor[m], upper, BatchSize)
  IN  /\ Alive(m) /\ ppc[m] = "read" /\ ReadsOn(m)
      /\ \/ /\ rows = {}
            /\ cursor' = [cursor EXCEPT ![m] = upper]
            /\ iter' = [iter EXCEPT ![m] = @ + 1]
            /\ UNCHANGED <<pmax, ppc, batch>>
         \/ /\ rows # {}
            /\ batch' = [batch EXCEPT ![m] = rows]
            /\ ppc' = [ppc EXCEPT ![m] = "add"]
            /\ EndRead(m)
      /\ UNCHANGED <<storeVars, callerVars, leaseVars, writerVars, notify,
                     pval, taskVars, stopVars, gcVars>>

PumpReadFails(m) ==
  /\ Alive(m) /\ ppc[m] = "read" /\ ReadsOn(m)
  /\ Signal(m)
  /\ ppc' = [ppc EXCEPT ![m] = "idle"]
  /\ EndRead(m)
  /\ UNCHANGED <<storeVars, callerVars, leaseVars, writerVars, batch, pval, taskVars, stopVars, gcVars>>

\* Nothing was found: move the read level, and the ack level if it was there.
AfterEmptyRead(am, level) ==
  LET moved == SetReadLevel(am, level)
  IN  IF am.ackLevel = am.readLevel THEN SetAckLevel(moved, level) ELSE moved

PumpEmpty(m) ==
  /\ Alive(m) /\ ppc[m] = "read" /\ ~ReadsOn(m)
  /\ ack' = [ack EXCEPT ![m] = AfterEmptyRead(@, cursor[m])]
  /\ SignalIf(m, cursor[m] # pmax[m])
  /\ ppc' = [ppc EXCEPT ![m] = "idle"]
  /\ EndRead(m)
  /\ UNCHANGED <<storeVars, callerVars, leaseVars, writerVars, batch, pval, buffer, started, rewriting, stopVars, gcVars>>

\* Mutant: the rows of a batch are buffered in any order.
IsNextInAnyOrder(m, row) == TRUE

\* GetTasks returns rows in the order of their IDs.
IsNext(m, row) == \A t \in batch[m] : row.id <= t.id

\* addTasksToBuffer: one row at a time.  The pump registers a row before it waits
\* for room in the buffer, so it reads the next row only once there is room.
PumpAdd(m) ==
  \E row \in batch[m] :
    /\ Alive(m) /\ ppc[m] = "add" /\ IsNext(m, row)
    /\ \/ /\ row.p \in expired
          /\ ack' = [ack EXCEPT ![m] = SetReadLevel(@, row.id)]
          /\ buffer' = buffer
       \/ /\ row.p \notin expired
          /\ Cardinality(buffer[m]) < BufferSize
          /\ ack' = [ack EXCEPT ![m] = ReadItem(@, row.id)]
          /\ buffer' = [buffer EXCEPT ![m] = @ \cup {row}]
    /\ batch' = [batch EXCEPT ![m] = @ \ {row}]
    /\ ppc' = [ppc EXCEPT ![m] = IF batch[m] = {row} THEN "idle" ELSE "add"]
    /\ SignalIf(m, batch[m] = {row})
    /\ UNCHANGED <<storeVars, callerVars, leaseVars, writerVars, cursor, pmax,
                   iter, pval, started, rewriting, stopVars, gcVars>>

PumpExit(m) ==
  /\ st[m] \in {"stopping", "stopped"} /\ ppc[m] \in {"idle", "add"}
  /\ ppc' = [ppc EXCEPT ![m] = "exit"]
  /\ batch' = [batch EXCEPT ![m] = {}]
  /\ UNCHANGED <<storeVars, callerVars, leaseVars, writerVars, notify, cursor,
                 pmax, iter, pval, taskVars, stopVars, gcVars>>

PumpTimer(m) ==
  /\ st[m] = "running" /\ ppc[m] = "idle"
  /\ pval' = [pval EXCEPT ![m] = ack[m].ackLevel]
  /\ ppc' = [ppc EXCEPT ![m] = "persist"]
  /\ UNCHANGED <<storeVars, callerVars, leaseVars, writerVars, notify, cursor,
                 pmax, iter, batch, taskVars, stopVars, gcVars>>

PumpPersists(m) ==
  /\ Alive(m) /\ ppc[m] = "persist" /\ DbUnlocked(m) /\ Owns(store, lease[m])
  /\ store' = UpdateTaskList(store, pval[m])
  /\ dbAck' \in {dbAck, [dbAck EXCEPT ![m] = pval[m]]}   \* the answer may be lost
  /\ ppc' = [ppc EXCEPT ![m] = "idle"]
  /\ Signal(m)
  /\ pval' = [pval EXCEPT ![m] = 0]
  /\ UNCHANGED <<late, callerVars, st, lease, seen, next, last, writerVars,
                 cursor, pmax, iter, batch, taskVars, stopVars, gcVars>>

PumpRejected(m) ==
  /\ Alive(m) /\ ppc[m] = "persist" /\ DbUnlocked(m) /\ ~Owns(store, lease[m])
  /\ fatal' = [fatal EXCEPT ![m] = TRUE]
  /\ ppc' = [ppc EXCEPT ![m] = "exit"]
  /\ pval' = [pval EXCEPT ![m] = 0]
  /\ UNCHANGED <<storeVars, callerVars, leaseVars, writerVars, notify, cursor,
                 pmax, iter, batch, taskVars, sval, gcVars>>

PumpPersistErrs(m) ==
  /\ Alive(m) /\ ppc[m] = "persist" /\ DbUnlocked(m)
  /\ ppc' = [ppc EXCEPT ![m] = "idle"]
  /\ Signal(m)
  /\ pval' = [pval EXCEPT ![m] = 0]
  /\ UNCHANGED <<storeVars, callerVars, leaseVars, writerVars, cursor, pmax,
                 iter, batch, taskVars, stopVars, gcVars>>
-----------------------------------------------------------------------------
(***************************************************************************)
(* dispatchBufferedTasks and completeTask.  The row a poller took is       *)
(* finished without an error once the history service has recorded the     *)
(* task as started, and with an error otherwise: the task is then appended *)
(* again and the row is completed after that write has succeeded.          *)
(***************************************************************************)
Dispatch(m, row) ==
  /\ Alive(m) /\ row \in buffer[m] /\ row.p \notin expired
  /\ buffer' = [buffer EXCEPT ![m] = @ \ {row}]
  /\ started' = [started EXCEPT ![m] = @ \cup {row}]
  /\ UNCHANGED <<storeVars, callerVars, leaseVars, writerVars, pumpVars, ack,
                 rewriting, stopVars, gcVars>>

DispatchExpired(m, row) ==
  /\ Alive(m) /\ row \in buffer[m] /\ row.p \in expired
  /\ buffer' = [buffer EXCEPT ![m] = @ \ {row}]
  /\ ack' = [ack EXCEPT ![m] = AckItem(@, row.id)]
  /\ UNCHANGED <<storeVars, callerVars, leaseVars, writerVars, pumpVars, started,
                 rewriting, stopVars, gcVars>>

\* RecordDecisionTaskStarted / RecordActivityTaskStarted succeeds.
RecordStarted(m, row) ==
  /\ Alive(m) /\ row \in started[m] /\ row.p \notin done
  /\ done' = done \cup {row.p}
  /\ UNCHANGED <<storeVars, resp, expired, leaseVars, writerVars, pumpVars,
                 taskVars, stopVars, gcVars>>

\* The tail of completeTask: ack the row and offer the ack level to the GC.
Complete(m, row) ==
  LET acked == AckItem(ack[m], row.id)
  IN  /\ ack' = [ack EXCEPT ![m] = acked]
      /\ gcReq' = [gcReq EXCEPT ![m] = @ \cup {acked.ackLevel}]

FinishOK(m, row) ==
  /\ Alive(m) /\ row \in started[m] /\ row.p \in done
  /\ started' = [started EXCEPT ![m] = @ \ {row}]
  /\ Complete(m, row)
  /\ UNCHANGED <<storeVars, callerVars, leaseVars, writerVars, pumpVars, buffer,
                 rewriting, stopVars, gcAck>>

Rewrite(row) == [p |-> row.p, old |-> row.id]

FinishErr(m, row) ==
  /\ Alive(m) /\ row \in started[m] /\ ~wstopped[m]
  /\ Cardinality(appendCh[m]) < AppendThreshold
  /\ started' = [started EXCEPT ![m] = @ \ {row}]
  /\ rewriting' = [rewriting EXCEPT ![m] = @ \cup {row}]
  /\ appendCh' = [appendCh EXCEPT ![m] = @ \cup {Rewrite(row)}]
  /\ UNCHANGED <<storeVars, callerVars, leaseVars, maxRead, wpc, wpend, walloc,
                 wres, wstopped, replies, pumpVars, ack, buffer, stopVars, gcVars>>

RewriteOK(m, row) ==
  \E a \in replies[m] :
    /\ Alive(m) /\ row \in rewriting[m]
    /\ a.req = Rewrite(row) /\ a.res = "ok"
    /\ replies' = [replies EXCEPT ![m] = @ \ {a}]
    /\ rewriting' = [rewriting EXCEPT ![m] = @ \ {row}]
    /\ Signal(m)
    /\ Complete(m, row)
    /\ UNCHANGED <<storeVars, callerVars, leaseVars, maxRead, appendCh, wpc,
                   wpend, walloc, wres, wstopped, ppc, cursor, pmax, iter,
                   batch, pval, buffer, started, stopVars, gcAck>>

\* A transient error: throttleRetry calls appendTask again.
RewriteRetry(m, row) ==
  \E a \in replies[m] :
    /\ Alive(m) /\ row \in rewriting[m] /\ ~wstopped[m]
    /\ a.req = Rewrite(row) /\ a.res = "error"
    /\ Cardinality(appendCh[m]) < AppendThreshold
    /\ replies' = [replies EXCEPT ![m] = @ \ {a}]
    /\ appendCh' = [appendCh EXCEPT ![m] = @ \cup {Rewrite(row)}]
    /\ UNCHANGED <<storeVars, callerVars, leaseVars, maxRead, wpc, wpend,
                   walloc, wres, wstopped, pumpVars, taskVars, stopVars, gcVars>>

\* The append failed for good, timed out or met a stopped writer: the row
\* stays unacknowledged and the task list is unloaded.
RewriteGivesUp(m, row) ==
  /\ Alive(m)
  /\ \/ row \in rewriting[m]
     \/ row \in started[m] /\ wstopped[m]
  /\ started' = [started EXCEPT ![m] = @ \ {row}]
  /\ rewriting' = [rewriting EXCEPT ![m] = @ \ {row}]
  /\ replies' = [replies EXCEPT ![m] = {a \in @ : a.req # Rewrite(row)}]
  /\ fatal' = [fatal EXCEPT ![m] = TRUE]
  /\ UNCHANGED <<storeVars, callerVars, leaseVars, maxRead, appendCh, wpc, wpend,
                 walloc, wres, wstopped, pumpVars, ack, buffer, sval, gcVars>>
-----------------------------------------------------------------------------
(***************************************************************************)
(* taskGC.tryDeleteNextBatch.  A call that loses the race for the lock, or *)
(* finds too little to delete, does nothing.  The delete is not            *)
(* conditioned on the lease, and an error may hide that it took effect.    *)
(***************************************************************************)
GCDelete(m, level) ==
  /\ level \in gcReq[m] /\ level > gcAck[m]
  /\ store' = CompleteTasksLessThan(store, level)
  /\ gcAck' \in {gcAck, [gcAck EXCEPT ![m] = level]}
  /\ gcReq' = [gcReq EXCEPT ![m] = @ \ {level}]
  /\ UNCHANGED <<late, callerVars, leaseVars, writerVars, pumpVars, taskVars,
                 stopVars>>

GCSkip(m, level) ==
  /\ level \in gcReq[m]
  /\ gcReq' = [gcReq EXCEPT ![m] = @ \ {level}]
  /\ UNCHANGED <<storeVars, callerVars, leaseVars, writerVars, pumpVars,
                 taskVars, stopVars, gcAck>>
-----------------------------------------------------------------------------
\* taskListDB.UpdateTaskListPartitionConfig writes the ack level it remembers.
UpdatePartitionConfig(m) ==
  /\ Alive(m) /\ DbUnlocked(m) /\ Owns(store, lease[m])
  /\ store' = UpdateTaskList(store, dbAck[m])
  /\ UNCHANGED <<late, callerVars, leaseVars, writerVars, pumpVars, taskVars,
                 stopVars, gcVars>>

(***************************************************************************)
(* Unloading.  A failed partition update, a reload, an idle list or a      *)
(* shard that moved away may stop a manager at any time; watchForStop      *)
(* stops it after a fatal error.                                           *)
(***************************************************************************)
Stop(m) ==
  /\ st[m] = "running"
  /\ st' = [st EXCEPT ![m] = "stopping"]
  /\ wstopped' = [wstopped EXCEPT ![m] = TRUE]
  /\ sval' = [sval EXCEPT ![m] = ack[m].ackLevel]
  /\ UNCHANGED <<storeVars, callerVars, lease, dbAck, seen, next, last, maxRead,
                 appendCh, wpc, wpend, walloc, wres, replies, pumpVars, taskVars,
                 fatal, gcVars>>

WatchForStop(m) == fatal[m] /\ Stop(m)

\* taskReader.Stop: persist the ack level if the lease allows, then RunNow.
StopPersist(m) ==
  /\ st[m] = "stopping" /\ DbUnlocked(m)
  /\ \/ /\ Owns(store, lease[m])
        /\ store' = UpdateTaskList(store, sval[m])
        /\ dbAck' \in {dbAck, [dbAck EXCEPT ![m] = sval[m]]}
     \/ UNCHANGED <<store, dbAck>>
  /\ gcReq' = [gcReq EXCEPT ![m] = @ \cup {ack[m].ackLevel}]
  /\ st' = [st EXCEPT ![m] = "stopped"]
  /\ sval' = [sval EXCEPT ![m] = 0]
  /\ UNCHANGED <<late, callerVars, lease, seen, next, last, writerVars,
                 pumpVars, taskVars, fatal, gcAck>>
-----------------------------------------------------------------------------
\* The schedule-to-start timeout of a task passes.
Expire(p) ==
  /\ p \in Expiring \ expired
  /\ expired' = expired \cup {p}
  /\ UNCHANGED <<storeVars, resp, done, leaseVars, writerVars, pumpVars, taskVars,
                 stopVars, gcVars>>

\* The database drops the row of a task past its time to live.
TimeToLive(row) ==
  /\ row.p \in expired
  /\ store' = DropRow(store, row)
  /\ UNCHANGED <<late, callerVars, leaseVars, writerVars, pumpVars, taskVars,
                 stopVars, gcVars>>
-----------------------------------------------------------------------------
Load(m) == LeaseRead(m) \/ LeaseWrite(m) \/ LeaseFails(m)

Writer(m) ==
  \/ WriterTake(m) \/ WriterAlloc(m)
  \/ RenewRead(m) \/ RenewWrite(m) \/ RenewFails(m)
  \/ WriterCreates(m) \/ WriterRejected(m) \/ WriterPublish(m)

Pump(m) ==
  \/ PumpStart(m) \/ PumpRead(m) \/ PumpEmpty(m) \/ PumpAdd(m) \/ PumpExit(m)
  \/ PumpPersists(m) \/ PumpRejected(m)

Deliver(m, row) ==
  \/ Dispatch(m, row) \/ DispatchExpired(m, row) \/ RecordStarted(m, row)
  \/ FinishOK(m, row) \/ RewriteOK(m, row) \/ RewriteRetry(m, row)

Collect(m, level) == GCDelete(m, level) \/ GCSkip(m, level)

Held(m) == buffer[m] \cup started[m] \cup rewriting[m]

\* What the task list does of its own accord once tasks are added.
Work ==
  \/ \E m \in Manager : \/ Load(m) \/ Writer(m) \/ Pump(m)
                        \/ WatchForStop(m) \/ StopPersist(m)
                        \/ \E p \in Payload : AddTask(m, p) \/ AddTaskReturns(m, p)
                        \/ \E row \in Held(m) : Deliver(m, row)
                        \/ \E level \in gcReq[m] : Collect(m, level)
  \/ \E row \in store.tasks : TimeToLive(row)
  \/ \E w \in late : LateWrite(w)

\* Timers, administrative calls, failures and clients that come in between.
Disturbance ==
  \/ \E m \in Manager :
       \/ LeaseLost(m) \/ RenewLost(m) \/ WriterErrs(m) \/ PumpReadFails(m)
       \/ PumpTimer(m) \/ PumpPersistErrs(m) \/ UpdatePartitionConfig(m) \/ Stop(m)
       \/ \E p \in Payload : SyncMatch(m, p)
       \/ \E row \in Held(m) : FinishErr(m, row) \/ RewriteGivesUp(m, row)
  \/ \E p \in Payload : AddTaskGivesUp(p) \/ Expire(p)

Next == Work \/ Disturbance

Spec == Init /\ [][Next]_vars

(***************************************************************************)
(* The goroutines of a loaded manager are scheduled, pollers keep coming   *)
(* and the callers of appendTask read their answers.                       *)
(***************************************************************************)
Fairness ==
  \A m \in Manager :
    /\ WF_vars(Load(m))
    /\ WF_vars(Writer(m))
    /\ WF_vars(Pump(m))
    /\ WF_vars(\E row \in Held(m) : Deliver(m, row))
    /\ WF_vars(\E p \in Payload : AddTaskReturns(m, p))
    /\ WF_vars(WatchForStop(m))
    /\ WF_vars(StopPersist(m))
-----------------------------------------------------------------------------
ManagerStates == {"new", "leasing", "failed", "running", "stopping", "stopped"}

Outcomes == {"ok", "error", "failed"}

StoreOK ==
  /\ store \in Stores
  /\ late \in SUBSET [rangeID : Nat, rows : SUBSET Rows]

CallerOK ==
  /\ resp \in [Payload -> {"none", "wait", "ok", "err"}]
  /\ done \in SUBSET Payload /\ expired \in SUBSET Payload

LeaseOK ==
  /\ st \in [Manager -> ManagerStates]
  /\ lease \in [Manager -> Nat] /\ dbAck \in [Manager -> Nat]
  /\ seen \in [Manager -> [rangeID : Nat, ackLevel : Nat]]
  /\ next \in [Manager -> Nat] /\ last \in [Manager -> Nat]

WriterOK ==
  /\ maxRead \in [Manager -> Nat]
  /\ appendCh \in [Manager -> SUBSET Requests]
  /\ wpc \in [Manager -> {"idle", "alloc", "renew", "publish"}]
  /\ wpend \in [Manager -> SUBSET Requests]
  /\ walloc \in [Manager -> SUBSET Allocs]
  /\ wres \in [Manager -> Outcomes]
  /\ wstopped \in [Manager -> BOOLEAN]
  /\ replies \in [Manager -> SUBSET [req : Requests, res : Outcomes]]

PumpOK ==
  /\ notify \in [Manager -> BOOLEAN]
  /\ ppc \in [Manager -> {"idle", "read", "add", "persist", "exit"}]
  /\ cursor \in [Manager -> Nat] /\ pmax \in [Manager -> Nat]
  /\ iter \in [Manager -> Nat]
  /\ batch \in [Manager -> SUBSET Rows]
  /\ pval \in [Manager -> Nat]

TasksOK ==
  /\ ack \in [Manager -> AckManagers]
  /\ buffer \in [Manager -> SUBSET Rows]
  /\ started \in [Manager -> SUBSET Rows]
  /\ rewriting \in [Manager -> SUBSET Rows]

StopOK == fatal \in [Manager -> BOOLEAN] /\ sval \in [Manager -> Nat]

GCOK == gcReq \in [Manager -> SUBSET Nat] /\ gcAck \in [Manager -> Nat]

\* Every variable keeps its type: in particular every persisted or deleted
\* level is a natural number, although an ack manager starts at -1.
TypeOK ==
  StoreOK /\ CallerOK /\ LeaseOK /\ WriterOK /\ PumpOK /\ TasksOK /\ StopOK /\ GCOK

(***************************************************************************)
(* What the task list promises: once AddTask has returned without an error *)
(* the task has been handed to a worker, has expired, or is in a row that  *)
(* whoever loads the list next will read.                                  *)
(***************************************************************************)
Settled(p) == p \in done \cup expired

NoTaskLost ==
  \A p \in Payload :
    resp[p] = "ok" => \/ Settled(p)
                      \/ \E row \in store.tasks : row.p = p /\ row.id > store.ackLevel

\* A row becomes acknowledged in a manager, or falls under a level that is
\* persisted or deleted, only when its task is settled or is in a later row:
\* no garbage collection, by whichever manager, removes the last row of an
\* unsettled task, and no manager's ack level passes it.
Passes(level, p) ==
  ~\E row \in store.tasks : row.p = p /\ row.id > level

AckNeverPassesTask ==
  \A p \in Payload : resp[p] = "ok" /\ ~Settled(p) =>
    \A m \in Manager :
      /\ ~Passes(ack[m].ackLevel, p)
      /\ \A level \in gcReq[m] : ~Passes(level, p)

\* A task ID names one row for ever: whatever managers hold or the store or a
\* delayed write contains, two rows with the same ID are the same row.
KnownRows ==
  store.tasks \cup (UNION {w.rows : w \in late}) \cup
  (UNION {batch[m] \cup buffer[m] \cup started[m] \cup rewriting[m]
            \cup {[id |-> a.id, p |-> a.p] : a \in walloc[m]} : m \in Manager})

TaskIDsUnique ==
  \A r, t \in KnownRows : r.id = t.id => r = t

\* addSingleTaskToBuffer never meets the error of ReadItem, which it logs as
\* fatal: rows arrive in increasing order and above the read level.
ReadInOrder ==
  \A m \in Manager :
    ppc[m] = "add" => \A t \in batch[m] : CanReadItem(ack[m], t.id)

\* allocTaskIDBlock never meets its "invalid state" error.
BlockIsLeased ==
  \A m \in Manager : Alive(m) => last[m] = BlockEnd(lease[m])

\* A task that was accepted reaches a worker or expires, as long as some
\* manager keeps the lease: the pump misses no wake-up, and neither a failed
\* batch nor a full buffer strands a row.
Leased == \E m \in Manager : st[m] = "running" /\ Owns(store, lease[m])

EventuallyDelivered ==
  \A p \in Payload : resp[p] = "ok" ~> Settled(p) \/ ~Leased

\* In a manager without a fatal error every row that was read and is not
\* acknowledged is in somebody's hands: nothing that holds the ack level back
\* has been dropped, and nothing in hand is missing from the ack manager.
NothingStranded ==
  \A m \in Manager :
    st[m] = "running" /\ ~fatal[m] => ack[m].unacked = {row.id : row \in Held(m)}
=============================================================================
