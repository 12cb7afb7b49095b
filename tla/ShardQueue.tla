----------------------------- MODULE ShardQueue -----------------------------
(***************************************************************************)
(* The contexts of a history shard, each with the queue that processes the *)
(* immediate tasks of the shard (service/history/queuev2/queue_base.go,    *)
(* queue_immediate.go).  Reading and deleting tasks is not conditioned on  *)
(* the lease, and the queue of a closed context runs until it is stopped.  *)
(*                                                                         *)
(* The slices of a queue are reduced here to one interval and the tasks    *)
(* loaded from it; VirtualQueues has them in full.                         *)
(***************************************************************************)
EXTENDS ShardContext

VARIABLES queue,   \* per context: its queue
          done     \* the tasks that some queue has processed

qvars == <<vars, queue, done>>

\* ack: exclusiveAckLevel.  next: the first ID that has not been read.
\* max: the end of what may be read.  new: the ack level updateQueueState has
\* computed.  at: the next step of updateQueueState.
Queues == [on : BOOLEAN, ack : Nat, next : Nat, max : Nat, pending : SUBSET Nat,
           new : Nat, at : {"idle", "delete", "persist"}]

NoQueue == [on |-> FALSE, ack |-> 0, next |-> 0, max |-> 0, pending |-> {},
            new |-> 0, at |-> "idle"]

QInit == Init /\ queue = [c \in Context |-> NoQueue] /\ done = {}

\* newQueueBase: the queue starts where the persisted state says.
StartQueue(c) ==
  /\ status[c] # "none" /\ ~queue[c].on /\ pc[c] = "idle"
  /\ queue' = [queue EXCEPT ![c] =
       [NoQueue EXCEPT !.on = TRUE, !.ack = ack[c], !.next = ack[c], !.max = ack[c]]]
  /\ UNCHANGED <<vars, done>>

\* processNewTasks: what may be read now is added to the slices.
ProcessNewTasks(c) ==
  /\ queue[c].on /\ level[c] + 1 > queue[c].max
  /\ GetMaxReadLevel(c)
  /\ queue' = [queue EXCEPT ![c].max = level[c] + 1]
  /\ UNCHANGED done

Within(id, q) == q.next <= id /\ id < q.max

\* loadAndSubmitTasks
LoadTasks(c) ==
  /\ queue[c].on /\ queue[c].next < queue[c].max
  /\ queue' = [queue EXCEPT
       ![c].pending = @ \cup {id \in TaskIDs(tasks) : Within(id, queue[c])},
       ![c].next = queue[c].max]
  /\ UNCHANGED <<vars, done>>

ProcessTask(c, id) ==
  /\ id \in queue[c].pending
  /\ queue' = [queue EXCEPT ![c].pending = @ \ {id}]
  /\ done' = done \cup {t \in tasks : t.id = id}
  /\ UNCHANGED vars

\* Mutant: the ack level is what has been read.
AckLevelRead(q) == q.next

\* UpdateAndGetState of the slices: the first ID that is pending or not read.
AckLevel(q) ==
  CHOOSE a \in q.pending \cup {q.next} : \A b \in q.pending \cup {q.next} : a <= b

\* updateQueueState
UpdateState(c) ==
  /\ queue[c].on /\ queue[c].at = "idle"
  /\ queue' = [queue EXCEPT ![c].new = AckLevel(queue[c]),
                 ![c].at = IF AckLevel(queue[c]) > queue[c].ack THEN "delete" ELSE "persist"]
  /\ UNCHANGED <<vars, done>>

\* RangeCompleteHistoryTask, of whoever asks
DeleteTasks(c) ==
  /\ queue[c].at = "delete"
  /\ tasks' = {t \in tasks : ~(queue[c].ack <= t.id /\ t.id < queue[c].new)}
  /\ queue' = [queue EXCEPT ![c].ack = queue[c].new, ![c].at = "persist"]
  /\ UNCHANGED <<row, late, ctxVars, opVars, seen, done>>

DeleteFails(c) ==
  /\ queue[c].at = "delete"
  /\ queue' = [queue EXCEPT ![c].at = "idle", ![c].new = 0]
  /\ UNCHANGED <<vars, done>>

PersistState(c) ==
  /\ queue[c].at = "persist"
  /\ UpdateQueueState(c, queue[c].new)
  /\ queue' = [queue EXCEPT ![c].at = "idle", ![c].new = 0]
  /\ UNCHANGED done

\* The queue is stopped with its engine.
StopQueue(c) == Unload(c) /\ queue' = [queue EXCEPT ![c] = NoQueue] /\ UNCHANGED done

CrashQueue(c) == Crash(c) /\ queue' = [queue EXCEPT ![c] = NoQueue] /\ UNCHANGED done

-----------------------------------------------------------------------------
\* The steps of the context that do not concern its queue.
ShardStep(c) ==
  /\ \/ Decide(c) \/ AcquireShard(c) \/ RenewOK(c) \/ RenewRefused(c)
     \/ GenerateTaskID(c) \/ RenewRange(c) \/ SendWrite(c)
     \/ WriteOK(c) \/ WriteFails(c) \/ WriteRefused(c)
     \/ PersistOK(c) \/ PersistRefused(c)
  /\ UNCHANGED <<queue, done>>

QueueStep(c) ==
  \/ StartQueue(c) \/ ProcessNewTasks(c) \/ LoadTasks(c)
  \/ \E id \in queue[c].pending : ProcessTask(c, id)
  \/ UpdateState(c) \/ DeleteTasks(c) \/ PersistState(c) \/ StopQueue(c)

QFault(c) ==
  \/ (RenewUnknown(c) \/ WriteUnknown(c) \/ PersistUnknown(c)) /\ UNCHANGED <<queue, done>>
  \/ DeleteFails(c) \/ CrashQueue(c)

LateStep == (\E q \in late : DecideLate(q)) /\ UNCHANGED <<queue, done>>

Write(c) == \E n \in 1 .. MaxTasks : Begin(c, "workflow", n) /\ UNCHANGED <<queue, done>>

QNext ==
  \/ \E c \in Context : ShardStep(c) \/ QueueStep(c) \/ QFault(c) \/ Write(c)
  \/ LateStep

QSpec == QInit /\ [][QNext]_qvars

-----------------------------------------------------------------------------
\* A task has to be processed as long as it is in the database at or above the
\* ack level that the next owner of the shard will start from.
Todo == {t \in tasks : t \notin done /\ t.id >= row.ack}

AllTasks == [id : 0 .. BlockEnd(MaxRangeID), kind : Kinds]

Promise == INSTANCE AtLeastOnce WITH Task <- AllTasks, todo <- Todo, done <- done

\* The shard keeps the promise of AtLeastOnce: no step, of the owner or of a
\* context that lost the shard, removes a task or moves the persisted ack level
\* past it before it has been processed.
NoTaskLost == Promise!Spec

\* The renewal after a workflow write of unknown outcome has been executed or
\* refused when its caller gives up on it.  The code does not ensure it: see
\* shard_closed_owner.
RecoveryDecided ==
  \A c \in Context :
    RenewUnknown(c) /\ call[c].why = "recover" => fate[c] # "sent"

\* The next owner of the shard starts at or below every task that no queue has
\* processed: no task is written below the ack level that is persisted.
NothingBelowAck == \A t \in tasks \ done : row.ack <= t.id
=============================================================================
