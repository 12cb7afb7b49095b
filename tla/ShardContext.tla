---------------------------- MODULE ShardContext ----------------------------
(***************************************************************************)
(* The context of a history shard (service/history/shard/context.go): the  *)
(* lease on the shard (its range ID), the IDs of its tasks, the writes of  *)
(* workflows and tasks under that lease, and the level up to which the     *)
(* queues of the shard may read (immediateTaskMaxReadLevel).               *)
(*                                                                         *)
(* Several contexts may believe that they own the shard.  Every write is   *)
(* a conditional statement on the range ID of the shard's row.  A context  *)
(* holds its lock during a whole operation, statements included; a         *)
(* statement whose answer is lost may still reach the database later.      *)
(*                                                                         *)
(* pc[c] tells who holds the lock of c: nobody ("idle"), an operation that *)
(* is allocating IDs ("alloc") or one that waits for the database          *)
(* ("wait"), in which case call[c] is the statement and fate[c] what the   *)
(* database has done with it.                                              *)
(***************************************************************************)
EXTENDS Integers, FiniteSets

CONSTANTS Context,      \* incarnations of contextImpl for the shard
          RangeSize,    \* 1 << RangeSizeBits
          QueueState,   \* the states of its queues the shard keeps
          MaxRangeID,   \* bound: range IDs that are given out
          MaxTasks,     \* bound: IDs taken by one operation
          MaxLate       \* bound: statements delayed at a time

ASSUME RangeAssumption == RangeSize \in Nat \ {0}
ASSUME QueueStateAssumption == QueueState \subseteq Nat /\ 0 \in QueueState
ASSUME BoundAssumption == MaxRangeID \in Nat /\ MaxTasks \in Nat /\ MaxLate \in Nat

VARIABLES row,      \* the row of the shard: range ID and queue state
          tasks,    \* the immediate tasks of the shard in the database
          late,     \* statements whose callers have given up on them
          status, rangeID, seq, level, ack,    \* per context: its fields
          pc, job, call, fate,                 \* per context: its operation
          seen      \* per context: the highest level its queues have read up to

ctxVars == <<status, rangeID, seq, level, ack>>
opVars == <<pc, job, call, fate>>
vars == <<row, tasks, late, ctxVars, opVars, seen>>

\* "workflow": create, update and conflict-resolve of a workflow.
\* "marker": failover markers and tasks re-injected from the DLQ.
\* "generate": GenerateTaskIDs, which writes nothing.
Kinds == {"workflow", "marker", "generate"}

Tasks == [id : Nat, kind : Kinds]

\* A statement, the range ID it is conditioned on and what it writes.
Statements == [op : {"write", "renew", "persist"}, why : {"acquire", "alloc", "recover", "none"},
               prev : Nat, next : Nat, ack : Nat, rows : SUBSET Tasks]

Jobs == [kind : Kinds, left : Nat, ids : SUBSET Nat, top : Nat]

NoJob == [kind |-> "generate", left |-> 0, ids |-> {}, top |-> 0]

NoStatement == [op |-> "persist", why |-> "none", prev |-> 0, next |-> 0, ack |-> 0, rows |-> {}]

BlockStart(r) == r * RangeSize

\* Mutant: the range contains the ID it ends at.
BlockEndIncluded(r) == (r + 1) * RangeSize + 1

BlockEnd(r) == (r + 1) * RangeSize

Init ==
  /\ row = [rangeID |-> 0, ack |-> 0]
  /\ tasks = {}
  /\ late = {}
  /\ status = [c \in Context |-> "none"]
  /\ rangeID = [c \in Context |-> 0]
  /\ seq = [c \in Context |-> 0]
  /\ level = [c \in Context |-> 0]
  /\ ack = [c \in Context |-> 0]
  /\ pc = [c \in Context |-> "idle"]
  /\ job = [c \in Context |-> NoJob]
  /\ call = [c \in Context |-> NoStatement]
  /\ fate = [c \in Context |-> "none"]
  /\ seen = [c \in Context |-> 0]

-----------------------------------------------------------------------------
(* The database.                                                           *)

\* Mutant: a renewal is not conditioned on the range ID.
HoldsUnlessRenewal(q) == row.rangeID = q.prev \/ q.op = "renew"

\* The condition of every statement.
Holds(q) == row.rangeID = q.prev

\* The effect of a statement whose condition holds.
Apply(q) ==
  /\ row' = IF q.op = "write" THEN row ELSE [rangeID |-> q.next, ack |-> q.ack]
  /\ tasks' = tasks \cup q.rows

\* The statement a context waits for is executed.
Decide(c) ==
  /\ fate[c] = "sent"
  /\ \/ Holds(call[c]) /\ Apply(call[c]) /\ fate' = [fate EXCEPT ![c] = "applied"]
     \/ ~Holds(call[c]) /\ UNCHANGED <<row, tasks>> /\ fate' = [fate EXCEPT ![c] = "refused"]
  /\ UNCHANGED <<late, ctxVars, pc, job, call, seen>>

\* A statement is executed after its caller has given up on it, or never is.
DecideLate(q) ==
  /\ late' = late \ {q}
  /\ \/ Holds(q) /\ Apply(q)
     \/ UNCHANGED <<row, tasks>>
  /\ UNCHANGED <<ctxVars, opVars, seen>>

\* What becomes of the statement of c when c stops waiting for it.
Abandon(c) ==
  late' = IF fate[c] = "sent" THEN late \cup {call[c]} ELSE late

-----------------------------------------------------------------------------
(* The lease.                                                              *)

Send(c, q) ==
  /\ pc' = [pc EXCEPT ![c] = "wait"]
  /\ call' = [call EXCEPT ![c] = q]
  /\ fate' = [fate EXCEPT ![c] = "sent"]

Return(c) ==
  /\ pc' = [pc EXCEPT ![c] = "idle"]
  /\ job' = [job EXCEPT ![c] = NoJob]
  /\ call' = [call EXCEPT ![c] = NoStatement]
  /\ fate' = [fate EXCEPT ![c] = "none"]

\* renewRangeLocked: the row is rewritten with the next range ID.
Renewal(r, a, why) ==
  [op |-> "renew", why |-> why, prev |-> r, next |-> r + 1, ack |-> a, rows |-> {}]

\* acquireShard: the row is read and the shard stolen from its owner.
AcquireShard(c) ==
  /\ status[c] = "none" /\ pc[c] = "idle"
  /\ row.rangeID < MaxRangeID
  /\ Send(c, Renewal(row.rangeID, row.ack, "acquire"))
  /\ UNCHANGED <<row, tasks, late, ctxVars, job, seen>>

CloseShard(c) ==
  /\ status' = [status EXCEPT ![c] = "closed"]
  /\ rangeID' = [rangeID EXCEPT ![c] = -1]

\* Mutant: the level is that of the range before.
RenewedOldLevel(c) ==
  /\ rangeID' = [rangeID EXCEPT ![c] = call[c].next]
  /\ seq' = [seq EXCEPT ![c] = BlockStart(call[c].next)]
  /\ level' = [level EXCEPT ![c] = BlockStart(rangeID[c]) - 1]
  /\ ack' = [ack EXCEPT ![c] = call[c].ack]

Renewed(c) ==
  /\ rangeID' = [rangeID EXCEPT ![c] = call[c].next]
  /\ seq' = [seq EXCEPT ![c] = BlockStart(call[c].next)]
  /\ level' = [level EXCEPT ![c] = BlockStart(call[c].next) - 1]
  /\ ack' = [ack EXCEPT ![c] = call[c].ack]

\* The new range ID is in the row: the operation that needed it goes on.
RenewOK(c) ==
  /\ pc[c] = "wait" /\ call[c].op = "renew" /\ fate[c] = "applied"
  /\ Renewed(c)
  /\ status' = [status EXCEPT ![c] = "open"]
  /\ IF call[c].why = "alloc"
       THEN /\ pc' = [pc EXCEPT ![c] = "alloc"]
            /\ call' = [call EXCEPT ![c] = NoStatement]
            /\ fate' = [fate EXCEPT ![c] = "none"]
            /\ UNCHANGED job
       ELSE Return(c)
  /\ UNCHANGED <<row, tasks, late, seen>>

\* Another context has the shard.  One that was being acquired is dropped.
RenewRefused(c) ==
  /\ pc[c] = "wait" /\ call[c].op = "renew" /\ fate[c] = "refused"
  /\ IF call[c].why = "acquire" THEN UNCHANGED <<status, rangeID>> ELSE CloseShard(c)
  /\ Return(c)
  /\ UNCHANGED <<row, tasks, late, seq, level, ack, seen>>

\* Only a renewal after a write of unknown outcome closes the shard.
AfterUnknownRenewal(c) ==
  IF call[c].why = "recover" THEN CloseShard(c) ELSE UNCHANGED <<status, rangeID>>

\* The renewal fails, or its answer is lost.
RenewUnknown(c) ==
  /\ pc[c] = "wait" /\ call[c].op = "renew"
  /\ Cardinality(late) < MaxLate
  /\ Abandon(c)
  /\ AfterUnknownRenewal(c)
  /\ Return(c)
  /\ UNCHANGED <<row, tasks, seq, level, ack, seen>>

-----------------------------------------------------------------------------
(* Task IDs and writes.                                                    *)

\* An operation that needs n IDs takes the lock.
Begin(c, kind, n) ==
  /\ status[c] = "open" /\ pc[c] = "idle"
  /\ pc' = [pc EXCEPT ![c] = "alloc"]
  /\ job' = [job EXCEPT ![c] = [kind |-> kind, left |-> n, ids |-> {}, top |-> 0]]
  /\ UNCHANGED <<row, tasks, late, ctxVars, call, fate, seen>>

\* generateTaskIDLocked, with IDs left in the range.
GenerateTaskID(c) ==
  /\ pc[c] = "alloc" /\ job[c].left > 0
  /\ seq[c] < BlockEnd(rangeID[c])
  /\ job' = [job EXCEPT ![c] = [kind |-> @.kind, left |-> @.left - 1,
                                 ids |-> @.ids \cup {seq[c]}, top |-> seq[c]]]
  /\ seq' = [seq EXCEPT ![c] = @ + 1]
  /\ UNCHANGED <<row, tasks, late, status, rangeID, level, ack, pc, call, fate, seen>>

\* updateRangeIfNeededLocked: the range is used up.
RenewRange(c) ==
  /\ pc[c] = "alloc" /\ job[c].left > 0
  /\ seq[c] >= BlockEnd(rangeID[c])
  /\ rangeID[c] < MaxRangeID
  /\ Send(c, Renewal(rangeID[c], ack[c], "alloc"))
  /\ UNCHANGED <<row, tasks, late, ctxVars, job, seen>>

\* GenerateTaskIDs returns.
Generated(c) ==
  /\ pc[c] = "alloc" /\ job[c].left = 0 /\ job[c].kind = "generate"
  /\ Return(c)
  /\ UNCHANGED <<row, tasks, late, ctxVars, seen>>

\* The workflow, or the marker, is written with its tasks.
SendWrite(c) ==
  /\ pc[c] = "alloc" /\ job[c].left = 0 /\ job[c].kind # "generate"
  /\ Send(c, [op |-> "write", why |-> "none", prev |-> rangeID[c], next |-> rangeID[c],
              ack |-> 0, rows |-> [id : job[c].ids, kind : {job[c].kind}]])
  /\ UNCHANGED <<row, tasks, late, ctxVars, job, seen>>

\* Mutant: the level follows the IDs taken, not the IDs written.
LevelAfterAll(c) == seq[c]

\* updateMaxReadLevelLocked
LevelAfter(c) == IF job[c].top > level[c] THEN job[c].top ELSE level[c]

WriteOK(c) ==
  /\ pc[c] = "wait" /\ call[c].op = "write" /\ fate[c] = "applied"
  /\ level' = [level EXCEPT ![c] = LevelAfter(c)]
  /\ Return(c)
  /\ UNCHANGED <<row, tasks, late, status, rangeID, seq, ack, seen>>

\* An error that says that nothing was written and nothing will be.
WriteFails(c) ==
  /\ pc[c] = "wait" /\ call[c].op = "write" /\ fate[c] = "sent"
  /\ Return(c)
  /\ UNCHANGED <<row, tasks, late, ctxVars, seen>>

WriteRefused(c) ==
  /\ pc[c] = "wait" /\ call[c].op = "write" /\ fate[c] = "refused"
  /\ CloseShard(c)
  /\ Return(c)
  /\ UNCHANGED <<row, tasks, late, seq, level, ack, seen>>

\* Mutant: the range ID is not renewed after a workflow write of unknown outcome.
AfterUnknownWriteReturn(c) == Return(c)

\* The range ID is renewed under the same lock, for workflow writes only.
AfterUnknownWrite(c) ==
  \/ /\ job[c].kind = "workflow" /\ rangeID[c] < MaxRangeID
     /\ Send(c, Renewal(rangeID[c], ack[c], "recover"))
     /\ job' = [job EXCEPT ![c] = NoJob]
  \/ job[c].kind = "marker" /\ Return(c)

\* The write fails in any other way: its outcome is not known.
WriteUnknown(c) ==
  /\ pc[c] = "wait" /\ call[c].op = "write"
  /\ Cardinality(late) < MaxLate
  /\ Abandon(c)
  /\ AfterUnknownWrite(c)
  /\ UNCHANGED <<row, tasks, ctxVars, seen>>

-----------------------------------------------------------------------------
(* What the queues of the shard ask of the context.                        *)

\* UpdateIfNeededAndGetQueueMaxReadLevel, of a context that may be closed.
GetMaxReadLevel(c) ==
  /\ status[c] # "none" /\ pc[c] = "idle"
  /\ seen' = [seen EXCEPT ![c] = level[c]]
  /\ UNCHANGED <<row, tasks, late, ctxVars, opVars>>

\* UpdateQueueState.  The row is not written if it was a moment ago, nor by a
\* closed context.
UpdateQueueState(c, a) ==
  /\ status[c] # "none" /\ pc[c] = "idle"
  /\ ack' = [ack EXCEPT ![c] = a]
  /\ \/ UNCHANGED <<pc, call, fate>>
     \/ /\ status[c] = "open"
        /\ Send(c, [op |-> "persist", why |-> "none", prev |-> rangeID[c], next |-> rangeID[c],
                    ack |-> a, rows |-> {}])
  /\ UNCHANGED <<row, tasks, late, status, rangeID, seq, level, job, seen>>

PersistOK(c) ==
  /\ pc[c] = "wait" /\ call[c].op = "persist" /\ fate[c] = "applied"
  /\ Return(c)
  /\ UNCHANGED <<row, tasks, late, ctxVars, seen>>

PersistRefused(c) ==
  /\ pc[c] = "wait" /\ call[c].op = "persist" /\ fate[c] = "refused"
  /\ CloseShard(c)
  /\ Return(c)
  /\ UNCHANGED <<row, tasks, late, seq, level, ack, seen>>

PersistUnknown(c) ==
  /\ pc[c] = "wait" /\ call[c].op = "persist"
  /\ Cardinality(late) < MaxLate
  /\ Abandon(c)
  /\ Return(c)
  /\ UNCHANGED <<row, tasks, ctxVars, seen>>

Reset(c) ==
  /\ status' = [status EXCEPT ![c] = "none"]
  /\ rangeID' = [rangeID EXCEPT ![c] = 0]
  /\ seq' = [seq EXCEPT ![c] = 0]
  /\ level' = [level EXCEPT ![c] = 0]
  /\ ack' = [ack EXCEPT ![c] = 0]
  /\ seen' = [seen EXCEPT ![c] = 0]

\* closeCallback: the engine of a closed shard is stopped.
Unload(c) ==
  /\ status[c] = "closed" /\ pc[c] = "idle"
  /\ Reset(c)
  /\ UNCHANGED <<row, tasks, late, opVars>>

\* The host of c crashes.
Crash(c) ==
  /\ status[c] # "none" \/ pc[c] # "idle"
  /\ Cardinality(late) < MaxLate
  /\ Abandon(c)
  /\ Reset(c)
  /\ Return(c)
  /\ UNCHANGED <<row, tasks>>

-----------------------------------------------------------------------------
\* The steps of the operations, but for their beginnings and faults.
Step(c) ==
  \/ Decide(c) \/ AcquireShard(c) \/ RenewOK(c) \/ RenewRefused(c)
  \/ GenerateTaskID(c) \/ RenewRange(c) \/ Generated(c) \/ SendWrite(c)
  \/ WriteOK(c) \/ WriteFails(c) \/ WriteRefused(c)
  \/ PersistOK(c) \/ PersistRefused(c) \/ Unload(c) \/ GetMaxReadLevel(c)

Fault(c) == RenewUnknown(c) \/ WriteUnknown(c) \/ PersistUnknown(c) \/ Crash(c)

Operation(c) ==
  \/ \E kind \in Kinds, n \in 1 .. MaxTasks : Begin(c, kind, n)
  \/ \E a \in QueueState : UpdateQueueState(c, a)

Next ==
  \/ \E c \in Context : Step(c) \/ Fault(c) \/ Operation(c)
  \/ \E q \in late : DecideLate(q)

Spec == Init /\ [][Next]_vars

-----------------------------------------------------------------------------
(* Properties.                                                             *)

\* The variables have the values the code can give them.
TypeOK ==
  /\ row \in [rangeID : Nat, ack : Nat]
  /\ tasks \subseteq Tasks
  /\ late \subseteq Statements
  /\ status \in [Context -> {"none", "open", "closed"}]
  /\ rangeID \in [Context -> Nat \cup {-1}]
  /\ seq \in [Context -> Nat]
  /\ level \in [Context -> Nat]
  /\ ack \in [Context -> Nat]
  /\ pc \in [Context -> {"idle", "alloc", "wait"}]
  /\ job \in [Context -> Jobs]
  /\ call \in [Context -> Statements]
  /\ fate \in [Context -> {"none", "sent", "applied", "refused"}]
  /\ seen \in [Context -> Nat]

\* Two contexts never hold the same lease: UpdateShard gives each range ID to
\* one of the callers that ask for it, late and repeated requests included.
OneOwner ==
  \A c, d \in Context :
    (status[c] = "open" /\ status[d] = "open" /\ c # d) => rangeID[c] # rangeID[d]

TaskIDs(rows) == {t.id : t \in rows}

\* The IDs an operation has taken are in no row, in no delayed statement and
\* not taken by another operation, whoever renews the lease in between
\* (generateTaskIDLocked).
TaskIDsFresh ==
  \A c \in Context :
    pc[c] = "alloc" =>
      /\ job[c].ids \cap TaskIDs(tasks) = {}
      /\ \A q \in late : job[c].ids \cap TaskIDs(q.rows) = {}
      /\ \A d \in Context \ {c} : job[c].ids \cap job[d].ids = {}

\* The outcome of a workflow write is decided when the lock is released
\* ("subsequent reads will either see that write, or know for certain that it
\* failed"): no delayed write under the lease of an open context can succeed.
OutcomeDecided ==
  \A c \in Context, q \in late :
    (status[c] = "open" /\ pc[c] = "idle" /\ q.op = "write" /\ q.prev = rangeID[c])
      => (~Holds(q) \/ \A t \in q.rows : t.kind = "marker")

\* A task of a workflow never appears at or below a level up to which a queue
\* of an open shard has read: the queue would not look there again.
NoLateTask ==
  [][\A t \in tasks' \ tasks, c \in Context :
       (t.kind = "workflow" /\ status[c] = "open") => t.id > seen[c]]_vars
=============================================================================
