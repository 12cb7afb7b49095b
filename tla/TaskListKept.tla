--------------------------- MODULE TaskListKept ---------------------------
(***************************************************************************)
(* No task is lost, for every set of managers and tasks and every size of  *)
(* blocks, batches and buffers: layer 9 of the inductive invariant of      *)
(* TaskListInv, and the theorems that follow.                              *)
(***************************************************************************)
EXTENDS TaskListSafe

\* The prover of a leaf that names none.
USE ZenonT(60)

\* A batch that was written leaves a safe row for each of its tasks, later than
\* the row that it replaces.
LEMMA NewRowSafe ==
  ASSUME TypeInv, OrderInv, WriterInv, LevelInv, ReadInv, [Next]_vars,
         NEW m \in Manager, WriterCreates(m), NEW a \in walloc[m]
  PROVE  Kept(a.p, a.old)'
<1>1. /\ Alive(m) /\ Owns(store, lease[m])
      /\ UNCHANGED <<expired, dbAck, seen, ack, ppc, cursor, batch, pval, sval, gcReq>>
  BY DEF WriterCreates, BatchReady, callerVars, leaseVars, pumpVars, taskVars, stopVars,
        gcVars
<1>2. /\ store'.rangeID = store.rangeID /\ store'.ackLevel = store.ackLevel
      /\ BatchRows(m) \subseteq store'.tasks
  <2>1. store' = CreateTasks(store, BatchRows(m)) /\ store \in Stores
    BY TypeElements DEF WriterCreates
  <2> QED BY <2>1 DEF CreateTasks, Stores
<1>3. CASE a.old # 0 /\ a.p \in expired
  BY <1>1, <1>3 DEF Kept, Settled
<1>4. CASE ~(a.old # 0 /\ a.p \in expired)
  <2>1. PICK row \in BatchRows(m) : row.id = a.id /\ row.p = a.p
    <3>1. a \in {b \in walloc[m] : b.old # 0 => b.p \notin expired}
      BY <1>4
    <3>2. [id |-> a.id, p |-> a.p] \in BatchRows(m)
      BY <3>1 DEF BatchRows
    <3> QED BY <3>2
  <2>2. a \in Allocs
    BY DEF TypeInv, TypeOK, WriterOK
  <2>3. row.id \in Nat /\ a.old \in Nat
    BY <2>1, <2>2 DEF Allocs
  <2>4. ASSUME NEW n \in Manager PROVE maxRead[n] \in Nat /\ maxRead[n] < row.id
    <3>1. maxRead[n] \in Nat /\ last[n] \in Nat /\ maxRead[n] <= last[n]
      BY LevelTypes DEF WriterInv
    <3>2. CASE n = m
      <4>1. maxRead[n] < a.id
        BY <1>1, <3>2 DEF WriterInv, BatchOf
      <4> QED BY <2>1, <3>1, <4>1
    <3>3. CASE n # m
      <4>1. last[n] < a.id
        BY <1>1, <3>3 DEF WriterInv, Above
      <4> QED BY <2>1, <2>3, <3>1, <4>1, Chain, Whole
    <3> QED BY <3>2, <3>3
  <2>5. row.id > a.old
    <3>1. a.old <= maxRead[m]
      BY DEF ReadInv
    <3> QED BY <2>3, <2>4, <3>1, Chain, Whole
  <2>6. store.ackLevel <= maxRead[m] /\ store.ackLevel \in Nat
    BY <1>1, TypeElements DEF LevelInv, Covers, Stores
  <2>7. row.id > store'.ackLevel
    BY <1>2, <2>3, <2>4, <2>6, Chain, Whole
  <2>8. ASSUME NEW n \in Manager PROVE SafeFrom(n, row)'
    <3>t. /\ maxRead[n] \in Nat /\ dbAck[n] \in Nat /\ pval[n] \in Nat /\ sval[n] \in Nat
          /\ gcReq[n] \in SUBSET Nat /\ ack[n].ackLevel \in Int /\ ack[n].readLevel \in Int
      BY LevelTypes
    <3>u. cursor[n] \in Nat /\ seen[n].ackLevel \in Nat /\ \A t \in batch[n] : t.id \in Nat
      BY TypeElements, FieldTypes
    <3>l. LevelsOf(n) /\ ack[n].ackLevel <= ack[n].readLevel
      BY DEF LevelInv, OrderInv, OrderOf, AckOrder
    <3>m. maxRead[n] < row.id
      BY <2>4
    <3>1. row.id > ack[n].ackLevel /\ row.id > ack[n].readLevel
      <4>1. ack[n].readLevel <= maxRead[n]
        BY <3>l DEF LevelsOf
      <4>2. ack[n].readLevel < row.id
        BY <2>3, <3>t, <3>m, <4>1, Chain, Whole
      <4>3. ack[n].ackLevel < row.id
        BY <2>3, <3>t, <3>l, <4>2, Chain, Whole
      <4> QED BY <2>3, <3>t, <4>2, <4>3, Order, Whole
    <3>2. row.id > dbAck[n] /\ row.id > pval[n] /\ row.id > sval[n]
      BY <2>3, <3>t, <3>l, <3>m, Chain, Whole DEF LevelsOf
    <3>3. \A level \in gcReq[n] : row.id > level
      BY <2>3, <3>t, <3>l, <3>m, Chain, Whole DEF LevelsOf
    <3>4. row.id > cursor[n] /\ \A t \in batch[n] : t.id < row.id
      <4>1. cursor[n] <= maxRead[n] /\ \A t \in batch[n] : t.id <= maxRead[n]
        BY <3>l DEF LevelsOf
      <4> QED BY <2>3, <3>t, <3>u, <3>m, <4>1, Order, Chain, Whole
    <3>5. LeaseApplies(store, seen[n]) => row.id > seen[n].ackLevel
      <4>1. maxRead[m] \in Nat /\ maxRead[m] < row.id
        BY <2>4
      <4>2. ASSUME LeaseApplies(store, seen[n]) PROVE seen[n].ackLevel <= maxRead[m]
        BY <1>1, <4>2 DEF LevelInv, Covers
      <4> QED BY <2>3, <3>u, <4>1, <4>2, Chain, Whole
    <3>6. LeaseApplies(store, seen[n])' => LeaseApplies(store, seen[n])
      BY <1>1, <1>2 DEF LeaseApplies
    <3> QED BY <1>1, <3>1, <3>2, <3>3, <3>4, <3>5, <3>6 DEF SafeFrom
  <2>9. row \in store'.tasks /\ Safe(row)'
    BY <1>2, <2>1, <2>7, <2>8 DEF Safe
  <2> QED BY <2>1, <2>5, <2>9 DEF Kept
<1> QED BY <1>3, <1>4
-----------------------------------------------------------------------------
\* The actions that settle a task.
LEMMA SettledChanges ==
  ASSUME [Next]_vars
  PROVE  \/ UNCHANGED <<done, expired>>
         \/ \E m \in Manager, p \in Payload : SyncMatch(m, p)
         \/ \E m \in Manager : \E row \in Held(m) : RecordStarted(m, row)
         \/ \E p \in Payload : Expire(p)
<1>1. ASSUME NEW m \in Manager,
             LeaseRead(m) \/ LeaseWrite(m) \/ LeaseLost(m) \/ LeaseFails(m)
             \/ WriterTake(m) \/ WriterAlloc(m) \/ RenewRead(m) \/ RenewWrite(m)
             \/ RenewFails(m) \/ RenewLost(m)
      PROVE  UNCHANGED <<done, expired>>
  BY <1>1 DEF LeaseRead, LeaseWrite, LeaseLost, LeaseFails, WriterTake,
        WriterAlloc, RenewRead, RenewWrite, RenewFails, RenewLost, callerVars,
        GiveUpLease
<1>2. ASSUME NEW m \in Manager,
             WriterCreates(m) \/ WriterRejected(m) \/ WriterErrs(m) \/ WriterPublish(m)
             \/ PumpStart(m) \/ PumpRead(m) \/ PumpReadFails(m) \/ PumpEmpty(m)
             \/ PumpAdd(m) \/ PumpExit(m)
      PROVE  UNCHANGED <<done, expired>>
  BY <1>2 DEF WriterCreates, WriterRejected, WriterErrs, WriterPublish,
        PumpStart, PumpRead, PumpReadFails, PumpEmpty, PumpAdd, PumpExit, callerVars
<1>3. ASSUME NEW m \in Manager,
             PumpTimer(m) \/ PumpPersists(m) \/ PumpRejected(m) \/ PumpPersistErrs(m)
             \/ Stop(m) \/ StopPersist(m) \/ UpdatePartitionConfig(m)
      PROVE  UNCHANGED <<done, expired>>
  BY <1>3 DEF PumpTimer, PumpPersists, PumpRejected, PumpPersistErrs, Stop,
        StopPersist, UpdatePartitionConfig, callerVars
<1>4. ASSUME NEW m \in Manager, NEW p \in Payload,
             AddTask(m, p) \/ AddTaskReturns(m, p)
      PROVE  UNCHANGED <<done, expired>>
  BY <1>4 DEF AddTask, AddTaskReturns, callerVars
<1>5. ASSUME NEW m \in Manager, NEW row \in Held(m),
             Dispatch(m, row) \/ DispatchExpired(m, row) \/ FinishOK(m, row)
             \/ FinishErr(m, row) \/ RewriteOK(m, row) \/ RewriteRetry(m, row)
             \/ RewriteGivesUp(m, row)
      PROVE  UNCHANGED <<done, expired>>
  BY <1>5 DEF Dispatch, DispatchExpired, FinishOK, FinishErr, RewriteOK,
        RewriteRetry, RewriteGivesUp, callerVars
<1>6. ASSUME NEW m \in Manager, NEW level \in gcReq[m],
             GCDelete(m, level) \/ GCSkip(m, level)
      PROVE  UNCHANGED <<done, expired>>
  BY <1>6 DEF GCDelete, GCSkip, callerVars
<1>7. ASSUME NEW p \in Payload,
             AddTaskGivesUp(p)
      PROVE  UNCHANGED <<done, expired>>
  BY <1>7 DEF AddTaskGivesUp, callerVars
<1>8. ASSUME NEW row \in store.tasks,
             TimeToLive(row)
      PROVE  UNCHANGED <<done, expired>>
  BY <1>8 DEF TimeToLive, callerVars
<1>9. ASSUME NEW w \in late,
             LateWrite(w)
      PROVE  UNCHANGED <<done, expired>>
  BY <1>9 DEF LateWrite, callerVars
<1>10. CASE UNCHANGED vars
  BY <1>10 DEF vars, callerVars
<1> QED BY <1>1, <1>2, <1>3, <1>4, <1>5, <1>6, <1>7, <1>8, <1>9, <1>10
        DEF Next, Work, Disturbance, Load, Writer, Pump, Deliver, Collect, WatchForStop

\* A settled task stays settled.
LEMMA SettledStep ==
  ASSUME [Next]_vars
  PROVE  done \subseteq done' /\ expired \subseteq expired'
<1>1. ASSUME NEW m \in Manager, NEW p \in Payload, SyncMatch(m, p)
      PROVE  done \subseteq done' /\ expired \subseteq expired'
  BY <1>1 DEF SyncMatch
<1>2. ASSUME NEW m \in Manager, NEW row \in Held(m), RecordStarted(m, row)
      PROVE  done \subseteq done' /\ expired \subseteq expired'
  BY <1>2 DEF RecordStarted
<1>3. ASSUME NEW p \in Payload, Expire(p)
      PROVE  done \subseteq done' /\ expired \subseteq expired'
  BY <1>3 DEF Expire
<1> QED BY SettledChanges, <1>1, <1>2, <1>3

\* The actions that answer or start a call of AddTask.
LEMMA RespChanges ==
  ASSUME [Next]_vars
  PROVE  \/ UNCHANGED <<resp>>
         \/ \E m \in Manager, p \in Payload : SyncMatch(m, p) \/ AddTask(m, p)
                 \/ AddTaskReturns(m, p)
         \/ \E p \in Payload : AddTaskGivesUp(p)
<1>1. ASSUME NEW m \in Manager,
             LeaseRead(m) \/ LeaseWrite(m) \/ LeaseLost(m) \/ LeaseFails(m)
             \/ WriterTake(m) \/ WriterAlloc(m) \/ RenewRead(m) \/ RenewWrite(m)
             \/ RenewFails(m) \/ RenewLost(m)
      PROVE  UNCHANGED <<resp>>
  BY <1>1 DEF LeaseRead, LeaseWrite, LeaseLost, LeaseFails, WriterTake,
        WriterAlloc, RenewRead, RenewWrite, RenewFails, RenewLost, callerVars,
        GiveUpLease
<1>2. ASSUME NEW m \in Manager,
             WriterCreates(m) \/ WriterRejected(m) \/ WriterErrs(m) \/ WriterPublish(m)
             \/ PumpStart(m) \/ PumpRead(m) \/ PumpReadFails(m) \/ PumpEmpty(m)
             \/ PumpAdd(m) \/ PumpExit(m)
      PROVE  UNCHANGED <<resp>>
  BY <1>2 DEF WriterCreates, WriterRejected, WriterErrs, WriterPublish,
        PumpStart, PumpRead, PumpReadFails, PumpEmpty, PumpAdd, PumpExit, callerVars
<1>3. ASSUME NEW m \in Manager,
             PumpTimer(m) \/ PumpPersists(m) \/ PumpRejected(m) \/ PumpPersistErrs(m)
             \/ Stop(m) \/ StopPersist(m) \/ UpdatePartitionConfig(m)
      PROVE  UNCHANGED <<resp>>
  BY <1>3 DEF PumpTimer, PumpPersists, PumpRejected, PumpPersistErrs, Stop,
        StopPersist, UpdatePartitionConfig, callerVars
<1>4. ASSUME NEW m \in Manager, NEW row \in Held(m),
             Dispatch(m, row) \/ DispatchExpired(m, row) \/ RecordStarted(m, row)
             \/ FinishOK(m, row) \/ FinishErr(m, row) \/ RewriteOK(m, row)
             \/ RewriteRetry(m, row) \/ RewriteGivesUp(m, row)
      PROVE  UNCHANGED <<resp>>
  BY <1>4 DEF Dispatch, DispatchExpired, RecordStarted, FinishOK, FinishErr,
        RewriteOK, RewriteRetry, RewriteGivesUp, callerVars
<1>5. ASSUME NEW m \in Manager, NEW level \in gcReq[m],
             GCDelete(m, level) \/ GCSkip(m, level)
      PROVE  UNCHANGED <<resp>>
  BY <1>5 DEF GCDelete, GCSkip, callerVars
<1>6. ASSUME NEW p \in Payload,
             Expire(p)
      PROVE  UNCHANGED <<resp>>
  BY <1>6 DEF Expire, callerVars
<1>7. ASSUME NEW row \in store.tasks,
             TimeToLive(row)
      PROVE  UNCHANGED <<resp>>
  BY <1>7 DEF TimeToLive, callerVars
<1>8. ASSUME NEW w \in late,
             LateWrite(w)
      PROVE  UNCHANGED <<resp>>
  BY <1>8 DEF LateWrite, callerVars
<1>9. CASE UNCHANGED vars
  BY <1>9 DEF vars, callerVars
<1> QED BY <1>1, <1>2, <1>3, <1>4, <1>5, <1>6, <1>7, <1>8, <1>9
        DEF Next, Work, Disturbance, Load, Writer, Pump, Deliver, Collect, WatchForStop

\* A caller is told that its task is accepted when a poller took it or when the
\* writer has said so.
LEMMA RespEffects ==
  ASSUME TypeInv, [Next]_vars, NEW p \in Payload, resp'[p] = "ok"
  PROVE  \/ resp[p] = "ok" \/ p \in done'
         \/ \E m \in Manager : \E a \in replies[m] : a.res = "ok" /\ a.req = [p |-> p, old |-> 0]
<1>t. DOMAIN resp = Payload
  BY DEF TypeInv, TypeOK, CallerOK
<1> DEFINE Fine == \/ resp[p] = "ok" \/ p \in done'
                   \/ \E m \in Manager : \E a \in replies[m] :
                        a.res = "ok" /\ a.req = [p |-> p, old |-> 0]
<1>1. ASSUME NEW m \in Manager, NEW q \in Payload, SyncMatch(m, q) PROVE Fine
  <2>1. resp' = [resp EXCEPT ![q] = "ok"] /\ done' = done \cup {q}
    BY <1>1 DEF SyncMatch
  <2> QED BY <1>t, <2>1
<1>2. ASSUME NEW m \in Manager, NEW q \in Payload, AddTask(m, q) PROVE Fine
  <2>1. resp' = [resp EXCEPT ![q] = "wait"]
    BY <1>2 DEF AddTask
  <2> QED BY <1>t, <2>1
<1>3. ASSUME NEW m \in Manager, NEW q \in Payload, AddTaskReturns(m, q) PROVE Fine
  <2>1. PICK a \in replies[m] :
          /\ a.req = [p |-> q, old |-> 0]
          /\ resp' = [resp EXCEPT ![q] = IF a.res = "ok" THEN "ok" ELSE "err"]
    BY <1>3 DEF AddTaskReturns
  <2>2. CASE q # p
    BY <1>t, <2>1, <2>2
  <2>3. CASE q = p
    <3>1. a.res = "ok"
      BY <1>t, <2>1, <2>3
    <3> QED BY <2>1, <2>3, <3>1
  <2> QED BY <2>2, <2>3
<1>4. ASSUME NEW q \in Payload, AddTaskGivesUp(q) PROVE Fine
  <2>1. resp' = [resp EXCEPT ![q] = "err"]
    BY <1>4 DEF AddTaskGivesUp
  <2> QED BY <1>t, <2>1
<1>5. ASSUME UNCHANGED <<resp>> PROVE Fine
  BY <1>5
<1>6. Fine
  <2> HIDE DEF Fine
  <2> QED BY RespChanges, <1>1, <1>2, <1>3, <1>4, <1>5
<1> QED BY <1>6

\* The actions that send or take an answer of the writer.
LEMMA ReplyChanges ==
  ASSUME [Next]_vars
  PROVE  \/ UNCHANGED <<replies>>
         \/ \E m \in Manager : RenewFails(m) \/ RenewLost(m) \/ WriterPublish(m)
         \/ \E m \in Manager, p \in Payload : AddTaskReturns(m, p)
         \/ \E m \in Manager : \E row \in Held(m) : RewriteOK(m, row)
                 \/ RewriteRetry(m, row) \/ RewriteGivesUp(m, row)
         \/ \E p \in Payload : AddTaskGivesUp(p)
<1>1. ASSUME NEW m \in Manager,
             LeaseRead(m) \/ LeaseWrite(m) \/ LeaseLost(m) \/ LeaseFails(m)
             \/ WriterTake(m) \/ WriterAlloc(m) \/ RenewRead(m) \/ RenewWrite(m)
             \/ WriterCreates(m) \/ WriterRejected(m)
      PROVE  UNCHANGED <<replies>>
  BY <1>1 DEF LeaseRead, LeaseWrite, LeaseLost, LeaseFails, WriterTake,
        WriterAlloc, RenewRead, RenewWrite, WriterCreates, WriterRejected, writerVars
<1>2. ASSUME NEW m \in Manager,
             WriterErrs(m) \/ PumpStart(m) \/ PumpRead(m) \/ PumpReadFails(m)
             \/ PumpEmpty(m) \/ PumpAdd(m) \/ PumpExit(m) \/ PumpTimer(m)
             \/ PumpPersists(m) \/ PumpRejected(m)
      PROVE  UNCHANGED <<replies>>
  BY <1>2 DEF WriterErrs, PumpStart, PumpRead, PumpReadFails, PumpEmpty,
        PumpAdd, PumpExit, PumpTimer, PumpPersists, PumpRejected, writerVars
<1>3. ASSUME NEW m \in Manager,
             PumpPersistErrs(m) \/ Stop(m) \/ StopPersist(m)
             \/ UpdatePartitionConfig(m)
      PROVE  UNCHANGED <<replies>>
  BY <1>3 DEF PumpPersistErrs, Stop, StopPersist, UpdatePartitionConfig,
        writerVars
<1>4. ASSUME NEW m \in Manager, NEW p \in Payload,
             SyncMatch(m, p) \/ AddTask(m, p)
      PROVE  UNCHANGED <<replies>>
  BY <1>4 DEF SyncMatch, AddTask, writerVars
<1>5. ASSUME NEW m \in Manager, NEW row \in Held(m),
             Dispatch(m, row) \/ DispatchExpired(m, row) \/ RecordStarted(m, row)
             \/ FinishOK(m, row) \/ FinishErr(m, row)
      PROVE  UNCHANGED <<replies>>
  BY <1>5 DEF Dispatch, DispatchExpired, RecordStarted, FinishOK, FinishErr,
        writerVars
<1>6. ASSUME NEW m \in Manager, NEW level \in gcReq[m],
             GCDelete(m, level) \/ GCSkip(m, level)
      PROVE  UNCHANGED <<replies>>
  BY <1>6 DEF GCDelete, GCSkip, writerVars
<1>7. ASSUME NEW p \in Payload,
             Expire(p)
      PROVE  UNCHANGED <<replies>>
  BY <1>7 DEF Expire, writerVars
<1>8. ASSUME NEW row \in store.tasks,
             TimeToLive(row)
      PROVE  UNCHANGED <<replies>>
  BY <1>8 DEF TimeToLive, writerVars
<1>9. ASSUME NEW w \in late,
             LateWrite(w)
      PROVE  UNCHANGED <<replies>>
  BY <1>9 DEF LateWrite, writerVars
<1>10. CASE UNCHANGED vars
  BY <1>10 DEF vars, writerVars
<1> QED BY <1>1, <1>2, <1>3, <1>4, <1>5, <1>6, <1>7, <1>8, <1>9, <1>10
        DEF Next, Work, Disturbance, Load, Writer, Pump, Deliver, Collect, WatchForStop

\* The writer says that a task is written only when it publishes a batch that was.
LEMMA ReplyEffects ==
  ASSUME TypeInv, [Next]_vars, NEW n \in Manager, NEW a \in replies'[n], a.res = "ok"
  PROVE  \/ a \in replies[n]
         \/ /\ wpc[n] = "publish" /\ wres[n] = "ok"
            /\ \E b \in walloc[n] : a.req = RequestOf(b)
<1>t. DOMAIN replies = Manager
  BY DEF TypeInv, TypeOK, WriterOK
<1> DEFINE Fine == \/ a \in replies[n]
                   \/ /\ wpc[n] = "publish" /\ wres[n] = "ok"
                      /\ \E b \in walloc[n] : a.req = RequestOf(b)
<1>1. ASSUME NEW m \in Manager, RenewFails(m) \/ RenewLost(m) PROVE Fine
  <2>1. replies' = [replies EXCEPT ![m] = replies[m] \cup
                      Answers(m, wpend[m] \cup {RequestOf(b) : b \in walloc[m]}, "failed")]
    BY <1>1 DEF RenewFails, RenewLost, GiveUpLease
  <2>2. \A x \in Answers(m, wpend[m] \cup {RequestOf(b) : b \in walloc[m]}, "failed") :
          x.res = "failed"
    BY AnswerFields
  <2> QED BY <1>t, <2>1, <2>2
<1>2. ASSUME NEW m \in Manager, WriterPublish(m) PROVE Fine
  <2>1. /\ wpc[m] = "publish"
        /\ replies' = [replies EXCEPT ![m] = replies[m] \cup
                         Answers(m, {RequestOf(b) : b \in walloc[m]}, wres[m])]
    BY <1>2 DEF WriterPublish
  <2>2. \A x \in Answers(m, {RequestOf(b) : b \in walloc[m]}, wres[m]) :
          x.res = wres[m] /\ \E b \in walloc[m] : x.req = RequestOf(b)
    <3> DEFINE reqs == {RequestOf(b) : b \in walloc[m]}
    <3>1. \A x \in Answers(m, reqs, wres[m]) : x.res = wres[m] /\ x.req \in reqs
      BY AnswerFields
    <3> QED BY <3>1
  <2>3. \/ a \in replies[n]
        \/ n = m /\ a \in Answers(m, {RequestOf(b) : b \in walloc[m]}, wres[m])
    <3> DEFINE new == Answers(m, {RequestOf(b) : b \in walloc[m]}, wres[m])
    <3> HIDE DEF new
    <3>1. replies' = [replies EXCEPT ![m] = replies[m] \cup new]
      BY <2>1 DEF new
    <3>2. a \in replies[n] \/ (n = m /\ a \in new)
      BY <1>t, <3>1
    <3> QED BY <3>2 DEF new
  <2> QED BY <2>1, <2>2, <2>3
<1>3. ASSUME NEW m \in Manager, NEW p \in Payload, AddTaskReturns(m, p) PROVE Fine
  <2>1. \E x \in replies[m] : replies' = [replies EXCEPT ![m] = replies[m] \ {x}]
    BY <1>3 DEF AddTaskReturns
  <2> QED BY <1>t, <2>1
<1>4. ASSUME NEW m \in Manager, NEW row \in Held(m), RewriteOK(m, row) \/ RewriteRetry(m, row)
      PROVE  Fine
  <2>1. \E x \in replies[m] : replies' = [replies EXCEPT ![m] = replies[m] \ {x}]
    BY <1>4 DEF RewriteOK, RewriteRetry
  <2> QED BY <1>t, <2>1
<1>5. ASSUME NEW m \in Manager, NEW row \in Held(m), RewriteGivesUp(m, row) PROVE Fine
  <2>1. replies' = [replies EXCEPT ![m] = {x \in replies[m] : x.req # Rewrite(row)}]
    BY <1>5 DEF RewriteGivesUp
  <2> QED BY <1>t, <2>1
<1>6. ASSUME NEW p \in Payload, AddTaskGivesUp(p) PROVE Fine
  <2>1. replies' = [m \in Manager |-> {x \in replies[m] : x.req # [p |-> p, old |-> 0]}]
    BY <1>6 DEF AddTaskGivesUp
  <2> QED BY <2>1
<1>7. ASSUME UNCHANGED <<replies>> PROVE Fine
  BY <1>7
<1>8. Fine
  <2> HIDE DEF Fine
  <2> QED BY ReplyChanges, <1>1, <1>2, <1>3, <1>4, <1>5, <1>6, <1>7
<1> QED BY <1>8

\* The actions that move the writer or its batch.
LEMMA ResultChanges ==
  ASSUME [Next]_vars
  PROVE  \/ UNCHANGED <<wpc, wres, walloc>>
         \/ \E m \in Manager : WriterTake(m) \/ WriterAlloc(m) \/ RenewRead(m)
                 \/ RenewWrite(m) \/ RenewFails(m) \/ RenewLost(m)
                 \/ WriterCreates(m) \/ WriterRejected(m) \/ WriterErrs(m)
                 \/ WriterPublish(m)
<1>1. ASSUME NEW m \in Manager,
             LeaseRead(m) \/ LeaseWrite(m) \/ LeaseLost(m) \/ LeaseFails(m)
             \/ PumpStart(m) \/ PumpRead(m) \/ PumpReadFails(m) \/ PumpEmpty(m)
             \/ PumpAdd(m) \/ PumpExit(m)
      PROVE  UNCHANGED <<wpc, wres, walloc>>
  BY <1>1 DEF LeaseRead, LeaseWrite, LeaseLost, LeaseFails, PumpStart, PumpRead,
        PumpReadFails, PumpEmpty, PumpAdd, PumpExit, writerVars
<1>2. ASSUME NEW m \in Manager,
             PumpTimer(m) \/ PumpPersists(m) \/ PumpRejected(m) \/ PumpPersistErrs(m)
             \/ Stop(m) \/ StopPersist(m) \/ UpdatePartitionConfig(m)
      PROVE  UNCHANGED <<wpc, wres, walloc>>
  BY <1>2 DEF PumpTimer, PumpPersists, PumpRejected, PumpPersistErrs, Stop,
        StopPersist, UpdatePartitionConfig, writerVars
<1>3. ASSUME NEW m \in Manager, NEW p \in Payload,
             SyncMatch(m, p) \/ AddTask(m, p) \/ AddTaskReturns(m, p)
      PROVE  UNCHANGED <<wpc, wres, walloc>>
  BY <1>3 DEF SyncMatch, AddTask, AddTaskReturns, writerVars
<1>4. ASSUME NEW m \in Manager, NEW row \in Held(m),
             Dispatch(m, row) \/ DispatchExpired(m, row) \/ RecordStarted(m, row)
             \/ FinishOK(m, row) \/ FinishErr(m, row) \/ RewriteOK(m, row)
             \/ RewriteRetry(m, row) \/ RewriteGivesUp(m, row)
      PROVE  UNCHANGED <<wpc, wres, walloc>>
  BY <1>4 DEF Dispatch, DispatchExpired, RecordStarted, FinishOK, FinishErr,
        RewriteOK, RewriteRetry, RewriteGivesUp, writerVars
<1>5. ASSUME NEW m \in Manager, NEW level \in gcReq[m],
             GCDelete(m, level) \/ GCSkip(m, level)
      PROVE  UNCHANGED <<wpc, wres, walloc>>
  BY <1>5 DEF GCDelete, GCSkip, writerVars
<1>6. ASSUME NEW p \in Payload,
             AddTaskGivesUp(p) \/ Expire(p)
      PROVE  UNCHANGED <<wpc, wres, walloc>>
  BY <1>6 DEF AddTaskGivesUp, Expire, writerVars
<1>7. ASSUME NEW row \in store.tasks,
             TimeToLive(row)
      PROVE  UNCHANGED <<wpc, wres, walloc>>
  BY <1>7 DEF TimeToLive, writerVars
<1>8. ASSUME NEW w \in late,
             LateWrite(w)
      PROVE  UNCHANGED <<wpc, wres, walloc>>
  BY <1>8 DEF LateWrite, writerVars
<1>9. CASE UNCHANGED vars
  BY <1>9 DEF vars, writerVars
<1> QED BY <1>1, <1>2, <1>3, <1>4, <1>5, <1>6, <1>7, <1>8, <1>9
        DEF Next, Work, Disturbance, Load, Writer, Pump, Deliver, Collect, WatchForStop

\* A batch counts as written only once the store has accepted it.
LEMMA ResultEffects ==
  ASSUME TypeInv, [Next]_vars, NEW n \in Manager, wpc'[n] = "publish", wres'[n] = "ok"
  PROVE  /\ walloc'[n] = walloc[n]
         /\ WriterCreates(n) \/ (wpc[n] = "publish" /\ wres[n] = "ok")
<1>t. DOMAIN wpc = Manager /\ DOMAIN wres = Manager /\ DOMAIN walloc = Manager
  BY DEF TypeInv, TypeOK, WriterOK
<1> DEFINE Fine == /\ walloc'[n] = walloc[n]
                   /\ WriterCreates(n) \/ (wpc[n] = "publish" /\ wres[n] = "ok")
<1>1. ASSUME NEW m \in Manager,
             WriterTake(m) \/ RenewRead(m) \/ RenewWrite(m) \/ RenewFails(m) \/ RenewLost(m)
             \/ WriterPublish(m)
      PROVE  Fine
  <2>1. /\ \/ wpc' = [wpc EXCEPT ![m] = "alloc"] \/ wpc' = [wpc EXCEPT ![m] = "renew"]
           \/ wpc' = [wpc EXCEPT ![m] = "idle"]
        /\ wres' = wres \/ wres' = [wres EXCEPT ![m] = "ok"]
        /\ walloc' = walloc \/ walloc' = [walloc EXCEPT ![m] = {}]
    BY <1>1 DEF WriterTake, RenewRead, RenewWrite, RenewFails, RenewLost, GiveUpLease,
        WriterPublish
  <2>2. n # m
    BY <1>t, <2>1
  <2>3. wpc'[n] = wpc[n] /\ wres'[n] = wres[n] /\ walloc'[n] = walloc[n]
    BY <1>t, <2>1, <2>2
  <2> QED BY <2>3
<1>2. ASSUME NEW m \in Manager, WriterAlloc(m) PROVE Fine
  <2>1. /\ wpc[m] = "alloc" /\ UNCHANGED <<wpc, wres>>
        /\ \E req \in wpend[m] :
             walloc' = [walloc EXCEPT ![m] =
                          walloc[m] \cup {[id |-> next[m], p |-> req.p, old |-> req.old]}]
    BY <1>2 DEF WriterAlloc
  <2>2. n # m
    BY <2>1
  <2>3. walloc'[n] = walloc[n]
    BY <1>t, <2>1, <2>2
  <2> QED BY <2>1, <2>3
<1>3. ASSUME NEW m \in Manager, WriterRejected(m) \/ WriterErrs(m) PROVE Fine
  <2>1. /\ walloc' = walloc /\ wpc' = [wpc EXCEPT ![m] = "publish"]
        /\ wres' = [wres EXCEPT ![m] = "failed"] \/ wres' = [wres EXCEPT ![m] = "error"]
    BY <1>3 DEF WriterRejected, WriterErrs
  <2>2. n # m
    BY <1>t, <2>1
  <2>3. wpc'[n] = wpc[n] /\ wres'[n] = wres[n]
    BY <1>t, <2>1, <2>2
  <2> QED BY <2>1, <2>3
<1>4. ASSUME NEW m \in Manager, WriterCreates(m) PROVE Fine
  <2>1. /\ walloc' = walloc /\ wpc' = [wpc EXCEPT ![m] = "publish"]
        /\ wres' = [wres EXCEPT ![m] = "ok"]
    BY <1>4 DEF WriterCreates
  <2>2. n # m => wpc'[n] = wpc[n] /\ wres'[n] = wres[n]
    BY <1>t, <2>1
  <2> QED BY <1>4, <2>1, <2>2
<1>5. ASSUME UNCHANGED <<wpc, wres, walloc>> PROVE Fine
  BY <1>5
<1>6. Fine
  <2> HIDE DEF Fine
  <2> QED BY ResultChanges, <1>1, <1>2, <1>3, <1>4, <1>5
<1> QED BY <1>6
-----------------------------------------------------------------------------
\* Only one row is completed at a time.
LEMMA OneRewrite ==
  ASSUME TypeInv, NEW m \in Manager, NEW n \in Manager, NEW row, NEW x,
         RewriteOK(m, row), RewriteOK(n, x)
  PROVE  row = x
<1>1. /\ row \in rewriting[m] /\ rewriting' = [rewriting EXCEPT ![m] = rewriting[m] \ {row}]
      /\ x \in rewriting[n] /\ rewriting' = [rewriting EXCEPT ![n] = rewriting[n] \ {x}]
  BY DEF RewriteOK
<1>2. DOMAIN rewriting = Manager
  BY DEF TypeInv, TypeOK, TasksOK
<1>3. row \notin rewriting'[m]
  BY <1>1, <1>2
<1> QED BY <1>1, <1>2, <1>3

\* A task that is settled or has a safe row still has after a step: a row that is
\* completed because its task was written again leaves the later row.
LEMMA KeptOn ==
  ASSUME TypeInv, TypeInv', RowInv, OrderInv, OrderInv', LevelInv, FiniteInv, KeptInv,
         [Next]_vars, NEW p, NEW old \in Nat, Kept(p, old)
  PROVE  Kept(p, old)'
<1>s. Settled(p) => Settled(p)'
  BY SettledStep DEF Settled
<1>i. \A r \in store.tasks : r.id \in Nat
  BY TypeElements DEF Stores, Rows
<1>k. ASSUME NEW r \in store.tasks, r.p = p, r.id > old, Safe(r)' PROVE Kept(p, old)'
  <2>1. r \in store'.tasks
    BY <1>k DEF Safe
  <2> QED BY <1>k, <2>1 DEF Kept
<1>1. CASE Settled(p)
  BY <1>1, <1>s DEF Kept
<1>2. CASE ~Settled(p)
  <2>1. PICK row \in store.tasks : row.p = p /\ row.id > old /\ Safe(row)
    BY <1>2 DEF Kept
  <2>2. Safe(row)' \/ \E m \in Manager : RewriteOK(m, row)
    BY <1>2, <2>1, SafeStep DEF Released
  <2>3. ASSUME NEW m \in Manager, RewriteOK(m, row) PROVE Kept(p, old)'
    <3>1. PICK a \in replies[m] : a.req = Rewrite(row) /\ a.res = "ok"
      BY <2>3 DEF RewriteOK
    <3>2. a.req.p = p /\ a.req.old = row.id
      BY <2>1, <3>1, RequestFields
    <3>3. Kept(p, row.id)
      BY <3>1, <3>2 DEF KeptInv
    <3>4. PICK x \in store.tasks : x.p = p /\ x.id > row.id /\ Safe(x)
      BY <1>2, <3>3 DEF Kept
    <3>5. x # row /\ x.id > old
      BY <1>i, <2>1, <3>4, Order, Chain, Whole
    <3>6. ~Released(x)
      BY <1>2, <2>3, <3>4, <3>5, OneRewrite DEF Released
    <3>7. Safe(x)'
      BY <3>4, <3>6, SafeStep
    <3> QED BY <1>k, <3>4, <3>5, <3>7
  <2> QED BY <1>k, <2>1, <2>2, <2>3
<1> QED BY <1>1, <1>2

\* Layer 9 is inductive.
LEMMA KeptStep ==
  ASSUME TypeInv, TypeInv', RowInv, OrderInv, OrderInv', WriterInv, LevelInv, ReadInv,
         FiniteInv, KeptInv, [Next]_vars
  PROVE  KeptInv'
<1>k. ASSUME NEW p, NEW old \in Nat, Kept(p, old) PROVE Kept(p, old)'
  BY <1>k, KeptOn
<1>1. ASSUME NEW p \in Payload, resp'[p] = "ok" PROVE Kept(p, 0)'
  <2>1. CASE resp[p] = "ok"
    <3>1. Kept(p, 0) /\ 0 \in Nat
      BY <2>1 DEF KeptInv
    <3> QED BY <1>k, <3>1
  <2>2. CASE p \in done'
    BY <2>2 DEF Kept, Settled
  <2>3. ASSUME NEW m \in Manager, NEW a \in replies[m], a.res = "ok", a.req = [p |-> p, old |-> 0]
        PROVE  Kept(p, 0)'
    <3>1. a.req.p = p /\ a.req.old = 0 /\ 0 \in Nat
      <4>1. [p |-> p, old |-> 0].p = p /\ [p |-> p, old |-> 0].old = 0
        OBVIOUS
      <4> QED BY <2>3, <4>1, Whole
    <3>2. Kept(p, 0)
      BY <2>3, <3>1 DEF KeptInv
    <3> QED BY <1>k, <3>1, <3>2
  <2> QED BY <1>1, RespEffects, <2>1, <2>2, <2>3
<1>2. ASSUME NEW m \in Manager, NEW a \in replies'[m], a.res = "ok"
      PROVE  Kept(a.req.p, a.req.old)'
  <2>1. CASE a \in replies[m]
    <3>1. Kept(a.req.p, a.req.old)
      BY <1>2, <2>1 DEF KeptInv
    <3>2. a.req.old \in Nat
      BY <2>1, FieldTypes
    <3> QED BY <1>k, <3>1, <3>2
  <2>2. ASSUME wpc[m] = "publish", wres[m] = "ok", NEW b \in walloc[m], a.req = RequestOf(b)
        PROVE  Kept(a.req.p, a.req.old)'
    <3>1. a.req.p = b.p /\ a.req.old = b.old
      BY <2>2, RequestFields
    <3>2. Kept(b.p, b.old)
      BY <2>2 DEF KeptInv
    <3>3. b.old \in Nat
      BY FieldTypes
    <3> QED BY <1>k, <3>1, <3>2, <3>3
  <2> QED BY <1>2, ReplyEffects, <2>1, <2>2
<1>3. ASSUME NEW m \in Manager, wpc'[m] = "publish", wres'[m] = "ok", NEW a \in walloc'[m]
      PROVE  Kept(a.p, a.old)'
  <2>1. a \in walloc[m]
    BY <1>3, ResultEffects
  <2>2. CASE WriterCreates(m)
    BY <2>1, <2>2, NewRowSafe
  <2>3. CASE wpc[m] = "publish" /\ wres[m] = "ok"
    <3>1. Kept(a.p, a.old)
      BY <2>1, <2>3 DEF KeptInv
    <3>2. a.old \in Nat
      BY <2>1, FieldTypes
    <3> QED BY <1>k, <3>1, <3>2
  <2> QED BY <1>3, ResultEffects, <2>2, <2>3
<1> QED BY <1>1, <1>2, <1>3 DEF KeptInv
-----------------------------------------------------------------------------
\* The actions that move a row from hand to hand or complete it, and those that
\* change the life cycle of a manager; a fatal error is never taken back.
LEMMA HandChanges ==
  ASSUME [Next]_vars
  PROVE  \/ /\ UNCHANGED <<st, ack, buffer, started, rewriting>>
            /\ fatal' = fatal \/ \E m \in Manager : fatal' = [fatal EXCEPT ![m] = TRUE]
         \/ \E m \in Manager : LeaseRead(m) \/ LeaseWrite(m) \/ LeaseLost(m)
                 \/ LeaseFails(m) \/ Stop(m) \/ StopPersist(m) \/ PumpEmpty(m) \/ PumpAdd(m)
         \/ \E m \in Manager : \E row \in Held(m) : Dispatch(m, row)
                 \/ DispatchExpired(m, row) \/ FinishOK(m, row) \/ FinishErr(m, row)
                 \/ RewriteOK(m, row) \/ RewriteGivesUp(m, row)
<1> DEFINE Same == /\ UNCHANGED <<st, ack, buffer, started, rewriting>>
                   /\ fatal' = fatal \/ \E m \in Manager : fatal' = [fatal EXCEPT ![m] = TRUE]
<1>1. ASSUME NEW m \in Manager,
             WriterTake(m) \/ WriterAlloc(m) \/ RenewRead(m) \/ RenewWrite(m)
             \/ RenewFails(m) \/ RenewLost(m) \/ WriterCreates(m) \/ WriterRejected(m)
             \/ WriterErrs(m) \/ WriterPublish(m)
      PROVE  Same
  BY <1>1 DEF WriterTake, WriterAlloc, RenewRead, RenewWrite, RenewFails, RenewLost,
        WriterCreates, WriterRejected, WriterErrs, WriterPublish, GiveUpLease, leaseVars,
        taskVars, stopVars
<1>2. ASSUME NEW m \in Manager,
             PumpStart(m) \/ PumpRead(m) \/ PumpReadFails(m) \/ PumpExit(m) \/ PumpTimer(m)
             \/ PumpPersists(m) \/ PumpRejected(m) \/ PumpPersistErrs(m)
             \/ UpdatePartitionConfig(m)
      PROVE  Same
  BY <1>2 DEF PumpStart, PumpRead, PumpReadFails, PumpExit, PumpTimer, PumpPersists,
        PumpRejected, PumpPersistErrs, UpdatePartitionConfig, leaseVars, taskVars, stopVars
<1>3. ASSUME NEW m \in Manager, NEW p \in Payload,
             SyncMatch(m, p) \/ AddTask(m, p) \/ AddTaskReturns(m, p)
      PROVE  Same
  BY <1>3 DEF SyncMatch, AddTask, AddTaskReturns, leaseVars, taskVars, stopVars
<1>4. ASSUME NEW m \in Manager, NEW row \in Held(m),
             RecordStarted(m, row) \/ RewriteRetry(m, row)
      PROVE  Same
  BY <1>4 DEF RecordStarted, RewriteRetry, leaseVars, taskVars, stopVars
<1>5. ASSUME NEW m \in Manager, NEW level \in gcReq[m],
             GCDelete(m, level) \/ GCSkip(m, level)
      PROVE  Same
  BY <1>5 DEF GCDelete, GCSkip, leaseVars, taskVars, stopVars
<1>6. ASSUME NEW p \in Payload, AddTaskGivesUp(p) \/ Expire(p) PROVE Same
  BY <1>6 DEF AddTaskGivesUp, Expire, leaseVars, taskVars, stopVars
<1>7. ASSUME NEW row \in store.tasks, TimeToLive(row) PROVE Same
  BY <1>7 DEF TimeToLive, leaseVars, taskVars, stopVars
<1>8. ASSUME NEW w \in late, LateWrite(w) PROVE Same
  BY <1>8 DEF LateWrite, leaseVars, taskVars, stopVars
<1>9. ASSUME UNCHANGED vars PROVE Same
  BY <1>9 DEF vars, leaseVars, taskVars, stopVars
<1> HIDE DEF Same
<1>10. \/ Same
       \/ \E m \in Manager : LeaseRead(m) \/ LeaseWrite(m) \/ LeaseLost(m)
               \/ LeaseFails(m) \/ Stop(m) \/ StopPersist(m) \/ PumpEmpty(m) \/ PumpAdd(m)
       \/ \E m \in Manager : \E row \in Held(m) : Dispatch(m, row)
               \/ DispatchExpired(m, row) \/ FinishOK(m, row) \/ FinishErr(m, row)
               \/ RewriteOK(m, row) \/ RewriteGivesUp(m, row)
  BY <1>1, <1>2, <1>3, <1>4, <1>5, <1>6, <1>7, <1>8, <1>9
        DEF Next, Work, Disturbance, Load, Writer, Pump, Deliver, Collect, WatchForStop
<1> QED BY <1>10 DEF Same

\* What a step may do to the hands of manager m: nothing, or move the row to another
\* hand, or complete it in the ack manager, or register it and buffer it.
HandsStill(m) ==
  /\ buffer'[m] = buffer[m] /\ started'[m] = started[m] /\ rewriting'[m] = rewriting[m]

RowMoves(m, row) ==
  /\ Alive(m) /\ Alive(m)' /\ ack'[m] = ack[m]
  /\ \/ /\ row \in buffer[m] /\ buffer'[m] = buffer[m] \ {row}
        /\ started'[m] = started[m] \cup {row} /\ rewriting'[m] = rewriting[m]
     \/ /\ row \in started[m] /\ started'[m] = started[m] \ {row}
        /\ rewriting'[m] = rewriting[m] \cup {row} /\ buffer'[m] = buffer[m]

RowDone(m, row) ==
  /\ Alive(m) /\ Alive(m)' /\ ack'[m] = AckItem(ack[m], row.id)
  /\ \/ /\ row \in buffer[m] /\ buffer'[m] = buffer[m] \ {row}
        /\ started'[m] = started[m] /\ rewriting'[m] = rewriting[m]
     \/ /\ row \in started[m] /\ started'[m] = started[m] \ {row}
        /\ buffer'[m] = buffer[m] /\ rewriting'[m] = rewriting[m]
     \/ /\ row \in rewriting[m] /\ rewriting'[m] = rewriting[m] \ {row}
        /\ buffer'[m] = buffer[m] /\ started'[m] = started[m]

RowBuffered(m, row) ==
  /\ Alive(m) /\ Alive(m)' /\ row \in batch[m] /\ ack'[m] = ReadItem(ack[m], row.id)
  /\ buffer'[m] = buffer[m] \cup {row}
  /\ started'[m] = started[m] /\ rewriting'[m] = rewriting[m]

\* A manager that runs without a fatal error did so before the step, or has just
\* been loaded; a manager that is loaded stays so.
LivesOn(m) ==
  /\ Alive(m) => Alive(m)'
  /\ st'[m] = "running" /\ ~fatal'[m] => (st[m] = "running" /\ ~fatal[m]) \/ ~Alive(m)

\* What a step does to the hands of one manager.
LEMMA HandEffects ==
  ASSUME TypeInv, OrderInv, [Next]_vars, NEW n \in Manager
  PROVE  /\ LivesOn(n)
         /\ \/ HandsStill(n) /\ ack'[n].unacked = ack[n].unacked
            \/ Alive(n)' /\ fatal'[n]
            \/ \E row \in Held(n) : RowMoves(n, row) \/ RowDone(n, row)
            \/ \E row \in batch[n] : RowBuffered(n, row)
<1>t. /\ st \in [Manager -> ManagerStates] /\ fatal \in [Manager -> BOOLEAN]
      /\ ack \in [Manager -> AckManagers] /\ DOMAIN buffer = Manager
      /\ DOMAIN started = Manager /\ DOMAIN rewriting = Manager
  BY DEF TypeInv, TypeOK, LeaseOK, StopOK, TasksOK
<1> DEFINE Fine == /\ LivesOn(n)
                   /\ \/ HandsStill(n) /\ ack'[n].unacked = ack[n].unacked
                      \/ Alive(n)' /\ fatal'[n]
                      \/ \E row \in Held(n) : RowMoves(n, row) \/ RowDone(n, row)
                      \/ \E row \in batch[n] : RowBuffered(n, row)
<1>1. ASSUME UNCHANGED <<st, ack, buffer, started, rewriting>>,
             fatal' = fatal \/ \E m \in Manager : fatal' = [fatal EXCEPT ![m] = TRUE]
      PROVE  Fine
  <2>1. fatal[n] => fatal'[n]
    BY <1>1, <1>t
  <2> QED BY <1>1, <2>1 DEF LivesOn, HandsStill, Alive
<1>2. ASSUME NEW m \in Manager,
             LeaseRead(m) \/ LeaseLost(m) \/ LeaseFails(m) \/ Stop(m) \/ StopPersist(m)
      PROVE  Fine
  <2>1. UNCHANGED <<ack, buffer, started, rewriting, fatal>>
    BY <1>2 DEF LeaseRead, LeaseLost, LeaseFails, Stop, StopPersist, taskVars, stopVars
  <2>2. /\ \E x \in {"leasing", "new", "failed", "stopping", "stopped"} : st' = [st EXCEPT ![m] = x]
        /\ \/ ~Alive(m)
           \/ st' = [st EXCEPT ![m] = "stopping"] \/ st' = [st EXCEPT ![m] = "stopped"]
    BY <1>2 DEF LeaseRead, LeaseLost, LeaseFails, Stop, StopPersist, Alive
  <2>3. LivesOn(n)
    BY <2>1, <2>2, <1>t DEF LivesOn, Alive
  <2> QED BY <2>1, <2>3 DEF HandsStill
<1>3. ASSUME NEW m \in Manager, LeaseWrite(m) PROVE Fine
  <2>1. /\ UNCHANGED <<buffer, started, rewriting, fatal>> /\ st[m] = "leasing"
        /\ st' = [st EXCEPT ![m] = "running"]
        /\ ack' = [ack EXCEPT ![m] = SetAckLevel(ack[m], seen[m].ackLevel)]
    BY <1>3 DEF LeaseWrite, stopVars
  <2>2. CASE n = m
    <3>1. LivesOn(n)
      BY <2>1, <2>2, <1>t DEF LivesOn, Alive
    <3>2. /\ ack'[n] = SetAckLevel(ack[n], seen[n].ackLevel)
          /\ ack[n] \in AckManagers /\ seen[n].ackLevel \in Nat
      BY <2>1, <2>2, <1>t, TypeElements
    <3>3. ack'[n].unacked = ack[n].unacked
      BY <3>2, SetAckLevelFacts
    <3> QED BY <2>1, <3>1, <3>3 DEF HandsStill
  <2>3. CASE n # m
    <3>1. st'[n] = st[n] /\ ack'[n] = ack[n]
      BY <2>1, <2>3, <1>t
    <3> QED BY <2>1, <3>1 DEF HandsStill, LivesOn, Alive
  <2> QED BY <2>2, <2>3
<1>4. ASSUME NEW m \in Manager, PumpEmpty(m) PROVE Fine
  <2>1. /\ UNCHANGED <<st, buffer, started, rewriting, fatal>> /\ ppc[m] = "read"
        /\ ack' = [ack EXCEPT ![m] = AfterEmptyRead(ack[m], cursor[m])]
    BY <1>4 DEF PumpEmpty, leaseVars, stopVars
  <2>2. ack'[n].unacked = ack[n].unacked
    <3>1. CASE n = m
      <4>1. ack'[n] = AfterEmptyRead(ack[n], cursor[n]) /\ ack[n] \in AckManagers /\ cursor[n] \in Nat
        BY <2>1, <3>1, <1>t, TypeElements
      <4>2. ack[n].readLevel <= cursor[n] /\ AckOrder(ack[n])
        BY <2>1, <3>1 DEF OrderInv, OrderOf
      <4>3. AfterEmptyRead(ack[n], cursor[n]).unacked = ack[n].unacked
        BY <4>1, <4>2, AfterEmptyReadFacts
      <4> QED BY <4>1, <4>3
    <3>2. CASE n # m
      BY <2>1, <3>2, <1>t
    <3> QED BY <3>1, <3>2
  <2> QED BY <2>1, <2>2 DEF HandsStill, LivesOn, Alive
<1>5. ASSUME NEW m \in Manager, PumpAdd(m) PROVE Fine
  <2>1. PICK row \in batch[m] :
          /\ UNCHANGED <<st, started, rewriting, fatal>> /\ Alive(m)
          /\ \/ ack' = [ack EXCEPT ![m] = SetReadLevel(ack[m], row.id)] /\ buffer' = buffer
             \/ /\ ack' = [ack EXCEPT ![m] = ReadItem(ack[m], row.id)]
                /\ buffer' = [buffer EXCEPT ![m] = buffer[m] \cup {row}]
    BY <1>5 DEF PumpAdd, leaseVars, stopVars
  <2>l. LivesOn(n)
    BY <2>1 DEF LivesOn, Alive
  <2>2. CASE n # m
    <3>1. ack'[n] = ack[n] /\ buffer'[n] = buffer[n]
      BY <2>1, <2>2, <1>t
    <3> QED BY <2>1, <2>l, <3>1 DEF HandsStill
  <2>3. CASE n = m /\ ack' = [ack EXCEPT ![m] = SetReadLevel(ack[m], row.id)] /\ buffer' = buffer
    <3>1. row.id \in Nat
      BY FieldTypes
    <3>2. ack'[n] = SetReadLevel(ack[n], row.id) /\ ack[n] \in AckManagers
      BY <2>3, <1>t
    <3>3. ack'[n].unacked = ack[n].unacked
      <4>1. SetReadLevel(ack[n], row.id).unacked = ack[n].unacked
        BY <3>1, <3>2, SetReadLevelFacts
      <4> QED BY <3>2, <4>1
    <3> QED BY <2>1, <2>3, <2>l, <3>3 DEF HandsStill
  <2>4. CASE /\ n = m /\ ack' = [ack EXCEPT ![m] = ReadItem(ack[m], row.id)]
             /\ buffer' = [buffer EXCEPT ![m] = buffer[m] \cup {row}]
    <3>1. ack'[n] = ReadItem(ack[n], row.id) /\ buffer'[n] = buffer[n] \cup {row} /\ row \in batch[n]
      BY <2>4, <1>t
    <3>2. RowBuffered(n, row)
      BY <2>1, <2>4, <3>1 DEF RowBuffered, Alive
    <3> QED BY <2>l, <3>1, <3>2
  <2> QED BY <2>1, <2>2, <2>3, <2>4
<1>6. ASSUME NEW m \in Manager, NEW row \in Held(m),
             \/ Dispatch(m, row) \/ FinishErr(m, row)
             \/ DispatchExpired(m, row) \/ FinishOK(m, row) \/ RewriteOK(m, row)
      PROVE  Fine
  <2>1. /\ UNCHANGED <<st, fatal>> /\ Alive(m)
        /\ \/ /\ ack' = ack /\ row \in buffer[m] /\ rewriting' = rewriting
              /\ buffer' = [buffer EXCEPT ![m] = buffer[m] \ {row}]
              /\ started' = [started EXCEPT ![m] = started[m] \cup {row}]
           \/ /\ ack' = ack /\ row \in started[m] /\ buffer' = buffer
              /\ started' = [started EXCEPT ![m] = started[m] \ {row}]
              /\ rewriting' = [rewriting EXCEPT ![m] = rewriting[m] \cup {row}]
           \/ /\ ack' = [ack EXCEPT ![m] = AckItem(ack[m], row.id)] /\ row \in buffer[m]
              /\ buffer' = [buffer EXCEPT ![m] = buffer[m] \ {row}]
              /\ UNCHANGED <<started, rewriting>>
           \/ /\ ack' = [ack EXCEPT ![m] = AckItem(ack[m], row.id)] /\ row \in started[m]
              /\ started' = [started EXCEPT ![m] = started[m] \ {row}]
              /\ UNCHANGED <<buffer, rewriting>>
           \/ /\ ack' = [ack EXCEPT ![m] = AckItem(ack[m], row.id)] /\ row \in rewriting[m]
              /\ rewriting' = [rewriting EXCEPT ![m] = rewriting[m] \ {row}]
              /\ UNCHANGED <<buffer, started>>
    BY <1>6 DEF Dispatch, FinishErr, DispatchExpired, FinishOK, RewriteOK, Complete,
          leaseVars, stopVars
  <2>l. LivesOn(n)
    BY <2>1 DEF LivesOn, Alive
  <2>2. CASE n # m
    <3>1. ack'[n] = ack[n] /\ HandsStill(n)
      BY <2>1, <2>2, <1>t DEF HandsStill
    <3> QED BY <2>l, <3>1
  <2>3. CASE n = m
    <3>1. RowMoves(n, row) \/ RowDone(n, row)
      BY <2>1, <2>3, <1>t DEF RowMoves, RowDone, Alive
    <3> QED BY <2>3, <2>l, <3>1
  <2> QED BY <2>2, <2>3
<1>7. ASSUME NEW m \in Manager, NEW row \in Held(m), RewriteGivesUp(m, row) PROVE Fine
  <2>1. /\ UNCHANGED <<st, ack, buffer>> /\ fatal' = [fatal EXCEPT ![m] = TRUE] /\ Alive(m)
        /\ started' = [started EXCEPT ![m] = started[m] \ {row}]
        /\ rewriting' = [rewriting EXCEPT ![m] = rewriting[m] \ {row}]
    BY <1>7 DEF RewriteGivesUp, leaseVars
  <2>2. (fatal[n] => fatal'[n]) /\ (n = m => fatal'[n])
    BY <2>1, <1>t
  <2>l. LivesOn(n)
    BY <2>1, <2>2 DEF LivesOn, Alive
  <2>3. n # m => HandsStill(n)
    BY <2>1, <1>t DEF HandsStill
  <2> QED BY <2>1, <2>2, <2>3, <2>l DEF Alive
<1> HIDE DEF Fine
<1>8. Fine
  BY HandChanges, <1>1, <1>2, <1>3, <1>4, <1>5, <1>6, <1>7
<1> QED BY <1>8 DEF Fine

\* Layer 10 is inductive: IDs name rows uniquely, so that completing one row leaves
\* the IDs of the others, and a row that is read was in nobody's hands before.
LEMMA HandStep ==
  ASSUME TypeInv, RowInv, OrderInv, HandInv, [Next]_vars
  PROVE  HandInv'
<1> SUFFICES ASSUME NEW n \in Manager PROVE HandOf(n)'
  BY DEF HandInv
<1>t. /\ ack[n] \in AckManagers /\ Held(n) \in SUBSET Rows /\ batch[n] \in SUBSET Rows
      /\ ack[n].unacked \in SUBSET Nat /\ ack[n].readLevel \in Int /\ ack[n].ackLevel \in Int
  BY TypeElements, Whole DEF TypeInv, TypeOK, PumpOK, AckManagers, Levels
<1>i. \A r, t \in Held(n) \cup batch[n] : r.id = t.id => r = t
  <2>1. Held(n) \cup batch[n] \subseteq KnownRows
    BY KnownIs DEF Held
  <2> QED BY <2>1 DEF RowInv, TaskIDsUnique
<1>h. HandOf(n) /\ LivesOn(n)
  BY HandEffects DEF HandInv
<1> DEFINE Running == st[n] = "running" /\ ~fatal[n]
           IDs(S) == {row.id : row \in S}
<1>1. ASSUME HandsStill(n), ack'[n].unacked = ack[n].unacked PROVE HandOf(n)'
  <2>1. Held(n)' = Held(n)
    BY <1>1 DEF HandsStill, Held
  <2>2. CASE Alive(n)
    <3>1. Alive(n)' /\ (st'[n] = "running" /\ ~fatal'[n] => st[n] = "running" /\ ~fatal[n])
      BY <1>h, <2>2 DEF LivesOn
    <3> QED BY <1>1, <1>h, <2>1, <2>2, <3>1 DEF HandOf, HandsStill
  <2>3. CASE ~Alive(n)
    <3>1. Held(n) = {} /\ buffer[n] = {} /\ started[n] = {} /\ rewriting[n] = {}
      BY <1>h, <2>3 DEF HandOf, Held
    <3>2. ack[n].unacked = {}
      <4>1. ack[n] = NewAckManager
        BY <2>3 DEF OrderInv, OrderOf
      <4>2. NewAckManager.unacked = {}
        BY DEF NewAckManager
      <4> QED BY <4>1, <4>2
    <3>3. ack'[n].unacked = {} /\ Held(n)' = {}
      BY <1>1, <2>1, <3>1, <3>2
    <3>4. buffer'[n] = {} /\ started'[n] = {} /\ rewriting'[n] = {}
      BY <1>1, <3>1 DEF HandsStill
    <3>5. ack'[n].unacked = {row.id : row \in Held(n)'}
      BY <3>3
    <3>6. /\ buffer'[n] \cap started'[n] = {}
          /\ (buffer'[n] \cup started'[n]) \cap rewriting'[n] = {}
      BY <3>4
    <3> QED BY <3>3, <3>5, <3>6 DEF HandOf
  <2> QED BY <2>2, <2>3
<1>2. ASSUME Alive(n)', fatal'[n] PROVE HandOf(n)'
  BY <1>2 DEF HandOf
<1>3. ASSUME NEW row \in Held(n), RowMoves(n, row) PROVE HandOf(n)'
  <2>1. Alive(n)' /\ (st'[n] = "running" /\ ~fatal'[n] => Running) /\ ack'[n] = ack[n]
    BY <1>3, <1>h DEF LivesOn, RowMoves
  <2>2. buffer'[n] \cup started'[n] \cup rewriting'[n] = Held(n)
    BY <1>3 DEF RowMoves, Held
  <2>3. Running => /\ buffer'[n] \cap started'[n] = {}
                   /\ (buffer'[n] \cup started'[n]) \cap rewriting'[n] = {}
    BY <1>3, <1>h DEF RowMoves, HandOf
  <2>4. Running => ack[n].unacked = IDs(Held(n))
    BY <1>h DEF HandOf
  <2>5. Held(n)' = Held(n)
    BY <2>2 DEF Held
  <2> QED BY <2>1, <2>3, <2>4, <2>5 DEF HandOf
<1>4. ASSUME NEW row \in Held(n), RowDone(n, row) PROVE HandOf(n)'
  <2>1. Alive(n)' /\ (st'[n] = "running" /\ ~fatal'[n] => Running)
    BY <1>4, <1>h DEF LivesOn, RowDone
  <2>2. ASSUME Running
        PROVE  /\ buffer'[n] \cup started'[n] \cup rewriting'[n] = Held(n) \ {row}
               /\ buffer'[n] \cap started'[n] = {}
               /\ (buffer'[n] \cup started'[n]) \cap rewriting'[n] = {}
    <3>1. buffer[n] \cap started[n] = {} /\ (buffer[n] \cup started[n]) \cap rewriting[n] = {}
      BY <2>2, <1>h DEF HandOf
    <3> QED BY <3>1, <1>4 DEF RowDone, Held
  <2>3. ack'[n].unacked = ack[n].unacked \ {row.id}
    <3>1. row.id \in Nat /\ ack'[n] = AckItem(ack[n], row.id)
      BY <1>4, <1>t DEF RowDone, Rows
    <3> QED BY <1>t, <3>1, AckItemFacts
  <2>4. IDs(Held(n) \ {row}) = IDs(Held(n)) \ {row.id}
    BY <1>i
  <2>5. Running => ack[n].unacked = IDs(Held(n))
    BY <1>h DEF HandOf
  <2>6. Running => Held(n)' = Held(n) \ {row}
    BY <2>2 DEF Held
  <2>7. Running => ack'[n].unacked = IDs(Held(n)')
    BY <2>3, <2>4, <2>5, <2>6
  <2> QED BY <2>1, <2>2, <2>7 DEF HandOf
<1>5. ASSUME NEW row \in batch[n], RowBuffered(n, row) PROVE HandOf(n)'
  <2>1. Alive(n)' /\ (st'[n] = "running" /\ ~fatal'[n] => Running) /\ ack'[n] = ReadItem(ack[n], row.id)
    BY <1>5, <1>h DEF LivesOn, RowBuffered
  <2>2. row.id \in Nat /\ ack[n].readLevel < row.id /\ AckOrder(ack[n])
    BY <1>t DEF OrderInv, OrderOf, Rows
  <2>3. row.id \notin ack[n].unacked /\ CanReadItem(ack[n], row.id)
    <3>1. ack[n].acked \in SUBSET Nat
      BY <1>t DEF AckManagers
    <3> QED BY <3>1, <1>t, <2>2, Order, Whole DEF AckOrder, CanReadItem
  <2>4. ack'[n].unacked = ack[n].unacked \cup {row.id}
    BY <1>t, <2>1, <2>2, <2>3, ReadItemFacts
  <2>5. buffer'[n] \cup started'[n] \cup rewriting'[n] = Held(n) \cup {row}
    BY <1>5 DEF RowBuffered, Held
  <2>6. ASSUME Running
        PROVE  /\ ack'[n].unacked = IDs(Held(n) \cup {row})
               /\ buffer'[n] \cap started'[n] = {}
               /\ (buffer'[n] \cup started'[n]) \cap rewriting'[n] = {}
    <3>1. /\ ack[n].unacked = IDs(Held(n)) /\ buffer[n] \cap started[n] = {}
          /\ (buffer[n] \cup started[n]) \cap rewriting[n] = {}
      BY <2>6, <1>h DEF HandOf
    <3>2. row \notin Held(n)
      BY <2>3, <3>1
    <3>3. ack'[n].unacked = IDs(Held(n) \cup {row})
      BY <2>4, <3>1
    <3>4. /\ buffer'[n] \cap started'[n] = {}
          /\ (buffer'[n] \cup started'[n]) \cap rewriting'[n] = {}
      BY <1>5, <3>1, <3>2 DEF RowBuffered, Held
    <3> QED BY <3>3, <3>4
  <2>7. Held(n)' = Held(n) \cup {row}
    BY <2>5 DEF Held
  <2>8. Running => ack'[n].unacked = IDs(Held(n)')
    BY <2>6, <2>7
  <2> QED BY <2>1, <2>6, <2>8 DEF HandOf
<1> QED BY HandEffects, <1>1, <1>2, <1>3, <1>4, <1>5

-----------------------------------------------------------------------------
\* Layers 5 to 10 hold in the initial state.
LEMMA KeptInit ==
  ASSUME Init
  PROVE  /\ RenewInv /\ WriterInv /\ LevelInv /\ ReadInv /\ FiniteInv
         /\ KeptInv /\ HandInv
<1>b. BlockEnd(0) = 0
  BY NoBlock
<1>s. store.rangeID = 0 /\ store.ackLevel = 0 /\ store.tasks = {} /\ late = {}
  BY DEF Init, EmptyStore
<1>1. ASSUME NEW m \in Manager
      PROVE  /\ ~Alive(m) /\ wpc[m] = "idle" /\ wpc[m] # "renew" /\ walloc[m] = {} /\ replies[m] = {}
             /\ maxRead[m] = 0 /\ last[m] = 0
    BY DEF Init, Alive
<1>2. ASSUME NEW m \in Manager
      PROVE  /\ ack[m].readLevel = -1 /\ dbAck[m] = 0 /\ pval[m] = 0 /\ sval[m] = 0
             /\ gcReq[m] = {} /\ cursor[m] = 0 /\ pmax[m] = 0 /\ batch[m] = {}
             /\ seen[m].rangeID = 0 /\ seen[m].ackLevel = 0
    BY DEF Init, NewAckManager, NothingSeen
<1>3. RenewInv
  BY <1>1 DEF RenewInv, RenewOf
<1>4. WriterInv
  BY <1>1, <1>b, <1>s, Whole DEF WriterInv
<1>5. LevelInv
  <2>1. ASSUME NEW m \in Manager PROVE LevelsOf(m) /\ SeenOf(m)
    <3>1. LevelsOf(m)
      <4>1. 0 <= 0 /\ -1 <= 0
        BY Order, Whole
      <4> QED BY <1>1, <1>2, <4>1 DEF LevelsOf
    <3>2. SeenOf(m)
      BY <1>2, <1>b, <1>s, Whole DEF SeenOf
    <3> QED BY <3>1, <3>2
  <2>2. store.ackLevel <= BlockEnd(store.rangeID)
    BY <1>b, <1>s, Whole
  <2> QED BY <1>1, <2>1, <2>2 DEF LevelInv
<1>6. ReadInv
  BY <1>1 DEF Init, ReadInv, Held
<1>7. FiniteInv
  BY <1>1, <1>s, FS_EmptySet DEF FiniteInv
<1>8. KeptInv
  <2>1. \A p \in Payload : resp[p] = "none"
    BY DEF Init
  <2>2. \A p \in Payload : resp[p] # "ok"
    BY <2>1
  <2>3. \A m \in Manager : wpc[m] # "publish" /\ replies[m] = {}
    BY <1>1
  <2> QED BY <2>2, <2>3 DEF KeptInv
<1>9. HandInv
  <2>1. ASSUME NEW m \in Manager PROVE Held(m) = {} /\ st[m] # "running"
    BY DEF Init, Held
  <2> QED BY <2>1 DEF HandInv, HandOf
<1> QED BY <1>3, <1>4, <1>5, <1>6, <1>7, <1>8, <1>9

\* The inductive invariant of TaskListInv holds in every reachable state.
THEOREM Inductive == Spec => []IInv
<1> DEFINE Low  == TypeInv /\ LeaseInv /\ RowInv /\ OrderInv
           High == /\ RenewInv /\ WriterInv /\ LevelInv /\ ReadInv /\ FiniteInv
                   /\ KeptInv /\ HandInv
<1>1. Init => High
  BY KeptInit
<1>2. Low /\ Low' /\ High /\ [Next]_vars => High'
  <2> SUFFICES ASSUME Low, Low', High, [Next]_vars PROVE High'
    OBVIOUS
  <2>1. RenewInv' /\ WriterInv'
    BY RenewStep, WriterStep
  <2>2. LevelInv'
    BY LevelStep
  <2>3. ReadInv' /\ FiniteInv'
    BY ReadStep, FiniteStep
  <2>4. KeptInv'
    BY KeptStep
  <2>5. HandInv'
    BY HandStep
  <2> QED BY <2>1, <2>2, <2>3, <2>4, <2>5
<1>3. Spec => []Low
  BY OrderInvariant
<1>4. Low /\ High => IInv
  BY DEF IInv
<1>5. Spec => Init /\ [][Next]_vars
  BY DEF Spec
<1> HIDE DEF Low, High
<1> QED BY <1>1, <1>2, <1>3, <1>4, <1>5, PTL

\* Once AddTask has returned without an error the task has been handed to a worker,
\* has expired, or is in a row that whoever loads the list next will read: lost
\* leases, stale managers, failed and delayed writes, retries, range deletes and
\* unloading included.
THEOREM TasksKept == Spec => []NoTaskLost
<1>1. IInv => NoTaskLost
  <2> SUFFICES ASSUME IInv, NEW p \in Payload, resp[p] = "ok"
               PROVE  Settled(p) \/ \E row \in store.tasks : row.p = p /\ row.id > store.ackLevel
    BY DEF NoTaskLost
  <2>1. Kept(p, 0)
    BY DEF IInv, KeptInv
  <2> QED BY <2>1 DEF Kept, Safe
<1> QED BY <1>1, Inductive, PTL

\* Neither the ack level of a manager nor a level with which the garbage collector
\* was called passes the last row of an unsettled task.
THEOREM AckBelowTasks == Spec => []AckNeverPassesTask
<1>1. IInv => AckNeverPassesTask
  <2> SUFFICES ASSUME IInv, NEW p \in Payload, resp[p] = "ok", ~Settled(p), NEW m \in Manager
               PROVE  /\ ~Passes(ack[m].ackLevel, p)
                      /\ \A level \in gcReq[m] : ~Passes(level, p)
    BY DEF AckNeverPassesTask
  <2>1. Kept(p, 0)
    BY DEF IInv, KeptInv
  <2>2. PICK row \in store.tasks : row.p = p /\ Safe(row)
    BY <2>1 DEF Kept
  <2>3. row.id > ack[m].ackLevel /\ \A level \in gcReq[m] : row.id > level
    BY <2>2 DEF Safe, SafeFrom
  <2> QED BY <2>2, <2>3 DEF Passes
<1> QED BY <1>1, Inductive, PTL

\* Nothing holds the ack level back that nobody holds: in a manager without a fatal
\* error the items without an ack are the rows that wait for a poller, were handed to
\* one, or wait to be written again, whatever the order in which they were completed.
THEOREM HandsComplete == Spec => []NothingStranded
<1>1. IInv => NothingStranded
  BY DEF IInv, HandInv, HandOf, NothingStranded
<1> QED BY <1>1, Inductive, PTL
=============================================================================
