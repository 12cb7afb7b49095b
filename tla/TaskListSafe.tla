--------------------------- MODULE TaskListSafe ---------------------------
(***************************************************************************)
(* A safe row stays safe until its task is settled or written again: no    *)
(* manager, current or stale, acknowledges it, reads past it, deletes it   *)
(* or persists a level above it.  With it layers 7 and 8 of the inductive  *)
(* invariant of TaskListInv.                                               *)
(***************************************************************************)
EXTENDS TaskListLevels, FiniteSetTheorems

\* The prover of a leaf that names none.
USE ZenonT(60)

\* A read that returns nothing has missed nothing.
LEMMA EmptyRead ==
  ASSUME NEW s \in Stores, NEW lo \in Nat, NEW hi \in Nat,
         GetTasks(s, lo, hi, BatchSize) = {}
  PROVE  Window(s, lo, hi) = {}
<1> DEFINE W == Window(s, lo, hi)
           T == {t.id : t \in W}
<1>1. \A t \in W : t.id \in Nat
  BY DEF Stores, Rows, Window
<1>2. ASSUME W # {} PROVE FALSE
  <2>1. T # {} /\ T \in SUBSET Nat
    BY <1>1, <1>2
  <2>2. PICK x \in T : \A y \in T : x <= y
    BY <2>1, Minimum
  <2>3. PICK t \in W : t.id = x
    BY <2>2
  <2>4. {u \in W : u.id < t.id} = {}
    <3>1. ASSUME NEW u \in W, u.id < t.id PROVE FALSE
      <4>1. t.id <= u.id /\ u.id \in Nat /\ t.id \in Nat
        BY <1>1, <2>2, <2>3
      <4> QED BY <3>1, <4>1, Order, Whole
    <3> QED BY <3>1
  <2>5. Cardinality({u \in W : u.id < t.id}) < BatchSize
    <3>1. Cardinality({u \in W : u.id < t.id}) = 0
      BY <2>4, FS_EmptySet
    <3>2. 0 < BatchSize
      BY SMTT(30), TaskListAssumption
    <3> QED BY <3>1, <3>2
  <2>6. t \in GetTasks(s, lo, hi, BatchSize)
    BY <2>3, <2>5 DEF GetTasks
  <2> QED BY <2>6
<1> QED BY <1>2

\* A row that a read left behind is above every row that it returned.
LEMMA RowsInOrder ==
  ASSUME NEW s \in Stores, IsFiniteSet(s.tasks), NEW lo \in Nat, NEW hi \in Nat,
         NEW row \in s.tasks, lo < row.id,
         NEW t \in GetTasks(s, lo, hi, BatchSize), row \notin GetTasks(s, lo, hi, BatchSize)
  PROVE  t.id < row.id
<1> DEFINE W == Window(s, lo, hi)
           Below(r) == {u \in W : u.id < r.id}
<1>1. /\ t \in W /\ Cardinality(Below(t)) < BatchSize
      /\ row \in W => ~(Cardinality(Below(row)) < BatchSize)
  BY DEF GetTasks
<1>2. row.id \in Nat /\ t.id \in Nat /\ t.id <= hi /\ W \subseteq s.tasks
  BY <1>1 DEF Window, Stores, Rows
<1>3. CASE row.id > hi
  BY <1>2, <1>3, Chain, Whole
<1>4. CASE row.id <= hi
  <2>1. row \in W
    BY <1>2, <1>4 DEF Window
  <2>2. ASSUME row.id <= t.id PROVE FALSE
    <3>1. Below(row) \subseteq Below(t)
      BY <1>2, <2>2, Chain, Whole DEF Window, Stores, Rows
    <3>2. IsFiniteSet(Below(t)) /\ IsFiniteSet(Below(row))
      <4>1. Below(t) \in SUBSET s.tasks /\ Below(row) \in SUBSET s.tasks
        BY <1>2
      <4> QED BY <4>1, FS_Subset
    <3>3. /\ Cardinality(Below(row)) <= Cardinality(Below(t))
          /\ Cardinality(Below(row)) \in Nat /\ Cardinality(Below(t)) \in Nat
      BY <3>1, <3>2, FS_Subset, FS_CardinalityType
    <3> HIDE DEF Below, W
    <3> QED BY <1>1, <2>1, <3>3, TaskListAssumption, Chain, Whole
  <2> QED BY <1>2, <2>2, Order, Whole
<1> QED BY <1>2, <1>3, <1>4, Order, Whole
-----------------------------------------------------------------------------
\* The rows of a batch are as few as its requests.
LEMMA BatchRowsFinite ==
  ASSUME NEW m \in Manager, IsFiniteSet(walloc[m])
  PROVE  IsFiniteSet(BatchRows(m))
<1> DEFINE f == [a \in walloc[m] |-> [id |-> a.id, p |-> a.p]]
           T == {[id |-> a.id, p |-> a.p] : a \in walloc[m]}
<1>1. f \in Surjection(walloc[m], T)
  BY DEF Surjection
<1>2. IsFiniteSet(T)
  BY <1>1, FS_Surjection
<1>3. BatchRows(m) \in SUBSET T
  BY DEF BatchRows
<1> QED BY <1>2, <1>3, FS_Subset

\* Layer 8 is inductive.
LEMMA FiniteStep ==
  ASSUME TypeInv, FiniteInv, [Next]_vars
  PROVE  FiniteInv'
<1>a. /\ IsFiniteSet(store.tasks) /\ \A w \in late : IsFiniteSet(w.rows)
      /\ \A m \in Manager : IsFiniteSet(walloc[m]) /\ IsFiniteSet(BatchRows(m))
  BY BatchRowsFinite DEF FiniteInv
<1>1. IsFiniteSet(store'.tasks)
  <2>1. ASSUME NEW rows, IsFiniteSet(rows), Created(rows) PROVE IsFiniteSet(store'.tasks)
    <3>1. {t \in store.tasks : \A r \in rows : r.id # t.id} \in SUBSET store.tasks
      OBVIOUS
    <3>2. IsFiniteSet({t \in store.tasks : \A r \in rows : r.id # t.id})
      BY <1>a, <3>1, FS_Subset
    <3>3. IsFiniteSet({t \in store.tasks : \A r \in rows : r.id # t.id} \cup rows)
      BY <2>1, <3>2, FS_Union
    <3> QED BY <2>1, <3>3 DEF Created
  <2>2. ASSUME store'.tasks \in SUBSET store.tasks PROVE IsFiniteSet(store'.tasks)
    BY <1>a, <2>2, FS_Subset
  <2>3. ASSUME NEW level, Deleted(level) PROVE store'.tasks \in SUBSET store.tasks
    BY <2>3 DEF Deleted
  <2>4. ASSUME NEW row, Dropped(row) PROVE store'.tasks \in SUBSET store.tasks
    BY <2>4 DEF Dropped
  <2>5. ASSUME store'.tasks = store.tasks PROVE IsFiniteSet(store'.tasks)
    BY <1>a, <2>5
  <2> QED BY <1>a, StoreEffects, <2>1, <2>2, <2>3, <2>4, <2>5 DEF Granted, Persisted
<1>2. \A w \in late' : IsFiniteSet(w.rows)
  <2>1. ASSUME NEW m \in Manager, WriterErrs(m) PROVE \A w \in late' : IsFiniteSet(w.rows)
    <3>1. late' = late \cup {[rangeID |-> lease[m], rows |-> BatchRows(m)]}
      BY <2>1 DEF WriterErrs
    <3>2. [rangeID |-> lease[m], rows |-> BatchRows(m)].rows = BatchRows(m)
      OBVIOUS
    <3> QED BY <1>a, <3>1, <3>2
  <2>2. ASSUME NEW w \in late, LateWrite(w) PROVE \A x \in late' : IsFiniteSet(x.rows)
    BY <1>a, <2>2 DEF LateWrite
  <2> QED BY <1>a, LateChanges, <2>1, <2>2
<1>3. \A m \in Manager : IsFiniteSet(walloc'[m])
  <2>t. DOMAIN walloc = Manager
    BY DEF TypeInv, TypeOK, WriterOK
  <2>1. ASSUME NEW m \in Manager, WriterAlloc(m) PROVE \A n \in Manager : IsFiniteSet(walloc'[n])
    <3>1. PICK req \in wpend[m] :
            walloc' = [walloc EXCEPT ![m] =
                         walloc[m] \cup {[id |-> next[m], p |-> req.p, old |-> req.old]}]
      BY <2>1 DEF WriterAlloc
    <3>2. IsFiniteSet(walloc[m] \cup {[id |-> next[m], p |-> req.p, old |-> req.old]})
      BY <1>a, FS_AddElement
    <3> QED BY <1>a, <2>t, <3>1, <3>2
  <2>2. ASSUME NEW m \in Manager, RenewFails(m) \/ RenewLost(m) \/ WriterPublish(m)
        PROVE  \A n \in Manager : IsFiniteSet(walloc'[n])
    <3>1. walloc' = [walloc EXCEPT ![m] = {}]
      BY <2>2 DEF RenewFails, RenewLost, GiveUpLease, WriterPublish
    <3> QED BY <1>a, <2>t, <3>1, FS_EmptySet
  <2> QED BY <1>a, AllocChanges, <2>1, <2>2
<1> QED BY <1>1, <1>2, <1>3 DEF FiniteInv
-----------------------------------------------------------------------------
\* The rows a manager holds come from the batch it has read.
LEMMA HeldEffects ==
  ASSUME TypeInv, [Next]_vars, NEW n \in Manager
  PROVE  Held(n)' \subseteq Held(n) \cup batch[n]
<1>a. /\ buffer \in [Manager -> SUBSET Rows] /\ started \in [Manager -> SUBSET Rows]
      /\ rewriting \in [Manager -> SUBSET Rows]
  BY DEF TypeInv, TypeOK, TasksOK
<1>1. ASSUME NEW m \in Manager, PumpAdd(m) PROVE Held(n)' \subseteq Held(n) \cup batch[n]
  <2>1. /\ UNCHANGED <<started, rewriting>>
        /\ \/ buffer' = buffer
           \/ \E row \in batch[m] : buffer' = [buffer EXCEPT ![m] = buffer[m] \cup {row}]
    BY <1>1 DEF PumpAdd
  <2> QED BY SMTT(30), <1>a, <2>1 DEF Held
<1>2. ASSUME NEW m \in Manager, NEW row \in Held(m), Dispatch(m, row) \/ FinishErr(m, row)
      PROVE  Held(n)' \subseteq Held(n) \cup batch[n]
  <2>1. /\ buffer' \in {buffer, [buffer EXCEPT ![m] = buffer[m] \ {row}]}
        /\ started' \in {[started EXCEPT ![m] = started[m] \ {row}],
                         [started EXCEPT ![m] = started[m] \cup {row}]}
        /\ rewriting' \in {rewriting, [rewriting EXCEPT ![m] = rewriting[m] \cup {row}]}
    BY <1>2 DEF Dispatch, FinishErr
  <2> QED BY SMTT(30), <1>a, <2>1 DEF Held
<1>3. ASSUME NEW m \in Manager, NEW row \in Held(m),
             DispatchExpired(m, row) \/ FinishOK(m, row) \/ RewriteOK(m, row)
             \/ RewriteGivesUp(m, row)
      PROVE  Held(n)' \subseteq Held(n) \cup batch[n]
  <2>1. /\ buffer' \in {buffer, [buffer EXCEPT ![m] = buffer[m] \ {row}]}
        /\ started' \in {started, [started EXCEPT ![m] = started[m] \ {row}]}
        /\ rewriting' \in {rewriting, [rewriting EXCEPT ![m] = rewriting[m] \ {row}]}
    BY <1>3 DEF DispatchExpired, FinishOK, RewriteOK, RewriteGivesUp
  <2> QED BY SMTT(30), <1>a, <2>1 DEF Held
<1>4. CASE UNCHANGED <<buffer, started, rewriting>>
  BY <1>4 DEF Held
<1> QED BY HeldChanges, <1>1, <1>2, <1>3, <1>4

\* The actions that move requests to the writer.
LEMMA RequestChanges ==
  ASSUME [Next]_vars
  PROVE  \/ UNCHANGED <<appendCh, wpend>>
         \/ \E m \in Manager : WriterTake(m) \/ WriterAlloc(m) \/ RenewFails(m)
                 \/ RenewLost(m)
         \/ \E m \in Manager, p \in Payload : AddTask(m, p)
         \/ \E m \in Manager : \E row \in Held(m) : FinishErr(m, row)
                 \/ RewriteRetry(m, row)
<1>1. ASSUME NEW m \in Manager,
             LeaseRead(m) \/ LeaseWrite(m) \/ LeaseLost(m) \/ LeaseFails(m)
             \/ RenewRead(m) \/ RenewWrite(m) \/ WriterCreates(m) \/ WriterRejected(m)
             \/ WriterErrs(m) \/ WriterPublish(m)
      PROVE  UNCHANGED <<appendCh, wpend>>
  BY <1>1 DEF LeaseRead, LeaseWrite, LeaseLost, LeaseFails, RenewRead,
        RenewWrite, WriterCreates, WriterRejected, WriterErrs, WriterPublish, writerVars
<1>2. ASSUME NEW m \in Manager,
             PumpStart(m) \/ PumpRead(m) \/ PumpReadFails(m) \/ PumpEmpty(m)
             \/ PumpAdd(m) \/ PumpExit(m) \/ PumpTimer(m) \/ PumpPersists(m)
             \/ PumpRejected(m) \/ PumpPersistErrs(m)
      PROVE  UNCHANGED <<appendCh, wpend>>
  BY <1>2 DEF PumpStart, PumpRead, PumpReadFails, PumpEmpty, PumpAdd, PumpExit,
        PumpTimer, PumpPersists, PumpRejected, PumpPersistErrs, writerVars
<1>3. ASSUME NEW m \in Manager,
             Stop(m) \/ StopPersist(m) \/ UpdatePartitionConfig(m)
      PROVE  UNCHANGED <<appendCh, wpend>>
  BY <1>3 DEF Stop, StopPersist, UpdatePartitionConfig, writerVars
<1>4. ASSUME NEW m \in Manager, NEW p \in Payload,
             SyncMatch(m, p) \/ AddTaskReturns(m, p)
      PROVE  UNCHANGED <<appendCh, wpend>>
  BY <1>4 DEF SyncMatch, AddTaskReturns, writerVars
<1>5. ASSUME NEW m \in Manager, NEW row \in Held(m),
             Dispatch(m, row) \/ DispatchExpired(m, row) \/ RecordStarted(m, row)
             \/ FinishOK(m, row) \/ RewriteOK(m, row) \/ RewriteGivesUp(m, row)
      PROVE  UNCHANGED <<appendCh, wpend>>
  BY <1>5 DEF Dispatch, DispatchExpired, RecordStarted, FinishOK, RewriteOK,
        RewriteGivesUp, writerVars
<1>6. ASSUME NEW m \in Manager, NEW level \in gcReq[m],
             GCDelete(m, level) \/ GCSkip(m, level)
      PROVE  UNCHANGED <<appendCh, wpend>>
  BY <1>6 DEF GCDelete, GCSkip, writerVars
<1>7. ASSUME NEW p \in Payload,
             AddTaskGivesUp(p) \/ Expire(p)
      PROVE  UNCHANGED <<appendCh, wpend>>
  BY <1>7 DEF AddTaskGivesUp, Expire, writerVars
<1>8. ASSUME NEW row \in store.tasks,
             TimeToLive(row)
      PROVE  UNCHANGED <<appendCh, wpend>>
  BY <1>8 DEF TimeToLive, writerVars
<1>9. ASSUME NEW w \in late,
             LateWrite(w)
      PROVE  UNCHANGED <<appendCh, wpend>>
  BY <1>9 DEF LateWrite, writerVars
<1>10. CASE UNCHANGED vars
  BY <1>10 DEF vars, writerVars
<1> QED BY <1>1, <1>2, <1>3, <1>4, <1>5, <1>6, <1>7, <1>8, <1>9, <1>10
        DEF Next, Work, Disturbance, Load, Writer, Pump, Deliver, Collect, WatchForStop

\* A queued request is new or replaces a row that is held; the writer's requests
\* come from the queue, and keep the row they replace.
LEMMA RequestEffects ==
  ASSUME TypeInv, [Next]_vars, NEW n \in Manager
  PROVE  /\ \A req \in appendCh'[n] :
              req \in appendCh[n] \/ req.old = 0 \/ \E row \in Held(n) : req.old = row.id
         /\ wpend'[n] \subseteq wpend[n] \cup appendCh[n]
<1>t. DOMAIN appendCh = Manager /\ DOMAIN wpend = Manager
  BY DEF TypeInv, TypeOK, WriterOK
<1> DEFINE Fine == /\ \A req \in appendCh'[n] : \/ req \in appendCh[n] \/ req.old = 0
                                                \/ \E row \in Held(n) : req.old = row.id
                   /\ wpend'[n] \subseteq wpend[n] \cup appendCh[n]
<1>1. ASSUME NEW m \in Manager, WriterTake(m) PROVE Fine
  <2>1. PICK reqs \in SUBSET appendCh[m] :
          /\ appendCh' = [appendCh EXCEPT ![m] = appendCh[m] \ reqs]
          /\ wpend' = [wpend EXCEPT ![m] = reqs]
    BY <1>1 DEF WriterTake
  <2> QED BY <1>t, <2>1
<1>2. ASSUME NEW m \in Manager, WriterAlloc(m) \/ RenewFails(m) \/ RenewLost(m) PROVE Fine
  <2>1. /\ appendCh' = appendCh
        /\ \/ wpend' = [wpend EXCEPT ![m] = {}]
           \/ \E req \in wpend[m] : wpend' = [wpend EXCEPT ![m] = wpend[m] \ {req}]
    BY <1>2 DEF WriterAlloc, RenewFails, RenewLost, GiveUpLease
  <2> QED BY <1>t, <2>1
<1>3. ASSUME NEW m \in Manager, NEW p \in Payload, AddTask(m, p) PROVE Fine
  <2>1. /\ wpend' = wpend
        /\ appendCh' = [appendCh EXCEPT ![m] = appendCh[m] \cup {[p |-> p, old |-> 0]}]
    BY <1>3 DEF AddTask
  <2> QED BY SMTT(30), <1>t, <2>1
<1>4. ASSUME NEW m \in Manager, NEW row \in Held(m), FinishErr(m, row) \/ RewriteRetry(m, row)
      PROVE  Fine
  <2>1. /\ wpend' = wpend
        /\ appendCh' = [appendCh EXCEPT ![m] = appendCh[m] \cup {Rewrite(row)}]
    BY <1>4 DEF FinishErr, RewriteRetry
  <2>2. Rewrite(row).old = row.id
    BY DEF Rewrite
  <2> QED BY <1>t, <2>1, <2>2
<1>5. ASSUME UNCHANGED <<appendCh, wpend>> PROVE Fine
  BY <1>5
<1>6. Fine
  <2> HIDE DEF Fine
  <2> QED BY RequestChanges, <1>1, <1>2, <1>3, <1>4, <1>5
<1> QED BY <1>6

\* What has an ID was a request of the batch.
LEMMA AllocOldEffects ==
  ASSUME TypeInv, [Next]_vars, NEW n \in Manager, NEW a \in walloc'[n]
  PROVE  a \in walloc[n] \/ \E req \in wpend[n] : a.old = req.old
<1>t. DOMAIN walloc = Manager
  BY DEF TypeInv, TypeOK, WriterOK
<1> DEFINE Fine == a \in walloc[n] \/ \E req \in wpend[n] : a.old = req.old
<1>1. ASSUME NEW m \in Manager, WriterAlloc(m) PROVE Fine
  <2>1. PICK req \in wpend[m] :
          walloc' = [walloc EXCEPT ![m] =
                       walloc[m] \cup {[id |-> next[m], p |-> req.p, old |-> req.old]}]
    BY <1>1 DEF WriterAlloc
  <2> QED BY SMTT(30), <1>t, <2>1
<1>2. ASSUME NEW m \in Manager, RenewFails(m) \/ RenewLost(m) \/ WriterPublish(m) PROVE Fine
  <2>1. walloc' = [walloc EXCEPT ![m] = {}]
    BY <1>2 DEF RenewFails, RenewLost, GiveUpLease, WriterPublish
  <2> QED BY <1>t, <2>1
<1>3. ASSUME UNCHANGED <<walloc>> PROVE Fine
  BY <1>3
<1>4. Fine
  <2> HIDE DEF Fine
  <2> QED BY AllocChanges, <1>1, <1>2, <1>3
<1> QED BY <1>4

\* Layer 7 is inductive.
LEMMA ReadStep ==
  ASSUME TypeInv, RenewInv, WriterInv, LevelInv, ReadInv, [Next]_vars
  PROVE  ReadInv'
<1> SUFFICES ASSUME NEW n \in Manager
             PROVE  /\ \A row \in Held(n)' : row.id <= maxRead'[n]
                    /\ \A req \in appendCh'[n] \cup wpend'[n] : req.old <= maxRead'[n]
                    /\ \A a \in walloc'[n] : a.old <= maxRead'[n]
  BY DEF ReadInv
<1>t. maxRead[n] \in Nat /\ maxRead'[n] \in Nat /\ maxRead[n] <= maxRead'[n]
  BY LevelTypes, MaxReadStep
<1>u. /\ \A row \in Held(n) \cup batch[n] : row.id \in Nat
      /\ \A req \in appendCh[n] \cup wpend[n] : req.old \in Nat
      /\ \A a \in walloc[n] : a.old \in Nat
  <2>1. appendCh[n] \in SUBSET Requests /\ wpend[n] \in SUBSET Requests
    BY DEF TypeInv, TypeOK, WriterOK
  <2>2. \A req \in Requests : req.old \in Nat
    BY DEF Requests
  <2> QED BY <2>1, <2>2, FieldTypes
<1>1. /\ \A row \in Held(n) \cup batch[n] : row.id <= maxRead[n]
      /\ \A req \in appendCh[n] \cup wpend[n] : req.old <= maxRead[n]
      /\ \A a \in walloc[n] : a.old <= maxRead[n]
  BY DEF ReadInv, LevelInv, LevelsOf
<1>2. /\ \A row \in Held(n) \cup batch[n] : row.id <= maxRead'[n]
      /\ \A req \in appendCh[n] \cup wpend[n] : req.old <= maxRead'[n]
      /\ \A a \in walloc[n] : a.old <= maxRead'[n]
      /\ 0 <= maxRead'[n]
  BY <1>t, <1>u, <1>1, Chain, Whole
<1>3. \A row \in Held(n)' : row.id <= maxRead'[n]
  BY <1>2, HeldEffects
<1>4. \A req \in appendCh'[n] \cup wpend'[n] : req.old <= maxRead'[n]
  <2>1. ASSUME NEW req \in appendCh'[n] PROVE req.old <= maxRead'[n]
    <3>1. req \in appendCh[n] \/ req.old = 0 \/ \E row \in Held(n) : req.old = row.id
      BY RequestEffects
    <3> QED BY <3>1, <1>2
  <2>2. ASSUME NEW req \in wpend'[n] PROVE req.old <= maxRead'[n]
    BY <1>2, RequestEffects
  <2> QED BY <2>1, <2>2
<1>5. \A a \in walloc'[n] : a.old <= maxRead'[n]
  BY <1>2, AllocOldEffects
<1> QED BY <1>3, <1>4, <1>5
-----------------------------------------------------------------------------
\* A row ceases to be safe only when its task is settled, or when it is completed
\* after its task was written again.
Released(row) == Settled(row.p) \/ \E m \in Manager : RewriteOK(m, row)

\* What a row that stays safe needs to know of the rows and levels around it.
Watched(row) ==
  /\ TypeInv /\ TypeInv' /\ RowInv /\ OrderInv /\ OrderInv' /\ LevelInv /\ FiniteInv
  /\ [Next]_vars
  /\ row \in store.tasks /\ row.id \in Nat /\ Safe(row) /\ ~Released(row)

\* No pump acknowledges a safe row or reads past it.
LEMMA SafeFromPump ==
  ASSUME NEW row, Watched(row), NEW n \in Manager
  PROVE  /\ row.id > ack'[n].ackLevel
         /\ row.id > ack'[n].readLevel \/ row.id \in ack'[n].unacked
         /\ ppc'[n] = "read" => row.id > cursor'[n] \/ row.id \in ack'[n].unacked
         /\ row.id > ack'[n].readLevel =>
              row \in batch'[n] \/ \A t \in batch'[n] : t.id < row.id
<1> DEFINE Ack(am) == /\ row.id > am.ackLevel
                      /\ row.id > am.readLevel \/ row.id \in am.unacked
           Reads(am, pc, cur) == pc = "read" => row.id > cur \/ row.id \in am.unacked
           Batch(am, rows) == row.id > am.readLevel =>
                                row \in rows \/ \A t \in rows : t.id < row.id
           Fine == /\ Ack(ack'[n]) /\ Reads(ack'[n], ppc'[n], cursor'[n])
                   /\ Batch(ack'[n], batch'[n])
<1>w. /\ TypeInv /\ TypeInv' /\ RowInv /\ OrderInv /\ OrderInv' /\ LevelInv /\ FiniteInv
      /\ [Next]_vars /\ row \in store.tasks /\ row.id \in Nat /\ Safe(row) /\ ~Released(row)
  BY DEF Watched
<1>a. ack[n] \in AckManagers
  BY <1>w, TypeElements
<1>b. /\ ack[n].ackLevel \in Int /\ ack[n].readLevel \in Int /\ ack[n].unacked \in SUBSET Nat
      /\ cursor[n] \in Nat /\ pmax[n] \in Nat
  <2>1. /\ ack[n].ackLevel \in Int /\ ack[n].readLevel \in Int /\ ack[n].unacked \in SUBSET Nat
    BY <1>w, LevelTypes
  <2>2. cursor[n] \in Nat /\ pmax[n] \in Nat
    BY <1>w, TypeElements
  <2> QED BY <2>1, <2>2
<1>c. batch[n] \in SUBSET Rows
  BY <1>w DEF TypeInv, TypeOK, PumpOK
<1>s. Ack(ack[n]) /\ Reads(ack[n], ppc[n], cursor[n]) /\ Batch(ack[n], batch[n])
  BY <1>w DEF Safe, SafeFrom
<1>o. /\ AckOrder(ack[n]) /\ OrderOf(n)
  BY <1>w DEF OrderInv, OrderOf
<1>d. \A r, t \in KnownRows : r.id = t.id => r = t
  BY <1>w DEF RowInv, TaskIDsUnique
<1>e. row \in KnownRows /\ batch[n] \subseteq KnownRows /\ Held(n) \subseteq KnownRows
  BY <1>w, KnownIs
<1>1. ASSUME PumpStill(n), ack'[n] = ack[n] PROVE Fine
  BY <1>s, <1>1 DEF PumpStill
<1>2. ASSUME LeaseWrite(n), PumpStill(n), ack'[n] = SetAckLevel(ack[n], seen[n].ackLevel)
      PROVE  Fine
  <2>1. ~Alive(n) /\ LeaseApplies(store, seen[n])
    BY <1>2 DEF LeaseWrite, Alive
  <2>2. ppc[n] = "idle" /\ batch[n] = {}
    BY <1>o, <2>1 DEF OrderOf
  <2>3. row.id > seen[n].ackLevel /\ seen[n].ackLevel \in Nat
    BY <1>w, <2>1, TypeElements DEF Safe, SafeFrom
  <2>4. /\ ack'[n].ackLevel = IF seen[n].ackLevel > ack[n].ackLevel THEN seen[n].ackLevel
                                                                     ELSE ack[n].ackLevel
        /\ ack'[n].readLevel = IF seen[n].ackLevel > ack[n].readLevel THEN seen[n].ackLevel
                                                                       ELSE ack[n].readLevel
        /\ ack'[n].unacked = ack[n].unacked
    <3>1. ack'[n] = SetAckLevel(ack[n], seen[n].ackLevel) /\ seen[n].ackLevel \in Nat
      BY <1>2, <2>3
    <3> DEFINE new == SetAckLevel(ack[n], seen[n].ackLevel)
    <3>2. /\ new.ackLevel = IF seen[n].ackLevel > ack[n].ackLevel THEN seen[n].ackLevel
                                                                  ELSE ack[n].ackLevel
          /\ new.readLevel = IF seen[n].ackLevel > ack[n].readLevel THEN seen[n].ackLevel
                                                                    ELSE ack[n].readLevel
          /\ new.unacked = ack[n].unacked
      BY <3>1, <1>a, SetAckLevelFacts
    <3>3. ack'[n] = new
      BY <3>1
    <3> HIDE DEF new
    <3> QED BY <3>2, <3>3
  <2>5. Ack(ack'[n])
    BY <1>b, <1>s, <2>3, <2>4
  <2>6. ppc'[n] = "idle" /\ batch'[n] = {}
    BY <1>2, <2>2 DEF PumpStill
  <2> QED BY <2>5, <2>6
<1>3. ASSUME StartsRead(n) PROVE Fine
  BY <1>s, <1>3 DEF StartsRead
<1>4. ASSUME FindsNothing(n) PROVE Fine
  <2>1. /\ ppc[n] = "read" /\ ReadsOn(n) /\ RowsRead(n) = {}
        /\ cursor'[n] = Upper(n) /\ batch'[n] = batch[n] /\ ack'[n] = ack[n]
    BY <1>4 DEF FindsNothing
  <2>2. Upper(n) \in Nat
    BY SMTT(30), <1>b, TaskListAssumption DEF Upper, Min2
  <2>3. Window(store, cursor[n], Upper(n)) = {}
    BY <1>w, <1>b, <2>1, <2>2, EmptyRead, TypeElements DEF RowsRead
  <2>4. row.id > Upper(n) \/ row.id \in ack[n].unacked
    <3>1. row.id > cursor[n] \/ row.id \in ack[n].unacked
      BY <1>s, <2>1
    <3>2. ~(cursor[n] < row.id /\ row.id <= Upper(n))
      BY <1>w, <2>3 DEF Window
    <3> QED BY <1>w, <1>b, <2>2, <3>1, <3>2, Order, Whole
  <2> QED BY <1>s, <2>1, <2>4
<1>5. ASSUME FindsRows(n) PROVE Fine
  <2>1. /\ ppc[n] = "read" /\ ppc'[n] = "add" /\ batch'[n] = RowsRead(n) /\ ack'[n] = ack[n]
    BY <1>5 DEF FindsRows
  <2>2. Upper(n) \in Nat
    BY SMTT(30), <1>b, TaskListAssumption DEF Upper, Min2
  <2>3. ASSUME row.id > ack[n].readLevel, row \notin RowsRead(n), NEW t \in RowsRead(n)
        PROVE  t.id < row.id
    <3>1. row.id \notin ack[n].unacked
      BY <1>b, <1>o, <1>w, <2>3, Order, Whole DEF AckOrder
    <3>2. cursor[n] < row.id
      BY <1>s, <2>1, <3>1
    <3>3. store \in Stores /\ IsFiniteSet(store.tasks) /\ row \in store.tasks
      BY <1>w, TypeElements DEF FiniteInv
    <3> QED BY <1>b, <2>2, <2>3, <3>2, <3>3, RowsInOrder DEF RowsRead
  <2>4. Batch(ack'[n], batch'[n])
    BY <2>1, <2>3
  <2> QED BY <1>s, <2>1, <2>4
<1>6. ASSUME GivesUpRead(n) PROVE Fine
  <2>1. /\ ppc[n] = "read" /\ ppc'[n] = "idle"
        /\ batch'[n] = batch[n] /\ ack'[n] = AfterEmptyRead(ack[n], cursor[n])
    BY <1>6 DEF GivesUpRead
  <2>2. ack[n].readLevel <= cursor[n] /\ batch[n] = {}
    BY <1>o, <2>1 DEF OrderOf
  <2>3. /\ ack'[n].readLevel = cursor[n] /\ ack'[n].unacked = ack[n].unacked
        /\ \/ ack'[n].ackLevel = ack[n].ackLevel
           \/ ack'[n].ackLevel = cursor[n] /\ ack[n].unacked = {}
    <3>1. /\ ack'[n] = AfterEmptyRead(ack[n], cursor[n]) /\ cursor[n] \in Nat
          /\ ack[n].readLevel <= cursor[n] /\ AckOrder(ack[n])
      BY <1>b, <1>o, <2>1, <2>2
    <3> DEFINE new == AfterEmptyRead(ack[n], cursor[n])
    <3>2. /\ new.readLevel = cursor[n] /\ new.unacked = ack[n].unacked
          /\ \/ new.ackLevel = ack[n].ackLevel
             \/ new.ackLevel = cursor[n] /\ ack[n].unacked = {}
      BY <1>a, <3>1, AfterEmptyReadFacts
    <3>3. ack'[n] = new
      BY <3>1
    <3> HIDE DEF new
    <3> QED BY <3>2, <3>3
  <2>4. row.id > cursor[n] \/ row.id \in ack[n].unacked
    BY <1>s, <2>1
  <2>5. Ack(ack'[n])
    BY <1>s, <2>3, <2>4
  <2> QED BY <2>1, <2>2, <2>5
<1>7. ASSUME Rests(n) PROVE Fine
  <2>1. ppc'[n] # "read" /\ batch'[n] \in {batch[n], {}} /\ ack'[n] = ack[n]
    BY <1>7 DEF Rests
  <2> QED BY <1>s, <2>1
<1>8. ASSUME NEW r \in batch[n], AddsRow(n, r) PROVE Fine
  <2>1. /\ Alive(n) /\ IsNext(n, r) /\ ppc'[n] # "read" /\ batch'[n] = batch[n] \ {r}
        /\ \/ r.p \in expired /\ ack'[n] = SetReadLevel(ack[n], r.id)
           \/ ack'[n] = ReadItem(ack[n], r.id)
    BY <1>8 DEF AddsRow
  <2>2. /\ r.id \in Nat /\ ack[n].readLevel < r.id /\ \A t \in batch[n] : r.id <= t.id /\ t.id \in Nat
    BY <1>c, <1>o, <2>1 DEF OrderOf, IsNext, Rows
  <2>3. r.id = row.id => r = row
    BY <1>d, <1>e
  <2>4. row.p \notin expired
    BY <1>w DEF Released, Settled
  <2>5. ack[n].ackLevel # -1
    <3>1. ack[n].ackLevel \in Nat
      BY <1>w, <2>1 DEF TypeInv, LevelsSet
    <3> QED BY <3>1, Order, Chain, Whole
  <2>6. /\ ack'[n].ackLevel = ack[n].ackLevel /\ ack'[n].readLevel = r.id
        /\ \/ ack'[n].unacked = ack[n].unacked /\ r # row
           \/ ack'[n].unacked = ack[n].unacked \cup {r.id}
    <3>1. CASE r.p \in expired /\ ack'[n] = SetReadLevel(ack[n], r.id)
      <4> DEFINE new == SetReadLevel(ack[n], r.id)
      <4>1. new.ackLevel = ack[n].ackLevel /\ new.readLevel = r.id /\ new.unacked = ack[n].unacked
        BY <1>a, <2>2, SetReadLevelFacts
      <4>2. ack'[n] = new /\ r # row
        BY <2>4, <3>1
      <4> HIDE DEF new
      <4> QED BY <4>1, <4>2
    <3>2. CASE ack'[n] = ReadItem(ack[n], r.id)
      <4>1. CanReadItem(ack[n], r.id)
        BY <1>a, <1>b, <1>o, <2>2, Order, Whole DEF CanReadItem, AckOrder, AckManagers
      <4>2. /\ ReadItem(ack[n], r.id).readLevel = r.id
            /\ ReadItem(ack[n], r.id).ackLevel = ack[n].ackLevel
            /\ ReadItem(ack[n], r.id).unacked = ack[n].unacked \cup {r.id}
        BY <1>a, <2>2, <2>5, <4>1, ReadItemRegisters
      <4> QED BY <3>2, <4>2
    <3> QED BY <2>1, <3>1, <3>2
  <2>7. ASSUME row.id > ack[n].readLevel
        PROVE  row.id > r.id \/ r = row
    BY <1>s, <1>w, <2>2, <2>3, <2>7, Order, Whole
  <2>8. Ack(ack'[n])
    BY <1>b, <1>s, <1>w, <2>2, <2>6, <2>7
  <2>9. Batch(ack'[n], batch'[n])
    <3> SUFFICES ASSUME row.id > ack'[n].readLevel
                 PROVE  row \in batch'[n] \/ \A t \in batch'[n] : t.id < row.id
      OBVIOUS
    <3>1. r.id < row.id /\ r # row
      BY <1>w, <2>2, <2>6, Order, Whole
    <3>2. row.id > ack[n].readLevel
      BY <1>b, <1>w, <2>2, <3>1, Order, Chain, Whole
    <3> QED BY <1>s, <2>1, <3>1, <3>2
  <2> QED BY <2>1, <2>8, <2>9
<1>9. ASSUME NEW r \in Held(n), CompletesRow(n, r) PROVE Fine
  <2>1. /\ DispatchExpired(n, r) \/ FinishOK(n, r) \/ RewriteOK(n, r)
        /\ PumpStill(n) /\ ack'[n] = AckItem(ack[n], r.id)
    BY <1>9 DEF CompletesRow
  <2>2. r # row
    BY <1>w, <2>1 DEF Released, Settled, DispatchExpired, FinishOK
  <2>3. r.id # row.id /\ r.id \in Nat
    <3>1. r \in Rows
      BY <1>w, TypeElements
    <3> QED BY <3>1, <1>d, <1>e, <2>2 DEF Rows
  <2>4. /\ ack'[n].readLevel = ack[n].readLevel /\ ack'[n].unacked = ack[n].unacked \ {r.id}
        /\ AckOrder(ack'[n]) /\ ack'[n] \in AckManagers
    <3> DEFINE new == AckItem(ack[n], r.id)
    <3>1. /\ new.readLevel = ack[n].readLevel /\ new.unacked = ack[n].unacked \ {r.id}
          /\ AckOrder(new) /\ new \in AckManagers
      BY <1>a, <1>o, <2>3, AckItemFacts
    <3>2. ack'[n] = new
      BY <2>1
    <3> HIDE DEF new
    <3> QED BY <3>1, <3>2
  <2>5. ack'[n].ackLevel \in Int
    BY <2>4, Whole DEF AckManagers, Levels
  <2>6. Ack(ack'[n])
    <3>1. /\ ack'[n].ackLevel <= ack'[n].readLevel
          /\ \A i \in ack'[n].unacked : ack'[n].ackLevel < i
      BY <2>4 DEF AckOrder
    <3>2. CASE row.id > ack[n].readLevel
      <4>1. ack'[n].readLevel < row.id /\ ack'[n].readLevel \in Int
        BY <1>b, <1>w, <2>4, <3>2, Order, Whole
      <4>2. ack'[n].ackLevel < row.id
        BY <1>w, <2>5, <3>1, <4>1, Chain, Whole
      <4> QED BY <1>w, <2>4, <2>5, <3>2, <4>2, Order, Whole
    <3>3. CASE row.id \in ack[n].unacked
      <4>1. row.id \in ack'[n].unacked
        BY <2>3, <2>4, <3>3
      <4> QED BY <1>w, <2>5, <3>1, <4>1, Order, Whole
    <3> QED BY <1>s, <3>2, <3>3
  <2>7. /\ ppc'[n] = ppc[n] /\ cursor'[n] = cursor[n] /\ batch'[n] = batch[n]
    BY <2>1 DEF PumpStill
  <2> QED BY <1>s, <2>3, <2>4, <2>6, <2>7
<1>10. Fine
  <2> HIDE DEF Fine
  <2> QED BY <1>w, PumpEffects, <1>1, <1>2, <1>3, <1>4, <1>5, <1>6, <1>7, <1>8, <1>9
<1> QED BY <1>10

\* No level that is remembered for the store or for a delete reaches a safe row.
LEMMA SafeFromSaved ==
  ASSUME NEW row, Watched(row), NEW n \in Manager
  PROVE  /\ row.id > dbAck'[n] /\ row.id > pval'[n] /\ row.id > sval'[n]
         /\ \A level \in gcReq'[n] : row.id > level
<1>w. TypeInv /\ [Next]_vars /\ row.id \in Nat /\ Safe(row)
  BY DEF Watched
<1>s. /\ row.id > ack[n].ackLevel /\ row.id > ack'[n].ackLevel
      /\ row.id > dbAck[n] /\ row.id > pval[n] /\ row.id > sval[n]
      /\ \A level \in gcReq[n] : row.id > level
      /\ LeaseApplies(store, seen[n]) => row.id > seen[n].ackLevel
  BY <1>w, SafeFromPump DEF Safe, SafeFrom
<1>z. row.id > 0
  <2>1. dbAck[n] \in Nat
    BY <1>w, LevelTypes
  <2> QED BY <1>w, <1>s, <2>1, Order, Whole
<1>1. row.id > dbAck'[n]
  <2>1. ASSUME LeaseWrite(n) \/ RenewWrite(n) PROVE row.id > seen[n].ackLevel
    BY <1>s, <2>1 DEF LeaseWrite, RenewWrite
  <2> QED BY <1>w, <1>s, <2>1, SavedEffects
<1>2. row.id > pval'[n] /\ row.id > sval'[n]
  BY <1>w, <1>s, <1>z, SavedEffects
<1>3. \A level \in gcReq'[n] : row.id > level
  BY <1>w, <1>s, SavedEffects
<1> QED BY <1>1, <1>2, <1>3

\* A lease in progress that can still succeed has read an ack level below a safe row.
LEMMA SafeFromSeen ==
  ASSUME NEW row, Watched(row), NEW n \in Manager, LeaseApplies(store, seen[n])'
  PROVE  row.id > seen'[n].ackLevel
<1>w. TypeInv /\ LevelInv /\ [Next]_vars /\ row.id \in Nat /\ Safe(row)
  BY DEF Watched
<1>t. store.rangeID \in Nat /\ store.ackLevel \in Nat /\ seen[n].rangeID \in Nat
  BY <1>w, TypeElements DEF Stores
<1>s. row.id > store.ackLevel /\ (LeaseApplies(store, seen[n]) => row.id > seen[n].ackLevel)
  BY <1>w DEF Safe, SafeFrom
<1>1. CASE seen'[n] = seen[n]
  <2>1. store'.rangeID = seen[n].rangeID
    BY <1>1 DEF LeaseApplies
  <2>2. CASE store'.rangeID = store.rangeID
    BY <1>1, <1>s, <2>1, <2>2 DEF LeaseApplies
  <2>3. ASSUME NEW m \in Manager, Granted(m) PROVE FALSE
    <3>1. store'.rangeID = store.rangeID + 1
      BY <2>3 DEF Granted
    <3>2. seen[n].rangeID <= store.rangeID
      BY <1>w DEF LevelInv, SeenOf
    <3> QED BY <1>t, <2>1, <3>1, <3>2, Order, Whole
  <2> QED BY <1>w, StoreEffects, <2>2, <2>3 DEF Persisted, Created, Deleted, Dropped
<1>2. CASE seen'[n] = NothingSeen
  <2>1. seen'[n].ackLevel = 0
    <3>1. NothingSeen.ackLevel = 0
      BY DEF NothingSeen
    <3> QED BY <1>2, <3>1
  <2>2. row.id > 0
    BY <1>s, <1>t, <1>w, Order, Chain, Whole
  <2> QED BY <2>1, <2>2
<1>3. CASE seen'[n] = [rangeID |-> store.rangeID, ackLevel |-> store.ackLevel]
  <2>1. seen'[n].ackLevel = store.ackLevel
    <3>1. [rangeID |-> store.rangeID, ackLevel |-> store.ackLevel].ackLevel = store.ackLevel
      OBVIOUS
    <3> QED BY <1>3, <3>1
  <2> QED BY <1>s, <2>1
<1> QED BY <1>w, SeenEffects, <1>1, <1>2, <1>3

\* A safe row stays in the store, above the persisted ack level.
LEMMA SafeInStore ==
  ASSUME NEW row, Watched(row)
  PROVE  row \in store'.tasks /\ row.id > store'.ackLevel
<1>w. /\ TypeInv /\ RowInv /\ [Next]_vars /\ row \in store.tasks /\ row.id \in Nat /\ Safe(row)
      /\ ~Released(row)
  BY DEF Watched
<1>s. /\ row.id > store.ackLevel
      /\ \A m \in Manager :
           /\ row.id > dbAck[m] /\ row.id > pval[m] /\ row.id > sval[m]
           /\ \A level \in gcReq[m] : row.id > level
           /\ LeaseApplies(store, seen[m]) => row.id > seen[m].ackLevel
  BY <1>w DEF Safe, SafeFrom
<1> DEFINE Fine == row \in store'.tasks /\ row.id > store'.ackLevel
<1>1. ASSUME UNCHANGED store PROVE Fine
  BY <1>1, <1>w, <1>s
<1>2. ASSUME NEW m \in Manager, Granted(m) PROVE Fine
  BY <1>2, <1>w, <1>s DEF Granted
<1>3. ASSUME NEW m \in Manager, Persisted(m) PROVE Fine
  BY <1>3, <1>w, <1>s DEF Persisted
<1>4. ASSUME NEW rows, rows \subseteq KnownRows, Created(rows) PROVE Fine
  <2>1. \A r \in rows : r.id = row.id => r = row
    BY <1>4, <1>w, KnownIs DEF RowInv, TaskIDsUnique
  <2>2. store'.ackLevel = store.ackLevel /\ row \in store'.tasks
    BY <1>4, <1>w, <2>1 DEF Created
  <2> QED BY <1>s, <2>2
<1>5. ASSUME NEW m \in Manager, NEW level \in gcReq[m], Deleted(level) PROVE Fine
  BY <1>5, <1>w, <1>s DEF Deleted
<1>6. ASSUME NEW r \in store.tasks, Dropped(r) PROVE Fine
  <2>1. r # row
    BY <1>6, <1>w DEF Dropped, Released, Settled
  <2> QED BY <1>6, <1>w, <1>s, <2>1 DEF Dropped
<1>7. Fine
  <2> HIDE DEF Fine
  <2>1. /\ \A m \in Manager : BatchRows(m) \subseteq KnownRows
        /\ \A w \in late : w.rows \subseteq KnownRows
    BY BatchRowsKnown, KnownIs
  <2> QED BY <1>w, StoreEffects, <2>1, <1>1, <1>2, <1>3, <1>4, <1>5, <1>6
<1> QED BY <1>7

\* A safe row stays safe unless it is released.
LEMMA SafeStep ==
  ASSUME TypeInv, TypeInv', RowInv, OrderInv, OrderInv', LevelInv, FiniteInv, [Next]_vars,
         NEW row \in store.tasks, Safe(row)
  PROVE  Safe(row)' \/ Released(row)
<1> SUFFICES ASSUME ~Released(row) PROVE row \in store'.tasks /\ Safe(row)'
  OBVIOUS
<1>1. row.id \in Nat
  BY TypeElements DEF Stores, Rows
<1>2. Watched(row)
  BY <1>1 DEF Watched
<1>3. row \in store'.tasks /\ row.id > store'.ackLevel
  BY <1>2, SafeInStore
<1>4. ASSUME NEW n \in Manager PROVE SafeFrom(n, row)'
  BY <1>2, SafeFromPump, SafeFromSaved, SafeFromSeen DEF SafeFrom
<1> QED BY <1>3, <1>4 DEF Safe
=============================================================================
