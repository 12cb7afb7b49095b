-------------------------- MODULE TaskListLevels ---------------------------
(***************************************************************************)
(* Every level that a manager keeps, remembers or is about to persist is   *)
(* at or below its read level limit, and the IDs of the owner's new rows   *)
(* lie above the levels of every manager: layers 5 and 6 of the inductive  *)
(* invariant of TaskListInv.                                               *)
(***************************************************************************)
EXTENDS TaskListTypes

\* The prover of a leaf that names none.
USE ZenonT(60)

\* The actions that change what the writer works on.
LEMMA WriterChanges ==
  ASSUME [Next]_vars
  PROVE  \/ UNCHANGED <<st, lease, next, last, seen, wpc, walloc, maxRead>>
         \/ \E m \in Manager : LeaseRead(m) \/ LeaseWrite(m) \/ LeaseLost(m)
                 \/ LeaseFails(m) \/ WriterTake(m) \/ WriterAlloc(m) \/ RenewRead(m)
                 \/ RenewWrite(m) \/ RenewFails(m) \/ RenewLost(m)
                 \/ WriterCreates(m) \/ WriterRejected(m) \/ WriterErrs(m)
                 \/ WriterPublish(m) \/ Stop(m) \/ StopPersist(m)
<1>1. ASSUME NEW m \in Manager,
             PumpStart(m) \/ PumpRead(m) \/ PumpReadFails(m) \/ PumpEmpty(m)
             \/ PumpAdd(m) \/ PumpExit(m) \/ PumpTimer(m) \/ PumpPersists(m)
             \/ PumpRejected(m) \/ PumpPersistErrs(m)
      PROVE  UNCHANGED <<st, lease, next, last, seen, wpc, walloc, maxRead>>
  BY <1>1 DEF PumpStart, PumpRead, PumpReadFails, PumpEmpty, PumpAdd, PumpExit,
        PumpTimer, PumpPersists, PumpRejected, PumpPersistErrs, leaseVars, writerVars
<1>2. ASSUME NEW m \in Manager,
             UpdatePartitionConfig(m)
      PROVE  UNCHANGED <<st, lease, next, last, seen, wpc, walloc, maxRead>>
  BY <1>2 DEF UpdatePartitionConfig, leaseVars, writerVars
<1>3. ASSUME NEW m \in Manager, NEW p \in Payload,
             SyncMatch(m, p) \/ AddTask(m, p) \/ AddTaskReturns(m, p)
      PROVE  UNCHANGED <<st, lease, next, last, seen, wpc, walloc, maxRead>>
  BY <1>3 DEF SyncMatch, AddTask, AddTaskReturns, leaseVars, writerVars
<1>4. ASSUME NEW m \in Manager, NEW row \in Held(m),
             Dispatch(m, row) \/ DispatchExpired(m, row) \/ RecordStarted(m, row)
             \/ FinishOK(m, row) \/ FinishErr(m, row) \/ RewriteOK(m, row)
             \/ RewriteRetry(m, row) \/ RewriteGivesUp(m, row)
      PROVE  UNCHANGED <<st, lease, next, last, seen, wpc, walloc, maxRead>>
  BY <1>4 DEF Dispatch, DispatchExpired, RecordStarted, FinishOK, FinishErr,
        RewriteOK, RewriteRetry, RewriteGivesUp, leaseVars, writerVars
<1>5. ASSUME NEW m \in Manager, NEW level \in gcReq[m],
             GCDelete(m, level) \/ GCSkip(m, level)
      PROVE  UNCHANGED <<st, lease, next, last, seen, wpc, walloc, maxRead>>
  BY <1>5 DEF GCDelete, GCSkip, leaseVars, writerVars
<1>6. ASSUME NEW p \in Payload,
             AddTaskGivesUp(p) \/ Expire(p)
      PROVE  UNCHANGED <<st, lease, next, last, seen, wpc, walloc, maxRead>>
  BY <1>6 DEF AddTaskGivesUp, Expire, leaseVars, writerVars
<1>7. ASSUME NEW row \in store.tasks,
             TimeToLive(row)
      PROVE  UNCHANGED <<st, lease, next, last, seen, wpc, walloc, maxRead>>
  BY <1>7 DEF TimeToLive, leaseVars, writerVars
<1>8. ASSUME NEW w \in late,
             LateWrite(w)
      PROVE  UNCHANGED <<st, lease, next, last, seen, wpc, walloc, maxRead>>
  BY <1>8 DEF LateWrite, leaseVars, writerVars
<1>9. CASE UNCHANGED vars
  BY <1>9 DEF vars, leaseVars, writerVars
<1> QED BY <1>1, <1>2, <1>3, <1>4, <1>5, <1>6, <1>7, <1>8, <1>9
        DEF Next, Work, Disturbance, Load, Writer, Pump, Deliver, Collect, WatchForStop

\* A step changes what the writer of m works on, and of no other manager.
WriterLocal(m) ==
  /\ st' = st \/ \E x : st' = [st EXCEPT ![m] = x]
  /\ lease' = lease \/ \E x : lease' = [lease EXCEPT ![m] = x]
  /\ next' = next \/ \E x : next' = [next EXCEPT ![m] = x]
  /\ last' = last \/ \E x : last' = [last EXCEPT ![m] = x]
  /\ seen' = seen \/ \E x : seen' = [seen EXCEPT ![m] = x]
  /\ wpc' = wpc \/ \E x : wpc' = [wpc EXCEPT ![m] = x]
  /\ walloc' = walloc \/ \E x : walloc' = [walloc EXCEPT ![m] = x]
  /\ maxRead' = maxRead \/ \E x : maxRead' = [maxRead EXCEPT ![m] = x]

\* What is local to one writer leaves every other one as it was.
LEMMA WriterOthers ==
  ASSUME TypeInv, NEW m \in Manager, WriterLocal(m), NEW n \in Manager \ {m}
  PROVE  /\ st'[n] = st[n] /\ lease'[n] = lease[n] /\ next'[n] = next[n] /\ last'[n] = last[n]
         /\ seen'[n] = seen[n] /\ wpc'[n] = wpc[n] /\ walloc'[n] = walloc[n]
         /\ maxRead'[n] = maxRead[n]
<1>1. /\ st \in [Manager -> ManagerStates] /\ DOMAIN lease = Manager /\ DOMAIN next = Manager
      /\ DOMAIN last = Manager /\ DOMAIN seen = Manager /\ DOMAIN wpc = Manager
      /\ DOMAIN walloc = Manager /\ DOMAIN maxRead = Manager
  BY DEF TypeInv, TypeOK, LeaseOK, WriterOK
<1> QED BY <1>1 DEF WriterLocal

\* Every action that changes a writer is local to it.
LEMMA WriterActors ==
  ASSUME NEW m \in Manager
  PROVE  /\ LeaseRead(m) \/ LeaseWrite(m) \/ LeaseLost(m) \/ LeaseFails(m) => WriterLocal(m)
         /\ Stop(m) \/ StopPersist(m) \/ WriterTake(m) \/ WriterAlloc(m) => WriterLocal(m)
         /\ RenewRead(m) \/ RenewWrite(m) \/ RenewFails(m) \/ RenewLost(m) => WriterLocal(m)
         /\ WriterCreates(m) \/ WriterRejected(m) \/ WriterErrs(m) => WriterLocal(m)
         /\ WriterPublish(m) => WriterLocal(m)
<1>1. LeaseRead(m) \/ LeaseLost(m) \/ LeaseFails(m) \/ Stop(m) \/ StopPersist(m) => WriterLocal(m)
  BY DEF WriterLocal, LeaseRead, LeaseLost, LeaseFails, Stop, StopPersist, writerVars
<1>2. LeaseWrite(m) => WriterLocal(m)
  BY DEF WriterLocal, LeaseWrite
<1>3. WriterTake(m) => WriterLocal(m)
  BY DEF WriterLocal, WriterTake, leaseVars
<1>4. WriterAlloc(m) => WriterLocal(m)
  BY DEF WriterLocal, WriterAlloc
<1>5. RenewRead(m) => WriterLocal(m)
  BY DEF WriterLocal, RenewRead
<1>6. RenewWrite(m) => WriterLocal(m)
  BY DEF WriterLocal, RenewWrite
<1>7. RenewFails(m) \/ RenewLost(m) => WriterLocal(m)
  BY DEF WriterLocal, RenewFails, RenewLost, GiveUpLease
<1>8. WriterCreates(m) \/ WriterRejected(m) \/ WriterErrs(m) => WriterLocal(m)
  BY DEF WriterLocal, WriterCreates, WriterRejected, WriterErrs, leaseVars
<1>9. WriterPublish(m) => WriterLocal(m)
  BY DEF WriterLocal, WriterPublish, leaseVars
<1> QED BY <1>1, <1>2, <1>3, <1>4, <1>5, <1>6, <1>7, <1>8, <1>9

\* A loaded manager stays loaded.
LEMMA AliveStep ==
  ASSUME TypeInv, [Next]_vars, NEW n \in Manager, Alive(n)
  PROVE  Alive(n)'
<1>a. st \in [Manager -> ManagerStates]
  BY DEF TypeInv, TypeOK, LeaseOK
<1>1. ASSUME NEW m \in Manager, LeaseRead(m) \/ LeaseLost(m) \/ LeaseFails(m) PROVE Alive(n)'
  <2>1. ~Alive(m) /\ \E x : st' = [st EXCEPT ![m] = x]
    BY <1>1 DEF LeaseRead, LeaseLost, LeaseFails, Alive
  <2> QED BY <2>1, <1>a DEF Alive
<1>2. ASSUME NEW m \in Manager, LeaseWrite(m) \/ Stop(m) \/ StopPersist(m) PROVE Alive(n)'
  <2>1. \E x \in {"running", "stopping", "stopped"} : st' = [st EXCEPT ![m] = x]
    BY <1>2 DEF LeaseWrite, Stop, StopPersist
  <2> QED BY <2>1, <1>a DEF Alive
<1>3. ASSUME NEW m \in Manager, WriterAlloc(m) \/ RenewWrite(m) PROVE Alive(n)'
  <2>1. st' = st
    BY <1>3 DEF WriterAlloc, RenewWrite
  <2> QED BY <2>1 DEF Alive
<1>4. CASE UNCHANGED <<st, lease, next, last>>
  BY <1>4 DEF Alive
<1> QED BY LeaseChanges, <1>1, <1>2, <1>3, <1>4

\* A writer renews the lease that it holds.
LEMMA RenewStep ==
  ASSUME TypeInv, RenewInv, [Next]_vars
  PROVE  RenewInv'
<1>t. /\ st \in [Manager -> ManagerStates] /\ lease \in [Manager -> Nat]
      /\ seen \in [Manager -> [rangeID : Nat, ackLevel : Nat]]
      /\ wpc \in [Manager -> {"idle", "alloc", "renew", "publish"}]
  BY DEF TypeInv, TypeOK, LeaseOK, WriterOK
<1>o. ASSUME NEW m \in Manager, WriterLocal(m), RenewOf(m)' PROVE RenewInv'
  <2>1. ASSUME NEW n \in Manager \ {m} PROVE RenewOf(n)'
    BY <1>o, WriterOthers DEF RenewInv, RenewOf, Alive
  <2> QED BY <1>o, <2>1 DEF RenewInv
<1>1. ASSUME NEW m \in Manager,
             LeaseRead(m) \/ LeaseWrite(m) \/ LeaseLost(m) \/ LeaseFails(m)
      PROVE  RenewOf(m)'
  <2>1. ~Alive(m) /\ wpc' = wpc
    BY <1>1 DEF LeaseRead, LeaseWrite, LeaseLost, LeaseFails, Alive, writerVars
  <2>2. wpc'[m] = "idle"
    BY <2>1 DEF RenewInv, RenewOf
  <2> QED BY <2>2 DEF RenewOf
<1>2. ASSUME NEW m \in Manager, Stop(m) \/ StopPersist(m) \/ WriterAlloc(m) PROVE RenewOf(m)'
  <2>1. UNCHANGED <<wpc, seen, lease>> /\ Alive(m)
    BY <1>2 DEF Stop, StopPersist, WriterAlloc, writerVars, Alive
  <2> QED BY <2>1, AliveStep DEF RenewInv, RenewOf
<1>3. ASSUME NEW m \in Manager,
             WriterTake(m) \/ RenewWrite(m) \/ RenewFails(m) \/ RenewLost(m)
             \/ WriterCreates(m) \/ WriterRejected(m) \/ WriterErrs(m) \/ WriterPublish(m)
      PROVE  RenewOf(m)'
  <2>1. /\ Alive(m)
        /\ \/ wpc' = [wpc EXCEPT ![m] = "idle"] \/ wpc' = [wpc EXCEPT ![m] = "alloc"]
           \/ wpc' = [wpc EXCEPT ![m] = "publish"]
    BY <1>3 DEF WriterTake, RenewWrite, RenewFails, RenewLost, GiveUpLease, NeedsBlock,
        WriterCreates, WriterRejected, WriterErrs, WriterPublish, BatchReady
  <2>2. wpc'[m] # "renew" /\ Alive(m)'
    BY <2>1, <1>t, AliveStep
  <2> QED BY <2>2 DEF RenewOf
<1>4. ASSUME NEW m \in Manager, RenewRead(m) PROVE RenewOf(m)'
  <2>1. /\ Alive(m) /\ lease' = lease /\ store.rangeID = lease[m]
        /\ seen' = [seen EXCEPT ![m] = [rangeID |-> store.rangeID, ackLevel |-> store.ackLevel]]
    BY <1>4 DEF RenewRead, NeedsBlock, Owns
  <2>2. seen'[m].rangeID = lease'[m]
    BY <2>1, <1>t
  <2> QED BY <2>1, <2>2, AliveStep DEF RenewOf
<1>5. CASE UNCHANGED <<st, lease, next, last, seen, wpc, walloc, maxRead>>
  BY <1>5 DEF RenewInv, RenewOf, Alive
<1> QED BY WriterChanges, WriterActors, <1>o, <1>1, <1>2, <1>3, <1>4, <1>5
-----------------------------------------------------------------------------
\* The IDs in the writer's batch and what publishing does to the read level limit.
LEMMA PublishEffects ==
  ASSUME TypeInv, NEW m \in Manager, WriterPublish(m)
  PROVE  /\ maxRead' = [maxRead EXCEPT ![m] = maxRead'[m]]
         /\ \E a \in walloc[m] : maxRead'[m] = a.id
         /\ \A a \in walloc[m] : a.id <= maxRead'[m]
<1> DEFINE T == {a.id : a \in walloc[m]}
<1>a. walloc[m] \in SUBSET Allocs /\ maxRead \in [Manager -> Nat]
  BY DEF TypeInv, TypeOK, WriterOK
<1>1. wpc[m] = "publish" /\ maxRead' = [maxRead EXCEPT ![m] = Highest(T)]
  BY DEF WriterPublish
<1>2. walloc[m] # {} /\ \E b \in Nat : \A a \in walloc[m] : a.id <= b
  BY <1>1 DEF TypeInv, WriterShape
<1>3. PICK b \in Nat : \A a \in walloc[m] : a.id <= b
  BY <1>2
<1>4. T \in SUBSET Int /\ T # {} /\ \A y \in T : y <= b
  BY SMTT(30), <1>a, <1>2, <1>3 DEF Allocs
<1>5. Highest(T) \in T /\ \A y \in T : y <= Highest(T)
  <2> HIDE DEF T
  <2>1. b \in Int
    BY Whole
  <2> QED BY <1>4, <2>1, HighestIsGreatest
<1>6. maxRead'[m] = Highest(T)
  BY <1>1, <1>a
<1>7. \E a \in walloc[m] : Highest(T) = a.id
  BY <1>5
<1>8. \A a \in walloc[m] : a.id <= Highest(T)
  BY <1>5
<1> QED BY <1>1, <1>6, <1>7, <1>8
\* A step that touches no block and no read level limit, and adds no ID to a batch.
WriterCalm ==
  /\ UNCHANGED <<lease, next, last, maxRead>>
  /\ \A n \in Manager : walloc'[n] \subseteq walloc[n] /\ (Alive(n)' => Alive(n))

\* A step allocates an ID, publishes a batch, is granted a lease, or leaves the
\* writers calm.
LEMMA WriterCases ==
  ASSUME TypeInv, [Next]_vars
  PROVE  \/ WriterCalm
         \/ \E m \in Manager : LeaseWrite(m) \/ WriterAlloc(m) \/ RenewWrite(m) \/ WriterPublish(m)
<1>t. walloc \in [Manager -> SUBSET Allocs] /\ st \in [Manager -> ManagerStates]
  BY DEF TypeInv, TypeOK, WriterOK, LeaseOK
<1>1. ASSUME NEW m \in Manager,
             LeaseRead(m) \/ LeaseLost(m) \/ LeaseFails(m) \/ Stop(m) \/ StopPersist(m)
      PROVE  WriterCalm
  <2>1. UNCHANGED <<lease, next, last, maxRead, walloc>>
    BY <1>1 DEF LeaseRead, LeaseLost, LeaseFails, Stop, StopPersist, writerVars
  <2>2. \/ st' = [st EXCEPT ![m] = "leasing"] \/ st' = [st EXCEPT ![m] = "new"]
        \/ st' = [st EXCEPT ![m] = "failed"]
        \/ Alive(m) /\ \E x : st' = [st EXCEPT ![m] = x]
    BY <1>1 DEF LeaseRead, LeaseLost, LeaseFails, Stop, StopPersist, Alive
  <2>3. \A n \in Manager : Alive(n)' => Alive(n)
    BY <2>2, <1>t DEF Alive
  <2> QED BY <2>1, <2>3 DEF WriterCalm
<1>2. ASSUME NEW m \in Manager,
             WriterTake(m) \/ RenewRead(m) \/ WriterCreates(m) \/ WriterRejected(m) \/ WriterErrs(m)
      PROVE  WriterCalm
  BY <1>2 DEF WriterTake, RenewRead, WriterCreates, WriterRejected, WriterErrs,
        leaseVars, Alive, WriterCalm
<1>3. ASSUME NEW m \in Manager, RenewFails(m) \/ RenewLost(m) PROVE WriterCalm
  <2>1. /\ UNCHANGED <<st, lease, next, last, maxRead>>
        /\ walloc' = [walloc EXCEPT ![m] = {}]
    BY <1>3 DEF RenewFails, RenewLost, GiveUpLease
  <2>2. \A n \in Manager : walloc'[n] \subseteq walloc[n]
    BY <2>1, <1>t
  <2> QED BY <2>1, <2>2 DEF WriterCalm, Alive
<1>4. CASE UNCHANGED <<st, lease, next, last, seen, wpc, walloc, maxRead>>
  BY <1>4 DEF WriterCalm, Alive
<1> QED BY WriterChanges, <1>1, <1>2, <1>3, <1>4

\* The four steps that are not calm.  A lease is granted on the range ID that was read.
LEMMA GrantEffects ==
  ASSUME TypeInv, RenewInv, NEW m \in Manager, LeaseWrite(m) \/ RenewWrite(m)
  PROVE  /\ LeaseApplies(store, seen[m])
         /\ store'.rangeID = store.rangeID + 1 /\ seen[m].rangeID = store.rangeID
         /\ store'.ackLevel = seen[m].ackLevel /\ store'.tasks = store.tasks
         /\ lease' = [lease EXCEPT ![m] = store.rangeID + 1]
         /\ next' = [next EXCEPT ![m] = BlockEnd(store.rangeID) + 1]
         /\ last' = [last EXCEPT ![m] = BlockEnd(store.rangeID + 1)]
         /\ seen' = [seen EXCEPT ![m] = NothingSeen]
         /\ walloc' = walloc
         /\ RenewWrite(m) => maxRead' = maxRead /\ Owns(store, lease[m]) /\ st' = st /\ Alive(m)
         /\ LeaseWrite(m) => /\ maxRead' = [maxRead EXCEPT ![m] = BlockEnd(store.rangeID)]
                             /\ walloc[m] = {} /\ st' = [st EXCEPT ![m] = "running"]
<1>1. /\ store' = LeaseTaskList(store, seen[m]) /\ LeaseApplies(store, seen[m])
      /\ lease' = [lease EXCEPT ![m] = seen[m].rangeID + 1]
      /\ next' = [next EXCEPT ![m] = BlockStart(seen[m].rangeID + 1)]
      /\ last' = [last EXCEPT ![m] = BlockEnd(seen[m].rangeID + 1)]
      /\ seen' = [seen EXCEPT ![m] = NothingSeen]
      /\ walloc' = walloc
  BY DEF LeaseWrite, RenewWrite
<1>2. seen[m].rangeID = store.rangeID /\ store.rangeID \in Nat
  BY <1>1, TypeElements DEF LeaseApplies, Stores
<1>3. BlockStart(store.rangeID + 1) = BlockEnd(store.rangeID) + 1 /\ BlockEnd(store.rangeID) \in Nat
  BY <1>2, Blocks
<1>4. /\ store'.rangeID = seen[m].rangeID + 1 /\ store'.ackLevel = seen[m].ackLevel
      /\ store'.tasks = store.tasks
  BY <1>1, TypeElements DEF LeaseTaskList, Stores
<1>5. ASSUME RenewWrite(m)
      PROVE  maxRead' = maxRead /\ Owns(store, lease[m]) /\ st' = st /\ Alive(m)
  BY <1>2, <1>5 DEF RenewWrite, RenewInv, RenewOf, Owns
<1>6. ASSUME LeaseWrite(m)
      PROVE  /\ maxRead' = [maxRead EXCEPT ![m] = BlockEnd(store.rangeID)]
             /\ walloc[m] = {} /\ st' = [st EXCEPT ![m] = "running"]
  <2>1. /\ maxRead' = [maxRead EXCEPT ![m] = BlockStart(seen[m].rangeID + 1) - 1]
        /\ st[m] = "leasing" /\ st' = [st EXCEPT ![m] = "running"]
    BY <1>6 DEF LeaseWrite
  <2>2. BlockStart(seen[m].rangeID + 1) - 1 = BlockEnd(store.rangeID)
    <3> HIDE DEF BlockStart, BlockEnd
    <3> QED BY SMTT(30), <1>2, <1>3
  <2>3. ~Alive(m)
    BY <2>1 DEF Alive
  <2>4. walloc[m] = {}
    BY <2>3 DEF RenewInv, RenewOf, TypeInv, WriterShape
  <2> QED BY <2>1, <2>2, <2>4
<1> QED BY <1>1, <1>2, <1>3, <1>4, <1>5, <1>6

\* What WriterInv says of one manager.
WriterOf(m) ==
  /\ maxRead[m] <= last[m] /\ last[m] <= BlockEnd(store.rangeID)
  /\ Alive(m) => BatchOf(m)

\* Layer 5 is inductive.
LEMMA WriterStep ==
  ASSUME TypeInv, LeaseInv, RenewInv, WriterInv, [Next]_vars
  PROVE  WriterInv'
<1>t. /\ st \in [Manager -> ManagerStates] /\ lease \in [Manager -> Nat]
      /\ next \in [Manager -> Nat] /\ last \in [Manager -> Nat] /\ maxRead \in [Manager -> Nat]
      /\ walloc \in [Manager -> SUBSET Allocs] /\ store.rangeID \in Nat
  BY TypeElements DEF TypeInv, TypeOK, LeaseOK, WriterOK, Stores
<1>r. store'.rangeID \in Nat /\ store.rangeID <= store'.rangeID
  BY RangeStep
<1>b. /\ BlockEnd(store.rangeID) \in Nat /\ BlockEnd(store'.rangeID) \in Nat
      /\ BlockEnd(store.rangeID) <= BlockEnd(store'.rangeID)
  BY <1>t, <1>r, Blocks
<1>i. \A n \in Manager : \A a \in walloc[n] : a.id \in Nat
  BY SMTT(30), <1>t DEF Allocs
<1>w. ASSUME \A n \in Manager : WriterOf(n)',
             \A n, k \in Manager : (Alive(n) /\ Owns(store, lease[n]))' /\ n # k => Above(n, k)'
      PROVE  WriterInv'
  BY <1>w DEF WriterInv, WriterOf
<1> HIDE DEF BlockStart, BlockEnd
<1>1. CASE WriterCalm
  <2>1. ASSUME NEW n \in Manager PROVE WriterOf(n)'
    <3>1. /\ last'[n] = last[n] /\ maxRead'[n] = maxRead[n] /\ next'[n] = next[n]
          /\ walloc'[n] \subseteq walloc[n] /\ (Alive(n)' => Alive(n))
      BY <1>1 DEF WriterCalm
    <3>2. maxRead[n] <= last[n] /\ last[n] <= BlockEnd(store.rangeID) /\ (Alive(n) => BatchOf(n))
      BY DEF WriterInv
    <3>3. last[n] <= BlockEnd(store'.rangeID)
      BY <3>2, <1>t, <1>b, Chain, Whole
    <3> QED BY <3>1, <3>2, <3>3 DEF WriterOf, BatchOf
  <2>2. ASSUME NEW n \in Manager, NEW k \in Manager, Alive(n)', Owns(store, lease[n])', n # k
        PROVE  Above(n, k)'
    <3>1. /\ lease'[n] = lease[n] /\ last'[k] = last[k] /\ next'[n] = next[n]
          /\ walloc'[n] \subseteq walloc[n] /\ Alive(n)
      BY <1>1, <2>2 DEF WriterCalm
    <3>2. lease[n] <= store.rangeID
      BY <3>1 DEF LeaseInv, LeaseOf
    <3>3. Owns(store, lease[n])
      BY <2>2, <3>1, <3>2, <1>t, <1>r, Order, Whole DEF Owns
    <3> QED BY <2>2, <3>1, <3>3 DEF WriterInv, Above
  <2> QED BY <1>w, <2>1, <2>2
<1>2. ASSUME NEW m \in Manager, LeaseWrite(m) \/ RenewWrite(m) PROVE WriterInv'
  <2>0. /\ store'.rangeID = store.rangeID + 1
        /\ lease' = [lease EXCEPT ![m] = store.rangeID + 1]
        /\ next' = [next EXCEPT ![m] = BlockEnd(store.rangeID) + 1]
        /\ last' = [last EXCEPT ![m] = BlockEnd(store.rangeID + 1)]
        /\ walloc' = walloc
    BY <1>2, GrantEffects
  <2>1. /\ lease'[m] = store'.rangeID /\ next'[m] = BlockEnd(store.rangeID) + 1
        /\ last'[m] = BlockEnd(store'.rangeID)
    BY <2>0, <1>t
  <2>2. \/ RenewWrite(m) /\ maxRead'[m] = maxRead[m] /\ Owns(store, lease[m]) /\ Alive(m)
        \/ maxRead'[m] = BlockEnd(store.rangeID) /\ walloc[m] = {}
    <3>1. CASE RenewWrite(m)
      BY <3>1, GrantEffects
    <3>2. CASE LeaseWrite(m)
      <4>1. maxRead' = [maxRead EXCEPT ![m] = BlockEnd(store.rangeID)] /\ walloc[m] = {}
        BY <3>2, GrantEffects
      <4> QED BY <4>1, <1>t
    <3> QED BY <1>2, <3>1, <3>2
  <2>3. \A n \in Manager \ {m} :
          /\ last'[n] = last[n] /\ next'[n] = next[n] /\ maxRead'[n] = maxRead[n]
          /\ lease'[n] = lease[n] /\ walloc'[n] = walloc[n] /\ (Alive(n)' => Alive(n))
    BY <1>2, WriterOthers, WriterActors DEF Alive
  <2>4. WriterOf(m)'
    <3>1. CASE maxRead'[m] = BlockEnd(store.rangeID) /\ walloc[m] = {}
      BY SMTT(30), <3>1, <2>0, <2>1, <1>b DEF WriterOf, BatchOf
    <3>2. CASE RenewWrite(m) /\ maxRead'[m] = maxRead[m] /\ Alive(m)
      <4>1. /\ maxRead[m] <= last[m] /\ last[m] <= BlockEnd(store.rangeID) /\ BatchOf(m)
            /\ next[m] <= last[m] + 1
        BY <3>2 DEF WriterInv, LeaseInv, LeaseOf
      <4>2. maxRead[m] <= BlockEnd(store'.rangeID) /\ maxRead[m] < BlockEnd(store.rangeID) + 1
        BY <4>1, <1>t, <1>b, Order, Chain, Whole
      <4>3. \A a \in walloc[m] : maxRead[m] < a.id /\ a.id < BlockEnd(store.rangeID) + 1
        BY SMTT(30), <4>1, <1>t, <1>b, <1>i DEF BatchOf
      <4> QED BY SMTT(30), <4>2, <4>3, <3>2, <2>0, <2>1, <1>b DEF WriterOf, BatchOf
    <3> QED BY <2>2, <3>1, <3>2
  <2>5. ASSUME NEW n \in Manager \ {m} PROVE WriterOf(n)'
    <3>1. maxRead[n] <= last[n] /\ last[n] <= BlockEnd(store.rangeID) /\ (Alive(n) => BatchOf(n))
      BY DEF WriterInv
    <3>2. last[n] <= BlockEnd(store'.rangeID)
      BY <3>1, <1>t, <1>b, Chain, Whole
    <3> QED BY <3>1, <3>2, <2>3 DEF WriterOf, BatchOf
  <2>6. ASSUME NEW n \in Manager, NEW k \in Manager, Alive(n)', Owns(store, lease[n])', n # k
        PROVE  Above(n, k)'
    <3>1. n = m
      <4>1. ASSUME n # m PROVE FALSE
        <5>1. lease'[n] = lease[n] /\ lease[n] <= store.rangeID
          BY <4>1, <2>3, <2>6 DEF LeaseInv, LeaseOf
        <5> QED BY SMTT(30), <5>1, <2>0, <2>6, <1>t DEF Owns
      <4> QED BY <4>1
    <3>2. last'[k] = last[k] /\ last[k] <= BlockEnd(store.rangeID)
      BY <3>1, <2>6, <2>3 DEF WriterInv
    <3>3. last'[k] < next'[m]
      BY SMTT(30), <3>2, <2>1, <1>t, <1>b
    <3>4. \A a \in walloc[m] : last[k] < a.id
      BY <2>2, <2>6, <3>1 DEF WriterInv, Above
    <3> QED BY <3>1, <3>2, <3>3, <3>4, <2>0 DEF Above
  <2> QED BY <1>w, <2>4, <2>5, <2>6
<1>3. ASSUME NEW m \in Manager, WriterAlloc(m) PROVE WriterInv'
  <2>0. PICK req \in wpend[m] :
          /\ walloc' = [walloc EXCEPT ![m] =
                          walloc[m] \cup {[id |-> next[m], p |-> req.p, old |-> req.old]}]
          /\ next' = [next EXCEPT ![m] = next[m] + 1]
          /\ UNCHANGED <<store, lease, last, st, maxRead>> /\ Alive(m)
    BY <1>3 DEF WriterAlloc, storeVars
  <2>1. next'[m] = next[m] + 1 /\ \A a \in walloc'[m] : a \in walloc[m] \/ a.id = next[m]
    BY SMTT(30), <2>0, <1>t
  <2>2. \A n \in Manager \ {m} : next'[n] = next[n] /\ walloc'[n] = walloc[n]
    BY <2>0, <1>t
  <2>3. BatchOf(m)'
    <3>1. BatchOf(m)
      BY <2>0 DEF WriterInv
    <3>2. \A a \in walloc'[m] : maxRead[m] < a.id /\ a.id < next'[m]
      BY SMTT(30), <3>1, <2>1, <1>t, <1>i DEF BatchOf
    <3>3. maxRead[m] < next'[m]
      BY SMTT(30), <3>1, <2>1, <1>t DEF BatchOf
    <3> QED BY <3>2, <3>3, <2>0 DEF BatchOf
  <2>4. ASSUME NEW n \in Manager PROVE WriterOf(n)'
    <3>1. (Alive(n) => BatchOf(n)) => (Alive(n)' => BatchOf(n)')
      BY <2>0, <2>2, <2>3 DEF Alive, BatchOf
    <3> QED BY <2>0, <3>1 DEF WriterInv, WriterOf
  <2>5. ASSUME NEW n \in Manager, NEW k \in Manager, Alive(n)', Owns(store, lease[n])', n # k
        PROVE  Above(n, k)'
    <3>1. Above(n, k) /\ last'[k] = last[k]
      BY <2>0, <2>5 DEF WriterInv, Alive
    <3>2. CASE n # m
      BY <3>1, <3>2, <2>2 DEF Above
    <3>3. CASE n = m
      <4>1. last[k] < next'[m] /\ \A a \in walloc'[m] : last[k] < a.id
        BY SMTT(30), <3>1, <3>3, <2>1, <1>t, <1>i DEF Above
      <4> QED BY <4>1, <3>1, <3>3 DEF Above
    <3> QED BY <3>2, <3>3
  <2> QED BY <1>w, <2>4, <2>5
<1>4. ASSUME NEW m \in Manager, WriterPublish(m) PROVE WriterInv'
  <2>0. /\ UNCHANGED <<store, lease, next, last, st>> /\ Alive(m)
        /\ walloc' = [walloc EXCEPT ![m] = {}]
    BY <1>4 DEF WriterPublish, storeVars, leaseVars
  <2>1. /\ maxRead' = [maxRead EXCEPT ![m] = maxRead'[m]]
        /\ \E a \in walloc[m] : maxRead'[m] = a.id
    BY <1>4, PublishEffects
  <2>2. \A n \in Manager \ {m} : maxRead'[n] = maxRead[n] /\ walloc'[n] = walloc[n]
    BY <1>4, WriterOthers, WriterActors
  <2>3. walloc'[m] = {}
    BY <2>0, <1>t
  <2>4. maxRead'[m] < next[m] /\ maxRead'[m] <= last[m]
    <3>1. BatchOf(m) /\ next[m] <= last[m] + 1
      BY <2>0 DEF WriterInv, LeaseInv, LeaseOf
    <3> QED BY <3>1, <2>1, <1>t, <1>i, Order, Chain, Whole DEF BatchOf
  <2>5. WriterOf(m)'
    BY <2>0, <2>3, <2>4 DEF WriterInv, WriterOf, BatchOf
  <2>6. \A n \in Manager \ {m} : WriterOf(n)'
    BY <2>0, <2>2 DEF WriterInv, WriterOf, BatchOf, Alive
  <2>7. \A n \in Manager : walloc'[n] \subseteq walloc[n]
    BY <2>2, <2>3
  <2>8. ASSUME NEW n \in Manager, NEW k \in Manager, Alive(n)', Owns(store, lease[n])', n # k
        PROVE  Above(n, k)'
    BY <2>0, <2>7, <2>8 DEF WriterInv, Above, Alive
  <2> QED BY <1>w, <2>5, <2>6, <2>8
<1> QED BY WriterCases, <1>1, <1>2, <1>3, <1>4

\* The read level limit of a manager never decreases.
LEMMA MaxReadStep ==
  ASSUME TypeInv, RenewInv, WriterInv, [Next]_vars, NEW n \in Manager
  PROVE  maxRead'[n] \in Nat /\ maxRead[n] <= maxRead'[n]
<1>t. maxRead \in [Manager -> Nat] /\ last \in [Manager -> Nat] /\ walloc \in [Manager -> SUBSET Allocs]
  BY DEF TypeInv, TypeOK, WriterOK, LeaseOK
<1>s. store.rangeID \in Nat
  BY TypeElements DEF Stores
<1>1. CASE WriterCalm
  BY <1>1, <1>t, Order, Whole DEF WriterCalm
<1>2. ASSUME NEW m \in Manager, WriterAlloc(m) \/ RenewWrite(m)
      PROVE  maxRead'[n] \in Nat /\ maxRead[n] <= maxRead'[n]
  <2>1. maxRead' = maxRead
    BY <1>2 DEF WriterAlloc, RenewWrite
  <2> QED BY <2>1, <1>t, Order, Whole
<1>3. ASSUME NEW m \in Manager, LeaseWrite(m)
      PROVE  maxRead'[n] \in Nat /\ maxRead[n] <= maxRead'[n]
  <2>1. maxRead' = [maxRead EXCEPT ![m] = BlockEnd(store.rangeID)]
    BY <1>3, GrantEffects
  <2>2. BlockEnd(store.rangeID) \in Nat
    BY <1>s, Blocks
  <2>3. maxRead[m] <= last[m] /\ last[m] <= BlockEnd(store.rangeID)
    BY DEF WriterInv
  <2> HIDE DEF BlockEnd
  <2> QED BY <2>1, <2>2, <2>3, <1>t, Order, Chain, Whole
<1>4. ASSUME NEW m \in Manager, WriterPublish(m)
      PROVE  maxRead'[n] \in Nat /\ maxRead[n] <= maxRead'[n]
  <2>1. PICK a \in walloc[m] : maxRead'[m] = a.id
    BY <1>4, PublishEffects
  <2>2. maxRead' = [maxRead EXCEPT ![m] = a.id]
    BY <1>4, <2>1, PublishEffects
  <2>3. maxRead[m] < a.id
    BY <1>4 DEF WriterPublish, WriterInv, BatchOf
  <2>4. a.id \in Nat
    BY SMTT(30), <1>t DEF Allocs
  <2> QED BY <2>2, <2>3, <2>4, <1>t, Order, Whole
<1> QED BY WriterCases, <1>1, <1>2, <1>3, <1>4
-----------------------------------------------------------------------------
(***************************************************************************)
(* What a step does to the levels of a manager: the pump and the ack       *)
(* manager first.                                                          *)
(***************************************************************************)
PumpStill(n) ==
  ppc'[n] = ppc[n] /\ cursor'[n] = cursor[n] /\ pmax'[n] = pmax[n] /\ batch'[n] = batch[n]

Upper(n) == Min2(cursor[n] + ReadRangeSize, pmax[n])

RowsRead(n) == GetTasks(store, cursor[n], Upper(n), BatchSize)

StartsRead(n) ==
  /\ ppc'[n] = "read" /\ cursor'[n] = ack[n].readLevel /\ pmax'[n] = maxRead[n]
  /\ batch'[n] = batch[n] /\ ack'[n] = ack[n]

FindsNothing(n) ==
  /\ ppc[n] = "read" /\ ReadsOn(n) /\ RowsRead(n) = {}
  /\ ppc'[n] = "read" /\ cursor'[n] = Upper(n) /\ pmax'[n] = pmax[n]
  /\ batch'[n] = batch[n] /\ ack'[n] = ack[n]

FindsRows(n) ==
  /\ ppc[n] = "read" /\ ReadsOn(n)
  /\ ppc'[n] = "add" /\ cursor'[n] = 0 /\ pmax'[n] = 0
  /\ batch'[n] = RowsRead(n) /\ ack'[n] = ack[n]

GivesUpRead(n) ==
  /\ Alive(n) /\ ppc[n] = "read"
  /\ ppc'[n] = "idle" /\ cursor'[n] = 0 /\ pmax'[n] = 0
  /\ batch'[n] = batch[n] /\ ack'[n] = AfterEmptyRead(ack[n], cursor[n])

AddsRow(n, row) ==
  /\ Alive(n) /\ ppc[n] = "add" /\ IsNext(n, row)
  /\ ppc'[n] # "read" /\ cursor'[n] = cursor[n] /\ pmax'[n] = pmax[n]
  /\ batch'[n] = batch[n] \ {row}
  /\ \/ row.p \in expired /\ ack'[n] = SetReadLevel(ack[n], row.id)
     \/ ack'[n] = ReadItem(ack[n], row.id)

Rests(n) ==
  /\ ppc'[n] # "read" /\ cursor'[n] \in {cursor[n], 0} /\ pmax'[n] \in {pmax[n], 0}
  /\ batch'[n] \in {batch[n], {}} /\ ack'[n] = ack[n]

CompletesRow(n, row) ==
  /\ DispatchExpired(n, row) \/ FinishOK(n, row) \/ RewriteOK(n, row)
  /\ PumpStill(n) /\ ack'[n] = AckItem(ack[n], row.id)

\* The actions that move the pump or the ack manager.
LEMMA PumpChanges ==
  ASSUME [Next]_vars
  PROVE  \/ UNCHANGED <<ack, ppc, cursor, pmax, batch>>
         \/ \E m \in Manager : LeaseWrite(m) \/ PumpStart(m) \/ PumpRead(m)
                 \/ PumpReadFails(m) \/ PumpEmpty(m) \/ PumpAdd(m) \/ PumpExit(m)
                 \/ PumpTimer(m) \/ PumpPersists(m) \/ PumpRejected(m)
                 \/ PumpPersistErrs(m)
         \/ \E m \in Manager : \E row \in Held(m) : DispatchExpired(m, row)
                 \/ FinishOK(m, row) \/ RewriteOK(m, row)
<1>1. ASSUME NEW m \in Manager,
             LeaseRead(m) \/ LeaseLost(m) \/ LeaseFails(m) \/ WriterTake(m)
             \/ WriterAlloc(m) \/ RenewRead(m) \/ RenewWrite(m) \/ RenewFails(m)
             \/ RenewLost(m) \/ WriterCreates(m)
      PROVE  UNCHANGED <<ack, ppc, cursor, pmax, batch>>
  BY <1>1 DEF LeaseRead, LeaseLost, LeaseFails, WriterTake, WriterAlloc,
        RenewRead, RenewWrite, RenewFails, RenewLost, WriterCreates, pumpVars,
        taskVars, GiveUpLease
<1>2. ASSUME NEW m \in Manager,
             WriterRejected(m) \/ WriterErrs(m) \/ WriterPublish(m) \/ Stop(m)
             \/ StopPersist(m) \/ UpdatePartitionConfig(m)
      PROVE  UNCHANGED <<ack, ppc, cursor, pmax, batch>>
  BY <1>2 DEF WriterRejected, WriterErrs, WriterPublish, Stop, StopPersist,
        UpdatePartitionConfig, pumpVars, taskVars
<1>3. ASSUME NEW m \in Manager, NEW p \in Payload,
             SyncMatch(m, p) \/ AddTask(m, p) \/ AddTaskReturns(m, p)
      PROVE  UNCHANGED <<ack, ppc, cursor, pmax, batch>>
  BY <1>3 DEF SyncMatch, AddTask, AddTaskReturns, pumpVars, taskVars
<1>4. ASSUME NEW m \in Manager, NEW row \in Held(m),
             Dispatch(m, row) \/ RecordStarted(m, row) \/ FinishErr(m, row)
             \/ RewriteRetry(m, row) \/ RewriteGivesUp(m, row)
      PROVE  UNCHANGED <<ack, ppc, cursor, pmax, batch>>
  BY <1>4 DEF Dispatch, RecordStarted, FinishErr, RewriteRetry, RewriteGivesUp,
        pumpVars, taskVars
<1>5. ASSUME NEW m \in Manager, NEW level \in gcReq[m],
             GCDelete(m, level) \/ GCSkip(m, level)
      PROVE  UNCHANGED <<ack, ppc, cursor, pmax, batch>>
  BY <1>5 DEF GCDelete, GCSkip, pumpVars, taskVars
<1>6. ASSUME NEW p \in Payload,
             AddTaskGivesUp(p) \/ Expire(p)
      PROVE  UNCHANGED <<ack, ppc, cursor, pmax, batch>>
  BY <1>6 DEF AddTaskGivesUp, Expire, pumpVars, taskVars
<1>7. ASSUME NEW row \in store.tasks,
             TimeToLive(row)
      PROVE  UNCHANGED <<ack, ppc, cursor, pmax, batch>>
  BY <1>7 DEF TimeToLive, pumpVars, taskVars
<1>8. ASSUME NEW w \in late,
             LateWrite(w)
      PROVE  UNCHANGED <<ack, ppc, cursor, pmax, batch>>
  BY <1>8 DEF LateWrite, pumpVars, taskVars
<1>9. CASE UNCHANGED vars
  BY <1>9 DEF vars, pumpVars, taskVars
<1> QED BY <1>1, <1>2, <1>3, <1>4, <1>5, <1>6, <1>7, <1>8, <1>9
        DEF Next, Work, Disturbance, Load, Writer, Pump, Deliver, Collect, WatchForStop

\* What a step does to the pump and the ack manager of one manager.
LEMMA PumpEffects ==
  ASSUME TypeInv, [Next]_vars, NEW n \in Manager
  PROVE  \/ PumpStill(n) /\ ack'[n] = ack[n]
         \/ LeaseWrite(n) /\ PumpStill(n) /\ ack'[n] = SetAckLevel(ack[n], seen[n].ackLevel)
         \/ StartsRead(n) \/ FindsNothing(n) \/ FindsRows(n) \/ GivesUpRead(n) \/ Rests(n)
         \/ \E row \in batch[n] : AddsRow(n, row)
         \/ \E row \in Held(n) : CompletesRow(n, row)
<1>t. /\ DOMAIN ack = Manager /\ DOMAIN ppc = Manager /\ DOMAIN cursor = Manager
      /\ DOMAIN pmax = Manager /\ DOMAIN batch = Manager
  BY DEF TypeInv, TypeOK, TasksOK, PumpOK
<1>o. ASSUME NEW m \in Manager, PumpLocal(m), n # m PROVE PumpStill(n) /\ ack'[n] = ack[n]
  BY <1>o, PumpOthers DEF PumpStill
<1>1. ASSUME LeaseWrite(n)
      PROVE  PumpStill(n) /\ ack'[n] = SetAckLevel(ack[n], seen[n].ackLevel)
  <2>1. /\ UNCHANGED <<ppc, cursor, pmax, batch>>
        /\ ack' = [ack EXCEPT ![n] = SetAckLevel(ack[n], seen[n].ackLevel)]
    BY <1>1 DEF LeaseWrite
  <2> QED BY <2>1, <1>t DEF PumpStill
<1>2. ASSUME PumpStart(n) PROVE StartsRead(n)
  <2>1. /\ UNCHANGED <<ack, batch>>
        /\ ppc' = [ppc EXCEPT ![n] = "read"] /\ cursor' = [cursor EXCEPT ![n] = ack[n].readLevel]
        /\ pmax' = [pmax EXCEPT ![n] = maxRead[n]]
    BY <1>2 DEF PumpStart, taskVars
  <2> QED BY <2>1, <1>t DEF StartsRead
<1>3. ASSUME PumpRead(n) PROVE FindsNothing(n) \/ FindsRows(n)
  <2>1. /\ ack' = ack /\ ppc[n] = "read" /\ ReadsOn(n)
        /\ \/ /\ RowsRead(n) = {} /\ cursor' = [cursor EXCEPT ![n] = Upper(n)]
              /\ UNCHANGED <<pmax, ppc, batch>>
           \/ /\ batch' = [batch EXCEPT ![n] = RowsRead(n)] /\ ppc' = [ppc EXCEPT ![n] = "add"]
              /\ cursor' = [cursor EXCEPT ![n] = 0] /\ pmax' = [pmax EXCEPT ![n] = 0]
    BY <1>3 DEF PumpRead, EndRead, taskVars, Upper, RowsRead
  <2> QED BY <2>1, <1>t DEF FindsNothing, FindsRows
<1>4. ASSUME PumpEmpty(n) PROVE GivesUpRead(n)
  <2>1. /\ batch' = batch /\ Alive(n) /\ ppc[n] = "read"
        /\ ack' = [ack EXCEPT ![n] = AfterEmptyRead(ack[n], cursor[n])]
        /\ ppc' = [ppc EXCEPT ![n] = "idle"]
        /\ cursor' = [cursor EXCEPT ![n] = 0] /\ pmax' = [pmax EXCEPT ![n] = 0]
    BY <1>4 DEF PumpEmpty, EndRead
  <2> QED BY <2>1, <1>t DEF GivesUpRead
<1>5. ASSUME PumpAdd(n) PROVE \E row \in batch[n] : AddsRow(n, row)
  <2>1. PICK row \in batch[n] :
          /\ UNCHANGED <<cursor, pmax>> /\ Alive(n) /\ ppc[n] = "add" /\ IsNext(n, row)
          /\ \/ row.p \in expired /\ ack' = [ack EXCEPT ![n] = SetReadLevel(ack[n], row.id)]
             \/ ack' = [ack EXCEPT ![n] = ReadItem(ack[n], row.id)]
          /\ batch' = [batch EXCEPT ![n] = batch[n] \ {row}]
          /\ ppc' = [ppc EXCEPT ![n] = IF batch[n] = {row} THEN "idle" ELSE "add"]
    BY <1>5 DEF PumpAdd
  <2>2. AddsRow(n, row)
    BY <2>1, <1>t DEF AddsRow
  <2> QED BY <2>2
<1>6. ASSUME PumpReadFails(n) \/ PumpExit(n) \/ PumpTimer(n) \/ PumpPersists(n)
             \/ PumpRejected(n) \/ PumpPersistErrs(n)
      PROVE  Rests(n)
  <2>1. /\ ack' = ack
        /\ \/ ppc' = [ppc EXCEPT ![n] = "idle"] \/ ppc' = [ppc EXCEPT ![n] = "exit"]
           \/ ppc' = [ppc EXCEPT ![n] = "persist"]
        /\ cursor' = cursor \/ cursor' = [cursor EXCEPT ![n] = 0]
        /\ pmax' = pmax \/ pmax' = [pmax EXCEPT ![n] = 0]
        /\ batch' = batch \/ batch' = [batch EXCEPT ![n] = {}]
    BY <1>6 DEF PumpReadFails, PumpExit, PumpTimer, PumpPersists, PumpRejected,
        PumpPersistErrs, EndRead, taskVars
  <2> QED BY <2>1, <1>t DEF Rests
<1>7. ASSUME NEW row \in Held(n), DispatchExpired(n, row) \/ FinishOK(n, row) \/ RewriteOK(n, row)
      PROVE  CompletesRow(n, row)
  <2>1. /\ UNCHANGED <<ppc, cursor, pmax, batch>>
        /\ ack' = [ack EXCEPT ![n] = AckItem(ack[n], row.id)]
    BY <1>7 DEF DispatchExpired, FinishOK, RewriteOK, Complete, pumpVars
  <2>2. PumpStill(n) /\ ack'[n] = AckItem(ack[n], row.id)
    BY <2>1, <1>t DEF PumpStill
  <2> QED BY <1>7, <2>2 DEF CompletesRow
<1>8. CASE UNCHANGED <<ack, ppc, cursor, pmax, batch>>
  BY <1>8 DEF PumpStill
<1> QED BY PumpChanges, PumpActors, <1>o, <1>1, <1>2, <1>3, <1>4, <1>5, <1>6, <1>7, <1>8

\* The actions that remember an ack level to persist or to delete up to.
LEMMA SavedChanges ==
  ASSUME [Next]_vars
  PROVE  \/ UNCHANGED <<dbAck, pval, sval, gcReq>>
         \/ \E m \in Manager : LeaseWrite(m) \/ RenewWrite(m) \/ PumpTimer(m)
                 \/ PumpPersists(m) \/ PumpRejected(m) \/ PumpPersistErrs(m)
                 \/ Stop(m) \/ StopPersist(m)
         \/ \E m \in Manager : \E row \in Held(m) : FinishOK(m, row)
                 \/ RewriteOK(m, row)
         \/ \E m \in Manager : \E level \in gcReq[m] : GCDelete(m, level)
                 \/ GCSkip(m, level)
<1>1. ASSUME NEW m \in Manager,
             LeaseRead(m) \/ LeaseLost(m) \/ LeaseFails(m) \/ WriterTake(m)
             \/ WriterAlloc(m) \/ RenewRead(m) \/ RenewFails(m) \/ RenewLost(m)
             \/ WriterCreates(m) \/ WriterRejected(m)
      PROVE  UNCHANGED <<dbAck, pval, sval, gcReq>>
  BY <1>1 DEF LeaseRead, LeaseLost, LeaseFails, WriterTake, WriterAlloc,
        RenewRead, RenewFails, RenewLost, WriterCreates, WriterRejected, leaseVars,
        pumpVars, stopVars, gcVars, GiveUpLease
<1>2. ASSUME NEW m \in Manager,
             WriterErrs(m) \/ WriterPublish(m) \/ PumpStart(m) \/ PumpRead(m)
             \/ PumpReadFails(m) \/ PumpEmpty(m) \/ PumpAdd(m) \/ PumpExit(m)
             \/ UpdatePartitionConfig(m)
      PROVE  UNCHANGED <<dbAck, pval, sval, gcReq>>
  BY <1>2 DEF WriterErrs, WriterPublish, PumpStart, PumpRead, PumpReadFails,
        PumpEmpty, PumpAdd, PumpExit, UpdatePartitionConfig, leaseVars, pumpVars,
        stopVars, gcVars
<1>3. ASSUME NEW m \in Manager, NEW p \in Payload,
             SyncMatch(m, p) \/ AddTask(m, p) \/ AddTaskReturns(m, p)
      PROVE  UNCHANGED <<dbAck, pval, sval, gcReq>>
  BY <1>3 DEF SyncMatch, AddTask, AddTaskReturns, leaseVars, pumpVars, stopVars,
        gcVars
<1>4. ASSUME NEW m \in Manager, NEW row \in Held(m),
             Dispatch(m, row) \/ DispatchExpired(m, row) \/ RecordStarted(m, row)
             \/ FinishErr(m, row) \/ RewriteRetry(m, row) \/ RewriteGivesUp(m, row)
      PROVE  UNCHANGED <<dbAck, pval, sval, gcReq>>
  BY <1>4 DEF Dispatch, DispatchExpired, RecordStarted, FinishErr, RewriteRetry,
        RewriteGivesUp, leaseVars, pumpVars, stopVars, gcVars
<1>5. ASSUME NEW p \in Payload,
             AddTaskGivesUp(p) \/ Expire(p)
      PROVE  UNCHANGED <<dbAck, pval, sval, gcReq>>
  BY <1>5 DEF AddTaskGivesUp, Expire, leaseVars, pumpVars, stopVars, gcVars
<1>6. ASSUME NEW row \in store.tasks,
             TimeToLive(row)
      PROVE  UNCHANGED <<dbAck, pval, sval, gcReq>>
  BY <1>6 DEF TimeToLive, leaseVars, pumpVars, stopVars, gcVars
<1>7. ASSUME NEW w \in late,
             LateWrite(w)
      PROVE  UNCHANGED <<dbAck, pval, sval, gcReq>>
  BY <1>7 DEF LateWrite, leaseVars, pumpVars, stopVars, gcVars
<1>8. CASE UNCHANGED vars
  BY <1>8 DEF vars, leaseVars, pumpVars, stopVars, gcVars
<1> QED BY <1>1, <1>2, <1>3, <1>4, <1>5, <1>6, <1>7, <1>8
        DEF Next, Work, Disturbance, Load, Writer, Pump, Deliver, Collect, WatchForStop

\* An ack level that a manager keeps to persist or to delete up to is one that
\* it had, or comes from the ack manager or from the row read by a lease.
LEMMA SavedEffects ==
  ASSUME TypeInv, [Next]_vars, NEW n \in Manager
  PROVE  /\ \/ dbAck'[n] \in {dbAck[n], pval[n], sval[n]}
            \/ (LeaseWrite(n) \/ RenewWrite(n)) /\ dbAck'[n] = seen[n].ackLevel
         /\ pval'[n] \in {pval[n], 0, ack[n].ackLevel}
         /\ sval'[n] \in {sval[n], 0, ack[n].ackLevel}
         /\ gcReq'[n] \subseteq gcReq[n] \cup {ack[n].ackLevel, ack'[n].ackLevel}
<1>t. /\ DOMAIN dbAck = Manager /\ DOMAIN pval = Manager /\ DOMAIN sval = Manager
      /\ DOMAIN gcReq = Manager /\ DOMAIN ack = Manager
  BY DEF TypeInv, TypeOK, LeaseOK, PumpOK, StopOK, GCOK, TasksOK
<1> DEFINE Fine == /\ \/ dbAck'[n] \in {dbAck[n], pval[n], sval[n]}
                      \/ (LeaseWrite(n) \/ RenewWrite(n)) /\ dbAck'[n] = seen[n].ackLevel
                   /\ pval'[n] \in {pval[n], 0, ack[n].ackLevel}
                   /\ sval'[n] \in {sval[n], 0, ack[n].ackLevel}
                   /\ gcReq'[n] \subseteq gcReq[n] \cup {ack[n].ackLevel, ack'[n].ackLevel}
<1>1. ASSUME NEW m \in Manager, LeaseWrite(m) \/ RenewWrite(m) PROVE Fine
  <2>1. UNCHANGED <<pval, sval, gcReq>> /\ dbAck' = [dbAck EXCEPT ![m] = seen[m].ackLevel]
    BY <1>1 DEF LeaseWrite, RenewWrite, pumpVars, stopVars, gcVars
  <2>2. CASE n = m
    BY <2>1, <2>2, <1>1, <1>t
  <2>3. CASE n # m
    BY <2>1, <2>3, <1>t
  <2> QED BY <2>2, <2>3
<1>2. ASSUME NEW m \in Manager,
             PumpTimer(m) \/ PumpPersists(m) \/ PumpRejected(m) \/ PumpPersistErrs(m)
      PROVE  Fine
  <2>1. /\ UNCHANGED <<sval, gcReq>>
        /\ dbAck' = dbAck \/ dbAck' = [dbAck EXCEPT ![m] = pval[m]]
        /\ \/ pval' = [pval EXCEPT ![m] = ack[m].ackLevel]
           \/ pval' = [pval EXCEPT ![m] = 0]
    BY <1>2 DEF PumpTimer, PumpPersists, PumpRejected, PumpPersistErrs, leaseVars,
        stopVars, gcVars
  <2>2. dbAck'[n] \in {dbAck[n], pval[n]} /\ pval'[n] \in {pval[n], 0, ack[n].ackLevel}
    BY <2>1, <1>t
  <2> QED BY <2>1, <2>2
<1>3. ASSUME NEW m \in Manager, Stop(m) PROVE Fine
  <2>1. UNCHANGED <<dbAck, pval, gcReq>> /\ sval' = [sval EXCEPT ![m] = ack[m].ackLevel]
    BY <1>3 DEF Stop, pumpVars, gcVars
  <2>2. sval'[n] \in {sval[n], ack[n].ackLevel}
    BY <2>1, <1>t
  <2> QED BY <2>1, <2>2
<1>4. ASSUME NEW m \in Manager, StopPersist(m) PROVE Fine
  <2>1. /\ pval' = pval
        /\ dbAck' = dbAck \/ dbAck' = [dbAck EXCEPT ![m] = sval[m]]
        /\ sval' = [sval EXCEPT ![m] = 0]
        /\ gcReq' = [gcReq EXCEPT ![m] = gcReq[m] \cup {ack[m].ackLevel}]
    BY <1>4 DEF StopPersist, pumpVars
  <2>2. /\ dbAck'[n] \in {dbAck[n], sval[n]} /\ sval'[n] \in {sval[n], 0}
        /\ gcReq'[n] \subseteq gcReq[n] \cup {ack[n].ackLevel}
    BY <2>1, <1>t
  <2> QED BY <2>1, <2>2
<1>5. ASSUME NEW m \in Manager, NEW row \in Held(m), FinishOK(m, row) \/ RewriteOK(m, row)
      PROVE  Fine
  <2>1. /\ UNCHANGED <<dbAck, pval, sval>>
        /\ ack' = [ack EXCEPT ![m] = AckItem(ack[m], row.id)]
        /\ gcReq' = [gcReq EXCEPT ![m] = gcReq[m] \cup {AckItem(ack[m], row.id).ackLevel}]
    BY <1>5 DEF FinishOK, RewriteOK, Complete, leaseVars, pumpVars, stopVars
  <2>2. gcReq'[n] \subseteq gcReq[n] \cup {ack'[n].ackLevel}
    BY <2>1, <1>t
  <2> QED BY <2>1, <2>2
<1>6. ASSUME NEW m \in Manager, NEW level \in gcReq[m], GCDelete(m, level) \/ GCSkip(m, level)
      PROVE  Fine
  <2>1. UNCHANGED <<dbAck, pval, sval>> /\ gcReq' = [gcReq EXCEPT ![m] = gcReq[m] \ {level}]
    BY <1>6 DEF GCDelete, GCSkip, leaseVars, pumpVars, stopVars
  <2>2. gcReq'[n] \subseteq gcReq[n]
    BY <2>1, <1>t
  <2> QED BY <2>1, <2>2
<1>7. ASSUME UNCHANGED <<dbAck, pval, sval, gcReq>> PROVE Fine
  BY <1>7
<1>8. Fine
  <2> HIDE DEF Fine
  <2> QED BY SavedChanges, <1>1, <1>2, <1>3, <1>4, <1>5, <1>6, <1>7
<1> QED BY <1>8
-----------------------------------------------------------------------------
\* The actions that change the row a lease in progress has read.
LEMMA SeenChanges ==
  ASSUME [Next]_vars
  PROVE  \/ UNCHANGED <<seen>>
         \/ \E m \in Manager : LeaseRead(m) \/ LeaseWrite(m) \/ LeaseLost(m)
                 \/ LeaseFails(m) \/ RenewRead(m) \/ RenewWrite(m) \/ RenewFails(m)
                 \/ RenewLost(m)
<1>1. ASSUME NEW m \in Manager,
             WriterTake(m) \/ WriterAlloc(m) \/ WriterCreates(m) \/ WriterRejected(m)
             \/ WriterErrs(m) \/ WriterPublish(m) \/ PumpStart(m) \/ PumpRead(m)
             \/ PumpReadFails(m) \/ PumpEmpty(m)
      PROVE  UNCHANGED <<seen>>
  BY <1>1 DEF WriterTake, WriterAlloc, WriterCreates, WriterRejected,
        WriterErrs, WriterPublish, PumpStart, PumpRead, PumpReadFails, PumpEmpty,
        leaseVars
<1>2. ASSUME NEW m \in Manager,
             PumpAdd(m) \/ PumpExit(m) \/ PumpTimer(m) \/ PumpPersists(m)
             \/ PumpRejected(m) \/ PumpPersistErrs(m) \/ Stop(m) \/ StopPersist(m)
             \/ UpdatePartitionConfig(m)
      PROVE  UNCHANGED <<seen>>
  BY <1>2 DEF PumpAdd, PumpExit, PumpTimer, PumpPersists, PumpRejected,
        PumpPersistErrs, Stop, StopPersist, UpdatePartitionConfig, leaseVars
<1>3. ASSUME NEW m \in Manager, NEW p \in Payload,
             SyncMatch(m, p) \/ AddTask(m, p) \/ AddTaskReturns(m, p)
      PROVE  UNCHANGED <<seen>>
  BY <1>3 DEF SyncMatch, AddTask, AddTaskReturns, leaseVars
<1>4. ASSUME NEW m \in Manager, NEW row \in Held(m),
             Dispatch(m, row) \/ DispatchExpired(m, row) \/ RecordStarted(m, row)
             \/ FinishOK(m, row) \/ FinishErr(m, row) \/ RewriteOK(m, row)
             \/ RewriteRetry(m, row) \/ RewriteGivesUp(m, row)
      PROVE  UNCHANGED <<seen>>
  BY <1>4 DEF Dispatch, DispatchExpired, RecordStarted, FinishOK, FinishErr,
        RewriteOK, RewriteRetry, RewriteGivesUp, leaseVars
<1>5. ASSUME NEW m \in Manager, NEW level \in gcReq[m],
             GCDelete(m, level) \/ GCSkip(m, level)
      PROVE  UNCHANGED <<seen>>
  BY <1>5 DEF GCDelete, GCSkip, leaseVars
<1>6. ASSUME NEW p \in Payload,
             AddTaskGivesUp(p) \/ Expire(p)
      PROVE  UNCHANGED <<seen>>
  BY <1>6 DEF AddTaskGivesUp, Expire, leaseVars
<1>7. ASSUME NEW row \in store.tasks,
             TimeToLive(row)
      PROVE  UNCHANGED <<seen>>
  BY <1>7 DEF TimeToLive, leaseVars
<1>8. ASSUME NEW w \in late,
             LateWrite(w)
      PROVE  UNCHANGED <<seen>>
  BY <1>8 DEF LateWrite, leaseVars
<1>9. CASE UNCHANGED vars
  BY <1>9 DEF vars, leaseVars
<1> QED BY <1>1, <1>2, <1>3, <1>4, <1>5, <1>6, <1>7, <1>8, <1>9
        DEF Next, Work, Disturbance, Load, Writer, Pump, Deliver, Collect, WatchForStop

\* A lease in progress has read the current row of the task list, or is over.
LEMMA SeenEffects ==
  ASSUME TypeInv, [Next]_vars, NEW n \in Manager
  PROVE  \/ seen'[n] = seen[n]
         \/ seen'[n] = NothingSeen
         \/ /\ seen'[n] = [rangeID |-> store.rangeID, ackLevel |-> store.ackLevel]
            /\ UNCHANGED store
<1>t. DOMAIN seen = Manager
  BY DEF TypeInv, TypeOK, LeaseOK
<1>1. ASSUME NEW m \in Manager,
             LeaseWrite(m) \/ LeaseLost(m) \/ LeaseFails(m) \/ RenewWrite(m)
             \/ RenewFails(m) \/ RenewLost(m)
      PROVE  seen'[n] = seen[n] \/ seen'[n] = NothingSeen
  <2>1. seen' = [seen EXCEPT ![m] = NothingSeen]
    BY <1>1 DEF LeaseWrite, LeaseLost, LeaseFails, RenewWrite, RenewFails, RenewLost,
        GiveUpLease
  <2> QED BY <2>1, <1>t
<1>2. ASSUME NEW m \in Manager, LeaseRead(m) \/ RenewRead(m)
      PROVE  \/ seen'[n] = seen[n]
             \/ /\ seen'[n] = [rangeID |-> store.rangeID, ackLevel |-> store.ackLevel]
                /\ UNCHANGED store
  <2>1. /\ UNCHANGED store
        /\ seen' = [seen EXCEPT ![m] = [rangeID |-> store.rangeID, ackLevel |-> store.ackLevel]]
    BY <1>2 DEF LeaseRead, RenewRead, storeVars
  <2> QED BY <2>1, <1>t
<1>3. CASE UNCHANGED <<seen>>
  BY <1>3
<1> QED BY SeenChanges, <1>1, <1>2, <1>3

\* The six ways in which the store changes.
Granted(m) ==
  /\ LeaseApplies(store, seen[m])
  /\ store'.rangeID = store.rangeID + 1 /\ store'.ackLevel = seen[m].ackLevel
  /\ store'.tasks = store.tasks

Persisted(m) ==
  /\ Alive(m) /\ Owns(store, lease[m])
  /\ store'.rangeID = store.rangeID /\ store'.ackLevel \in {dbAck[m], pval[m], sval[m]}
  /\ store'.tasks = store.tasks

Created(rows) ==
  /\ store'.rangeID = store.rangeID /\ store'.ackLevel = store.ackLevel
  /\ store'.tasks = {t \in store.tasks : \A r \in rows : r.id # t.id} \cup rows

Deleted(level) ==
  /\ store'.rangeID = store.rangeID /\ store'.ackLevel = store.ackLevel
  /\ store'.tasks = {t \in store.tasks : t.id > level}

Dropped(row) ==
  /\ row.p \in expired
  /\ store'.rangeID = store.rangeID /\ store'.ackLevel = store.ackLevel
  /\ store'.tasks = store.tasks \ {row}

\* Every step of the system is one of these for the store.
LEMMA StoreEffects ==
  ASSUME TypeInv, [Next]_vars
  PROVE  \/ UNCHANGED store
         \/ \E m \in Manager : Granted(m) \/ Persisted(m)
         \/ \E m \in Manager : WriterCreates(m) /\ Created(BatchRows(m))
         \/ \E w \in late : LateWrite(w) /\ Created(w.rows)
         \/ \E m \in Manager : \E level \in gcReq[m] : Deleted(level)
         \/ \E row \in store.tasks : Dropped(row)
<1>a. store \in Stores /\ \A m \in Manager : seen[m] \in [rangeID : Nat, ackLevel : Nat]
  BY TypeElements
<1>1. ASSUME NEW m \in Manager, LeaseWrite(m) \/ LeaseLost(m) \/ RenewWrite(m) \/ RenewLost(m)
      PROVE  Granted(m)
  <2>1. store' = LeaseTaskList(store, seen[m]) /\ LeaseApplies(store, seen[m])
    BY <1>1 DEF LeaseWrite, LeaseLost, RenewWrite, RenewLost
  <2> QED BY <1>a, <2>1 DEF LeaseTaskList, LeaseApplies, Stores, Granted
<1>2. ASSUME NEW m \in Manager, WriterCreates(m) PROVE Created(BatchRows(m))
  <2>1. store' = CreateTasks(store, BatchRows(m))
    BY <1>2 DEF WriterCreates
  <2> QED BY <1>a, <2>1 DEF CreateTasks, Stores, Created
<1>3. ASSUME NEW w \in late, LateWrite(w) PROVE Created(w.rows)
  <2>1. store' = CreateTasks(store, w.rows)
    BY <1>3 DEF LateWrite
  <2> QED BY <1>a, <2>1 DEF CreateTasks, Stores, Created
<1>4. ASSUME NEW m \in Manager, PumpPersists(m) \/ StopPersist(m) \/ UpdatePartitionConfig(m)
      PROVE  UNCHANGED store \/ Persisted(m)
  <2>1. CASE UNCHANGED store
    BY <2>1
  <2>2. CASE store' # store
    <3>1. /\ Alive(m) /\ Owns(store, lease[m])
          /\ \E level \in {dbAck[m], pval[m], sval[m]} : store' = UpdateTaskList(store, level)
      BY <1>4, <2>2 DEF PumpPersists, StopPersist, UpdatePartitionConfig, Alive
    <3> QED BY <1>a, <3>1 DEF UpdateTaskList, Stores, Persisted
  <2> QED BY <2>1, <2>2
<1>5. ASSUME NEW m \in Manager, NEW level \in gcReq[m], GCDelete(m, level) PROVE Deleted(level)
  <2>1. store' = CompleteTasksLessThan(store, level)
    BY <1>5 DEF GCDelete
  <2> QED BY <1>a, <2>1 DEF CompleteTasksLessThan, Stores, Deleted
<1>6. ASSUME NEW row \in store.tasks, TimeToLive(row) PROVE Dropped(row)
  <2>1. store' = DropRow(store, row) /\ row.p \in expired
    BY <1>6 DEF TimeToLive
  <2> QED BY <1>a, <2>1 DEF DropRow, Stores, Dropped
<1>7. CASE UNCHANGED <<store>>
  BY <1>7
<1> QED BY StoreChanges, <1>1, <1>2, <1>3, <1>4, <1>5, <1>6, <1>7
-----------------------------------------------------------------------------
\* The levels that a step gives a manager are at or below its read level limit.
LEMMA PumpLevelsStep ==
  ASSUME TypeInv, OrderInv, RenewInv, WriterInv, LevelInv, [Next]_vars, NEW n \in Manager
  PROVE  /\ ack'[n].readLevel <= maxRead'[n]
         /\ cursor'[n] <= maxRead'[n] /\ pmax'[n] <= maxRead'[n]
         /\ \A t \in batch'[n] : t.id <= maxRead'[n]
<1> DEFINE Fine == /\ ack'[n].readLevel <= maxRead'[n]
                   /\ cursor'[n] <= maxRead'[n] /\ pmax'[n] <= maxRead'[n]
                   /\ \A t \in batch'[n] : t.id <= maxRead'[n]
<1>t. /\ maxRead[n] \in Nat /\ maxRead'[n] \in Nat /\ maxRead[n] <= maxRead'[n]
      /\ cursor[n] \in Nat /\ pmax[n] \in Nat
  BY MaxReadStep DEF TypeInv, TypeOK, PumpOK, WriterOK
<1>a. ack[n] \in AckManagers
  BY TypeElements
<1>b. \A t \in batch[n] : t.id \in Nat
  BY SMTT(30) DEF TypeInv, TypeOK, PumpOK, Rows
<1>u. ack[n].readLevel \in Int
  BY <1>a, Whole DEF AckManagers, Levels
<1>l. /\ ack[n].readLevel <= maxRead[n] /\ cursor[n] <= maxRead[n] /\ pmax[n] <= maxRead[n]
      /\ \A t \in batch[n] : t.id <= maxRead[n]
  BY DEF LevelInv, LevelsOf
<1>m. /\ ack[n].readLevel <= maxRead'[n] /\ cursor[n] <= maxRead'[n] /\ pmax[n] <= maxRead'[n]
      /\ \A t \in batch[n] : t.id <= maxRead'[n]
  <2>1. /\ ack[n].readLevel <= maxRead'[n] /\ cursor[n] <= maxRead'[n] /\ pmax[n] <= maxRead'[n]
    BY <1>t, <1>u, <1>l, Chain, Whole
  <2>2. \A t \in batch[n] : t.id <= maxRead'[n]
    BY <1>b, <1>t, <1>l, Chain, Whole
  <2> QED BY <2>1, <2>2
<1>1. ASSUME PumpStill(n), ack'[n].readLevel = ack[n].readLevel PROVE Fine
  BY <1>1, <1>m DEF PumpStill
<1>2. ASSUME LeaseWrite(n), PumpStill(n), ack'[n] = SetAckLevel(ack[n], seen[n].ackLevel)
      PROVE  Fine
  <2>1. seen[n].ackLevel \in Nat /\ seen[n].rangeID = store.rangeID /\ store.rangeID \in Nat
    BY <1>2, TypeElements, GrantEffects DEF Stores
  <2>2. seen[n].ackLevel <= BlockEnd(store.rangeID)
    BY <2>1 DEF LevelInv, SeenOf
  <2>3. maxRead' = [maxRead EXCEPT ![n] = BlockEnd(store.rangeID)] /\ maxRead \in [Manager -> Nat]
    BY <1>2, GrantEffects DEF TypeInv, TypeOK, WriterOK
  <2>4. maxRead'[n] = BlockEnd(store.rangeID)
    BY <2>3
  <2>5. ack'[n].readLevel = IF seen[n].ackLevel > ack[n].readLevel
                            THEN seen[n].ackLevel ELSE ack[n].readLevel
    <3>1. ack'[n] = SetAckLevel(ack[n], seen[n].ackLevel) /\ seen[n].ackLevel \in Nat
      BY <1>2, <2>1
    <3> QED BY SMTT(30), <3>1, <1>a, SetAckLevelFacts
  <2>6. ack'[n].readLevel <= maxRead'[n]
    <3> HIDE DEF BlockEnd
    <3> QED BY <2>2, <2>4, <2>5, <1>m
  <2> QED BY <1>2, <2>6, <1>m DEF PumpStill
<1>3. ASSUME StartsRead(n) PROVE Fine
  <2>1. maxRead[n] <= maxRead'[n]
    BY <1>t
  <2> QED BY <1>3, <1>m, <2>1 DEF StartsRead
<1>4. Upper(n) \in Nat /\ Upper(n) <= maxRead'[n]
  BY SMTT(30), <1>m, <1>t, TaskListAssumption DEF Upper, Min2
<1>5. ASSUME FindsNothing(n) PROVE Fine
  BY <1>5, <1>4, <1>m DEF FindsNothing
<1>6. ASSUME FindsRows(n) PROVE Fine
  <2>1. \A t \in RowsRead(n) : t.id \in Nat /\ t.id <= Upper(n)
    BY TypeElements DEF RowsRead, GetTasks, Window, Stores, Rows
  <2>2. \A t \in RowsRead(n) : t.id <= maxRead'[n]
    BY <2>1, <1>4, <1>t, Chain, Whole
  <2>3. 0 <= maxRead'[n]
    BY <1>t, Whole
  <2> QED BY <1>6, <2>2, <2>3, <1>m DEF FindsRows
<1>7. ASSUME GivesUpRead(n) PROVE Fine
  <2>1. ack[n].readLevel <= cursor[n] /\ AckOrder(ack[n])
    BY <1>7 DEF GivesUpRead, OrderInv, OrderOf
  <2>2. ack'[n].readLevel = cursor[n]
    BY <2>1, <1>7, <1>a, <1>t, AfterEmptyReadFacts DEF GivesUpRead
  <2>3. 0 <= maxRead'[n]
    BY <1>t, Whole
  <2> QED BY <1>7, <2>2, <2>3, <1>m DEF GivesUpRead
<1>8. ASSUME Rests(n) PROVE Fine
  <2>1. 0 <= maxRead'[n]
    BY <1>t, Whole
  <2> QED BY <1>8, <2>1, <1>m DEF Rests
<1>9. ASSUME NEW row \in batch[n], AddsRow(n, row) PROVE Fine
  <2>1. row.id <= maxRead'[n] /\ row.id \in Nat
    BY <1>m, <1>b
  <2>2. ack'[n].readLevel = row.id \/ ack'[n].readLevel = ack[n].readLevel
    <3>1. CASE ack'[n] = SetReadLevel(ack[n], row.id)
      BY <3>1, <2>1, <1>a, SetReadLevelFacts
    <3>2. CASE ack'[n] = ReadItem(ack[n], row.id)
      BY <3>2, <2>1, <1>a, ReadItemFacts
    <3> QED BY <1>9, <3>1, <3>2 DEF AddsRow
  <2>3. ack'[n].readLevel <= maxRead'[n]
    BY <2>1, <2>2, <1>m
  <2> QED BY <1>9, <2>3, <1>m DEF AddsRow
<1>10. ASSUME NEW row \in Held(n), CompletesRow(n, row) PROVE Fine
  <2>1. row.id \in Nat
    BY TypeElements DEF Rows
  <2>2. PumpStill(n) /\ ack'[n] = AckItem(ack[n], row.id)
    BY <1>10 DEF CompletesRow
  <2>3. ack'[n].readLevel = ack[n].readLevel
    BY <2>1, <2>2, <1>a, AckItemFacts
  <2> QED BY <2>2, <2>3, <1>1
<1>11. Fine
  <2> HIDE DEF Fine
  <2> QED BY PumpEffects, <1>1, <1>2, <1>3, <1>5, <1>6, <1>7, <1>8, <1>9, <1>10
<1> QED BY <1>11

\* The types that the levels keep.
LEMMA LevelTypes ==
  ASSUME TypeInv, NEW n \in Manager
  PROVE  /\ maxRead[n] \in Nat /\ dbAck[n] \in Nat /\ pval[n] \in Nat /\ sval[n] \in Nat
         /\ gcReq[n] \in SUBSET Nat /\ ack[n].ackLevel \in Int /\ ack[n].readLevel \in Int
         /\ ack[n].unacked \in SUBSET Nat /\ last[n] \in Nat /\ lease[n] \in Nat
<1>1. ack[n] \in AckManagers
  BY TypeElements
<1>2. /\ ack[n].ackLevel \in Int /\ ack[n].readLevel \in Int /\ ack[n].unacked \in SUBSET Nat
  BY <1>1, Whole DEF AckManagers, Levels
<1> QED BY <1>2 DEF TypeInv, TypeOK, LeaseOK, WriterOK, PumpOK, StopOK, GCOK

\* The levels that are remembered or requested stay at or below the limit.
LEMMA SavedLevelsStep ==
  ASSUME TypeInv, TypeInv', OrderInv, OrderInv', RenewInv, WriterInv, LevelInv, [Next]_vars,
         NEW n \in Manager
  PROVE  /\ dbAck'[n] <= maxRead'[n] /\ pval'[n] <= maxRead'[n] /\ sval'[n] <= maxRead'[n]
         /\ \A level \in gcReq'[n] : level <= maxRead'[n]
<1>t. /\ maxRead[n] \in Nat /\ dbAck[n] \in Nat /\ pval[n] \in Nat /\ sval[n] \in Nat
      /\ gcReq[n] \in SUBSET Nat /\ ack[n].ackLevel \in Int /\ ack[n].readLevel \in Int
  BY LevelTypes
<1>u. ack'[n].ackLevel \in Int /\ ack'[n].readLevel \in Int
  <2>1. ack'[n] \in AckManagers
    BY DEF TypeInv, TypeOK, TasksOK
  <2> QED BY <2>1, Whole DEF AckManagers, Levels
<1>m. maxRead'[n] \in Nat /\ maxRead[n] <= maxRead'[n]
  BY MaxReadStep
<1>l. /\ dbAck[n] <= maxRead[n] /\ pval[n] <= maxRead[n] /\ sval[n] <= maxRead[n]
      /\ \A level \in gcReq[n] : level <= maxRead[n]
      /\ ack[n].readLevel <= maxRead[n] /\ ack[n].ackLevel <= ack[n].readLevel
  BY DEF LevelInv, LevelsOf, OrderInv, OrderOf, AckOrder
<1>1. /\ dbAck[n] <= maxRead'[n] /\ pval[n] <= maxRead'[n] /\ sval[n] <= maxRead'[n]
      /\ \A level \in gcReq[n] : level <= maxRead'[n]
      /\ ack[n].ackLevel <= maxRead'[n] /\ 0 <= maxRead'[n]
  BY SMTT(30), <1>t, <1>m, <1>l
<1>2. ack'[n].ackLevel <= maxRead'[n]
  <2>1. ack'[n].ackLevel <= ack'[n].readLevel /\ ack'[n].readLevel <= maxRead'[n]
    BY PumpLevelsStep DEF OrderInv, OrderOf, AckOrder
  <2> QED BY <2>1, <1>u, <1>m, Chain, Whole
<1>3. ASSUME LeaseWrite(n) \/ RenewWrite(n) PROVE seen[n].ackLevel <= maxRead'[n]
  <2>1. seen[n].ackLevel \in Nat /\ seen[n].rangeID = store.rangeID /\ store.rangeID \in Nat
    BY <1>3, TypeElements, GrantEffects DEF Stores
  <2>2. CASE LeaseWrite(n)
    <3>1. seen[n].ackLevel <= BlockEnd(store.rangeID)
      BY <2>1 DEF LevelInv, SeenOf
    <3>2. maxRead' = [maxRead EXCEPT ![n] = BlockEnd(store.rangeID)] /\ maxRead \in [Manager -> Nat]
      BY <2>2, GrantEffects DEF TypeInv, TypeOK, WriterOK
    <3>3. maxRead'[n] = BlockEnd(store.rangeID)
      BY <3>2
    <3> QED BY <3>1, <3>3
  <2>3. CASE RenewWrite(n)
    <3>1. Alive(n) /\ Owns(store, lease[n]) /\ LeaseApplies(store, seen[n])
      BY <2>3, GrantEffects
    <3>2. seen[n].ackLevel <= maxRead[n]
      BY <3>1 DEF LevelInv, Covers
    <3> QED BY <3>2, <2>1, <1>t, <1>m, Chain, Whole
  <2> QED BY <1>3, <2>2, <2>3
<1>4. dbAck'[n] <= maxRead'[n]
  BY SavedEffects, <1>1, <1>3
<1>5. pval'[n] <= maxRead'[n] /\ sval'[n] <= maxRead'[n]
  BY SavedEffects, <1>1
<1>6. \A level \in gcReq'[n] : level <= maxRead'[n]
  BY SavedEffects, <1>1, <1>2
<1> QED BY <1>4, <1>5, <1>6

\* What leases have read is at or below the blocks that were leased before.
LEMMA SeenStep ==
  ASSUME TypeInv, WriterInv, LevelInv, [Next]_vars
  PROVE  /\ store'.ackLevel <= BlockEnd(store'.rangeID)
         /\ \A n \in Manager : SeenOf(n)'
<1>t. store.rangeID \in Nat /\ store.ackLevel \in Nat
  BY TypeElements DEF Stores
<1>r. store'.rangeID \in Nat /\ store.rangeID <= store'.rangeID
  BY RangeStep
<1>b. /\ BlockEnd(store.rangeID) \in Nat /\ BlockEnd(store'.rangeID) \in Nat
      /\ BlockEnd(store.rangeID) <= BlockEnd(store'.rangeID)
  BY <1>t, <1>r, Blocks
<1>c. BlockEnd(0) = 0
  BY NoBlock
<1> HIDE DEF BlockEnd, BlockStart
<1>1. store'.ackLevel <= BlockEnd(store'.rangeID)
  <2>1. store.ackLevel <= BlockEnd(store.rangeID)
    BY DEF LevelInv
  <2>2. CASE store'.ackLevel = store.ackLevel
    BY <2>1, <2>2, <1>t, <1>b, Chain, Whole
  <2>3. ASSUME NEW m \in Manager, Granted(m) PROVE store'.ackLevel <= BlockEnd(store'.rangeID)
    <3>1. store'.ackLevel = seen[m].ackLevel /\ seen[m].rangeID = store.rangeID
      BY <2>3 DEF Granted, LeaseApplies
    <3>2. seen[m].ackLevel <= BlockEnd(store.rangeID) /\ seen[m].ackLevel \in Nat
      BY <3>1, TypeElements DEF LevelInv, SeenOf
    <3> QED BY <3>1, <3>2, <1>b, Chain, Whole
  <2>4. ASSUME NEW m \in Manager, Persisted(m) PROVE store'.ackLevel <= BlockEnd(store'.rangeID)
    <3>1. /\ dbAck[m] <= maxRead[m] /\ pval[m] <= maxRead[m] /\ sval[m] <= maxRead[m]
          /\ maxRead[m] <= last[m] /\ last[m] <= BlockEnd(store.rangeID)
      BY DEF LevelInv, LevelsOf, WriterInv
    <3>2. /\ maxRead[m] \in Nat /\ dbAck[m] \in Nat /\ pval[m] \in Nat /\ sval[m] \in Nat
          /\ last[m] \in Nat
      BY LevelTypes
    <3>3. store'.ackLevel \in {dbAck[m], pval[m], sval[m]}
      BY <2>4 DEF Persisted
    <3>4. maxRead[m] <= BlockEnd(store'.rangeID)
      <4>1. maxRead[m] <= BlockEnd(store.rangeID)
        BY <3>1, <3>2, <1>b, Chain, Whole
      <4> QED BY <4>1, <3>2, <1>b, Chain, Whole
    <3> QED BY <3>1, <3>2, <3>3, <3>4, <1>b, Chain, Whole
  <2> QED BY StoreEffects, <2>2, <2>3, <2>4 DEF Created, Deleted, Dropped
<1>2. ASSUME NEW n \in Manager PROVE SeenOf(n)'
  <2>1. /\ SeenOf(n) /\ seen[n].rangeID \in Nat
    BY TypeElements DEF LevelInv
  <2>2. CASE seen'[n] = seen[n]
    BY <2>1, <2>2, <1>t, <1>r, Chain, Whole DEF SeenOf
  <2>3. CASE seen'[n] = NothingSeen
    BY SMTT(30), <2>3, <1>r, <1>c DEF SeenOf, NothingSeen
  <2>4. CASE seen'[n] = [rangeID |-> store.rangeID, ackLevel |-> store.ackLevel] /\ UNCHANGED store
    <3>1. store.ackLevel <= BlockEnd(store.rangeID)
      BY DEF LevelInv
    <3> QED BY SMTT(30), <2>4, <3>1, <1>t DEF SeenOf
  <2> QED BY SeenEffects, <2>2, <2>3, <2>4
<1> QED BY <1>1, <1>2

\* The owner's read level limit covers the persisted ack level, and what the
\* leases in progress have read of it.
LEMMA CoversStep ==
  ASSUME TypeInv, TypeInv', LeaseInv, RenewInv, WriterInv, LevelInv, [Next]_vars,
         NEW m \in Manager, Alive(m)', Owns(store, lease[m])',
         \A n \in Manager : dbAck'[n] <= maxRead'[n]
  PROVE  Covers(m)'
<1>t. store.rangeID \in Nat /\ store.ackLevel \in Nat /\ maxRead[m] \in Nat /\ lease[m] \in Nat
  BY TypeElements, LevelTypes DEF Stores
<1>r. store'.rangeID \in Nat /\ store.rangeID <= store'.rangeID
  BY RangeStep
<1>m. maxRead'[m] \in Nat /\ maxRead[m] <= maxRead'[m]
  BY MaxReadStep
<1>1. CASE store'.rangeID = store.rangeID
  <2>1. Alive(m) /\ lease'[m] = lease[m]
    <3>1. CASE UNCHANGED <<lease, next, last>> /\ \A n \in Manager : Alive(n)' => Alive(n)
      BY <3>1
    <3>2. ASSUME NEW k \in Manager, WriterAlloc(k) PROVE Alive(m) /\ lease'[m] = lease[m]
      BY <3>2, AllocEffects
    <3>3. ASSUME NEW k \in Manager, NewLease(k) PROVE FALSE
      <4>1. store'.rangeID = store.rangeID + 1
        BY <3>3 DEF NewLease
      <4> QED BY <4>1, <1>1, <1>t, Order, Chain, Whole
    <3> QED BY LeaseEffects, <3>1, <3>2, <3>3
  <2>2. Owns(store, lease[m])
    BY <1>1, <2>1 DEF Owns
  <2>3. Covers(m)
    BY <2>1, <2>2 DEF LevelInv
  <2>4. store'.ackLevel <= maxRead'[m]
    <3>1. CASE store'.ackLevel = store.ackLevel
      BY <3>1, <2>3, <1>t, <1>m, Chain, Whole DEF Covers
    <3>2. ASSUME NEW k \in Manager, Persisted(k) PROVE store'.ackLevel <= maxRead'[m]
      <4>1. k = m
        BY <3>2, <2>1, <2>2 DEF Persisted, LeaseInv, Owns
      <4>2. /\ dbAck[m] <= maxRead[m] /\ pval[m] <= maxRead[m] /\ sval[m] <= maxRead[m]
            /\ dbAck[m] \in Nat /\ pval[m] \in Nat /\ sval[m] \in Nat
        BY LevelTypes DEF LevelInv, LevelsOf
      <4>3. store'.ackLevel \in {dbAck[m], pval[m], sval[m]}
        BY <3>2, <4>1 DEF Persisted
      <4> QED BY <4>2, <4>3, <1>t, <1>m, Chain, Whole
    <3>3. ASSUME NEW k \in Manager, Granted(k) PROVE FALSE
      <4>1. store'.rangeID = store.rangeID + 1
        BY <3>3 DEF Granted
      <4> QED BY <4>1, <1>1, <1>t, Order, Chain, Whole
    <3> QED BY StoreEffects, <3>1, <3>2, <3>3 DEF Created, Deleted, Dropped
  <2>5. ASSUME NEW n \in Manager, LeaseApplies(store, seen[n])' PROVE seen'[n].ackLevel <= maxRead'[m]
    <3>1. seen[n].ackLevel \in Nat
      BY TypeElements
    <3>2. CASE seen'[n] = seen[n]
      <4>1. LeaseApplies(store, seen[n])
        BY <3>2, <2>5, <1>1 DEF LeaseApplies
      <4>2. seen[n].ackLevel <= maxRead[m]
        BY <4>1, <2>3 DEF Covers
      <4>3. maxRead[m] \in Nat
        BY LevelTypes
      <4>4. seen[n].ackLevel <= maxRead'[m]
        BY <3>1, <4>2, <4>3, <1>m, Chain, Whole
      <4> QED BY <3>2, <4>4
    <3>3. CASE seen'[n] = NothingSeen
      <4>1. NothingSeen.ackLevel = 0
        BY DEF NothingSeen
      <4> QED BY <3>3, <4>1, <1>m, Whole
    <3>4. CASE seen'[n] = [rangeID |-> store.rangeID, ackLevel |-> store.ackLevel]
      <4>1. [rangeID |-> store.rangeID, ackLevel |-> store.ackLevel].ackLevel = store.ackLevel
        OBVIOUS
      <4>2. maxRead[m] \in Nat /\ store.ackLevel \in Nat /\ store.ackLevel <= maxRead[m]
        BY <2>3, LevelTypes, FieldTypes DEF Covers
      <4>3. store.ackLevel <= maxRead'[m]
        BY <4>2, <1>m, Chain, Whole
      <4> QED BY <3>4, <4>1, <4>3
    <3> QED BY SeenEffects, <3>2, <3>3, <3>4
  <2> QED BY <2>4, <2>5 DEF Covers
<1>2. CASE store'.rangeID # store.rangeID
  <2>1. PICK k \in Manager : Granted(k)
    BY StoreEffects, <1>2 DEF Persisted, Created, Deleted, Dropped
  <2>2. store'.rangeID = store.rangeID + 1 /\ store'.ackLevel = seen[k].ackLevel
    BY <2>1 DEF Granted
  <2>3. LeaseWrite(m) \/ RenewWrite(m)
    <3>1. ASSUME UNCHANGED lease, Alive(m)' => Alive(m) PROVE FALSE
      <4>1. lease[m] <= store.rangeID
        BY <3>1 DEF LeaseInv, LeaseOf
      <4>2. lease[m] = store'.rangeID
        BY <3>1 DEF Owns
      <4> QED BY <4>1, <4>2, <2>2, <1>t, Successor
    <3>2. ASSUME NEW j \in Manager, j # m, LeaseWrite(j) \/ RenewWrite(j) PROVE FALSE
      <4>1. lease'[m] = lease[m] /\ (Alive(m)' => Alive(m))
        BY <3>2, WriterOthers, WriterActors DEF Alive
      <4>2. lease[m] <= store.rangeID
        BY <4>1 DEF LeaseInv, LeaseOf
      <4>3. lease[m] = store'.rangeID
        BY <4>1 DEF Owns
      <4> QED BY <4>2, <4>3, <2>2, <1>t, Successor
    <3>3. ASSUME NEW j \in Manager, WriterAlloc(j) \/ WriterPublish(j)
          PROVE  UNCHANGED lease /\ (Alive(m)' => Alive(m))
      BY <3>3 DEF WriterAlloc, WriterPublish, leaseVars, Alive
    <3>4. ASSUME WriterCalm PROVE UNCHANGED lease /\ (Alive(m)' => Alive(m))
      BY <3>4 DEF WriterCalm
    <3> QED BY WriterCases, <3>1, <3>2, <3>3, <3>4
  <2>4. store'.ackLevel = dbAck'[m]
    <3>1. dbAck' = [dbAck EXCEPT ![m] = seen[m].ackLevel]
      BY <2>3 DEF LeaseWrite, RenewWrite
    <3>2. store'.ackLevel = seen[m].ackLevel
      BY <2>3, GrantEffects
    <3> QED BY <3>1, <3>2 DEF TypeInv, TypeOK, LeaseOK
  <2>5. store'.ackLevel <= maxRead'[m]
    BY <2>4
  <2>6. ASSUME NEW n \in Manager, LeaseApplies(store, seen[n])' PROVE FALSE
    <3>1. seen[n].rangeID <= store.rangeID /\ seen[n].rangeID \in Nat
      BY TypeElements DEF LevelInv, SeenOf
    <3>2. seen'[n].rangeID = store.rangeID + 1
      BY <2>6, <2>2 DEF LeaseApplies
    <3>3. CASE seen'[n] = seen[n]
      <4>1. seen[n].rangeID = store.rangeID + 1
        BY <3>2, <3>3
      <4> QED BY <3>1, <4>1, <1>t, Successor
    <3>4. CASE seen'[n] = NothingSeen
      <4>1. NothingSeen.rangeID = 0
        BY DEF NothingSeen
      <4>2. 0 = store.rangeID + 1
        BY <3>2, <3>4, <4>1
      <4> QED BY <4>2, <1>t, Successor
    <3>5. ~UNCHANGED store
      BY <1>2
    <3> QED BY SeenEffects, <3>3, <3>4, <3>5
  <2> QED BY <2>5, <2>6 DEF Covers
<1> QED BY <1>1, <1>2

\* Layer 6 is inductive.
LEMMA LevelStep ==
  ASSUME TypeInv, TypeInv', LeaseInv, OrderInv, OrderInv', RenewInv, WriterInv, LevelInv,
         [Next]_vars
  PROVE  LevelInv'
<1>1. ASSUME NEW n \in Manager PROVE LevelsOf(n)'
  BY PumpLevelsStep, SavedLevelsStep DEF LevelsOf
<1>2. \A n \in Manager : dbAck'[n] <= maxRead'[n]
  BY <1>1 DEF LevelsOf
<1>3. \A m \in Manager : (Alive(m) /\ Owns(store, lease[m]))' => Covers(m)'
  BY CoversStep, <1>2
<1> QED BY SeenStep, <1>1, <1>3 DEF LevelInv
=============================================================================
