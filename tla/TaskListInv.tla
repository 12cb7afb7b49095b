---------------------------- MODULE TaskListInv ----------------------------
(***************************************************************************)
(* The inductive invariant behind the theorems about TaskList, in the      *)
(* layers in which it is proved: each layer is inductive given the ones    *)
(* before it.                                                              *)
(***************************************************************************)
EXTENDS TaskList

\* Layer 1.  The levels of an ack manager are natural numbers from the moment
\* the task list is loaded, and the batch of the writer has a highest ID.
WriterShape(m) ==
  /\ \E b \in Nat : \A a \in walloc[m] : a.id <= b
  /\ wpc[m] = "idle" => wpend[m] = {} /\ walloc[m] = {}
  /\ wpc[m] = "alloc" => wpend[m] \cup walloc[m] # {}
  /\ wpc[m] = "renew" => wpend[m] # {}
  /\ wpc[m] = "publish" => wpend[m] = {} /\ walloc[m] # {}

LevelsSet(m) == Alive(m) => ack[m].ackLevel \in Nat /\ ack[m].readLevel \in Nat

TypeInv == TypeOK /\ \A m \in Manager : WriterShape(m) /\ LevelsSet(m)

\* Layer 2.  No two managers hold the same lease, and a manager hands out the
\* task IDs of the block of its lease.
LeaseOf(m) ==
  /\ 1 <= lease[m] /\ lease[m] <= store.rangeID
  /\ last[m] = BlockEnd(lease[m])
  /\ BlockStart(lease[m]) <= next[m] /\ next[m] <= last[m] + 1

LeaseInv ==
  /\ \A m \in Manager : Alive(m) => LeaseOf(m)
  /\ \A m, n \in Manager : Alive(m) /\ Alive(n) /\ lease[m] = lease[n] => m = n

\* Layer 3.  A task ID that was used is in no block's unused part, and IDs
\* name rows uniquely.
Unused(m, id) == next[m] <= id /\ id <= last[m]

IDsSpent ==
  \A r \in KnownRows :
    /\ r.id <= BlockEnd(store.rangeID)
    /\ \A m \in Manager : Alive(m) => ~Unused(m, r.id)

RowInv == TaskIDsUnique /\ IDsSpent

\* Layer 4.  The pump reads forward: what it is about to read lies above the
\* read level, and the ack manager's items lie between its levels.
OrderOf(m) ==
  /\ ~Alive(m) => ack[m] = NewAckManager /\ ppc[m] = "idle"
  /\ AckOrder(ack[m])
  /\ ppc[m] = "read" => ack[m].readLevel <= cursor[m]
  /\ ppc[m] # "add" => batch[m] = {}
  /\ \A t \in batch[m] : ack[m].readLevel < t.id

OrderInv == \A m \in Manager : OrderOf(m)

\* Layer 5.  A manager renews the lease it holds.  The writer's batch has IDs
\* above the read level limit, and the owner's IDs are above the block of every
\* other manager.
RenewOf(m) ==
  /\ ~Alive(m) => wpc[m] = "idle"
  /\ wpc[m] = "renew" => seen[m].rangeID = lease[m]

RenewInv == \A m \in Manager : RenewOf(m)

BatchOf(m) ==
  /\ maxRead[m] < next[m]
  /\ \A a \in walloc[m] : maxRead[m] < a.id /\ a.id < next[m]

Above(m, n) == last[n] < next[m] /\ \A a \in walloc[m] : last[n] < a.id

WriterInv ==
  /\ \A m \in Manager : /\ maxRead[m] <= last[m] /\ last[m] <= BlockEnd(store.rangeID)
                        /\ Alive(m) => BatchOf(m)
  /\ \A m, n \in Manager : Alive(m) /\ Owns(store, lease[m]) /\ m # n => Above(m, n)

\* Layer 6.  Every level of a manager is at or below its read level limit, and
\* the persisted ack level is at or below the owner's.
LevelsOf(m) ==
  /\ ack[m].readLevel <= maxRead[m]
  /\ dbAck[m] <= maxRead[m] /\ pval[m] <= maxRead[m] /\ sval[m] <= maxRead[m]
  /\ \A level \in gcReq[m] : level <= maxRead[m]
  /\ cursor[m] <= maxRead[m] /\ pmax[m] <= maxRead[m]
  /\ \A t \in batch[m] : t.id <= maxRead[m]

SeenOf(m) ==
  /\ seen[m].rangeID <= store.rangeID
  /\ seen[m].ackLevel <= BlockEnd(seen[m].rangeID)

Covers(m) ==
  /\ store.ackLevel <= maxRead[m]
  /\ \A n \in Manager : LeaseApplies(store, seen[n]) => seen[n].ackLevel <= maxRead[m]

LevelInv ==
  /\ store.ackLevel <= BlockEnd(store.rangeID)
  /\ \A m \in Manager : /\ LevelsOf(m) /\ SeenOf(m)
                        /\ Alive(m) /\ Owns(store, lease[m]) => Covers(m)

\* Layer 7.  The row a request replaces is at or below the read level limit.
ReadInv ==
  \A m \in Manager :
    /\ \A row \in Held(m) : row.id <= maxRead[m]
    /\ \A req \in appendCh[m] \cup wpend[m] : req.old <= maxRead[m]
    /\ \A a \in walloc[m] : a.old <= maxRead[m]

\* Layer 8.  There are finitely many rows.
FiniteInv ==
  /\ IsFiniteSet(store.tasks) /\ \A w \in late : IsFiniteSet(w.rows)
  /\ \A m \in Manager : IsFiniteSet(walloc[m])

\* Layer 9.  A row is safe if no manager has acknowledged it or read past it,
\* or will.  Whenever a caller was told, or is about to be told, that its task
\* is written, the task is settled or has a safe row, later than the row it
\* replaces.
SafeFrom(m, row) ==
  /\ row.id > ack[m].ackLevel
  /\ row.id > ack[m].readLevel \/ row.id \in ack[m].unacked
  /\ row.id > dbAck[m] /\ row.id > pval[m] /\ row.id > sval[m]
  /\ \A level \in gcReq[m] : row.id > level
  /\ LeaseApplies(store, seen[m]) => row.id > seen[m].ackLevel
  /\ ppc[m] = "read" => row.id > cursor[m] \/ row.id \in ack[m].unacked
  /\ row.id > ack[m].readLevel => row \in batch[m] \/ \A t \in batch[m] : t.id < row.id

Safe(row) ==
  /\ row \in store.tasks /\ row.id > store.ackLevel
  /\ \A m \in Manager : SafeFrom(m, row)

Kept(p, old) ==
  Settled(p) \/ \E row \in store.tasks : row.p = p /\ row.id > old /\ Safe(row)

KeptInv ==
  /\ \A p \in Payload : resp[p] = "ok" => Kept(p, 0)
  /\ \A m \in Manager :
       /\ \A a \in replies[m] : a.res = "ok" => Kept(a.req.p, a.req.old)
       /\ wpc[m] = "publish" /\ wres[m] = "ok" =>
            \A a \in walloc[m] : Kept(a.p, a.old)

\* Layer 10.  A row is in one place at a time, and in a manager without a fatal
\* error the rows in somebody's hands are the items that hold the ack level back.
HandOf(m) ==
  /\ ~Alive(m) => Held(m) = {}
  /\ st[m] = "running" /\ ~fatal[m] =>
       /\ ack[m].unacked = {row.id : row \in Held(m)}
       /\ buffer[m] \cap started[m] = {}
       /\ (buffer[m] \cup started[m]) \cap rewriting[m] = {}

HandInv == \A m \in Manager : HandOf(m)

IInv ==
  /\ TypeInv /\ LeaseInv /\ RowInv /\ OrderInv /\ RenewInv /\ WriterInv
  /\ LevelInv /\ ReadInv /\ FiniteInv /\ KeptInv /\ HandInv
=============================================================================
