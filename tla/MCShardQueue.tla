---------------------------- MODULE MCShardQueue ----------------------------
(***************************************************************************)
(* Instances of ShardContext and ShardQueue for TLC.  A scenario bounds    *)
(* the contexts, the range IDs, the faults and the operations of a         *)
(* behaviour.  In "lease" the contexts run alone: operations of every kind *)
(* and arbitrary updates of the queue state stand for their queues.        *)
(***************************************************************************)
EXTENDS ShardQueue, TLC

CONSTANT Scenario

Symmetry == Permutations(Context)

VARIABLES scenario, faults, operations

\* lease: renewals and thefts of the lease.  takeover: two contexts and their
\* queues.  restart: one owner after another.  closed: one owner whose writes
\* and renewals are delayed together.
Bounds ==
  CASE scenario = "lease"    -> [contexts |-> 2, ranges |-> 3, faults |-> 2, operations |-> 2, late |-> 1]
    [] scenario = "takeover" -> [contexts |-> 2, ranges |-> 2, faults |-> 1, operations |-> 1, late |-> 1]
    [] scenario = "restart"  -> [contexts |-> 1, ranges |-> 3, faults |-> 2, operations |-> 2, late |-> 1]
    [] scenario = "closed"   -> [contexts |-> 1, ranges |-> 3, faults |-> 2, operations |-> 1, late |-> 2]

Bounded ==
  /\ Cardinality({c \in Context : status'[c] # "none" \/ pc'[c] # "idle"}) <= Bounds.contexts
  /\ \A c \in Context : call'[c].next <= Bounds.ranges
  /\ Cardinality(late') <= Bounds.late

MCInit == QInit /\ scenario \in Scenario /\ faults = 0 /\ operations = 0

Alone(A) == scenario = "lease" /\ A /\ UNCHANGED <<queue, done>>
WithQueues(A) == scenario # "lease" /\ A

MCStep ==
  \/ LateStep
  \/ \E c \in Context : Alone(Step(c)) \/ WithQueues(ShardStep(c) \/ QueueStep(c))
MCFault == \E c \in Context : Alone(Fault(c)) \/ WithQueues(QFault(c))
MCOperation == \E c \in Context : Alone(Operation(c)) \/ WithQueues(Write(c))

MCNext ==
  /\ \/ MCStep /\ UNCHANGED <<faults, operations>>
     \/ faults < Bounds.faults /\ MCFault /\ faults' = faults + 1 /\ UNCHANGED operations
     \/ operations < Bounds.operations /\ MCOperation /\ operations' = operations + 1 /\ UNCHANGED faults
  /\ Bounded
  /\ UNCHANGED scenario

MCSpec == MCInit /\ [][MCNext]_<<qvars, scenario, faults, operations>>
=============================================================================
