---------------------------- MODULE MCTaskList ----------------------------
(***************************************************************************)
(* Instances of TaskList for TLC.  A behaviour contains at most            *)
(* MaxDisturbances steps of Disturbance; a scenario bounds how many        *)
(* managers load and how many leases are taken,                            *)
(* so that one run explores several small corners of a large space.        *)
(***************************************************************************)
EXTENDS TaskListInv, TLC

CONSTANTS MaxDisturbances, Scenario

Symmetry == Permutations(Manager) \cup Permutations(Payload)

VARIABLES disturbances, scenario

\* takeover: three leases, one disturbance.  faults: one takeover, a disturbance
\* before the second manager loads and one after.  retries: one manager that
\* renews its lease again and again, two disturbances.  pair: a takeover
\* while two tasks are written.  batch: one manager, two tasks, one
\* disturbance.  single: one manager, one task, three disturbances.
\* early: the disturbances before the takeover.
Bounds(s) ==
  CASE s = "takeover" -> [managers |-> 2, payloads |-> 1, leases |-> 3, disturbances |-> 1, early |-> 0]
    [] s = "faults"   -> [managers |-> 2, payloads |-> 1, leases |-> 2, disturbances |-> 2, early |-> 1]
    [] s = "retries"  -> [managers |-> 1, payloads |-> 1, leases |-> 4, disturbances |-> 2, early |-> 0]
    [] s = "pair"     -> [managers |-> 2, payloads |-> 2, leases |-> 2, disturbances |-> 0, early |-> 0]
    [] s = "batch"    -> [managers |-> 1, payloads |-> 2, leases |-> 3, disturbances |-> 1, early |-> 0]
    [] s = "single"   -> [managers |-> 1, payloads |-> 1, leases |-> 3, disturbances |-> 3, early |-> 0]
    [] s = "all"      -> [managers     |-> Cardinality(Manager),
                          payloads     |-> Cardinality(Payload),
                          leases       |-> MaxRangeID,
                          disturbances |-> MaxDisturbances,
                          early        |-> 0]

Loaded == {m \in Manager : st[m] # "new"}

Within(b) ==
  /\ Cardinality(Loaded') <= b.managers
  /\ Cardinality({p \in Payload : resp'[p] # "none"}) <= b.payloads
  /\ store'.rangeID <= b.leases

MCInit == Init /\ disturbances = 0 /\ scenario \in Scenario

MCNext ==
  /\ \/ Work /\ UNCHANGED disturbances
     \/ /\ disturbances < Bounds(scenario).disturbances
        /\ Bounds(scenario).early = 0 \/ (disturbances < Bounds(scenario).early <=> Cardinality(Loaded) <= 1)
        /\ Disturbance
        /\ disturbances' = disturbances + 1
  /\ Within(Bounds(scenario))
  /\ UNCHANGED scenario

MCSpec == MCInit /\ [][MCNext]_<<vars, disturbances, scenario>>

MCFairSpec == MCSpec /\ Fairness
===========================================================================
