----------------------------- MODULE MCSemaphore -----------------------------
(***************************************************************************)
(* Semaphore for TLC.  A scenario bounds what fails, moves and is released *)
(* in a behaviour.                                                         *)
(***************************************************************************)
EXTENDS Semaphore, TLC

CONSTANT Scenario

VARIABLES scenario, faults, moves, releases

mcvars == <<vars, scenario, faults, moves, releases>>

Bounds ==
  CASE scenario = "faults"   -> [faults |-> 3, moves |-> 0, releases |-> 0]
    [] scenario = "lost"     -> [faults |-> 1, moves |-> 1, releases |-> 0]
    [] scenario = "reload"   -> [faults |-> 1, moves |-> 1, releases |-> 0]
    [] scenario = "moves"    -> [faults |-> 0, moves |-> 2, releases |-> 0]
    [] scenario = "release"  -> [faults |-> 0, moves |-> 1, releases |-> 1]

MCInit == Init /\ scenario \in Scenario /\ faults = 0 /\ moves = 0 /\ releases = 0

\* With a move, either a grant, before the move, or a load fails.
MCFault ==
  /\ faults < Bounds.faults
  /\ \/ scenario = "faults" /\ Fault
     \/ scenario = "lost" /\ moves = 0 /\ \E c \in Call : StatementFails(c)
     \/ scenario = "reload" /\ \E c \in Call : LoadFails(c)
  /\ faults' = faults + 1

\* Managers go idle where nothing fails and no bucket moves twice.
MCMove ==
  /\ moves < Bounds.moves
  /\ \/ scenario \in {"reload", "release"} /\ Move
     \/ scenario \in {"lost", "moves"} /\ \E h \in Host : MoveBucket(h) \/ Crash(h)
  /\ moves' = moves + 1

MCNext ==
  /\ \/ Step /\ UNCHANGED <<faults, moves, releases>>
     \/ MCFault /\ UNCHANGED <<moves, releases>>
     \/ MCMove /\ UNCHANGED <<faults, releases>>
     \/ releases < Bounds.releases /\ Release /\ releases' = releases + 1 /\ UNCHANGED <<faults, moves>>
  /\ UNCHANGED scenario

MCSpec == MCInit /\ [][MCNext]_mcvars

Symmetry == Permutations(Owner) \cup Permutations(Host) \cup Permutations(Call)
=============================================================================
