----------------------------- MODULE AtLeastOnce -----------------------------
(***************************************************************************)
(* What the queues of a history shard promise to the workflows that create *)
(* tasks: a task is kept until it has been processed, across failures and  *)
(* changes of the shard's owner.  It may be processed more than once.      *)
(***************************************************************************)
CONSTANT Task

VARIABLES todo,   \* the tasks that have to be processed
          done    \* the tasks that have been, at least once

Init == todo = {} /\ done = {}

\* Tasks are created, together with the workflow update they belong to.
Create(new) ==
  /\ new \cap (todo \cup done) = {}
  /\ todo' = todo \cup new
  /\ UNCHANGED done

Process(some) ==
  /\ some \subseteq todo
  /\ todo' = todo \ some
  /\ done' = done \cup some

Next == \E S \in SUBSET Task : Create(S) \/ Process(S)

Spec == Init /\ [][Next]_<<todo, done>>

\* A task that was created is processed eventually.
Processed == \A t \in Task : t \in todo ~> t \in done
==============================================================================
