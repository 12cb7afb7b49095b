--------------------------- MODULE MCVirtualQueues ---------------------------
(***************************************************************************)
(* VirtualQueues for TLC.  Faults are bounded.  SomeTaskMoves leaves out   *)
(* the mitigations in which the part of a slice that moves has no task     *)
(* left: the merge of such a part with another slice loses tasks, which is *)
(* a run of its own, and the other runs are about all the rest.            *)
(***************************************************************************)
EXTENDS VirtualQueues, TLC

CONSTANTS MaxFaults, SomeTaskMoves, d1, d2, d3

VARIABLES faults,
          limits     \* of the behaviour: faults and tasks

HasLeft(s, d) == HasMoreTasks(s) \/ \E k \in s.pending \ s.acked : dom[k] = d

TasksMove ==
  \A q \in left' : \A i \in DOMAIN queues'[q] :
    LET s == queues'[q][i] IN s.mark # {} => \E d \in s.mark : HasLeft(s, d)

Allowed(A) == A /\ (SomeTaskMoves => TasksMove)

MCInit == Init /\ faults = 0 /\ limits = [faults |-> MaxFaults, keys |-> MaxKey]

MCNext ==
  /\ \/ Allowed(Step) /\ UNCHANGED faults
     \/ faults < limits.faults /\ Allowed(Fault) /\ faults' = faults + 1
  /\ Len(dom') <= limits.keys
  /\ UNCHANGED limits

mcvars == <<vars, faults, limits>>

MCSpec == MCInit /\ [][MCNext]_mcvars

-----------------------------------------------------------------------------
(* Starts from a persisted state: where a mitigation of the first tasks    *)
(* leaves the queues after some of them have been processed.               *)

Slice(lo, hi, p) == [min |-> lo, max |-> hi, pred |-> p]
Only(d) == [excl |-> FALSE, ids |-> {d}]
AllBut(d) == Not(Only(d))
Slices(first, second) ==
  [q \in QueueIDs |-> IF q = 0 THEN first ELSE IF q = 1 THEN second ELSE <<>>]

\* Three slices in the second queue, and two tasks that no slice has yet.
ThreeMoved ==
  [dom |-> <<d1, d1, d2, d2, d1, d2, d3>>, done |-> {1, 3}, max |-> 6, faults |-> 0,
   slices |-> Slices(<<>>, <<Slice(2, 4, Only(d1)), Slice(4, 5, Only(d2)), Slice(5, 6, Only(d1))>>)]

\* One slice in the second queue that overlaps those of the root, which begin
\* before it or lie in it.
Overlapping ==
  {[dom |-> <<d2, d1, d1, d1, d2, d2>>, done |-> {5}, max |-> 7, faults |-> MaxFaults,
    slices |-> Slices(<<Slice(1, 4, AllBut(d1)), Slice(6, 7, AllBut(d1))>>, <<Slice(2, 7, Only(d1))>>)],
   [dom |-> <<d2, d1, d2, d2, d1, d1>>, done |-> {}, max |-> 7, faults |-> MaxFaults,
    slices |-> Slices(<<Slice(2, 4, AllBut(d2)), Slice(5, 7, AllBut(d2))>>, <<Slice(1, 7, Only(d2))>>)]}

Resumed(s) ==
  /\ dom = s.dom /\ done = s.done
  /\ saved = [slices |-> s.slices, max |-> s.max] /\ saving = saved
  /\ newMin = saved.max
  /\ queues = FromState(saved)
  /\ toRead = FirstToRead(queues)
  /\ wake = [q \in QueueIDs |-> queues[q] # <<>>]
  /\ paused = [q \in QueueIDs |-> FALSE]
  /\ ack = AckLevel(saved.slices, saved.max) /\ rows = ack .. Len(dom)
  /\ step = "select" /\ left = {}
  /\ faults = 0 /\ limits = [faults |-> s.faults, keys |-> Len(dom)]

ThreeMovedSpec == Resumed(ThreeMoved) /\ [][MCNext]_mcvars
ResumedSpec == (\E s \in Overlapping \cup {ThreeMoved} : Resumed(s)) /\ [][MCNext]_mcvars

-----------------------------------------------------------------------------
(* The loops of the queues, the timers of the pauses and the task          *)
(* processor run; the main loop's select starves none of its cases; a task *)
(* that is loaded again and again is processed at last.  Where ENABLED is  *)
(* costly to evaluate, it is spelled out.                                  *)
Loaded(k) ==
  \E q \in QueueIDs : \E i \in DOMAIN queues[q] : k \in queues[q][i].pending \ queues[q][i].acked

Fairness ==
  /\ \A q \in QueueIDs :
       /\ []<>(~wake[q]) \/ []<><<Loop(q)>>_mcvars
       /\ WF_vars(Resume(q))
       /\ []<>(q \notin left) \/ []<><<SplitQueue(q)>>_mcvars
  /\ \A k \in 1 .. MaxKey : <>[](~Loaded(k)) \/ []<><<Process(k)>>_mcvars
  /\ <>[](step # "select" \/ newMin = Len(dom) + 1) \/ []<><<newMin' # newMin>>_mcvars
  /\ <>[](step \notin {"select", "update"}) \/ []<><<UpdateQueueState>>_mcvars
  /\ []<>(step \notin {"delete", "save"}) \/ []<><<DeleteTasks(TRUE) \/ SaveState(TRUE)>>_mcvars

FairSpec == MCSpec /\ Fairness
FairThreeMovedSpec == ThreeMovedSpec /\ Fairness

\* A task that has been created is processed at last.
Processed == Promise!Processed

Symmetry == Permutations(Domain)
=============================================================================
