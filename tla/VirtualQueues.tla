---------------------------- MODULE VirtualQueues ----------------------------
(***************************************************************************)
(* The queue of a history shard (service/history/queuev2): the virtual     *)
(* queues and their slices, the loops that read them, the loop that adds   *)
(* new tasks, deletes and persists, and the mitigator that moves the tasks *)
(* of busy domains to the next queue.  The shard has one owner here;       *)
(* ShardQueue is about several.                                            *)
(*                                                                         *)
(* The task with key k belongs to domain dom[k].  Each queue has a loop of *)
(* its own, which sleeps until wake[q] and then reads from the slice       *)
(* toRead[q]: an index, 0 for none, Detached for a slice that has been     *)
(* removed from the list since.                                            *)
(***************************************************************************)
EXTENDS VirtualSlice

CONSTANTS Domain,
          MaxKey,              \* bound: tasks created
          QueueCount,          \* MaxVirtualQueueCount
          PageSize,
          MaxPending,          \* MaxPendingTasksCount
          CriticalPending      \* CriticalPendingTaskCount: more than that raise an alert

ASSUME QueueAssumption ==
  /\ {MaxKey, QueueCount, PageSize, MaxPending, CriticalPending} \subseteq Nat \ {0}
  /\ CriticalPending < MaxPending

VARIABLES rows,      \* the keys of the tasks in the database
          done,      \* the keys of the tasks that have been processed
          newMin,    \* newVirtualSliceState: the first key not handed to a slice
          queues,    \* per queue: its slices
          toRead, wake, paused,     \* per queue: sliceToRead, notifyCh, pauseController
          ack,       \* exclusiveAckLevel
          saved,     \* the queue state in the row of the shard
          step,      \* what the main loop is in the middle of
          left,      \* the queues that a mitigation has yet to split
          saving     \* the state that updateQueueState is about to persist

queueVars == <<queues, toRead, wake, paused>>
loopVars == <<newMin, ack, saved, step, left, saving>>
vars == <<dom, rows, done, queueVars, loopVars>>

\* What a mitigation leaves, and what the queues but the root may load: the
\* critical count times 0.8, rounded down.
TargetPending == (CriticalPending * 8) \div 10

QueueIDs == 0 .. QueueCount - 1
Root == 0
Detached == -1

SliceStates(qs) ==
  [q \in QueueIDs |->
     [i \in DOMAIN qs[q] |-> [min |-> qs[q][i].min, max |-> qs[q][i].max, pred |-> qs[q][i].pred]]]

\* Mutant: the level is that of the shard, not of what the queues were given.
StateReadLevel(qs, m) == [slices |-> SliceStates(qs), max |-> Len(dom) + 1]

\* The queue state: the slices of all queues, and where the new tasks begin.
State(qs, m) == [slices |-> SliceStates(qs), max |-> m]

Init ==
  /\ dom = <<>> /\ rows = {} /\ done = {}
  /\ newMin = 1
  /\ queues = [q \in QueueIDs |-> <<>>]
  /\ toRead = [q \in QueueIDs |-> 0]
  /\ wake = [q \in QueueIDs |-> FALSE]
  /\ paused = [q \in QueueIDs |-> FALSE]
  /\ ack = 1
  /\ step = "select" /\ left = {}
  /\ saving = State(queues, 1)
  /\ saved = saving

\* The monitor's count.
PendingCount(qs) ==
  MapThenSumSet(LAMBDA q : MapThenSumSet(LAMBDA i : Cardinality(qs[q][i].pending), DOMAIN qs[q]),
                QueueIDs)

-----------------------------------------------------------------------------
\* Mutant: reading starts over only if there was nothing to read.
ResetNextReadStart(slices, q) ==
  /\ toRead' = [toRead EXCEPT ![q] = IF @ = 0 /\ slices # <<>> THEN 1 ELSE @]
  /\ wake' = [wake EXCEPT ![q] = TRUE]

\* resetNextReadSliceLocked
FirstUnread(slices) ==
  LET unread == {i \in DOMAIN slices : HasMoreTasks(slices[i])}
  IN  IF unread = {} THEN 0 ELSE Min(unread)

ResetNextRead(slices, q) ==
  /\ toRead' = [toRead EXCEPT ![q] = FirstUnread(slices)]
  /\ wake' = [wake EXCEPT ![q] = @ \/ FirstUnread(slices) # 0]

\* A workflow of domain d creates a task: the shard's read level moves.
CreateTask(d) ==
  /\ Len(dom) < MaxKey
  /\ dom' = Append(dom, d)
  /\ rows' = rows \cup {Len(dom) + 1}
  /\ UNCHANGED <<done, queueVars, loopVars>>

\* processNewTasks: the new keys become a slice of the root queue, of its own
\* from time to time.
ProcessNewTasks(append) ==
  /\ step = "select"
  /\ newMin < Len(dom) + 1
  /\ newMin' = Len(dom) + 1
  /\ queues' = [queues EXCEPT ![Root] =
                  LET s == NewSlice(newMin, newMin', Universal)
                  IN  IF append THEN Append(@, s) ELSE AppendOrMerge(@, s)]
  /\ ResetNextRead(queues'[Root], Root)
  /\ UNCHANGED <<dom, rows, done, paused, ack, saved, step, left, saving>>

-----------------------------------------------------------------------------
(* The loop of a queue: loadAndSubmitTasks.                                *)

MaxPendingOf(q) == IF q = Root THEN MaxPending ELSE TargetPending

\* Too many tasks are pending, or the queue is paused already.
LoadPaused(q) ==
  /\ wake[q] /\ toRead[q] # 0
  /\ PendingCount(queues) >= MaxPendingOf(q) \/ paused[q]
  /\ wake' = [wake EXCEPT ![q] = FALSE]
  /\ paused' = [paused EXCEPT ![q] = TRUE]
  /\ UNCHANGED <<dom, rows, done, queues, toRead, loopVars>>

CanLoad(q) ==
  wake[q] /\ toRead[q] # 0 /\ ~paused[q] /\ PendingCount(queues) < MaxPendingOf(q)

\* There is no slice to read, or it has been removed from the list since and
\* has neither tasks nor a successor.
LoadNothing(q) ==
  /\ (wake[q] /\ toRead[q] = 0) \/ (CanLoad(q) /\ toRead[q] = Detached)
  /\ wake' = [wake EXCEPT ![q] = FALSE]
  /\ toRead' = [toRead EXCEPT ![q] = 0]
  /\ UNCHANGED <<dom, rows, done, queues, paused, loopVars>>

\* A page is loaded.  The database fails after some calls; the loop pauses if
\* no task has been found by then.
Load(q, calls) ==
  /\ CanLoad(q) /\ toRead[q] # Detached
  /\ LET i == toRead[q]
         size == Lesser(PageSize, MaxPendingOf(q) - PendingCount(queues))
         got == GetTasks(queues[q][i], size, calls, rows)
         failed == got.short = size /\ HasMoreTasks(got.slice)
         next == IF HasMoreTasks(got.slice) THEN i
                 ELSE IF i < Len(queues[q]) THEN i + 1 ELSE 0
     IN  /\ queues' = [queues EXCEPT ![q][i] = got.slice]
         /\ toRead' = [toRead EXCEPT ![q] = next]
         /\ wake' = [wake EXCEPT ![q] = next # 0 /\ ~failed]
         /\ paused' = [paused EXCEPT ![q] = failed]
  /\ UNCHANGED <<dom, rows, done, loopVars>>

\* The timer of the pause controller fires.
Resume(q) ==
  /\ paused[q]
  /\ paused' = [paused EXCEPT ![q] = FALSE]
  /\ wake' = [wake EXCEPT ![q] = TRUE]
  /\ UNCHANGED <<dom, rows, done, queues, toRead, loopVars>>

\* A loaded task is processed and acknowledged.
ProcessTask(q, i, k) ==
  /\ k \in queues[q][i].pending \ queues[q][i].acked
  /\ queues' = [queues EXCEPT ![q][i].acked = @ \cup {k}]
  /\ done' = done \cup {k}
  /\ UNCHANGED <<dom, rows, toRead, wake, paused, loopVars>>

-----------------------------------------------------------------------------
(* updateQueueState.                                                       *)

\* UpdateAndGetState of a queue: empty slices leave the list.
UpdateSlices(slices) ==
  SelectSeq([i \in DOMAIN slices |-> Update(slices[i])], LAMBDA s : ~IsEmpty(s))

\* Mutant: the slice to read keeps its place.
UpdateToReadPlace(slices, i) == i

\* Where the slice to read is after that.
UpdateToRead(slices, i) ==
  LET kept == {j \in DOMAIN slices : ~IsEmpty(Update(slices[j]))}
  IN  IF i <= 0 THEN i
      ELSE IF i \in kept THEN Cardinality({j \in kept : j <= i})
      ELSE Detached

\* Mutant: the ack level is that of the root queue.
AckLevelOfRoot(slices, m) == IF slices[Root] = <<>> THEN m ELSE slices[Root][1].min

\* getExclusiveAckLevelAndMaxQueueIDFromQueueState: the first slices count.
AckLevel(slices, m) ==
  Min({m} \cup {slices[q][1].min : q \in {p \in QueueIDs : slices[p] # <<>>}})

\* The states are collected; queues without slices are stopped, but the root.
UpdateQueueState ==
  /\ step \in {"select", "update"}
  /\ queues' = [q \in QueueIDs |-> UpdateSlices(queues[q])]
  /\ LET gone == {q \in QueueIDs \ {Root} : queues'[q] = <<>>} IN
     /\ toRead' = [q \in QueueIDs |-> IF q \in gone THEN 0 ELSE UpdateToRead(queues[q], toRead[q])]
     /\ wake' = [q \in QueueIDs |-> wake[q] /\ q \notin gone]
     /\ paused' = [q \in QueueIDs |-> paused[q] /\ q \notin gone]
  /\ saving' = State(queues', newMin)
  /\ step' = IF AckLevel(queues', newMin) > ack THEN "delete" ELSE "save"
  /\ UNCHANGED <<dom, rows, done, newMin, ack, saved, left>>

\* RangeCompleteHistoryTask; the loop comes back later if it fails.
DeleteTasks(ok) ==
  /\ step = "delete"
  /\ LET level == AckLevel(saving.slices, saving.max)
     IN  IF ok THEN /\ rows' = {k \in rows : k < ack \/ k >= level}
                    /\ ack' = level /\ step' = "save" /\ UNCHANGED saving
               ELSE /\ step' = "select" /\ saving' = saved
                    /\ UNCHANGED <<rows, ack>>
  /\ UNCHANGED <<dom, done, queueVars, newMin, saved, left>>

\* shard.UpdateQueueState
SaveState(ok) ==
  /\ step = "save"
  /\ saved' = IF ok THEN saving ELSE saved
  /\ saving' = saved'
  /\ step' = "select"
  /\ UNCHANGED <<dom, rows, done, queueVars, newMin, ack, left>>

\* NewVirtualQueueManager: the queues of a persisted state.
FromState(st) ==
  [q \in QueueIDs |-> [i \in DOMAIN st.slices[q] |->
     NewSlice(st.slices[q][i].min, st.slices[q][i].max, st.slices[q][i].pred)]]

\* NewVirtualQueue: the first slice is read first.
FirstToRead(qs) == [q \in QueueIDs |-> IF qs[q] = <<>> THEN 0 ELSE 1]

\* The shard moves: the next owner starts from the persisted state.
Restart ==
  /\ newMin' = saved.max
  /\ queues' = FromState(saved)
  /\ toRead' = FirstToRead(queues')
  /\ wake' = [q \in QueueIDs |-> queues'[q] # <<>>]
  /\ paused' = [q \in QueueIDs |-> FALSE]
  /\ ack' = AckLevel(saved.slices, saved.max)
  /\ step' = "select" /\ left' = {} /\ saving' = saved
  /\ UNCHANGED <<dom, rows, done, saved>>

-----------------------------------------------------------------------------
(* The mitigator.                                                          *)

\* The slices and domains in the stats: a slice, and a domain it has counted.
Counters(qs) == UNION {{<<q, i, d>> : d \in DOMAIN qs[q][i].count} :
                          <<q, i>> \in UNION {{q} \X (DOMAIN qs[q]) : q \in QueueIDs}}

Total(qs, X) == MapThenSumSet(LAMBDA x : qs[x[1]][x[2]].count[x[3]], X)

\* findDomainsToClear: of the domain with most tasks, the last slice, until few
\* enough tasks are left.
RECURSIVE Selections(_, _, _)
Selections(qs, X, selected) ==
  IF Total(qs, X) <= TargetPending THEN {selected}
  ELSE LET of(d) == {x \in X : x[3] = d}
           busiest == {x \in X : \A y \in X : Total(qs, of(x[3])) >= Total(qs, of(y[3]))}
           last == {x \in busiest : \A y \in of(x[3]) : qs[x[1]][x[2]].min >= qs[y[1]][y[2]].min}
       IN  UNION {Selections(qs, X \ {x}, selected \cup {x}) : x \in last}

\* handleAlert: the acknowledged tasks are cleaned up first, and domains are
\* selected if there are still too many.
HandleAlert ==
  /\ step = "select"
  /\ PendingCount(queues) > CriticalPending
  /\ LET now == [q \in QueueIDs |-> UpdateSlices(queues[q])]
         enough == PendingCount(now) <= CriticalPending
     IN  \E X \in IF enough THEN {{}} ELSE Selections(now, Counters(now), {}) :
           /\ queues' = [q \in QueueIDs |-> [i \in DOMAIN now[q] |->
                          [now[q][i] EXCEPT !.mark = {d \in Domain : <<q, i, d>> \in X}]]]
           /\ step' = IF enough THEN "update" ELSE "split"
           /\ left' = IF enough THEN {} ELSE QueueIDs
  /\ toRead' = [q \in QueueIDs |-> UpdateToRead(queues[q], toRead[q])]
  /\ UNCHANGED <<dom, rows, done, newMin, wake, paused, ack, saved, saving>>

\* What moves of a slice, unloaded, and what is kept.
Moved(s) ==
  LET p == [excl |-> FALSE, ids |-> s.mark]
      ss == SplitByPredicate(s, p)
  IN  IF s.mark = {} THEN [moved |-> <<>>, kept |-> <<s>>]
      ELSE IF CanSplitByPredicate(s, p) THEN [moved |-> <<Clear(ss[1])>>, kept |-> <<ss[2]>>]
      ELSE [moved |-> <<Clear(s)>>, kept |-> <<>>]

\* processQueueSplitsAndClear, in some order of the queues.  The last queue
\* unloads what has been selected in it.
SplitQueue(q) ==
  /\ step = "split" /\ q \in left
  /\ left' = left \ {q}
  /\ step' = IF left' = {} THEN "update" ELSE step
  /\ IF q = QueueCount - 1
       THEN /\ queues' = [queues EXCEPT ![q] =
                 [i \in DOMAIN @ |-> IF @[i].mark # {} THEN Clear(@[i]) ELSE @[i]]]
            /\ ResetNextRead(queues'[q], q)
            /\ paused' = [paused EXCEPT ![q] =
                 @ \/ \E i \in DOMAIN queues[q] : queues[q][i].mark # {}]
       ELSE LET parts == [i \in DOMAIN queues[q] |-> Moved(queues[q][i])]
                moved == FlattenSeq([i \in DOMAIN parts |-> parts[i].moved])
                new == [queues EXCEPT ![q] = FlattenSeq([i \in DOMAIN parts |-> parts[i].kept]),
                                      ![q + 1] = IF moved = <<>> THEN @ ELSE MergeSlices(@, moved)]
                reset == {p \in {q, q + 1} : p = q \/ moved # <<>>}
            IN  /\ queues' = new
                /\ toRead' = [p \in QueueIDs |->
                     IF p \in reset THEN FirstUnread(new[p]) ELSE toRead[p]]
                /\ wake' = [p \in QueueIDs |-> wake[p] \/ (p \in reset /\ FirstUnread(new[p]) # 0)]
                /\ paused' = [paused EXCEPT ![q + 1] = @ \/ moved # <<>>]
  /\ UNCHANGED <<dom, rows, done, newMin, ack, saved, saving>>

-----------------------------------------------------------------------------
Loop(q) == LoadNothing(q) \/ LoadPaused(q) \/ Load(q, MaxKey + 1)

MainLoop ==
  \/ \E append \in BOOLEAN : ProcessNewTasks(append)
  \/ UpdateQueueState \/ DeleteTasks(TRUE) \/ SaveState(TRUE)
  \/ HandleAlert
  \/ \E q \in QueueIDs : SplitQueue(q)

Process(k) == \E q \in QueueIDs : \E i \in DOMAIN queues[q] : ProcessTask(q, i, k)

Step ==
  \/ \E d \in Domain : CreateTask(d)
  \/ \E q \in QueueIDs : Loop(q) \/ Resume(q)
  \/ \E k \in 1 .. MaxKey : Process(k)
  \/ MainLoop

Fault ==
  \/ \E q \in QueueIDs, calls \in 0 .. MaxKey : Load(q, calls)
  \/ DeleteTasks(FALSE) \/ SaveState(FALSE)
  \/ Restart

Next == Step \/ Fault

Spec == Init /\ [][Next]_vars

-----------------------------------------------------------------------------
\* Types; the slice to read of a queue is one of its slices, and tasks are
\* pending in the range of their slice.
TypeOK ==
  /\ dom \in Seq(Domain)
  /\ rows \cup done \subseteq DOMAIN dom
  /\ newMin \in 1 .. Len(dom) + 1 /\ ack \in 1 .. newMin
  /\ \A q \in QueueIDs :
       /\ toRead[q] \in {Detached} \cup 0 .. Len(queues[q])
       /\ wake[q] \in BOOLEAN /\ paused[q] \in BOOLEAN
       /\ \A i \in DOMAIN queues[q] : LET s == queues[q][i] IN
            /\ s.acked \subseteq s.pending /\ \A k \in s.pending : InRange(s, k)
            /\ s.mark \subseteq Domain /\ DOMAIN s.count \subseteq Domain
  /\ step \in {"select", "split", "update", "delete", "save"}
  /\ left \subseteq QueueIDs /\ (left # {} <=> step = "split")

Holders(slices, k) ==
  {h \in UNION {{q} \X (DOMAIN slices[q]) : q \in QueueIDs} :
     LET s == slices[h[1]][h[2]] IN InRange(s, k) /\ Check(s.pred, dom[k])}

Unread(s, k) == \E j \in DOMAIN s.progress : s.progress[j].next <= k /\ k < s.progress[j].max

\* The slices of a queue are in the order of their ranges and do not overlap,
\* which the ack level, taken from the first ones, relies on.
SlicesOrdered ==
  \A q \in QueueIDs : \A i, j \in DOMAIN queues[q] :
    i < j => queues[q][i].max <= queues[q][j].min

\* A task that has been handed to the queues and not been processed belongs
\* to one slice of one queue, which has loaded it or has yet to read it.
HeldOnce ==
  \A k \in 1 .. newMin - 1 : k \notin done =>
    /\ Cardinality(Holders(queues, k)) = 1
    /\ \A h \in Holders(queues, k) : LET s == queues[h[1]][h[2]] IN
         k \in s.pending \ s.acked \/ Unread(s, k)

\* Whenever the process stops, the state in the row of the shard has each task
\* that has not been processed in one slice, or lets it be handed out as new.
Recoverable ==
  \A k \in DOMAIN dom \ done : k < saved.max => Cardinality(Holders(saved.slices, k)) = 1

\* The counters of a tracker are the numbers of its tasks.
CountersExact ==
  \A q \in QueueIDs : \A i \in DOMAIN queues[q] :
    LET s == queues[q][i] IN
    \A d \in DOMAIN s.count : s.count[d] = Cardinality({k \in s.pending : dom[k] = d})

Promise == INSTANCE AtLeastOnce WITH Task <- 1 .. MaxKey, todo <- rows \ done

\* The queue keeps the promise of AtLeastOnce: a row is deleted only after
\* its task has been processed, whatever is split, merged, unloaded or lost.
NoTaskLost == Promise!Spec

\* The same of the steps alone, wherever the queue starts from.
NoStepLosesTask == [][Promise!Next]_<<rows \ done, done>>
=============================================================================
