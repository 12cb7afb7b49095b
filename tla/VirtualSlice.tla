---------------------------- MODULE VirtualSlice ----------------------------
(***************************************************************************)
(* Virtual slices (service/history/queuev2/virtual_slice.go): a range of   *)
(* task keys and a predicate on domains, the tasks of both that have been  *)
(* loaded, and how far the range has been read.                            *)
(*                                                                         *)
(* A slice is a record: min, max and pred are its state; pending are the   *)
(* keys in its tracker, acked those of them whose tasks are done, count    *)
(* the tracker's counters per domain; progress is a sequence of records    *)
(* [min, max, next], where the keys of [min, max) from next on have not    *)
(* been read; mark are the domains that a mitigation selected in it.       *)
(***************************************************************************)
EXTENDS Integers, Sequences, SequencesExt, FiniteSetsExt

VARIABLE dom     \* the domain of the task with key k is dom[k]

Lesser(a, b) == Min({a, b})
Greater(a, b) == Max({a, b})

-----------------------------------------------------------------------------
(* Predicates: the domains in ids, or all but those.                       *)

Universal == [excl |-> TRUE, ids |-> {}]
Nothing == [excl |-> FALSE, ids |-> {}]

Check(p, d) == IF p.excl THEN d \notin p.ids ELSE d \in p.ids

Not(p) == [p EXCEPT !.excl = ~@]

And(p, q) ==
  CASE p.excl /\ q.excl   -> [excl |-> TRUE, ids |-> p.ids \cup q.ids]
    [] p.excl /\ ~q.excl  -> [excl |-> FALSE, ids |-> q.ids \ p.ids]
    [] ~p.excl /\ q.excl  -> [excl |-> FALSE, ids |-> p.ids \ q.ids]
    [] ~p.excl /\ ~q.excl -> [excl |-> FALSE, ids |-> p.ids \cap q.ids]

Or(p, q) ==
  CASE p.excl /\ q.excl   -> [excl |-> TRUE, ids |-> p.ids \cap q.ids]
    [] p.excl /\ ~q.excl  -> [excl |-> TRUE, ids |-> p.ids \ q.ids]
    [] ~p.excl /\ q.excl  -> [excl |-> TRUE, ids |-> q.ids \ p.ids]
    [] ~p.excl /\ ~q.excl -> [excl |-> FALSE, ids |-> p.ids \cup q.ids]

-----------------------------------------------------------------------------
(* Ranges.                                                                 *)

InRange(r, k) == r.min <= k /\ k < r.max

ContainsRange(r, s) == r.min <= s.min /\ r.max >= s.max

CanMerge(r, s) == r.min <= s.max /\ r.max >= s.min

CanSplitByTaskKey(r, k) == r.min < k /\ k < r.max

-----------------------------------------------------------------------------
(* One slice.                                                              *)

\* The counters of a tracker when tasks are added to it.
Counted(count, keys) ==
  [d \in DOMAIN count \cup {dom[k] : k \in keys} |->
     (IF d \in DOMAIN count THEN count[d] ELSE 0) + Cardinality({k \in keys : dom[k] = d})]

\* AddTask, for several tasks: a task replaces one with the same key.
AddTasks(s, keys, done) ==
  [s EXCEPT !.pending = @ \cup keys, !.acked = (@ \ keys) \cup done,
            !.count = Counted(@, keys)]

Progress(lo, hi) == [min |-> lo, max |-> hi, next |-> lo]

NewSlice(lo, hi, p) ==
  [min |-> lo, max |-> hi, pred |-> p, pending |-> {}, acked |-> {}, count |-> <<>>,
   progress |-> <<Progress(lo, hi)>>, mark |-> {}]

HasMoreTasks(s) == s.progress # <<>>

IsEmpty(s) == (s.min >= s.max \/ s.pred = Nothing) /\ ~HasMoreTasks(s)

ReadLevel(s) == IF HasMoreTasks(s) THEN Head(s.progress).next ELSE s.max

\* Mutant: the counters are left alone.
PruneKeepsCount(s) == [s EXCEPT !.pending = @ \ s.acked, !.acked = {}]

PruneAckedTasks(s) ==
  [s EXCEPT !.pending = @ \ s.acked, !.acked = {},
            !.count = [d \in DOMAIN @ |-> @[d] - Cardinality({k \in s.acked : dom[k] = d})]]

\* UpdateAndGetState: acknowledged tasks are pruned, the lower end moves up.
Update(s) ==
  [PruneAckedTasks(s) EXCEPT !.min = Min((s.pending \ s.acked) \cup {ReadLevel(s)})]

\* Mutant: the unread rest of the slice is forgotten.
ClearRead(s) ==
  LET u == Update(s)
  IN  [u EXCEPT !.pending = {}, !.count = <<>>, !.progress = <<>>]

\* Clear: the loaded tasks are cancelled, to be read again.
Clear(s) ==
  LET u == Update(s)
  IN  [u EXCEPT !.pending = {}, !.count = <<>>, !.progress = <<Progress(u.min, u.max)>>]

\* One page of at most n rows, of any domain, from the head of the progress.
\* A full page comes with a token.
Page(p, n, rows) ==
  {k \in rows : p.next <= k /\ k < p.max
                 /\ Cardinality({j \in rows : p.next <= j /\ j < k}) < n}

AfterPage(p, page, n) == IF Cardinality(page) = n THEN Max(page) + 1 ELSE p.max

\* One call of the database, unless nothing is missing or left to read: the slice
\* then, and how many tasks it is short of.
LoadPage(got, rows) ==
  LET s == got.slice
      p == Head(s.progress)
      page == Page(p, got.short, rows)
      found == {k \in page : Check(s.pred, dom[k])}
      next == AfterPage(p, page, got.short)
      rest == IF next < p.max THEN <<[p EXCEPT !.next = next]>> ELSE <<>>
  IN  IF got.short = 0 \/ ~HasMoreTasks(s) THEN got
      ELSE [slice |-> [AddTasks(s, found, {}) EXCEPT !.progress = rest \o Tail(@)],
            short |-> got.short - Cardinality(found)]

\* GetTasks: pages are read until `size' tasks of the predicate have been
\* found, the range ends, or the database fails after `calls' calls.
GetTasks(s, size, calls, rows) ==
  LET read[n \in 0 .. calls] ==
        IF n = 0 THEN [slice |-> s, short |-> size] ELSE LoadPage(read[n - 1], rows)
  IN  read[calls]

-----------------------------------------------------------------------------
(* Splitting.                                                              *)

\* A new slice object, with some of the tasks of s in a tracker of its own.
Rebuilt(s) == [s EXCEPT !.mark = {}]

NewTracker(s, keys) ==
  Rebuilt([s EXCEPT !.pending = keys, !.acked = @ \cap keys, !.count = Counted(<<>>, keys)])

\* Mutant: a range that straddles the key is unread on its right side only
\* from where it has been read to.
SplitProgressRightOnly(p, l, r) == <<<<>>, <<[Progress(p.next, p.max) EXCEPT !.next = Greater(p.next, r.min)]>>>>

\* What a progress becomes in the left and in the right part.
SplitProgress(p, l, r) ==
  IF ContainsRange(l, p) THEN <<<<p>>, <<>>>>
  ELSE IF ContainsRange(r, p) THEN <<<<>>, <<p>>>>
  ELSE IF InRange(l, p.next)
    THEN <<<<Progress(p.next, l.max)>>, <<Progress(r.min, p.max)>>>>
    ELSE <<<<>>, <<Progress(p.next, p.max)>>>>

SplitByTaskKey(s, k) ==
  LET l == [s EXCEPT !.max = k]
      r == [s EXCEPT !.min = k]
      parts == [i \in DOMAIN s.progress |-> SplitProgress(s.progress[i], l, r)]
      left == {j \in s.pending : InRange(l, j)}
  IN  << NewTracker([l EXCEPT !.progress =
           FlattenSeq([i \in DOMAIN parts |-> parts[i][1]])], left),
         NewTracker([r EXCEPT !.progress =
           FlattenSeq([i \in DOMAIN parts |-> parts[i][2]])], s.pending \ left) >>

CanSplitByPredicate(s, p) == p # Universal /\ p # Nothing /\ p # s.pred

SplitByPredicate(s, p) ==
  LET pass == And(s.pred, p)
      keys == {k \in s.pending : Check(pass, dom[k])}
  IN  << NewTracker([s EXCEPT !.pred = pass], keys),
         NewTracker([s EXCEPT !.pred = And(s.pred, Not(p))], s.pending \ keys) >>

-----------------------------------------------------------------------------
(* Merging.                                                                *)

\* Two sequences in the order of a field, the first one first where it ties.
InFieldOrder(a, b, field) ==
  LET from[i \in 1 .. Len(a) + 1, j \in 1 .. Len(b) + 1] ==
        IF i > Len(a) THEN SubSeq(b, j, Len(b))
        ELSE IF j > Len(b) THEN SubSeq(a, i, Len(a))
        ELSE IF a[i][field] <= b[j][field]
          THEN <<a[i]>> \o from[i + 1, j]
          ELSE <<b[j]>> \o from[i, j + 1]
  IN  from[1, 1]

\* mergeProgressWithSamePredicate, with l.min <= r.min
MergeSame(l, r) ==
  LET both == [min |-> Greater(l.next, r.next), max |-> Greater(l.max, r.max),
               next |-> Greater(l.next, r.next)]
  IN  IF l.next < r.min
        THEN <<Progress(l.next, Lesser(l.max, r.min)), [both EXCEPT !.min = r.next]>>
        ELSE <<both>>

\* mergeProgressWithDifferentPredicate, with l.next <= r.next
MergeDifferent(l, r) ==
  IF l.max < r.next
    THEN <<Progress(l.next, l.max), Progress(r.next, r.max)>>
    ELSE <<Progress(l.next, Greater(l.max, r.max))>>

\* The two in the order of the field they are merged by.
MergeTwo(field, p, q) ==
  LET l == IF p[field] > q[field] THEN q ELSE p
      r == IF p[field] > q[field] THEN p ELSE q
  IN  IF field = "min" THEN MergeSame(l, r) ELSE MergeDifferent(l, r)

\* Each progress is merged with the last of those before it.
MergeProgress(field, a, b) ==
  FoldLeft(LAMBDA seq, p : IF seq = <<>> THEN <<p>>
                           ELSE Front(seq) \o MergeTwo(field, Last(seq), p),
           <<>>, InFieldOrder(a, b, field))

\* The tasks of t join those of s in its tracker.
JoinTrackers(s, t) == AddTasks(s, t.pending, t.acked)

MergeByRange(s, t) ==
  LET l == IF s.min > t.min THEN t ELSE s
      r == IF s.min > t.min THEN s ELSE t
  IN  Rebuilt([JoinTrackers(l, r) EXCEPT
         !.max = Greater(l.max, r.max),
         !.progress = MergeProgress("min", l.progress, r.progress)])

MergeByPredicate(s, t) ==
  Rebuilt([JoinTrackers(s, t) EXCEPT
     !.pred = Or(s.pred, t.pred),
     !.progress = MergeProgress("next", s.progress, t.progress)])

\* mergeVirtualSlicesWithDifferentPredicate, with s before t: the slices that
\* replace both, or none if they have no key in common.
MergeOverlap(s, t) ==
  IF s.min = t.min THEN
    IF CanSplitByTaskKey(t, s.max)
      THEN LET tt == SplitByTaskKey(t, s.max) IN <<MergeByPredicate(s, tt[1]), tt[2]>>
      ELSE <<MergeByPredicate(s, t)>>
  ELSE IF ~CanSplitByTaskKey(s, t.min) THEN <<>>
  ELSE LET ss == SplitByTaskKey(s, t.min) IN
    IF CanSplitByTaskKey(t, s.max) THEN
      LET tt == SplitByTaskKey(t, s.max)
      IN  <<ss[1], MergeByPredicate(ss[2], tt[1]), tt[2]>>
    ELSE IF CanSplitByTaskKey(ss[2], t.max) THEN
      LET rr == SplitByTaskKey(ss[2], t.max)
      IN  <<ss[1], MergeByPredicate(rr[1], t), rr[2]>>
    ELSE <<ss[1], MergeByPredicate(ss[2], t)>>

\* Mutant: only slices with the same predicate are merged.
TryMergeSame(s, t) ==
  IF CanMerge(s, t) /\ s.pred = t.pred THEN <<MergeByRange(s, t)>> ELSE <<>>

\* TryMergeWithVirtualSlice: the slices that replace both, or none.
TryMerge(s, t) ==
  IF ~CanMerge(s, t) THEN <<>>
  ELSE IF s.pred = t.pred THEN <<MergeByRange(s, t)>>
  ELSE IF s.min > t.min \/ (s.min = t.min /\ s.max > t.max)
    THEN MergeOverlap(t, s)
    ELSE MergeOverlap(s, t)

\* appendOrMergeSlice
AppendOrMerge(slices, s) ==
  IF slices = <<>> THEN <<s>>
  ELSE LET merged == TryMerge(Last(slices), s)
       IN  IF merged = <<>> THEN Append(slices, s) ELSE Front(slices) \o merged

\* MergeSlices: the incoming ones first where the lower ends tie.
MergeSlices(slices, incoming) ==
  FoldLeft(AppendOrMerge, <<>>, InFieldOrder(incoming, slices, "min"))
=============================================================================
