---------------------------- MODULE SliceProofs -----------------------------
(***************************************************************************)
(* What the operations on slices do, for all slices: which tasks the parts *)
(* of a slice hold after a split, which the slices that replace two others *)
(* hold after a merge, and which keys are still to be read after that.     *)
(* What a fold makes of whole lists of slices is left to TLC.              *)
(***************************************************************************)
EXTENDS VirtualSlice, TLAPS

\* The prover of a leaf that names none.
USE ZenonT(60)

\* What a predicate, a slice and a progress are.
IsPredicate(p) == p = [excl |-> p.excl, ids |-> p.ids] /\ p.excl \in BOOLEAN

\* A slice with these fields.
SliceOf(lo, hi, p, pending, acked, count, progress, mark) ==
  [min |-> lo, max |-> hi, pred |-> p, pending |-> pending, acked |-> acked,
   count |-> count, progress |-> progress, mark |-> mark]

IsSlice(s) ==
  /\ s = SliceOf(s.min, s.max, s.pred, s.pending, s.acked, s.count, s.progress, s.mark)
  /\ s.min \in Int /\ s.max \in Int /\ IsPredicate(s.pred)

IsProgress(p) ==
  /\ p = [min |-> p.min, max |-> p.max, next |-> p.next]
  /\ p.min \in Int /\ p.max \in Int /\ p.next \in Int
  /\ p.min <= p.next /\ p.next <= p.max

\* The slice holds a task of domain d with key k.
Holds(s, k, d) == InRange(s, k) /\ Check(s.pred, d)

\* Some slice of the list does.
HoldsIn(slices, k, d) == \E i \in DOMAIN slices : Holds(slices[i], k, d)

-----------------------------------------------------------------------------
(* Predicates.                                                             *)

\* The order of the integers.
LEMMA Order ==
  ASSUME NEW a \in Int, NEW b \in Int
  PROVE  /\ a > b <=> b < a
         /\ a >= b <=> b <= a
         /\ ~(a < b) <=> b <= a
         /\ a <= b <=> (a < b \/ a = b)
         /\ a <= b <=> a < b + 1
         /\ a < b <=> a + 1 <= b
BY SMTT(30)

\* The order is transitive.
LEMMA Chain ==
  ASSUME NEW a \in Int, NEW b \in Int, NEW c \in Int
  PROVE  /\ a <= b /\ b <= c => a <= c
         /\ a < b /\ b <= c => a < c
         /\ a <= b /\ b < c => a < c
BY SMTT(30)

\* Of two ranges read up to next, the first of them up to a key below the second:
\* what is in one of them and was read in neither.
LEMMA Apart ==
  ASSUME NEW l, NEW r, NEW k \in Int,
         /\ l.min \in Int /\ l.next \in Int /\ l.max \in Int /\ l.min <= l.next /\ l.next <= l.max
         /\ r.min \in Int /\ r.next \in Int /\ r.max \in Int /\ r.min <= r.next /\ r.next <= r.max,
         l.next < r.min
  PROVE  LET gap  == IF l.max <= r.min THEN l.max ELSE r.min
             from == IF l.next >= r.next THEN l.next ELSE r.next
             to   == IF l.max >= r.max THEN l.max ELSE r.max
         IN  ((l.next <= k /\ k < gap) \/ (from <= k /\ k < to))
             <=> /\ (l.next <= k /\ k < l.max) \/ (r.next <= k /\ k < r.max)
                 /\ ~(l.min <= k /\ k < l.next) /\ ~(r.min <= k /\ k < r.next)
BY SMTT(30)

\* Lists of at most two.
LEMMA Lists ==
  ASSUME NEW a, NEW b
  PROVE  /\ DOMAIN <<>> = {} /\ DOMAIN <<a>> = {1} /\ <<a>>[1] = a
         /\ DOMAIN <<a, b>> = {1, 2} /\ <<a, b>>[1] = a /\ <<a, b>>[2] = b
BY SMTT(30)

\* Their indices.
LEMMA Indices == ~(1 < 1) /\ ~(2 < 1) /\ ~(2 < 2) /\ ~(3 < 1) /\ ~(3 < 2) /\ ~(3 < 3)
BY SMTT(30)

\* The larger of two.
LEMMA Bigger == ASSUME NEW a \in Int, NEW b \in Int
                PROVE  Greater(a, b) = IF a >= b THEN a ELSE b
<1>1. PICK m \in {a, b} : \A y \in {a, b} : m >= y
  BY SMTT(30)
<1>2. Greater(a, b) = CHOOSE x \in {a, b} : \A y \in {a, b} : x >= y
  BY DEF Greater, Max
<1>3. Greater(a, b) \in {a, b} /\ \A y \in {a, b} : Greater(a, b) >= y
  BY <1>1, <1>2
<1> QED BY SMTT(30), <1>3

\* The smaller.
LEMMA Smaller == ASSUME NEW a \in Int, NEW b \in Int
                 PROVE  Lesser(a, b) = IF a <= b THEN a ELSE b
<1>1. PICK m \in {a, b} : \A y \in {a, b} : m <= y
  BY SMTT(30)
<1>2. Lesser(a, b) = CHOOSE x \in {a, b} : \A y \in {a, b} : x <= y
  BY DEF Lesser, Min
<1>3. Lesser(a, b) \in {a, b} /\ \A y \in {a, b} : Lesser(a, b) <= y
  BY <1>1, <1>2
<1> QED BY SMTT(30), <1>3

\* The two kinds of predicates.
LEMMA CheckIs ==
  ASSUME NEW p, NEW d
  PROVE  /\ p.excl = TRUE => (Check(p, d) <=> d \notin p.ids)
         /\ p.excl = FALSE => (Check(p, d) <=> d \in p.ids)
BY DEF Check

\* And, Or and Not (predicate_operation.go) are conjunction, disjunction and negation,
\* whichever of the two kinds of predicates they are given.
THEOREM PredicateAlgebra ==
  ASSUME NEW p, IsPredicate(p), NEW q, IsPredicate(q), NEW d
  PROVE  /\ IsPredicate(And(p, q)) /\ IsPredicate(Or(p, q)) /\ IsPredicate(Not(p))
         /\ Check(And(p, q), d) <=> (Check(p, d) /\ Check(q, d))
         /\ Check(Or(p, q), d) <=> (Check(p, d) \/ Check(q, d))
         /\ Check(Not(p), d) <=> ~Check(p, d)
<1>1. p.excl \in {TRUE, FALSE} /\ q.excl \in {TRUE, FALSE} /\ p = [excl |-> p.excl, ids |-> p.ids]
  BY DEF IsPredicate
<1>2. IsPredicate(Not(p)) /\ (Check(Not(p), d) <=> ~Check(p, d))
  <2>1. Not(p) = [excl |-> ~p.excl, ids |-> p.ids]
    BY SMTT(30), <1>1 DEF Not
  <2>2. Not(p).excl = ~p.excl /\ Not(p).ids = p.ids
    BY SMTT(30), <2>1
  <2>3. IsPredicate(Not(p))
    BY SMTT(30), <1>1, <2>1, <2>2 DEF IsPredicate
  <2>4. CASE p.excl = TRUE
    BY <2>2, <2>3, <2>4, CheckIs
  <2>5. CASE p.excl = FALSE
    BY <2>2, <2>3, <2>5, CheckIs
  <2> QED BY <1>1, <2>4, <2>5
<1>3. CASE p.excl = TRUE /\ q.excl = TRUE
  <2>1. /\ And(p, q) = [excl |-> TRUE, ids |-> p.ids \cup q.ids]
        /\ Or(p, q) = [excl |-> TRUE, ids |-> p.ids \cap q.ids]
    BY <1>3 DEF And, Or
  <2>2. /\ And(p, q).excl = TRUE /\ And(p, q).ids = p.ids \cup q.ids
        /\ Or(p, q).excl = TRUE /\ Or(p, q).ids = p.ids \cap q.ids
    BY SMTT(30), <2>1
  <2>3. IsPredicate(And(p, q)) /\ IsPredicate(Or(p, q))
    BY SMTT(30), <2>1 DEF IsPredicate
  <2>4. /\ Check(p, d) <=> d \notin p.ids
        /\ Check(q, d) <=> d \notin q.ids
        /\ Check(And(p, q), d) <=> d \notin And(p, q).ids
        /\ Check(Or(p, q), d) <=> d \notin Or(p, q).ids
    BY <1>3, <2>2, CheckIs
  <2> QED BY <1>2, <2>2, <2>3, <2>4
<1>4. CASE p.excl = TRUE /\ q.excl = FALSE
  <2>1. /\ And(p, q) = [excl |-> FALSE, ids |-> q.ids \ p.ids]
        /\ Or(p, q) = [excl |-> TRUE, ids |-> p.ids \ q.ids]
    BY <1>4 DEF And, Or
  <2>2. /\ And(p, q).excl = FALSE /\ And(p, q).ids = q.ids \ p.ids
        /\ Or(p, q).excl = TRUE /\ Or(p, q).ids = p.ids \ q.ids
    BY SMTT(30), <2>1
  <2>3. IsPredicate(And(p, q)) /\ IsPredicate(Or(p, q))
    BY SMTT(30), <2>1 DEF IsPredicate
  <2>4. /\ Check(p, d) <=> d \notin p.ids
        /\ Check(q, d) <=> d \in q.ids
        /\ Check(And(p, q), d) <=> d \in And(p, q).ids
        /\ Check(Or(p, q), d) <=> d \notin Or(p, q).ids
    BY <1>4, <2>2, CheckIs
  <2> QED BY <1>2, <2>2, <2>3, <2>4
<1>5. CASE p.excl = FALSE /\ q.excl = TRUE
  <2>1. /\ And(p, q) = [excl |-> FALSE, ids |-> p.ids \ q.ids]
        /\ Or(p, q) = [excl |-> TRUE, ids |-> q.ids \ p.ids]
    BY <1>5 DEF And, Or
  <2>2. /\ And(p, q).excl = FALSE /\ And(p, q).ids = p.ids \ q.ids
        /\ Or(p, q).excl = TRUE /\ Or(p, q).ids = q.ids \ p.ids
    BY SMTT(30), <2>1
  <2>3. IsPredicate(And(p, q)) /\ IsPredicate(Or(p, q))
    BY SMTT(30), <2>1 DEF IsPredicate
  <2>4. /\ Check(p, d) <=> d \in p.ids
        /\ Check(q, d) <=> d \notin q.ids
        /\ Check(And(p, q), d) <=> d \in And(p, q).ids
        /\ Check(Or(p, q), d) <=> d \notin Or(p, q).ids
    BY <1>5, <2>2, CheckIs
  <2> QED BY <1>2, <2>2, <2>3, <2>4
<1>6. CASE p.excl = FALSE /\ q.excl = FALSE
  <2>1. /\ And(p, q) = [excl |-> FALSE, ids |-> p.ids \cap q.ids]
        /\ Or(p, q) = [excl |-> FALSE, ids |-> p.ids \cup q.ids]
    BY <1>6 DEF And, Or
  <2>2. /\ And(p, q).excl = FALSE /\ And(p, q).ids = p.ids \cap q.ids
        /\ Or(p, q).excl = FALSE /\ Or(p, q).ids = p.ids \cup q.ids
    BY SMTT(30), <2>1
  <2>3. IsPredicate(And(p, q)) /\ IsPredicate(Or(p, q))
    BY SMTT(30), <2>1 DEF IsPredicate
  <2>4. /\ Check(p, d) <=> d \in p.ids
        /\ Check(q, d) <=> d \in q.ids
        /\ Check(And(p, q), d) <=> d \in And(p, q).ids
        /\ Check(Or(p, q), d) <=> d \in Or(p, q).ids
    BY <1>6, <2>2, CheckIs
  <2> QED BY <1>2, <2>2, <2>3, <2>4
<1> QED BY <1>1, <1>3, <1>4, <1>5, <1>6
-----------------------------------------------------------------------------
(* Slices.                                                                 *)

\* The lists that a split and a merge return.
LEMMA ShortLists ==
  ASSUME NEW a, NEW b, NEW c, NEW k, NEW d
  PROVE  /\ HoldsIn(<<a>>, k, d) <=> Holds(a, k, d)
         /\ HoldsIn(<<a, b>>, k, d) <=> (Holds(a, k, d) \/ Holds(b, k, d))
         /\ HoldsIn(<<a, b, c>>, k, d) <=> (Holds(a, k, d) \/ Holds(b, k, d) \/ Holds(c, k, d))
<1>1. DOMAIN <<a>> = {1} /\ <<a>>[1] = a
  BY SMTT(30)
<1>2. DOMAIN <<a, b>> = {1, 2} /\ <<a, b>>[1] = a /\ <<a, b>>[2] = b
  BY SMTT(30)
<1>3. DOMAIN <<a, b, c>> = {1, 2, 3} /\ <<a, b, c>>[1] = a /\ <<a, b, c>>[2] = b /\ <<a, b, c>>[3] = c
  BY SMTT(30)
<1>4. HoldsIn(<<a>>, k, d) <=> Holds(a, k, d)
  BY <1>1 DEF HoldsIn
<1>5. HoldsIn(<<a, b>>, k, d) <=> (Holds(a, k, d) \/ Holds(b, k, d))
  BY <1>2 DEF HoldsIn
<1>6. HoldsIn(<<a, b, c>>, k, d) <=> (Holds(a, k, d) \/ Holds(b, k, d) \/ Holds(c, k, d))
  BY <1>3 DEF HoldsIn
<1> QED BY <1>4, <1>5, <1>6

\* A slice of this range and with this predicate.
Spans(s, lo, hi, p) == IsSlice(s) /\ s.min = lo /\ s.max = hi /\ s.pred = p

\* The range and the predicate of a slice are left alone.
Alike(s, t) == Spans(t, s.min, s.max, s.pred)

\* A field of a slice is changed.
LEMMA Changed ==
  ASSUME NEW s, IsSlice(s), NEW x
  PROVE  /\ Alike(s, [s EXCEPT !.pending = x])
         /\ Alike(s, [s EXCEPT !.acked = x])
         /\ Alike(s, [s EXCEPT !.count = x])
         /\ Alike(s, [s EXCEPT !.progress = x])
         /\ Alike(s, [s EXCEPT !.mark = x])
<1>1. s = SliceOf(s.min, s.max, s.pred, s.pending, s.acked, s.count, s.progress, s.mark)
  BY DEF IsSlice
<1>2. Alike(s, [s EXCEPT !.pending = x])
  <2> DEFINE t == SliceOf(s.min, s.max, s.pred, x, s.acked, s.count, s.progress, s.mark)
  <2>1. [s EXCEPT !.pending = x] = t
    BY SMTT(30), <1>1 DEF SliceOf
  <2>2. t.min = s.min /\ t.max = s.max /\ t.pred = s.pred /\ t.pending = x /\ t.acked = s.acked /\ t.count = s.count /\ t.progress = s.progress /\ t.mark = s.mark
    BY DEF SliceOf
  <2>3. t = SliceOf(t.min, t.max, t.pred, t.pending, t.acked, t.count, t.progress, t.mark)
    BY <2>2
  <2>4. Alike(s, t)
    BY <2>2, <2>3 DEF Alike, Spans, IsSlice
  <2> QED BY <2>1, <2>4
<1>3. Alike(s, [s EXCEPT !.acked = x])
  <2> DEFINE t == SliceOf(s.min, s.max, s.pred, s.pending, x, s.count, s.progress, s.mark)
  <2>1. [s EXCEPT !.acked = x] = t
    BY SMTT(30), <1>1 DEF SliceOf
  <2>2. t.min = s.min /\ t.max = s.max /\ t.pred = s.pred /\ t.pending = s.pending /\ t.acked = x /\ t.count = s.count /\ t.progress = s.progress /\ t.mark = s.mark
    BY DEF SliceOf
  <2>3. t = SliceOf(t.min, t.max, t.pred, t.pending, t.acked, t.count, t.progress, t.mark)
    BY <2>2
  <2>4. Alike(s, t)
    BY <2>2, <2>3 DEF Alike, Spans, IsSlice
  <2> QED BY <2>1, <2>4
<1>4. Alike(s, [s EXCEPT !.count = x])
  <2> DEFINE t == SliceOf(s.min, s.max, s.pred, s.pending, s.acked, x, s.progress, s.mark)
  <2>1. [s EXCEPT !.count = x] = t
    BY SMTT(30), <1>1 DEF SliceOf
  <2>2. t.min = s.min /\ t.max = s.max /\ t.pred = s.pred /\ t.pending = s.pending /\ t.acked = s.acked /\ t.count = x /\ t.progress = s.progress /\ t.mark = s.mark
    BY DEF SliceOf
  <2>3. t = SliceOf(t.min, t.max, t.pred, t.pending, t.acked, t.count, t.progress, t.mark)
    BY <2>2
  <2>4. Alike(s, t)
    BY <2>2, <2>3 DEF Alike, Spans, IsSlice
  <2> QED BY <2>1, <2>4
<1>5. Alike(s, [s EXCEPT !.progress = x])
  <2> DEFINE t == SliceOf(s.min, s.max, s.pred, s.pending, s.acked, s.count, x, s.mark)
  <2>1. [s EXCEPT !.progress = x] = t
    BY SMTT(30), <1>1 DEF SliceOf
  <2>2. t.min = s.min /\ t.max = s.max /\ t.pred = s.pred /\ t.pending = s.pending /\ t.acked = s.acked /\ t.count = s.count /\ t.progress = x /\ t.mark = s.mark
    BY DEF SliceOf
  <2>3. t = SliceOf(t.min, t.max, t.pred, t.pending, t.acked, t.count, t.progress, t.mark)
    BY <2>2
  <2>4. Alike(s, t)
    BY <2>2, <2>3 DEF Alike, Spans, IsSlice
  <2> QED BY <2>1, <2>4
<1>6. Alike(s, [s EXCEPT !.mark = x])
  <2> DEFINE t == SliceOf(s.min, s.max, s.pred, s.pending, s.acked, s.count, s.progress, x)
  <2>1. [s EXCEPT !.mark = x] = t
    BY SMTT(30), <1>1 DEF SliceOf
  <2>2. t.min = s.min /\ t.max = s.max /\ t.pred = s.pred /\ t.pending = s.pending /\ t.acked = s.acked /\ t.count = s.count /\ t.progress = s.progress /\ t.mark = x
    BY DEF SliceOf
  <2>3. t = SliceOf(t.min, t.max, t.pred, t.pending, t.acked, t.count, t.progress, t.mark)
    BY <2>2
  <2>4. Alike(s, t)
    BY <2>2, <2>3 DEF Alike, Spans, IsSlice
  <2> QED BY <2>1, <2>4
<1> QED BY <1>2, <1>3, <1>4, <1>5, <1>6

\* Several are.
LEMMA AlikeAgain ==
  ASSUME NEW s, NEW t, NEW u, Alike(s, t), Alike(t, u)
  PROVE  Alike(s, u)
BY DEF Alike, Spans

\* A new tracker changes neither the range nor the predicate.
LEMMA TrackerOnly ==
  ASSUME NEW s, IsSlice(s), NEW keys
  PROVE  Alike(s, NewTracker(s, keys))
<1> DEFINE a == [s EXCEPT !.pending = keys]
           b == [a EXCEPT !.acked = s.acked \cap keys]
           c == [b EXCEPT !.count = Counted(<<>>, keys)]
<1>1. Alike(s, a)
  BY Changed
<1>2. Alike(a, b)
  BY <1>1, Changed DEF Alike, Spans
<1>3. Alike(b, c)
  BY <1>2, Changed DEF Alike, Spans
<1>4. c = [s EXCEPT !.pending = keys, !.acked = @ \cap keys, !.count = Counted(<<>>, keys)]
  OBVIOUS
<1>5. Alike(s, c)
  BY <1>1, <1>2, <1>3, AlikeAgain
<1>6. Alike(c, Rebuilt(c))
  BY <1>5, Changed DEF Alike, Spans, Rebuilt
<1> QED BY <1>4, <1>5, <1>6, AlikeAgain DEF NewTracker

\* An end of the range of a slice is moved.
LEMMA EndMoved ==
  ASSUME NEW s, IsSlice(s), NEW x \in Int
  PROVE  /\ Spans([s EXCEPT !.min = x], x, s.max, s.pred)
         /\ Spans([s EXCEPT !.max = x], s.min, x, s.pred)
<1>1. s = SliceOf(s.min, s.max, s.pred, s.pending, s.acked, s.count, s.progress, s.mark)
  BY DEF IsSlice
<1>2. Spans([s EXCEPT !.min = x], x, s.max, s.pred)
  <2> DEFINE t == SliceOf(x, s.max, s.pred, s.pending, s.acked, s.count, s.progress, s.mark)
  <2>1. [s EXCEPT !.min = x] = t
    BY SMTT(30), <1>1 DEF SliceOf
  <2>2. t.min = x /\ t.max = s.max /\ t.pred = s.pred /\ t.pending = s.pending /\ t.acked = s.acked /\ t.count = s.count /\ t.progress = s.progress /\ t.mark = s.mark
    BY DEF SliceOf
  <2>3. t = SliceOf(t.min, t.max, t.pred, t.pending, t.acked, t.count, t.progress, t.mark)
    BY <2>2
  <2> QED BY <2>1, <2>2, <2>3 DEF Spans, IsSlice
<1>3. Spans([s EXCEPT !.max = x], s.min, x, s.pred)
  <2> DEFINE t == SliceOf(s.min, x, s.pred, s.pending, s.acked, s.count, s.progress, s.mark)
  <2>1. [s EXCEPT !.max = x] = t
    BY SMTT(30), <1>1 DEF SliceOf
  <2>2. t.min = s.min /\ t.max = x /\ t.pred = s.pred /\ t.pending = s.pending /\ t.acked = s.acked /\ t.count = s.count /\ t.progress = s.progress /\ t.mark = s.mark
    BY DEF SliceOf
  <2>3. t = SliceOf(t.min, t.max, t.pred, t.pending, t.acked, t.count, t.progress, t.mark)
    BY <2>2
  <2> QED BY <2>1, <2>2, <2>3 DEF Spans, IsSlice
<1> QED BY <1>2, <1>3

\* The predicate of a slice is replaced.
LEMMA Repredicated ==
  ASSUME NEW s, IsSlice(s), NEW x, IsPredicate(x)
  PROVE  Spans([s EXCEPT !.pred = x], s.min, s.max, x)
<1>1. s = SliceOf(s.min, s.max, s.pred, s.pending, s.acked, s.count, s.progress, s.mark)
  BY DEF IsSlice
<1>2. Spans([s EXCEPT !.pred = x], s.min, s.max, x)
  <2> DEFINE t == SliceOf(s.min, s.max, x, s.pending, s.acked, s.count, s.progress, s.mark)
  <2>1. [s EXCEPT !.pred = x] = t
    BY SMTT(30), <1>1 DEF SliceOf
  <2>2. t.min = s.min /\ t.max = s.max /\ t.pred = x /\ t.pending = s.pending /\ t.acked = s.acked /\ t.count = s.count /\ t.progress = s.progress /\ t.mark = s.mark
    BY DEF SliceOf
  <2>3. t = SliceOf(t.min, t.max, t.pred, t.pending, t.acked, t.count, t.progress, t.mark)
    BY <2>2
  <2> QED BY <2>1, <2>2, <2>3 DEF Spans, IsSlice
<1> QED BY <1>2

\* The parts of a slice that is split at a key (SplitByTaskKey).
LEMMA PartsByKey ==
  ASSUME NEW s, IsSlice(s), NEW k \in Int
  PROVE  /\ Spans(SplitByTaskKey(s, k)[1], s.min, k, s.pred)
         /\ Spans(SplitByTaskKey(s, k)[2], k, s.max, s.pred)
<1> DEFINE l == [s EXCEPT !.max = k]
           r == [s EXCEPT !.min = k]
           parts == [i \in DOMAIN s.progress |-> SplitProgress(s.progress[i], l, r)]
           left == {j \in s.pending : InRange(l, j)}
           pl == FlattenSeq([i \in DOMAIN parts |-> parts[i][1]])
           pr == FlattenSeq([i \in DOMAIN parts |-> parts[i][2]])
           ll == [l EXCEPT !.progress = pl]
           rr == [r EXCEPT !.progress = pr]
<1>1. /\ SplitByTaskKey(s, k)[1] = NewTracker(ll, left)
      /\ SplitByTaskKey(s, k)[2] = NewTracker(rr, s.pending \ left)
  BY DEF SplitByTaskKey
<1>2. Spans(l, s.min, k, s.pred) /\ Spans(r, k, s.max, s.pred)
  BY EndMoved
<1> HIDE DEF l, r, pl, pr, left
<1>3. Alike(l, ll) /\ Alike(r, rr)
  BY <1>2, Changed DEF Spans
<1> HIDE DEF ll, rr
<1>4. Alike(ll, NewTracker(ll, left)) /\ Alike(rr, NewTracker(rr, s.pending \ left))
  BY <1>3, TrackerOnly DEF Alike, Spans
<1>5. Spans(NewTracker(ll, left), s.min, k, s.pred)
  BY <1>2, <1>3, <1>4 DEF Alike, Spans
<1>6. Spans(NewTracker(rr, s.pending \ left), k, s.max, s.pred)
  BY <1>2, <1>3, <1>4 DEF Alike, Spans
<1> QED BY <1>1, <1>5, <1>6

\* The parts of a slice that is split by a predicate (SplitByPredicate).
LEMMA PartsByPredicate ==
  ASSUME NEW s, IsSlice(s), NEW p, IsPredicate(p)
  PROVE  /\ Spans(SplitByPredicate(s, p)[1], s.min, s.max, And(s.pred, p))
         /\ Spans(SplitByPredicate(s, p)[2], s.min, s.max, And(s.pred, Not(p)))
<1> DEFINE keys == {k \in s.pending : Check(And(s.pred, p), dom[k])}
           a == [s EXCEPT !.pred = And(s.pred, p)]
           b == [s EXCEPT !.pred = And(s.pred, Not(p))]
<1>1. /\ SplitByPredicate(s, p)[1] = NewTracker(a, keys)
      /\ SplitByPredicate(s, p)[2] = NewTracker(b, s.pending \ keys)
  BY DEF SplitByPredicate
<1>2. IsPredicate(And(s.pred, p)) /\ IsPredicate(And(s.pred, Not(p)))
  BY PredicateAlgebra DEF IsSlice
<1>3. Spans(a, s.min, s.max, And(s.pred, p))
  BY <1>2, Repredicated
<1>4. Spans(b, s.min, s.max, And(s.pred, Not(p)))
  BY <1>2, Repredicated
<1> HIDE DEF a, b, keys
<1>5. Alike(a, NewTracker(a, keys)) /\ Alike(b, NewTracker(b, s.pending \ keys))
  BY <1>3, <1>4, TrackerOnly DEF Spans
<1>6. Spans(NewTracker(a, keys), s.min, s.max, And(s.pred, p))
  BY <1>3, <1>5 DEF Alike, Spans
<1>7. Spans(NewTracker(b, s.pending \ keys), s.min, s.max, And(s.pred, Not(p)))
  BY <1>4, <1>5 DEF Alike, Spans
<1> QED BY <1>1, <1>6, <1>7

\* The tasks of another slice are taken over (JoinTrackers).
LEMMA Joined ==
  ASSUME NEW s, IsSlice(s), NEW t
  PROVE  Alike(s, JoinTrackers(s, t))
<1> DEFINE x == s.pending \cup t.pending
           y == (s.acked \ t.pending) \cup t.acked
           z == Counted(s.count, t.pending)
           a == [s EXCEPT !.pending = x]
           b == [a EXCEPT !.acked = y]
           c == [b EXCEPT !.count = z]
<1>1. JoinTrackers(s, t) = c
  BY DEF JoinTrackers, AddTasks
<1> HIDE DEF x, y, z
<1>2. Alike(s, a)
  BY Changed
<1>3. Alike(a, b)
  BY <1>2, Changed DEF Alike, Spans
<1>4. Alike(b, c)
  BY <1>3, Changed DEF Alike, Spans
<1> HIDE DEF a, b, c
<1>5. Alike(s, c)
  BY <1>2, <1>3, <1>4 DEF Alike, Spans
<1> QED BY <1>1, <1>5

\* Slices merged by predicate (mergeVirtualSlicesByPredicate): the range is
\* that of the first.
LEMMA MergedByPredicate ==
  ASSUME NEW s, IsSlice(s), NEW t, IsSlice(t)
  PROVE  Spans(MergeByPredicate(s, t), s.min, s.max, Or(s.pred, t.pred))
<1> DEFINE j == JoinTrackers(s, t)
           p == Or(s.pred, t.pred)
           m == MergeProgress("next", s.progress, t.progress)
           a == [j EXCEPT !.pred = p]
           b == [a EXCEPT !.progress = m]
           c == [b EXCEPT !.mark = {}]
<1>1. MergeByPredicate(s, t) = c
  BY DEF MergeByPredicate, Rebuilt
<1>2. Alike(s, j)
  BY Joined
<1>3. IsPredicate(p)
  BY PredicateAlgebra DEF IsSlice
<1> HIDE DEF j, p, m
<1>4. Spans(a, j.min, j.max, p)
  BY <1>2, <1>3, Repredicated DEF Alike, Spans
<1> HIDE DEF a
<1>5. Alike(a, b)
  BY <1>4, Changed DEF Spans
<1> HIDE DEF b
<1>6. Alike(b, c)
  BY <1>5, Changed DEF Alike, Spans
<1> HIDE DEF c
<1>7. Spans(c, s.min, s.max, p)
  BY <1>2, <1>4, <1>5, <1>6 DEF Alike, Spans
<1> QED BY <1>1, <1>7 DEF p

\* Slices merged by range (mergeVirtualSlicesByRange), with a predicate that
\* both have: from the lower end of the one that begins first to the upper
\* end of the one that ends last.
LEMMA MergedByRange ==
  ASSUME NEW s, IsSlice(s), NEW t, IsSlice(t), s.pred = t.pred
  PROVE  Spans(MergeByRange(s, t), IF s.min > t.min THEN t.min ELSE s.min,
               Greater(s.max, t.max), s.pred)
<1> DEFINE l == IF s.min > t.min THEN t ELSE s
           r == IF s.min > t.min THEN s ELSE t
           j == JoinTrackers(l, r)
           hi == Greater(l.max, r.max)
           m == MergeProgress("min", l.progress, r.progress)
           a == [j EXCEPT !.max = hi]
           b == [a EXCEPT !.progress = m]
           c == [b EXCEPT !.mark = {}]
<1>1. MergeByRange(s, t) = c
  BY DEF MergeByRange, Rebuilt
<1>2. /\ IsSlice(l) /\ IsSlice(r) /\ l.pred = s.pred
      /\ l.min = IF s.min > t.min THEN t.min ELSE s.min
  OBVIOUS
<1>3. hi \in Int /\ hi = Greater(s.max, t.max)
  <2>1. l.max \in Int /\ r.max \in Int /\ {l.max, r.max} = {s.max, t.max}
    BY DEF IsSlice
  <2>2. Greater(l.max, r.max) = Greater(s.max, t.max)
    BY <2>1 DEF Greater
  <2>3. hi \in {l.max, r.max}
    BY <2>1, Bigger
  <2> QED BY <2>1, <2>2, <2>3
<1> HIDE DEF l, r, hi, m
<1>4. Alike(l, j)
  BY <1>2, Joined
<1> HIDE DEF j
<1>5. Spans(a, j.min, hi, j.pred)
  BY <1>3, <1>4, EndMoved DEF Alike, Spans
<1> HIDE DEF a
<1>6. Alike(a, b)
  BY <1>5, Changed DEF Spans
<1> HIDE DEF b
<1>7. Alike(b, c)
  BY <1>6, Changed DEF Alike, Spans
<1> HIDE DEF c
<1>8. Spans(c, l.min, hi, l.pred)
  BY <1>4, <1>5, <1>6, <1>7 DEF Alike, Spans
<1> QED BY <1>1, <1>2, <1>3, <1>8

\* What a slice of this range and with this predicate holds.
LEMMA SpansHolds ==
  ASSUME NEW s, NEW lo, NEW hi, NEW p, Spans(s, lo, hi, p), NEW k, NEW d
  PROVE  Holds(s, k, d) <=> (lo <= k /\ k < hi /\ Check(p, d))
BY DEF Spans, Holds, InRange

-----------------------------------------------------------------------------
(* What a split and a merge do to the tasks.                               *)

\* TrySplitByTaskKey: each task of the slice is held by one of the parts, and
\* the parts hold no other.
THEOREM SplitByKeyKeepsTasks ==
  ASSUME NEW s, IsSlice(s), NEW at \in Int, CanSplitByTaskKey(s, at), NEW k \in Int, NEW d
  PROVE  LET ss == SplitByTaskKey(s, at)
         IN  /\ Holds(s, k, d) <=> (Holds(ss[1], k, d) \/ Holds(ss[2], k, d))
             /\ ~(Holds(ss[1], k, d) /\ Holds(ss[2], k, d))
<1> DEFINE a == SplitByTaskKey(s, at)[1]
           b == SplitByTaskKey(s, at)[2]
<1>1. Spans(a, s.min, at, s.pred) /\ Spans(b, at, s.max, s.pred)
  BY PartsByKey
<1> HIDE DEF a, b
<1>2. Holds(a, k, d) <=> (s.min <= k /\ k < at /\ Check(s.pred, d))
  BY <1>1, SpansHolds
<1>3. Holds(b, k, d) <=> (at <= k /\ k < s.max /\ Check(s.pred, d))
  BY <1>1, SpansHolds
<1>4. Holds(s, k, d) <=> (s.min <= k /\ k < s.max /\ Check(s.pred, d))
  BY DEF Holds, InRange
<1>5. s.min \in Int /\ s.max \in Int /\ s.min < at /\ at < s.max
  BY DEF IsSlice, CanSplitByTaskKey
<1>6. /\ (s.min <= k /\ k < s.max) <=> ((s.min <= k /\ k < at) \/ (at <= k /\ k < s.max))
      /\ ~(k < at /\ at <= k)
  BY <1>5, Order, Chain
<1> QED BY <1>2, <1>3, <1>4, <1>6 DEF a, b

\* TrySplitByPredicate: the same.
THEOREM SplitByPredicateKeepsTasks ==
  ASSUME NEW s, IsSlice(s), NEW p, IsPredicate(p), NEW k, NEW d
  PROVE  LET ss == SplitByPredicate(s, p)
         IN  /\ Holds(s, k, d) <=> (Holds(ss[1], k, d) \/ Holds(ss[2], k, d))
             /\ ~(Holds(ss[1], k, d) /\ Holds(ss[2], k, d))
<1> DEFINE a == SplitByPredicate(s, p)[1]
           b == SplitByPredicate(s, p)[2]
<1>1. Spans(a, s.min, s.max, And(s.pred, p)) /\ Spans(b, s.min, s.max, And(s.pred, Not(p)))
  BY PartsByPredicate
<1> HIDE DEF a, b
<1>2. Holds(a, k, d) <=> (s.min <= k /\ k < s.max /\ Check(And(s.pred, p), d))
  BY <1>1, SpansHolds
<1>3. Holds(b, k, d) <=> (s.min <= k /\ k < s.max /\ Check(And(s.pred, Not(p)), d))
  BY <1>1, SpansHolds
<1>4. Holds(s, k, d) <=> (s.min <= k /\ k < s.max /\ Check(s.pred, d))
  BY DEF Holds, InRange
<1>5. IsPredicate(s.pred) /\ IsPredicate(Not(p)) /\ (Check(Not(p), d) <=> ~Check(p, d))
  BY PredicateAlgebra DEF IsSlice
<1>6. Check(And(s.pred, p), d) <=> (Check(s.pred, d) /\ Check(p, d))
  BY <1>5, PredicateAlgebra
<1>7. Check(And(s.pred, Not(p)), d) <=> (Check(s.pred, d) /\ Check(Not(p), d))
  BY <1>5, PredicateAlgebra
<1> QED BY <1>2, <1>3, <1>4, <1>5, <1>6, <1>7 DEF a, b

\* s is before t, in the order that a merge puts them into.
Before(s, t) == s.min < t.min \/ (s.min = t.min /\ s.max <= t.max)

\* The slices of a list are in the order of their ranges and do not overlap.
Ordered(slices) == \A i, j \in DOMAIN slices : i < j => slices[i].max <= slices[j].min

\* Lists of two and of three slices that are in order.
LEMMA ShortOrdered ==
  ASSUME NEW a, NEW b, NEW c
  PROVE  /\ Ordered(<<a>>)
         /\ a.max <= b.min => Ordered(<<a, b>>)
         /\ (a.max <= b.min /\ b.max <= c.min /\ a.max <= c.min) => Ordered(<<a, b, c>>)
<1>1. Ordered(<<a>>)
  <2>1. DOMAIN <<a>> = {1}
    BY Lists
  <2>2. ~(1 < 1)
    BY Indices
  <2> QED BY <2>1, <2>2 DEF Ordered
<1>2. ASSUME a.max <= b.min PROVE Ordered(<<a, b>>)
  <2>1. DOMAIN <<a, b>> = {1, 2} /\ <<a, b>>[1] = a /\ <<a, b>>[2] = b
    BY Lists
  <2>2. ~(1 < 1) /\ ~(2 < 1) /\ ~(2 < 2)
    BY Indices
  <2> QED BY <1>2, <2>1, <2>2 DEF Ordered
<1>3. ASSUME a.max <= b.min /\ b.max <= c.min /\ a.max <= c.min PROVE Ordered(<<a, b, c>>)
  <2>1. DOMAIN <<a, b, c>> = {1, 2, 3} /\ <<a, b, c>>[1] = a /\ <<a, b, c>>[2] = b /\ <<a, b, c>>[3] = c
    BY SMTT(30)
  <2>2. ~(1 < 1) /\ ~(2 < 1) /\ ~(2 < 2) /\ ~(3 < 1) /\ ~(3 < 2) /\ ~(3 < 3)
    BY Indices
  <2> QED BY <1>3, <2>1, <2>2 DEF Ordered
<1> QED BY <1>1, <1>2, <1>3

\* mergeVirtualSlicesWithDifferentPredicate, of slices that have a key: what
\* replaces them holds the tasks of both and no other, in order.
LEMMA OverlapMerged ==
  ASSUME NEW s, IsSlice(s), s.min < s.max, NEW t, IsSlice(t), t.min < t.max, Before(s, t),
         MergeOverlap(s, t) # <<>>, NEW k \in Int, NEW d
  PROVE  /\ HoldsIn(MergeOverlap(s, t), k, d) <=> (Holds(s, k, d) \/ Holds(t, k, d))
         /\ Ordered(MergeOverlap(s, t))
<1> DEFINE both == Or(s.pred, t.pred)
           S(lo, hi) == lo <= k /\ k < hi /\ Check(s.pred, d)
           T(lo, hi) == lo <= k /\ k < hi /\ Check(t.pred, d)
           B(lo, hi) == lo <= k /\ k < hi /\ Check(both, d)
<1>1. s.min \in Int /\ s.max \in Int /\ t.min \in Int /\ t.max \in Int
  BY DEF IsSlice
<1>2. (Holds(s, k, d) <=> S(s.min, s.max)) /\ (Holds(t, k, d) <=> T(t.min, t.max))
  BY DEF Holds, InRange
<1>3. Check(both, d) <=> (Check(s.pred, d) \/ Check(t.pred, d))
  BY PredicateAlgebra DEF IsSlice
<1>4. s.min <= t.min /\ (s.min = t.min => s.max <= t.max)
  BY <1>1, Order DEF Before
<1>5. s.max <= s.max /\ t.min <= t.min /\ t.max <= t.max
  BY <1>1, Order
<1> DEFINE res == MergeOverlap(s, t)
<1>6. ASSUME s.min = t.min, CanSplitByTaskKey(t, s.max)
      PROVE  (HoldsIn(res, k, d) <=> (Holds(s, k, d) \/ Holds(t, k, d))) /\ Ordered(res)
  <2> DEFINE t1 == SplitByTaskKey(t, s.max)[1]
             t2 == SplitByTaskKey(t, s.max)[2]
             m == MergeByPredicate(s, t1)
  <2>1. res = <<m, t2>>
    BY <1>6 DEF MergeOverlap
  <2>2. Spans(t1, t.min, s.max, t.pred) /\ Spans(t2, s.max, t.max, t.pred)
    BY <1>1, PartsByKey
  <2> HIDE DEF t1, t2
  <2>3. Spans(m, s.min, s.max, both)
    <3>1. IsSlice(t1) /\ t1.pred = t.pred
      BY <2>2 DEF Spans
    <3>2. Spans(m, s.min, s.max, Or(s.pred, t1.pred))
      BY <3>1, MergedByPredicate
    <3> HIDE DEF m
    <3> QED BY <3>1, <3>2
  <2> HIDE DEF m, res
  <2>4. (Holds(m, k, d) <=> B(s.min, s.max)) /\ (Holds(t2, k, d) <=> T(s.max, t.max))
    BY <2>2, <2>3, SpansHolds
  <2>5. (B(s.min, s.max) \/ T(s.max, t.max)) <=> (S(s.min, s.max) \/ T(t.min, t.max))
    BY <1>1, <1>3, <1>6, Order, Chain DEF CanSplitByTaskKey
  <2>6. HoldsIn(res, k, d) <=> (Holds(m, k, d) \/ Holds(t2, k, d))
    BY <2>1, ShortLists
  <2>7. m.max <= t2.min
    BY <1>5, <2>2, <2>3 DEF Spans
  <2>8. Ordered(res)
    BY <2>1, <2>7, ShortOrdered
  <2> QED BY <1>2, <2>4, <2>5, <2>6, <2>8
<1>7. ASSUME s.min = t.min, ~CanSplitByTaskKey(t, s.max)
      PROVE  (HoldsIn(res, k, d) <=> (Holds(s, k, d) \/ Holds(t, k, d))) /\ Ordered(res)
  <2> DEFINE m == MergeByPredicate(s, t)
  <2>1. res = <<m>>
    BY <1>7 DEF MergeOverlap
  <2>2. Spans(m, s.min, s.max, both)
    BY MergedByPredicate
  <2> HIDE DEF m, res
  <2>3. s.max = t.max
    BY <1>1, <1>4, <1>7, Order DEF CanSplitByTaskKey
  <2>4. Holds(m, k, d) <=> B(s.min, s.max)
    BY <2>2, SpansHolds
  <2>5. B(s.min, s.max) <=> (S(s.min, s.max) \/ T(t.min, t.max))
    BY <1>3, <1>7, <2>3
  <2>6. HoldsIn(res, k, d) <=> Holds(m, k, d)
    BY <2>1, ShortLists
  <2>7. Ordered(res)
    BY <2>1, ShortOrdered
  <2> QED BY <1>2, <2>4, <2>5, <2>6, <2>7
<1>8. ASSUME s.min # t.min
      PROVE  (HoldsIn(res, k, d) <=> (Holds(s, k, d) \/ Holds(t, k, d))) /\ Ordered(res)
  <2> DEFINE s1 == SplitByTaskKey(s, t.min)[1]
             s2 == SplitByTaskKey(s, t.min)[2]
  <2>1. s.min < t.min
    BY <1>1, <1>4, <1>8, Order
  <2>2. CanSplitByTaskKey(s, t.min)
    BY <1>8 DEF MergeOverlap
  <2>3. t.min < s.max
    BY <2>2 DEF CanSplitByTaskKey
  <2>4. Spans(s1, s.min, t.min, s.pred) /\ Spans(s2, t.min, s.max, s.pred)
    BY <1>1, PartsByKey
  <2>5. Holds(s1, k, d) <=> S(s.min, t.min)
    BY <2>4, SpansHolds
  <2>6. ASSUME CanSplitByTaskKey(t, s.max)
        PROVE  (HoldsIn(res, k, d) <=> (Holds(s, k, d) \/ Holds(t, k, d))) /\ Ordered(res)
    <3> DEFINE t1 == SplitByTaskKey(t, s.max)[1]
               t2 == SplitByTaskKey(t, s.max)[2]
               m == MergeByPredicate(s2, t1)
    <3>1. res = <<s1, m, t2>>
      BY <1>8, <2>2, <2>6 DEF MergeOverlap
    <3>2. Spans(t1, t.min, s.max, t.pred) /\ Spans(t2, s.max, t.max, t.pred)
      BY <1>1, PartsByKey
    <3> HIDE DEF s1, s2, t1, t2
    <3>3. Spans(m, t.min, s.max, both)
      <4>1. /\ IsSlice(s2) /\ s2.min = t.min /\ s2.max = s.max /\ s2.pred = s.pred
            /\ IsSlice(t1) /\ t1.pred = t.pred
        BY <2>4, <3>2 DEF Spans
      <4>2. Spans(m, s2.min, s2.max, Or(s2.pred, t1.pred))
        BY <4>1, MergedByPredicate
      <4> HIDE DEF m
      <4> QED BY <4>1, <4>2
    <3> HIDE DEF m, res
    <3>4. (Holds(m, k, d) <=> B(t.min, s.max)) /\ (Holds(t2, k, d) <=> T(s.max, t.max))
      BY <3>2, <3>3, SpansHolds
    <3>5. (S(s.min, t.min) \/ B(t.min, s.max) \/ T(s.max, t.max))
            <=> (S(s.min, s.max) \/ T(t.min, t.max))
      BY <1>1, <1>3, <2>1, <2>6, Order, Chain DEF CanSplitByTaskKey
    <3>6. HoldsIn(res, k, d) <=> (Holds(s1, k, d) \/ Holds(m, k, d) \/ Holds(t2, k, d))
      BY <3>1, ShortLists
    <3>7. s1.max <= m.min /\ m.max <= t2.min
      BY <1>5, <2>4, <3>2, <3>3 DEF Spans
    <3>8. s1.max = t.min /\ t2.min = s.max
      BY <2>4, <3>2 DEF Spans
    <3>9. s1.max <= t2.min
      BY <1>1, <2>3, <3>8, Order
    <3>10. Ordered(res)
      BY <3>1, <3>7, <3>9, ShortOrdered
    <3> QED BY <1>2, <2>5, <3>4, <3>5, <3>6, <3>10
  <2>7. ASSUME ~CanSplitByTaskKey(t, s.max), CanSplitByTaskKey(s2, t.max)
        PROVE  (HoldsIn(res, k, d) <=> (Holds(s, k, d) \/ Holds(t, k, d))) /\ Ordered(res)
    <3> DEFINE r1 == SplitByTaskKey(s2, t.max)[1]
               r2 == SplitByTaskKey(s2, t.max)[2]
               m == MergeByPredicate(r1, t)
    <3>1. res = <<s1, m, r2>>
      BY <1>8, <2>2, <2>7 DEF MergeOverlap
    <3> HIDE DEF s1, s2
    <3>2. Spans(r1, t.min, t.max, s.pred) /\ Spans(r2, t.max, s.max, s.pred)
      <4>1. IsSlice(s2) /\ s2.min = t.min /\ s2.max = s.max /\ s2.pred = s.pred
        BY <2>4 DEF Spans
      <4>2. Spans(r1, s2.min, t.max, s2.pred) /\ Spans(r2, t.max, s2.max, s2.pred)
        BY <1>1, <4>1, PartsByKey
      <4> HIDE DEF r1, r2
      <4> QED BY <4>1, <4>2
    <3> HIDE DEF r1, r2
    <3>3. Spans(m, t.min, t.max, both)
      <4>1. IsSlice(r1) /\ r1.min = t.min /\ r1.max = t.max /\ r1.pred = s.pred
        BY <3>2 DEF Spans
      <4>2. Spans(m, r1.min, r1.max, Or(r1.pred, t.pred))
        BY <4>1, MergedByPredicate
      <4> HIDE DEF m
      <4> QED BY <4>1, <4>2
    <3> HIDE DEF m, res
    <3>4. (Holds(m, k, d) <=> B(t.min, t.max)) /\ (Holds(r2, k, d) <=> S(t.max, s.max))
      BY <3>2, <3>3, SpansHolds
    <3>5. t.max < s.max
      BY <2>4, <2>7 DEF Spans, CanSplitByTaskKey
    <3>6. (S(s.min, t.min) \/ B(t.min, t.max) \/ S(t.max, s.max))
            <=> (S(s.min, s.max) \/ T(t.min, t.max))
      BY <1>1, <1>3, <2>1, <3>5, Order, Chain
    <3>7. HoldsIn(res, k, d) <=> (Holds(s1, k, d) \/ Holds(m, k, d) \/ Holds(r2, k, d))
      BY <3>1, ShortLists
    <3>8. s1.max <= m.min /\ m.max <= r2.min
      BY <1>5, <2>4, <3>2, <3>3 DEF Spans
    <3>9. s1.max = t.min /\ r2.min = t.max
      BY <2>4, <3>2 DEF Spans
    <3>10. s1.max <= r2.min
      BY <1>1, <3>9, Order
    <3>11. Ordered(res)
      BY <3>1, <3>8, <3>10, ShortOrdered
    <3> QED BY <1>2, <2>5, <3>4, <3>6, <3>7, <3>11
  <2>8. ASSUME ~CanSplitByTaskKey(t, s.max), ~CanSplitByTaskKey(s2, t.max)
        PROVE  (HoldsIn(res, k, d) <=> (Holds(s, k, d) \/ Holds(t, k, d))) /\ Ordered(res)
    <3> DEFINE m == MergeByPredicate(s2, t)
    <3>1. res = <<s1, m>>
      BY <1>8, <2>2, <2>8 DEF MergeOverlap
    <3> HIDE DEF s1, s2
    <3>2. Spans(m, t.min, s.max, both)
      <4>1. IsSlice(s2) /\ s2.min = t.min /\ s2.max = s.max /\ s2.pred = s.pred
        BY <2>4 DEF Spans
      <4>2. Spans(m, s2.min, s2.max, Or(s2.pred, t.pred))
        BY <4>1, MergedByPredicate
      <4> HIDE DEF m
      <4> QED BY <4>1, <4>2
    <3> HIDE DEF m, res
    <3>3. s2.min = t.min /\ s2.max = s.max
      BY <2>4 DEF Spans
    <3>4. s.max = t.max
      BY <1>1, <2>3, <2>8, <3>3, Order DEF CanSplitByTaskKey
    <3>5. Holds(m, k, d) <=> B(t.min, s.max)
      BY <3>2, SpansHolds
    <3>6. (S(s.min, t.min) \/ B(t.min, s.max)) <=> (S(s.min, s.max) \/ T(t.min, t.max))
      BY <1>1, <1>3, <2>1, <2>3, <3>4, Order, Chain
    <3>7. HoldsIn(res, k, d) <=> (Holds(s1, k, d) \/ Holds(m, k, d))
      BY <3>1, ShortLists
    <3>8. s1.max <= m.min
      BY <1>5, <2>4, <3>2 DEF Spans
    <3>9. Ordered(res)
      BY <3>1, <3>8, ShortOrdered
    <3> QED BY <1>2, <2>5, <3>5, <3>6, <3>7, <3>9
  <2> QED BY <2>6, <2>7, <2>8
<1> QED BY <1>6, <1>7, <1>8

\* TryMergeWithVirtualSlice, of slices that have a key: when it merges, what
\* replaces the two holds the tasks of both and no other, in the order of the
\* ranges and without overlap.  (A slice without a key, all of whose tasks are
\* done but which has not left its queue yet, is where it does not: see the run
\* queues_empty_merge.)
THEOREM MergeKeepsTasks ==
  ASSUME NEW s, IsSlice(s), s.min < s.max, NEW t, IsSlice(t), t.min < t.max,
         TryMerge(s, t) # <<>>, NEW k \in Int, NEW d
  PROVE  /\ HoldsIn(TryMerge(s, t), k, d) <=> (Holds(s, k, d) \/ Holds(t, k, d))
         /\ Ordered(TryMerge(s, t))
<1>1. s.min \in Int /\ s.max \in Int /\ t.min \in Int /\ t.max \in Int
  BY DEF IsSlice
<1>2. CanMerge(s, t)
  BY DEF TryMerge
<1>3. CASE s.pred = t.pred
  <2> DEFINE m == MergeByRange(s, t)
             lo == IF s.min > t.min THEN t.min ELSE s.min
             hi == Greater(s.max, t.max)
  <2>1. TryMerge(s, t) = <<m>>
    BY <1>2, <1>3 DEF TryMerge
  <2>2. Spans(m, lo, hi, s.pred)
    BY <1>3, MergedByRange
  <2>3. hi = IF s.max >= t.max THEN s.max ELSE t.max
    BY <1>1, Bigger
  <2> HIDE DEF m, hi
  <2>4. (lo <= k /\ k < hi) <=> ((s.min <= k /\ k < s.max) \/ (t.min <= k /\ k < t.max))
    BY <1>1, <1>2, <2>3, Order, Chain DEF CanMerge
  <2> HIDE DEF lo
  <2>5. Holds(m, k, d) <=> (lo <= k /\ k < hi /\ Check(s.pred, d))
    BY <2>2, SpansHolds
  <2>6. Holds(m, k, d) <=> (Holds(s, k, d) \/ Holds(t, k, d))
    BY <1>3, <2>4, <2>5 DEF Holds, InRange
  <2>7. HoldsIn(<<m>>, k, d) <=> Holds(m, k, d)
    BY ShortLists
  <2>8. Ordered(<<m>>)
    BY ShortOrdered
  <2> QED BY <2>1, <2>6, <2>7, <2>8
<1>4. CASE s.pred # t.pred
  <2>1. CASE s.min > t.min \/ (s.min = t.min /\ s.max > t.max)
    <3>1. TryMerge(s, t) = MergeOverlap(t, s)
      BY <1>2, <1>4, <2>1 DEF TryMerge
    <3>2. Before(t, s)
      BY <1>1, <2>1, Order DEF Before
    <3>3. MergeOverlap(t, s) # <<>>
      BY <3>1
    <3> QED BY <3>1, <3>2, <3>3, OverlapMerged
  <2>2. CASE ~(s.min > t.min \/ (s.min = t.min /\ s.max > t.max))
    <3>1. TryMerge(s, t) = MergeOverlap(s, t)
      BY <1>2, <1>4, <2>2 DEF TryMerge
    <3>2. Before(s, t)
      BY <1>1, <2>2, Order DEF Before
    <3>3. MergeOverlap(s, t) # <<>>
      BY <3>1
    <3> QED BY <3>1, <3>2, <3>3, OverlapMerged
  <2> QED BY <2>1, <2>2
<1> QED BY <1>3, <1>4

-----------------------------------------------------------------------------
(* What is still to be read.                                               *)

\* The key is still to be read.
ToRead(p, k) == p.next <= k /\ k < p.max

\* According to some progress of the list.
ToReadIn(ps, k) == \E i \in DOMAIN ps : ToRead(ps[i], k)

\* The key was read.
WasRead(p, k) == p.min <= k /\ k < p.next

\* Lists of at most two.
LEMMA ShortProgress ==
  ASSUME NEW a, NEW b, NEW k
  PROVE  /\ ~ToReadIn(<<>>, k)
         /\ ToReadIn(<<a>>, k) <=> ToRead(a, k)
         /\ ToReadIn(<<a, b>>, k) <=> (ToRead(a, k) \/ ToRead(b, k))
<1>1. DOMAIN <<>> = {}
  BY Lists
<1>2. DOMAIN <<a>> = {1} /\ <<a>>[1] = a
  BY Lists
<1>3. DOMAIN <<a, b>> = {1, 2} /\ <<a, b>>[1] = a /\ <<a, b>>[2] = b
  BY Lists
<1>4. ~ToReadIn(<<>>, k)
  BY <1>1 DEF ToReadIn
<1>5. ToReadIn(<<a>>, k) <=> ToRead(a, k)
  BY <1>2 DEF ToReadIn
<1>6. ToReadIn(<<a, b>>, k) <=> (ToRead(a, k) \/ ToRead(b, k))
  BY <1>3 DEF ToReadIn
<1> QED BY <1>4, <1>5, <1>6

\* What is to be read of a new progress: all of its range.
LEMMA NewProgress ==
  ASSUME NEW lo, NEW hi, NEW k
  PROVE  ToRead(Progress(lo, hi), k) <=> (lo <= k /\ k < hi)
<1>1. Progress(lo, hi).next = lo /\ Progress(lo, hi).max = hi
  BY DEF Progress
<1> QED BY <1>1 DEF ToRead

\* TrySplitByTaskKey: every key that is still to be read is to be read in the
\* part that holds it.  No other is, unless the slice has moved on since the
\* progress was made (UpdateAndGetState moves the lower end of the slice and
\* not that of the progress): then keys up to the one it is split at may be
\* read once more.
THEOREM SplitProgressKeepsKeys ==
  ASSUME NEW p, IsProgress(p), NEW l, NEW r, NEW at \in Int, NEW k \in Int,
         l.min \in Int, r.max \in Int, l.max = at, r.min = at, l.min <= p.next
  PROVE  LET parts == SplitProgress(p, l, r)
         IN  /\ (ToRead(p, k) /\ k < at) => ToReadIn(parts[1], k)
             /\ (ToRead(p, k) /\ at <= k) => ToReadIn(parts[2], k)
             /\ l.min <= p.min => /\ ToReadIn(parts[1], k) => (ToRead(p, k) /\ k < at)
                                  /\ ToReadIn(parts[2], k) => (ToRead(p, k) /\ at <= k)
<1> DEFINE a == SplitProgress(p, l, r)[1]
           b == SplitProgress(p, l, r)[2]
           goal == /\ (ToRead(p, k) /\ k < at) => ToReadIn(a, k)
                   /\ (ToRead(p, k) /\ at <= k) => ToReadIn(b, k)
                   /\ l.min <= p.min => /\ ToReadIn(a, k) => (ToRead(p, k) /\ k < at)
                                        /\ ToReadIn(b, k) => (ToRead(p, k) /\ at <= k)
<1>1. p.min \in Int /\ p.next \in Int /\ p.max \in Int /\ p.min <= p.next /\ p.next <= p.max
  BY DEF IsProgress
<1>2. ToRead(p, k) <=> (p.next <= k /\ k < p.max)
  BY DEF ToRead
<1>3. CASE ContainsRange(l, p)
  <2>1. a = <<p>> /\ b = <<>>
    BY <1>3 DEF SplitProgress
  <2> HIDE DEF a, b
  <2>2. (ToReadIn(a, k) <=> ToRead(p, k)) /\ ~ToReadIn(b, k)
    BY <2>1, ShortProgress
  <2>3. k < p.max => (k < at /\ ~(at <= k))
    <3>1. p.max <= at
      BY <1>1, <1>3, Order DEF ContainsRange
    <3> QED BY <1>1, <3>1, Order, Chain
  <2> QED BY <1>2, <2>2, <2>3 DEF a, b
<1>4. CASE ~ContainsRange(l, p) /\ ContainsRange(r, p)
  <2>1. a = <<>> /\ b = <<p>>
    BY <1>4 DEF SplitProgress
  <2> HIDE DEF a, b
  <2>2. (ToReadIn(b, k) <=> ToRead(p, k)) /\ ~ToReadIn(a, k)
    BY <2>1, ShortProgress
  <2>3. p.next <= k => (at <= k /\ ~(k < at))
    <3>1. at <= p.min
      BY <1>4 DEF ContainsRange
    <3>2. at <= p.next
      BY <1>1, <3>1, Chain
    <3> QED BY <1>1, <3>2, Order, Chain
  <2> QED BY <1>2, <2>2, <2>3 DEF a, b
<1>5. CASE ~ContainsRange(l, p) /\ ~ContainsRange(r, p) /\ InRange(l, p.next)
  <2>1. a = <<Progress(p.next, at)>> /\ b = <<Progress(at, p.max)>>
    BY <1>5 DEF SplitProgress
  <2> HIDE DEF a, b
  <2>2. (ToReadIn(a, k) <=> (p.next <= k /\ k < at)) /\ (ToReadIn(b, k) <=> (at <= k /\ k < p.max))
    <3>1. ToReadIn(<<Progress(p.next, at)>>, k) <=> ToRead(Progress(p.next, at), k)
      BY ShortProgress
    <3>2. ToReadIn(<<Progress(at, p.max)>>, k) <=> ToRead(Progress(at, p.max), k)
      BY ShortProgress
    <3> QED BY <2>1, <3>1, <3>2, NewProgress
  <2>3. p.next < at /\ (l.min <= p.min => at < p.max)
    <3>1. p.next < at
      BY <1>5 DEF InRange
    <3>2. ASSUME l.min <= p.min PROVE at < p.max
      <4>1. ~(at >= p.max)
        BY <1>5, <3>2 DEF ContainsRange
      <4> QED BY <1>1, <4>1, Order
    <3> QED BY <3>1, <3>2
  <2>4. /\ at <= k => p.next <= k
        /\ (l.min <= p.min /\ k < at) => k < p.max
    BY <1>1, <2>3, Order, Chain
  <2> QED BY <1>2, <2>2, <2>4 DEF a, b
<1>6. CASE ~ContainsRange(l, p) /\ ~ContainsRange(r, p) /\ ~InRange(l, p.next)
  <2>1. a = <<>> /\ b = <<Progress(p.next, p.max)>>
    BY <1>6 DEF SplitProgress
  <2> HIDE DEF a, b
  <2>2. ~ToReadIn(a, k) /\ (ToReadIn(b, k) <=> (p.next <= k /\ k < p.max))
    <3>1. ~ToReadIn(<<>>, k)
      BY ShortProgress
    <3>2. ToReadIn(<<Progress(p.next, p.max)>>, k) <=> ToRead(Progress(p.next, p.max), k)
      BY ShortProgress
    <3> QED BY <2>1, <3>1, <3>2, NewProgress
  <2>3. p.next <= k => (at <= k /\ ~(k < at))
    <3>1. ~(p.next < at)
      BY <1>6 DEF InRange
    <3>2. at <= p.next
      BY <1>1, <3>1, Order
    <3> QED BY <1>1, <3>2, Order, Chain
  <2> QED BY <1>2, <2>2, <2>3 DEF a, b
<1> QED BY <1>3, <1>4, <1>5, <1>6

\* mergeProgressWithSamePredicate: to be read is what lies in one of the two
\* ranges and was read in neither.
THEOREM SamePredicateProgress ==
  ASSUME NEW l, IsProgress(l), NEW r, IsProgress(r), l.min <= r.min, NEW k \in Int
  PROVE  ToReadIn(MergeSame(l, r), k)
           <=> ((ToRead(l, k) \/ ToRead(r, k)) /\ ~WasRead(l, k) /\ ~WasRead(r, k))
<1> DEFINE from == Greater(l.next, r.next)
           to == Greater(l.max, r.max)
           both == [min |-> from, max |-> to, next |-> from]
           last == [both EXCEPT !.min = r.next]
           first == Progress(l.next, Lesser(l.max, r.min))
           goal == (ToRead(l, k) \/ ToRead(r, k)) /\ ~WasRead(l, k) /\ ~WasRead(r, k)
<1>1. /\ l.min \in Int /\ l.next \in Int /\ l.max \in Int /\ l.min <= l.next /\ l.next <= l.max
      /\ r.min \in Int /\ r.next \in Int /\ r.max \in Int /\ r.min <= r.next /\ r.next <= r.max
  BY DEF IsProgress
<1>2. /\ from = IF l.next >= r.next THEN l.next ELSE r.next
      /\ to = IF l.max >= r.max THEN l.max ELSE r.max
      /\ Lesser(l.max, r.min) = IF l.max <= r.min THEN l.max ELSE r.min
  BY <1>1, Bigger, Smaller
<1>3. goal <=> /\ (l.next <= k /\ k < l.max) \/ (r.next <= k /\ k < r.max)
               /\ ~(l.min <= k /\ k < l.next) /\ ~(r.min <= k /\ k < r.next)
  BY DEF ToRead, WasRead
<1>4. CASE l.next < r.min
  <2>1. MergeSame(l, r) = <<first, last>>
    BY <1>4 DEF MergeSame
  <2>2. last.next = from /\ last.max = to
    OBVIOUS
  <2>3. ToRead(last, k) <=> (from <= k /\ k < to)
    BY <2>2 DEF ToRead
  <2>4. ToRead(first, k) <=> (l.next <= k /\ k < Lesser(l.max, r.min))
    BY NewProgress
  <2> HIDE DEF first, last, from, to
  <2>5. ToReadIn(MergeSame(l, r), k) <=> (ToRead(first, k) \/ ToRead(last, k))
    BY <2>1, ShortProgress
  <2> HIDE DEF goal
  <2>6. ((l.next <= k /\ k < Lesser(l.max, r.min)) \/ (from <= k /\ k < to)) <=> goal
    <3>1. ((l.next <= k /\ k < Lesser(l.max, r.min)) \/ (from <= k /\ k < to))
          <=> /\ (l.next <= k /\ k < l.max) \/ (r.next <= k /\ k < r.max)
              /\ ~(l.min <= k /\ k < l.next) /\ ~(r.min <= k /\ k < r.next)
      BY <1>1, <1>2, <1>4, Apart
    <3> QED BY <3>1, <1>3
  <2>7. ToReadIn(MergeSame(l, r), k) <=> goal
    BY <2>3, <2>4, <2>5, <2>6
  <2> QED BY <2>7 DEF goal
<1>5. CASE ~(l.next < r.min)
  <2>1. MergeSame(l, r) = <<both>>
    BY <1>5 DEF MergeSame
  <2>2. both.next = from /\ both.max = to
    OBVIOUS
  <2>3. ToRead(both, k) <=> (from <= k /\ k < to)
    BY <2>2 DEF ToRead
  <2> HIDE DEF both, from, to
  <2>4. ToReadIn(MergeSame(l, r), k) <=> ToRead(both, k)
    BY <2>1, ShortProgress
  <2> HIDE DEF goal
  <2>5. (from <= k /\ k < to) <=> goal
    BY <1>1, <1>2, <1>3, <1>5, Order, Chain
  <2>6. ToReadIn(MergeSame(l, r), k) <=> goal
    BY <2>3, <2>4, <2>5
  <2> QED BY <2>6 DEF goal
<1> QED BY <1>4, <1>5

\* mergeProgressWithDifferentPredicate: to be read is what was to be read in
\* either: a task of one slice has not been read with the predicate of the
\* other.
THEOREM DifferentPredicateProgress ==
  ASSUME NEW l, IsProgress(l), NEW r, IsProgress(r), l.next <= r.next, NEW k \in Int
  PROVE  ToReadIn(MergeDifferent(l, r), k) <=> (ToRead(l, k) \/ ToRead(r, k))
<1> DEFINE to == Greater(l.max, r.max)
<1>1. /\ l.next \in Int /\ l.max \in Int /\ l.next <= l.max
      /\ r.next \in Int /\ r.max \in Int /\ r.next <= r.max
  BY DEF IsProgress
<1>2. to = IF l.max >= r.max THEN l.max ELSE r.max
  BY <1>1, Bigger
<1>3. (ToRead(l, k) <=> (l.next <= k /\ k < l.max)) /\ (ToRead(r, k) <=> (r.next <= k /\ k < r.max))
  BY DEF ToRead
<1>4. CASE l.max < r.next
  <2>1. MergeDifferent(l, r) = <<Progress(l.next, l.max), Progress(r.next, r.max)>>
    BY <1>4 DEF MergeDifferent
  <2>2. ToReadIn(<<Progress(l.next, l.max), Progress(r.next, r.max)>>, k)
          <=> (ToRead(Progress(l.next, l.max), k) \/ ToRead(Progress(r.next, r.max), k))
    BY ShortProgress
  <2> QED BY <1>3, <2>1, <2>2, NewProgress
<1>5. CASE ~(l.max < r.next)
  <2>1. MergeDifferent(l, r) = <<Progress(l.next, to)>>
    BY <1>5 DEF MergeDifferent
  <2>2. ToReadIn(<<Progress(l.next, to)>>, k) <=> ToRead(Progress(l.next, to), k)
    BY ShortProgress
  <2>3. ToRead(Progress(l.next, to), k) <=> (l.next <= k /\ k < to)
    BY NewProgress
  <2> HIDE DEF to
  <2>4. (l.next <= k /\ k < to) <=> ((l.next <= k /\ k < l.max) \/ (r.next <= k /\ k < r.max))
    BY <1>1, <1>2, <1>5, Order, Chain
  <2> QED BY <1>3, <2>1, <2>2, <2>3, <2>4
<1> QED BY <1>4, <1>5
=============================================================================
