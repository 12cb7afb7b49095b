---------------------------- MODULE ShardProofs -----------------------------
(***************************************************************************)
(* The lease of a shard, its task IDs and its delayed writes, for every    *)
(* number of contexts, range size and bound: ShardContext alone, and with  *)
(* the queues of ShardQueue.  IInv is the inductive invariant.  Then the   *)
(* ack levels and the tasks of ShardQueue, with the invariant QInv.        *)
(***************************************************************************)
EXTENDS ShardQueue, WellFoundedInduction, TLAPS

\* The prover of a leaf that names none.
USE ZenonT(60)

\* The database has given c a range ID that c does not know of yet.
Granted(c) == pc[c] = "wait" /\ call[c].op = "renew" /\ fate[c] = "applied"

HasLease(c, r) ==
  \/ status[c] = "open" /\ rangeID[c] = r
  \/ Granted(c) /\ call[c].next = r

Written(i) ==
  \/ \E t \in tasks : t.id = i
  \/ \E q \in late : \E t \in q.rows : t.id = i

Taken(i) == \E c \in Context : i \in job[c].ids

Writing(c) == pc[c] = "wait" /\ call[c].op = "write"

WellFormed(q) ==
  /\ q.op = "renew" => q.next = q.prev + 1
  /\ q.op = "persist" => q.next = q.prev
  /\ q.op # "write" => q.rows = {}
  /\ \A t \in q.rows : t.kind # "generate"

\* The operation that holds the lock of c.
OperationOK(c) ==
  /\ pc[c] # "wait" => fate[c] = "none"
  /\ pc[c] = "idle" => job[c].ids = {}
  /\ pc[c] = "alloc" => status[c] = "open"
  /\ pc[c] = "wait" =>
       /\ WellFormed(call[c])
       /\ call[c].why \in {"acquire", "recover"} => call[c].op = "renew" /\ job[c].ids = {}
       /\ call[c].why = "acquire" => status[c] = "none"
       /\ call[c].why # "acquire" => status[c] = "open" /\ call[c].prev = rangeID[c]
       /\ call[c].op = "write" => \A t \in call[c].rows : t.id \in job[c].ids /\ t.kind = job[c].kind
       /\ call[c].op = "persist" => job[c].ids = {}

\* The fields of c, and the IDs its operation has taken.
FieldsOK(c) ==
  /\ status[c] = "none" => seen[c] = 0
  /\ status[c] = "open" =>
       /\ rangeID[c] \in Nat
       /\ BlockStart(rangeID[c]) <= seq[c] /\ seq[c] <= BlockEnd(rangeID[c])
       /\ level[c] < seq[c] /\ seen[c] < seq[c] /\ job[c].top < seq[c]
  /\ \A i \in job[c].ids : status[c] = "open" /\ seen[c] < i

ContextsOK == \A c \in Context : OperationOK(c) /\ FieldsOK(c)

\* A range ID is given once.
LeasesOK ==
  \A c \in Context, r \in Nat :
    HasLease(c, r) =>
      /\ r <= row.rangeID
      /\ \A d \in Context : HasLease(d, r) => c = d

\* c will not take the ID i again.
PassedBy(c, i) ==
  /\ status[c] = "open" => (i < seq[c] \/ BlockEnd(rangeID[c]) <= i)
  /\ Granted(c) => (i < BlockStart(call[c].next) \/ BlockEnd(call[c].next) <= i)

IDsOK ==
  \A i \in Nat :
    (Written(i) \/ Taken(i)) =>
      /\ i < BlockEnd(row.rangeID)
      /\ \A c \in Context : PassedBy(c, i)

FreshOK ==
  \A c \in Context :
    \A i \in job[c].ids :
      /\ \A d \in Context : i \in job[d].ids => c = d
      /\ ~Writing(c) => ~Written(i)

\* The IDs of an operation are above the ranges of older leases.
OrderOK ==
  \A c, d \in Context :
    c # d =>
      \A r \in Nat, i \in job[d].ids :
        (HasLease(c, r) /\ r < rangeID[d]) => BlockEnd(r) <= i

\* A delayed write of a workflow: the context that sent it is renewing its
\* lease, or has lost it.
DelayedOK(q, t) ==
  /\ q.prev <= row.rangeID
  /\ \A c \in Context :
       /\ (status[c] = "open" /\ rangeID[c] = q.prev) =>
            /\ pc[c] = "wait" /\ call[c].why = "recover"
            /\ seen[c] < t.id
       /\ Granted(c) => call[c].next # q.prev
       /\ \A r \in Nat : (HasLease(c, r) /\ r < q.prev) => BlockEnd(r) <= t.id

LateOK ==
  \A q \in late :
    /\ WellFormed(q)
    /\ \A t \in q.rows : t.kind = "workflow" => DelayedOK(q, t)

IInv == TypeOK /\ ContextsOK /\ LeasesOK /\ IDsOK /\ FreshOK /\ OrderOK /\ LateOK

-----------------------------------------------------------------------------
(* The blocks of the ranges, and the steps that several actions share.     *)

\* The order of the numbers.
LEMMA Order ==
  ASSUME NEW a \in Nat, NEW b \in Nat
  PROVE  /\ a + 1 <= b <=> a < b
         /\ a <= b <=> (a < b \/ a = b)
         /\ a <= b <=> a < b + 1
         /\ ~(a < b) <=> b <= a
BY SMTT(30)

\* The order is transitive.
LEMMA Chain ==
  ASSUME NEW a \in Nat, NEW b \in Nat, NEW c \in Nat
  PROVE  /\ a <= b /\ b <= c => a <= c
         /\ a < b /\ b <= c => a < c
         /\ a <= b /\ b < c => a < c
BY SMTT(30)

\* The number after a, and zero.
LEMMA Upward ==
  ASSUME NEW a \in Nat
  PROVE  a <= a /\ a <= a + 1 /\ ~(a + 1 <= a) /\ a + 1 \in Nat /\ 0 \in Nat /\ 0 <= a /\ ~(a < 0)
BY SMTT(30)

\* The fields of the statement that takes a lease.
LEMMA StatementFields ==
  \A r, a, why : Renewal(r, a, why).ack = a /\ Renewal(r, a, why).next = r + 1
BY DEF Renewal

\* The fields of a statement, a job and a queue that are none.
LEMMA EmptyFields ==
  /\ NoStatement.ack = 0 /\ NoStatement.next = 0
  /\ NoJob.ids = {}
  /\ NoQueue.new = 0 /\ NoQueue.next = 0 /\ NoQueue.max = 0
BY DEF NoStatement, NoJob, NoQueue

\* The blocks of task IDs of two ranges do not meet.
LEMMA Blocks ==
  ASSUME NEW r \in Nat
  PROVE  /\ BlockStart(r) \in Nat /\ BlockEnd(r) \in Nat
         /\ BlockStart(r) < BlockEnd(r)
         /\ BlockStart(r + 1) = BlockEnd(r)
         /\ 0 < BlockStart(r + 1)
         /\ \A s \in Nat : r < s => BlockEnd(r) <= BlockStart(s) /\ BlockEnd(r) <= BlockEnd(s)
<1> DEFINE m == RangeSize
<1>0. m \in Nat /\ m >= 1
  BY SMTT(30), RangeAssumption
<1>1. r * m \in Nat /\ (r + 1) * m = r * m + m
  BY SMTT(30), <1>0
<1>2. ASSUME NEW s \in Nat, r < s
      PROVE  (r + 1) * m <= s * m /\ (r + 1) * m <= (s + 1) * m
  <2>1. PICK k \in Nat : s = r + 1 + k
    <3>1. s - r - 1 \in Nat /\ s = r + 1 + (s - r - 1)
      BY SMTT(30), <1>2
    <3> QED BY <3>1
  <2>2. s * m = (r + 1) * m + k * m /\ k * m \in Nat
    BY SMTT(30), <2>1, <1>0
  <2>3. (s + 1) * m = s * m + m
    BY SMTT(30), <1>0
  <2> QED BY SMTT(30), <2>2, <2>3, <1>1, <1>0
<1> QED BY SMTT(30), <1>0, <1>1, <1>2 DEF BlockStart, BlockEnd

\* The same, for all ranges at once.
LEMMA AllBlocks ==
  /\ \A r \in Nat : BlockStart(r) \in Int /\ BlockEnd(r) \in Int /\ BlockStart(r) < BlockEnd(r)
  /\ \A r, s \in Nat : r < s => BlockEnd(r) <= BlockStart(s)
  /\ \A r, s \in Nat : r <= s => BlockEnd(r) <= BlockEnd(s)
<1>1. \A r \in Nat : BlockStart(r) \in Nat /\ BlockEnd(r) \in Nat /\ BlockStart(r) < BlockEnd(r)
  BY Blocks
<1>2. \A r, s \in Nat : r < s => BlockEnd(r) <= BlockStart(s) /\ BlockEnd(r) <= BlockEnd(s)
  BY Blocks
<1>3. ASSUME NEW r \in Nat, NEW s \in Nat, r <= s PROVE BlockEnd(r) <= BlockEnd(s)
  <2>1. CASE r = s
    <3>1. BlockEnd(r) \in Nat
      BY <1>1
    <3> QED BY SMTT(30), <2>1, <3>1
  <2>2. CASE r < s
    BY <1>2, <2>2
  <2> QED BY SMTT(30), <2>1, <2>2, <1>3
<1> QED BY SMTT(30), <1>1, <1>2, <1>3

\* The parts of the invariant.
LEMMA Parts ==
  ASSUME IInv
  PROVE  TypeOK /\ ContextsOK /\ LeasesOK /\ IDsOK /\ FreshOK /\ OrderOK /\ LateOK
BY DEF IInv

\* Every context has its parts of the invariant.
LEMMA OfContext ==
  ASSUME IInv, NEW c \in Context
  PROVE  OperationOK(c) /\ FieldsOK(c)
BY Parts DEF ContextsOK

\* c has no lease and no ID to come after the step: an operation begins or ends,
\* whatever its outcome, or renews the lease after a write of unknown outcome.  A
\* statement that c has given up on may be delayed.
LEMMA Released ==
  ASSUME IInv, TypeOK', NEW c \in Context,
         row' = row, tasks' = tasks,
         job'[c].ids = {}, status'[c] = "open" => job'[c].top < seq[c], ~Granted(c)', OperationOK(c)',
         late' = late \/ (pc[c] = "wait" /\ late' = late \cup {call[c]}),
         \A d \in Context \ {c} :
           /\ status'[d] = status[d] /\ rangeID'[d] = rangeID[d] /\ seq'[d] = seq[d]
           /\ level'[d] = level[d] /\ seen'[d] = seen[d]
           /\ pc'[d] = pc[d] /\ job'[d] = job[d] /\ call'[d] = call[d] /\ fate'[d] = fate[d],
         status'[c] = "none" => seen'[c] = 0,
         status'[c] = "open" =>
           /\ status[c] = "open" /\ rangeID'[c] = rangeID[c] /\ seq'[c] = seq[c]
           /\ seen'[c] < seq[c] /\ level'[c] < seq[c]
           /\ \/ pc'[c] = "wait" /\ call'[c].why = "recover" /\ seen'[c] = seen[c]
              \/ /\ pc[c] = "wait" => call[c].why # "recover"
                 /\ late' = late \/ ~Writing(c) \/ job[c].kind # "workflow"
  PROVE  IInv'
<1>2. \A d \in Context : Granted(d)' => d # c /\ Granted(d) /\ call'[d] = call[d]
  BY DEF Granted
<1>3. \A d \in Context, r \in Nat : HasLease(d, r)' => HasLease(d, r)
  BY <1>2 DEF HasLease, Granted
<1>4. \A i \in Nat : (Written(i) \/ Taken(i))' => (Written(i) \/ Taken(i))
  <2>1. ASSUME NEW i \in Nat, Taken(i)' PROVE Taken(i)
    BY <2>1 DEF Taken
  <2>2. ASSUME NEW i \in Nat, Written(i)', ~Written(i) PROVE Taken(i)
    <3>1. pc[c] = "wait" /\ \E t \in call[c].rows : t.id = i
      BY <2>2 DEF Written
    <3>2. i \in job[c].ids
      BY <3>1, OfContext DEF OperationOK, WellFormed
    <3> QED BY <3>2 DEF Taken
  <2> QED BY <2>1, <2>2
<1>5. ContextsOK'
  BY SMTT(30), Parts DEF ContextsOK, OperationOK, FieldsOK
<1>6. LeasesOK'
  BY <1>3, Parts DEF LeasesOK
<1>7. IDsOK'
  <2>1. ASSUME NEW i \in Nat, (Written(i) \/ Taken(i))', NEW d \in Context
        PROVE  i < BlockEnd(row.rangeID) /\ PassedBy(d, i)'
    <3>1. i < BlockEnd(row.rangeID) /\ PassedBy(d, i)
      BY <2>1, <1>4, Parts DEF IDsOK
    <3> QED BY <3>1, <1>2 DEF PassedBy
  <2> QED BY <2>1 DEF IDsOK
<1>8. FreshOK'
  <2>1. ASSUME NEW d \in Context, NEW i \in job'[d].ids
        PROVE  d # c /\ i \in job[d].ids /\ (~Writing(d)' => ~Writing(d))
    BY <2>1 DEF Writing
  <2>2. ASSUME NEW d \in Context, NEW i \in job'[d].ids, ~Writing(d)', Written(i)'
        PROVE  FALSE
    <3>1. ~Written(i)
      BY <2>1, <2>2, Parts DEF FreshOK
    <3>2. pc[c] = "wait" /\ \E t \in call[c].rows : t.id = i
      BY <3>1, <2>2 DEF Written
    <3>3. i \in job[c].ids
      BY <3>2, OfContext DEF OperationOK, WellFormed
    <3> QED BY <3>3, <2>1, <2>2, Parts DEF FreshOK
  <2> QED BY <2>1, <2>2, Parts DEF FreshOK
<1>9. OrderOK'
  <2>1. ASSUME NEW e \in Context, NEW d \in Context, e # d, NEW r \in Nat, NEW i \in job'[d].ids,
               HasLease(e, r)', r < rangeID'[d]
        PROVE  BlockEnd(r) <= i
    <3>1. d # c /\ i \in job[d].ids /\ rangeID'[d] = rangeID[d] /\ HasLease(e, r)
      BY <2>1, <1>3
    <3> QED BY <3>1, <2>1, Parts DEF OrderOK
  <2> QED BY <2>1 DEF OrderOK
<1>10. LateOK'
  <2>1. ASSUME NEW q \in late PROVE WellFormed(q) /\ \A t \in q.rows : t.kind = "workflow" => DelayedOK(q, t)'
    <3>1. WellFormed(q) /\ \A t \in q.rows : t.kind = "workflow" => DelayedOK(q, t)
      BY Parts DEF LateOK
    <3> QED BY SMTT(30), <3>1, <1>2, <1>3, OfContext DEF DelayedOK, OperationOK
  <2>2. ASSUME NEW q \in late' \ late
        PROVE  WellFormed(q) /\ \A t \in q.rows : t.kind = "workflow" => DelayedOK(q, t)'
    <3>1. pc[c] = "wait" /\ q = call[c] /\ WellFormed(q)
      BY <2>2, OfContext DEF OperationOK
    <3>2. ASSUME NEW t \in q.rows, t.kind = "workflow"
          PROVE  DelayedOK(q, t)'
      <4>1. /\ q.op = "write" /\ q.prev = rangeID[c] /\ status[c] = "open"
            /\ t.id \in job[c].ids /\ job[c].kind = "workflow" /\ rangeID[c] \in Nat
        BY <3>1, <3>2, OfContext DEF OperationOK, WellFormed, FieldsOK
      <4>2. status'[c] = "open" =>
              /\ pc'[c] = "wait" /\ call'[c].why = "recover" /\ rangeID'[c] = rangeID[c]
              /\ seen'[c] < t.id
        BY <4>1, <3>1, <2>2, OfContext DEF Writing, FieldsOK
      <4>3. HasLease(c, rangeID[c]) /\ rangeID[c] <= row.rangeID
        BY <4>1, Parts DEF HasLease, LeasesOK
      <4>4. ASSUME NEW d \in Context
            PROVE  /\ (status'[d] = "open" /\ rangeID'[d] = q.prev) => d = c
                   /\ Granted(d)' => call'[d].next # q.prev
        BY SMTT(30), <4>1, <4>3, <1>2, Parts DEF LeasesOK, HasLease
      <4>5. ASSUME NEW d \in Context, NEW r \in Nat, HasLease(d, r)', r < q.prev
            PROVE  BlockEnd(r) <= t.id
        <5>1. d # c
          BY SMTT(30), <4>1, <4>5, <4>2, <1>2 DEF HasLease
        <5> QED BY <5>1, <4>1, <4>5, <1>3, Parts DEF OrderOK
      <4> QED BY <4>1, <4>2, <4>3, <4>4, <4>5 DEF DelayedOK
    <3> QED BY <3>1, <3>2
  <2> QED BY <2>1, <2>2 DEF LateOK, WellFormed
<1> QED BY <1>5, <1>6, <1>7, <1>8, <1>9, <1>10 DEF IInv

\* c sends a statement and waits for it.
LEMMA Sent ==
  ASSUME IInv, TypeOK', NEW c \in Context, NEW q, Send(c, q), pc[c] # "wait",
         row' = row, tasks' = tasks, late' = late, status' = status, rangeID' = rangeID,
         seq' = seq, level' = level, job' = job, seen' = seen,
         OperationOK(c)'
  PROVE  IInv'
<1>1. /\ pc'[c] = "wait" /\ fate'[c] = "sent"
      /\ \A d \in Context \ {c} : pc'[d] = pc[d] /\ call'[d] = call[d] /\ fate'[d] = fate[d]
  BY SMTT(30), Parts DEF Send, TypeOK
<1>2. \A d \in Context : Granted(d)' => d # c /\ Granted(d) /\ call'[d] = call[d]
  BY <1>1 DEF Granted
<1>3. \A d \in Context, r \in Nat : HasLease(d, r)' => HasLease(d, r)
  BY <1>2 DEF HasLease
<1>4. \A i \in Nat : (Written(i)' <=> Written(i)) /\ (Taken(i)' <=> Taken(i))
  BY DEF Written, Taken
<1>5. ContextsOK'
  BY SMTT(30), <1>1, Parts DEF ContextsOK, OperationOK, FieldsOK
<1>6. LeasesOK'
  BY <1>3, Parts DEF LeasesOK
<1>7. IDsOK'
  <2>1. ASSUME NEW i \in Nat, (Written(i) \/ Taken(i))', NEW d \in Context
        PROVE  i < BlockEnd(row.rangeID) /\ PassedBy(d, i)'
    <3>1. i < BlockEnd(row.rangeID) /\ PassedBy(d, i)
      BY <2>1, <1>4, Parts DEF IDsOK
    <3> QED BY <3>1, <1>2 DEF PassedBy
  <2> QED BY <2>1 DEF IDsOK
<1>8. FreshOK'
  <2>1. ASSUME NEW d \in Context, NEW i \in job[d].ids, ~Writing(d)'
        PROVE  ~Writing(d) /\ i \in Nat
    BY <2>1, <1>1, Parts DEF Writing, Jobs, TypeOK
  <2> QED BY <2>1, <1>4, Parts DEF FreshOK
<1>9. OrderOK'
  BY <1>3, Parts DEF OrderOK
<1>10. LateOK'
  <2>1. ASSUME NEW p \in late PROVE WellFormed(p) /\ \A t \in p.rows : t.kind = "workflow" => DelayedOK(p, t)'
    <3>1. WellFormed(p) /\ \A t \in p.rows : t.kind = "workflow" => DelayedOK(p, t)
      BY Parts DEF LateOK
    <3> QED BY <3>1, <1>1, <1>2, <1>3 DEF DelayedOK
  <2> QED BY <2>1 DEF LateOK, WellFormed
<1> QED BY <1>5, <1>6, <1>7, <1>8, <1>9, <1>10 DEF IInv

\* Rows of tasks are deleted.
LEMMA Deleted ==
  ASSUME IInv, TypeOK', tasks' \subseteq tasks, UNCHANGED <<row, late, ctxVars, opVars, seen>>
  PROVE  IInv'
<1> USE DEF ctxVars, opVars
<1>1. \A i \in Nat : (Written(i)' => Written(i)) /\ (Taken(i)' <=> Taken(i))
  BY DEF Written, Taken
<1>2. ContextsOK'
  BY Parts DEF ContextsOK, OperationOK, FieldsOK
<1>3. LeasesOK'
  BY Parts DEF LeasesOK, HasLease, Granted
<1>4. IDsOK'
  BY <1>1, Parts DEF IDsOK, PassedBy, Granted
<1>5. FreshOK'
  BY <1>1, Parts DEF FreshOK, Writing, TypeOK, Jobs
<1>6. OrderOK'
  BY Parts DEF OrderOK, HasLease, Granted
<1>7. LateOK'
  BY SMTT(30), Parts DEF LateOK, DelayedOK, HasLease, Granted
<1> QED BY <1>2, <1>3, <1>4, <1>5, <1>6, <1>7 DEF IInv

-----------------------------------------------------------------------------
(* The steps that move the lease, the IDs or the tasks.                    *)

\* The next ID of the range is in nobody's hands.
LEMMA GenerateStep ==
  ASSUME IInv, TypeOK', NEW c \in Context, GenerateTaskID(c)
  PROVE  IInv'
<1> DEFINE new == seq[c]
<1>1. /\ status[c] = "open" /\ rangeID[c] \in Nat /\ pc[c] = "alloc" /\ fate[c] = "none"
      /\ BlockStart(rangeID[c]) <= new /\ new < BlockEnd(rangeID[c]) /\ new \in Nat
      /\ seen[c] < new /\ level[c] < new
  BY OfContext, Parts DEF GenerateTaskID, OperationOK, FieldsOK, TypeOK
<1>2. /\ job'[c].ids = job[c].ids \cup {new} /\ job'[c].kind = job[c].kind /\ job'[c].top = new
      /\ seq'[c] = new + 1
      /\ \A d \in Context \ {c} : job'[d] = job[d] /\ seq'[d] = seq[d]
  BY Parts DEF GenerateTaskID, Jobs, TypeOK
<1>3. UNCHANGED <<row, tasks, late, status, rangeID, level, ack, pc, call, fate, seen>>
  BY DEF GenerateTaskID
<1>4. \A d \in Context, r \in Nat : HasLease(d, r)' <=> HasLease(d, r)
  BY <1>3 DEF HasLease, Granted
<1>5. \A i \in Nat : (Written(i)' <=> Written(i)) /\ (Taken(i)' => Taken(i) \/ i = new)
  BY <1>2, <1>3 DEF Written, Taken
<1>6. ~Written(new) /\ ~Taken(new)
  <2>1. BlockEnd(rangeID[c]) \in Int
    BY <1>1, AllBlocks
  <2>2. ~PassedBy(c, new)
    BY SMTT(30), <2>1, <1>1 DEF PassedBy
  <2> QED BY <2>2, <1>1, Parts DEF IDsOK
<1>7. HasLease(c, rangeID[c]) /\ rangeID[c] <= row.rangeID /\ row.rangeID \in Nat
  BY <1>1, Parts DEF HasLease, LeasesOK, TypeOK
<1>8. ContextsOK'
  <2>1. ASSUME NEW d \in Context PROVE OperationOK(d)'
    BY <2>1, <1>1, <1>2, <1>3, OfContext DEF OperationOK, WellFormed
  <2>2. ASSUME NEW d \in Context PROVE FieldsOK(d)'
    <3>1. FieldsOK(d)
      BY OfContext
    <3>2. CASE d # c
      BY <3>1, <3>2, <1>2, <1>3 DEF FieldsOK
    <3>3. CASE d = c
      <4>1. BlockStart(rangeID[c]) \in Int /\ BlockEnd(rangeID[c]) \in Int /\ seen[c] \in Int /\ level[c] \in Int
        BY SMTT(30), <1>1, AllBlocks, Parts DEF TypeOK
      <4> QED BY SMTT(30), <4>1, <3>1, <3>3, <1>1, <1>2, <1>3 DEF FieldsOK
    <3> QED BY <3>2, <3>3
  <2> QED BY <2>1, <2>2 DEF ContextsOK
<1>9. LeasesOK'
  BY <1>3, <1>4, Parts DEF LeasesOK
<1>10. IDsOK'
  <2>1. ASSUME NEW i \in Nat, Written(i) \/ Taken(i), NEW d \in Context
        PROVE  i < BlockEnd(row.rangeID) /\ PassedBy(d, i)'
    <3>1. i < BlockEnd(row.rangeID) /\ PassedBy(d, i)
      BY <2>1, Parts DEF IDsOK
    <3> QED BY SMTT(30), <3>1, <1>2, <1>3, <1>1, Parts DEF PassedBy, Granted
  <2>2. new < BlockEnd(row.rangeID)
    BY SMTT(30), <1>1, <1>7, AllBlocks
  <2>3. ASSUME NEW d \in Context, NEW i, i = new PROVE PassedBy(d, i)'
    <3>1. ASSUME NEW r \in Nat, HasLease(d, r), r # rangeID[c]
          PROVE  new < BlockStart(r) \/ BlockEnd(r) <= new
      <4>0. BlockStart(r) \in Int /\ BlockEnd(r) \in Int /\ BlockStart(rangeID[c]) \in Int
            /\ BlockEnd(rangeID[c]) \in Int
        BY <1>1, AllBlocks
      <4>1. CASE r < rangeID[c]
        <5>1. BlockEnd(r) <= BlockStart(rangeID[c])
          BY <4>1, <1>1, AllBlocks
        <5> QED BY SMTT(30), <5>1, <4>0, <1>1
      <4>2. CASE rangeID[c] < r
        <5>1. BlockEnd(rangeID[c]) <= BlockStart(r)
          BY <4>2, <1>1, AllBlocks
        <5> QED BY SMTT(30), <5>1, <4>0, <1>1
      <4> QED BY SMTT(30), <4>1, <4>2, <3>1, <1>1
    <3>2. CASE d = c
      <4>1. ASSUME Granted(d)' PROVE FALSE
        BY <4>1, <3>2, <1>3, <1>1 DEF Granted
      <4> QED BY SMTT(30), <4>1, <3>2, <2>3, <1>2, <1>1 DEF PassedBy
    <3>3. CASE d # c
      <4>1. \A r \in Nat : HasLease(d, r) => r # rangeID[c]
        BY <3>3, <1>7, <1>1, Parts DEF LeasesOK
      <4>2. status[d] = "open" => new < seq[d] \/ BlockEnd(rangeID[d]) <= new
        BY SMTT(30), <4>1, <3>1, OfContext, AllBlocks, <1>1, Parts DEF FieldsOK, HasLease, TypeOK
      <4>3. Granted(d) => new < BlockStart(call[d].next) \/ BlockEnd(call[d].next) <= new
        BY SMTT(30), <4>1, <3>1, Parts DEF HasLease, Statements, TypeOK
      <4> QED BY <4>2, <4>3, <3>3, <2>3, <1>2, <1>3 DEF PassedBy, Granted
    <3> QED BY <3>2, <3>3
  <2> QED BY <2>1, <2>2, <2>3, <1>5, <1>3 DEF IDsOK
<1>11. FreshOK'
  <2>1. ASSUME NEW d \in Context, NEW i \in job'[d].ids
        PROVE  (i \in job[d].ids \/ (d = c /\ i = new)) /\ i \in Nat
    BY <2>1, <1>1, <1>2, Parts DEF Jobs, TypeOK
  <2>2. \A d \in Context : new \notin job[d].ids
    BY <1>6 DEF Taken
  <2>3. ASSUME NEW d \in Context, NEW i \in job'[d].ids, NEW e \in Context, i \in job'[e].ids
        PROVE  d = e
    <3>1. (i \in job[d].ids \/ (d = c /\ i = new)) /\ (i \in job[e].ids \/ (e = c /\ i = new))
      BY <2>1, <2>3
    <3> QED BY <3>1, <2>2, Parts DEF FreshOK
  <2>4. ASSUME NEW d \in Context, NEW i \in job'[d].ids, ~Writing(d)'
        PROVE  ~Written(i)'
    <3>1. ~Writing(d)
      BY <2>4, <1>3 DEF Writing
    <3> QED BY <3>1, <2>1, <1>5, <1>6, Parts DEF FreshOK
  <2> QED BY <2>3, <2>4 DEF FreshOK
<1>12. OrderOK'
  <2>1. ASSUME NEW d \in Context, d # c, NEW r \in Nat, HasLease(d, r), r < rangeID[c]
        PROVE  BlockEnd(r) <= new
    BY SMTT(30), <2>1, <1>1, AllBlocks
  <2> QED BY SMTT(30), <2>1, <1>2, <1>3, <1>4, Parts DEF OrderOK
<1>13. LateOK'
  <2>1. ASSUME NEW q \in late, NEW t \in q.rows, DelayedOK(q, t) PROVE DelayedOK(q, t)'
    BY <2>1, <1>3, <1>4 DEF DelayedOK, Granted
  <2> QED BY <2>1, <1>3, Parts DEF LateOK, WellFormed
<1> QED BY <1>8, <1>9, <1>10, <1>11, <1>12, <1>13 DEF IInv

\* The database executes a statement: the range ID of the row does not go back,
\* what is written was in the statement of a context or delayed, and only a
\* renewal gives a range ID, the next one.
LEMMA Executed ==
  ASSUME IInv, TypeOK', late' \subseteq late,
         status' = status, rangeID' = rangeID, seq' = seq, level' = level, pc' = pc,
         job' = job, call' = call, seen' = seen,
         row.rangeID <= row'.rangeID,
         \A d \in Context : OperationOK(d)',
         \A i \in Nat : Written(i)' => Written(i) \/ \E e \in Context : Writing(e) /\ i \in job[e].ids,
         \A d \in Context :
           Granted(d)' => Granted(d) \/ (call[d].next = row'.rangeID /\ row'.rangeID = row.rangeID + 1),
         \A d, e \in Context : (Granted(d)' /\ Granted(e)' /\ ~Granted(d) /\ ~Granted(e)) => d = e
  PROVE  IInv'
<1>0. row.rangeID \in Nat /\ row'.rangeID \in Nat
  BY Parts DEF TypeOK
<1>1. ASSUME NEW d \in Context, NEW r \in Nat, HasLease(d, r)'
      PROVE  \/ HasLease(d, r)
             \/ ~Granted(d) /\ Granted(d)' /\ r = row'.rangeID /\ row'.rangeID = row.rangeID + 1
  BY <1>1 DEF HasLease
<1>2. \A i \in Nat : (Written(i) \/ Taken(i))' => (Written(i) \/ Taken(i))
  BY DEF Taken
<1>3. ContextsOK'
  BY Parts DEF ContextsOK, FieldsOK
<1>4. LeasesOK'
  <2>1. ASSUME NEW d \in Context, NEW r \in Nat, HasLease(d, r)'
        PROVE  r <= row'.rangeID
    <3>1. CASE HasLease(d, r)
      <4>1. r <= row.rangeID
        BY <3>1, Parts DEF LeasesOK
      <4> QED BY SMTT(30), <4>1, <1>0
    <3> QED BY SMTT(30), <3>1, <2>1, <1>1, <1>0
  <2>2. ASSUME NEW d \in Context, NEW e \in Context, NEW r \in Nat, HasLease(d, r)', HasLease(e, r)'
        PROVE  d = e
    <3>1. CASE HasLease(d, r) \/ HasLease(e, r)
      <4>1. r <= row.rangeID
        BY <3>1, Parts DEF LeasesOK
      <4>2. r # row.rangeID + 1
        BY SMTT(30), <4>1, <1>0
      <4>3. HasLease(d, r) /\ HasLease(e, r)
        BY <4>2, <2>2, <1>1
      <4> QED BY <4>3, Parts DEF LeasesOK
    <3>2. CASE ~HasLease(d, r) /\ ~HasLease(e, r)
      BY <3>2, <2>2, <1>1
    <3> QED BY <3>1, <3>2
  <2> QED BY <2>1, <2>2 DEF LeasesOK
<1>5. IDsOK'
  <2>1. ASSUME NEW i \in Nat, (Written(i) \/ Taken(i))', NEW d \in Context
        PROVE  PassedBy(d, i)'
    <3>1. i < BlockEnd(row.rangeID) /\ PassedBy(d, i)
      BY <2>1, <1>2, Parts DEF IDsOK
    <3>3. ASSUME Granted(d)', ~Granted(d) PROVE i < BlockStart(call'[d].next)
      <4>1. call'[d].next = row.rangeID + 1
        BY <3>3
      <4>2. BlockStart(row.rangeID + 1) = BlockEnd(row.rangeID)
        BY <1>0, Blocks
      <4> QED BY <3>1, <4>1, <4>2
    <3> QED BY <3>1, <3>3 DEF PassedBy
  <2>2. ASSUME NEW i \in Nat, (Written(i) \/ Taken(i))' PROVE i < BlockEnd(row'.rangeID)
    <3>1. i < BlockEnd(row.rangeID)
      BY <2>2, <1>2, Parts DEF IDsOK
    <3>2. BlockEnd(row.rangeID) \in Int /\ BlockEnd(row'.rangeID) \in Int
          /\ BlockEnd(row.rangeID) <= BlockEnd(row'.rangeID)
      BY <1>0, AllBlocks
    <3> QED BY SMTT(30), <3>1, <3>2
  <2> QED BY <2>1, <2>2 DEF IDsOK
<1>6. FreshOK'
  <2>1. ASSUME NEW d \in Context, NEW i \in job[d].ids, ~Writing(d), Written(i)'
        PROVE  FALSE
    <3>1. i \in Nat
      BY <2>1, Parts DEF Jobs, TypeOK
    <3>2. Written(i) \/ \E e \in Context : Writing(e) /\ i \in job[e].ids
      BY <3>1, <2>1
    <3> QED BY <3>2, <2>1, Parts DEF FreshOK
  <2> QED BY <2>1, Parts DEF FreshOK, Writing
<1>7. OrderOK'
  <2>1. ASSUME NEW e \in Context, NEW d \in Context, e # d, NEW r \in Nat, NEW i \in job[d].ids,
               HasLease(e, r)', r < rangeID[d]
        PROVE  BlockEnd(r) <= i
    <3>1. status[d] = "open" /\ rangeID[d] \in Nat
      BY <2>1, OfContext DEF FieldsOK
    <3>2. rangeID[d] <= row.rangeID
      BY <3>1, Parts DEF LeasesOK, HasLease
    <3>3. r # row.rangeID + 1
      BY SMTT(30), <3>1, <3>2, <2>1, <1>0
    <3> QED BY <3>3, <2>1, <1>1, Parts DEF OrderOK
  <2> QED BY <2>1 DEF OrderOK
<1>8. LateOK'
  <2>1. ASSUME NEW q \in late, NEW t \in q.rows, DelayedOK(q, t) PROVE DelayedOK(q, t)'
    <3>0. q.prev \in Nat /\ q.prev <= row.rangeID /\ q.prev <= row'.rangeID /\ q.prev # row.rangeID + 1
      <4>1. q.prev \in Nat /\ q.prev <= row.rangeID
        <5>1. q \in Statements
          BY Parts DEF TypeOK
        <5>2. q.prev \in Nat
          BY SMTT(30), <5>1 DEF Statements
        <5> QED BY <2>1, <5>2 DEF DelayedOK
      <4> QED BY SMTT(30), <4>1, <1>0
    <3>1. ASSUME NEW d \in Context PROVE Granted(d)' => call'[d].next # q.prev
      BY <3>0, <2>1 DEF DelayedOK
    <3>2. ASSUME NEW d \in Context, NEW r \in Nat, HasLease(d, r)', r < q.prev PROVE BlockEnd(r) <= t.id
      <4>1. r # row.rangeID + 1
        BY SMTT(30), <3>0, <3>2, <1>0
      <4> QED BY <4>1, <3>2, <2>1, <1>1 DEF DelayedOK
    <3> QED BY <3>0, <3>1, <3>2, <2>1 DEF DelayedOK
  <2> QED BY <2>1, Parts DEF LateOK, WellFormed
<1> QED BY <1>3, <1>4, <1>5, <1>6, <1>7, <1>8 DEF IInv

\* The statement that c waits for is executed.
LEMMA DecideStep ==
  ASSUME IInv, TypeOK', NEW c \in Context, Decide(c)
  PROVE  IInv'
<1>1. /\ pc[c] = "wait" /\ OperationOK(c) /\ call[c] \in Statements /\ row.rangeID \in Nat
      /\ ~Granted(c) /\ WellFormed(call[c])
  BY OfContext, Parts DEF Decide, OperationOK, Granted, TypeOK
<1>2. UNCHANGED <<late, ctxVars, pc, job, call, seen>>
  BY DEF Decide
<1>3. \A d \in Context \ {c} : fate'[d] = fate[d]
  BY Parts DEF Decide, TypeOK
<1>4. \A d \in Context : OperationOK(d)'
  BY <1>1, <1>2, <1>3, OfContext DEF OperationOK, WellFormed, ctxVars
<1>5. \A d \in Context : Granted(d)' => Granted(d) \/ d = c
  BY <1>2, <1>3 DEF Granted
<1>6. CASE Holds(call[c]) /\ Apply(call[c]) /\ fate' = [fate EXCEPT ![c] = "applied"]
  <2>1. /\ call[c].op = "renew" => row'.rangeID = row.rangeID + 1 /\ call[c].next = row'.rangeID
        /\ call[c].op # "renew" => row'.rangeID = row.rangeID
    BY <1>1, <1>6, Parts DEF Holds, Apply, WellFormed, Statements
  <2>2. \A i \in Nat : Written(i)' => Written(i) \/ \E e \in Context : Writing(e) /\ i \in job[e].ids
    BY <1>1, <1>2, <1>6 DEF Apply, Written, Writing, OperationOK, WellFormed
  <2>3. row.rangeID <= row'.rangeID
    BY SMTT(30), <2>1, <1>1
  <2>4. Granted(c)' => call[c].op = "renew"
    BY <1>2 DEF Granted
  <2> QED BY <2>1, <2>2, <2>3, <2>4, <1>2, <1>4, <1>5, Executed DEF ctxVars
<1>7. CASE ~Holds(call[c]) /\ UNCHANGED <<row, tasks>> /\ fate' = [fate EXCEPT ![c] = "refused"]
  <2>1. ~Granted(c)' /\ row.rangeID <= row'.rangeID
    <3>1. row' = row /\ ~Granted(c)'
      BY <1>7, Parts DEF Granted, TypeOK
    <3> QED BY SMTT(30), <3>1, <1>1
  <2>2. \A i \in Nat : Written(i)' => Written(i)
    BY <1>2, <1>7 DEF Written
  <2> QED BY <2>1, <2>2, <1>2, <1>4, <1>5, Executed DEF ctxVars
<1> QED BY <1>6, <1>7 DEF Decide

\* A delayed statement is executed, or lost.
LEMMA DecideLateStep ==
  ASSUME IInv, TypeOK', NEW q \in late, DecideLate(q)
  PROVE  IInv'
<1>1. q \in Statements /\ WellFormed(q) /\ row.rangeID \in Nat
  BY Parts DEF LateOK, TypeOK
<1>2. UNCHANGED <<ctxVars, opVars, seen>> /\ late' \subseteq late
  BY DEF DecideLate
<1>3. \A d \in Context : OperationOK(d)'
  BY <1>2, OfContext DEF OperationOK, WellFormed, ctxVars, opVars
<1>4. \A d \in Context : Granted(d)' <=> Granted(d)
  BY <1>2 DEF Granted, opVars
<1>5. row.rangeID <= row'.rangeID
  BY SMTT(30), <1>1, Parts DEF DecideLate, Holds, Apply, WellFormed, Statements
<1>6. \A i \in Nat : Written(i)' => Written(i)
  BY <1>2 DEF Written, DecideLate, Apply
<1> QED BY <1>2, <1>3, <1>4, <1>5, <1>6, Executed DEF ctxVars, opVars

\* The new range is put to use.
LEMMA RenewOKStep ==
  ASSUME IInv, TypeOK', NEW c \in Context, RenewOK(c)
  PROVE  IInv'
<1> DEFINE r == call[c].next
<1>1. /\ Granted(c) /\ OperationOK(c) /\ FieldsOK(c)
      /\ r \in Nat /\ call[c].prev \in Nat /\ r = call[c].prev + 1
  <2>1. Granted(c) /\ OperationOK(c) /\ FieldsOK(c)
    BY OfContext DEF RenewOK, Granted
  <2>2. r = call[c].prev + 1
    BY <2>1 DEF Granted, OperationOK, WellFormed
  <2>3. r \in Nat /\ call[c].prev \in Nat
    BY Parts DEF Statements, TypeOK
  <2> QED BY <2>1, <2>2, <2>3
<1>2. HasLease(c, r) /\ r <= row.rangeID
  BY <1>1, Parts DEF HasLease, LeasesOK
<1>3. /\ status'[c] = "open" /\ rangeID'[c] = r /\ seq'[c] = BlockStart(r)
      /\ level'[c] = BlockStart(r) - 1 /\ pc'[c] \in {"idle", "alloc"} /\ fate'[c] = "none"
      /\ \/ job'[c].ids = {} /\ job'[c].top = 0
         \/ job'[c] = job[c] /\ call[c].why = "alloc" /\ pc'[c] = "alloc"
      /\ row' = row /\ tasks' = tasks /\ late' = late /\ seen' = seen
  BY SMTT(30), Parts DEF RenewOK, Renewed, Return, NoJob, TypeOK
<1>4. \A d \in Context \ {c} :
        /\ status'[d] = status[d] /\ rangeID'[d] = rangeID[d] /\ seq'[d] = seq[d]
        /\ level'[d] = level[d] /\ pc'[d] = pc[d] /\ job'[d] = job[d] /\ call'[d] = call[d]
        /\ fate'[d] = fate[d]
  BY SMTT(30), Parts DEF RenewOK, Renewed, Return, TypeOK
<1>5. \A d \in Context : Granted(d)' => d # c /\ Granted(d) /\ call'[d] = call[d]
  BY <1>3, <1>4 DEF Granted
<1>6. \A d \in Context, s \in Nat : HasLease(d, s)' => HasLease(d, s)
  BY <1>2, <1>3, <1>4, <1>5 DEF HasLease
<1>7. \A i \in Nat : (Written(i)' <=> Written(i)) /\ (Taken(i)' => Taken(i))
  BY <1>3, <1>4 DEF Written, Taken
<1>8. ContextsOK'
  <2>1. ASSUME NEW d \in Context PROVE OperationOK(d)'
    <3>1. CASE d # c
      BY SMTT(30), <3>1, <1>4, OfContext DEF OperationOK, WellFormed
    <3>2. CASE d = c
      <4>1. pc'[c] = "idle" => job'[c].ids = {}
        BY <1>3
      <4> QED BY <4>1, <3>2, <1>3 DEF OperationOK
    <3> QED BY <3>1, <3>2
  <2>2. ASSUME NEW d \in Context, d # c PROVE FieldsOK(d)'
    BY <2>2, <1>3, <1>4, OfContext DEF FieldsOK
  <2>3. FieldsOK(c)'
    <3>1. BlockStart(r) \in Nat /\ BlockEnd(r) \in Nat /\ BlockStart(r) < BlockEnd(r) /\ 0 < BlockStart(r)
      BY <1>1, Blocks
    <3>2. seen[c] < BlockStart(r) /\ job'[c].top < BlockStart(r)
      <4>1. CASE call[c].why = "acquire"
        BY <4>1, <3>1, <1>1, <1>3 DEF OperationOK, FieldsOK, Granted
      <4>2. CASE call[c].why # "acquire"
        <5>1. status[c] = "open" /\ call[c].prev = rangeID[c]
          BY <4>2, <1>1 DEF OperationOK, Granted
        <5>2. seen[c] < seq[c] /\ job[c].top < seq[c] /\ seq[c] <= BlockEnd(call[c].prev) /\ BlockEnd(call[c].prev) = BlockStart(r)
          BY <5>1, <1>1, Blocks DEF FieldsOK
        <5>3. seen[c] \in Nat /\ seq[c] \in Nat /\ job[c].top \in Nat
          BY Parts DEF Jobs, TypeOK
        <5>4. seen[c] < BlockStart(r) /\ job[c].top < BlockStart(r)
          BY SMTT(30), <5>2, <5>3, <3>1
        <5> QED BY <5>4, <3>1, <1>3
      <4> QED BY <4>1, <4>2
    <3>3. \A i \in job'[c].ids : seen[c] < i
      BY <1>1, <1>3 DEF FieldsOK
    <3>4. BlockStart(r) <= BlockStart(r) /\ BlockStart(r) <= BlockEnd(r) /\ BlockStart(r) - 1 < BlockStart(r)
      BY SMTT(30), <3>1
    <3> QED BY <3>1, <3>2, <3>3, <3>4, <1>1, <1>3 DEF FieldsOK
  <2> QED BY <2>1, <2>2, <2>3 DEF ContextsOK
<1>9. LeasesOK'
  BY <1>3, <1>6, Parts DEF LeasesOK
<1>10. IDsOK'
  <2>1. ASSUME NEW i \in Nat, Written(i) \/ Taken(i), NEW d \in Context
        PROVE  PassedBy(d, i)'
    <3>1. PassedBy(d, i)
      BY <2>1, Parts DEF IDsOK
    <3> QED BY <3>1, <1>1, <1>3, <1>4, <1>5 DEF PassedBy
  <2> QED BY <2>1, <1>3, <1>7, Parts DEF IDsOK
<1>11. FreshOK'
  <2>1. ASSUME NEW d \in Context, NEW i \in job'[d].ids
        PROVE  i \in job[d].ids /\ i \in Nat /\ (~Writing(d)' => ~Writing(d))
    BY <2>1, <1>1, <1>3, <1>4, Parts DEF Jobs, Writing, Granted, TypeOK
  <2> QED BY <2>1, <1>7, Parts DEF FreshOK
<1>12. OrderOK'
  <2>1. ASSUME NEW e \in Context, NEW d \in Context, e # d, NEW s \in Nat, NEW i \in job'[d].ids,
               HasLease(e, s)', s < rangeID'[d]
        PROVE  BlockEnd(s) <= i
    <3>1. HasLease(e, s) /\ i \in job[d].ids
      BY <2>1, <1>3, <1>4, <1>6
    <3>2. s < rangeID[d]
      <4>1. CASE d = c
        <5>1. status[c] = "open" /\ rangeID[c] = call[c].prev
          BY <4>1, <2>1, <1>1, <1>3 DEF OperationOK, Granted
        <5>2. s # rangeID[c]
          BY <5>1, <4>1, <3>1, <2>1, <1>1, Parts DEF LeasesOK, HasLease
        <5> QED BY SMTT(30), <5>1, <5>2, <4>1, <2>1, <1>1, <1>3
      <4> QED BY <4>1, <2>1, <1>4
    <3> QED BY <3>1, <3>2, <2>1, Parts DEF OrderOK
  <2> QED BY <2>1 DEF OrderOK
<1>13. LateOK'
  <2>1. ASSUME NEW q \in late, NEW t \in q.rows, DelayedOK(q, t) PROVE DelayedOK(q, t)'
    <3>1. q.prev <= row'.rangeID
      BY <2>1, <1>3 DEF DelayedOK
    <3>2. ASSUME NEW d \in Context, status'[d] = "open", rangeID'[d] = q.prev
          PROVE  pc'[d] = "wait" /\ call'[d].why = "recover" /\ seen'[d] < t.id
      <4>1. d # c
        BY <2>1, <3>2, <1>1, <1>3 DEF DelayedOK
      <4> QED BY <2>1, <3>2, <4>1, <1>3, <1>4 DEF DelayedOK
    <3>3. \A d \in Context : Granted(d)' => call'[d].next # q.prev
      BY <2>1, <1>5 DEF DelayedOK
    <3>4. \A d \in Context, s \in Nat : (HasLease(d, s)' /\ s < q.prev) => BlockEnd(s) <= t.id
      BY <2>1, <1>6 DEF DelayedOK
    <3> QED BY <3>1, <3>2, <3>3, <3>4 DEF DelayedOK, BlockEnd
  <2> QED BY <2>1, <1>3, Parts DEF LateOK, WellFormed
<1> QED BY <1>8, <1>9, <1>10, <1>11, <1>12, <1>13 DEF IInv

-----------------------------------------------------------------------------
(* Types.                                                                  *)

\* The type of what Apply, Return, Send and Abandon leave behind.
LEMMA PartTypes ==
  ASSUME TypeOK, NEW c \in Context
  PROVE  /\ NoJob \in Jobs /\ NoStatement \in Statements /\ call[c] \in Statements
         /\ \A q \in Statements : Apply(q) => row' \in [rangeID : Nat, ack : Nat] /\ tasks' \subseteq Tasks
         /\ \A q \in Statements :
              Send(c, q) => /\ pc' \in [Context -> {"idle", "alloc", "wait"}]
                            /\ call' \in [Context -> Statements]
                            /\ fate' \in [Context -> {"none", "sent", "applied", "refused"}]
         /\ Return(c) => /\ pc' \in [Context -> {"idle", "alloc", "wait"}]
                         /\ job' \in [Context -> Jobs]
                         /\ call' \in [Context -> Statements]
                         /\ fate' \in [Context -> {"none", "sent", "applied", "refused"}]
         /\ Abandon(c) => late' \subseteq Statements
         /\ CloseShard(c) => /\ status' \in [Context -> {"none", "open", "closed"}]
                             /\ rangeID' \in [Context -> Nat \cup {-1}]
         /\ \A r, a \in Nat, why \in {"acquire", "alloc", "recover"} : Renewal(r, a, why) \in Statements
<1>1. NoJob \in Jobs /\ NoStatement \in Statements /\ call[c] \in Statements
  BY DEF NoJob, NoStatement, Jobs, Statements, Kinds, TypeOK
<1>2. ASSUME NEW q \in Statements, Apply(q)
      PROVE  row' \in [rangeID : Nat, ack : Nat] /\ tasks' \subseteq Tasks
  BY <1>2 DEF Apply, Statements, TypeOK
<1>3. ASSUME NEW q \in Statements, Send(c, q)
      PROVE  /\ pc' \in [Context -> {"idle", "alloc", "wait"}]
             /\ call' \in [Context -> Statements]
             /\ fate' \in [Context -> {"none", "sent", "applied", "refused"}]
  BY <1>3 DEF Send, TypeOK
<1>4. ASSUME Return(c)
      PROVE  /\ pc' \in [Context -> {"idle", "alloc", "wait"}]
             /\ job' \in [Context -> Jobs]
             /\ call' \in [Context -> Statements]
             /\ fate' \in [Context -> {"none", "sent", "applied", "refused"}]
  BY <1>1, <1>4 DEF Return, TypeOK
<1>5. Abandon(c) => late' \subseteq Statements
  BY <1>1 DEF Abandon, TypeOK
<1>6. CloseShard(c) => /\ status' \in [Context -> {"none", "open", "closed"}]
                      /\ rangeID' \in [Context -> Nat \cup {-1}]
  BY DEF CloseShard, TypeOK
<1>7. \A r, a \in Nat, why \in {"acquire", "alloc", "recover"} : Renewal(r, a, why) \in Statements
  BY SMTT(30) DEF Renewal, Statements
<1> QED BY <1>1, <1>2, <1>3, <1>4, <1>5, <1>6, <1>7

\* A step of a context, with any queue state to persist, keeps the types.
LEMMA TypeStep ==
  ASSUME IInv, NEW c \in Context,
         \/ Step(c) \/ Fault(c)
         \/ \E kind \in Kinds, n \in 1 .. MaxTasks : Begin(c, kind, n)
         \/ \E a \in Nat : UpdateQueueState(c, a)
  PROVE  TypeOK'
<1>0. TypeOK /\ OperationOK(c) /\ FieldsOK(c)
  BY OfContext DEF IInv
<1>a. TypeOK
  BY <1>0
<1> USE <1>a DEF ctxVars, opVars
<1>1. CASE Decide(c)
  BY <1>1, PartTypes DEF Decide, TypeOK
<1>2. CASE AcquireShard(c)
  <2>1. Renewal(row.rangeID, row.ack, "acquire") \in Statements
    BY PartTypes DEF TypeOK
  <2> QED BY <1>2, <2>1, PartTypes DEF AcquireShard, TypeOK
<1>3. CASE RenewOK(c)
  <2>1. call[c].next \in Nat /\ call[c].ack \in Nat
    BY DEF TypeOK, Statements
  <2>2. BlockStart(call[c].next) \in Nat /\ BlockStart(call[c].next) - 1 \in Nat
    <3>1. call[c].prev \in Nat /\ call[c].next = call[c].prev + 1
      BY <1>3, <1>0 DEF RenewOK, OperationOK, WellFormed, TypeOK, Statements
    <3>2. BlockStart(call[c].next) \in Nat /\ 0 < BlockStart(call[c].next)
      BY <3>1, <2>1, Blocks
    <3> QED BY SMTT(30), <3>2
  <2>3. /\ rangeID' \in [Context -> Nat \cup {-1}] /\ seq' \in [Context -> Nat]
        /\ level' \in [Context -> Nat] /\ ack' \in [Context -> Nat]
        /\ status' \in [Context -> {"none", "open", "closed"}]
    BY <1>3, <2>1, <2>2 DEF RenewOK, Renewed, TypeOK
  <2>4. /\ pc' \in [Context -> {"idle", "alloc", "wait"}]
        /\ job' \in [Context -> Jobs]
        /\ call' \in [Context -> Statements]
        /\ fate' \in [Context -> {"none", "sent", "applied", "refused"}]
    <3>1. CASE call[c].why # "alloc"
      BY <3>1, <1>3, PartTypes DEF RenewOK
    <3>2. CASE call[c].why = "alloc"
      <4>1. NoStatement \in Statements
        BY PartTypes
      <4> QED BY SMTT(30), <4>1, <3>2, <1>3 DEF RenewOK, TypeOK
    <3> QED BY <3>1, <3>2
  <2> QED BY <1>3, <2>3, <2>4 DEF RenewOK, TypeOK
<1>4. CASE RenewRefused(c)
  BY <1>4, PartTypes DEF RenewRefused, TypeOK
<1>5. CASE GenerateTaskID(c)
  <2>1. seq[c] \in Nat /\ job[c] \in Jobs /\ job[c].left - 1 \in Nat
    BY SMTT(30), <1>5 DEF GenerateTaskID, TypeOK, Jobs
  <2> DEFINE j == [kind |-> job[c].kind, left |-> job[c].left - 1,
                   ids |-> job[c].ids \cup {seq[c]}, top |-> seq[c]]
  <2>2. j \in Jobs
    BY <2>1 DEF Jobs
  <2>3. job' = [job EXCEPT ![c] = j]
    BY <1>5 DEF GenerateTaskID
  <2>4. job' \in [Context -> Jobs] /\ seq' \in [Context -> Nat]
    BY SMTT(30), <1>5, <2>1, <2>2, <2>3 DEF GenerateTaskID, TypeOK
  <2> QED BY <1>5, <2>4 DEF GenerateTaskID, TypeOK
<1>6. CASE RenewRange(c)
  <2>1. Renewal(rangeID[c], ack[c], "alloc") \in Statements
    BY <1>6, <1>0, PartTypes DEF RenewRange, OperationOK, FieldsOK, TypeOK
  <2> QED BY <1>6, <2>1, PartTypes DEF RenewRange, TypeOK
<1>7. CASE Generated(c)
  BY <1>7, PartTypes DEF Generated, TypeOK
<1>8. CASE SendWrite(c)
  <2> DEFINE q == [op |-> "write", why |-> "none", prev |-> rangeID[c], next |-> rangeID[c],
                   ack |-> 0, rows |-> [id : job[c].ids, kind : {job[c].kind}]]
  <2>1. rangeID[c] \in Nat /\ job[c] \in Jobs
    BY <1>8, <1>0 DEF SendWrite, OperationOK, FieldsOK, TypeOK
  <2>2. [id : job[c].ids, kind : {job[c].kind}] \in SUBSET Tasks
    BY <2>1 DEF Jobs, Tasks
  <2>3. q \in Statements
    BY <2>1, <2>2 DEF Statements
  <2>4. Send(c, q)
    BY <1>8 DEF SendWrite
  <2> QED BY <1>8, <2>3, <2>4, PartTypes DEF SendWrite, TypeOK
<1>9. CASE WriteOK(c)
  <2>1. LevelAfter(c) \in Nat
    BY DEF LevelAfter, TypeOK, Jobs
  <2> QED BY <1>9, <2>1, PartTypes DEF WriteOK, TypeOK
<1>10. CASE WriteFails(c)
  BY <1>10, PartTypes DEF WriteFails, TypeOK
<1>11. CASE WriteRefused(c)
  BY <1>11, PartTypes DEF WriteRefused, TypeOK
<1>12. CASE PersistOK(c)
  BY <1>12, PartTypes DEF PersistOK, TypeOK
<1>13. CASE PersistRefused(c)
  BY <1>13, PartTypes DEF PersistRefused, TypeOK
<1>14. CASE Unload(c)
  BY <1>14 DEF Unload, Reset, TypeOK
<1>15. CASE GetMaxReadLevel(c)
  BY <1>15 DEF GetMaxReadLevel, TypeOK
<1>16. CASE RenewUnknown(c)
  BY <1>16, PartTypes DEF RenewUnknown, AfterUnknownRenewal, TypeOK
<1>17. CASE WriteUnknown(c)
  <2>1. rangeID[c] \in Nat
    BY <1>17, <1>0 DEF WriteUnknown, OperationOK, FieldsOK
  <2>2. Renewal(rangeID[c], ack[c], "recover") \in Statements
    BY <2>1, PartTypes DEF TypeOK
  <2> QED BY SMTT(30), <1>17, <2>2, PartTypes DEF WriteUnknown, AfterUnknownWrite, TypeOK
<1>18. CASE PersistUnknown(c)
  BY <1>18, PartTypes DEF PersistUnknown, TypeOK
<1>19. CASE Crash(c)
  BY <1>19, PartTypes DEF Crash, Reset, TypeOK
<1>20. ASSUME NEW kind \in Kinds, NEW n \in 1 .. MaxTasks, Begin(c, kind, n) PROVE TypeOK'
  <2>1. [kind |-> kind, left |-> n, ids |-> {}, top |-> 0] \in Jobs
    <3>1. n \in Nat
      BY SMTT(30), BoundAssumption
    <3> QED BY <3>1 DEF Jobs
  <2> QED BY <1>20, <2>1 DEF Begin, TypeOK
<1>21. ASSUME NEW a \in Nat, UpdateQueueState(c, a) PROVE TypeOK'
  <2> DEFINE q == [op |-> "persist", why |-> "none", prev |-> rangeID[c], next |-> rangeID[c],
                   ack |-> a, rows |-> {}]
  <2>1. ASSUME status[c] = "open" PROVE q \in Statements
    BY <2>1, <1>0 DEF FieldsOK, Statements
  <2>2. UNCHANGED <<pc, call, fate>> \/ (status[c] = "open" /\ Send(c, q))
    BY <1>21 DEF UpdateQueueState
  <2> QED BY <1>21, <2>1, <2>2, PartTypes DEF UpdateQueueState, TypeOK
<1> QED BY <1>1, <1>2, <1>3, <1>4, <1>5, <1>6, <1>7, <1>8, <1>9, <1>10, <1>11, <1>12, <1>13,
           <1>14, <1>15, <1>16, <1>17, <1>18, <1>19, <1>20, <1>21 DEF Step, Fault
-----------------------------------------------------------------------------
(* The invariant.                                                          *)

\* What returning leaves in the fields of c and of the others.
LEMMA ReturnFacts ==
  ASSUME TypeOK, NEW c \in Context, Return(c)
  PROVE  /\ job'[c].ids = {} /\ job'[c].top = 0 /\ ~Granted(c)' /\ OperationOK(c)'
         /\ \A d \in Context \ {c} :
              pc'[d] = pc[d] /\ job'[d] = job[d] /\ call'[d] = call[d] /\ fate'[d] = fate[d]
<1>1. pc'[c] = "idle" /\ job'[c].ids = {} /\ job'[c].top = 0 /\ fate'[c] = "none"
  BY DEF Return, NoJob, TypeOK
<1>2. ~Granted(c)' /\ OperationOK(c)'
  BY <1>1 DEF Granted, OperationOK
<1>3. \A d \in Context \ {c} :
        pc'[d] = pc[d] /\ job'[d] = job[d] /\ call'[d] = call[d] /\ fate'[d] = fate[d]
  BY DEF Return, TypeOK
<1> QED BY <1>1, <1>2, <1>3

\* What closing the shard does to the fields of the contexts.
LEMMA CloseFacts ==
  ASSUME TypeOK, NEW c \in Context, CloseShard(c)
  PROVE  /\ status'[c] = "closed"
         /\ \A d \in Context \ {c} : status'[d] = status[d] /\ rangeID'[d] = rangeID[d]
BY DEF CloseShard, TypeOK

\* What a statement that is executed does to the row.
LEMMA AppliedRow ==
  ASSUME NEW q \in Statements, WellFormed(q), Holds(q), Apply(q)
  PROVE  /\ q.op = "renew" => row'.rangeID = row.rangeID + 1
         /\ q.op # "renew" => row'.rangeID = row.rangeID
         /\ row' = row \/ (row'.rangeID = q.next /\ row'.ack = q.ack)
<1>1. q.op \in {"write", "renew", "persist"}
  BY DEF Statements
<1>2. CASE q.op = "write"
  BY <1>2 DEF Apply
<1>3. CASE q.op # "write"
  <2> DEFINE r == [rangeID |-> q.next, ack |-> q.ack]
  <2>1. row' = r /\ r.rangeID = q.next /\ r.ack = q.ack
    BY <1>3 DEF Apply
  <2> HIDE DEF r
  <2>2. row'.rangeID = q.next /\ row'.ack = q.ack
    BY <2>1
  <2> QED BY <1>1, <1>3, <2>2 DEF Holds, WellFormed
<1> QED BY <1>2, <1>3

\* What the operation of c becomes when c has its new range ID.
LEMMA RenewFacts ==
  ASSUME TypeOK, NEW c \in Context, RenewOK(c)
  PROVE  /\ pc'[c] # "wait" /\ call'[c] = NoStatement /\ job'[c] \in {job[c], NoJob} /\ ~Granted(c)'
         /\ rangeID'[c] = call[c].next /\ seq'[c] = BlockStart(call[c].next)
         /\ \A d \in Context \ {c} :
              /\ status'[d] = status[d] /\ rangeID'[d] = rangeID[d] /\ seq'[d] = seq[d]
              /\ pc'[d] = pc[d] /\ job'[d] = job[d] /\ call'[d] = call[d] /\ fate'[d] = fate[d]
<1>1. /\ rangeID'[c] = call[c].next /\ seq'[c] = BlockStart(call[c].next)
      /\ \A d \in Context \ {c} : status'[d] = status[d] /\ rangeID'[d] = rangeID[d] /\ seq'[d] = seq[d]
  BY SMTT(30) DEF RenewOK, Renewed, TypeOK
<1>2. /\ pc'[c] # "wait" /\ call'[c] = NoStatement /\ job'[c] \in {job[c], NoJob}
      /\ \A d \in Context \ {c} : pc'[d] = pc[d] /\ job'[d] = job[d] /\ call'[d] = call[d] /\ fate'[d] = fate[d]
  BY SMTT(30) DEF RenewOK, Return, TypeOK
<1> QED BY <1>1, <1>2 DEF Granted

\* A step of a context, with any queue state to persist, keeps the invariant.
LEMMA ContextStep ==
  ASSUME IInv, NEW c \in Context,
         \/ Step(c) \/ Fault(c)
         \/ \E kind \in Kinds, n \in 1 .. MaxTasks : Begin(c, kind, n)
         \/ \E a \in Nat : UpdateQueueState(c, a)
  PROVE  IInv'
<1>0. TypeOK /\ TypeOK' /\ OperationOK(c) /\ FieldsOK(c)
  BY OfContext, TypeStep DEF IInv
<1>a. TypeOK /\ TypeOK'
  BY <1>0
<1> USE <1>a DEF ctxVars, opVars
<1>b. /\ status[c] = "open" =>
           level[c] < seq[c] /\ seen[c] < seq[c] /\ job[c].top < seq[c] /\ 0 < seq[c]
      /\ status[c] = "none" => seen[c] = 0
  BY SMTT(30), <1>0 DEF FieldsOK, TypeOK
<1>1. CASE Decide(c)
  BY <1>1, DecideStep
<1>2. CASE AcquireShard(c)
  <2>1. OperationOK(c)'
    <3>1. pc'[c] = "wait" /\ call'[c] = Renewal(row.rangeID, row.ack, "acquire")
      BY <1>2 DEF AcquireShard, Send, TypeOK
    <3>2. job'[c].ids = {} /\ status'[c] = "none"
      BY <1>2, <1>0 DEF AcquireShard, OperationOK
    <3> QED BY SMTT(30), <3>1, <3>2, <1>2 DEF OperationOK, WellFormed, Renewal
  <2> QED BY <1>2, <2>1, Sent DEF AcquireShard
<1>3. CASE RenewOK(c)
  BY <1>3, RenewOKStep
<1>4. CASE RenewRefused(c)
  <2>1. /\ Return(c) /\ row' = row /\ tasks' = tasks /\ late' = late /\ seq' = seq /\ level' = level
        /\ seen' = seen
    BY <1>4 DEF RenewRefused
  <2>2. /\ status'[c] # "open" /\ (status'[c] = "none" => seen[c] = 0)
        /\ \A d \in Context \ {c} : status'[d] = status[d] /\ rangeID'[d] = rangeID[d]
    BY <1>4, <1>0, <1>b, CloseFacts DEF RenewRefused, OperationOK
  <2> QED BY <2>1, <2>2, ReturnFacts, Released
<1>5. CASE GenerateTaskID(c)
  BY <1>5, GenerateStep
<1>6. CASE RenewRange(c)
  <2>1. OperationOK(c)'
    <3>1. pc'[c] = "wait" /\ call'[c] = Renewal(rangeID[c], ack[c], "alloc")
      BY <1>6 DEF RenewRange, Send, TypeOK
    <3>2. status'[c] = "open" /\ rangeID'[c] = rangeID[c]
      BY <1>6, <1>0 DEF RenewRange, OperationOK
    <3> QED BY SMTT(30), <3>1, <3>2 DEF OperationOK, WellFormed, Renewal
  <2> QED BY <1>6, <2>1, Sent DEF RenewRange
<1>7. CASE Generated(c)
  <2>1. UNCHANGED <<row, tasks, late, ctxVars, seen>> /\ Return(c) /\ pc[c] = "alloc"
    BY <1>7 DEF Generated
  <2> QED BY <2>1, <1>b, ReturnFacts, Released
<1>8. CASE SendWrite(c)
  <2> DEFINE q == [op |-> "write", why |-> "none", prev |-> rangeID[c], next |-> rangeID[c],
                   ack |-> 0, rows |-> [id : job[c].ids, kind : {job[c].kind}]]
  <2>1. OperationOK(c)'
    <3>1. pc'[c] = "wait" /\ call'[c] = q
      BY <1>8 DEF SendWrite, Send, TypeOK
    <3>2. status'[c] = "open" /\ rangeID'[c] = rangeID[c] /\ job' = job
      BY <1>8, <1>0 DEF SendWrite, OperationOK
    <3>3. \A t \in q.rows : t.id \in job[c].ids /\ t.kind = job[c].kind /\ t.kind # "generate"
      BY <1>8 DEF SendWrite
    <3> QED BY SMTT(30), <3>1, <3>2, <3>3 DEF OperationOK, WellFormed
  <2>2. Send(c, q)
    BY <1>8 DEF SendWrite
  <2> QED BY <1>8, <2>1, <2>2, Sent DEF SendWrite
<1>9. CASE WriteOK(c)
  <2>1. /\ Return(c) /\ row' = row /\ tasks' = tasks /\ late' = late /\ seq' = seq
        /\ status' = status /\ rangeID' = rangeID /\ seen' = seen /\ pc[c] = "wait"
        /\ call[c].op = "write" /\ level' = [level EXCEPT ![c] = LevelAfter(c)]
    BY <1>9 DEF WriteOK
  <2>2. status[c] = "open" /\ call[c].why # "recover"
    BY <2>1, <1>0 DEF OperationOK
  <2>3. level'[c] < seq[c] /\ \A d \in Context \ {c} : level'[d] = level[d]
    BY <2>1, <2>2, <1>b DEF LevelAfter, TypeOK
  <2> QED BY <2>1, <2>2, <2>3, <1>b, ReturnFacts, Released
<1>10. CASE WriteFails(c)
  <2>1. /\ UNCHANGED <<row, tasks, late, ctxVars, seen>> /\ Return(c)
        /\ pc[c] = "wait" /\ call[c].op = "write"
    BY <1>10 DEF WriteFails
  <2>2. call[c].why # "recover"
    BY <2>1, <1>0 DEF OperationOK
  <2> QED BY <2>1, <2>2, <1>b, ReturnFacts, Released
<1>11. CASE WriteRefused(c)
  <2>1. UNCHANGED <<row, tasks, late, seq, level, ack, seen>> /\ Return(c) /\ CloseShard(c)
    BY <1>11 DEF WriteRefused
  <2> QED BY <2>1, CloseFacts, ReturnFacts, Released
<1>12. CASE PersistOK(c)
  <2>1. /\ UNCHANGED <<row, tasks, late, ctxVars, seen>> /\ Return(c)
        /\ pc[c] = "wait" /\ call[c].op = "persist"
    BY <1>12 DEF PersistOK
  <2>2. call[c].why # "recover"
    BY <2>1, <1>0 DEF OperationOK
  <2> QED BY <2>1, <2>2, <1>b, ReturnFacts, Released
<1>13. CASE PersistRefused(c)
  <2>1. UNCHANGED <<row, tasks, late, seq, level, ack, seen>> /\ Return(c) /\ CloseShard(c)
    BY <1>13 DEF PersistRefused
  <2> QED BY <2>1, CloseFacts, ReturnFacts, Released
<1>14. CASE Unload(c)
  <2>1. UNCHANGED <<row, tasks, late, opVars>> /\ Reset(c) /\ pc[c] = "idle"
    BY <1>14 DEF Unload
  <2>2. /\ status'[c] = "none" /\ seen'[c] = 0
        /\ \A d \in Context \ {c} :
             /\ status'[d] = status[d] /\ rangeID'[d] = rangeID[d] /\ seq'[d] = seq[d]
             /\ level'[d] = level[d] /\ seen'[d] = seen[d]
    BY SMTT(30), <2>1 DEF Reset, TypeOK
  <2>3. job'[c].ids = {} /\ ~Granted(c)' /\ OperationOK(c)'
    BY <2>1, <1>0 DEF OperationOK, Granted
  <2> QED BY <2>1, <2>2, <2>3, Released
<1>15. CASE GetMaxReadLevel(c)
  <2>1. /\ UNCHANGED <<row, tasks, late, ctxVars, opVars>> /\ status[c] # "none" /\ pc[c] = "idle"
        /\ seen' = [seen EXCEPT ![c] = level[c]]
    BY <1>15 DEF GetMaxReadLevel
  <2>2. seen'[c] = level[c] /\ \A d \in Context \ {c} : seen'[d] = seen[d]
    BY <2>1 DEF TypeOK
  <2>3. job'[c].ids = {} /\ ~Granted(c)' /\ OperationOK(c)'
    BY <2>1, <1>0 DEF OperationOK, Granted
  <2> QED BY <2>1, <2>2, <2>3, <1>b, Released
<1>16. CASE RenewUnknown(c)
  <2>1. /\ UNCHANGED <<row, tasks, seq, level, ack, seen>> /\ Return(c) /\ pc[c] = "wait"
        /\ call[c].op = "renew" /\ (late' = late \/ late' = late \cup {call[c]})
    BY <1>16 DEF RenewUnknown, Abandon
  <2>2. CASE call[c].why = "recover"
    BY <2>1, <2>2, <1>16, CloseFacts, ReturnFacts, Released DEF RenewUnknown, AfterUnknownRenewal
  <2>3. CASE call[c].why # "recover"
    <3>1. UNCHANGED <<status, rangeID>> /\ ~Writing(c)
      BY <2>1, <2>3, <1>16 DEF RenewUnknown, AfterUnknownRenewal, Writing
    <3> QED BY <2>1, <2>3, <3>1, <1>b, ReturnFacts, Released
  <2> QED BY <2>2, <2>3
<1>17. CASE WriteUnknown(c)
  <2>1. /\ UNCHANGED <<row, tasks, ctxVars, seen>> /\ pc[c] = "wait" /\ call[c].op = "write"
        /\ (late' = late \/ late' = late \cup {call[c]}) /\ AfterUnknownWrite(c)
    BY <1>17 DEF WriteUnknown, Abandon
  <2>2. status[c] = "open" /\ call[c].why # "recover"
    BY <2>1, <1>0 DEF OperationOK
  <2>3. CASE job[c].kind = "marker" /\ Return(c)
    BY <2>1, <2>2, <2>3, <1>b, ReturnFacts, Released
  <2>4. CASE /\ Send(c, Renewal(rangeID[c], ack[c], "recover"))
             /\ job' = [job EXCEPT ![c] = NoJob]
    <3>1. /\ pc'[c] = "wait" /\ call'[c] = Renewal(rangeID[c], ack[c], "recover")
          /\ fate'[c] = "sent" /\ job'[c].ids = {} /\ job'[c].top = 0
          /\ \A d \in Context \ {c} :
               pc'[d] = pc[d] /\ job'[d] = job[d] /\ call'[d] = call[d] /\ fate'[d] = fate[d]
      BY SMTT(30), <2>4 DEF Send, NoJob, TypeOK
    <3>2. OperationOK(c)' /\ ~Granted(c)' /\ call'[c].why = "recover"
      BY SMTT(30), <3>1, <2>1, <2>2 DEF OperationOK, WellFormed, Renewal, Granted
    <3> QED BY <2>1, <2>2, <3>1, <3>2, <1>b, Released
  <2> QED BY <2>1, <2>3, <2>4 DEF AfterUnknownWrite
<1>18. CASE PersistUnknown(c)
  <2>1. /\ UNCHANGED <<row, tasks, ctxVars, seen>> /\ Return(c) /\ pc[c] = "wait"
        /\ call[c].op = "persist" /\ (late' = late \/ late' = late \cup {call[c]})
    BY <1>18 DEF PersistUnknown, Abandon
  <2>2. ~Writing(c) /\ call[c].why # "recover"
    BY <2>1, <1>0 DEF Writing, OperationOK
  <2> QED BY <2>1, <2>2, <1>b, ReturnFacts, Released
<1>19. CASE Crash(c)
  <2>1. /\ UNCHANGED <<row, tasks>> /\ Return(c) /\ Reset(c)
        /\ late' = late \/ (fate[c] = "sent" /\ late' = late \cup {call[c]})
    BY <1>19 DEF Crash, Abandon
  <2>2. /\ status'[c] = "none" /\ seen'[c] = 0
        /\ \A d \in Context \ {c} :
             /\ status'[d] = status[d] /\ rangeID'[d] = rangeID[d] /\ seq'[d] = seq[d]
             /\ level'[d] = level[d] /\ seen'[d] = seen[d]
    BY SMTT(30), <2>1 DEF Reset, TypeOK
  <2>3. fate[c] = "sent" => pc[c] = "wait"
    BY <1>0 DEF OperationOK
  <2> QED BY <2>1, <2>2, <2>3, ReturnFacts, Released
<1>20. ASSUME NEW kind \in Kinds, NEW n \in 1 .. MaxTasks, Begin(c, kind, n) PROVE IInv'
  <2>1. /\ UNCHANGED <<row, tasks, late, ctxVars, call, fate, seen>> /\ status[c] = "open"
        /\ pc[c] = "idle" /\ pc'[c] = "alloc" /\ job'[c].ids = {} /\ job'[c].top = 0
        /\ \A d \in Context \ {c} : pc'[d] = pc[d] /\ job'[d] = job[d]
    BY <1>20 DEF Begin, TypeOK
  <2>2. ~Granted(c)' /\ OperationOK(c)'
    BY <2>1, <1>0 DEF Granted, OperationOK
  <2> QED BY <2>1, <2>2, <1>b, Released
<1>21. ASSUME NEW a \in Nat, UpdateQueueState(c, a) PROVE IInv'
  <2> DEFINE q == [op |-> "persist", why |-> "none", prev |-> rangeID[c], next |-> rangeID[c],
                   ack |-> a, rows |-> {}]
  <2>1. /\ UNCHANGED <<row, tasks, late, status, rangeID, seq, level, job, seen>> /\ pc[c] = "idle"
        /\ job[c].ids = {} /\ status[c] # "none"
    BY <1>21, <1>0 DEF UpdateQueueState, OperationOK
  <2>2. CASE UNCHANGED <<pc, call, fate>>
    <3>1. ~Granted(c)' /\ OperationOK(c)'
      BY <2>1, <2>2, <1>0 DEF Granted, OperationOK
    <3> QED BY <2>1, <2>2, <3>1, <1>b, Released
  <2>3. CASE status[c] = "open" /\ Send(c, q)
    <3>1. pc'[c] = "wait" /\ call'[c] = q
      BY <2>3 DEF Send, TypeOK
    <3>2. /\ call'[c].op = "persist" /\ call'[c].why = "none" /\ call'[c].prev = rangeID'[c]
          /\ call'[c].next = call'[c].prev /\ call'[c].rows = {} /\ job'[c].ids = {}
          /\ status'[c] = "open"
      <4>1. q.op = "persist" /\ q.why = "none" /\ q.prev = rangeID[c] /\ q.next = q.prev /\ q.rows = {}
        BY SMTT(30)
      <4> HIDE DEF q
      <4> QED BY <4>1, <2>1, <2>3, <3>1
    <3>3. OperationOK(c)'
      BY <3>1, <3>2 DEF OperationOK, WellFormed
    <3> QED BY <2>1, <2>3, <3>3, Sent
  <2> QED BY <1>21, <2>2, <2>3 DEF UpdateQueueState
<1> QED BY <1>1, <1>2, <1>3, <1>4, <1>5, <1>6, <1>7, <1>8, <1>9, <1>10, <1>11, <1>12, <1>13,
           <1>14, <1>15, <1>16, <1>17, <1>18, <1>19, <1>20, <1>21 DEF Step, Fault

\* The first state.
LEMMA InitHolds == Init => IInv
<1> SUFFICES ASSUME Init PROVE IInv
  OBVIOUS
<1> USE DEF Init
<1>1. NoJob \in Jobs /\ NoStatement \in Statements /\ NoJob.ids = {}
  BY DEF NoJob, NoStatement, Jobs, Statements, Kinds
<1>2. TypeOK
  BY <1>1 DEF TypeOK
<1>3. \A c \in Context, r \in Nat : ~HasLease(c, r) /\ ~Granted(c)
  BY DEF HasLease, Granted
<1>4. \A i \in Nat : ~Written(i) /\ ~Taken(i)
  BY <1>1 DEF Written, Taken
<1>5. ContextsOK
  BY <1>1 DEF ContextsOK, OperationOK, FieldsOK
<1>6. LeasesOK /\ IDsOK /\ OrderOK /\ LateOK
  BY <1>3, <1>4 DEF LeasesOK, IDsOK, OrderOK, LateOK
<1>7. FreshOK
  BY <1>1 DEF FreshOK
<1> QED BY <1>2, <1>5, <1>6, <1>7 DEF IInv

\* A step in which nothing of the shard changes keeps the invariant.
LEMMA Unmoved == ASSUME IInv, UNCHANGED vars PROVE IInv'
<1>1. TypeOK'
  BY Parts DEF TypeOK, vars, ctxVars, opVars
<1> QED BY <1>1, Deleted DEF vars

\* A delayed statement keeps the types.
LEMMA LateTypes == ASSUME IInv, NEW q \in late, DecideLate(q) PROVE TypeOK'
<1>1. q \in Statements /\ TypeOK
  BY Parts DEF TypeOK
<1>2. Apply(q) => row' \in [rangeID : Nat, ack : Nat] /\ tasks' \subseteq Tasks
  BY SMTT(30), <1>1 DEF Apply, Statements, TypeOK
<1> QED BY <1>1, <1>2 DEF DecideLate, TypeOK, ctxVars, opVars

\* Every step of the contexts keeps the invariant.
LEMMA NextKeeps == ASSUME IInv, [Next]_vars PROVE IInv'
<1>1. ASSUME NEW c \in Context, Operation(c) PROVE IInv'
  <2>1. \/ \E kind \in Kinds, n \in 1 .. MaxTasks : Begin(c, kind, n)
        \/ \E a \in Nat : UpdateQueueState(c, a)
    BY <1>1, QueueStateAssumption DEF Operation
  <2> QED BY <2>1, ContextStep
<1>2. ASSUME NEW c \in Context, Step(c) \/ Fault(c) PROVE IInv'
  BY <1>2, ContextStep
<1>3. ASSUME NEW q \in late, DecideLate(q) PROVE IInv'
  BY <1>3, LateTypes, DecideLateStep
<1> QED BY <1>1, <1>2, <1>3, Unmoved DEF Next

\* IInv is an invariant of the contexts alone.
THEOREM ShardInductive == Spec => []IInv
BY InitHolds, NextKeeps, PTL DEF Spec

-----------------------------------------------------------------------------
(* The contexts with their queues.                                         *)

QueuesOK == queue \in [Context -> Queues]

NatLess == {ss \in Nat \X Nat : ss[1] < ss[2]}

\* A set of natural numbers that is not empty has a least member.
LEMMA Least ==
  ASSUME NEW S \in SUBSET Nat, S # {}
  PROVE  LET least == CHOOSE a \in S : \A b \in S : a <= b
         IN  least \in Nat /\ least \in S /\ \A b \in S : least <= b
<1>1. NatLess = OpToRel(<, Nat)
  BY DEF OpToRel, NatLess
<1>2. PICK a \in S : \A b \in S : ~(<<b, a>> \in NatLess)
  BY <1>1, NatLessThanWellFounded, WFMin
<1>3. ASSUME NEW b \in S PROVE a <= b
  <2>1. a \in Nat /\ b \in Nat
    OBVIOUS
  <2>2. ~(b < a)
    BY <2>1, <1>2 DEF NatLess
  <2> QED BY SMTT(30), <2>1, <2>2
<1> QED BY <1>3

\* The steps of the queues, seen from the shard: a step of a context, a
\* deletion, or none.
LEMMA QNextKeeps == ASSUME IInv, QueuesOK, [QNext]_qvars PROVE IInv' /\ QueuesOK'
<1>0. TypeOK
  BY DEF IInv
<1> USE <1>0
<1>1. ASSUME NEW c \in Context, ShardStep(c) PROVE IInv' /\ QueuesOK'
  BY <1>1, ContextStep DEF ShardStep, Step, QueuesOK
<1>2. ASSUME NEW c \in Context, StartQueue(c) PROVE IInv' /\ QueuesOK'
  BY <1>2, Unmoved DEF StartQueue, QueuesOK, Queues, NoQueue, TypeOK
<1>3. ASSUME NEW c \in Context, ProcessNewTasks(c) PROVE IInv' /\ QueuesOK'
  <2>1. level[c] + 1 \in Nat
    BY SMTT(30) DEF TypeOK
  <2>2. QueuesOK'
    BY <1>3, <2>1 DEF ProcessNewTasks, QueuesOK, Queues
  <2> QED BY <1>3, <2>2, ContextStep DEF ProcessNewTasks, Step
<1>4. ASSUME NEW c \in Context, LoadTasks(c) PROVE IInv' /\ QueuesOK'
  <2>1. {id \in TaskIDs(tasks) : Within(id, queue[c])} \subseteq Nat
    BY SMTT(30) DEF TaskIDs, TypeOK, Tasks
  <2> DEFINE q == [queue[c] EXCEPT !.pending = @ \cup {id \in TaskIDs(tasks) : Within(id, queue[c])},
                                   !.next = queue[c].max]
  <2>2. queue[c] \in Queues
    BY DEF QueuesOK
  <2>3. q \in Queues
    BY <2>1, <2>2 DEF Queues
  <2>4. queue' = [queue EXCEPT ![c] = q] /\ UNCHANGED vars
    BY <1>4 DEF LoadTasks
  <2>5. QueuesOK'
    BY <2>3, <2>4 DEF QueuesOK
  <2> QED BY <2>4, <2>5, Unmoved
<1>5. ASSUME NEW c \in Context, NEW id \in queue[c].pending, ProcessTask(c, id) PROVE IInv' /\ QueuesOK'
  BY <1>5, Unmoved DEF ProcessTask, QueuesOK, Queues
<1>6. ASSUME NEW c \in Context, UpdateState(c) PROVE IInv' /\ QueuesOK'
  <2>1. queue[c].pending \cup {queue[c].next} \in SUBSET Nat
    BY DEF QueuesOK, Queues
  <2>2. AckLevel(queue[c]) \in Nat
    BY <2>1, Least DEF AckLevel
  <2> QED BY SMTT(30), <1>6, <2>2, Unmoved DEF UpdateState, QueuesOK, Queues
<1>7. ASSUME NEW c \in Context, DeleteTasks(c) PROVE IInv' /\ QueuesOK'
  <2>1. tasks' \subseteq tasks /\ UNCHANGED <<row, late, ctxVars, opVars, seen>>
    BY <1>7 DEF DeleteTasks
  <2>2. TypeOK'
    BY <2>1 DEF TypeOK, ctxVars, opVars
  <2>3. QueuesOK'
    BY <1>7 DEF DeleteTasks, QueuesOK, Queues
  <2> QED BY <2>1, <2>2, <2>3, Deleted
<1>8. ASSUME NEW c \in Context, DeleteFails(c) PROVE IInv' /\ QueuesOK'
  BY <1>8, Unmoved DEF DeleteFails, QueuesOK, Queues
<1>9. ASSUME NEW c \in Context, PersistState(c) PROVE IInv' /\ QueuesOK'
  <2>1. queue[c].new \in Nat
    BY DEF QueuesOK, Queues
  <2> QED BY <1>9, <2>1, ContextStep DEF PersistState, QueuesOK, Queues
<1>10. NoQueue \in Queues
  BY DEF NoQueue, Queues
<1>11. ASSUME NEW c \in Context, StopQueue(c) PROVE IInv' /\ QueuesOK'
  BY <1>10, <1>11, ContextStep DEF StopQueue, Step, QueuesOK
<1>12. ASSUME NEW c \in Context, QFault(c) PROVE IInv' /\ QueuesOK'
  BY <1>8, <1>10, <1>12, ContextStep DEF QFault, CrashQueue, Fault, QueuesOK
<1>13. ASSUME NEW c \in Context, Write(c) PROVE IInv' /\ QueuesOK'
  BY <1>13, ContextStep DEF Write, Kinds, QueuesOK
<1>14. ASSUME LateStep PROVE IInv' /\ QueuesOK'
  BY <1>14, LateTypes, DecideLateStep DEF LateStep, QueuesOK
<1>15. ASSUME UNCHANGED qvars PROVE IInv' /\ QueuesOK'
  BY <1>15, Unmoved DEF qvars, QueuesOK
<1> QED BY <1>1, <1>2, <1>3, <1>4, <1>5, <1>6, <1>7, <1>9, <1>11, <1>12, <1>13, <1>14, <1>15
        DEF QNext, QueueStep

\* IInv is an invariant of the contexts with their queues.
THEOREM ShardQueueInductive == QSpec => [](IInv /\ QueuesOK)
<1>1. QInit => IInv /\ QueuesOK
  <2>1. NoQueue \in Queues
    BY DEF NoQueue, Queues
  <2> QED BY <2>1, InitHolds DEF QInit, QueuesOK
<1> QED BY <1>1, QNextKeeps, PTL DEF QSpec

-----------------------------------------------------------------------------
(* What follows.                                                           *)

\* Two contexts never hold the same lease (UpdateShard), whatever the number
\* of contexts, thefts, lost answers and delayed statements.
THEOREM LeaseIsExclusive == (Spec => []OneOwner) /\ (QSpec => []OneOwner)
<1>1. IInv => OneOwner
  BY OfContext, Parts DEF LeasesOK, HasLease, OneOwner, FieldsOK
<1> QED BY <1>1, ShardInductive, ShardQueueInductive, PTL

\* The IDs of an operation of a shard are its own (generateTaskIDLocked).
THEOREM TaskIDsAreFresh == (Spec => []TaskIDsFresh) /\ (QSpec => []TaskIDsFresh)
<1>1. IInv => TaskIDsFresh
  <2> SUFFICES ASSUME IInv, NEW c \in Context, pc[c] = "alloc", NEW i \in job[c].ids
               PROVE  /\ i \notin TaskIDs(tasks)
                      /\ \A q \in late : i \notin TaskIDs(q.rows)
                      /\ \A d \in Context \ {c} : i \notin job[d].ids
    BY DEF TaskIDsFresh
  <2>1. ~Written(i) /\ \A d \in Context : i \in job[d].ids => c = d
    BY Parts DEF FreshOK, Writing
  <2> QED BY <2>1 DEF Written, TaskIDs
<1> QED BY <1>1, ShardInductive, ShardQueueInductive, PTL

\* When the lock is released the outcome of a workflow write is decided: no
\* delayed write under the lease of the context can succeed any more.
THEOREM OutcomesAreDecided == (Spec => []OutcomeDecided) /\ (QSpec => []OutcomeDecided)
<1>1. IInv => OutcomeDecided
  <2> SUFFICES ASSUME IInv, NEW c \in Context, NEW q \in late, NEW t \in q.rows,
                      status[c] = "open", pc[c] = "idle", q.prev = rangeID[c]
               PROVE  t.kind = "marker"
    BY DEF OutcomeDecided
  <2>1. t.kind # "workflow"
    BY Parts DEF LateOK, DelayedOK
  <2>2. t.kind \in Kinds
    BY Parts DEF TypeOK, Statements, Tasks
  <2>3. t.kind # "generate"
    BY Parts DEF LateOK, WellFormed
  <2> QED BY <2>1, <2>2, <2>3 DEF Kinds
<1> QED BY <1>1, ShardInductive, ShardQueueInductive, PTL

\* The fields of the contexts and the rows of the shard stay well formed.
THEOREM ShardTypes == (Spec => []TypeOK) /\ (QSpec => []TypeOK)
<1>1. IInv => TypeOK
  BY DEF IInv
<1> QED BY <1>1, ShardInductive, ShardQueueInductive, PTL

\* A new task of a workflow is above every level that a queue of an open context
\* has read up to.
LEMMA NewTaskAbove ==
  ASSUME IInv, NEW q, Holds(q), NEW t \in q.rows, t.kind = "workflow", NEW c \in Context,
         status[c] = "open",
         q \in late \/ \E d \in Context : pc[d] = "wait" /\ q = call[d]
  PROVE  t.id > seen[c]
<1>1. /\ rangeID[c] \in Nat /\ seq[c] \in Nat /\ seen[c] \in Nat /\ row.rangeID \in Nat
      /\ seen[c] < seq[c] /\ seq[c] <= BlockEnd(rangeID[c]) /\ BlockEnd(rangeID[c]) \in Int
  BY OfContext, AllBlocks, Parts DEF FieldsOK, TypeOK
<1>2. HasLease(c, rangeID[c]) /\ rangeID[c] <= row.rangeID /\ row.rangeID = q.prev
  BY <1>1, Parts DEF HasLease, LeasesOK, Holds
<1>3. t.id \in Nat
  BY SMTT(30), Parts DEF Statements, Tasks, TypeOK
<1>4. BlockEnd(rangeID[c]) <= t.id => t.id > seen[c]
  BY SMTT(30), <1>1, <1>3
<1>5. CASE q \in late
  <2>1. DelayedOK(q, t)
    BY <1>5, Parts DEF LateOK
  <2>2. CASE rangeID[c] = q.prev
    BY <2>1, <2>2, <1>1, <1>3 DEF DelayedOK
  <2>3. CASE rangeID[c] # q.prev
    <3>1. rangeID[c] < q.prev
      BY SMTT(30), <2>3, <1>1, <1>2
    <3> QED BY <2>1, <3>1, <1>1, <1>2, <1>4 DEF DelayedOK
  <2> QED BY <2>2, <2>3
<1>6. ASSUME NEW d \in Context, pc[d] = "wait", q = call[d] PROVE t.id > seen[c]
  <2>1. q.op = "write" /\ t.id \in job[d].ids /\ status[d] = "open" /\ q.prev = rangeID[d]
    BY <1>6, OfContext DEF OperationOK, WellFormed
  <2>2. CASE c = d
    BY <2>1, <2>2, <1>1, <1>3, OfContext DEF FieldsOK
  <2>3. CASE c # d
    <3>1. rangeID[c] # rangeID[d]
      BY <2>1, <2>3, <1>1, <1>2, Parts DEF LeasesOK, HasLease
    <3>2. rangeID[c] < rangeID[d]
      BY SMTT(30), <3>1, <2>1, <1>1, <1>2
    <3> QED BY <2>1, <2>3, <3>2, <1>1, <1>2, <1>4, Parts DEF OrderOK
  <2> QED BY <2>2, <2>3
<1> QED BY <1>5, <1>6

\* The steps that write tasks.
LEMMA NewTasks ==
  ASSUME IInv, [Next]_vars \/ [QNext]_qvars, NEW t \in tasks' \ tasks
  PROVE  \E q : /\ Holds(q) /\ t \in q.rows
                /\ q \in late \/ \E d \in Context : pc[d] = "wait" /\ q = call[d]
<1>1. ASSUME NEW d \in Context, Decide(d)
      PROVE  Holds(call[d]) /\ t \in call[d].rows /\ pc[d] = "wait"
  BY <1>1, OfContext DEF Decide, Apply, OperationOK
<1>2. ASSUME NEW q \in late, DecideLate(q) PROVE Holds(q) /\ t \in q.rows
  BY <1>2 DEF DecideLate, Apply
<1>3. ASSUME NEW d \in Context, Step(d) \/ Fault(d) \/ Operation(d) PROVE Decide(d)
  BY <1>3 DEF Step, Fault, Operation, AcquireShard, RenewOK, RenewRefused, GenerateTaskID,
       RenewRange, Generated, SendWrite, WriteOK, WriteFails, WriteRefused, PersistOK,
       PersistRefused, Unload, GetMaxReadLevel, RenewUnknown, WriteUnknown, PersistUnknown,
       Crash, Begin, UpdateQueueState
<1>4. ASSUME NEW d \in Context, ShardStep(d) \/ QueueStep(d) \/ QFault(d) \/ Write(d) PROVE Decide(d)
  BY <1>4 DEF ShardStep, QueueStep, QFault, Write, StartQueue, ProcessNewTasks, LoadTasks,
       ProcessTask, UpdateState, DeleteTasks, DeleteFails, PersistState, StopQueue, CrashQueue,
       AcquireShard, RenewOK, RenewRefused, GenerateTaskID, RenewRange, SendWrite, WriteOK,
       WriteFails, WriteRefused, PersistOK, PersistRefused, Unload, GetMaxReadLevel, RenewUnknown,
       WriteUnknown, PersistUnknown, Crash, Begin, UpdateQueueState, vars
<1>5. \/ \E d \in Context : Decide(d)
      \/ \E q \in late : DecideLate(q)
  BY <1>3, <1>4 DEF Next, QNext, LateStep, vars, qvars
<1> QED BY <1>1, <1>2, <1>5

\* No task of a workflow appears where a queue of an open shard will not look
\* again (updateMaxReadLevelLocked).
THEOREM NoTaskIsLate == (Spec => NoLateTask) /\ (QSpec => NoLateTask)
<1> DEFINE A == \A t \in tasks' \ tasks, c \in Context :
                  (t.kind = "workflow" /\ status[c] = "open") => t.id > seen[c]
<1>1. IInv /\ ([Next]_vars \/ [QNext]_qvars) => A
  BY NewTasks, NewTaskAbove
<1>2. IInv /\ [Next]_vars => [A]_vars
  BY <1>1
<1>3. IInv /\ [QNext]_qvars => [A]_vars
  BY <1>1
<1>4. Spec => [][A]_vars
  BY <1>2, ShardInductive, PTL DEF Spec
<1>5. QSpec => [][A]_vars
  BY <1>3, ShardQueueInductive, PTL DEF QSpec
<1> QED BY <1>4, <1>5 DEF NoLateTask

-----------------------------------------------------------------------------
(* The tasks: none is acknowledged, deleted or passed over before it has   *)
(* been processed.                                                         *)

\* The IDs that a task may still be written with: an operation under the current
\* lease has taken them, a delayed write under it carries them, or the lease or a
\* later one will give them out.
FutureID(i) ==
  \/ \E c \in Context : HasLease(c, row.rangeID) /\ i \in job[c].ids
  \/ \E q \in late : q.prev = row.rangeID /\ \E t \in q.rows : t.id = i
  \/ \E c \in Context : status[c] = "open" /\ rangeID[c] = row.rangeID /\ seq[c] <= i
  \/ \E c \in Context : Granted(c) /\ call[c].next = row.rangeID /\ BlockStart(row.rangeID) <= i
  \/ BlockEnd(row.rangeID) <= i

\* No task below a will be written, and those that were have been processed.
Passed(a) ==
  /\ \A t \in tasks : t.id < a => t \in done
  /\ \A i \in Nat : FutureID(i) => a <= i

\* The queues have processed all they have read, but for what is pending, and
\* have read nothing that may still be written.
QueueOK(c) ==
  LET q == queue[c] IN
  /\ q.next <= q.max
  /\ \A t \in tasks : t.id < q.next => t \in done \/ t.id \in q.pending
  /\ \A i \in Nat : FutureID(i) => q.max <= i

\* The invariant is needed twice: of all queues, and of those that can still write
\* to the shard's row (all = FALSE).
Counts(c, all) == all \/ status[c] # "closed"

\* A level up to which somebody has acknowledged the tasks or may do so.
Level(a, all) ==
  \/ a = row.ack
  \/ \E c \in Context : a = call[c].ack \/ (Counts(c, all) /\ a \in {ack[c], queue[c].new})
  \/ \E q \in late : a = q.ack

\* A closed context has read nothing that may still be written.
ClosedOK(c) == status[c] = "closed" => \A i \in Nat : FutureID(i) => level[c] < i

\* A statement that was refused was sent under an older lease.
RefusedOK(c) ==
  pc[c] = "wait" =>
    /\ fate[c] # "none"
    /\ (fate[c] = "refused" /\ call[c].why # "acquire") => call[c].prev < row.rangeID

\* The queues are about the tasks of workflows.
WorkflowsOnly ==
  /\ \A c \in Context : job[c] = NoJob \/ job[c].kind = "workflow"
  /\ \A q \in late : \A t \in q.rows : t.kind = "workflow"

\* The bound on range IDs (Next takes no step beyond it).
RangesBounded ==
  /\ row.rangeID <= MaxRangeID
  /\ \A c \in Context : call[c].next <= MaxRangeID
  /\ \A q \in late : q.next <= MaxRangeID

\* What holds of the shard whether or not a renewal has been decided.
Sound == IInv /\ QueuesOK /\ WorkflowsOnly /\ RangesBounded /\ \A c \in Context : RefusedOK(c)

\* The inductive invariant: nobody will acknowledge, and no queue has read past,
\* a task that is unprocessed or yet to be written.
QInv(all) ==
  /\ Sound
  /\ \A a \in Nat : Level(a, all) => Passed(a)
  /\ \A c \in Context : (Counts(c, all) => QueueOK(c)) /\ (all => ClosedOK(c))

-----------------------------------------------------------------------------
(* The steps, by what they do to the leases and to the statements.         *)

\* Leases, statements and levels stay as they are.
Still == UNCHANGED <<row, late, status, rangeID, seq, level, opVars>>

\* A context sends a statement.
Sends(c) ==
  /\ UNCHANGED <<row, late, status, rangeID, seq, level, job>> /\ pc[c] # "wait"
  /\ \E s \in Statements : Send(c, s) /\ s.next <= MaxRangeID

\* The lock of c is taken or released, or c renews its lease after a write of
\* unknown outcome.  A context that is closed here has lost its lease, or gives up
\* on the renewal of it.
Leaves(c) ==
  /\ row' = row
  /\ late' = late \/ (pc[c] = "wait" /\ late' = late \cup {call[c]})
  /\ job'[c].ids = {} /\ (job'[c] = NoJob \/ job'[c].kind = "workflow")
  /\ fate'[c] = (IF pc'[c] = "wait" THEN "sent" ELSE "none") /\ call'[c].next <= MaxRangeID
  /\ status'[c] = "open" => status[c] = "open" /\ rangeID'[c] = rangeID[c] /\ seq'[c] = seq[c]
  /\ status'[c] = "closed" =>
       /\ level'[c] = level[c]
       /\ \/ status[c] = "closed"
          \/ status[c] = "open" /\ rangeID[c] < row.rangeID /\ (Granted(c) => job[c].ids = {})
          \/ RenewUnknown(c) /\ call[c].why = "recover" /\ fate[c] = "sent"
  /\ \A d \in Context \ {c} :
       /\ status'[d] = status[d] /\ rangeID'[d] = rangeID[d] /\ seq'[d] = seq[d] /\ level'[d] = level[d]
       /\ pc'[d] = pc[d] /\ job'[d] = job[d] /\ call'[d] = call[d] /\ fate'[d] = fate[d]

\* An open context does not have a range ID beyond the row's.
LEMMA LeaseBelow ==
  ASSUME IInv, NEW c \in Context, status[c] = "open"
  PROVE  /\ rangeID[c] \in Nat /\ rangeID[c] <= row.rangeID /\ row.rangeID \in Nat
         /\ HasLease(c, rangeID[c])
<1>1. rangeID[c] \in Nat /\ row.rangeID \in Nat
  BY OfContext DEF FieldsOK, IInv, TypeOK
<1> QED BY <1>1 DEF IInv, LeasesOK, HasLease

\* Statements and the operations that send them.
LEMMA SendShapes ==
  ASSUME Sound, NEW c \in Context,
         AcquireShard(c) \/ RenewRange(c) \/ SendWrite(c) \/ (\E a \in Nat : UpdateQueueState(c, a))
  PROVE  Still \/ Sends(c)
<1>0. IInv /\ TypeOK /\ OperationOK(c) /\ row.rangeID <= MaxRangeID
  BY OfContext DEF Sound, IInv, RangesBounded
<1>b. MaxRangeID \in Nat
  BY BoundAssumption
<1>1. CASE AcquireShard(c)
  <2> DEFINE s == Renewal(row.rangeID, row.ack, "acquire")
  <2>1. s \in Statements /\ s.next <= MaxRangeID
    <3>1. row.rangeID \in Nat /\ row.ack \in Nat /\ row.rangeID < MaxRangeID
      BY <1>0, <1>1 DEF AcquireShard, TypeOK
    <3>2. s \in Statements
      BY <1>0, <3>1, PartTypes
    <3>3. s.next = row.rangeID + 1
      BY StatementFields
    <3>4. row.rangeID + 1 <= MaxRangeID
      BY <1>b, <3>1, Order
    <3> QED BY <3>2, <3>3, <3>4
  <2> QED BY <1>1, <2>1 DEF AcquireShard, Sends, ctxVars
<1>2. CASE RenewRange(c)
  <2> DEFINE s == Renewal(rangeID[c], ack[c], "alloc")
  <2>0. rangeID[c] \in Nat /\ ack[c] \in Nat
    BY <1>0, <1>2, LeaseBelow DEF RenewRange, OperationOK, TypeOK
  <2>1. s \in Statements /\ s.next <= MaxRangeID
    <3>1. rangeID[c] + 1 <= MaxRangeID
      BY <1>2, <1>b, <2>0, Order DEF RenewRange
    <3>2. s \in Statements
      BY <1>0, <2>0, PartTypes
    <3>3. s.next = rangeID[c] + 1
      BY StatementFields
    <3> QED BY <3>1, <3>2, <3>3
  <2> QED BY <1>2, <2>1 DEF RenewRange, Sends, ctxVars
<1>3. CASE SendWrite(c)
  <2> DEFINE s == [op |-> "write", why |-> "none", prev |-> rangeID[c], next |-> rangeID[c],
                   ack |-> 0, rows |-> [id : job[c].ids, kind : {job[c].kind}]]
  <2>0. rangeID[c] \in Nat /\ rangeID[c] <= MaxRangeID
    BY <1>0, <1>3, <1>b, LeaseBelow, Chain DEF SendWrite, OperationOK
  <2>1. [id : job[c].ids, kind : {job[c].kind}] \in SUBSET Tasks
    BY <1>0 DEF TypeOK, Jobs, Tasks
  <2>2. s \in Statements /\ s.next <= MaxRangeID
    BY <2>0, <2>1 DEF Statements
  <2>3. Send(c, s) /\ pc[c] # "wait" /\ UNCHANGED <<row, late, status, rangeID, seq, level, job>>
    BY <1>3 DEF SendWrite, ctxVars
  <2> QED BY <2>2, <2>3 DEF Sends
<1>4. ASSUME NEW a \in Nat, UpdateQueueState(c, a) PROVE Still \/ Sends(c)
  <2> DEFINE s == [op |-> "persist", why |-> "none", prev |-> rangeID[c], next |-> rangeID[c],
                   ack |-> a, rows |-> {}]
  <2>1. CASE UNCHANGED <<pc, call, fate>>
    BY <1>4, <2>1 DEF UpdateQueueState, Still, opVars
  <2>2. CASE status[c] = "open" /\ Send(c, s)
    <3>0. rangeID[c] \in Nat /\ rangeID[c] <= MaxRangeID
      BY <1>0, <2>2, <1>b, LeaseBelow, Chain
    <3>1. s \in Statements /\ s.next <= MaxRangeID
      BY <3>0 DEF Statements
    <3>2. UNCHANGED <<row, late, status, rangeID, seq, level, job>> /\ pc[c] # "wait"
      BY <1>4 DEF UpdateQueueState
    <3> QED BY <2>2, <3>1, <3>2 DEF Sends
  <2> QED BY <1>4, <2>1, <2>2 DEF UpdateQueueState
<1> QED BY <1>1, <1>2, <1>3, <1>4

\* What returning does to the operation of c.
LEMMA ReturnShape ==
  ASSUME TypeOK, NEW c \in Context, Return(c)
  PROVE  /\ job'[c] = NoJob /\ job'[c].ids = {} /\ fate'[c] = "none" /\ pc'[c] = "idle"
         /\ call'[c].next <= MaxRangeID
         /\ \A d \in Context \ {c} :
              pc'[d] = pc[d] /\ job'[d] = job[d] /\ call'[d] = call[d] /\ fate'[d] = fate[d]
<1>1. job'[c] = NoJob /\ fate'[c] = "none" /\ pc'[c] = "idle" /\ call'[c] = NoStatement
  BY DEF Return, TypeOK
<1>2. NoJob.ids = {} /\ NoStatement.next <= MaxRangeID
  BY BoundAssumption, EmptyFields, Upward
<1> QED BY <1>1, <1>2, ReturnFacts

\* The operations end, or begin.
LEMMA LeaveShapes ==
  ASSUME Sound, NEW c \in Context,
         \/ RenewRefused(c) \/ WriteOK(c) \/ WriteFails(c) \/ WriteRefused(c)
         \/ PersistOK(c) \/ PersistRefused(c) \/ Unload(c)
         \/ RenewUnknown(c) \/ WriteUnknown(c) \/ PersistUnknown(c) \/ Crash(c)
         \/ \E n \in 1 .. MaxTasks : Begin(c, "workflow", n)
  PROVE  Leaves(c)
<1>0. /\ IInv /\ TypeOK /\ OperationOK(c) /\ FieldsOK(c) /\ RefusedOK(c) /\ RangesBounded
      /\ WorkflowsOnly
  BY OfContext DEF Sound, IInv
<1> USE DEF ctxVars, opVars
<1>r. /\ row.rangeID \in Nat /\ call[c].prev \in Nat /\ call[c].next \in Nat
  BY <1>0 DEF TypeOK, Statements
<1>g. ASSUME pc[c] = "wait", call[c].why # "acquire", fate[c] = "refused" \/ Granted(c)
      PROVE  status[c] = "open" /\ rangeID[c] < row.rangeID
  <2>1. status[c] = "open" /\ call[c].prev = rangeID[c]
    BY <1>0, <1>g DEF OperationOK
  <2>2. CASE fate[c] = "refused"
    BY <1>0, <1>g, <2>1, <2>2 DEF RefusedOK
  <2>3. CASE Granted(c)
    <3>1. call[c].next <= row.rangeID /\ call[c].next = call[c].prev + 1
      BY <1>0, <1>g, <1>r, <2>3 DEF Granted, HasLease, IInv, LeasesOK, OperationOK, WellFormed
    <3>2. call[c].prev + 1 <= row.rangeID
      BY <3>1
    <3>3. call[c].prev < row.rangeID
      BY <3>2, <1>r, Order
    <3> QED BY <3>3, <2>1
  <2> QED BY <1>g, <2>1, <2>2, <2>3
<1>c. ASSUME Return(c), CloseShard(c), pc[c] = "wait", call[c].why # "acquire",
             fate[c] = "refused" \/ (Granted(c) /\ call[c].why = "recover"),
             row' = row, late' = late, UNCHANGED <<seq, level>>
      PROVE  Leaves(c)
  <2>1. status'[c] = "closed" /\ \A d \in Context \ {c} : status'[d] = status[d] /\ rangeID'[d] = rangeID[d]
    BY <1>0, <1>c, CloseFacts
  <2>2. Granted(c) => job[c].ids = {}
    BY <1>0, <1>c DEF Granted, OperationOK
  <2> QED BY <1>c, <1>0, <1>g, <2>1, <2>2, ReturnShape DEF Leaves
<1>d. ASSUME Return(c), UNCHANGED <<row, status, rangeID, seq>>, status[c] = "closed" => level'[c] = level[c],
             \A d \in Context \ {c} : level'[d] = level[d],
             late' = late \/ (pc[c] = "wait" /\ late' = late \cup {call[c]})
      PROVE  Leaves(c)
  BY <1>d, <1>0, ReturnShape DEF Leaves
<1>1. CASE RenewRefused(c)
  <2>1. CASE call[c].why = "acquire"
    BY <1>1, <2>1, <1>d DEF RenewRefused
  <2>2. CASE call[c].why # "acquire"
    BY <1>1, <2>2, <1>c DEF RenewRefused
  <2> QED BY <2>1, <2>2
<1>2. CASE WriteOK(c)
  <2>1. status[c] = "open"
    BY <1>2, <1>0 DEF WriteOK, OperationOK
  <2>2. \A d \in Context \ {c} : level'[d] = level[d]
    BY <1>2, <1>0 DEF WriteOK, TypeOK
  <2> QED BY <1>2, <2>1, <2>2, <1>d DEF WriteOK
<1>3. CASE WriteFails(c) \/ PersistOK(c)
  BY <1>3, <1>d DEF WriteFails, PersistOK
<1>4. CASE WriteRefused(c) \/ PersistRefused(c)
  <2>1. call[c].why # "acquire"
    BY <1>4, <1>0 DEF WriteRefused, PersistRefused, OperationOK
  <2> QED BY <1>4, <2>1, <1>c DEF WriteRefused, PersistRefused
<1>5. CASE Unload(c)
  <2>1. /\ status'[c] = "none"
        /\ \A d \in Context \ {c} :
             status'[d] = status[d] /\ rangeID'[d] = rangeID[d] /\ seq'[d] = seq[d] /\ level'[d] = level[d]
    BY <1>5, <1>0 DEF Unload, Reset, TypeOK
  <2>2. job[c].ids = {} /\ fate[c] = "none" /\ call[c].next <= MaxRangeID
    BY <1>5, <1>0 DEF Unload, OperationOK, RangesBounded
  <2>3. job[c] = NoJob \/ job[c].kind = "workflow"
    BY <1>0 DEF WorkflowsOnly
  <2> QED BY <1>5, <2>1, <2>2, <2>3 DEF Unload, Leaves
<1>6. CASE RenewUnknown(c)
  <2>1. /\ UNCHANGED <<row, seq, level>> /\ Return(c) /\ pc[c] = "wait" /\ call[c].op = "renew"
        /\ (late' = late \/ late' = late \cup {call[c]})
        /\ fate[c] # "sent" => late' = late
    BY <1>6 DEF RenewUnknown, Abandon
  <2>4. CASE call[c].why = "recover" /\ fate[c] = "sent"
    <3>1. CloseShard(c) /\ status[c] = "open"
      BY <1>0, <1>6, <2>1, <2>4 DEF RenewUnknown, AfterUnknownRenewal, OperationOK
    <3>2. status'[c] = "closed" /\ \A d \in Context \ {c} : status'[d] = status[d] /\ rangeID'[d] = rangeID[d]
      BY <1>0, <3>1, CloseFacts
    <3> QED BY <1>0, <1>6, <2>1, <2>4, <3>1, <3>2, ReturnShape DEF Leaves
  <2>2. CASE call[c].why = "recover" /\ fate[c] # "sent"
    <3>1. CloseShard(c) /\ fate[c] \in {"none", "applied", "refused"}
      BY <1>0, <1>6, <2>2 DEF RenewUnknown, AfterUnknownRenewal, TypeOK
    <3>2. fate[c] # "none"
      BY <1>0, <2>1 DEF RefusedOK
    <3>3. fate[c] = "refused" \/ Granted(c)
      BY <2>1, <3>1, <3>2 DEF Granted
    <3> QED BY <1>6, <2>1, <2>2, <3>1, <3>3, <1>c
  <2>3. CASE call[c].why # "recover"
    <3>1. UNCHANGED <<status, rangeID>>
      BY <1>6, <2>3 DEF RenewUnknown, AfterUnknownRenewal
    <3> QED BY <2>1, <3>1, <1>d
  <2> QED BY <2>2, <2>3, <2>4
<1>7. CASE WriteUnknown(c)
  <2>1. /\ UNCHANGED <<row, ctxVars>> /\ pc[c] = "wait" /\ call[c].op = "write"
        /\ (late' = late \/ late' = late \cup {call[c]}) /\ AfterUnknownWrite(c)
    BY <1>7 DEF WriteUnknown, Abandon
  <2>2. CASE Return(c)
    BY <2>1, <2>2, <1>d
  <2>3. CASE /\ Send(c, Renewal(rangeID[c], ack[c], "recover")) /\ rangeID[c] < MaxRangeID
             /\ job' = [job EXCEPT ![c] = NoJob]
    <3>1. /\ call'[c] = Renewal(rangeID[c], ack[c], "recover")
          /\ fate'[c] = "sent" /\ pc'[c] = "wait" /\ job'[c].ids = {} /\ job'[c] = NoJob
          /\ \A d \in Context \ {c} :
               pc'[d] = pc[d] /\ job'[d] = job[d] /\ call'[d] = call[d] /\ fate'[d] = fate[d]
      BY <1>0, <2>3 DEF Send, NoJob, TypeOK
    <3>2. status[c] = "open" /\ rangeID[c] \in Nat
      BY <1>0, <2>1, LeaseBelow DEF OperationOK
    <3>3. call'[c].next <= MaxRangeID
      <4> DEFINE q == Renewal(rangeID[c], ack[c], "recover")
      <4>0. q.next = rangeID[c] + 1
        BY StatementFields
      <4>1. call'[c] = q
        BY <3>1
      <4> HIDE DEF q
      <4>2. rangeID[c] + 1 <= MaxRangeID
        BY <2>3, <3>2, BoundAssumption, Order
      <4> QED BY <4>0, <4>1, <4>2
    <3> QED BY <2>1, <3>1, <3>2, <3>3 DEF Leaves
  <2> QED BY <2>1, <2>2, <2>3 DEF AfterUnknownWrite
<1>8. CASE PersistUnknown(c)
  BY <1>8, <1>d DEF PersistUnknown, Abandon
<1>9. CASE Crash(c)
  <2>1. /\ row' = row /\ Return(c) /\ Reset(c)
        /\ late' = late \/ (fate[c] = "sent" /\ late' = late \cup {call[c]})
    BY <1>9 DEF Crash, Abandon
  <2>2. /\ status'[c] = "none"
        /\ \A d \in Context \ {c} :
             status'[d] = status[d] /\ rangeID'[d] = rangeID[d] /\ seq'[d] = seq[d] /\ level'[d] = level[d]
    BY <1>0, <2>1 DEF Reset, TypeOK
  <2>3. fate[c] = "sent" => pc[c] = "wait"
    BY <1>0 DEF OperationOK
  <2> QED BY <1>0, <2>1, <2>2, <2>3, ReturnShape DEF Leaves
<1>10. ASSUME NEW n \in 1 .. MaxTasks, Begin(c, "workflow", n) PROVE Leaves(c)
  <2>1. /\ UNCHANGED <<row, late, ctxVars, call, fate>> /\ status[c] = "open"
        /\ pc[c] = "idle" /\ job'[c].ids = {} /\ job'[c].kind = "workflow"
        /\ \A d \in Context \ {c} : pc'[d] = pc[d] /\ job'[d] = job[d]
    BY <1>0, <1>10 DEF Begin, TypeOK
  <2>2. fate[c] = "none" /\ call[c].next <= MaxRangeID /\ pc'[c] = "alloc"
    BY <1>0, <1>10, <2>1 DEF OperationOK, RangesBounded, Begin, TypeOK
  <2> QED BY <2>1, <2>2 DEF Leaves
<1> QED BY <1>1, <1>2, <1>3, <1>4, <1>5, <1>6, <1>7, <1>8, <1>9, <1>10

\* Every step has one of the shapes.
LEMMA Shapes ==
  ASSUME Sound, [QNext]_qvars
  PROVE  \/ Still
         \/ \E c \in Context : \/ Sends(c) \/ Leaves(c) \/ GenerateTaskID(c)
                               \/ Decide(c) \/ RenewOK(c)
         \/ \E q \in late : DecideLate(q)
<1> DEFINE Shaped(c) == \/ Still \/ Sends(c) \/ Leaves(c) \/ GenerateTaskID(c)
                        \/ Decide(c) \/ RenewOK(c)
<1>1. ASSUME NEW c \in Context, ShardStep(c) PROVE Shaped(c)
  BY <1>1, SendShapes, LeaveShapes DEF ShardStep
<1>2. ASSUME NEW c \in Context, QueueStep(c) PROVE Shaped(c)
  <2>1. CASE StartQueue(c) \/ LoadTasks(c) \/ UpdateState(c) \/ \E id \in queue[c].pending : ProcessTask(c, id)
    BY <2>1 DEF StartQueue, LoadTasks, UpdateState, ProcessTask, Still, vars, ctxVars
  <2>2. CASE ProcessNewTasks(c) \/ DeleteTasks(c)
    BY <2>2 DEF ProcessNewTasks, GetMaxReadLevel, DeleteTasks, Still, ctxVars
  <2>3. CASE PersistState(c)
    <3>1. queue[c].new \in Nat
      BY DEF Sound, QueuesOK, Queues
    <3> QED BY <2>3, <3>1, SendShapes DEF PersistState
  <2>4. CASE StopQueue(c)
    BY <2>4, LeaveShapes DEF StopQueue
  <2> QED BY <1>2, <2>1, <2>2, <2>3, <2>4 DEF QueueStep
<1>3. ASSUME NEW c \in Context, QFault(c) PROVE Shaped(c)
  <2>1. CASE DeleteFails(c)
    BY <2>1 DEF DeleteFails, Still, vars, ctxVars
  <2>2. CASE RenewUnknown(c) \/ WriteUnknown(c) \/ PersistUnknown(c) \/ CrashQueue(c)
    BY <2>2, LeaveShapes DEF CrashQueue
  <2> QED BY <1>3, <2>1, <2>2 DEF QFault
<1>4. ASSUME NEW c \in Context, Write(c) PROVE Shaped(c)
  BY <1>4, LeaveShapes DEF Write
<1>5. CASE UNCHANGED qvars
  BY <1>5 DEF qvars, vars, ctxVars, Still
<1> QED BY <1>1, <1>2, <1>3, <1>4, <1>5 DEF QNext, LateStep

-----------------------------------------------------------------------------
(* The IDs that may still be written.                                      *)

\* A statement that is executed makes no ID available.
LEMMA FutureExecuted ==
  ASSUME Sound, NEW i \in Nat, late' \subseteq late, UNCHANGED <<status, rangeID, seq, pc, job, call>>,
         \/ /\ row'.rangeID = row.rangeID
            /\ \A d \in Context : Granted(d)' => Granted(d)
         \/ /\ row'.rangeID = row.rangeID + 1
            /\ \A d \in Context :
                 Granted(d)' => Granted(d) \/ (pc[d] = "wait" /\ call[d].op = "renew" /\ call[d].prev = row.rangeID),
         FutureID(i)'
  PROVE  FutureID(i)
<1>0. /\ IInv /\ LeasesOK /\ row.rangeID \in Nat /\ WorkflowsOnly /\ LateOK
      /\ \A d \in Context : call[d].next \in Nat
  BY DEF Sound, IInv, TypeOK, Statements
<1>1. CASE row'.rangeID = row.rangeID /\ \A d \in Context : Granted(d)' => Granted(d)
  <2>1. \A d \in Context : HasLease(d, row.rangeID)' => HasLease(d, row.rangeID)
    BY <1>1 DEF HasLease
  <2> QED BY <1>1, <2>1 DEF FutureID
<1>2. CASE /\ row'.rangeID = row.rangeID + 1
           /\ \A d \in Context :
                Granted(d)' => Granted(d) \/ (pc[d] = "wait" /\ call[d].op = "renew" /\ call[d].prev = row.rangeID)
  <2>0. \A d \in Context : ~HasLease(d, row.rangeID + 1)
    BY <1>0, Upward DEF LeasesOK
  <2>1. ASSUME NEW d \in Context, HasLease(d, row.rangeID)', i \in job[d].ids
        PROVE  HasLease(d, row.rangeID)
    <3>1. pc[d] = "wait" /\ call[d].op = "renew" /\ call[d].prev = row.rangeID
      BY <1>2, <2>0, <2>1 DEF HasLease
    <3>2. status[d] = "open" /\ call[d].prev = rangeID[d]
      BY <1>0, <2>1, <3>1, OfContext DEF OperationOK, FieldsOK
    <3> QED BY <3>1, <3>2 DEF HasLease
  <2>2. ASSUME NEW q \in late', q.prev = row'.rangeID, NEW t \in q.rows PROVE FALSE
    <3>1. t.kind = "workflow" /\ q \in late
      BY <1>0, <2>2 DEF WorkflowsOnly
    <3>2. q.prev <= row.rangeID
      BY <1>0, <2>2, <3>1 DEF LateOK, DelayedOK
    <3>3. row.rangeID + 1 <= row.rangeID
      BY <1>2, <2>2, <3>2
    <3> QED BY <1>0, <3>3, Upward
  <2>3. ASSUME NEW d \in Context, status[d] = "open", rangeID[d] = row'.rangeID PROVE FALSE
    BY <1>2, <2>0, <2>3 DEF HasLease
  <2>4. BlockStart(row'.rangeID) <= i \/ BlockEnd(row'.rangeID) <= i => BlockEnd(row.rangeID) <= i
    <3>1. /\ BlockEnd(row.rangeID) \in Nat /\ BlockEnd(row.rangeID + 1) \in Nat
          /\ BlockStart(row.rangeID + 1) = BlockEnd(row.rangeID)
          /\ BlockEnd(row.rangeID) <= BlockEnd(row.rangeID + 1)
      <4>1. row.rangeID \in Nat /\ row.rangeID + 1 \in Nat /\ row.rangeID <= row.rangeID + 1
        BY <1>0, Upward
      <4>2. /\ BlockStart(row.rangeID + 1) = BlockEnd(row.rangeID)
            /\ BlockEnd(row.rangeID) \in Nat /\ BlockEnd(row.rangeID + 1) \in Nat
        BY <4>1, Blocks
      <4> QED BY <4>1, <4>2, AllBlocks
    <3> QED BY <1>2, <3>1, Chain
  <2> QED BY <1>2, <2>1, <2>2, <2>3, <2>4 DEF FutureID
<1> QED BY <1>1, <1>2

\* No step makes an ID available: a context only takes IDs of the range it has
\* been given, and a range is given after all the ranges before it.
LEMMA FutureShrinks ==
  ASSUME Sound, [QNext]_qvars, NEW i \in Nat, FutureID(i)'
  PROVE  FutureID(i)
<1>0. IInv /\ TypeOK /\ row.rangeID \in Nat
  BY DEF Sound, IInv, TypeOK
<1>1. CASE Still
  BY <1>1 DEF Still, FutureID, HasLease, Granted, opVars
<1>2. ASSUME NEW c \in Context, Sends(c) PROVE FutureID(i)
  <2>1. UNCHANGED <<row, late, status, rangeID, seq, job>>
    BY <1>2 DEF Sends
  <2>2. \A d \in Context : Granted(d)' => Granted(d) /\ call'[d] = call[d]
    BY SMTT(30), <1>0, <1>2 DEF Sends, Send, Granted, TypeOK
  <2>3. \A d \in Context : HasLease(d, row.rangeID)' => HasLease(d, row.rangeID)
    BY <2>1, <2>2 DEF HasLease
  <2> QED BY <2>1, <2>2, <2>3 DEF FutureID
<1>3. ASSUME NEW c \in Context, Leaves(c) PROVE FutureID(i)
  <2>0. \A d \in Context : Granted(d)' => Granted(d) /\ call'[d] = call[d] /\ d # c
    BY <1>3 DEF Leaves, Granted
  <2>1. \A d \in Context : status'[d] = "open" =>
          status[d] = "open" /\ rangeID'[d] = rangeID[d] /\ seq'[d] = seq[d]
    BY <1>3 DEF Leaves
  <2>2. ASSUME NEW d \in Context, HasLease(d, row.rangeID)', i \in job'[d].ids
        PROVE  HasLease(d, row.rangeID) /\ i \in job[d].ids
    <3>1. d # c /\ job'[d] = job[d] /\ row' = row
      BY <1>3, <2>2 DEF Leaves
    <3> QED BY <2>0, <2>1, <2>2, <3>1 DEF HasLease
  <2>3. ASSUME NEW q \in late', q.prev = row'.rangeID, NEW t \in q.rows, t.id = i PROVE FutureID(i)
    <3>1. CASE q \in late
      BY <1>3, <2>3, <3>1 DEF Leaves, FutureID
    <3>2. CASE pc[c] = "wait" /\ q = call[c]
      <4>1. q.op = "write" /\ t.id \in job[c].ids /\ status[c] = "open" /\ q.prev = rangeID[c]
        BY <1>0, <2>3, <3>2, OfContext DEF OperationOK, WellFormed
      <4>2. row' = row
        BY <1>3 DEF Leaves
      <4> QED BY <2>3, <4>1, <4>2 DEF FutureID, HasLease
    <3> QED BY <1>3, <2>3, <3>1, <3>2 DEF Leaves
  <2>4. row' = row
    BY <1>3 DEF Leaves
  <2> QED BY <2>0, <2>1, <2>2, <2>3, <2>4 DEF FutureID
<1>4. ASSUME NEW c \in Context, GenerateTaskID(c) PROVE FutureID(i)
  <2>1. UNCHANGED <<row, late, status, rangeID, pc, call, fate>>
    BY <1>4 DEF GenerateTaskID
  <2>2. \A d \in Context : Granted(d)' <=> Granted(d)
    BY <2>1 DEF Granted
  <2>3. /\ job'[c].ids = job[c].ids \cup {seq[c]} /\ seq'[c] = seq[c] + 1 /\ seq[c] \in Nat
        /\ \A d \in Context \ {c} : job'[d] = job[d] /\ seq'[d] = seq[d]
    BY <1>0, <1>4 DEF GenerateTaskID, TypeOK
  <2>4. status[c] = "open" /\ ~Granted(c)
    BY <1>0, <1>4, OfContext DEF GenerateTaskID, OperationOK, Granted
  <2>5. ASSUME NEW d \in Context, HasLease(d, row.rangeID)', i \in job'[d].ids PROVE FutureID(i)
    <3>1. HasLease(d, row.rangeID)
      BY <2>1, <2>2, <2>5 DEF HasLease
    <3>2. CASE i \in job[d].ids
      BY <3>1, <3>2 DEF FutureID
    <3>3. CASE i \notin job[d].ids
      <4>1. d = c /\ i = seq[c]
        BY <2>3, <2>5, <3>3
      <4>2. rangeID[c] = row.rangeID
        BY <2>4, <3>1, <4>1 DEF HasLease
      <4>3. seq[c] <= i
        BY <2>3, <4>1, Order
      <4> QED BY <2>4, <4>2, <4>3 DEF FutureID
    <3> QED BY <3>2, <3>3
  <2>6. \A d \in Context : seq'[d] <= i => seq[d] <= i
    BY SMTT(30), <2>3
  <2> QED BY <2>1, <2>2, <2>5, <2>6 DEF FutureID
<1>5. ASSUME NEW c \in Context, Decide(c) PROVE FutureID(i)
  <2>0. UNCHANGED <<late, status, rangeID, seq, pc, job, call>> /\ pc[c] = "wait" /\ WellFormed(call[c])
    BY <1>0, <1>5, OfContext DEF Decide, ctxVars, OperationOK
  <2>1. \A d \in Context \ {c} : Granted(d)' => Granted(d)
    BY <1>0, <1>5, <2>0 DEF Decide, Granted, TypeOK
  <2>2. CASE call[c].op = "renew" /\ Holds(call[c]) /\ Apply(call[c])
    <3>1. row'.rangeID = row.rangeID + 1 /\ call[c].prev = row.rangeID
      BY <2>0, <2>2 DEF Apply, WellFormed, Holds
    <3> QED BY <2>0, <2>1, <2>2, <3>1, FutureExecuted
  <2>3. CASE ~(call[c].op = "renew" /\ Holds(call[c]) /\ Apply(call[c]))
    <3>1. row'.rangeID = row.rangeID
      <4>1. (row' = row \/ (Holds(call[c]) /\ Apply(call[c]))) /\ call[c] \in Statements
        BY <1>0, <1>5 DEF Decide, TypeOK
      <4> QED BY <2>0, <2>3, <4>1, AppliedRow
    <3>2. ~Granted(c)'
      BY <1>0, <1>5, <2>0, <2>3 DEF Decide, Granted, TypeOK
    <3> QED BY <2>0, <2>1, <3>1, <3>2, FutureExecuted
  <2> QED BY <2>2, <2>3
<1>6. ASSUME NEW q \in late, DecideLate(q) PROVE FutureID(i)
  <2>0. UNCHANGED <<status, rangeID, seq, pc, job, call, fate>> /\ late' \subseteq late /\ WellFormed(q)
    BY <1>0, <1>6 DEF DecideLate, ctxVars, opVars, IInv, LateOK
  <2>1. \A d \in Context : Granted(d)' => Granted(d)
    BY <2>0 DEF Granted
  <2>2. row'.rangeID = row.rangeID \/ row'.rangeID = row.rangeID + 1
    <3>1. (row' = row \/ (Holds(q) /\ Apply(q))) /\ q \in Statements
      BY <1>0, <1>6 DEF DecideLate, TypeOK
    <3> QED BY <2>0, <3>1, AppliedRow
  <2> QED BY <2>0, <2>1, <2>2, FutureExecuted
<1>7. ASSUME NEW c \in Context, RenewOK(c) PROVE FutureID(i)
  <2>1. UNCHANGED <<row, late>> /\ Granted(c) /\ pc[c] = "wait"
    BY <1>7 DEF RenewOK, Granted
  <2>2. /\ rangeID'[c] = call[c].next /\ seq'[c] = BlockStart(call[c].next)
        /\ \A d \in Context \ {c} : /\ status'[d] = status[d] /\ rangeID'[d] = rangeID[d] /\ seq'[d] = seq[d]
                                    /\ pc'[d] = pc[d] /\ job'[d] = job[d] /\ call'[d] = call[d] /\ fate'[d] = fate[d]
    BY <1>0, <1>7, RenewFacts
  <2>3. ~Granted(c)' /\ (job'[c] = job[c] \/ job'[c].ids = {})
    BY <1>0, <1>7, RenewFacts, EmptyFields
  <2>4. \A d \in Context : Granted(d)' => Granted(d) /\ call'[d] = call[d]
    BY <2>2, <2>3 DEF Granted
  <2>5. ASSUME NEW d \in Context, HasLease(d, row.rangeID)', i \in job'[d].ids
        PROVE  HasLease(d, row.rangeID) /\ i \in job[d].ids
    <3>1. CASE d = c
      BY <2>1, <2>2, <2>3, <2>5, <3>1 DEF HasLease
    <3>2. CASE d # c
      BY <2>1, <2>2, <2>4, <2>5, <3>2 DEF HasLease
    <3> QED BY <3>1, <3>2
  <2>6. ASSUME NEW d \in Context, status'[d] = "open", rangeID'[d] = row'.rangeID, seq'[d] <= i
        PROVE  FutureID(i)
    <3>1. CASE d = c
      <4>1. call[c].next = row.rangeID /\ BlockStart(row.rangeID) <= i
        BY <2>1, <2>2, <2>6, <3>1
      <4> QED BY <2>1, <4>1 DEF FutureID
    <3>2. CASE d # c
      BY <2>1, <2>2, <2>6, <3>2 DEF FutureID
    <3> QED BY <3>1, <3>2
  <2> QED BY <2>1, <2>4, <2>5, <2>6 DEF FutureID
<1> QED BY <1>1, <1>2, <1>3, <1>4, <1>5, <1>6, <1>7, Shapes

\* A task that is written has an ID that could still be written.
LEMMA NewTaskIDs ==
  ASSUME Sound, [QNext]_qvars, NEW t \in tasks' \ tasks
  PROVE  FutureID(t.id)
<1>0. IInv
  BY DEF Sound
<1>1. PICK q : /\ Holds(q) /\ t \in q.rows
               /\ q \in late \/ \E d \in Context : pc[d] = "wait" /\ q = call[d]
  BY <1>0, NewTasks
<1>2. CASE q \in late
  BY <1>1, <1>2 DEF FutureID, Holds
<1>3. ASSUME NEW d \in Context, pc[d] = "wait", q = call[d] PROVE FutureID(t.id)
  <2>1. q.op = "write" /\ t.id \in job[d].ids /\ status[d] = "open" /\ q.prev = rangeID[d]
    BY <1>0, <1>1, <1>3, OfContext DEF OperationOK, WellFormed
  <2> QED BY <1>1, <2>1 DEF FutureID, HasLease, Holds
<1> QED BY <1>1, <1>2, <1>3

\* The level of a context that is idle or has lost the shard is below all IDs
\* that may still be written.
LEMMA LevelBelow ==
  ASSUME IInv, WorkflowsOnly, NEW c \in Context, status[c] = "open",
         \/ pc[c] = "idle"
         \/ rangeID[c] < row.rangeID /\ (Granted(c) => job[c].ids = {}),
         NEW i \in Nat, FutureID(i)
  PROVE  level[c] < i
<1>1. /\ rangeID[c] \in Nat /\ row.rangeID \in Nat /\ rangeID[c] <= row.rangeID
      /\ HasLease(c, rangeID[c])
  BY LeaseBelow
<1>2. /\ level[c] \in Nat /\ seq[c] \in Nat /\ level[c] < seq[c] /\ seq[c] <= BlockEnd(rangeID[c])
      /\ BlockEnd(rangeID[c]) \in Nat /\ BlockEnd(row.rangeID) \in Nat /\ BlockStart(row.rangeID) \in Nat
  <2>1. BlockEnd(rangeID[c]) \in Nat /\ BlockEnd(row.rangeID) \in Nat /\ BlockStart(row.rangeID) \in Nat
    BY <1>1, Blocks
  <2>2. level[c] \in Nat /\ seq[c] \in Nat
    BY DEF IInv, TypeOK
  <2> QED BY <2>1, <2>2, OfContext DEF FieldsOK
<1>3. rangeID[c] < row.rangeID =>
        BlockEnd(rangeID[c]) <= BlockStart(row.rangeID) /\ BlockEnd(rangeID[c]) <= BlockEnd(row.rangeID)
  BY <1>1, Blocks
<1>4. SUFFICES seq[c] <= i \/ BlockEnd(rangeID[c]) <= i
  BY <1>2, Chain
<1>i. pc[c] = "idle" => job[c].ids = {} /\ ~Granted(c)
  BY OfContext DEF OperationOK, Granted
<1>5. ASSUME NEW d \in Context, HasLease(d, row.rangeID), i \in job[d].ids
      PROVE  seq[c] <= i \/ BlockEnd(rangeID[c]) <= i
  <2>1. d # c
    BY <1>1, <1>5, <1>i, Order DEF HasLease
  <2>2. status[d] = "open" /\ rangeID[d] \in Nat
    BY <1>5, OfContext DEF FieldsOK
  <2>3. row.rangeID # rangeID[c]
    BY <1>1, <1>5, <2>1 DEF IInv, LeasesOK
  <2>4. rangeID[c] < row.rangeID
    BY <1>1, <2>3, Order
  <2>5. CASE rangeID[d] = row.rangeID
    BY <1>1, <1>5, <2>1, <2>4, <2>5 DEF IInv, OrderOK
  <2>6. CASE rangeID[d] # row.rangeID
    <3>1. Granted(d) /\ call[d].next = row.rangeID
      BY <1>5, <2>6 DEF HasLease
    <3>2. call[d].prev = rangeID[d] /\ call[d].next = call[d].prev + 1
      BY <1>5, <3>1, OfContext DEF Granted, OperationOK, WellFormed
    <3>3. rangeID[c] # rangeID[d]
      BY <1>1, <2>1, <2>2 DEF IInv, LeasesOK, HasLease
    <3>4. rangeID[c] < rangeID[d]
      <4>1. rangeID[c] < rangeID[d] + 1
        BY <2>4, <3>1, <3>2
      <4> QED BY <1>1, <2>2, <3>3, <4>1, Order
    <3> QED BY <1>1, <1>5, <2>1, <3>4 DEF IInv, OrderOK
  <2> QED BY <2>5, <2>6
<1>6. ASSUME NEW q \in late, q.prev = row.rangeID, NEW t \in q.rows, t.id = i
      PROVE  seq[c] <= i \/ BlockEnd(rangeID[c]) <= i
  <2>1. DelayedOK(q, t)
    BY <1>6 DEF IInv, LateOK, WorkflowsOnly
  <2>2. rangeID[c] < row.rangeID
    BY <1>1, <1>6, <2>1, Order DEF DelayedOK
  <2> QED BY <1>1, <1>6, <2>1, <2>2 DEF DelayedOK
<1>7. ASSUME NEW d \in Context, status[d] = "open", rangeID[d] = row.rangeID, seq[d] <= i
      PROVE  seq[c] <= i \/ BlockEnd(rangeID[c]) <= i
  <2>1. CASE d = c
    BY <1>7, <2>1
  <2>2. CASE d # c
    <3>1. rangeID[c] < row.rangeID
      BY <1>1, <1>7, <2>2, Order DEF IInv, LeasesOK, HasLease
    <3>2. BlockStart(row.rangeID) <= seq[d] /\ seq[d] \in Nat
      BY <1>7, OfContext DEF FieldsOK, IInv, TypeOK
    <3> QED BY <1>2, <1>3, <1>7, <3>1, <3>2, Chain
  <2> QED BY <2>1, <2>2
<1>8. ASSUME NEW d \in Context, Granted(d), call[d].next = row.rangeID, BlockStart(row.rangeID) <= i
      PROVE  seq[c] <= i \/ BlockEnd(rangeID[c]) <= i
  <2>1. CASE rangeID[c] < row.rangeID
    BY <1>2, <1>3, <1>8, <2>1, Chain
  <2>2. CASE rangeID[c] = row.rangeID
    <3>1. d = c
      BY <1>1, <1>8, <2>2 DEF IInv, LeasesOK, HasLease
    <3> QED BY <1>1, <1>8, <1>i, <2>2, <3>1, Order
  <2> QED BY <1>1, <2>1, <2>2, Order
<1>9. CASE BlockEnd(row.rangeID) <= i
  BY <1>1, <1>2, <1>3, <1>9, Order, Chain
<1> QED BY <1>5, <1>6, <1>7, <1>8, <1>9 DEF FutureID

-----------------------------------------------------------------------------
(* The invariant of the queues.                                            *)

\* The row under a statement that is executed.
LEMMA RowStep ==
  ASSUME Sound, NEW q, q \in late \/ (\E c \in Context : pc[c] = "wait" /\ q = call[c]),
         row' = row \/ (Holds(q) /\ Apply(q))
  PROVE  /\ row.rangeID <= row'.rangeID /\ row'.rangeID <= MaxRangeID
         /\ row'.rangeID \in Nat /\ row.rangeID \in Nat
<1>1. q \in Statements /\ WellFormed(q) /\ q.next <= MaxRangeID
  <2>1. CASE q \in late
    BY <2>1 DEF Sound, IInv, TypeOK, LateOK, RangesBounded
  <2>2. ASSUME NEW c \in Context, pc[c] = "wait", q = call[c]
        PROVE  q \in Statements /\ WellFormed(q) /\ q.next <= MaxRangeID
    BY <2>2, OfContext DEF Sound, IInv, TypeOK, OperationOK, RangesBounded
  <2> QED BY <2>1, <2>2
<1>2. row.rangeID \in Nat /\ row.rangeID <= MaxRangeID
  BY DEF Sound, IInv, TypeOK, RangesBounded
<1>3. q.op \in {"write", "renew", "persist"} /\ q.next \in Nat /\ q.prev \in Nat
  BY <1>1 DEF Statements
<1>4. ASSUME Holds(q), Apply(q), q.op # "write"
      PROVE  row'.rangeID = q.next /\ row.rangeID <= q.next
  <2>1. row'.rangeID = q.next /\ row.rangeID = q.prev
    BY <1>4 DEF Apply, Holds
  <2>2. q.next = q.prev + 1 \/ q.next = q.prev
    BY <1>1, <1>3, <1>4 DEF WellFormed
  <2>3. q.prev <= q.next
    BY <1>3, <2>2, Upward
  <2> QED BY <2>1, <2>3
<1>5. CASE row' = row
  BY <1>2, <1>5, Order
<1>6. CASE Holds(q) /\ Apply(q) /\ q.op # "write"
  BY <1>1, <1>2, <1>3, <1>4, <1>6
<1>7. CASE Holds(q) /\ Apply(q) /\ q.op = "write"
  BY <1>2, <1>7, Order DEF Apply
<1> QED BY <1>5, <1>6, <1>7

\* The rows of a statement under way are tasks of workflows.
LEMMA CallWorkflow ==
  ASSUME Sound, NEW c \in Context, pc[c] = "wait", NEW t \in call[c].rows
  PROVE  t.kind = "workflow"
<1>1. t.kind = job[c].kind /\ t.id \in job[c].ids
  BY OfContext DEF Sound, OperationOK, WellFormed
<1> QED BY <1>1, EmptyFields DEF Sound, WorkflowsOnly

\* A step of the shard keeps what the queues rest on.
LEMMA SoundStep ==
  ASSUME Sound, [QNext]_qvars
  PROVE  Sound'
<1>0. IInv /\ TypeOK /\ WorkflowsOnly /\ RangesBounded /\ \A d \in Context : RefusedOK(d)
  BY DEF Sound, IInv
<1>i. IInv' /\ QueuesOK' /\ TypeOK'
  BY QNextKeeps DEF Sound, IInv
<1> DEFINE Rest == WorkflowsOnly' /\ RangesBounded' /\ \A d \in Context : RefusedOK(d)'
<1>1. ASSUME Still PROVE Rest
  BY <1>0, <1>1 DEF Still, opVars, WorkflowsOnly, RangesBounded, RefusedOK
<1>2. ASSUME NEW c \in Context, Sends(c) PROVE Rest
  <2>1. PICK s \in Statements : Send(c, s) /\ s.next <= MaxRangeID
    BY <1>2 DEF Sends
  <2>2. /\ call'[c] = s /\ fate'[c] = "sent"
        /\ \A d \in Context \ {c} : call'[d] = call[d] /\ pc'[d] = pc[d] /\ fate'[d] = fate[d]
    BY <1>0, <2>1 DEF Send, TypeOK
  <2>3. UNCHANGED <<row, late, job>>
    BY <1>2 DEF Sends
  <2> QED BY <1>0, <2>1, <2>2, <2>3 DEF WorkflowsOnly, RangesBounded, RefusedOK
<1>3. ASSUME NEW c \in Context, Leaves(c) PROVE Rest
  <2>1. WorkflowsOnly'
    <3>1. \A d \in Context : job'[d] = NoJob \/ job'[d].kind = "workflow"
      BY <1>0, <1>3 DEF Leaves, WorkflowsOnly
    <3>2. \A q \in late' : \A t \in q.rows : t.kind = "workflow"
      <4>1. late' = late \/ (pc[c] = "wait" /\ late' = late \cup {call[c]})
        BY <1>3 DEF Leaves
      <4>2. pc[c] = "wait" => \A t \in call[c].rows : t.kind = "workflow"
        BY <1>0, CallWorkflow
      <4>3. \A q \in late : \A t \in q.rows : t.kind = "workflow"
        BY <1>0 DEF WorkflowsOnly
      <4>4. ASSUME NEW q \in late' PROVE \A t \in q.rows : t.kind = "workflow"
        <5>1. q \in late \/ (pc[c] = "wait" /\ q = call[c])
          BY <4>1, <4>4
        <5> QED BY <4>2, <4>3, <5>1
      <4> QED BY <4>4
    <3> QED BY <3>1, <3>2 DEF WorkflowsOnly
  <2>2. RangesBounded'
    BY <1>0, <1>3 DEF Leaves, RangesBounded
  <2>3. \A d \in Context : RefusedOK(d)'
    BY <1>0, <1>3 DEF Leaves, RefusedOK
  <2> QED BY <2>1, <2>2, <2>3
<1>4. ASSUME NEW c \in Context, GenerateTaskID(c) PROVE Rest
  <2>1. UNCHANGED <<row, late, pc, call, fate>>
    BY <1>4 DEF GenerateTaskID
  <2>2. /\ job'[c].kind = job[c].kind /\ job[c] # NoJob
        /\ \A d \in Context \ {c} : job'[d] = job[d]
    BY SMTT(30), <1>0, <1>4 DEF GenerateTaskID, TypeOK, NoJob
  <2> QED BY <1>0, <2>1, <2>2 DEF WorkflowsOnly, RangesBounded, RefusedOK
<1>5. ASSUME NEW c \in Context, Decide(c) PROVE Rest
  <2>1. UNCHANGED <<late, pc, job, call>> /\ pc[c] = "wait"
    BY <1>0, <1>5, OfContext DEF Decide, OperationOK
  <2>2. /\ row' = row \/ (Holds(call[c]) /\ Apply(call[c]))
        /\ fate'[c] \in {"applied", "refused"} /\ (fate'[c] = "refused" => ~Holds(call[c]) /\ row' = row)
        /\ \A d \in Context \ {c} : fate'[d] = fate[d]
    BY <1>0, <1>5 DEF Decide, TypeOK
  <2>3. /\ row.rangeID <= row'.rangeID /\ row'.rangeID <= MaxRangeID
        /\ row'.rangeID \in Nat /\ row.rangeID \in Nat
    BY <2>1, <2>2, RowStep
  <2>4. WorkflowsOnly' /\ RangesBounded'
    BY <1>0, <2>1, <2>3 DEF WorkflowsOnly, RangesBounded
  <2>5. \A d \in Context : call[d].prev \in Nat
    BY <1>0 DEF TypeOK, Statements
  <2>6. ASSUME NEW d \in Context, d # c PROVE RefusedOK(d)'
    <3>1. RefusedOK(d) /\ pc'[d] = pc[d] /\ call'[d] = call[d] /\ fate'[d] = fate[d]
      BY <1>0, <2>1, <2>2, <2>6
    <3>2. call[d].prev < row.rangeID => call[d].prev < row'.rangeID
      BY <2>3, <2>5, Chain
    <3> QED BY <3>1, <3>2 DEF RefusedOK
  <2>7. RefusedOK(c)'
    <3>1. ASSUME fate'[c] = "refused", call[c].why # "acquire" PROVE call[c].prev < row'.rangeID
      <4>1. HasLease(c, call[c].prev)
        BY <1>0, <2>1, <3>1, OfContext DEF OperationOK, HasLease
      <4>2. call[c].prev <= row.rangeID
        BY <1>0, <2>5, <4>1 DEF IInv, LeasesOK
      <4> QED BY <2>2, <2>3, <2>5, <3>1, <4>2, Order DEF Holds
    <3> QED BY <2>1, <2>2, <3>1 DEF RefusedOK
  <2> QED BY <2>4, <2>6, <2>7
<1>6. ASSUME NEW q \in late, DecideLate(q) PROVE Rest
  <2>1. UNCHANGED opVars /\ late' \subseteq late /\ (row' = row \/ (Holds(q) /\ Apply(q)))
    BY <1>6 DEF DecideLate
  <2>3. /\ row.rangeID <= row'.rangeID /\ row'.rangeID <= MaxRangeID
        /\ row'.rangeID \in Nat /\ row.rangeID \in Nat
    BY <2>1, RowStep
  <2>4. WorkflowsOnly' /\ RangesBounded'
    BY <1>0, <2>1, <2>3 DEF WorkflowsOnly, RangesBounded, opVars
  <2>5. \A d \in Context : call[d].prev \in Nat
    BY <1>0 DEF TypeOK, Statements
  <2> QED BY <1>0, <2>1, <2>3, <2>4, <2>5, Chain DEF RefusedOK, opVars
<1>7. ASSUME NEW c \in Context, RenewOK(c) PROVE Rest
  <2>1. /\ UNCHANGED <<row, late>> /\ pc'[c] # "wait" /\ call'[c] = NoStatement
        /\ job'[c] \in {job[c], NoJob}
        /\ \A d \in Context \ {c} :
             pc'[d] = pc[d] /\ job'[d] = job[d] /\ call'[d] = call[d] /\ fate'[d] = fate[d]
    <3>1. UNCHANGED <<row, late>>
      BY <1>7 DEF RenewOK
    <3> QED BY <1>0, <1>7, <3>1, RenewFacts
  <2>2. NoStatement.next <= MaxRangeID
    BY BoundAssumption, EmptyFields, Upward
  <2>3. WorkflowsOnly'
    BY <1>0, <2>1 DEF WorkflowsOnly
  <2>4. RangesBounded'
    BY <1>0, <2>1, <2>2 DEF RangesBounded
  <2>5. \A d \in Context : RefusedOK(d)'
    BY <1>0, <2>1 DEF RefusedOK
  <2> QED BY <2>3, <2>4, <2>5
<1>8. Rest
  BY <1>1, <1>2, <1>3, <1>4, <1>5, <1>6, <1>7, Shapes
<1> QED BY <1>i, <1>8 DEF Sound

\* A level that has been passed stays so.
LEMMA PassedOn ==
  ASSUME Sound, [QNext]_qvars, NEW a \in Nat, Passed(a), done \subseteq done'
  PROVE  Passed(a)'
<1>1. \A i \in Nat : FutureID(i)' => a <= i
  BY FutureShrinks DEF Passed
<1>2. ASSUME NEW t \in tasks', t.id < a PROVE t \in done'
  <2>1. t \notin tasks => FutureID(t.id)
    BY NewTaskIDs
  <2>2. t.id \in Nat
    BY QNextKeeps DEF Sound, IInv, TypeOK, Tasks
  <2> QED BY <1>2, <2>1, <2>2, Order DEF Passed
<1> QED BY <1>1, <1>2 DEF Passed

\* A closed context has read nothing that may still be written.
LEMMA ClosedStep ==
  ASSUME QInv(TRUE), [QNext]_qvars, [RecoveryDecided]_qvars, NEW d \in Context
  PROVE  ClosedOK(d)'
<1>0. Sound /\ IInv /\ TypeOK /\ WorkflowsOnly /\ ClosedOK(d)
  BY DEF QInv, Sound, IInv
<1> SUFFICES ASSUME status'[d] = "closed", NEW i \in Nat, FutureID(i)'
             PROVE  level'[d] < i
  BY DEF ClosedOK
<1>f. FutureID(i)
  BY <1>0, FutureShrinks
<1>k. status[d] = "closed" /\ level'[d] = level[d] => level'[d] < i
  BY <1>0, <1>f DEF ClosedOK
<1>1. CASE Still \/ \E c \in Context : Sends(c)
  BY <1>1, <1>k DEF Still, Sends
<1>2. ASSUME NEW c \in Context, Leaves(c) PROVE level'[d] < i
  <2>1. CASE status[d] = "closed"
    BY <1>2, <2>1, <1>k DEF Leaves
  <2>2. CASE status[d] # "closed"
    <3>1. c = d
      BY <1>2, <2>2 DEF Leaves
    <3>u. ~(RenewUnknown(d) /\ call[d].why = "recover" /\ fate[d] = "sent")
      BY <2>2 DEF RecoveryDecided, qvars, vars, ctxVars
    <3>2. /\ status[d] = "open" /\ rangeID[d] < row.rangeID /\ (Granted(d) => job[d].ids = {})
          /\ level'[d] = level[d]
      BY <1>2, <2>2, <3>1, <3>u DEF Leaves
    <3>3. level[d] < i
      BY <1>0, <1>f, <3>2, LevelBelow
    <3> QED BY <3>2, <3>3
  <2> QED BY <2>1, <2>2
<1>3. CASE \E c \in Context : GenerateTaskID(c) \/ Decide(c)
  BY <1>3, <1>k DEF GenerateTaskID, Decide, ctxVars
<1>4. CASE \E q \in late : DecideLate(q)
  BY <1>4, <1>k DEF DecideLate, ctxVars
<1>5. ASSUME NEW c \in Context, RenewOK(c) PROVE level'[d] < i
  BY <1>0, <1>5, <1>k DEF RenewOK, Renewed, TypeOK
<1> QED BY <1>0, <1>1, <1>2, <1>3, <1>4, <1>5, Shapes

\* The ack level of a queue: nothing is pending below it.
LEMMA AckLevelFacts ==
  ASSUME NEW q \in Queues
  PROVE  /\ AckLevel(q) \in Nat /\ AckLevel(q) <= q.next
         /\ \A id \in q.pending : AckLevel(q) <= id
<1> DEFINE S == q.pending \cup {q.next}
<1>1. S \in SUBSET Nat /\ S # {}
  BY DEF Queues
<1> HIDE DEF S
<1>2. LET least == CHOOSE a \in S : \A b \in S : a <= b
      IN  least \in Nat /\ least \in S /\ \A b \in S : least <= b
  BY <1>1, Least
<1>3. AckLevel(q) = CHOOSE a \in S : \A b \in S : a <= b
  BY DEF AckLevel, S
<1>4. AckLevel(q) \in Nat /\ \A b \in S : AckLevel(q) <= b
  BY <1>2, <1>3
<1> QED BY <1>4 DEF S

\* Where the ack levels of c come from.
LevelsMove(c) ==
  /\ row'.ack \in {row.ack, call[c].ack}
  /\ late' \subseteq late \cup {call[c]}
  /\ ack'[c] \in {0, ack[c], call[c].ack, queue[c].new}
  /\ \/ call'[c].ack \in {0, row.ack, call[c].ack}
     \/ status[c] # "closed" /\ call'[c].ack \in {ack[c], queue[c].new}
  /\ queue'[c].new \in {0, queue[c].new} \/ (UpdateState(c) /\ queue'[c].new = AckLevel(queue[c]))
  /\ status[c] = "closed" /\ status'[c] # "closed" => queue'[c] = NoQueue /\ ack'[c] = 0
  /\ \A d \in Context \ {c} :
       status'[d] = status[d] /\ ack'[d] = ack[d] /\ call'[d] = call[d] /\ queue'[d] = queue[d]

\* The steps of a context move its own levels.
LEMMA LevelsOf ==
  ASSUME IInv, QueuesOK, NEW c \in Context,
         ShardStep(c) \/ QueueStep(c) \/ QFault(c) \/ Write(c)
  PROVE  LevelsMove(c)
<1>p. TypeOK
  BY DEF IInv
<1>t. /\ queue \in [Context -> Queues] /\ call \in [Context -> Statements] /\ ack \in [Context -> Nat]
      /\ status \in [Context -> {"none", "open", "closed"}]
  BY <1>p DEF TypeOK, QueuesOK
<1>o. pc[c] # "idle" => status[c] # "closed"
  <2>1. OperationOK(c) /\ pc[c] \in {"idle", "alloc", "wait"}
    BY <1>p, OfContext DEF TypeOK
  <2> QED BY <2>1 DEF OperationOK
<1>n. NoStatement.ack = 0 /\ NoQueue.new = 0
  BY EmptyFields
<1> USE <1>t DEF ctxVars, opVars, vars
<1>a. ASSUME UNCHANGED queue, UNCHANGED ack, row' = row, late' \subseteq late \cup {call[c]},
             UNCHANGED status \/ (CloseShard(c) /\ UNCHANGED level),
             \/ Return(c) \/ UNCHANGED call
             \/ \E q : Send(c, q) /\ (q.ack \in {0, row.ack} \/ (pc[c] # "idle" /\ q.ack = ack[c]))
      PROVE  LevelsMove(c)
  <2>1. /\ status'[c] \in {status[c], "closed"}
        /\ \A d \in Context \ {c} : status'[d] = status[d]
    BY <1>a, <1>p, CloseFacts
  <2>2. /\ \/ call'[c].ack \in {0, row.ack, call[c].ack}
           \/ status[c] # "closed" /\ call'[c].ack = ack[c]
        /\ \A d \in Context \ {c} : call'[d] = call[d]
    BY <1>a, <1>n, <1>o DEF Return, Send
  <2> QED BY <1>a, <2>1, <2>2 DEF LevelsMove
<1>b. Abandon(c) => late' \subseteq late \cup {call[c]}
  BY DEF Abandon
<1>1. CASE ShardStep(c)
  <2>q. UNCHANGED queue
    BY <1>1 DEF ShardStep
  <2>1. CASE Decide(c)
    <3>1. UNCHANGED <<late, ack, status, call>>
      BY <2>1 DEF Decide
    <3>2. row'.ack \in {row.ack, call[c].ack}
      <4> DEFINE r == [rangeID |-> call[c].next, ack |-> call[c].ack]
      <4>1. row' = row \/ row' = r
        BY <2>1 DEF Decide, Apply
      <4>2. r.ack = call[c].ack
        OBVIOUS
      <4> HIDE DEF r
      <4> QED BY <4>1, <4>2
    <3> QED BY <2>q, <3>1, <3>2 DEF LevelsMove
  <2>2. CASE AcquireShard(c)
    <3> DEFINE q == Renewal(row.rangeID, row.ack, "acquire")
    <3>1. Send(c, q) /\ UNCHANGED <<row, late, ack, status>>
      BY <2>2 DEF AcquireShard
    <3>2. q.ack = row.ack
      BY StatementFields
    <3> HIDE DEF q
    <3> QED BY <2>q, <3>1, <3>2, <1>a
  <2>3. CASE RenewOK(c)
    <3>1. UNCHANGED <<row, late>> /\ status[c] # "closed"
      BY <2>3, <1>o DEF RenewOK
    <3>2. call'[c] = NoStatement /\ \A d \in Context \ {c} : call'[d] = call[d] /\ status'[d] = status[d]
      BY <2>3 DEF RenewOK, Return
    <3>3. ack'[c] \in {ack[c], call[c].ack} /\ \A d \in Context \ {c} : ack'[d] = ack[d]
      BY <2>3 DEF RenewOK, Renewed
    <3> QED BY <2>q, <3>1, <3>2, <3>3, <1>n DEF LevelsMove
  <2>4. CASE RenewRefused(c) \/ WriteOK(c) \/ WriteFails(c) \/ WriteRefused(c) \/ PersistOK(c) \/ PersistRefused(c)
    BY <2>q, <2>4, <1>a DEF RenewRefused, WriteOK, WriteFails, WriteRefused, PersistOK, PersistRefused
  <2>5. CASE GenerateTaskID(c)
    BY <2>q, <2>5, <1>a DEF GenerateTaskID
  <2>6. CASE RenewRange(c)
    <3> DEFINE q == Renewal(rangeID[c], ack[c], "alloc")
    <3>1. Send(c, q) /\ UNCHANGED <<row, late, ack, status>> /\ pc[c] # "idle"
      BY <2>6 DEF RenewRange
    <3>2. q.ack = ack[c]
      BY StatementFields
    <3> HIDE DEF q
    <3> QED BY <2>q, <3>1, <3>2, <1>a
  <2>7. CASE SendWrite(c)
    <3> DEFINE q == [op |-> "write", why |-> "none", prev |-> rangeID[c], next |-> rangeID[c],
                     ack |-> 0, rows |-> [id : job[c].ids, kind : {job[c].kind}]]
    <3>1. Send(c, q) /\ UNCHANGED <<row, late, ack, status>>
      BY <2>7 DEF SendWrite
    <3>2. q.ack = 0
      OBVIOUS
    <3> HIDE DEF q
    <3> QED BY <2>q, <3>1, <3>2, <1>a
  <2> QED BY <1>1, <2>1, <2>2, <2>3, <2>4, <2>5, <2>6, <2>7 DEF ShardStep
<1>2. CASE QueueStep(c)
  <2>0. queue[c] \in Queues
    OBVIOUS
  <2>1. CASE StartQueue(c)
    BY <2>1 DEF StartQueue, NoQueue, LevelsMove
  <2>2. CASE ProcessNewTasks(c)
    BY <2>0, <2>2 DEF ProcessNewTasks, GetMaxReadLevel, LevelsMove, Queues
  <2>3. CASE LoadTasks(c)
    BY <2>0, <2>3 DEF LoadTasks, LevelsMove, Queues
  <2>4. ASSUME NEW id \in queue[c].pending, ProcessTask(c, id) PROVE LevelsMove(c)
    BY <2>0, <2>4 DEF ProcessTask, LevelsMove, Queues
  <2>5. CASE UpdateState(c)
    <3>1. queue'[c].new = AckLevel(queue[c]) /\ \A d \in Context \ {c} : queue'[d] = queue[d]
      BY <2>0, <2>5 DEF UpdateState, Queues
    <3> QED BY <2>5, <3>1 DEF UpdateState, LevelsMove
  <2>6. CASE DeleteTasks(c)
    BY <2>0, <2>6 DEF DeleteTasks, LevelsMove, Queues
  <2>7. CASE PersistState(c)
    <3>1. queue'[c].new = 0 /\ \A d \in Context \ {c} : queue'[d] = queue[d]
      BY <2>0, <2>7 DEF PersistState, Queues
    <3>2. UpdateQueueState(c, queue[c].new)
      BY <2>7 DEF PersistState
    <3>3. /\ UNCHANGED <<row, late, status>> /\ ack'[c] = queue[c].new
          /\ \A d \in Context \ {c} : ack'[d] = ack[d]
      BY <3>2 DEF UpdateQueueState
    <3>4. /\ call'[c] = call[c] \/ (status[c] # "closed" /\ call'[c].ack = queue[c].new)
          /\ \A d \in Context \ {c} : call'[d] = call[d]
      <4> DEFINE q == [op |-> "persist", why |-> "none", prev |-> rangeID[c], next |-> rangeID[c],
                       ack |-> queue[c].new, rows |-> {}]
      <4>1. UNCHANGED call \/ (status[c] = "open" /\ call' = [call EXCEPT ![c] = q])
        BY <3>2 DEF UpdateQueueState, Send
      <4>2. q.ack = queue[c].new
        OBVIOUS
      <4> HIDE DEF q
      <4> QED BY <4>1, <4>2
    <3> QED BY <3>1, <3>3, <3>4 DEF LevelsMove
  <2>8. CASE StopQueue(c)
    BY <2>8, <1>n DEF StopQueue, Unload, Reset, LevelsMove
  <2> QED BY <1>2, <2>1, <2>2, <2>3, <2>4, <2>5, <2>6, <2>7, <2>8 DEF QueueStep
<1>3. CASE QFault(c)
  <2>1. CASE (RenewUnknown(c) \/ PersistUnknown(c)) /\ UNCHANGED queue
    BY <2>1, <1>a, <1>b DEF RenewUnknown, AfterUnknownRenewal, PersistUnknown
  <2>2. CASE WriteUnknown(c) /\ UNCHANGED queue
    <3> DEFINE q == Renewal(rangeID[c], ack[c], "recover")
    <3>1. /\ UNCHANGED <<row, ack, status>> /\ pc[c] = "wait" /\ Abandon(c)
          /\ Send(c, q) \/ Return(c)
      BY <2>2 DEF WriteUnknown, AfterUnknownWrite
    <3>2. q.ack = ack[c]
      BY StatementFields
    <3> HIDE DEF q
    <3> QED BY <2>2, <3>1, <3>2, <1>a, <1>b
  <2>3. CASE DeleteFails(c)
    BY <2>3 DEF DeleteFails, LevelsMove, Queues
  <2>4. CASE CrashQueue(c)
    BY <2>4, <1>b, <1>n DEF CrashQueue, Crash, Reset, Return, LevelsMove
  <2> QED BY <1>3, <2>1, <2>2, <2>3, <2>4 DEF QFault
<1>4. CASE Write(c)
  BY <1>4, <1>a DEF Write, Begin
<1> QED BY <1>1, <1>2, <1>3, <1>4

\* A level has been one before, or a queue has just computed it.
LEMMA LevelSource ==
  ASSUME IInv, QueuesOK, [QNext]_qvars, NEW all \in BOOLEAN, NEW a \in Nat, Level(a, all)'
  PROVE  \/ a = 0 \/ Level(a, all)
         \/ \E c \in Context : Counts(c, all) /\ UpdateState(c) /\ a = AckLevel(queue[c])
<1>1. ASSUME NEW c \in Context, LevelsMove(c)
      PROVE  \/ a = 0 \/ Level(a, all)
             \/ Counts(c, all) /\ UpdateState(c) /\ a = AckLevel(queue[c])
  <2>1. CASE a = row'.ack
    BY <1>1, <2>1 DEF LevelsMove, Level
  <2>2. ASSUME NEW d \in Context, d # c, a = call'[d].ack \/ (Counts(d, all)' /\ a \in {ack'[d], queue'[d].new})
        PROVE  Level(a, all)
    BY <1>1, <2>2 DEF LevelsMove, Level, Counts
  <2>3. CASE a = call'[c].ack
    BY <1>1, <2>3 DEF LevelsMove, Level, Counts
  <2>4. CASE Counts(c, all)' /\ a \in {ack'[c], queue'[c].new}
    <3>1. CASE Counts(c, all)
      <4>1. CASE a = ack'[c]
        <5>1. a \in {0, ack[c], call[c].ack, queue[c].new}
          BY <1>1, <4>1 DEF LevelsMove
        <5> QED BY <3>1, <5>1 DEF Level
      <4>2. CASE a = queue'[c].new
        <5>1. a \in {0, queue[c].new} \/ (UpdateState(c) /\ a = AckLevel(queue[c]))
          BY <1>1, <4>2 DEF LevelsMove
        <5> QED BY <3>1, <5>1 DEF Level
      <4> QED BY <2>4, <4>1, <4>2
    <3>2. CASE ~Counts(c, all)
      <4>1. queue'[c] = NoQueue /\ ack'[c] = 0
        BY <1>1, <2>4, <3>2 DEF LevelsMove, Counts
      <4>2. NoQueue.new = 0
        BY DEF NoQueue
      <4> QED BY <2>4, <4>1, <4>2
    <3> QED BY <3>1, <3>2
  <2>5. ASSUME NEW q \in late', a = q.ack PROVE Level(a, all)
    BY <1>1, <2>5 DEF LevelsMove, Level
  <2>6. \/ a = row'.ack
        \/ \E d \in Context : a = call'[d].ack \/ (Counts(d, all)' /\ a \in {ack'[d], queue'[d].new})
        \/ \E q \in late' : a = q.ack
    BY DEF Level
  <2>7. ASSUME NEW d \in Context, a = call'[d].ack \/ (Counts(d, all)' /\ a \in {ack'[d], queue'[d].new})
        PROVE  a = 0 \/ Level(a, all) \/ (Counts(c, all) /\ UpdateState(c) /\ a = AckLevel(queue[c]))
    <3>1. CASE d = c
      BY <2>3, <2>4, <2>7, <3>1 DEF Counts
    <3> QED BY <2>2, <2>7, <3>1
  <2> QED BY <2>1, <2>5, <2>6, <2>7
<1>2. ASSUME NEW q \in late, DecideLate(q), UNCHANGED queue PROVE Level(a, all)
  <2>1. late' \subseteq late /\ row'.ack \in {row.ack, q.ack} /\ UNCHANGED <<ack, call, status>>
    <3>1. late' = late \ {q} /\ UNCHANGED <<ctxVars, opVars>> /\ (row' = row \/ (Holds(q) /\ Apply(q)))
      BY <1>2 DEF DecideLate
    <3>2. q \in Statements /\ WellFormed(q)
      BY DEF IInv, TypeOK, LateOK
    <3>3. row' = row \/ row'.ack = q.ack
      BY <3>1, <3>2, AppliedRow
    <3> QED BY <3>1, <3>3 DEF ctxVars, opVars
  <2> QED BY <1>2, <2>1 DEF Level, Counts
<1>3. CASE UNCHANGED qvars
  BY <1>3 DEF qvars, vars, ctxVars, opVars, Level, Counts
<1> QED BY <1>1, <1>2, <1>3, LevelsOf DEF QNext, LateStep

\* The steps that process or remove tasks.
LEMMA DoneStep ==
  ASSUME [QNext]_qvars
  PROVE  \/ done' = done /\ (tasks \subseteq tasks' \/ \E c \in Context : DeleteTasks(c))
         \/ \E c \in Context : \E id \in queue[c].pending : ProcessTask(c, id)
<1>1. ASSUME NEW q \in late, DecideLate(q) PROVE tasks \subseteq tasks'
  BY <1>1 DEF DecideLate, Apply
<1>2. ASSUME NEW c \in Context, ShardStep(c) PROVE done' = done /\ tasks \subseteq tasks'
  BY <1>2 DEF ShardStep, Decide, Apply, AcquireShard, RenewOK, RenewRefused, GenerateTaskID,
       RenewRange, SendWrite, WriteOK, WriteFails, WriteRefused, PersistOK, PersistRefused
<1>3. ASSUME NEW c \in Context, QFault(c) \/ Write(c) PROVE done' = done /\ tasks \subseteq tasks'
  BY <1>3 DEF QFault, Write, RenewUnknown, WriteUnknown, PersistUnknown, DeleteFails, CrashQueue,
       Crash, Begin, vars
<1>4. ASSUME NEW c \in Context, QueueStep(c),
             ~ \E id \in queue[c].pending : ProcessTask(c, id), ~DeleteTasks(c)
      PROVE  done' = done /\ tasks \subseteq tasks'
  BY <1>4 DEF QueueStep, StartQueue, ProcessNewTasks, GetMaxReadLevel, LoadTasks, UpdateState,
       PersistState, UpdateQueueState, StopQueue, Unload, vars
<1>5. ASSUME NEW c \in Context, DeleteTasks(c) PROVE done' = done
  BY <1>5 DEF DeleteTasks
<1> QED BY <1>1, <1>2, <1>3, <1>4, <1>5 DEF QNext, LateStep, qvars, vars

\* What a step does to the queue of d.
LEMMA QueueMoves ==
  ASSUME IInv, QueuesOK, [QNext]_qvars, NEW d \in Context
  PROVE  \/ queue'[d].next = queue[d].next /\ queue'[d].max = queue[d].max /\ queue'[d].pending = queue[d].pending
         \/ queue'[d] = NoQueue
         \/ StartQueue(d) \/ ProcessNewTasks(d) \/ LoadTasks(d)
         \/ \E id \in queue[d].pending : ProcessTask(d, id)
<1> USE DEF QueuesOK
<1>0. queue[d] \in Queues
  OBVIOUS
<1>1. ASSUME NEW c \in Context, c # d, ShardStep(c) \/ QueueStep(c) \/ QFault(c) \/ Write(c)
      PROVE  queue'[d] = queue[d]
  BY <1>1, LevelsOf DEF LevelsMove
<1>2. CASE ShardStep(d) \/ Write(d) \/ LateStep \/ UNCHANGED qvars
  BY <1>2 DEF ShardStep, Write, LateStep, qvars
<1>3. CASE QFault(d)
  <2>1. CASE DeleteFails(d)
    BY <1>0, <2>1 DEF DeleteFails, Queues
  <2>2. CASE ~DeleteFails(d)
    BY <1>3, <2>2 DEF QFault, CrashQueue
  <2> QED BY <2>1, <2>2
<1>4. CASE UpdateState(d)
  BY <1>0, <1>4 DEF UpdateState, Queues
<1>5. CASE DeleteTasks(d)
  BY <1>0, <1>5 DEF DeleteTasks, Queues
<1>6. CASE PersistState(d)
  BY <1>0, <1>6 DEF PersistState, Queues
<1>7. CASE StopQueue(d)
  BY <1>7 DEF StopQueue
<1> QED BY <1>1, <1>2, <1>3, <1>4, <1>5, <1>6, <1>7 DEF QNext, QueueStep

\* A queue reads only what can no longer change.
LEMMA QueueStepOK ==
  ASSUME NEW all \in BOOLEAN, QInv(all), [QNext]_qvars, NEW d \in Context, Counts(d, all), done \subseteq done'
  PROVE  QueueOK(d)'
<1>0. /\ Sound /\ IInv /\ TypeOK /\ QueuesOK /\ WorkflowsOnly /\ QueueOK(d) /\ (all => ClosedOK(d))
      /\ queue[d] \in Queues
  BY DEF QInv, Sound, IInv, QueuesOK
<1>t. tasks \subseteq Tasks /\ tasks' \subseteq Tasks /\ \A t \in Tasks : t.id \in Nat
  BY <1>0, QNextKeeps DEF IInv, TypeOK, Tasks
<1>q. queue[d].next \in Nat /\ queue[d].max \in Nat /\ queue[d].next <= queue[d].max
  BY <1>0 DEF Queues, QueueOK
<1>f. \A i \in Nat : FutureID(i)' => FutureID(i)
  BY <1>0, FutureShrinks
<1>n. \A t \in tasks' \ tasks : queue[d].max <= t.id
  BY <1>0, <1>t, NewTaskIDs DEF QueueOK
<1>m. \A i \in Nat : FutureID(i)' => queue[d].max <= i
  BY <1>0, <1>f DEF QueueOK
<1>o. \A t \in tasks : t.id < queue[d].next => t \in done \/ t.id \in queue[d].pending
  BY <1>0 DEF QueueOK
<1>1. CASE queue'[d].next = queue[d].next /\ queue'[d].max = queue[d].max /\ queue'[d].pending = queue[d].pending
  <2>1. \A t \in tasks' : t.id < queue[d].next => t \in done' \/ t.id \in queue[d].pending
    BY <1>n, <1>o, <1>q, <1>t, Order, Chain
  <2> QED BY <1>1, <1>m, <1>q, <2>1 DEF QueueOK
<1>2. CASE queue'[d] = NoQueue
  <2>1. queue'[d].next = 0 /\ queue'[d].max = 0
    BY <1>2, EmptyFields
  <2> QED BY <2>1, <1>t, Upward DEF QueueOK
<1>3. CASE StartQueue(d)
  <2>1. queue'[d].next = ack[d] /\ queue'[d].max = ack[d] /\ ack[d] \in Nat
    BY <1>0, <1>3 DEF StartQueue, NoQueue, QueuesOK, TypeOK
  <2>2. Passed(ack[d])
    BY <2>1 DEF QInv, Level
  <2>3. ASSUME NEW a \in Nat, a = ack[d]
        PROVE  (\A t \in tasks' : t.id < a => t \in done') /\ (\A i \in Nat : FutureID(i)' => a <= i)
    BY <1>0, <2>2, <2>3, PassedOn DEF Passed
  <2> QED BY <2>1, <2>3, Order DEF QueueOK
<1>4. CASE ProcessNewTasks(d)
  <2>1. /\ queue'[d].next = queue[d].next /\ queue'[d].max = level[d] + 1
        /\ queue'[d].pending = queue[d].pending
    BY <1>0, <1>4 DEF ProcessNewTasks, Queues, QueuesOK
  <2>2. tasks' = tasks /\ level[d] + 1 > queue[d].max /\ level[d] \in Nat /\ pc[d] = "idle" /\ status[d] \in {"open", "closed"}
    BY <1>0, <1>4 DEF ProcessNewTasks, GetMaxReadLevel, TypeOK
  <2>3. \A i \in Nat : FutureID(i)' => level[d] < i
    <3>1. CASE status[d] = "open"
      BY <1>0, <1>f, <2>2, <3>1, LevelBelow
    <3>2. CASE status[d] = "closed"
      BY <1>0, <1>f, <3>2 DEF Counts, ClosedOK
    <3> QED BY <2>2, <3>1, <3>2
  <2>4. level[d] + 1 \in Nat /\ queue[d].max < level[d] + 1 /\ queue[d].next <= level[d] + 1
    BY SMTT(30), <1>q, <2>2
  <2>5. \A i \in Nat : FutureID(i)' => level[d] + 1 <= i
    BY <2>2, <2>3, Order
  <2> QED BY <1>o, <2>1, <2>2, <2>4, <2>5 DEF QueueOK
<1>5. CASE LoadTasks(d)
  <2>1. /\ queue'[d].next = queue[d].max /\ queue'[d].max = queue[d].max
        /\ queue'[d].pending = queue[d].pending \cup {id \in TaskIDs(tasks) : Within(id, queue[d])}
        /\ tasks' = tasks
    BY <1>0, <1>5 DEF LoadTasks, Queues, QueuesOK, vars
  <2>2. \A t \in tasks : t.id < queue[d].max => t \in done' \/ t.id \in queue'[d].pending
    BY <1>o, <1>q, <1>t, <2>1, Order DEF TaskIDs, Within
  <2> QED BY <1>m, <1>q, <2>1, <2>2, Order DEF QueueOK
<1>6. ASSUME NEW id \in queue[d].pending, ProcessTask(d, id) PROVE QueueOK(d)'
  <2>1. /\ queue'[d].next = queue[d].next /\ queue'[d].max = queue[d].max
        /\ queue'[d].pending = queue[d].pending \ {id}
        /\ tasks' = tasks /\ done' = done \cup {t \in tasks : t.id = id}
    BY <1>0, <1>6 DEF ProcessTask, Queues, QueuesOK, vars
  <2>2. \A t \in tasks : t.id < queue[d].next => t \in done' \/ t.id \in queue'[d].pending
    BY <1>o, <2>1
  <2> QED BY <1>m, <1>q, <2>1, <2>2 DEF QueueOK
<1> QED BY <1>0, <1>1, <1>2, <1>3, <1>4, <1>5, <1>6, QueueMoves

\* The ack level a queue computes: all tasks below it have been processed and
\* none will be written there.
LEMMA AckLevelPassed ==
  ASSUME NEW all \in BOOLEAN, QInv(all), NEW c \in Context, Counts(c, all)
  PROVE  AckLevel(queue[c]) \in Nat /\ Passed(AckLevel(queue[c]))
<1>0. queue[c] \in Queues /\ QueueOK(c) /\ tasks \subseteq Tasks /\ \A t \in Tasks : t.id \in Nat
  BY DEF QInv, Sound, QueuesOK, IInv, TypeOK, Tasks
<1>1. /\ AckLevel(queue[c]) \in Nat /\ AckLevel(queue[c]) <= queue[c].next
      /\ \A id \in queue[c].pending : AckLevel(queue[c]) <= id
  BY <1>0, AckLevelFacts
<1>2. queue[c].next \in Nat /\ queue[c].max \in Nat /\ \A id \in queue[c].pending : id \in Nat
  BY <1>0 DEF Queues
<1>3. \A t \in tasks : t.id < AckLevel(queue[c]) => t \in done
  BY <1>0, <1>1, <1>2, Order, Chain DEF QueueOK
<1>4. \A i \in Nat : FutureID(i) => AckLevel(queue[c]) <= i
  BY <1>0, <1>1, <1>2, Chain DEF QueueOK
<1> QED BY <1>1, <1>3, <1>4 DEF Passed

\* A context that is closed no more has no queue.
LEMMA ReopenedEmpty ==
  ASSUME IInv, QueuesOK, [QNext]_qvars, NEW d \in Context, status[d] = "closed", status'[d] # "closed"
  PROVE  queue'[d] = NoQueue
<1>1. ASSUME NEW c \in Context, LevelsMove(c) PROVE queue'[d] = NoQueue
  BY <1>1 DEF LevelsMove
<1>2. CASE LateStep \/ UNCHANGED qvars
  BY <1>2 DEF LateStep, DecideLate, qvars, vars, ctxVars
<1> QED BY <1>1, <1>2, LevelsOf DEF QNext

\* The invariant of the queues that can write to the row is inductive; that of all
\* queues is as long as no renewal is given up undecided.
LEMMA QueueInductive ==
  ASSUME NEW all \in BOOLEAN, QInv(all), [QNext]_qvars, all => [RecoveryDecided]_qvars
  PROVE  QInv(all)'
<1>0. Sound /\ IInv /\ TypeOK /\ QueuesOK
  BY DEF QInv, Sound, IInv
<1>1. Sound'
  BY <1>0, SoundStep
<1>2. done \subseteq done'
  BY DoneStep DEF ProcessTask
<1>3. ASSUME NEW a \in Nat, Level(a, all)' PROVE Passed(a)'
  <2>1. \A t \in tasks : t.id \in Nat
    BY <1>0 DEF TypeOK, Tasks
  <2>2. Passed(a)
    <3>1. CASE a = 0
      BY <2>1, <3>1, Upward DEF Passed
    <3>2. CASE Level(a, all)
      BY <3>2 DEF QInv
    <3>3. ASSUME NEW c \in Context, Counts(c, all), a = AckLevel(queue[c]) PROVE Passed(a)
      BY <3>3, AckLevelPassed
    <3> QED BY <1>0, <1>3, <3>1, <3>2, <3>3, LevelSource
  <2> QED BY <1>0, <1>2, <2>2, PassedOn
<1>4. ASSUME NEW d \in Context, Counts(d, all)' PROVE QueueOK(d)'
  <2>1. CASE Counts(d, all)
    BY <1>2, <2>1, QueueStepOK
  <2>2. CASE ~Counts(d, all)
    <3>1. queue'[d] = NoQueue
      BY <1>0, <1>4, <2>2, ReopenedEmpty DEF Counts
    <3>2. queue'[d].next = 0 /\ queue'[d].max = 0
      BY <3>1, EmptyFields
    <3>3. \A t \in tasks' : t.id \in Nat
      BY <1>1 DEF Sound, IInv, TypeOK, Tasks
    <3> QED BY <3>2, <3>3, Upward DEF QueueOK
  <2> QED BY <2>1, <2>2
<1>5. ASSUME NEW d \in Context, all PROVE ClosedOK(d)'
  <2>1. all = TRUE
    BY <1>5
  <2> QED BY <2>1, <1>5, ClosedStep
<1> QED BY <1>1, <1>3, <1>4, <1>5 DEF QInv

\* The invariant holds when the shard is created.
LEMMA QueueInit == QInit => \A all \in BOOLEAN : QInv(all)
<1> SUFFICES ASSUME QInit, NEW all \in BOOLEAN PROVE QInv(all)
  OBVIOUS
<1>0. Init /\ queue = [c \in Context |-> NoQueue] /\ done = {}
  BY DEF QInit
<1>1. IInv
  BY <1>0, InitHolds
<1>2. QueuesOK
  BY <1>0 DEF QueuesOK, Queues, NoQueue
<1>3. WorkflowsOnly /\ RangesBounded /\ \A c \in Context : RefusedOK(c)
  <2>1. row.rangeID <= MaxRangeID /\ NoStatement.next <= MaxRangeID
    BY <1>0, BoundAssumption, EmptyFields, Upward DEF Init
  <2> QED BY <1>0, <2>1 DEF Init, WorkflowsOnly, RangesBounded, RefusedOK
<1>4. \A a \in Nat : Level(a, all) => a = 0
  BY <1>0 DEF Init, Level, NoStatement, NoQueue
<1>5. Passed(0)
  BY <1>0, Upward DEF Init, Passed
<1>6. \A c \in Context : ClosedOK(c) /\ QueueOK(c)
  BY <1>0, EmptyFields, Upward DEF Init, ClosedOK, QueueOK
<1> QED BY <1>1, <1>2, <1>3, <1>4, <1>5, <1>6 DEF QInv, Sound

\* The persisted ack level never passes a task that has not been processed, and no
\* task is ever written below it, whatever contexts crash, lose the shard or have
\* their statements delayed (updateQueueState, UpdateQueueState).
THEOREM AckLevelSafe == QSpec => []NothingBelowAck
<1>1. QInv(FALSE) /\ [QNext]_qvars => QInv(FALSE)'
  BY QueueInductive
<1>2. QInv(FALSE) => NothingBelowAck
  <2> SUFFICES ASSUME QInv(FALSE), NEW t \in tasks \ done PROVE row.ack <= t.id
    BY DEF NothingBelowAck
  <2>1. row.ack \in Nat /\ t.id \in Nat
    BY DEF QInv, Sound, IInv, TypeOK, Tasks
  <2>2. Passed(row.ack)
    BY <2>1 DEF QInv, Level
  <2> QED BY <2>1, <2>2, Order DEF Passed
<1>3. QInit => QInv(FALSE)
  BY QueueInit
<1> QED BY <1>1, <1>2, <1>3, PTL DEF QSpec

\* A task that has not been processed has to be.
LEMMA TodoFacts ==
  ASSUME QInv(TRUE)
  PROVE  Todo = tasks \ done /\ Todo \subseteq AllTasks
<1>1. row.ack \in Nat /\ row.rangeID \in Nat /\ row.rangeID <= MaxRangeID /\ tasks \subseteq Tasks /\ IDsOK
  BY DEF QInv, Sound, IInv, TypeOK, RangesBounded
<1>2. Passed(row.ack)
  BY <1>1 DEF QInv, Level
<1>3. Todo = tasks \ done
  BY <1>1, <1>2, Order, Chain DEF Todo, Passed, Tasks
<1>4. BlockEnd(row.rangeID) <= BlockEnd(MaxRangeID) /\ BlockEnd(row.rangeID) \in Nat /\ BlockEnd(MaxRangeID) \in Nat
  BY <1>1, AllBlocks, Blocks, BoundAssumption
<1>5. ASSUME NEW t \in tasks PROVE t \in AllTasks
  <2>1. t \in Tasks /\ t.id \in Nat
    BY <1>1 DEF Tasks
  <2>2. t.id < BlockEnd(row.rangeID)
    BY <1>1, <2>1 DEF IDsOK, Written
  <2>3. t.id \in 0 .. BlockEnd(MaxRangeID)
    BY SMTT(30), <1>4, <2>1, <2>2
  <2> QED BY <2>1, <2>3 DEF Tasks, AllTasks
<1> QED BY <1>3, <1>5 DEF Todo

\* Provided that a renewal after a write of unknown outcome is decided before its
\* caller gives up on it, the shard implements AtLeastOnce: whatever contexts
\* crash, lose the shard or have their statements delayed, no task is removed or
\* skipped before a queue has processed it.
THEOREM TasksAreKept == QSpec /\ [][RecoveryDecided]_qvars => NoTaskLost
<1>1. QInv(TRUE) /\ [QNext]_qvars /\ [RecoveryDecided]_qvars => QInv(TRUE)'
  BY QueueInductive
<1>2. QInit => Promise!Init
  BY DEF QInit, Init, Todo, Promise!Init
<1>3. ASSUME QInv(TRUE), QInv(TRUE)', [QNext]_qvars PROVE [Promise!Next]_<<Todo, done>>
  <2>1. Todo = tasks \ done /\ Todo' = tasks' \ done' /\ Todo \subseteq AllTasks /\ Todo' \subseteq AllTasks
    <3>1. Todo = tasks \ done /\ Todo \subseteq AllTasks
      BY <1>3, TodoFacts
    <3>2. (Todo = tasks \ done /\ Todo \subseteq AllTasks)'
      BY <1>3, TodoFacts, PTL
    <3> QED BY <3>1, <3>2 DEF AllTasks, BlockEnd
  <2>2. ASSUME done' = done, \A t \in tasks \ tasks' : t \in done PROVE Promise!Next
    <3> DEFINE new == Todo' \ Todo
    <3>1. new \in SUBSET AllTasks
      BY <2>1
    <3>2. Promise!Create(new)
      BY <2>1, <2>2 DEF Promise!Create
    <3> QED BY <3>1, <3>2 DEF Promise!Next
  <2>3. ASSUME NEW c \in Context, DeleteTasks(c) PROVE \A t \in tasks \ tasks' : t \in done
    <3>1. Passed(queue[c].new) /\ queue[c].new \in Nat
      BY <1>3 DEF QInv, Level, Counts, Sound, QueuesOK, Queues
    <3> QED BY <2>3, <3>1 DEF DeleteTasks, Passed
  <2>4. ASSUME NEW c \in Context, NEW id \in queue[c].pending, ProcessTask(c, id) PROVE Promise!Next
    <3> DEFINE some == {t \in tasks : t.id = id} \ done
    <3>1. tasks' = tasks /\ done' = done \cup some
      BY <2>4 DEF ProcessTask, vars
    <3>2. some \in SUBSET AllTasks /\ some \subseteq Todo
      BY <2>1
    <3>3. Todo' = Todo \ some
      BY <2>1, <3>1
    <3> HIDE DEF some
    <3>4. Promise!Process(some)
      BY <3>1, <3>2, <3>3 DEF Promise!Process
    <3> QED BY <3>2, <3>4 DEF Promise!Next
  <2> QED BY <1>3, <2>2, <2>3, <2>4, DoneStep
<1>4. QInit => QInv(TRUE)
  BY QueueInit
<1> QED BY <1>1, <1>2, <1>3, <1>4, PTL DEF QSpec, NoTaskLost, Promise!Spec
=============================================================================
