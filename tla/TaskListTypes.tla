--------------------------- MODULE TaskListTypes ---------------------------
(***************************************************************************)
(* The types of TaskList, for every set of managers and tasks and every    *)
(* size of blocks, batches and buffers: layer 1 of the inductive invariant *)
(* of TaskListInv, after what the ack manager's operations do; then task   *)
(* IDs and the order of reading, layers 2 to 4.                            *)
(***************************************************************************)
EXTENDS TaskListInv, WellFoundedInduction, TLAPS

\* The prover of a leaf that names none.
USE ZenonT(60)

----------------------------------------------------------------------------
(* What the operators of AckManager return, for every ack manager.         *)

NatLess == {ss \in Nat \X Nat : ss[1] < ss[2]}

\* The natural numbers are integers.
LEMMA Whole ==
  /\ \A a \in Nat : a \in Int /\ a + 1 \in Nat /\ 0 <= a /\ -1 < a
  /\ 0 \in Nat /\ -1 \in Int
BY SMTT(30)

\* The order of the integers.
LEMMA Order ==
  ASSUME NEW a \in Int, NEW b \in Int
  PROVE  /\ a > b <=> b < a
         /\ a >= b <=> b <= a
         /\ ~(a < b) <=> b <= a
         /\ a <= b <=> (a < b \/ a = b)
         /\ a <= b <=> a < b + 1
         /\ a < b <=> a + 1 <= b
BY SMTT(30)

\* The order is transitive.
LEMMA Chain ==
  ASSUME NEW a \in Int, NEW b \in Int, NEW c \in Int
  PROVE  /\ a <= b /\ b <= c => a <= c
         /\ a < b /\ b <= c => a < c
         /\ a <= b /\ b < c => a < c
BY SMTT(30)

\* A sum of natural numbers is at least each of them.
LEMMA Sums ==
  ASSUME NEW a \in Nat, NEW b \in Nat
  PROVE  a + b \in Nat /\ a <= a + b /\ b <= a + b
BY SMTT(30)

\* The successor of a natural number is above it.
LEMMA Successor ==
  ASSUME NEW a \in Nat
  PROVE  ~(a + 1 <= a) /\ a + 1 # 0
BY SMTT(30)

\* A non-empty set of natural numbers has a least element.
LEMMA Minimum ==
  ASSUME NEW T \in SUBSET Nat, T # {}
  PROVE  \E x \in T : \A y \in T : x <= y
<1>1. NatLess = OpToRel(<, Nat)
  BY DEF OpToRel, NatLess
<1>2. IsWellFoundedOn(NatLess, Nat)
  BY NatLessThanWellFounded, <1>1
<1>3. PICK x \in T : \A y \in T : ~(<<y, x>> \in NatLess)
  BY <1>2, WFMin
<1>4. ASSUME NEW y \in T PROVE x <= y
  <2>1. x \in Nat /\ y \in Nat
    OBVIOUS
  <2>2. ~(y < x)
    BY <2>1, <1>3 DEF NatLess
  <2> QED BY SMTT(30), <2>1, <2>2
<1> QED BY <1>4

\* A non-empty set of integers with an upper bound has a greatest element,
\* which is what Highest chooses.
LEMMA HighestIsGreatest ==
  ASSUME NEW T \in SUBSET Int, T # {}, NEW b \in Int, \A y \in T : y <= b
  PROVE  Highest(T) \in T /\ \A y \in T : y <= Highest(T)
<1> DEFINE D == {b - y : y \in T}
<1>1. D \in SUBSET Nat
  <2>1. ASSUME NEW y \in T PROVE b - y \in Nat
    BY SMTT(30)
  <2> QED BY <2>1
<1>2. D # {}
  OBVIOUS
<1>3. PICK d \in D : \A e \in D : d <= e
  <2> HIDE DEF D
  <2> QED BY <1>1, <1>2, Minimum
<1>4. PICK x \in T : d = b - x
  OBVIOUS
<1>5. ASSUME NEW y \in T PROVE y <= x
  <2>1. b - y \in D
    OBVIOUS
  <2>2. d <= b - y
    BY <1>3, <2>1
  <2> QED BY SMTT(30), <2>2, <1>4
<1> QED BY <1>4, <1>5 DEF Highest

\* ReadItem registers the item if it may, and changes no other.
LEMMA ReadItemFacts ==
  ASSUME NEW am \in AckManagers, NEW id \in Nat
  PROVE  LET new == ReadItem(am, id) IN
         /\ new \in AckManagers
         /\ new.readLevel = IF CanReadItem(am, id) THEN id ELSE am.readLevel
         /\ new.unacked = IF CanReadItem(am, id) THEN am.unacked \cup {id} ELSE am.unacked
         /\ am.ackLevel # -1 => new.ackLevel = am.ackLevel
         /\ am.ackLevel # -1 /\ AckOrder(am) => AckOrder(new)
<1> DEFINE new == ReadItem(am, id)
<1>0. /\ am.ackLevel \in Levels /\ am.readLevel \in Levels /\ am.backlog \in Int
      /\ am.unacked \in SUBSET Nat /\ am.acked \in SUBSET Nat
  BY DEF AckManagers
<1>1. CASE CanReadItem(am, id)
  <2> DEFINE level == IF am.ackLevel = -1 THEN id - 1 ELSE am.ackLevel
  <2>1. level \in Levels /\ id \in Levels /\ am.unacked \cup {id} \in SUBSET Nat
    BY SMTT(30), <1>0 DEF Levels
  <2>2. new = [am EXCEPT !.readLevel = id, !.ackLevel = level,
                         !.unacked = am.unacked \cup {id}, !.backlog = am.backlog + 1]
    BY <1>1 DEF ReadItem
  <2> HIDE DEF new, level
  <2>3. /\ new.readLevel = id /\ new.ackLevel = level /\ new.acked = am.acked
        /\ new.unacked = am.unacked \cup {id}
    BY <2>2 DEF AckManagers
  <2>4. new \in AckManagers
    <3>1. am.backlog + 1 \in Int
      BY SMTT(30), <1>0
    <3> QED BY <2>1, <2>2, <3>1 DEF AckManagers
  <2>5. am.ackLevel # -1 => level = am.ackLevel
    BY DEF level
  <2>6. am.ackLevel # -1 /\ AckOrder(am) => AckOrder(new)
    BY SMTT(30), <1>0, <1>1, <2>3, <2>5 DEF AckOrder, CanReadItem, Levels
  <2> QED BY <1>1, <2>3, <2>4, <2>5, <2>6 DEF new
<1>2. CASE ~CanReadItem(am, id)
  <2>1. new = [am EXCEPT !.backlog = am.backlog + 1]
    BY <1>2 DEF ReadItem
  <2> HIDE DEF new
  <2>2. /\ new.readLevel = am.readLevel /\ new.ackLevel = am.ackLevel
        /\ new.unacked = am.unacked /\ new.acked = am.acked
    BY <2>1 DEF AckManagers
  <2>3. new \in AckManagers
    BY SMTT(30), <1>0, <2>1 DEF AckManagers
  <2> QED BY <1>2, <2>2, <2>3 DEF new, AckOrder
<1> QED BY <1>1, <1>2

\* An item that may be registered is.
LEMMA ReadItemRegisters ==
  ASSUME NEW am \in AckManagers, NEW id \in Nat, CanReadItem(am, id), am.ackLevel # -1
  PROVE  /\ ReadItem(am, id).readLevel = id
         /\ ReadItem(am, id).ackLevel = am.ackLevel
         /\ ReadItem(am, id).unacked = am.unacked \cup {id}
<1> DEFINE new == ReadItem(am, id)
<1>1. /\ new.readLevel = id /\ new.ackLevel = am.ackLevel
      /\ new.unacked = am.unacked \cup {id}
  <2>1. /\ new.readLevel = IF CanReadItem(am, id) THEN id ELSE am.readLevel
        /\ new.unacked = IF CanReadItem(am, id) THEN am.unacked \cup {id} ELSE am.unacked
        /\ am.ackLevel # -1 => new.ackLevel = am.ackLevel
    BY ReadItemFacts
  <2> HIDE DEF new
  <2> QED BY <2>1
<1> QED BY <1>1

\* The levels of an ack manager that registers an item keep their order.
LEMMA ReadItemOrder ==
  ASSUME NEW am \in AckManagers, NEW id \in Nat,
         CanReadItem(am, id), am.ackLevel # -1, AckOrder(am)
  PROVE  AckOrder(ReadItem(am, id)) /\ ReadItem(am, id).readLevel = id
<1> DEFINE new == ReadItem(am, id)
<1>1. new.readLevel = id /\ AckOrder(new)
  <2>1. /\ new.readLevel = IF CanReadItem(am, id) THEN id ELSE am.readLevel
        /\ am.ackLevel # -1 /\ AckOrder(am) => AckOrder(new)
    BY ReadItemFacts
  <2> HIDE DEF new
  <2> QED BY <2>1
<1> QED BY <1>1

\* The two setters.
LEMMA SetReadLevelFacts ==
  ASSUME NEW am \in AckManagers, NEW level \in Nat
  PROVE  LET new == SetReadLevel(am, level) IN
         /\ new \in AckManagers
         /\ new.readLevel = level /\ new.ackLevel = am.ackLevel
         /\ new.unacked = am.unacked /\ new.acked = am.acked
BY DEF SetReadLevel, AckManagers, Levels

\* SetAckLevel raises the two levels and keeps the items.
LEMMA SetAckLevelFacts ==
  ASSUME NEW am \in AckManagers, NEW level \in Nat
  PROVE  LET new == SetAckLevel(am, level) IN
         /\ new \in AckManagers
         /\ new.ackLevel  = IF level > am.ackLevel THEN level ELSE am.ackLevel
         /\ new.readLevel = IF level > am.readLevel THEN level ELSE am.readLevel
         /\ new.unacked = am.unacked /\ new.acked = am.acked
BY DEF SetAckLevel, AckManagers, Levels

\* Marking an item as completed keeps the type.
LEMMA MarkAckedType ==
  ASSUME NEW am \in AckManagers, NEW id \in Nat
  PROVE  MarkAcked(am, id) \in AckManagers
<1>1. CASE id \in am.unacked
  <2>1. am.unacked \ {id} \in SUBSET Nat /\ am.acked \cup {id} \in SUBSET Nat
    BY DEF AckManagers
  <2>2. am.backlog - 1 \in Int
    BY SMTT(30) DEF AckManagers
  <2> QED BY <1>1, <2>1, <2>2 DEF MarkAcked, AckManagers
<1>2. CASE id \notin am.unacked
  BY <1>2 DEF MarkAcked
<1> QED BY <1>1, <1>2

\* The candidates for the new ack level: the old one, and the completed items
\* the walk of AckItem reaches.
LEMMA AdvanceAckLevelFacts ==
  ASSUME NEW am \in AckManagers
  PROVE  LET new == AdvanceAckLevel(am) IN
         /\ new \in AckManagers
         /\ new.readLevel = am.readLevel
         /\ new.unacked = am.unacked
         /\ new.acked = am.acked \ Passed(am)
         /\ new.ackLevel \in Passed(am) \cup {am.ackLevel}
         /\ \A c \in Passed(am) \cup {am.ackLevel} : c <= new.ackLevel
<1> DEFINE C   == Passed(am) \cup {am.ackLevel}
           new == AdvanceAckLevel(am)
           b   == IF am.ackLevel > am.readLevel THEN am.ackLevel ELSE am.readLevel
<1>1. am.ackLevel \in Int /\ am.readLevel \in Int /\ am.ackLevel \in Levels
  BY SMTT(30) DEF AckManagers, Levels
<1>2. Passed(am) \subseteq Nat /\ \A c \in Passed(am) : c <= am.readLevel
  BY DEF Passed, AckManagers
<1>3. C \in SUBSET Int /\ C # {} /\ b \in Int
  BY SMTT(30), <1>1, <1>2
<1>4. \A c \in C : c <= b
  BY SMTT(30), <1>1, <1>2
<1>5. Highest(C) \in C /\ \A c \in C : c <= Highest(C)
  <2> HIDE DEF C, b
  <2> QED BY <1>3, <1>4, HighestIsGreatest
<1>6. new = [am EXCEPT !.ackLevel = Highest(C), !.acked = am.acked \ Passed(am)]
  BY DEF AdvanceAckLevel
<1>7. Highest(C) \in Levels
  BY <1>1, <1>2, <1>5 DEF Levels
<1>8. new \in AckManagers
  <2> HIDE DEF C
  <2> QED BY <1>6, <1>7 DEF AckManagers
<1>9. /\ new.readLevel = am.readLevel
      /\ new.unacked = am.unacked
      /\ new.acked = am.acked \ Passed(am)
      /\ new.ackLevel = Highest(C)
  <2> HIDE DEF C
  <2> QED BY <1>6 DEF AckManagers
<1> QED BY <1>5, <1>8, <1>9

\* AckItem forgets the item among the uncompleted ones, raises the ack level
\* at most to the read level, and keeps every tracked item above it.
THEOREM AckItemFacts ==
  ASSUME NEW am \in AckManagers, NEW id \in Nat
  PROVE  LET new == AckItem(am, id) IN
         /\ new \in AckManagers
         /\ new.readLevel = am.readLevel
         /\ new.unacked = am.unacked \ {id}
         /\ new.ackLevel >= am.ackLevel
         /\ AckOrder(am) => AckOrder(new)
<1> DEFINE mid == MarkAcked(am, id)
           new == AckItem(am, id)
<1>1. /\ mid \in AckManagers
      /\ mid.readLevel = am.readLevel
      /\ mid.ackLevel = am.ackLevel
      /\ mid.unacked = am.unacked \ {id}
  <2>1. mid \in AckManagers
    BY MarkAckedType
  <2>2. mid.readLevel = am.readLevel
    BY DEF MarkAcked, AckManagers
  <2>3. mid.ackLevel = am.ackLevel
    BY DEF MarkAcked, AckManagers
  <2>4. mid.unacked = am.unacked \ {id}
    BY DEF MarkAcked, AckManagers
  <2> QED BY <2>1, <2>2, <2>3, <2>4
<1>2. new = AdvanceAckLevel(mid)
  BY DEF AckItem
<1>3. AckOrder(am) => AckOrder(mid)
  <2> SUFFICES ASSUME AckOrder(am) PROVE AckOrder(mid)
    OBVIOUS
  <2>1. mid.acked \subseteq am.acked \cup (am.unacked \cap {id})
    BY DEF MarkAcked, AckManagers
  <2>2. mid.unacked \cap mid.acked = {}
    BY <2>1, <1>1 DEF AckOrder
  <2>3. mid.unacked \cup mid.acked \subseteq am.unacked \cup am.acked
    BY <2>1, <1>1
  <2> HIDE DEF mid
  <2> QED BY <1>1, <2>2, <2>3 DEF AckOrder
<1> HIDE DEF mid, new
<1>4. /\ new \in AckManagers
      /\ new.readLevel = mid.readLevel
      /\ new.unacked = mid.unacked
      /\ new.acked = mid.acked \ Passed(mid)
      /\ new.ackLevel \in Passed(mid) \cup {mid.ackLevel}
      /\ \A c \in Passed(mid) \cup {mid.ackLevel} : c <= new.ackLevel
  BY <1>1, <1>2, AdvanceAckLevelFacts
<1>5. /\ mid.ackLevel \in Int /\ mid.readLevel \in Int /\ new.ackLevel \in Int
      /\ mid.unacked \subseteq Nat /\ mid.acked \subseteq Nat
  BY SMTT(30), <1>1, <1>4 DEF AckManagers, Levels
<1>6. new.ackLevel >= mid.ackLevel
  BY <1>4, <1>5
<1>7. ASSUME AckOrder(mid) PROVE AckOrder(new)
  <2>1. new.ackLevel <= new.readLevel
    BY <1>4, <1>5, <1>7 DEF Passed, AckOrder
  <2>2. new.unacked \cap new.acked = {}
    BY <1>4, <1>7 DEF AckOrder
  <2>3. \A i \in new.unacked : new.ackLevel < i /\ i <= new.readLevel
    BY <1>4, <1>5, <1>7 DEF Passed, AckOrder
  <2>4. ASSUME NEW i \in new.acked PROVE new.ackLevel < i /\ i <= new.readLevel
    <3>1. i \in mid.acked /\ i \notin Passed(mid)
      BY <1>4, <2>4
    <3>2. mid.ackLevel < i /\ i <= mid.readLevel
      BY <3>1, <1>7 DEF AckOrder
    <3>3. PICK u \in mid.unacked : mid.ackLevel < u /\ ~(i < u)
      BY <3>1, <3>2 DEF Passed
    <3>4. new.ackLevel < u
      BY <2>3, <1>4
    <3> QED BY SMTT(30), <3>2, <3>3, <3>4, <1>4, <1>5
  <2> QED BY <2>1, <2>2, <2>3, <2>4 DEF AckOrder
<1> QED BY <1>1, <1>3, <1>4, <1>6, <1>7 DEF new

----------------------------------------------------------------------------
(* The operations of the task list.                                        *)

\* The operations of the store keep its type.
LEMMA StoreTypes ==
  ASSUME NEW s \in Stores
  PROVE  /\ \A x \in [rangeID : Nat, ackLevel : Nat] : LeaseTaskList(s, x) \in Stores
         /\ \A level \in Nat : UpdateTaskList(s, level) \in Stores
         /\ \A rows \in SUBSET Rows : CreateTasks(s, rows) \in Stores
         /\ \A level \in Nat : CompleteTasksLessThan(s, level) \in Stores
         /\ \A row : DropRow(s, row) \in Stores
         /\ \A a, b, n : GetTasks(s, a, b, n) \in SUBSET Rows
<1>1. ASSUME NEW x \in [rangeID : Nat, ackLevel : Nat] PROVE LeaseTaskList(s, x) \in Stores
  <2>1. x.rangeID + 1 \in Nat /\ x.ackLevel \in Nat
    BY SMTT(30)
  <2> QED BY <2>1 DEF LeaseTaskList, Stores
<1>2. \A level \in Nat : UpdateTaskList(s, level) \in Stores
  BY DEF UpdateTaskList, Stores
<1>3. ASSUME NEW rows \in SUBSET Rows PROVE CreateTasks(s, rows) \in Stores
  <2>1. {t \in s.tasks : \A r \in rows : r.id # t.id} \cup rows \in SUBSET Rows
    BY DEF Stores
  <2> QED BY <2>1 DEF CreateTasks, Stores
<1>4. ASSUME NEW level \in Nat PROVE CompleteTasksLessThan(s, level) \in Stores
  <2>1. {t \in s.tasks : t.id > level} \in SUBSET Rows
    BY DEF Stores
  <2> QED BY <2>1 DEF CompleteTasksLessThan, Stores
<1>5. ASSUME NEW row PROVE DropRow(s, row) \in Stores
  <2>1. s.tasks \ {row} \in SUBSET Rows
    BY DEF Stores
  <2> QED BY <2>1 DEF DropRow, Stores
<1>6. \A a, b, n : GetTasks(s, a, b, n) \in SUBSET Rows
  BY DEF GetTasks, Window, Stores
<1> QED BY <1>1, <1>2, <1>3, <1>4, <1>5, <1>6

\* The block of the range ID after r.
LEMMA BlockTypes ==
  ASSUME NEW r \in Nat
  PROVE  /\ BlockStart(r + 1) \in Nat /\ BlockEnd(r + 1) \in Nat
         /\ BlockStart(r + 1) - 1 \in Nat
<1>1. (r + 1) - 1 = r
  BY SMTT(30)
<1>2. r * RangeSize \in Nat /\ (r + 1) * RangeSize \in Nat
  BY SMTT(30), TaskListAssumption
<1> QED BY SMTT(30), <1>1, <1>2 DEF BlockStart, BlockEnd

\* The rows the writer creates are rows.
LEMMA BatchRowsType ==
  ASSUME TypeOK, NEW m \in Manager
  PROVE  BatchRows(m) \in SUBSET Rows
BY SMTT(30) DEF TypeInv, TypeOK, WriterOK, BatchRows, Allocs, Rows

\* The answers of the writer are answers to requests.
LEMMA AnswersType ==
  ASSUME NEW m \in Manager, NEW reqs \in SUBSET Requests, NEW res \in Outcomes
  PROVE  Answers(m, reqs, res) \in SUBSET [req : Requests, res : Outcomes]
BY SMTT(30) DEF Answers

\* Variables that do not change keep their type.
LEMMA TypeFrames ==
  ASSUME TypeInv
  PROVE  /\ UNCHANGED storeVars => StoreOK'
         /\ UNCHANGED callerVars => CallerOK'
         /\ UNCHANGED leaseVars => LeaseOK'
         /\ UNCHANGED writerVars => WriterOK'
         /\ UNCHANGED pumpVars => PumpOK'
         /\ UNCHANGED taskVars => TasksOK'
         /\ UNCHANGED stopVars => StopOK'
         /\ UNCHANGED gcVars => GCOK'
<1>1. UNCHANGED storeVars => StoreOK'
  BY DEF TypeInv, TypeOK, storeVars, StoreOK
<1>2. UNCHANGED callerVars => CallerOK'
  BY DEF TypeInv, TypeOK, callerVars, CallerOK
<1>3. UNCHANGED leaseVars => LeaseOK'
  BY DEF TypeInv, TypeOK, leaseVars, LeaseOK
<1>4. UNCHANGED writerVars => WriterOK'
  BY DEF TypeInv, TypeOK, writerVars, WriterOK
<1>5. UNCHANGED pumpVars => PumpOK'
  BY DEF TypeInv, TypeOK, pumpVars, PumpOK
<1>6. UNCHANGED taskVars => TasksOK'
  BY DEF TypeInv, TypeOK, taskVars, TasksOK
<1>7. UNCHANGED stopVars => StopOK'
  BY DEF TypeInv, TypeOK, stopVars, StopOK
<1>8. UNCHANGED gcVars => GCOK'
  BY DEF TypeInv, TypeOK, gcVars, GCOK
<1> QED BY <1>1, <1>2, <1>3, <1>4, <1>5, <1>6, <1>7, <1>8

\* The parts of the state the store and the ack manager operators are applied to.
LEMMA TypeElements ==
  ASSUME TypeInv
  PROVE  /\ store \in Stores
         /\ \A m \in Manager : /\ seen[m] \in [rangeID : Nat, ackLevel : Nat]
                               /\ ack[m] \in AckManagers
                               /\ Held(m) \in SUBSET Rows
                               /\ cursor[m] \in Nat /\ iter[m] \in Nat /\ pmax[m] \in Nat
BY DEF TypeInv, TypeOK, StoreOK, LeaseOK, TasksOK, PumpOK, Held

\* The fields of an ack manager.
LEMMA AckFields ==
  ASSUME NEW am \in AckManagers
  PROVE  /\ am.readLevel \in Int /\ am.ackLevel \in Int /\ am.readLevel \in Levels
         /\ am.unacked \in SUBSET Nat /\ am.acked \in SUBSET Nat
BY SMTT(30) DEF AckManagers, Levels

\* The fields of what a manager keeps.
LEMMA FieldTypes ==
  ASSUME TypeInv, NEW m \in Manager
  PROVE  /\ seen[m].rangeID \in Nat /\ seen[m].ackLevel \in Nat
         /\ store.rangeID \in Nat /\ store.ackLevel \in Nat
         /\ \A t \in batch[m] : t.id \in Nat
         /\ \A t \in Held(m) : t.id \in Nat
         /\ \A a \in walloc[m] : a.id \in Nat /\ a.old \in Nat
         /\ \A a \in replies[m] : a.req.old \in Nat
<1>1. /\ batch[m] \in SUBSET Rows /\ walloc[m] \in SUBSET Allocs
      /\ replies[m] \in SUBSET [req : Requests, res : Outcomes]
  BY DEF TypeInv, TypeOK, PumpOK, WriterOK
<1>2. \A t \in Rows : t.id \in Nat
  BY DEF Rows
<1>3. \A a \in Allocs : a.id \in Nat /\ a.old \in Nat
  BY DEF Allocs
<1>4. \A a \in [req : Requests, res : Outcomes] : a.req.old \in Nat
  BY DEF Requests
<1>5. \A x \in Stores : x.rangeID \in Nat /\ x.ackLevel \in Nat
  BY DEF Stores
<1>6. \A x \in [rangeID : Nat, ackLevel : Nat] : x.rangeID \in Nat /\ x.ackLevel \in Nat
  OBVIOUS
<1> QED BY <1>1, <1>2, <1>3, <1>4, <1>5, <1>6, TypeElements

\* The fields of requests: those of a row that was allocated an ID, and those of
\* a row that is written again.
LEMMA RequestFields ==
  ASSUME NEW a
  PROVE  /\ RequestOf(a).p = a.p /\ RequestOf(a).old = a.old
         /\ Rewrite(a).p = a.p /\ Rewrite(a).old = a.id
BY DEF RequestOf, Rewrite

\* An answer carries its request and the result.
LEMMA AnswerFields ==
  ASSUME NEW m, NEW reqs, NEW res, NEW x \in Answers(m, reqs, res)
  PROVE  x.res = res /\ x.req \in reqs
<1>1. PICK r \in reqs : x = [req |-> r, res |-> res]
  BY DEF Answers
<1> QED BY <1>1

\* The value of `seen' when no lease is in progress has the type of a row.
LEMMA NothingSeenType == NothingSeen \in [rangeID : Nat, ackLevel : Nat]
BY DEF NothingSeen

\* Every step keeps the types.
LEMMA TypeOKStep ==
  ASSUME TypeInv, [Next]_vars
  PROVE  TypeOK'
<1>1. ASSUME NEW m \in Manager, Load(m) \/ LeaseLost(m) PROVE TypeOK'
  <2>1. CASE LeaseRead(m)
    <3>a. [rangeID |-> store.rangeID, ackLevel |-> store.ackLevel] \in [rangeID : Nat, ackLevel : Nat]
      BY TypeElements DEF Stores
    <3>1. LeaseOK'
      BY <2>1, <3>a DEF TypeInv, TypeOK, LeaseOK, LeaseRead,
          ManagerStates
    <3> QED BY <2>1, TypeFrames, <3>1 DEF TypeInv, TypeOK, LeaseRead
  <2>2. CASE LeaseWrite(m)
    <3>a. LeaseTaskList(store, seen[m]) \in Stores
      BY TypeElements, StoreTypes
    <3>b. /\ seen[m].rangeID + 1 \in Nat /\ seen[m].ackLevel \in Nat
          /\ BlockStart(seen[m].rangeID + 1) \in Nat /\ BlockEnd(seen[m].rangeID + 1) \in Nat
          /\ BlockStart(seen[m].rangeID + 1) - 1 \in Nat
      BY SMTT(30), TypeElements, BlockTypes
    <3>c. SetAckLevel(ack[m], seen[m].ackLevel) \in AckManagers
      BY TypeElements, SetAckLevelFacts
    <3>1. StoreOK'
      BY <2>2, <3>a DEF TypeInv, TypeOK, StoreOK, LeaseWrite
    <3>2. LeaseOK'
      BY <2>2, NothingSeenType, <3>b DEF TypeInv, TypeOK, LeaseOK, LeaseWrite,
          ManagerStates
    <3>3. WriterOK'
      BY <2>2, <3>b DEF TypeInv, TypeOK, WriterOK, LeaseWrite
    <3>4. PumpOK'
      BY <2>2 DEF TypeInv, TypeOK, PumpOK, LeaseWrite, Signal, SignalIf
    <3>5. TasksOK'
      BY <2>2, <3>c DEF TypeInv, TypeOK, TasksOK, LeaseWrite
    <3> QED BY <2>2, TypeFrames, <3>1, <3>2, <3>3, <3>4, <3>5 DEF TypeInv, TypeOK, LeaseWrite
  <2>3. CASE LeaseFails(m)
    <3>1. LeaseOK'
      BY <2>3, NothingSeenType DEF TypeInv, TypeOK, LeaseOK, LeaseFails,
          ManagerStates
    <3> QED BY <2>3, TypeFrames, <3>1 DEF TypeInv, TypeOK, LeaseFails
  <2>4. CASE LeaseLost(m)
    <3>a. LeaseTaskList(store, seen[m]) \in Stores
      BY TypeElements, StoreTypes
    <3>1. StoreOK'
      BY <2>4, <3>a DEF TypeInv, TypeOK, StoreOK, LeaseLost
    <3>2. LeaseOK'
      BY <2>4, NothingSeenType DEF TypeInv, TypeOK, LeaseOK, LeaseLost,
          ManagerStates
    <3> QED BY <2>4, TypeFrames, <3>1, <3>2 DEF TypeInv, TypeOK, LeaseLost
  <2> QED BY <1>1, <2>1, <2>2, <2>3, <2>4 DEF Load
<1>2. ASSUME NEW m \in Manager, Writer(m) PROVE TypeOK'
  <2>1. CASE WriterTake(m)
    <3>1. WriterOK'
      BY SMTT(30), <2>1 DEF TypeInv, TypeOK, WriterOK, WriterTake
    <3> QED BY <2>1, TypeFrames, <3>1 DEF TypeInv, TypeOK, WriterTake
  <2>2. CASE WriterAlloc(m)
    <3>1. LeaseOK'
      BY SMTT(30), <2>2 DEF TypeInv, TypeOK, LeaseOK, WriterAlloc
    <3>2. WriterOK'
      BY SMTT(30), <2>2 DEF TypeInv, TypeOK, WriterOK, WriterAlloc, Requests,
          Allocs, LeaseOK
    <3> QED BY <2>2, TypeFrames, <3>1, <3>2 DEF TypeInv, TypeOK, WriterAlloc
  <2>3. CASE RenewRead(m)
    <3>a. [rangeID |-> store.rangeID, ackLevel |-> store.ackLevel] \in [rangeID : Nat, ackLevel : Nat]
      BY TypeElements DEF Stores
    <3>1. LeaseOK'
      BY <2>3, <3>a DEF TypeInv, TypeOK, LeaseOK, RenewRead
    <3>2. WriterOK'
      BY <2>3 DEF TypeInv, TypeOK, WriterOK, RenewRead
    <3> QED BY <2>3, TypeFrames, <3>1, <3>2 DEF TypeInv, TypeOK, RenewRead
  <2>4. CASE RenewWrite(m)
    <3>a. LeaseTaskList(store, seen[m]) \in Stores
      BY TypeElements, StoreTypes
    <3>b. /\ seen[m].rangeID + 1 \in Nat /\ seen[m].ackLevel \in Nat
          /\ BlockStart(seen[m].rangeID + 1) \in Nat /\ BlockEnd(seen[m].rangeID + 1) \in Nat
          /\ BlockStart(seen[m].rangeID + 1) - 1 \in Nat
      BY SMTT(30), TypeElements, BlockTypes
    <3>1. StoreOK'
      BY <2>4, <3>a DEF TypeInv, TypeOK, StoreOK, RenewWrite
    <3>2. LeaseOK'
      BY <2>4, NothingSeenType, <3>b DEF TypeInv, TypeOK, LeaseOK, RenewWrite
    <3>3. WriterOK'
      BY <2>4 DEF TypeInv, TypeOK, WriterOK, RenewWrite
    <3> QED BY <2>4, TypeFrames, <3>1, <3>2, <3>3 DEF TypeInv, TypeOK, RenewWrite
  <2>5. CASE RenewFails(m)
    <3>c. wpend[m] \cup {RequestOf(a) : a \in walloc[m]} \in SUBSET Requests
      BY SMTT(30) DEF TypeInv, TypeOK, WriterOK, RequestOf, Requests, Allocs
    <3>d. Answers(m, wpend[m] \cup {RequestOf(a) : a \in walloc[m]}, "failed")
            \in SUBSET [req : Requests, res : Outcomes]
      BY <3>c, AnswersType DEF Outcomes
    <3>1. StoreOK'
      BY <2>5 DEF TypeInv, TypeOK, StoreOK, RenewFails, GiveUpLease
    <3>2. LeaseOK'
      BY <2>5, NothingSeenType DEF TypeInv, TypeOK, LeaseOK, RenewFails, GiveUpLease
    <3>3. WriterOK'
      BY <2>5, <3>d DEF TypeInv, TypeOK, WriterOK, RenewFails,
          GiveUpLease
    <3>4. StopOK'
      BY <2>5 DEF TypeInv, TypeOK, StopOK, RenewFails, GiveUpLease
    <3> QED BY <2>5, TypeFrames, <3>1, <3>2, <3>3, <3>4 DEF TypeInv, TypeOK, RenewFails, GiveUpLease
  <2>6. CASE WriterCreates(m)
    <3>a. CreateTasks(store, BatchRows(m)) \in Stores
      BY TypeElements, BatchRowsType, StoreTypes DEF TypeInv
    <3>1. StoreOK'
      BY <2>6, <3>a DEF TypeInv, TypeOK, StoreOK, WriterCreates
    <3>2. WriterOK'
      BY <2>6 DEF TypeInv, TypeOK, WriterOK, WriterCreates, Outcomes
    <3> QED BY <2>6, TypeFrames, <3>1, <3>2 DEF TypeInv, TypeOK, WriterCreates
  <2>7. CASE WriterRejected(m)
    <3>1. WriterOK'
      BY <2>7 DEF TypeInv, TypeOK, WriterOK, WriterRejected, Outcomes
    <3>2. StopOK'
      BY <2>7 DEF TypeInv, TypeOK, StopOK, WriterRejected
    <3> QED BY <2>7, TypeFrames, <3>1, <3>2 DEF TypeInv, TypeOK, WriterRejected
  <2>8. CASE WriterPublish(m)
    <3>a. Highest({a.id : a \in walloc[m]}) \in Nat
      <4> DEFINE ids == {a.id : a \in walloc[m]}
      <4>1. PICK b \in Nat : \A a \in walloc[m] : a.id <= b
        BY DEF TypeInv, WriterShape
      <4>2. ids \in SUBSET Nat
        BY SMTT(30) DEF TypeInv, TypeOK, WriterOK, Allocs
      <4>3. ids # {}
        BY <2>8 DEF TypeInv, WriterShape, WriterPublish
      <4>4. \A y \in ids : y <= b
        BY <4>1
      <4> HIDE DEF ids
      <4>5. ids \in SUBSET Int
        BY SMTT(30), <4>2
      <4>6. Highest(ids) \in ids
        BY SMTT(30), <4>3, <4>4, <4>5, HighestIsGreatest
      <4> QED BY <4>2, <4>6 DEF ids
    <3>c. {RequestOf(a) : a \in walloc[m]} \in SUBSET Requests
      BY SMTT(30) DEF TypeInv, TypeOK, WriterOK, RequestOf, Requests, Allocs
    <3>d. wres[m] \in Outcomes
      BY DEF TypeInv, TypeOK, WriterOK
    <3>e. Answers(m, {RequestOf(a) : a \in walloc[m]}, wres[m]) \in SUBSET [req : Requests, res : Outcomes]
      BY <3>c, <3>d, AnswersType
    <3>1. WriterOK'
      BY <2>8, <3>a, <3>e DEF TypeInv, TypeOK, WriterOK, WriterPublish,
          Outcomes
    <3> QED BY <2>8, TypeFrames, <3>1 DEF TypeInv, TypeOK, WriterPublish
  <2> QED BY <1>2, <2>1, <2>2, <2>3, <2>4, <2>5, <2>6, <2>7, <2>8 DEF Writer
<1>3. ASSUME NEW m \in Manager, RenewLost(m) \/ WriterErrs(m) PROVE TypeOK'
  <2>1. CASE RenewLost(m)
    <3>a. LeaseTaskList(store, seen[m]) \in Stores
      BY TypeElements, StoreTypes
    <3>c. wpend[m] \cup {RequestOf(a) : a \in walloc[m]} \in SUBSET Requests
      BY SMTT(30) DEF TypeInv, TypeOK, WriterOK, RequestOf, Requests, Allocs
    <3>d. Answers(m, wpend[m] \cup {RequestOf(a) : a \in walloc[m]}, "failed")
            \in SUBSET [req : Requests, res : Outcomes]
      BY <3>c, AnswersType DEF Outcomes
    <3>1. StoreOK'
      BY <2>1, <3>a DEF TypeInv, TypeOK, StoreOK, RenewLost, GiveUpLease
    <3>2. LeaseOK'
      BY <2>1, NothingSeenType DEF TypeInv, TypeOK, LeaseOK, RenewLost, GiveUpLease
    <3>3. WriterOK'
      BY <2>1, <3>d DEF TypeInv, TypeOK, WriterOK, RenewLost,
          GiveUpLease
    <3>4. StopOK'
      BY <2>1 DEF TypeInv, TypeOK, StopOK, RenewLost, GiveUpLease
    <3> QED BY <2>1, TypeFrames, <3>1, <3>2, <3>3, <3>4 DEF TypeInv, TypeOK, RenewLost, GiveUpLease
  <2>2. CASE WriterErrs(m)
    <3>a. [rangeID |-> lease[m], rows |-> BatchRows(m)] \in [rangeID : Nat, rows : SUBSET Rows]
      BY BatchRowsType DEF TypeInv, TypeOK, LeaseOK
    <3>1. StoreOK'
      BY <2>2, <3>a DEF TypeInv, TypeOK, StoreOK, WriterErrs
    <3>2. WriterOK'
      BY <2>2 DEF TypeInv, TypeOK, WriterOK, WriterErrs, Outcomes
    <3> QED BY <2>2, TypeFrames, <3>1, <3>2 DEF TypeInv, TypeOK, WriterErrs
  <2> QED BY <1>3, <2>1, <2>2
<1>4. ASSUME NEW m \in Manager, Pump(m) PROVE TypeOK'
  <2>1. CASE PumpStart(m)
    <3>a. ack[m].readLevel \in Nat
      BY <2>1 DEF TypeInv, PumpStart, Alive, LevelsSet
    <3>1. PumpOK'
      BY <2>1, <3>a DEF TypeInv, TypeOK, PumpOK, PumpStart, WriterOK
    <3> QED BY <2>1, TypeFrames, <3>1 DEF TypeInv, TypeOK, PumpStart
  <2>2. CASE PumpRead(m)
    <3>a. Min2(cursor[m] + ReadRangeSize, pmax[m]) \in Nat /\ iter[m] + 1 \in Nat
      BY SMTT(30), TypeElements, TaskListAssumption DEF Min2
    <3>b. GetTasks(store, cursor[m], Min2(cursor[m] + ReadRangeSize, pmax[m]), BatchSize) \in SUBSET Rows
      BY TypeElements, StoreTypes
    <3>1. PumpOK'
      BY SMTT(30), <2>2, <3>a, <3>b DEF TypeInv, TypeOK, PumpOK, PumpRead, EndRead
    <3> QED BY <2>2, TypeFrames, <3>1 DEF TypeInv, TypeOK, PumpRead
  <2>3. CASE PumpEmpty(m)
    <3>a. AfterEmptyRead(ack[m], cursor[m]) \in AckManagers
      BY TypeElements, SetReadLevelFacts, SetAckLevelFacts DEF AfterEmptyRead
    <3>1. PumpOK'
      BY <2>3 DEF TypeInv, TypeOK, PumpOK, PumpEmpty, EndRead, SignalIf
    <3>2. TasksOK'
      BY <2>3, <3>a DEF TypeInv, TypeOK, TasksOK, PumpEmpty
    <3> QED BY <2>3, TypeFrames, <3>1, <3>2 DEF TypeInv, TypeOK, PumpEmpty
  <2>4. CASE PumpAdd(m)
    <3>a. PICK t \in batch[m] :
            /\ ack' \in {[ack EXCEPT ![m] = SetReadLevel(ack[m], t.id)],
                         [ack EXCEPT ![m] = ReadItem(ack[m], t.id)]}
            /\ buffer' \in {buffer, [buffer EXCEPT ![m] = @ \cup {t}]}
            /\ batch' = [batch EXCEPT ![m] = @ \ {t}]
      BY <2>4 DEF PumpAdd
    <3>b. t \in Rows /\ t.id \in Nat
      BY SMTT(30) DEF TypeInv, TypeOK, PumpOK, Rows
    <3>c. SetReadLevel(ack[m], t.id) \in AckManagers /\ ReadItem(ack[m], t.id) \in AckManagers
      BY TypeElements, <3>b, SetReadLevelFacts, ReadItemFacts
    <3>d. ack' \in [Manager -> AckManagers]
      BY <3>a, <3>c DEF TypeInv, TypeOK, TasksOK
    <3>e. buffer' \in [Manager -> SUBSET Rows]
      BY SMTT(30), <3>a, <3>b DEF TypeInv, TypeOK, TasksOK
    <3>1. PumpOK'
      BY SMTT(30), <2>4 DEF TypeInv, TypeOK, PumpOK, PumpAdd, SignalIf
    <3>2. TasksOK'
      BY <2>4, <3>d, <3>e DEF TypeInv, TypeOK, TasksOK, PumpAdd
    <3> QED BY <2>4, TypeFrames, <3>1, <3>2 DEF TypeInv, TypeOK, PumpAdd
  <2>5. CASE PumpExit(m)
    <3>1. PumpOK'
      BY <2>5 DEF TypeInv, TypeOK, PumpOK, PumpExit
    <3> QED BY <2>5, TypeFrames, <3>1 DEF TypeInv, TypeOK, PumpExit
  <2>6. CASE PumpPersists(m)
    <3>a. UpdateTaskList(store, pval[m]) \in Stores
      BY TypeElements, StoreTypes DEF TypeInv, TypeOK, PumpOK
    <3>b. dbAck' \in [Manager -> Nat]
      BY <2>6 DEF TypeInv, TypeOK, LeaseOK, PumpOK, PumpPersists
    <3>1. StoreOK'
      BY <2>6, <3>a DEF TypeInv, TypeOK, StoreOK, PumpPersists
    <3>2. LeaseOK'
      BY <2>6, <3>b DEF TypeInv, TypeOK, LeaseOK, PumpPersists
    <3>3. PumpOK'
      BY <2>6 DEF TypeInv, TypeOK, PumpOK, PumpPersists, Signal, SignalIf
    <3> QED BY <2>6, TypeFrames, <3>1, <3>2, <3>3 DEF TypeInv, TypeOK, PumpPersists
  <2>7. CASE PumpRejected(m)
    <3>1. PumpOK'
      BY <2>7 DEF TypeInv, TypeOK, PumpOK, PumpRejected
    <3>2. StopOK'
      BY SMTT(30), <2>7 DEF TypeInv, TypeOK, StopOK, PumpRejected
    <3> QED BY <2>7, TypeFrames, <3>1, <3>2 DEF TypeInv, TypeOK, PumpRejected
  <2> QED BY <1>4, <2>1, <2>2, <2>3, <2>4, <2>5, <2>6, <2>7 DEF Pump
<1>5. ASSUME NEW m \in Manager, PumpReadFails(m) \/ PumpTimer(m) \/ PumpPersistErrs(m) PROVE TypeOK'
  <2>1. CASE PumpReadFails(m)
    <3>1. PumpOK'
      BY <2>1 DEF TypeInv, TypeOK, PumpOK, PumpReadFails, EndRead,
          Signal, SignalIf
    <3> QED BY <2>1, TypeFrames, <3>1 DEF TypeInv, TypeOK, PumpReadFails
  <2>2. CASE PumpTimer(m)
    <3>a. ack[m].ackLevel \in Nat
      BY <2>2 DEF TypeInv, PumpTimer, Alive, LevelsSet
    <3>1. PumpOK'
      BY <2>2, <3>a DEF TypeInv, TypeOK, PumpOK, PumpTimer
    <3> QED BY <2>2, TypeFrames, <3>1 DEF TypeInv, TypeOK, PumpTimer
  <2>3. CASE PumpPersistErrs(m)
    <3>1. PumpOK'
      BY <2>3 DEF TypeInv, TypeOK, PumpOK, PumpPersistErrs, Signal,
          SignalIf
    <3> QED BY <2>3, TypeFrames, <3>1 DEF TypeInv, TypeOK, PumpPersistErrs
  <2> QED BY <1>5, <2>1, <2>2, <2>3
<1>6. ASSUME NEW m \in Manager, Stop(m) \/ StopPersist(m) \/ UpdatePartitionConfig(m) PROVE TypeOK'
  <2>1. CASE Stop(m)
    <3>a. ack[m].ackLevel \in Nat
      BY <2>1 DEF TypeInv, Stop, Alive, LevelsSet
    <3>1. LeaseOK'
      BY <2>1 DEF TypeInv, TypeOK, LeaseOK, Stop, ManagerStates
    <3>2. WriterOK'
      BY <2>1 DEF TypeInv, TypeOK, WriterOK, Stop
    <3>3. StopOK'
      BY <2>1, <3>a DEF TypeInv, TypeOK, StopOK, Stop
    <3> QED BY <2>1, TypeFrames, <3>1, <3>2, <3>3 DEF TypeInv, TypeOK, Stop
  <2>2. CASE StopPersist(m)
    <3>a. UpdateTaskList(store, sval[m]) \in Stores
      BY TypeElements, StoreTypes DEF TypeInv, TypeOK, StopOK
    <3>b. ack[m].ackLevel \in Nat
      BY <2>2 DEF TypeInv, StopPersist, Alive, LevelsSet
    <3>c. dbAck' \in [Manager -> Nat]
      BY <2>2 DEF TypeInv, TypeOK, LeaseOK, StopOK, StopPersist
    <3>d. store' \in Stores /\ UNCHANGED late
      BY <2>2, TypeElements, <3>a DEF StopPersist
    <3>1. StoreOK'
      BY <2>2, <3>d DEF TypeInv, TypeOK, StoreOK, StopPersist
    <3>2. LeaseOK'
      BY <2>2, <3>c DEF TypeInv, TypeOK, LeaseOK, StopPersist,
          ManagerStates
    <3>3. StopOK'
      BY <2>2 DEF TypeInv, TypeOK, StopOK, StopPersist
    <3>4. GCOK'
      BY <2>2, <3>b DEF TypeInv, TypeOK, GCOK, StopPersist
    <3> QED BY <2>2, TypeFrames, <3>1, <3>2, <3>3, <3>4 DEF TypeInv, TypeOK, StopPersist
  <2>3. CASE UpdatePartitionConfig(m)
    <3>a. UpdateTaskList(store, dbAck[m]) \in Stores
      BY TypeElements, StoreTypes DEF TypeInv, TypeOK, LeaseOK
    <3>1. StoreOK'
      BY <2>3, <3>a DEF TypeInv, TypeOK, StoreOK, UpdatePartitionConfig
    <3> QED BY <2>3, TypeFrames, <3>1 DEF TypeInv, TypeOK, UpdatePartitionConfig
  <2> QED BY <1>6, <2>1, <2>2, <2>3
<1>7. ASSUME NEW m \in Manager, NEW p \in Payload, SyncMatch(m, p) \/ AddTask(m, p) \/ AddTaskReturns(m, p) PROVE TypeOK'
  <2>1. CASE SyncMatch(m, p)
    <3>1. CallerOK'
      BY <2>1 DEF TypeInv, TypeOK, CallerOK, SyncMatch
    <3> QED BY <2>1, TypeFrames, <3>1 DEF TypeInv, TypeOK, SyncMatch
  <2>2. CASE AddTask(m, p)
    <3>1. CallerOK'
      BY <2>2 DEF TypeInv, TypeOK, CallerOK, AddTask
    <3>2. WriterOK'
      BY SMTT(30), <2>2 DEF TypeInv, TypeOK, WriterOK, AddTask, Requests
    <3> QED BY <2>2, TypeFrames, <3>1, <3>2 DEF TypeInv, TypeOK, AddTask
  <2>3. CASE AddTaskReturns(m, p)
    <3>1. CallerOK'
      BY <2>3 DEF TypeInv, TypeOK, CallerOK, AddTaskReturns
    <3>2. WriterOK'
      BY SMTT(30), <2>3 DEF TypeInv, TypeOK, WriterOK, AddTaskReturns
    <3>3. PumpOK'
      BY SMTT(30), <2>3 DEF TypeInv, TypeOK, PumpOK, AddTaskReturns, SignalIf
    <3> QED BY <2>3, TypeFrames, <3>1, <3>2, <3>3 DEF TypeInv, TypeOK, AddTaskReturns
  <2> QED BY <1>7, <2>1, <2>2, <2>3
<1>8. ASSUME NEW m \in Manager, NEW row \in Held(m), Deliver(m, row) PROVE TypeOK'
  <2>1. CASE Dispatch(m, row)
    <3>1. TasksOK'
      BY <2>1 DEF TypeInv, TypeOK, TasksOK, Dispatch
    <3> QED BY <2>1, TypeFrames, <3>1 DEF TypeInv, TypeOK, Dispatch
  <2>2. CASE DispatchExpired(m, row)
    <3>a. AckItem(ack[m], row.id) \in AckManagers /\ AckItem(ack[m], row.id).ackLevel \in Nat
      <4>1. row.id \in Nat /\ ack[m].ackLevel \in Nat /\ ack[m] \in AckManagers
        BY TypeElements, <2>2 DEF TypeInv, Rows, LevelsSet, DispatchExpired
      <4>2. AckItem(ack[m], row.id) \in AckManagers
        BY <4>1, AckItemFacts
      <4>3. AckItem(ack[m], row.id).ackLevel >= ack[m].ackLevel
        BY <4>1, AckItemFacts
      <4>4. AckItem(ack[m], row.id).ackLevel \in Levels
        BY <4>2 DEF AckManagers
      <4> QED BY SMTT(30), <4>1, <4>2, <4>3, <4>4 DEF Levels
    <3>1. TasksOK'
      BY <2>2, <3>a DEF TypeInv, TypeOK, TasksOK, DispatchExpired
    <3> QED BY <2>2, TypeFrames, <3>1 DEF TypeInv, TypeOK, DispatchExpired
  <2>3. CASE RecordStarted(m, row)
    <3>a. row.p \in Payload
      BY TypeElements DEF Rows
    <3>1. CallerOK'
      BY <2>3, <3>a DEF TypeInv, TypeOK, CallerOK, RecordStarted
    <3> QED BY SMTT(30), <2>3, TypeFrames, <3>1 DEF TypeInv, TypeOK, RecordStarted
  <2>4. CASE FinishOK(m, row)
    <3>a. AckItem(ack[m], row.id) \in AckManagers /\ AckItem(ack[m], row.id).ackLevel \in Nat
      <4>1. row.id \in Nat /\ ack[m].ackLevel \in Nat /\ ack[m] \in AckManagers
        BY TypeElements, <2>4 DEF TypeInv, Rows, LevelsSet, FinishOK
      <4>2. AckItem(ack[m], row.id) \in AckManagers
        BY <4>1, AckItemFacts
      <4>3. AckItem(ack[m], row.id).ackLevel >= ack[m].ackLevel
        BY <4>1, AckItemFacts
      <4>4. AckItem(ack[m], row.id).ackLevel \in Levels
        BY <4>2 DEF AckManagers
      <4> QED BY SMTT(30), <4>1, <4>2, <4>3, <4>4 DEF Levels
    <3>1. TasksOK'
      BY <2>4, <3>a DEF TypeInv, TypeOK, TasksOK, FinishOK, Complete
    <3>2. GCOK'
      BY <2>4, <3>a DEF TypeInv, TypeOK, GCOK, FinishOK, Complete
    <3> QED BY <2>4, TypeFrames, <3>1, <3>2 DEF TypeInv, TypeOK, FinishOK, Complete
  <2>5. CASE RewriteOK(m, row)
    <3>a. AckItem(ack[m], row.id) \in AckManagers /\ AckItem(ack[m], row.id).ackLevel \in Nat
      <4>1. row.id \in Nat /\ ack[m].ackLevel \in Nat /\ ack[m] \in AckManagers
        <5>1. Alive(m) /\ row \in Rows
          BY TypeElements, <2>5 DEF RewriteOK
        <5>2. row.id \in Nat
          BY <5>1 DEF Rows
        <5> QED BY TypeElements, <5>1, <5>2 DEF TypeInv, LevelsSet
      <4>2. AckItem(ack[m], row.id) \in AckManagers
        BY <4>1, AckItemFacts
      <4>3. AckItem(ack[m], row.id).ackLevel >= ack[m].ackLevel
        BY <4>1, AckItemFacts
      <4>4. AckItem(ack[m], row.id).ackLevel \in Levels
        BY <4>2 DEF AckManagers
      <4> QED BY SMTT(30), <4>1, <4>2, <4>3, <4>4 DEF Levels
    <3>p. PICK a :
            /\ replies' = [replies EXCEPT ![m] = @ \ {a}]
            /\ rewriting' = [rewriting EXCEPT ![m] = @ \ {row}]
            /\ Signal(m) /\ Complete(m, row)
            /\ UNCHANGED <<maxRead, appendCh, wpc, wpend, walloc, wres, wstopped, ppc,
                           cursor, pmax, iter, batch, pval, buffer, started, gcAck>>
      BY <2>5 DEF RewriteOK
    <3>t. TypeOK
      BY DEF TypeInv
    <3>1. TasksOK'
      BY <3>p, <3>t, <3>a DEF TypeOK, TasksOK, Complete
    <3>2. GCOK'
      BY <3>p, <3>t, <3>a DEF TypeOK, GCOK, Complete
    <3>3. WriterOK'
      BY <3>p, <3>t DEF TypeOK, WriterOK
    <3>4. PumpOK'
      BY <3>p, <3>t DEF TypeOK, PumpOK, Signal, SignalIf
    <3> QED BY <2>5, TypeFrames, <3>1, <3>2, <3>3, <3>4 DEF TypeInv, TypeOK, RewriteOK, Complete
  <2>6. CASE RewriteRetry(m, row)
    <3>a. Rewrite(row) \in Requests
      BY TypeElements DEF Rows, Rewrite, Requests
    <3>b. PICK a \in replies[m] :
            /\ replies' = [replies EXCEPT ![m] = @ \ {a}]
            /\ appendCh' = [appendCh EXCEPT ![m] = @ \cup {Rewrite(row)}]
            /\ UNCHANGED <<maxRead, wpc, wpend, walloc, wres, wstopped>>
      BY <2>6 DEF RewriteRetry
    <3>1. WriterOK'
      BY <3>a, <3>b DEF TypeInv, TypeOK, WriterOK
    <3> QED BY <2>6, TypeFrames, <3>1 DEF TypeInv, TypeOK, RewriteRetry
  <2> QED BY <1>8, <2>1, <2>2, <2>3, <2>4, <2>5, <2>6 DEF Deliver
<1>9. ASSUME NEW m \in Manager, NEW row \in Held(m), FinishErr(m, row) \/ RewriteGivesUp(m, row) PROVE TypeOK'
  <2>1. CASE FinishErr(m, row)
    <3>a. Rewrite(row) \in Requests
      BY TypeElements DEF Rows, Rewrite, Requests
    <3>1. WriterOK'
      BY <2>1, <3>a DEF TypeInv, TypeOK, WriterOK, FinishErr
    <3>2. TasksOK'
      BY <2>1 DEF TypeInv, TypeOK, TasksOK, FinishErr
    <3> QED BY <2>1, TypeFrames, <3>1, <3>2 DEF TypeInv, TypeOK, FinishErr
  <2>2. CASE RewriteGivesUp(m, row)
    <3>1. WriterOK'
      BY <2>2 DEF TypeInv, TypeOK, WriterOK, RewriteGivesUp
    <3>2. TasksOK'
      BY <2>2 DEF TypeInv, TypeOK, TasksOK, RewriteGivesUp
    <3>3. StopOK'
      BY <2>2 DEF TypeInv, TypeOK, StopOK, RewriteGivesUp
    <3> QED BY <2>2, TypeFrames, <3>1, <3>2, <3>3 DEF TypeInv, TypeOK, RewriteGivesUp
  <2> QED BY <1>9, <2>1, <2>2
<1>10. ASSUME NEW m \in Manager, NEW level \in gcReq[m], Collect(m, level) PROVE TypeOK'
  <2>1. CASE GCDelete(m, level)
    <3>a. CompleteTasksLessThan(store, level) \in Stores
      BY TypeElements, StoreTypes DEF TypeInv, TypeOK, GCOK
    <3>1. StoreOK'
      BY <2>1, <3>a DEF TypeInv, TypeOK, StoreOK, GCDelete
    <3>2. GCOK'
      BY <2>1 DEF TypeInv, TypeOK, GCOK, GCDelete
    <3> QED BY <2>1, TypeFrames, <3>1, <3>2 DEF TypeInv, TypeOK, GCDelete
  <2>2. CASE GCSkip(m, level)
    <3>1. GCOK'
      BY <2>2 DEF TypeInv, TypeOK, GCOK, GCSkip
    <3> QED BY <2>2, TypeFrames, <3>1 DEF TypeInv, TypeOK, GCSkip
  <2> QED BY <1>10, <2>1, <2>2 DEF Collect
<1>11. ASSUME NEW p \in Payload, AddTaskGivesUp(p) \/ Expire(p) PROVE TypeOK'
  <2>1. CASE AddTaskGivesUp(p)
    <3>1. CallerOK'
      BY <2>1 DEF TypeInv, TypeOK, CallerOK, AddTaskGivesUp
    <3>2. WriterOK'
      BY <2>1 DEF TypeInv, TypeOK, WriterOK, AddTaskGivesUp
    <3> QED BY <2>1, TypeFrames, <3>1, <3>2 DEF TypeInv, TypeOK, AddTaskGivesUp
  <2>2. CASE Expire(p)
    <3>1. CallerOK'
      BY <2>2 DEF TypeInv, TypeOK, CallerOK, Expire
    <3> QED BY <2>2, TypeFrames, <3>1 DEF TypeInv, TypeOK, Expire
  <2> QED BY <1>11, <2>1, <2>2
<1>12. ASSUME NEW row \in store.tasks, TimeToLive(row) PROVE TypeOK'
  <2>a. DropRow(store, row) \in Stores
    BY TypeElements, StoreTypes
  <2>1. StoreOK'
    BY <1>12, <2>a DEF TypeInv, TypeOK, StoreOK, TimeToLive
  <2> QED BY <1>12, TypeFrames, <2>1 DEF TypeInv, TypeOK, TimeToLive
<1>13. ASSUME NEW w \in late, LateWrite(w) PROVE TypeOK'
  <2>a. CreateTasks(store, w.rows) \in Stores
    BY TypeElements, StoreTypes DEF TypeInv, TypeOK, StoreOK
  <2>1. StoreOK'
    BY <1>13, <2>a DEF TypeInv, TypeOK, StoreOK, LateWrite
  <2> QED BY <1>13, TypeFrames, <2>1 DEF TypeInv, TypeOK, LateWrite
<1>14. CASE UNCHANGED vars
  BY <1>14, TypeFrames DEF TypeInv, TypeOK, vars
<1> QED BY <1>1, <1>2, <1>3, <1>4, <1>5, <1>6, <1>7, <1>8, <1>9, <1>10, <1>11, <1>12, <1>13, <1>14 DEF Next, Work, Disturbance, WatchForStop

\* The writer's batch has the shape of the place the writer is at.
LEMMA WriterShapeStep ==
  ASSUME TypeInv, [Next]_vars
  PROVE  \A n \in Manager : WriterShape(n)'
<1>1. ASSUME UNCHANGED <<wpc, wpend, walloc>>
      PROVE  \A n \in Manager : WriterShape(n)'
  BY <1>1 DEF TypeInv, WriterShape
<1>2. ASSUME NEW m \in Manager, WriterAlloc(m)
      PROVE  \A n \in Manager : WriterShape(n)'
  <2> SUFFICES ASSUME NEW n \in Manager PROVE WriterShape(n)'
    OBVIOUS
  <2>1. next[m] \in Nat /\ \A a \in walloc[n] : a.id \in Nat
    BY SMTT(30) DEF TypeInv, TypeOK, LeaseOK, WriterOK, Allocs
  <2>2. PICK b \in Nat : \A a \in walloc[n] : a.id <= b
    BY DEF TypeInv, WriterShape
  <2>w. /\ walloc \in [Manager -> SUBSET Allocs] /\ wpend \in [Manager -> SUBSET Requests]
        /\ wpc' = wpc /\ wpc[m] = "alloc"
    BY <1>2 DEF WriterAlloc, TypeInv, TypeOK, WriterOK
  <2>a. PICK req :
          /\ walloc' = [walloc EXCEPT ![m] =
                          @ \cup {[id |-> next[m], p |-> req.p, old |-> req.old]}]
          /\ wpend' = [wpend EXCEPT ![m] = @ \ {req}]
    BY <1>2 DEF WriterAlloc
  <2>3. \A a \in walloc[n]' : a.id <= b + next[m]
    <3> DEFINE new == [id |-> next[m], p |-> req.p, old |-> req.old]
    <3>1. walloc'[n] = walloc[n] \/ walloc'[n] = walloc[n] \cup {new}
      BY <2>w, <2>a
    <3>2. new.id = next[m]
      OBVIOUS
    <3>3. next[m] <= b + next[m] /\ b <= b + next[m] /\ b + next[m] \in Nat
      BY <2>1, Sums
    <3>4. \A a \in walloc[n] : a.id <= b + next[m]
      BY <2>1, <2>2, <3>3, Chain, Whole
    <3> HIDE DEF new
    <3> QED BY <3>1, <3>2, <3>3, <3>4
  <2>4. b + next[m] \in Nat
    BY SMTT(30), <2>1, <2>2
  <2>5. \E c \in Nat : \A a \in walloc[n]' : a.id <= c
    BY <2>3, <2>4
  <2>6. wpc' = wpc /\ (n # m => wpend'[n] = wpend[n] /\ walloc'[n] = walloc[n])
    BY <2>w, <2>a
  <2>7. wpc[m] = "alloc" /\ walloc'[m] # {}
    BY <2>w, <2>a
  <2> QED BY <2>5, <2>6, <2>7 DEF TypeInv, WriterShape
<1>3. ASSUME NEW m \in Manager,
             \/ WriterTake(m) \/ RenewRead(m) \/ RenewWrite(m) \/ RenewFails(m)
             \/ RenewLost(m)
      PROVE  \A n \in Manager : WriterShape(n)'
  <2>1. CASE WriterTake(m)
    <3>1. PICK reqs :
            /\ reqs # {} /\ wpc[m] = "idle" /\ walloc' = walloc
            /\ wpend' = [wpend EXCEPT ![m] = reqs] /\ wpc' = [wpc EXCEPT ![m] = "alloc"]
      BY <2>1 DEF WriterTake
    <3> QED BY <3>1 DEF TypeInv, TypeOK, WriterOK, WriterShape
  <2>2. CASE RenewRead(m) \/ RenewWrite(m)
    BY SMTT(30), <2>2 DEF RenewRead, RenewWrite, NeedsBlock, TypeInv, TypeOK, WriterOK, WriterShape
  <2>3. CASE RenewFails(m) \/ RenewLost(m)
    <3>1. /\ wpc' = [wpc EXCEPT ![m] = "idle"] /\ wpend' = [wpend EXCEPT ![m] = {}]
          /\ walloc' = [walloc EXCEPT ![m] = {}]
      BY <2>3 DEF RenewFails, RenewLost, GiveUpLease
    <3> QED BY <3>1 DEF TypeInv, TypeOK, WriterOK, WriterShape
  <2> QED BY <1>3, <2>1, <2>2, <2>3
<1>4. ASSUME NEW m \in Manager,
             \/ WriterCreates(m) \/ WriterRejected(m) \/ WriterErrs(m) \/ WriterPublish(m)
      PROVE  \A n \in Manager : WriterShape(n)'
  <2>1. CASE WriterCreates(m)
    BY <2>1 DEF WriterCreates, BatchReady, TypeInv, TypeOK, WriterOK, WriterShape
  <2>2. CASE WriterRejected(m)
    BY <2>2 DEF WriterRejected, BatchReady, TypeInv, TypeOK, WriterOK, WriterShape
  <2>3. CASE WriterErrs(m)
    BY <2>3 DEF WriterErrs, BatchReady, TypeInv, TypeOK, WriterOK, WriterShape
  <2>4. CASE WriterPublish(m)
    BY <2>4 DEF WriterPublish, TypeInv, TypeOK, WriterOK, WriterShape
  <2> QED BY <1>4, <2>1, <2>2, <2>3, <2>4
<1>5. ASSUME NEW m \in Manager,
             LeaseRead(m) \/ LeaseWrite(m) \/ LeaseLost(m) \/ LeaseFails(m)
             \/ PumpStart(m) \/ PumpRead(m) \/ PumpReadFails(m) \/ PumpEmpty(m)
             \/ PumpAdd(m) \/ PumpExit(m)
      PROVE  UNCHANGED <<wpc, wpend, walloc>>
  BY <1>5 DEF LeaseRead, LeaseWrite, LeaseLost, LeaseFails, PumpStart, PumpRead,
        PumpReadFails, PumpEmpty, PumpAdd, PumpExit, writerVars
<1>6. ASSUME NEW m \in Manager,
             PumpTimer(m) \/ PumpPersists(m) \/ PumpRejected(m) \/ PumpPersistErrs(m)
             \/ Stop(m) \/ StopPersist(m) \/ UpdatePartitionConfig(m)
      PROVE  UNCHANGED <<wpc, wpend, walloc>>
  BY <1>6 DEF PumpTimer, PumpPersists, PumpRejected, PumpPersistErrs, Stop,
        StopPersist, UpdatePartitionConfig, writerVars
<1>7. ASSUME NEW m \in Manager, NEW p \in Payload,
             SyncMatch(m, p) \/ AddTask(m, p) \/ AddTaskReturns(m, p)
      PROVE  UNCHANGED <<wpc, wpend, walloc>>
  BY <1>7 DEF SyncMatch, AddTask, AddTaskReturns, writerVars
<1>8. ASSUME NEW m \in Manager, NEW row \in Held(m),
             Dispatch(m, row) \/ DispatchExpired(m, row) \/ RecordStarted(m, row)
             \/ FinishOK(m, row) \/ FinishErr(m, row) \/ RewriteOK(m, row)
             \/ RewriteRetry(m, row) \/ RewriteGivesUp(m, row)
      PROVE  UNCHANGED <<wpc, wpend, walloc>>
  BY <1>8 DEF Dispatch, DispatchExpired, RecordStarted, FinishOK, FinishErr,
        RewriteOK, RewriteRetry, RewriteGivesUp, writerVars
<1>9. ASSUME NEW m \in Manager, NEW level \in gcReq[m],
             GCDelete(m, level) \/ GCSkip(m, level)
      PROVE  UNCHANGED <<wpc, wpend, walloc>>
  BY <1>9 DEF GCDelete, GCSkip, writerVars
<1>10. ASSUME NEW p \in Payload,
             AddTaskGivesUp(p) \/ Expire(p)
      PROVE  UNCHANGED <<wpc, wpend, walloc>>
  BY <1>10 DEF AddTaskGivesUp, Expire, writerVars
<1>11. ASSUME NEW row \in store.tasks,
             TimeToLive(row)
      PROVE  UNCHANGED <<wpc, wpend, walloc>>
  BY <1>11 DEF TimeToLive, writerVars
<1>12. ASSUME NEW w \in late,
             LateWrite(w)
      PROVE  UNCHANGED <<wpc, wpend, walloc>>
  BY <1>12 DEF LateWrite, writerVars
<1>13. CASE UNCHANGED vars
  BY <1>1, <1>13 DEF vars, writerVars
<1> QED BY <1>1, <1>2, <1>3, <1>4, <1>5, <1>6, <1>7, <1>8, <1>9, <1>10, <1>11,
          <1>12, <1>13
        DEF Next, Work, Disturbance, Load, Writer, Pump, Deliver, Collect,
            WatchForStop

\* An empty read leaves the ack level or moves it with the read level.
LEMMA AfterEmptyReadLevels ==
  ASSUME NEW am \in AckManagers, NEW level \in Nat
  PROVE  LET new == AfterEmptyRead(am, level) IN
         /\ new \in AckManagers
         /\ new.readLevel = level
         /\ new.unacked = am.unacked /\ new.acked = am.acked
         /\ \/ new.ackLevel = am.ackLevel
            \/ new.ackLevel = level /\ am.ackLevel = am.readLevel
<1> DEFINE moved == SetReadLevel(am, level)
<1>1. /\ moved \in AckManagers
      /\ moved.readLevel = level /\ moved.ackLevel = am.ackLevel
      /\ moved.unacked = am.unacked /\ moved.acked = am.acked
  BY SetReadLevelFacts
<1> HIDE DEF moved
<1>2. /\ SetAckLevel(moved, level) \in AckManagers
      /\ SetAckLevel(moved, level).ackLevel =
           IF level > moved.ackLevel THEN level ELSE moved.ackLevel
      /\ SetAckLevel(moved, level).readLevel =
           IF level > moved.readLevel THEN level ELSE moved.readLevel
      /\ SetAckLevel(moved, level).unacked = moved.unacked
      /\ SetAckLevel(moved, level).acked = moved.acked
  BY <1>1, SetAckLevelFacts
<1>3. AfterEmptyRead(am, level) = IF am.ackLevel = am.readLevel
                                  THEN SetAckLevel(moved, level) ELSE moved
  BY DEF AfterEmptyRead, moved
<1> QED BY <1>1, <1>2, <1>3

\* A loaded manager has levels that were read from the store.
LEMMA LevelsSetStep ==
  ASSUME TypeInv, [Next]_vars
  PROVE  \A n \in Manager : LevelsSet(n)'
<1>0. \A m \in Manager : /\ ack[m] \in AckManagers /\ cursor[m] \in Nat
                         /\ seen[m].ackLevel \in Nat
                         /\ ack[m].ackLevel \in Levels /\ ack[m].readLevel \in Levels
  BY DEF TypeInv, TypeOK, TasksOK, PumpOK, LeaseOK, AckManagers
<1>1. ASSUME UNCHANGED <<st, ack>>
      PROVE  \A n \in Manager : LevelsSet(n)'
  BY <1>1 DEF TypeInv, LevelsSet, Alive
<1>2. ASSUME NEW m \in Manager,
             \/ LeaseRead(m) \/ LeaseLost(m) \/ LeaseFails(m) \/ Stop(m) \/ StopPersist(m)
      PROVE  \A n \in Manager : LevelsSet(n)'
  BY <1>2 DEF LeaseRead, LeaseLost, LeaseFails, Stop, StopPersist, taskVars,
              TypeInv, TypeOK, LeaseOK, LevelsSet, Alive
<1>3. ASSUME NEW m \in Manager, NEW am,
             am.ackLevel \in Nat, am.readLevel \in Nat, ack' = [ack EXCEPT ![m] = am],
             \A n \in Manager : n # m => st'[n] = st[n]
      PROVE  \A n \in Manager : LevelsSet(n)'
  BY <1>3 DEF TypeInv, TypeOK, TasksOK, LevelsSet, Alive
<1>4. ASSUME NEW m \in Manager, LeaseWrite(m)
      PROVE  \A n \in Manager : LevelsSet(n)'
  <2>1. /\ SetAckLevel(ack[m], seen[m].ackLevel).ackLevel \in Nat
        /\ SetAckLevel(ack[m], seen[m].ackLevel).readLevel \in Nat
    <3> DEFINE new == SetAckLevel(ack[m], seen[m].ackLevel)
               level == seen[m].ackLevel
    <3>1. /\ new.ackLevel = IF level > ack[m].ackLevel THEN level ELSE ack[m].ackLevel
          /\ new.readLevel = IF level > ack[m].readLevel THEN level ELSE ack[m].readLevel
      BY <1>0, SetAckLevelFacts
    <3> HIDE DEF new, level
    <3>2. /\ level \in Nat /\ ack[m].ackLevel \in Int /\ ack[m].ackLevel >= -1
          /\ ack[m].readLevel \in Int /\ ack[m].readLevel >= -1
      BY SMTT(30), <1>0 DEF Levels, level
    <3>3. new.ackLevel \in Nat /\ new.readLevel \in Nat
      BY SMTT(30), <3>1, <3>2
    <3> QED BY <3>3 DEF new
  <2> QED BY <1>3, <1>4, <2>1 DEF LeaseWrite, TypeInv, TypeOK, LeaseOK
<1>5. ASSUME NEW m \in Manager, PumpEmpty(m)
      PROVE  \A n \in Manager : LevelsSet(n)'
  <2>1. /\ AfterEmptyRead(ack[m], cursor[m]).ackLevel \in Nat
        /\ AfterEmptyRead(ack[m], cursor[m]).readLevel \in Nat
    <3> DEFINE new == AfterEmptyRead(ack[m], cursor[m])
    <3>1. ack[m].ackLevel \in Nat /\ ack[m] \in AckManagers /\ cursor[m] \in Nat
      BY <1>0, <1>5 DEF PumpEmpty, TypeInv, LevelsSet
    <3>2. new.readLevel = cursor[m] /\ new.ackLevel \in {ack[m].ackLevel, cursor[m]}
      BY <3>1, AfterEmptyReadLevels
    <3> HIDE DEF new
    <3> QED BY <3>1, <3>2 DEF new
  <2> QED BY <1>3, <1>5, <2>1 DEF PumpEmpty, leaseVars
<1>6. ASSUME NEW m \in Manager, PumpAdd(m)
      PROVE  \A n \in Manager : LevelsSet(n)'
  <2>1. PICK t \in batch[m] : ack' \in {[ack EXCEPT ![m] = SetReadLevel(ack[m], t.id)],
                                        [ack EXCEPT ![m] = ReadItem(ack[m], t.id)]}
    BY <1>6 DEF PumpAdd
  <2>2. t.id \in Nat /\ ack[m].ackLevel \in Nat /\ ack[m].readLevel \in Nat /\ UNCHANGED st
    BY SMTT(30), <1>6 DEF PumpAdd, leaseVars, TypeInv, TypeOK, PumpOK, Rows, LevelsSet
  <2>3. /\ SetReadLevel(ack[m], t.id).ackLevel \in Nat
        /\ SetReadLevel(ack[m], t.id).readLevel \in Nat
    BY <1>0, <2>2, SetReadLevelFacts
  <2>4. /\ ReadItem(ack[m], t.id).ackLevel \in Nat
        /\ ReadItem(ack[m], t.id).readLevel \in Nat
    <3> DEFINE new == ReadItem(ack[m], t.id)
    <3>1. new.ackLevel = ack[m].ackLevel /\ new.readLevel \in {t.id, ack[m].readLevel}
      <4>1. ack[m].ackLevel # -1
        BY SMTT(30), <2>2
      <4> QED BY <1>0, <2>2, <4>1, ReadItemFacts
    <3> HIDE DEF new
    <3> QED BY <2>2, <3>1 DEF new
  <2> QED BY <1>3, <2>1, <2>2, <2>3, <2>4
<1>7. ASSUME NEW m \in Manager, NEW row \in Held(m),
             \/ DispatchExpired(m, row) \/ FinishOK(m, row) \/ RewriteOK(m, row)
      PROVE  \A n \in Manager : LevelsSet(n)'
  <2>0. Alive(m)
    BY <1>7 DEF DispatchExpired, FinishOK, RewriteOK
  <2>1. row.id \in Nat /\ ack[m].ackLevel \in Nat /\ ack[m].readLevel \in Nat
    BY SMTT(30), <2>0 DEF Held, TypeInv, TypeOK, TasksOK, Rows, LevelsSet
  <2>2. AckItem(ack[m], row.id).ackLevel \in Nat
    <3>1. /\ AckItem(ack[m], row.id) \in AckManagers
          /\ AckItem(ack[m], row.id).ackLevel >= ack[m].ackLevel
      BY <1>0, <2>1, AckItemFacts
    <3>2. AckItem(ack[m], row.id).ackLevel \in Levels
      BY <3>1 DEF AckManagers
    <3> QED BY SMTT(30), <2>1, <3>1, <3>2 DEF Levels
  <2>3. AckItem(ack[m], row.id).readLevel \in Nat
    BY <1>0, <2>1, AckItemFacts
  <2>4. ack' = [ack EXCEPT ![m] = AckItem(ack[m], row.id)] /\ UNCHANGED st
    BY <1>7 DEF DispatchExpired, FinishOK, RewriteOK, Complete, leaseVars
  <2> QED BY <1>3, <2>2, <2>3, <2>4
<1>8. ASSUME NEW m \in Manager,
             WriterTake(m) \/ WriterAlloc(m) \/ RenewRead(m) \/ RenewWrite(m)
             \/ RenewFails(m) \/ RenewLost(m) \/ WriterCreates(m) \/ WriterRejected(m)
             \/ WriterErrs(m) \/ WriterPublish(m)
      PROVE  UNCHANGED <<st, ack>>
  BY <1>8 DEF WriterTake, WriterAlloc, RenewRead, RenewWrite, RenewFails,
        RenewLost, WriterCreates, WriterRejected, WriterErrs, WriterPublish, leaseVars,
        taskVars, GiveUpLease
<1>9. ASSUME NEW m \in Manager,
             PumpStart(m) \/ PumpRead(m) \/ PumpReadFails(m) \/ PumpExit(m)
             \/ PumpTimer(m) \/ PumpPersists(m) \/ PumpRejected(m)
             \/ PumpPersistErrs(m) \/ UpdatePartitionConfig(m)
      PROVE  UNCHANGED <<st, ack>>
  BY <1>9 DEF PumpStart, PumpRead, PumpReadFails, PumpExit, PumpTimer,
        PumpPersists, PumpRejected, PumpPersistErrs, UpdatePartitionConfig, leaseVars,
        taskVars
<1>10. ASSUME NEW m \in Manager, NEW p \in Payload,
             SyncMatch(m, p) \/ AddTask(m, p) \/ AddTaskReturns(m, p)
      PROVE  UNCHANGED <<st, ack>>
  BY <1>10 DEF SyncMatch, AddTask, AddTaskReturns, leaseVars, taskVars
<1>11. ASSUME NEW m \in Manager, NEW row \in Held(m),
             Dispatch(m, row) \/ RecordStarted(m, row) \/ FinishErr(m, row)
             \/ RewriteRetry(m, row) \/ RewriteGivesUp(m, row)
      PROVE  UNCHANGED <<st, ack>>
  BY <1>11 DEF Dispatch, RecordStarted, FinishErr, RewriteRetry, RewriteGivesUp,
        leaseVars, taskVars
<1>12. ASSUME NEW m \in Manager, NEW level \in gcReq[m],
             GCDelete(m, level) \/ GCSkip(m, level)
      PROVE  UNCHANGED <<st, ack>>
  BY <1>12 DEF GCDelete, GCSkip, leaseVars, taskVars
<1>13. ASSUME NEW p \in Payload,
             AddTaskGivesUp(p) \/ Expire(p)
      PROVE  UNCHANGED <<st, ack>>
  BY <1>13 DEF AddTaskGivesUp, Expire, leaseVars, taskVars
<1>14. ASSUME NEW row \in store.tasks,
             TimeToLive(row)
      PROVE  UNCHANGED <<st, ack>>
  BY <1>14 DEF TimeToLive, leaseVars, taskVars
<1>15. ASSUME NEW w \in late,
             LateWrite(w)
      PROVE  UNCHANGED <<st, ack>>
  BY <1>15 DEF LateWrite, leaseVars, taskVars
<1>16. CASE UNCHANGED vars
  BY <1>1, <1>16 DEF vars, leaseVars, taskVars
<1> QED BY <1>1, <1>2, <1>4, <1>5, <1>6, <1>7, <1>8, <1>9, <1>10, <1>11, <1>12,
          <1>13, <1>14, <1>15, <1>16
        DEF Next, Work, Disturbance, Load, Writer, Pump, Deliver, Collect,
            WatchForStop

\* The initial state.
LEMMA TypeInvInit == Init => TypeInv
<1> SUFFICES ASSUME Init PROVE TypeInv
  OBVIOUS
<1>1. StoreOK /\ CallerOK /\ StopOK /\ GCOK
  BY DEF Init, StoreOK, CallerOK, StopOK, GCOK, EmptyStore, Stores
<1>2. LeaseOK
  BY DEF Init, LeaseOK, NothingSeen, ManagerStates
<1>3. WriterOK
  BY DEF Init, WriterOK, Outcomes
<1>4. PumpOK
  BY DEF Init, PumpOK
<1>5. TasksOK
  <2>1. NewAckManager \in AckManagers
    BY SMTT(30) DEF NewAckManager, AckManagers, Levels
  <2> QED BY <2>1 DEF Init, TasksOK
<1>6. ASSUME NEW m \in Manager PROVE WriterShape(m) /\ LevelsSet(m)
  BY DEF Init, WriterShape, LevelsSet, Alive
<1> QED BY <1>1, <1>2, <1>3, <1>4, <1>5, <1>6 DEF TypeInv, TypeOK

\* Every step keeps layer 1.
LEMMA TypeInvStep == TypeInv /\ [Next]_vars => TypeInv'
BY TypeOKStep, WriterShapeStep, LevelsSetStep DEF TypeInv

\* Layer 1 is invariant.
THEOREM TypeInvariant == Spec => []TypeInv
BY TypeInvInit, TypeInvStep, PTL DEF Spec

\* Types: whatever the managers, callers, pollers and the store do, every
\* variable keeps its type; in particular no level that is persisted or used
\* for a delete is ever the ack manager's initial -1.
THEOREM TypeCorrect == Spec => []TypeOK
<1>1. TypeInv => TypeOK
  BY DEF TypeInv
<1> QED BY <1>1, TypeInvariant, PTL

----------------------------------------------------------------------------
(* Task IDs and the order in which rows are read: layers 2 to 4.           *)

\* The block before the first lease is empty.
LEMMA NoBlock == BlockEnd(0) = 0
BY SMTT(30), TaskListAssumption DEF BlockEnd

\* The blocks of increasing range IDs follow one another.
LEMMA Blocks ==
  ASSUME NEW r \in Nat, NEW s \in Nat
  PROVE  /\ BlockEnd(r) \in Nat
         /\ BlockStart(r + 1) = BlockEnd(r) + 1
         /\ BlockEnd(r) <= BlockEnd(r + 1)
         /\ r <= s => BlockEnd(r) <= BlockEnd(s)
         /\ r < s => BlockEnd(r) < BlockStart(s)
<1>1. RangeSize \in Nat /\ RangeSize > 0
  BY SMTT(30), TaskListAssumption
<1>2. r * RangeSize \in Nat /\ s * RangeSize \in Nat /\ (r + 1) * RangeSize = r * RangeSize + RangeSize
  BY SMTT(30), <1>1
<1>3. r <= s => r * RangeSize <= s * RangeSize
  BY SMTT(30), <1>1
<1>4. r < s => r * RangeSize <= (s - 1) * RangeSize
  BY SMTT(30), <1>1
<1>5. (r + 1) - 1 = r /\ (s - 1) * RangeSize \in Int
  BY SMTT(30), <1>1
<1> QED BY SMTT(30), <1>1, <1>2, <1>3, <1>4, <1>5 DEF BlockStart, BlockEnd

\* The actions that write to the store.
LEMMA StoreChanges ==
  ASSUME [Next]_vars
  PROVE  \/ UNCHANGED <<store>>
         \/ \E m \in Manager : LeaseWrite(m) \/ LeaseLost(m) \/ RenewWrite(m)
                 \/ RenewLost(m) \/ WriterCreates(m) \/ PumpPersists(m)
                 \/ StopPersist(m) \/ UpdatePartitionConfig(m)
         \/ \E m \in Manager : \E level \in gcReq[m] : GCDelete(m, level)
         \/ \E row \in store.tasks : TimeToLive(row)
         \/ \E w \in late : LateWrite(w)
<1>1. ASSUME NEW m \in Manager,
             LeaseRead(m) \/ LeaseFails(m) \/ WriterTake(m) \/ WriterAlloc(m)
             \/ RenewRead(m) \/ RenewFails(m) \/ WriterRejected(m) \/ WriterErrs(m)
             \/ WriterPublish(m) \/ PumpStart(m)
      PROVE  UNCHANGED <<store>>
  BY <1>1 DEF LeaseRead, LeaseFails, WriterTake, WriterAlloc, RenewRead,
        RenewFails, WriterRejected, WriterErrs, WriterPublish, PumpStart, storeVars,
        GiveUpLease
<1>2. ASSUME NEW m \in Manager,
             PumpRead(m) \/ PumpReadFails(m) \/ PumpEmpty(m) \/ PumpAdd(m)
             \/ PumpExit(m) \/ PumpTimer(m) \/ PumpRejected(m) \/ PumpPersistErrs(m)
             \/ Stop(m)
      PROVE  UNCHANGED <<store>>
  BY <1>2 DEF PumpRead, PumpReadFails, PumpEmpty, PumpAdd, PumpExit, PumpTimer,
        PumpRejected, PumpPersistErrs, Stop, storeVars
<1>3. ASSUME NEW m \in Manager, NEW p \in Payload,
             SyncMatch(m, p) \/ AddTask(m, p) \/ AddTaskReturns(m, p)
      PROVE  UNCHANGED <<store>>
  BY <1>3 DEF SyncMatch, AddTask, AddTaskReturns, storeVars
<1>4. ASSUME NEW m \in Manager, NEW row \in Held(m),
             Dispatch(m, row) \/ DispatchExpired(m, row) \/ RecordStarted(m, row)
             \/ FinishOK(m, row) \/ FinishErr(m, row) \/ RewriteOK(m, row)
             \/ RewriteRetry(m, row) \/ RewriteGivesUp(m, row)
      PROVE  UNCHANGED <<store>>
  BY <1>4 DEF Dispatch, DispatchExpired, RecordStarted, FinishOK, FinishErr,
        RewriteOK, RewriteRetry, RewriteGivesUp, storeVars
<1>5. ASSUME NEW m \in Manager, NEW level \in gcReq[m],
             GCSkip(m, level)
      PROVE  UNCHANGED <<store>>
  BY <1>5 DEF GCSkip, storeVars
<1>6. ASSUME NEW p \in Payload,
             AddTaskGivesUp(p) \/ Expire(p)
      PROVE  UNCHANGED <<store>>
  BY <1>6 DEF AddTaskGivesUp, Expire, storeVars
<1>7. CASE UNCHANGED vars
  BY <1>7 DEF vars, storeVars
<1> QED BY <1>1, <1>2, <1>3, <1>4, <1>5, <1>6, <1>7
        DEF Next, Work, Disturbance, Load, Writer, Pump, Deliver, Collect, WatchForStop

\* The range ID in the store never decreases.
LEMMA RangeStep ==
  ASSUME TypeInv, [Next]_vars
  PROVE  store'.rangeID \in Nat /\ store.rangeID <= store'.rangeID
<1>a. store \in Stores /\ \A m \in Manager : seen[m] \in [rangeID : Nat, ackLevel : Nat]
  BY TypeElements
<1>1. ASSUME NEW m \in Manager, LeaseWrite(m) \/ LeaseLost(m) \/ RenewWrite(m) \/ RenewLost(m)
      PROVE  store'.rangeID \in Nat /\ store.rangeID <= store'.rangeID
  <2>1. store' = LeaseTaskList(store, seen[m]) /\ LeaseApplies(store, seen[m])
    BY <1>1 DEF LeaseWrite, LeaseLost, RenewWrite, RenewLost
  <2> QED BY SMTT(30), <1>a, <2>1 DEF LeaseTaskList, LeaseApplies, Stores
<1>2. ASSUME NEW m \in Manager, WriterCreates(m)
      PROVE  store'.rangeID \in Nat /\ store.rangeID <= store'.rangeID
  BY SMTT(30), <1>a, <1>2 DEF WriterCreates, CreateTasks, Stores
<1>3. ASSUME NEW w \in late, LateWrite(w)
      PROVE  store'.rangeID \in Nat /\ store.rangeID <= store'.rangeID
  BY SMTT(30), <1>a, <1>3 DEF LateWrite, CreateTasks, Stores
<1>4. ASSUME NEW m \in Manager, PumpPersists(m) \/ StopPersist(m) \/ UpdatePartitionConfig(m)
      PROVE  store'.rangeID \in Nat /\ store.rangeID <= store'.rangeID
  <2>1. store' = store \/ \E level : store' = UpdateTaskList(store, level)
    BY <1>4 DEF PumpPersists, StopPersist, UpdatePartitionConfig
  <2> QED BY SMTT(30), <1>a, <2>1 DEF UpdateTaskList, Stores
<1>5. ASSUME NEW m \in Manager, NEW level \in gcReq[m], GCDelete(m, level)
      PROVE  store'.rangeID \in Nat /\ store.rangeID <= store'.rangeID
  BY SMTT(30), <1>a, <1>5 DEF GCDelete, CompleteTasksLessThan, Stores
<1>6. ASSUME NEW row \in store.tasks, TimeToLive(row)
      PROVE  store'.rangeID \in Nat /\ store.rangeID <= store'.rangeID
  BY SMTT(30), <1>a, <1>6 DEF TimeToLive, DropRow, Stores
<1>7. CASE UNCHANGED <<store>>
  BY SMTT(30), <1>a, <1>7 DEF Stores
<1> QED BY StoreChanges, <1>1, <1>2, <1>3, <1>4, <1>5, <1>6, <1>7
-----------------------------------------------------------------------------
\* The actions that change a manager's life cycle, its lease or its block.
LEMMA LeaseChanges ==
  ASSUME [Next]_vars
  PROVE  \/ UNCHANGED <<st, lease, next, last>>
         \/ \E m \in Manager : LeaseRead(m) \/ LeaseWrite(m) \/ LeaseLost(m)
                 \/ LeaseFails(m) \/ WriterAlloc(m) \/ RenewWrite(m) \/ Stop(m)
                 \/ StopPersist(m)
<1>1. ASSUME NEW m \in Manager,
             WriterTake(m) \/ RenewRead(m) \/ RenewFails(m) \/ RenewLost(m)
             \/ WriterCreates(m) \/ WriterRejected(m) \/ WriterErrs(m)
             \/ WriterPublish(m) \/ PumpStart(m) \/ PumpRead(m)
      PROVE  UNCHANGED <<st, lease, next, last>>
  BY <1>1 DEF WriterTake, RenewRead, RenewFails, RenewLost, WriterCreates,
        WriterRejected, WriterErrs, WriterPublish, PumpStart, PumpRead, leaseVars,
        GiveUpLease
<1>2. ASSUME NEW m \in Manager,
             PumpReadFails(m) \/ PumpEmpty(m) \/ PumpAdd(m) \/ PumpExit(m)
             \/ PumpTimer(m) \/ PumpPersists(m) \/ PumpRejected(m)
             \/ PumpPersistErrs(m) \/ UpdatePartitionConfig(m)
      PROVE  UNCHANGED <<st, lease, next, last>>
  BY <1>2 DEF PumpReadFails, PumpEmpty, PumpAdd, PumpExit, PumpTimer,
        PumpPersists, PumpRejected, PumpPersistErrs, UpdatePartitionConfig, leaseVars
<1>3. ASSUME NEW m \in Manager, NEW p \in Payload,
             SyncMatch(m, p) \/ AddTask(m, p) \/ AddTaskReturns(m, p)
      PROVE  UNCHANGED <<st, lease, next, last>>
  BY <1>3 DEF SyncMatch, AddTask, AddTaskReturns, leaseVars
<1>4. ASSUME NEW m \in Manager, NEW row \in Held(m),
             Dispatch(m, row) \/ DispatchExpired(m, row) \/ RecordStarted(m, row)
             \/ FinishOK(m, row) \/ FinishErr(m, row) \/ RewriteOK(m, row)
             \/ RewriteRetry(m, row) \/ RewriteGivesUp(m, row)
      PROVE  UNCHANGED <<st, lease, next, last>>
  BY <1>4 DEF Dispatch, DispatchExpired, RecordStarted, FinishOK, FinishErr,
        RewriteOK, RewriteRetry, RewriteGivesUp, leaseVars
<1>5. ASSUME NEW m \in Manager, NEW level \in gcReq[m],
             GCDelete(m, level) \/ GCSkip(m, level)
      PROVE  UNCHANGED <<st, lease, next, last>>
  BY <1>5 DEF GCDelete, GCSkip, leaseVars
<1>6. ASSUME NEW p \in Payload,
             AddTaskGivesUp(p) \/ Expire(p)
      PROVE  UNCHANGED <<st, lease, next, last>>
  BY <1>6 DEF AddTaskGivesUp, Expire, leaseVars
<1>7. ASSUME NEW row \in store.tasks,
             TimeToLive(row)
      PROVE  UNCHANGED <<st, lease, next, last>>
  BY <1>7 DEF TimeToLive, leaseVars
<1>8. ASSUME NEW w \in late,
             LateWrite(w)
      PROVE  UNCHANGED <<st, lease, next, last>>
  BY <1>8 DEF LateWrite, leaseVars
<1>9. CASE UNCHANGED vars
  BY <1>9 DEF vars, leaseVars
<1> QED BY <1>1, <1>2, <1>3, <1>4, <1>5, <1>6, <1>7, <1>8, <1>9
        DEF Next, Work, Disturbance, Load, Writer, Pump, Deliver, Collect, WatchForStop

\* What the actions do to lease and block.  A new lease is the range ID that was
\* just written to the store.
NewLease(m) ==
  /\ store'.rangeID = store.rangeID + 1
  /\ lease' = [lease EXCEPT ![m] = store.rangeID + 1]
  /\ next' = [next EXCEPT ![m] = BlockStart(store.rangeID + 1)]
  /\ last' = [last EXCEPT ![m] = BlockEnd(store.rangeID + 1)]
  /\ \A n \in Manager \ {m} : Alive(n)' => Alive(n)

\* Leases and blocks stay as they are, or an ID is taken from a block, or a manager
\* gets a new lease with its block.
LEMMA LeaseEffects ==
  ASSUME TypeInv, [Next]_vars
  PROVE  \/ UNCHANGED <<lease, next, last>> /\ \A n \in Manager : Alive(n)' => Alive(n)
         \/ \E m \in Manager : WriterAlloc(m)
         \/ \E m \in Manager : NewLease(m)
<1> DEFINE Same == UNCHANGED <<lease, next, last>> /\ \A n \in Manager : Alive(n)' => Alive(n)
<1>1. CASE UNCHANGED <<st, lease, next, last>>
  BY <1>1 DEF Alive
<1>2. ASSUME NEW m \in Manager,
             LeaseRead(m) \/ LeaseLost(m) \/ LeaseFails(m) \/ Stop(m) \/ StopPersist(m)
      PROVE  Same
  <2>1. /\ UNCHANGED <<lease, next, last>>
        /\ \/ st' = [st EXCEPT ![m] = "leasing"] \/ st' = [st EXCEPT ![m] = "new"]
           \/ st' = [st EXCEPT ![m] = "failed"]
           \/ Alive(m) /\ \E s : st' = [st EXCEPT ![m] = s]
    BY <1>2 DEF LeaseRead, LeaseLost, LeaseFails, Stop, StopPersist, Alive
  <2>2. st \in [Manager -> ManagerStates]
    BY DEF TypeInv, TypeOK, LeaseOK
  <2> QED BY <2>1, <2>2 DEF Alive
<1>3. ASSUME NEW m \in Manager, LeaseWrite(m) PROVE NewLease(m)
  <2>1. /\ store' = LeaseTaskList(store, seen[m]) /\ LeaseApplies(store, seen[m])
        /\ lease' = [lease EXCEPT ![m] = seen[m].rangeID + 1]
        /\ next' = [next EXCEPT ![m] = BlockStart(seen[m].rangeID + 1)]
        /\ last' = [last EXCEPT ![m] = BlockEnd(seen[m].rangeID + 1)]
        /\ st' = [st EXCEPT ![m] = "running"]
    BY <1>3 DEF LeaseWrite
  <2>2. store'.rangeID = seen[m].rangeID + 1 /\ store.rangeID = seen[m].rangeID
    BY <2>1, TypeElements DEF LeaseTaskList, LeaseApplies, Stores
  <2>3. \A n \in Manager \ {m} : Alive(n)' => Alive(n)
    BY <2>1 DEF TypeInv, TypeOK, LeaseOK, Alive
  <2> QED BY <2>1, <2>2, <2>3 DEF NewLease
<1>4. ASSUME NEW m \in Manager, RenewWrite(m) PROVE NewLease(m)
  <2>1. /\ store' = LeaseTaskList(store, seen[m]) /\ LeaseApplies(store, seen[m])
        /\ lease' = [lease EXCEPT ![m] = seen[m].rangeID + 1]
        /\ next' = [next EXCEPT ![m] = BlockStart(seen[m].rangeID + 1)]
        /\ last' = [last EXCEPT ![m] = BlockEnd(seen[m].rangeID + 1)]
        /\ st' = st
    BY <1>4 DEF RenewWrite
  <2>2. store'.rangeID = seen[m].rangeID + 1 /\ store.rangeID = seen[m].rangeID
    BY <2>1, TypeElements DEF LeaseTaskList, LeaseApplies, Stores
  <2>3. \A n \in Manager \ {m} : Alive(n)' => Alive(n)
    BY <2>1 DEF Alive
  <2> QED BY <2>1, <2>2, <2>3 DEF NewLease
<1> QED BY LeaseChanges, <1>1, <1>2, <1>3, <1>4

\* Giving out a task ID.
LEMMA AllocEffects ==
  ASSUME TypeInv, NEW m \in Manager, WriterAlloc(m)
  PROVE  /\ UNCHANGED <<store, lease, last, st>>
         /\ next' = [next EXCEPT ![m] = next[m] + 1]
         /\ Alive(m) /\ next[m] <= last[m]
         /\ \A n \in Manager : Alive(n)' => Alive(n)
BY DEF WriterAlloc, storeVars, Alive

\* Layer 2 is inductive.
LEMMA LeaseStep ==
  ASSUME TypeInv, LeaseInv, [Next]_vars
  PROVE  LeaseInv'
<1>a. /\ lease \in [Manager -> Nat] /\ next \in [Manager -> Nat] /\ last \in [Manager -> Nat]
      /\ store.rangeID \in Nat
  BY TypeElements DEF TypeInv, TypeOK, LeaseOK, Stores
<1>b. store'.rangeID \in Nat /\ store.rangeID <= store'.rangeID
  BY RangeStep
<1>1. CASE UNCHANGED <<lease, next, last>> /\ \A n \in Manager : Alive(n)' => Alive(n)
  BY SMTT(30), <1>1, <1>a, <1>b DEF LeaseInv, LeaseOf
<1>2. ASSUME NEW m \in Manager, WriterAlloc(m) PROVE LeaseInv'
  <2> HIDE DEF BlockStart, BlockEnd
  <2>1. /\ UNCHANGED <<store, lease, last>>
        /\ next' = [next EXCEPT ![m] = next[m] + 1] /\ next[m] <= last[m]
        /\ \A n \in Manager : Alive(n)' => Alive(n)
    BY AllocEffects, <1>2
  <2>2. \A n \in Manager : Alive(n) => BlockStart(lease[n]) \in Int
    BY SMTT(30), <1>a, TaskListAssumption DEF BlockStart
  <2>3. ASSUME NEW n \in Manager, Alive(n)' PROVE LeaseOf(n)'
    BY SMTT(30), <2>1, <2>2, <2>3, <1>a DEF LeaseInv, LeaseOf
  <2>4. \A n, k \in Manager : (Alive(n) /\ Alive(k))' /\ lease'[n] = lease'[k] => n = k
    BY <2>1 DEF LeaseInv
  <2> QED BY <2>3, <2>4 DEF LeaseInv
<1>3. ASSUME NEW m \in Manager, NewLease(m) PROVE LeaseInv'
  <2>1. \A n \in Manager \ {m} : lease'[n] = lease[n] /\ next'[n] = next[n] /\ last'[n] = last[n]
    BY <1>3, <1>a DEF NewLease
  <2>2. /\ lease'[m] = store'.rangeID /\ 1 <= lease'[m]
        /\ next'[m] = BlockStart(lease'[m]) /\ last'[m] = BlockEnd(lease'[m])
    BY SMTT(30), <1>3, <1>a DEF NewLease
  <2>3. ASSUME NEW n \in Manager, n # m, Alive(n)'
        PROVE  LeaseOf(n)' /\ lease'[n] < lease'[m]
    <3>1. LeaseOf(n)
      BY <1>3, <2>3 DEF LeaseInv, NewLease
    <3>2. store'.rangeID = store.rangeID + 1
      BY <1>3 DEF NewLease
    <3> QED BY SMTT(30), <3>1, <3>2, <2>1, <2>2, <2>3, <1>a, <1>b DEF LeaseOf
  <2>4. LeaseOf(m)'
    <3>1. lease'[m] = store.rangeID + 1
      BY <1>3, <1>a DEF NewLease
    <3>2. BlockStart(lease'[m]) <= BlockEnd(lease'[m]) + 1
      <4>1. /\ BlockStart(store.rangeID + 1) = BlockEnd(store.rangeID) + 1
            /\ BlockEnd(store.rangeID) <= BlockEnd(store.rangeID + 1)
            /\ BlockEnd(store.rangeID) \in Nat
        BY <1>a, Blocks
      <4>2. BlockEnd(store.rangeID + 1) \in Nat
        BY <1>a, BlockTypes
      <4> HIDE DEF BlockStart, BlockEnd
      <4> QED BY SMTT(30), <3>1, <4>1, <4>2
    <3>3. BlockStart(lease'[m]) \in Int /\ BlockEnd(lease'[m]) \in Int
      BY SMTT(30), <3>1, <1>a, BlockTypes
    <3> QED BY SMTT(30), <2>2, <3>2, <3>3, <1>b DEF LeaseOf
  <2>5. \A n \in Manager : Alive(n)' => LeaseOf(n)'
    BY <2>3, <2>4
  <2>6. ASSUME NEW n \in Manager, NEW k \in Manager, Alive(n)', Alive(k)', lease'[n] = lease'[k]
        PROVE  n = k
    <3>1. CASE n = m \/ k = m
      <4>1. \A j \in Manager : Alive(j)' => lease'[j] \in Nat
        BY <2>1, <2>2, <1>a, <1>b
      <4> QED BY SMTT(30), <3>1, <4>1, <2>3, <2>6
    <3>2. CASE n # m /\ k # m
      BY <3>2, <2>6, <2>1, <1>3 DEF LeaseInv, NewLease
    <3> QED BY <3>1, <3>2
  <2> QED BY <2>5, <2>6 DEF LeaseInv
<1> QED BY LeaseEffects, <1>1, <1>2, <1>3
-----------------------------------------------------------------------------
\* The actions that change the set of delayed writes.
LEMMA LateChanges ==
  ASSUME [Next]_vars
  PROVE  \/ UNCHANGED <<late>>
         \/ \E m \in Manager : WriterErrs(m)
         \/ \E w \in late : LateWrite(w)
<1>1. ASSUME NEW m \in Manager,
             LeaseRead(m) \/ LeaseWrite(m) \/ LeaseLost(m) \/ LeaseFails(m)
             \/ WriterTake(m) \/ WriterAlloc(m) \/ RenewRead(m) \/ RenewWrite(m)
             \/ RenewFails(m) \/ RenewLost(m)
      PROVE  UNCHANGED <<late>>
  BY <1>1 DEF LeaseRead, LeaseWrite, LeaseLost, LeaseFails, WriterTake,
        WriterAlloc, RenewRead, RenewWrite, RenewFails, RenewLost, storeVars,
        GiveUpLease
<1>2. ASSUME NEW m \in Manager,
             WriterCreates(m) \/ WriterRejected(m) \/ WriterPublish(m) \/ PumpStart(m)
             \/ PumpRead(m) \/ PumpReadFails(m) \/ PumpEmpty(m) \/ PumpAdd(m)
             \/ PumpExit(m) \/ PumpTimer(m)
      PROVE  UNCHANGED <<late>>
  BY <1>2 DEF WriterCreates, WriterRejected, WriterPublish, PumpStart, PumpRead,
        PumpReadFails, PumpEmpty, PumpAdd, PumpExit, PumpTimer, storeVars
<1>3. ASSUME NEW m \in Manager,
             PumpPersists(m) \/ PumpRejected(m) \/ PumpPersistErrs(m) \/ Stop(m)
             \/ StopPersist(m) \/ UpdatePartitionConfig(m)
      PROVE  UNCHANGED <<late>>
  BY <1>3 DEF PumpPersists, PumpRejected, PumpPersistErrs, Stop, StopPersist,
        UpdatePartitionConfig, storeVars
<1>4. ASSUME NEW m \in Manager, NEW p \in Payload,
             SyncMatch(m, p) \/ AddTask(m, p) \/ AddTaskReturns(m, p)
      PROVE  UNCHANGED <<late>>
  BY <1>4 DEF SyncMatch, AddTask, AddTaskReturns, storeVars
<1>5. ASSUME NEW m \in Manager, NEW row \in Held(m),
             Dispatch(m, row) \/ DispatchExpired(m, row) \/ RecordStarted(m, row)
             \/ FinishOK(m, row) \/ FinishErr(m, row) \/ RewriteOK(m, row)
             \/ RewriteRetry(m, row) \/ RewriteGivesUp(m, row)
      PROVE  UNCHANGED <<late>>
  BY <1>5 DEF Dispatch, DispatchExpired, RecordStarted, FinishOK, FinishErr,
        RewriteOK, RewriteRetry, RewriteGivesUp, storeVars
<1>6. ASSUME NEW m \in Manager, NEW level \in gcReq[m],
             GCDelete(m, level) \/ GCSkip(m, level)
      PROVE  UNCHANGED <<late>>
  BY <1>6 DEF GCDelete, GCSkip, storeVars
<1>7. ASSUME NEW p \in Payload,
             AddTaskGivesUp(p) \/ Expire(p)
      PROVE  UNCHANGED <<late>>
  BY <1>7 DEF AddTaskGivesUp, Expire, storeVars
<1>8. ASSUME NEW row \in store.tasks,
             TimeToLive(row)
      PROVE  UNCHANGED <<late>>
  BY <1>8 DEF TimeToLive, storeVars
<1>9. CASE UNCHANGED vars
  BY <1>9 DEF vars, storeVars
<1> QED BY <1>1, <1>2, <1>3, <1>4, <1>5, <1>6, <1>7, <1>8, <1>9
        DEF Next, Work, Disturbance, Load, Writer, Pump, Deliver, Collect, WatchForStop

\* The actions that change the rows the pump has read.
LEMMA BatchChanges ==
  ASSUME [Next]_vars
  PROVE  \/ UNCHANGED <<batch>>
         \/ \E m \in Manager : PumpRead(m) \/ PumpAdd(m) \/ PumpExit(m)
<1>1. ASSUME NEW m \in Manager,
             LeaseRead(m) \/ LeaseWrite(m) \/ LeaseLost(m) \/ LeaseFails(m)
             \/ WriterTake(m) \/ WriterAlloc(m) \/ RenewRead(m) \/ RenewWrite(m)
             \/ RenewFails(m) \/ RenewLost(m)
      PROVE  UNCHANGED <<batch>>
  BY <1>1 DEF LeaseRead, LeaseWrite, LeaseLost, LeaseFails, WriterTake,
        WriterAlloc, RenewRead, RenewWrite, RenewFails, RenewLost, pumpVars, GiveUpLease
<1>2. ASSUME NEW m \in Manager,
             WriterCreates(m) \/ WriterRejected(m) \/ WriterErrs(m) \/ WriterPublish(m)
             \/ PumpStart(m) \/ PumpReadFails(m) \/ PumpEmpty(m) \/ PumpTimer(m)
             \/ PumpPersists(m) \/ PumpRejected(m)
      PROVE  UNCHANGED <<batch>>
  BY <1>2 DEF WriterCreates, WriterRejected, WriterErrs, WriterPublish,
        PumpStart, PumpReadFails, PumpEmpty, PumpTimer, PumpPersists, PumpRejected,
        pumpVars
<1>3. ASSUME NEW m \in Manager,
             PumpPersistErrs(m) \/ Stop(m) \/ StopPersist(m)
             \/ UpdatePartitionConfig(m)
      PROVE  UNCHANGED <<batch>>
  BY <1>3 DEF PumpPersistErrs, Stop, StopPersist, UpdatePartitionConfig, pumpVars
<1>4. ASSUME NEW m \in Manager, NEW p \in Payload,
             SyncMatch(m, p) \/ AddTask(m, p) \/ AddTaskReturns(m, p)
      PROVE  UNCHANGED <<batch>>
  BY <1>4 DEF SyncMatch, AddTask, AddTaskReturns, pumpVars
<1>5. ASSUME NEW m \in Manager, NEW row \in Held(m),
             Dispatch(m, row) \/ DispatchExpired(m, row) \/ RecordStarted(m, row)
             \/ FinishOK(m, row) \/ FinishErr(m, row) \/ RewriteOK(m, row)
             \/ RewriteRetry(m, row) \/ RewriteGivesUp(m, row)
      PROVE  UNCHANGED <<batch>>
  BY <1>5 DEF Dispatch, DispatchExpired, RecordStarted, FinishOK, FinishErr,
        RewriteOK, RewriteRetry, RewriteGivesUp, pumpVars
<1>6. ASSUME NEW m \in Manager, NEW level \in gcReq[m],
             GCDelete(m, level) \/ GCSkip(m, level)
      PROVE  UNCHANGED <<batch>>
  BY <1>6 DEF GCDelete, GCSkip, pumpVars
<1>7. ASSUME NEW p \in Payload,
             AddTaskGivesUp(p) \/ Expire(p)
      PROVE  UNCHANGED <<batch>>
  BY <1>7 DEF AddTaskGivesUp, Expire, pumpVars
<1>8. ASSUME NEW row \in store.tasks,
             TimeToLive(row)
      PROVE  UNCHANGED <<batch>>
  BY <1>8 DEF TimeToLive, pumpVars
<1>9. ASSUME NEW w \in late,
             LateWrite(w)
      PROVE  UNCHANGED <<batch>>
  BY <1>9 DEF LateWrite, pumpVars
<1>10. CASE UNCHANGED vars
  BY <1>10 DEF vars, pumpVars
<1> QED BY <1>1, <1>2, <1>3, <1>4, <1>5, <1>6, <1>7, <1>8, <1>9, <1>10
        DEF Next, Work, Disturbance, Load, Writer, Pump, Deliver, Collect, WatchForStop

\* The actions that change the rows in a manager's hands.
LEMMA HeldChanges ==
  ASSUME [Next]_vars
  PROVE  \/ UNCHANGED <<buffer, started, rewriting>>
         \/ \E m \in Manager : PumpAdd(m)
         \/ \E m \in Manager : \E row \in Held(m) : Dispatch(m, row)
                 \/ DispatchExpired(m, row) \/ FinishOK(m, row) \/ FinishErr(m, row)
                 \/ RewriteOK(m, row) \/ RewriteGivesUp(m, row)
<1>1. ASSUME NEW m \in Manager,
             LeaseRead(m) \/ LeaseWrite(m) \/ LeaseLost(m) \/ LeaseFails(m)
             \/ WriterTake(m) \/ WriterAlloc(m) \/ RenewRead(m) \/ RenewWrite(m)
             \/ RenewFails(m) \/ RenewLost(m)
      PROVE  UNCHANGED <<buffer, started, rewriting>>
  BY <1>1 DEF LeaseRead, LeaseWrite, LeaseLost, LeaseFails, WriterTake,
        WriterAlloc, RenewRead, RenewWrite, RenewFails, RenewLost, taskVars, GiveUpLease
<1>2. ASSUME NEW m \in Manager,
             WriterCreates(m) \/ WriterRejected(m) \/ WriterErrs(m) \/ WriterPublish(m)
             \/ PumpStart(m) \/ PumpRead(m) \/ PumpReadFails(m) \/ PumpEmpty(m)
             \/ PumpExit(m) \/ PumpTimer(m)
      PROVE  UNCHANGED <<buffer, started, rewriting>>
  BY <1>2 DEF WriterCreates, WriterRejected, WriterErrs, WriterPublish,
        PumpStart, PumpRead, PumpReadFails, PumpEmpty, PumpExit, PumpTimer, taskVars
<1>3. ASSUME NEW m \in Manager,
             PumpPersists(m) \/ PumpRejected(m) \/ PumpPersistErrs(m) \/ Stop(m)
             \/ StopPersist(m) \/ UpdatePartitionConfig(m)
      PROVE  UNCHANGED <<buffer, started, rewriting>>
  BY <1>3 DEF PumpPersists, PumpRejected, PumpPersistErrs, Stop, StopPersist,
        UpdatePartitionConfig, taskVars
<1>4. ASSUME NEW m \in Manager, NEW p \in Payload,
             SyncMatch(m, p) \/ AddTask(m, p) \/ AddTaskReturns(m, p)
      PROVE  UNCHANGED <<buffer, started, rewriting>>
  BY <1>4 DEF SyncMatch, AddTask, AddTaskReturns, taskVars
<1>5. ASSUME NEW m \in Manager, NEW row \in Held(m),
             RecordStarted(m, row) \/ RewriteRetry(m, row)
      PROVE  UNCHANGED <<buffer, started, rewriting>>
  BY <1>5 DEF RecordStarted, RewriteRetry, taskVars
<1>6. ASSUME NEW m \in Manager, NEW level \in gcReq[m],
             GCDelete(m, level) \/ GCSkip(m, level)
      PROVE  UNCHANGED <<buffer, started, rewriting>>
  BY <1>6 DEF GCDelete, GCSkip, taskVars
<1>7. ASSUME NEW p \in Payload,
             AddTaskGivesUp(p) \/ Expire(p)
      PROVE  UNCHANGED <<buffer, started, rewriting>>
  BY <1>7 DEF AddTaskGivesUp, Expire, taskVars
<1>8. ASSUME NEW row \in store.tasks,
             TimeToLive(row)
      PROVE  UNCHANGED <<buffer, started, rewriting>>
  BY <1>8 DEF TimeToLive, taskVars
<1>9. ASSUME NEW w \in late,
             LateWrite(w)
      PROVE  UNCHANGED <<buffer, started, rewriting>>
  BY <1>9 DEF LateWrite, taskVars
<1>10. CASE UNCHANGED vars
  BY <1>10 DEF vars, taskVars
<1> QED BY <1>1, <1>2, <1>3, <1>4, <1>5, <1>6, <1>7, <1>8, <1>9, <1>10
        DEF Next, Work, Disturbance, Load, Writer, Pump, Deliver, Collect, WatchForStop

\* The actions that change the writer's batch.
LEMMA AllocChanges ==
  ASSUME [Next]_vars
  PROVE  \/ UNCHANGED <<walloc>>
         \/ \E m \in Manager : WriterAlloc(m) \/ RenewFails(m) \/ RenewLost(m)
                 \/ WriterPublish(m)
<1>1. ASSUME NEW m \in Manager,
             LeaseRead(m) \/ LeaseWrite(m) \/ LeaseLost(m) \/ LeaseFails(m)
             \/ WriterTake(m) \/ RenewRead(m) \/ RenewWrite(m) \/ WriterCreates(m)
             \/ WriterRejected(m) \/ WriterErrs(m)
      PROVE  UNCHANGED <<walloc>>
  BY <1>1 DEF LeaseRead, LeaseWrite, LeaseLost, LeaseFails, WriterTake,
        RenewRead, RenewWrite, WriterCreates, WriterRejected, WriterErrs, writerVars
<1>2. ASSUME NEW m \in Manager,
             PumpStart(m) \/ PumpRead(m) \/ PumpReadFails(m) \/ PumpEmpty(m)
             \/ PumpAdd(m) \/ PumpExit(m) \/ PumpTimer(m) \/ PumpPersists(m)
             \/ PumpRejected(m) \/ PumpPersistErrs(m)
      PROVE  UNCHANGED <<walloc>>
  BY <1>2 DEF PumpStart, PumpRead, PumpReadFails, PumpEmpty, PumpAdd, PumpExit,
        PumpTimer, PumpPersists, PumpRejected, PumpPersistErrs, writerVars
<1>3. ASSUME NEW m \in Manager,
             Stop(m) \/ StopPersist(m) \/ UpdatePartitionConfig(m)
      PROVE  UNCHANGED <<walloc>>
  BY <1>3 DEF Stop, StopPersist, UpdatePartitionConfig, writerVars
<1>4. ASSUME NEW m \in Manager, NEW p \in Payload,
             SyncMatch(m, p) \/ AddTask(m, p) \/ AddTaskReturns(m, p)
      PROVE  UNCHANGED <<walloc>>
  BY <1>4 DEF SyncMatch, AddTask, AddTaskReturns, writerVars
<1>5. ASSUME NEW m \in Manager, NEW row \in Held(m),
             Dispatch(m, row) \/ DispatchExpired(m, row) \/ RecordStarted(m, row)
             \/ FinishOK(m, row) \/ FinishErr(m, row) \/ RewriteOK(m, row)
             \/ RewriteRetry(m, row) \/ RewriteGivesUp(m, row)
      PROVE  UNCHANGED <<walloc>>
  BY <1>5 DEF Dispatch, DispatchExpired, RecordStarted, FinishOK, FinishErr,
        RewriteOK, RewriteRetry, RewriteGivesUp, writerVars
<1>6. ASSUME NEW m \in Manager, NEW level \in gcReq[m],
             GCDelete(m, level) \/ GCSkip(m, level)
      PROVE  UNCHANGED <<walloc>>
  BY <1>6 DEF GCDelete, GCSkip, writerVars
<1>7. ASSUME NEW p \in Payload,
             AddTaskGivesUp(p) \/ Expire(p)
      PROVE  UNCHANGED <<walloc>>
  BY <1>7 DEF AddTaskGivesUp, Expire, writerVars
<1>8. ASSUME NEW row \in store.tasks,
             TimeToLive(row)
      PROVE  UNCHANGED <<walloc>>
  BY <1>8 DEF TimeToLive, writerVars
<1>9. ASSUME NEW w \in late,
             LateWrite(w)
      PROVE  UNCHANGED <<walloc>>
  BY <1>9 DEF LateWrite, writerVars
<1>10. CASE UNCHANGED vars
  BY <1>10 DEF vars, writerVars
<1> QED BY <1>1, <1>2, <1>3, <1>4, <1>5, <1>6, <1>7, <1>8, <1>9, <1>10
        DEF Next, Work, Disturbance, Load, Writer, Pump, Deliver, Collect, WatchForStop

\* The rows that somebody knows, one kind at a time.
LEMMA KnownIs ==
  /\ store.tasks \subseteq KnownRows
  /\ \A w \in late : w.rows \subseteq KnownRows
  /\ \A m \in Manager : batch[m] \subseteq KnownRows /\ Held(m) \subseteq KnownRows
  /\ \A m \in Manager : \A a \in walloc[m] : [id |-> a.id, p |-> a.p] \in KnownRows
<1> DEFINE Of(m) == batch[m] \cup buffer[m] \cup started[m] \cup rewriting[m]
                      \cup {[id |-> a.id, p |-> a.p] : a \in walloc[m]}
           All == {Of(m) : m \in Manager}
<1>1. KnownRows = store.tasks \cup (UNION {w.rows : w \in late}) \cup (UNION All)
  BY DEF KnownRows
<1>2. \A m \in Manager : batch[m] \subseteq Of(m) /\ Held(m) \subseteq Of(m)
  BY DEF Held
<1>3. \A m \in Manager : \A a \in walloc[m] : [id |-> a.id, p |-> a.p] \in Of(m)
  OBVIOUS
<1>4. \A m \in Manager : Of(m) \in All
  OBVIOUS
<1> HIDE DEF Of, All
<1>5. \A m \in Manager : Of(m) \subseteq KnownRows
  BY <1>1, <1>4
<1>6. store.tasks \subseteq KnownRows /\ \A w \in late : w.rows \subseteq KnownRows
  BY <1>1
<1> QED BY <1>2, <1>3, <1>5, <1>6

\* To bound the rows known after a step it is enough to bound them place by place.
LEMMA KnownIn ==
  ASSUME NEW S,
         store'.tasks \subseteq S,
         \A w \in late' : w.rows \subseteq S,
         \A m \in Manager : batch'[m] \subseteq S /\ Held(m)' \subseteq S,
         \A m \in Manager : \A a \in walloc'[m] : [id |-> a.id, p |-> a.p] \in S
  PROVE  KnownRows' \subseteq S
<1> DEFINE Of(m) == batch'[m] \cup buffer'[m] \cup started'[m] \cup rewriting'[m]
                      \cup {[id |-> a.id, p |-> a.p] : a \in walloc'[m]}
           All == {Of(m) : m \in Manager}
<1>1. KnownRows' = store'.tasks \cup (UNION {w.rows : w \in late'}) \cup (UNION All)
  BY DEF KnownRows
<1>2. \A m \in Manager : Of(m) \subseteq S
  BY DEF Held
<1>3. \A X \in All : \E m \in Manager : X = Of(m)
  OBVIOUS
<1> HIDE DEF Of, All
<1>4. \A X \in All : X \subseteq S
  BY <1>2, <1>3
<1> QED BY <1>1, <1>4

\* The rows of a batch of the writer are known.
LEMMA BatchRowsKnown ==
  ASSUME NEW m \in Manager
  PROVE  BatchRows(m) \subseteq KnownRows
BY KnownIs DEF BatchRows

\* No step puts a row in the store that was not known.
LEMMA StoreRowsStep ==
  ASSUME TypeInv, [Next]_vars
  PROVE  store'.tasks \subseteq KnownRows
<1>a. store \in Stores /\ \A m \in Manager : seen[m] \in [rangeID : Nat, ackLevel : Nat]
  BY TypeElements
<1>b. store.tasks \subseteq KnownRows
  BY KnownIs
<1>1. ASSUME NEW m \in Manager, LeaseWrite(m) \/ LeaseLost(m) \/ RenewWrite(m) \/ RenewLost(m)
      PROVE  store'.tasks \subseteq KnownRows
  <2>1. store' = LeaseTaskList(store, seen[m])
    BY <1>1 DEF LeaseWrite, LeaseLost, RenewWrite, RenewLost
  <2> QED BY <1>a, <1>b, <2>1 DEF LeaseTaskList, Stores
<1>2. ASSUME NEW m \in Manager, WriterCreates(m) PROVE store'.tasks \subseteq KnownRows
  <2>1. store' = CreateTasks(store, BatchRows(m))
    BY <1>2 DEF WriterCreates
  <2> QED BY <1>a, <1>b, <2>1, BatchRowsKnown DEF CreateTasks, Stores
<1>3. ASSUME NEW w \in late, LateWrite(w) PROVE store'.tasks \subseteq KnownRows
  <2>1. store' = CreateTasks(store, w.rows) /\ w.rows \subseteq KnownRows
    BY <1>3, KnownIs DEF LateWrite
  <2> QED BY <1>a, <1>b, <2>1 DEF CreateTasks, Stores
<1>4. ASSUME NEW m \in Manager, PumpPersists(m) \/ StopPersist(m) \/ UpdatePartitionConfig(m)
      PROVE  store'.tasks \subseteq KnownRows
  <2>1. store' = store \/ \E level : store' = UpdateTaskList(store, level)
    BY <1>4 DEF PumpPersists, StopPersist, UpdatePartitionConfig
  <2> QED BY <1>a, <1>b, <2>1 DEF UpdateTaskList, Stores
<1>5. ASSUME NEW m \in Manager, NEW level \in gcReq[m], GCDelete(m, level)
      PROVE  store'.tasks \subseteq KnownRows
  BY <1>a, <1>b, <1>5 DEF GCDelete, CompleteTasksLessThan, Stores
<1>6. ASSUME NEW row \in store.tasks, TimeToLive(row) PROVE store'.tasks \subseteq KnownRows
  BY <1>a, <1>b, <1>6 DEF TimeToLive, DropRow, Stores
<1>7. CASE UNCHANGED <<store>>
  BY <1>b, <1>7
<1> QED BY StoreChanges, <1>1, <1>2, <1>3, <1>4, <1>5, <1>6, <1>7

\* A delayed write has rows of a batch.
LEMMA LateRowsStep ==
  ASSUME TypeInv, [Next]_vars
  PROVE  \A w \in late' : w.rows \subseteq KnownRows
<1>1. ASSUME NEW m \in Manager, WriterErrs(m)
      PROVE  \A w \in late' : w.rows \subseteq KnownRows
  <2>1. late' = late \cup {[rangeID |-> lease[m], rows |-> BatchRows(m)]}
    BY <1>1 DEF WriterErrs
  <2> QED BY SMTT(30), <2>1, KnownIs, BatchRowsKnown
<1>2. ASSUME NEW w \in late, LateWrite(w) PROVE \A v \in late' : v.rows \subseteq KnownRows
  BY <1>2, KnownIs DEF LateWrite
<1>3. CASE UNCHANGED <<late>>
  BY <1>3, KnownIs
<1> QED BY LateChanges, <1>1, <1>2, <1>3

\* The pump reads rows of the store.
LEMMA BatchStep ==
  ASSUME TypeInv, [Next]_vars
  PROVE  \A n \in Manager : batch'[n] \subseteq KnownRows
<1>a. batch \in [Manager -> SUBSET Rows]
  BY DEF TypeInv, TypeOK, PumpOK
<1>1. ASSUME NEW m \in Manager, PumpRead(m) PROVE \A n \in Manager : batch'[n] \subseteq KnownRows
  <2>1. \/ batch' = batch
        \/ \E a, b : batch' = [batch EXCEPT ![m] = GetTasks(store, a, b, BatchSize)]
    BY <1>1 DEF PumpRead
  <2>2. \A a, b : GetTasks(store, a, b, BatchSize) \subseteq store.tasks
    BY DEF GetTasks, Window
  <2> QED BY SMTT(30), <1>a, <2>1, <2>2, KnownIs
<1>2. ASSUME NEW m \in Manager, PumpAdd(m) \/ PumpExit(m)
      PROVE  \A n \in Manager : batch'[n] \subseteq KnownRows
  <2>1. \E S : batch' = [batch EXCEPT ![m] = batch[m] \ S] \/ batch' = [batch EXCEPT ![m] = {}]
    BY <1>2 DEF PumpAdd, PumpExit
  <2> QED BY <1>a, <2>1, KnownIs
<1>3. CASE UNCHANGED <<batch>>
  BY <1>3, KnownIs
<1> QED BY BatchChanges, <1>1, <1>2, <1>3

\* Rows in a manager's hands come from the pump's batch.
LEMMA HeldStep ==
  ASSUME TypeInv, [Next]_vars
  PROVE  \A n \in Manager : Held(n)' \subseteq KnownRows
<1>a. /\ buffer \in [Manager -> SUBSET Rows] /\ started \in [Manager -> SUBSET Rows]
      /\ rewriting \in [Manager -> SUBSET Rows]
  BY DEF TypeInv, TypeOK, TasksOK
<1>b. \A n \in Manager : /\ buffer[n] \subseteq KnownRows /\ started[n] \subseteq KnownRows
                         /\ rewriting[n] \subseteq KnownRows /\ batch[n] \subseteq KnownRows
  BY KnownIs DEF Held
<1>1. ASSUME NEW m \in Manager, PumpAdd(m) PROVE \A n \in Manager : Held(n)' \subseteq KnownRows
  <2>1. /\ UNCHANGED <<started, rewriting>>
        /\ \/ buffer' = buffer
           \/ \E row \in batch[m] : buffer' = [buffer EXCEPT ![m] = buffer[m] \cup {row}]
    BY <1>1 DEF PumpAdd
  <2> QED BY SMTT(30), <1>a, <1>b, <2>1 DEF Held
<1>2. ASSUME NEW m \in Manager, NEW row \in Held(m), Dispatch(m, row) \/ FinishErr(m, row)
      PROVE  \A n \in Manager : Held(n)' \subseteq KnownRows
  <2>1. /\ buffer' \in {buffer, [buffer EXCEPT ![m] = buffer[m] \ {row}]}
        /\ started' \in {[started EXCEPT ![m] = started[m] \ {row}],
                         [started EXCEPT ![m] = started[m] \cup {row}]}
        /\ rewriting' \in {rewriting, [rewriting EXCEPT ![m] = rewriting[m] \cup {row}]}
    BY <1>2 DEF Dispatch, FinishErr
  <2>2. row \in KnownRows
    BY KnownIs
  <2> QED BY SMTT(30), <1>a, <1>b, <2>1, <2>2 DEF Held
<1>3. ASSUME NEW m \in Manager, NEW row \in Held(m),
             DispatchExpired(m, row) \/ FinishOK(m, row) \/ RewriteOK(m, row)
             \/ RewriteGivesUp(m, row)
      PROVE  \A n \in Manager : Held(n)' \subseteq KnownRows
  <2>1. /\ buffer' \in {buffer, [buffer EXCEPT ![m] = buffer[m] \ {row}]}
        /\ started' \in {started, [started EXCEPT ![m] = started[m] \ {row}]}
        /\ rewriting' \in {rewriting, [rewriting EXCEPT ![m] = rewriting[m] \ {row}]}
    BY <1>3 DEF DispatchExpired, FinishOK, RewriteOK, RewriteGivesUp
  <2> QED BY SMTT(30), <1>a, <1>b, <2>1 DEF Held
<1>4. CASE UNCHANGED <<buffer, started, rewriting>>
  BY <1>4, <1>b DEF Held
<1> QED BY HeldChanges, <1>1, <1>2, <1>3, <1>4

\* The only new row is the one that is given the next ID of a block.
LEMMA AllocStep ==
  ASSUME TypeInv, [Next]_vars
  PROVE  \/ \A n \in Manager : \A a \in walloc'[n] : [id |-> a.id, p |-> a.p] \in KnownRows
         \/ \E m \in Manager, q \in Payload :
              /\ WriterAlloc(m)
              /\ \A n \in Manager : \A a \in walloc'[n] :
                   [id |-> a.id, p |-> a.p] \in KnownRows \cup {[id |-> next[m], p |-> q]}
<1>a. walloc \in [Manager -> SUBSET Allocs] /\ wpend \in [Manager -> SUBSET Requests]
  BY DEF TypeInv, TypeOK, WriterOK
<1>b. \A n \in Manager : \A a \in walloc[n] : [id |-> a.id, p |-> a.p] \in KnownRows
  BY KnownIs
<1>1. ASSUME NEW m \in Manager, WriterAlloc(m)
      PROVE  \E q \in Payload : \A n \in Manager : \A a \in walloc'[n] :
               [id |-> a.id, p |-> a.p] \in KnownRows \cup {[id |-> next[m], p |-> q]}
  <2>1. PICK req \in wpend[m] :
          walloc' = [walloc EXCEPT ![m] =
                       walloc[m] \cup {[id |-> next[m], p |-> req.p, old |-> req.old]}]
    BY <1>1 DEF WriterAlloc
  <2>2. req.p \in Payload
    BY SMTT(30), <1>a DEF Requests
  <2>3. ASSUME NEW n \in Manager, NEW a \in walloc'[n]
        PROVE  [id |-> a.id, p |-> a.p] \in KnownRows \cup {[id |-> next[m], p |-> req.p]}
    <3>1. \/ a \in walloc[n]
          \/ a = [id |-> next[m], p |-> req.p, old |-> req.old]
      BY <1>a, <2>1
    <3> QED BY SMTT(30), <3>1, <1>b
  <2> QED BY <2>2, <2>3
<1>2. ASSUME NEW m \in Manager, RenewFails(m) \/ RenewLost(m) \/ WriterPublish(m)
      PROVE  \A n \in Manager : \A a \in walloc'[n] : [id |-> a.id, p |-> a.p] \in KnownRows
  <2>1. walloc' = [walloc EXCEPT ![m] = {}]
    BY <1>2 DEF RenewFails, RenewLost, GiveUpLease, WriterPublish
  <2>2. \A n \in Manager : walloc'[n] \subseteq walloc[n]
    BY <1>a, <2>1
  <2> QED BY <1>b, <2>2
<1>3. CASE UNCHANGED <<walloc>>
  BY <1>3, <1>b
<1> QED BY AllocChanges, <1>1, <1>2, <1>3

\* A step knows no new row, or the one row that was given the next ID of a block.
LEMMA KnownStep ==
  ASSUME TypeInv, [Next]_vars
  PROVE  \/ KnownRows' \subseteq KnownRows
         \/ \E m \in Manager, q \in Payload :
              /\ WriterAlloc(m)
              /\ KnownRows' \subseteq KnownRows \cup {[id |-> next[m], p |-> q]}
<1>1. /\ store'.tasks \subseteq KnownRows
      /\ \A w \in late' : w.rows \subseteq KnownRows
      /\ \A m \in Manager : batch'[m] \subseteq KnownRows /\ Held(m)' \subseteq KnownRows
  BY StoreRowsStep, LateRowsStep, BatchStep, HeldStep
<1>2. CASE \A n \in Manager : \A a \in walloc'[n] : [id |-> a.id, p |-> a.p] \in KnownRows
  BY <1>1, <1>2, KnownIn
<1>3. ASSUME NEW m \in Manager, NEW q \in Payload, WriterAlloc(m),
             \A n \in Manager : \A a \in walloc'[n] :
                [id |-> a.id, p |-> a.p] \in KnownRows \cup {[id |-> next[m], p |-> q]}
      PROVE  KnownRows' \subseteq KnownRows \cup {[id |-> next[m], p |-> q]}
  <2> DEFINE S == KnownRows \cup {[id |-> next[m], p |-> q]}
  <2>1. KnownRows \subseteq S
    OBVIOUS
  <2>2. /\ store'.tasks \subseteq S
        /\ \A w \in late' : w.rows \subseteq S
        /\ \A n \in Manager : batch'[n] \subseteq S /\ Held(n)' \subseteq S
        /\ \A n \in Manager : \A a \in walloc'[n] : [id |-> a.id, p |-> a.p] \in S
    <3> HIDE DEF S
    <3>1. \A n \in Manager : \A a \in walloc'[n] : [id |-> a.id, p |-> a.p] \in S
      BY <1>3 DEF S
    <3> QED BY <1>1, <2>1, <3>1
  <2>3. KnownRows' \subseteq S
    <3> HIDE DEF S
    <3> QED BY <2>2, KnownIn
  <2> QED BY <2>3
<1> QED BY AllocStep, <1>2, <1>3
-----------------------------------------------------------------------------
\* Known rows have the type of rows.
LEMMA KnownTypes ==
  ASSUME TypeInv
  PROVE  KnownRows \subseteq Rows
<1>1. store.tasks \subseteq Rows /\ \A w \in late : w.rows \subseteq Rows
  BY DEF TypeInv, TypeOK, StoreOK, Stores
<1>2. \A m \in Manager : batch[m] \subseteq Rows /\ Held(m) \subseteq Rows
  BY DEF TypeInv, TypeOK, PumpOK, TasksOK, Held
<1>3. \A m \in Manager : \A a \in walloc[m] : [id |-> a.id, p |-> a.p] \in Rows
  BY SMTT(30) DEF TypeInv, TypeOK, WriterOK, Allocs, Rows
<1> DEFINE Of(m) == batch[m] \cup buffer[m] \cup started[m] \cup rewriting[m]
                      \cup {[id |-> a.id, p |-> a.p] : a \in walloc[m]}
           All == {Of(m) : m \in Manager}
<1>4. KnownRows = store.tasks \cup (UNION {w.rows : w \in late}) \cup (UNION All)
  BY DEF KnownRows
<1>5. \A m \in Manager : Of(m) \subseteq Rows
  BY <1>2, <1>3 DEF Held
<1>6. \A X \in All : \E m \in Manager : X = Of(m)
  OBVIOUS
<1> HIDE DEF Of, All
<1>7. \A X \in All : X \subseteq Rows
  BY <1>5, <1>6
<1> QED BY <1>1, <1>4, <1>7

\* The unused part of a block only shrinks, except when a new block, above all
\* earlier ones, is leased.
LEMMA UnusedStep ==
  ASSUME TypeInv, [Next]_vars, NEW n \in Manager, Alive(n)', NEW id \in Nat, Unused(n, id)'
  PROVE  (Alive(n) /\ Unused(n, id)) \/ BlockEnd(store.rangeID) < id
<1>a. next \in [Manager -> Nat] /\ last \in [Manager -> Nat] /\ store.rangeID \in Nat
  BY TypeElements DEF TypeInv, TypeOK, LeaseOK, Stores
<1>1. CASE UNCHANGED <<lease, next, last>> /\ \A k \in Manager : Alive(k)' => Alive(k)
  BY <1>1 DEF Unused
<1>2. ASSUME NEW m \in Manager, WriterAlloc(m) PROVE Alive(n) /\ Unused(n, id)
  <2>1. last' = last /\ next' = [next EXCEPT ![m] = next[m] + 1] /\ Alive(n)
    BY AllocEffects, <1>2
  <2>2. next[n] <= next'[n]
    BY SMTT(30), <2>1, <1>a
  <2>3. next'[n] \in Nat
    BY SMTT(30), <2>1, <1>a
  <2> QED BY SMTT(30), <2>1, <2>2, <2>3, <1>a DEF Unused
<1>3. ASSUME NEW m \in Manager, NewLease(m)
      PROVE  (Alive(n) /\ Unused(n, id)) \/ BlockEnd(store.rangeID) < id
  <2>1. CASE n = m
    <3>1. next'[m] = BlockStart(store.rangeID + 1)
      BY <1>3, <1>a DEF NewLease
    <3>2. BlockStart(store.rangeID + 1) = BlockEnd(store.rangeID) + 1 /\ BlockEnd(store.rangeID) \in Nat
      BY <1>a, Blocks
    <3> QED BY SMTT(30), <2>1, <3>1, <3>2 DEF Unused
  <2>2. CASE n # m
    <3>1. next'[n] = next[n] /\ last'[n] = last[n] /\ Alive(n)
      BY <2>2, <1>3, <1>a DEF NewLease
    <3> QED BY <3>1 DEF Unused
  <2> QED BY <2>1, <2>2
<1> QED BY LeaseEffects, <1>1, <1>2, <1>3

\* Layer 3 is inductive: a new row gets an ID that nobody has used.
LEMMA RowStep ==
  ASSUME TypeInv, LeaseInv, RowInv, [Next]_vars
  PROVE  RowInv'
<1>a. /\ next \in [Manager -> Nat] /\ last \in [Manager -> Nat] /\ lease \in [Manager -> Nat]
      /\ store.rangeID \in Nat
  BY TypeElements DEF TypeInv, TypeOK, LeaseOK, Stores
<1>b. store'.rangeID \in Nat /\ store.rangeID <= store'.rangeID
  BY RangeStep
<1>c. /\ BlockEnd(store.rangeID) \in Nat /\ BlockEnd(store'.rangeID) \in Nat
      /\ BlockEnd(store.rangeID) <= BlockEnd(store'.rangeID)
  BY <1>a, <1>b, Blocks
<1>d. \A r \in KnownRows : r.id \in Nat
  BY KnownTypes DEF Rows
<1>e. ASSUME NEW r \in KnownRows
      PROVE  /\ r.id <= BlockEnd(store'.rangeID)
             /\ \A n \in Manager : Alive(n)' => ~Unused(n, r.id)'
  <2>1. r.id <= BlockEnd(store.rangeID) /\ r.id \in Nat
    BY <1>d DEF RowInv, IDsSpent
  <2>2. r.id <= BlockEnd(store'.rangeID) /\ ~(BlockEnd(store.rangeID) < r.id)
    BY SMTT(30), <2>1, <1>c
  <2>3. ASSUME NEW n \in Manager, Alive(n)', Unused(n, r.id)' PROVE FALSE
    BY <2>1, <2>2, <2>3, UnusedStep DEF RowInv, IDsSpent
  <2> QED BY <2>2, <2>3
<1>1. CASE KnownRows' \subseteq KnownRows
  BY <1>1, <1>e DEF RowInv, TaskIDsUnique, IDsSpent
<1>2. ASSUME NEW m \in Manager, NEW q \in Payload, WriterAlloc(m),
             KnownRows' \subseteq KnownRows \cup {[id |-> next[m], p |-> q]}
      PROVE  RowInv'
  <2>1. /\ UNCHANGED <<store, lease, last, st>>
        /\ next' = [next EXCEPT ![m] = next[m] + 1]
        /\ Alive(m) /\ next[m] <= last[m]
        /\ \A n \in Manager : Alive(n)' => Alive(n)
    BY AllocEffects, <1>2
  <2>a. PICK new : new = [id |-> next[m], p |-> q]
    OBVIOUS
  <2>2. new.id = next[m]
    BY <2>a
  <2>3. KnownRows' \subseteq KnownRows \cup {new}
    BY <1>2, <2>a
  <2>4. \A r \in KnownRows : r.id # new.id
    <3>1. Unused(m, next[m])
      BY SMTT(30), <2>1, <1>a DEF Unused
    <3> QED BY <3>1, <2>1, <2>2 DEF RowInv, IDsSpent
  <2>5. TaskIDsUnique'
    BY <2>3, <2>4 DEF RowInv, TaskIDsUnique
  <2>6. new.id <= BlockEnd(store'.rangeID)
    <3>1. last[m] = BlockEnd(lease[m]) /\ lease[m] <= store.rangeID
      BY <2>1 DEF LeaseInv, LeaseOf
    <3>2. BlockEnd(lease[m]) <= BlockEnd(store.rangeID)
      BY <3>1, <1>a, Blocks
    <3> HIDE DEF BlockEnd
    <3>3. next[m] <= BlockEnd(store'.rangeID)
      BY SMTT(30), <3>1, <3>2, <2>1, <1>a, <1>c
    <3> QED BY <2>2, <3>3
  <2>7. ASSUME NEW n \in Manager, Alive(n)' PROVE ~Unused(n, new.id)'
    <3>1. CASE n = m
      BY SMTT(30), <3>1, <2>1, <2>2, <1>a DEF Unused
    <3>2. CASE n # m
      <4>1. LeaseOf(n) /\ LeaseOf(m) /\ lease[n] # lease[m]
        BY <3>2, <2>1, <2>7 DEF LeaseInv
      <4>2. /\ lease[m] < lease[n] => BlockEnd(lease[m]) < BlockStart(lease[n])
            /\ lease[n] < lease[m] => BlockEnd(lease[n]) < BlockStart(lease[m])
        BY <1>a, Blocks
      <4>3. BlockStart(lease[m]) \in Int /\ BlockStart(lease[n]) \in Int
        BY SMTT(30), <1>a, TaskListAssumption DEF BlockStart
      <4>4. next'[n] = next[n] /\ last'[n] = last[n]
        BY <2>1, <3>2, <1>a
      <4> HIDE DEF BlockStart, BlockEnd
      <4> QED BY SMTT(30), <4>1, <4>2, <4>3, <4>4, <2>1, <2>2, <1>a DEF LeaseOf, Unused
    <3> QED BY <3>1, <3>2
  <2> QED BY <1>e, <2>3, <2>5, <2>6, <2>7 DEF RowInv, IDsSpent
<1> QED BY KnownStep, <1>1, <1>2
\* Nothing is leased and no row exists at first.
LEMMA IDsInit ==
  ASSUME Init
  PROVE  LeaseInv /\ RowInv
<1>1. \A m \in Manager : ~Alive(m)
  BY DEF Init, Alive
<1>2. KnownRows = {}
  <2>1. store.tasks = {} /\ late = {}
    BY DEF Init, EmptyStore
  <2>2. \A m \in Manager : /\ batch[m] = {} /\ buffer[m] = {} /\ started[m] = {}
                           /\ rewriting[m] = {} /\ walloc[m] = {}
    BY DEF Init
  <2> QED BY SMTT(30), <2>1, <2>2 DEF KnownRows
<1> QED BY <1>1, <1>2 DEF LeaseInv, RowInv, TaskIDsUnique, IDsSpent

\* Layers 1 to 3 hold throughout.
LEMMA IDsInvariant == Spec => [](TypeInv /\ LeaseInv /\ RowInv)
<1>1. Init => TypeInv /\ LeaseInv /\ RowInv
  BY TypeInvInit, IDsInit
<1>2. TypeInv /\ LeaseInv /\ RowInv /\ [Next]_vars => (TypeInv /\ LeaseInv /\ RowInv)'
  BY TypeInvStep, LeaseStep, RowStep
<1> QED BY <1>1, <1>2, PTL DEF Spec

\* A task ID names one row for ever: the range IDs of the leases keep the blocks
\* apart, and a manager gives out every ID of its block once.
THEOREM IDsUnique == Spec => []TaskIDsUnique
<1>1. RowInv => TaskIDsUnique
  BY DEF RowInv
<1> QED BY IDsInvariant, <1>1, PTL

\* allocTaskIDBlock never meets its error "invalid state": the block of a loaded
\* manager is the block of its lease.
THEOREM LeaseGivesBlock == Spec => []BlockIsLeased
<1>1. LeaseInv => BlockIsLeased
  BY DEF LeaseInv, LeaseOf, BlockIsLeased
<1> QED BY IDsInvariant, <1>1, PTL
-----------------------------------------------------------------------------
\* The actions that move the pump, its levels or the items of an ack manager.
LEMMA OrderChanges ==
  ASSUME [Next]_vars
  PROVE  \/ UNCHANGED <<st, ack, ppc, cursor, batch>>
         \/ \E m \in Manager : LeaseRead(m) \/ LeaseWrite(m) \/ LeaseLost(m)
                 \/ LeaseFails(m) \/ PumpStart(m) \/ PumpRead(m) \/ PumpReadFails(m)
                 \/ PumpEmpty(m) \/ PumpAdd(m) \/ PumpExit(m) \/ PumpTimer(m)
                 \/ PumpPersists(m) \/ PumpRejected(m) \/ PumpPersistErrs(m)
                 \/ Stop(m) \/ StopPersist(m)
         \/ \E m \in Manager : \E row \in Held(m) : DispatchExpired(m, row)
                 \/ FinishOK(m, row) \/ RewriteOK(m, row)
<1>1. ASSUME NEW m \in Manager,
             WriterTake(m) \/ WriterAlloc(m) \/ RenewRead(m) \/ RenewWrite(m)
             \/ RenewFails(m) \/ RenewLost(m) \/ WriterCreates(m) \/ WriterRejected(m)
             \/ WriterErrs(m) \/ WriterPublish(m)
      PROVE  UNCHANGED <<st, ack, ppc, cursor, batch>>
  BY <1>1 DEF WriterTake, WriterAlloc, RenewRead, RenewWrite, RenewFails,
        RenewLost, WriterCreates, WriterRejected, WriterErrs, WriterPublish, leaseVars,
        pumpVars, taskVars, GiveUpLease
<1>2. ASSUME NEW m \in Manager,
             UpdatePartitionConfig(m)
      PROVE  UNCHANGED <<st, ack, ppc, cursor, batch>>
  BY <1>2 DEF UpdatePartitionConfig, leaseVars, pumpVars, taskVars
<1>3. ASSUME NEW m \in Manager, NEW p \in Payload,
             SyncMatch(m, p) \/ AddTask(m, p) \/ AddTaskReturns(m, p)
      PROVE  UNCHANGED <<st, ack, ppc, cursor, batch>>
  BY <1>3 DEF SyncMatch, AddTask, AddTaskReturns, leaseVars, pumpVars, taskVars
<1>4. ASSUME NEW m \in Manager, NEW row \in Held(m),
             Dispatch(m, row) \/ RecordStarted(m, row) \/ FinishErr(m, row)
             \/ RewriteRetry(m, row) \/ RewriteGivesUp(m, row)
      PROVE  UNCHANGED <<st, ack, ppc, cursor, batch>>
  BY <1>4 DEF Dispatch, RecordStarted, FinishErr, RewriteRetry, RewriteGivesUp,
        leaseVars, pumpVars, taskVars
<1>5. ASSUME NEW m \in Manager, NEW level \in gcReq[m],
             GCDelete(m, level) \/ GCSkip(m, level)
      PROVE  UNCHANGED <<st, ack, ppc, cursor, batch>>
  BY <1>5 DEF GCDelete, GCSkip, leaseVars, pumpVars, taskVars
<1>6. ASSUME NEW p \in Payload,
             AddTaskGivesUp(p) \/ Expire(p)
      PROVE  UNCHANGED <<st, ack, ppc, cursor, batch>>
  BY <1>6 DEF AddTaskGivesUp, Expire, leaseVars, pumpVars, taskVars
<1>7. ASSUME NEW row \in store.tasks,
             TimeToLive(row)
      PROVE  UNCHANGED <<st, ack, ppc, cursor, batch>>
  BY <1>7 DEF TimeToLive, leaseVars, pumpVars, taskVars
<1>8. ASSUME NEW w \in late,
             LateWrite(w)
      PROVE  UNCHANGED <<st, ack, ppc, cursor, batch>>
  BY <1>8 DEF LateWrite, leaseVars, pumpVars, taskVars
<1>9. CASE UNCHANGED vars
  BY <1>9 DEF vars, leaseVars, pumpVars, taskVars
<1> QED BY <1>1, <1>2, <1>3, <1>4, <1>5, <1>6, <1>7, <1>8, <1>9
        DEF Next, Work, Disturbance, Load, Writer, Pump, Deliver, Collect, WatchForStop

\* A step changes the pump and the ack manager of m only.
PumpLocal(m) ==
  /\ st' = st \/ \E x : st' = [st EXCEPT ![m] = x]
  /\ ack' = ack \/ \E x : ack' = [ack EXCEPT ![m] = x]
  /\ ppc' = ppc \/ \E x : ppc' = [ppc EXCEPT ![m] = x]
  /\ cursor' = cursor \/ \E x : cursor' = [cursor EXCEPT ![m] = x]
  /\ pmax' = pmax \/ \E x : pmax' = [pmax EXCEPT ![m] = x]
  /\ batch' = batch \/ \E x : batch' = [batch EXCEPT ![m] = x]

\* What is local to one manager leaves every other one as it was.
LEMMA PumpOthers ==
  ASSUME TypeInv, NEW m \in Manager, PumpLocal(m), NEW n \in Manager \ {m}
  PROVE  /\ st'[n] = st[n] /\ ack'[n] = ack[n] /\ ppc'[n] = ppc[n]
         /\ cursor'[n] = cursor[n] /\ pmax'[n] = pmax[n] /\ batch'[n] = batch[n]
<1>1. /\ st \in [Manager -> ManagerStates] /\ ack \in [Manager -> AckManagers]
      /\ DOMAIN ppc = Manager /\ DOMAIN cursor = Manager /\ DOMAIN pmax = Manager
      /\ DOMAIN batch = Manager
  BY DEF TypeInv, TypeOK, LeaseOK, TasksOK, PumpOK
<1> QED BY <1>1 DEF PumpLocal

\* The actions of OrderChanges are local.
LEMMA PumpActors ==
  ASSUME NEW m \in Manager
  PROVE  /\ LeaseRead(m) \/ LeaseWrite(m) \/ LeaseLost(m) \/ LeaseFails(m) => PumpLocal(m)
         /\ Stop(m) \/ StopPersist(m) => PumpLocal(m)
         /\ PumpStart(m) \/ PumpRead(m) \/ PumpReadFails(m) \/ PumpEmpty(m) => PumpLocal(m)
         /\ PumpAdd(m) \/ PumpExit(m) \/ PumpTimer(m) \/ PumpPersists(m) => PumpLocal(m)
         /\ PumpRejected(m) \/ PumpPersistErrs(m) => PumpLocal(m)
         /\ \A row \in Held(m) : DispatchExpired(m, row) \/ FinishOK(m, row) \/ RewriteOK(m, row)
                                   => PumpLocal(m)
<1>1. LeaseRead(m) \/ LeaseLost(m) \/ LeaseFails(m) \/ Stop(m) \/ StopPersist(m) => PumpLocal(m)
  BY DEF PumpLocal, LeaseRead, LeaseLost, LeaseFails, Stop, StopPersist, taskVars, pumpVars
<1>2. LeaseWrite(m) => PumpLocal(m)
  BY DEF PumpLocal, LeaseWrite
<1>3. PumpStart(m) \/ PumpReadFails(m) \/ PumpExit(m) \/ PumpTimer(m) => PumpLocal(m)
  BY DEF PumpLocal, PumpStart, PumpReadFails, PumpExit, PumpTimer, EndRead, leaseVars, taskVars
<1>4. PumpPersists(m) \/ PumpRejected(m) \/ PumpPersistErrs(m) => PumpLocal(m)
  BY DEF PumpLocal, PumpPersists, PumpRejected, PumpPersistErrs, leaseVars, taskVars
<1>5. PumpRead(m) => PumpLocal(m)
  BY DEF PumpLocal, PumpRead, EndRead, leaseVars, taskVars
<1>6. PumpEmpty(m) => PumpLocal(m)
  BY DEF PumpLocal, PumpEmpty, EndRead, leaseVars
<1>7. PumpAdd(m) => PumpLocal(m)
  BY DEF PumpLocal, PumpAdd, leaseVars
<1>8. \A row \in Held(m) : DispatchExpired(m, row) \/ FinishOK(m, row) \/ RewriteOK(m, row)
                             => PumpLocal(m)
  BY DEF PumpLocal, DispatchExpired, FinishOK, RewriteOK, Complete, leaseVars, pumpVars
<1> QED BY <1>1, <1>2, <1>3, <1>4, <1>5, <1>6, <1>7, <1>8

\* After an empty read the items still lie between the levels.
LEMMA AfterEmptyReadFacts ==
  ASSUME NEW am \in AckManagers, NEW level \in Nat, am.readLevel <= level, AckOrder(am)
  PROVE  LET new == AfterEmptyRead(am, level) IN
         /\ AckOrder(new) /\ new.readLevel = level /\ new.unacked = am.unacked
         /\ \/ new.ackLevel = am.ackLevel
            \/ new.ackLevel = level /\ am.unacked = {}
<1> DEFINE moved == SetReadLevel(am, level)
           new == AfterEmptyRead(am, level)
           Fine == /\ AckOrder(new) /\ new.readLevel = level /\ new.unacked = am.unacked
                   /\ \/ new.ackLevel = am.ackLevel
                      \/ new.ackLevel = level /\ am.unacked = {}
<1>a. am.ackLevel \in Int /\ am.readLevel \in Int /\ am.unacked \in SUBSET Nat /\ am.acked \in SUBSET Nat
  BY SMTT(30) DEF AckManagers, Levels
<1>1. /\ moved \in AckManagers /\ moved.readLevel = level /\ moved.ackLevel = am.ackLevel
      /\ moved.unacked = am.unacked /\ moved.acked = am.acked
  BY SetReadLevelFacts
<1>2. ASSUME am.ackLevel # am.readLevel PROVE Fine
  <2>1. new = moved
    BY <1>2 DEF AfterEmptyRead
  <2> HIDE DEF moved, new
  <2> QED BY SMTT(30), <1>a, <1>1, <2>1 DEF AckOrder
<1>3. ASSUME am.ackLevel = am.readLevel PROVE Fine
  <2>1. new = SetAckLevel(moved, level)
    BY <1>3 DEF AfterEmptyRead
  <2> HIDE DEF moved, new
  <2>2. /\ new.ackLevel = IF level > moved.ackLevel THEN level ELSE moved.ackLevel
        /\ new.readLevel = IF level > moved.readLevel THEN level ELSE moved.readLevel
        /\ new.unacked = moved.unacked /\ new.acked = moved.acked
    BY <1>1, <2>1, SetAckLevelFacts
  <2>3. am.unacked = {} /\ am.acked = {}
    BY SMTT(30), <1>3, <1>a DEF AckOrder
  <2>4. new.ackLevel = level /\ new.readLevel = level
    BY SMTT(30), <1>1, <1>3, <1>a, <2>2
  <2> QED BY SMTT(30), <1>1, <2>2, <2>3, <2>4 DEF AckOrder
<1>4. Fine
  <2> HIDE DEF Fine
  <2> QED BY <1>2, <1>3
<1> QED BY <1>4

\* Layer 4 is inductive.
LEMMA OrderStep ==
  ASSUME TypeInv, RowInv, OrderInv, [Next]_vars
  PROVE  OrderInv'
<1>t. /\ st \in [Manager -> ManagerStates] /\ ack \in [Manager -> AckManagers]
      /\ ppc \in [Manager -> {"idle", "read", "add", "persist", "exit"}]
      /\ cursor \in [Manager -> Nat] /\ pmax \in [Manager -> Nat]
      /\ batch \in [Manager -> SUBSET Rows]
  BY DEF TypeInv, TypeOK, LeaseOK, TasksOK, PumpOK
<1>u. \A n \in Manager : ack[n].readLevel \in Int /\ ack[n].ackLevel \in Int
  BY <1>t, AckFields
<1>o. ASSUME NEW m \in Manager, PumpLocal(m), OrderOf(m)' PROVE OrderInv'
  <2>1. ASSUME NEW n \in Manager \ {m} PROVE OrderOf(n)'
    <3>1. /\ st'[n] = st[n] /\ ack'[n] = ack[n] /\ ppc'[n] = ppc[n]
          /\ cursor'[n] = cursor[n] /\ batch'[n] = batch[n]
      BY <1>o, PumpOthers
    <3>2. OrderOf(n) /\ (Alive(n)' <=> Alive(n))
      BY <3>1 DEF OrderInv, Alive
    <3> QED BY <3>1, <3>2 DEF OrderOf
  <2> QED BY <1>o, <2>1 DEF OrderInv
<1>1. ASSUME NEW m \in Manager,
             LeaseRead(m) \/ LeaseLost(m) \/ LeaseFails(m) \/ Stop(m) \/ StopPersist(m)
      PROVE  OrderOf(m)'
  <2>1. UNCHANGED <<ack, ppc, cursor, batch>>
    BY <1>1 DEF LeaseRead, LeaseLost, LeaseFails, Stop, StopPersist, taskVars, pumpVars
  <2>2. Alive(m) => Alive(m)'
    <3>1. \/ ~Alive(m)
          \/ st' = [st EXCEPT ![m] = "stopping"] \/ st' = [st EXCEPT ![m] = "stopped"]
      BY <1>1 DEF LeaseRead, LeaseLost, LeaseFails, Stop, StopPersist, Alive
    <3> QED BY <3>1, <1>t DEF Alive
  <2> QED BY <2>1, <2>2 DEF OrderInv, OrderOf
<1>2. ASSUME NEW m \in Manager, LeaseWrite(m) PROVE OrderOf(m)'
  <2>1. /\ ack' = [ack EXCEPT ![m] = SetAckLevel(ack[m], seen[m].ackLevel)]
        /\ UNCHANGED <<ppc, cursor, batch>> /\ st' = [st EXCEPT ![m] = "running"]
        /\ st[m] = "leasing"
    BY <1>2 DEF LeaseWrite
  <2>2. ack[m] = NewAckManager /\ ppc[m] = "idle" /\ batch[m] = {}
    BY <2>1 DEF OrderInv, OrderOf, Alive
  <2>3. ack'[m] = SetAckLevel(NewAckManager, seen[m].ackLevel) /\ Alive(m)'
    BY <1>t, <2>1, <2>2 DEF Alive
  <2>4. AckOrder(SetAckLevel(NewAckManager, seen[m].ackLevel))
    <3>1. seen[m].ackLevel \in Nat
      BY TypeElements
    <3> QED BY SMTT(30), <3>1 DEF SetAckLevel, NewAckManager, AckOrder
  <2> QED BY <2>1, <2>2, <2>3, <2>4 DEF OrderOf
<1>3. ASSUME NEW m \in Manager, PumpStart(m) PROVE OrderOf(m)'
  <2>1. /\ UNCHANGED <<st, ack, batch>> /\ ppc[m] = "idle" /\ Alive(m)
        /\ ppc' = [ppc EXCEPT ![m] = "read"] /\ cursor' = [cursor EXCEPT ![m] = ack[m].readLevel]
    BY <1>3 DEF PumpStart, leaseVars, taskVars, Alive
  <2>2. ppc'[m] = "read" /\ cursor'[m] = ack[m].readLevel /\ batch[m] = {}
    BY <2>1, <1>t DEF OrderInv, OrderOf
  <2> QED BY SMTT(30), <2>1, <2>2, <1>u DEF OrderInv, OrderOf, Alive
<1>4. ASSUME NEW m \in Manager, PumpRead(m) PROVE OrderOf(m)'
  <2> DEFINE upper == Min2(cursor[m] + ReadRangeSize, pmax[m])
             rows == GetTasks(store, cursor[m], upper, BatchSize)
  <2>1. /\ UNCHANGED <<st, ack>> /\ ppc[m] = "read" /\ Alive(m) /\ ReadsOn(m)
        /\ \/ cursor' = [cursor EXCEPT ![m] = upper] /\ UNCHANGED <<ppc, batch>>
           \/ batch' = [batch EXCEPT ![m] = rows] /\ ppc' = [ppc EXCEPT ![m] = "add"]
    BY <1>4 DEF PumpRead, leaseVars, taskVars
  <2>2. cursor[m] <= upper /\ upper \in Nat
    BY SMTT(30), <2>1, <1>t, TaskListAssumption DEF Min2, ReadsOn
  <2>3. \A t \in rows : cursor[m] < t.id /\ t.id \in Nat
    BY TypeElements DEF GetTasks, Window, Stores, Rows
  <2> HIDE DEF upper, rows
  <2>4. ack[m].readLevel <= cursor[m] /\ batch[m] = {} /\ AckOrder(ack[m])
    BY <2>1 DEF OrderInv, OrderOf
  <2>5. CASE cursor' = [cursor EXCEPT ![m] = upper] /\ UNCHANGED <<ppc, batch>>
    <3>1. cursor'[m] = upper
      BY <2>5, <1>t
    <3>2. ack[m].readLevel <= upper
      BY <1>t, <1>u, <2>2, <2>4, Chain, Whole
    <3> QED BY <2>1, <2>4, <2>5, <3>1, <3>2 DEF OrderOf, Alive
  <2>6. CASE batch' = [batch EXCEPT ![m] = rows] /\ ppc' = [ppc EXCEPT ![m] = "add"]
    <3>1. batch'[m] = rows /\ ppc'[m] = "add"
      BY <2>6, <1>t
    <3>2. \A t \in rows : ack[m].readLevel < t.id
      BY SMTT(30), <2>3, <2>4, <1>t, <1>u
    <3> QED BY <3>1, <3>2, <2>1, <2>4 DEF OrderOf, Alive
  <2> QED BY <2>1, <2>5, <2>6
<1>5. ASSUME NEW m \in Manager,
             PumpReadFails(m) \/ PumpTimer(m) \/ PumpPersists(m) \/ PumpRejected(m)
             \/ PumpPersistErrs(m)
      PROVE  OrderOf(m)'
  <2>1. /\ UNCHANGED <<st, ack, batch>> /\ Alive(m) /\ ppc[m] \in {"idle", "read", "persist"}
        /\ \E x \in {"idle", "persist", "exit"} : ppc' = [ppc EXCEPT ![m] = x]
    BY <1>5 DEF PumpReadFails, PumpTimer, PumpPersists, PumpRejected, PumpPersistErrs,
        leaseVars, taskVars, Alive
  <2>2. ppc'[m] \in {"idle", "persist", "exit"} /\ batch[m] = {}
    BY <2>1, <1>t DEF OrderInv, OrderOf
  <2> QED BY <2>1, <2>2 DEF OrderInv, OrderOf, Alive
<1>6. ASSUME NEW m \in Manager, PumpEmpty(m) PROVE OrderOf(m)'
  <2>1. /\ UNCHANGED <<st, batch>> /\ Alive(m) /\ ppc[m] = "read"
        /\ ack' = [ack EXCEPT ![m] = AfterEmptyRead(ack[m], cursor[m])]
        /\ ppc' = [ppc EXCEPT ![m] = "idle"]
    BY <1>6 DEF PumpEmpty, leaseVars
  <2>2. ack[m].readLevel <= cursor[m] /\ AckOrder(ack[m]) /\ batch[m] = {}
    BY <2>1 DEF OrderInv, OrderOf
  <2>3. ack'[m] = AfterEmptyRead(ack[m], cursor[m]) /\ ppc'[m] = "idle"
    BY <2>1, <1>t
  <2>4. AckOrder(ack'[m])
    BY SMTT(30), <2>2, <2>3, <1>t, AfterEmptyReadFacts
  <2> QED BY <2>1, <2>2, <2>3, <2>4 DEF OrderOf, Alive
<1>7. ASSUME NEW m \in Manager, PumpAdd(m) PROVE OrderOf(m)'
  <2>1. PICK row \in batch[m] :
          /\ UNCHANGED st /\ Alive(m) /\ ppc[m] = "add" /\ IsNext(m, row)
          /\ \/ ack' = [ack EXCEPT ![m] = SetReadLevel(ack[m], row.id)]
             \/ ack' = [ack EXCEPT ![m] = ReadItem(ack[m], row.id)]
          /\ batch' = [batch EXCEPT ![m] = batch[m] \ {row}]
          /\ ppc' = [ppc EXCEPT ![m] = IF batch[m] = {row} THEN "idle" ELSE "add"]
    BY <1>7 DEF PumpAdd, leaseVars
  <2>2. row.id \in Nat /\ ack[m].readLevel < row.id /\ AckOrder(ack[m])
    BY SMTT(30), <1>t DEF OrderInv, OrderOf, Rows
  <2>3. AckOrder(ack'[m]) /\ ack'[m].readLevel = row.id
    <3>1. CASE ack' = [ack EXCEPT ![m] = SetReadLevel(ack[m], row.id)]
      <4>1. ack'[m] = SetReadLevel(ack[m], row.id)
        BY <3>1, <1>t
      <4>2. /\ ack'[m].readLevel = row.id /\ ack'[m].ackLevel = ack[m].ackLevel
            /\ ack'[m].unacked = ack[m].unacked /\ ack'[m].acked = ack[m].acked
        <5> DEFINE new == SetReadLevel(ack[m], row.id)
        <5>1. /\ new.readLevel = row.id /\ new.ackLevel = ack[m].ackLevel
              /\ new.unacked = ack[m].unacked /\ new.acked = ack[m].acked
          BY <2>2, <1>t, SetReadLevelFacts
        <5>2. ack'[m] = new
          BY <4>1
        <5> HIDE DEF new
        <5> QED BY <5>1, <5>2
      <4>3. ack[m].unacked \in SUBSET Nat /\ ack[m].acked \in SUBSET Nat
        BY <1>t, AckFields
      <4>4. ack[m].readLevel <= row.id
        BY <2>2, <1>u, Order, Whole
      <4>5. AckOrder(ack[m])
        BY <2>2
      <4>6. ack[m].ackLevel <= row.id
        <5>1. ack[m].ackLevel <= ack[m].readLevel
          BY <4>5 DEF AckOrder
        <5>2. row.id \in Int
          BY <2>2, Whole
        <5> QED BY <4>4, <5>1, <5>2, <1>u, Chain
      <4>7. \A i \in ack[m].unacked \cup ack[m].acked : ack[m].ackLevel < i /\ i <= row.id
        BY <4>3, <4>4, <4>5, <2>2, <1>u, Chain, Whole DEF AckOrder
      <4> QED BY <4>2, <4>5, <4>6, <4>7 DEF AckOrder
    <3>2. CASE ack' = [ack EXCEPT ![m] = ReadItem(ack[m], row.id)]
      <4>1. ack'[m] = ReadItem(ack[m], row.id)
        BY <3>2, <1>t
      <4>2. CanReadItem(ack[m], row.id)
        <5>1. ack[m].unacked \in SUBSET Nat /\ ack[m].acked \in SUBSET Nat
          BY <1>t DEF AckManagers
        <5> QED BY <5>1, <2>2, <1>u, Order, Chain, Whole DEF CanReadItem, AckOrder
      <4>3. ack[m].ackLevel # -1
        BY SMTT(30), <2>1 DEF TypeInv, LevelsSet
      <4>4. ack[m] \in AckManagers
        BY <1>t
      <4> QED BY <4>1, <4>2, <4>3, <4>4, <2>2, ReadItemOrder
    <3> QED BY <2>1, <3>1, <3>2
  <2>4. batch'[m] = batch[m] \ {row} /\ ppc'[m] = IF batch[m] = {row} THEN "idle" ELSE "add"
    BY <2>1, <1>t
  <2>5. \A t \in batch'[m] : row.id < t.id
    <3>1. ASSUME NEW t \in batch[m], t # row PROVE row.id < t.id
      <4>1. t \in KnownRows /\ row \in KnownRows
        BY KnownIs
      <4>2. t.id # row.id
        BY <3>1, <4>1 DEF RowInv, TaskIDsUnique
      <4>3. row.id <= t.id /\ t.id \in Nat
        BY <2>1, <1>t, FieldTypes DEF IsNext
      <4> QED BY <4>2, <4>3, <2>2, Order, Whole
    <3> QED BY <3>1, <2>4
  <2>6. ppc'[m] # "add" => batch'[m] = {}
    BY <2>4
  <2>7. ppc'[m] # "read" /\ Alive(m)'
    BY SMTT(30), <2>1, <2>4 DEF Alive
  <2> QED BY <2>3, <2>5, <2>6, <2>7 DEF OrderOf
<1>8. ASSUME NEW m \in Manager, PumpExit(m) PROVE OrderOf(m)'
  <2>1. /\ UNCHANGED <<st, ack>> /\ Alive(m)
        /\ ppc' = [ppc EXCEPT ![m] = "exit"] /\ batch' = [batch EXCEPT ![m] = {}]
    BY <1>8 DEF PumpExit, leaseVars, taskVars, Alive
  <2>2. ppc'[m] = "exit" /\ batch'[m] = {}
    BY <2>1, <1>t
  <2> QED BY <2>1, <2>2 DEF OrderInv, OrderOf, Alive
<1>9. ASSUME NEW m \in Manager, NEW row \in Held(m),
             DispatchExpired(m, row) \/ FinishOK(m, row) \/ RewriteOK(m, row)
      PROVE  OrderOf(m)'
  <2>1. /\ UNCHANGED <<st, ppc, cursor, batch>> /\ Alive(m)
        /\ ack' = [ack EXCEPT ![m] = AckItem(ack[m], row.id)]
    BY <1>9 DEF DispatchExpired, FinishOK, RewriteOK, Complete, leaseVars, pumpVars
  <2>2. row.id \in Nat
    BY TypeElements DEF Rows
  <2>3. ack'[m] = AckItem(ack[m], row.id)
    BY <2>1, <1>t
  <2>4. ack'[m].readLevel = ack[m].readLevel /\ (AckOrder(ack[m]) => AckOrder(ack'[m]))
    <3>1. ack[m] \in AckManagers
      BY <1>t
    <3>2. LET new == AckItem(ack[m], row.id)
          IN  new.readLevel = ack[m].readLevel /\ (AckOrder(ack[m]) => AckOrder(new))
      BY SMTT(30), <2>2, <3>1, AckItemFacts
    <3> QED BY <2>3, <3>2
  <2> QED BY <2>1, <2>4 DEF OrderInv, OrderOf, Alive
<1>10. CASE UNCHANGED <<st, ack, ppc, cursor, batch>>
  BY <1>10 DEF OrderInv, OrderOf, Alive
<1> QED BY OrderChanges, PumpActors, <1>o, <1>1, <1>2, <1>3, <1>4, <1>5, <1>6, <1>7,
          <1>8, <1>9, <1>10

\* Layer 4 holds in the initial state.
LEMMA OrderInit ==
  ASSUME Init
  PROVE  OrderInv
<1>1. \A m \in Manager : ack[m] = NewAckManager /\ ppc[m] = "idle" /\ batch[m] = {}
  BY DEF Init
<1>2. AckOrder(NewAckManager)
  BY SMTT(30) DEF AckOrder, NewAckManager
<1> QED BY <1>1, <1>2 DEF OrderInv, OrderOf

\* Layers 1 to 4 are an invariant.
LEMMA OrderInvariant == Spec => [](TypeInv /\ LeaseInv /\ RowInv /\ OrderInv)
<1>1. Init => OrderInv
  BY OrderInit
<1>2. TypeInv /\ RowInv /\ OrderInv /\ [Next]_vars => OrderInv'
  BY OrderStep
<1> QED BY IDsInvariant, <1>1, <1>2, PTL DEF Spec

\* The pump registers rows in increasing order, so that ReadItem never fails:
\* rows come from the store above the cursor, and IDs are unique.
THEOREM RowsReadInOrder == Spec => []ReadInOrder
<1>1. ASSUME TypeInv, OrderInv PROVE ReadInOrder
  <2>1. ASSUME NEW m \in Manager, NEW t \in batch[m] PROVE CanReadItem(ack[m], t.id)
    <3>1. /\ ack[m].unacked \in SUBSET Nat /\ ack[m].acked \in SUBSET Nat
          /\ ack[m].readLevel \in Int /\ t.id \in Nat
      BY <1>1, TypeElements, FieldTypes, AckFields
    <3>2. AckOrder(ack[m]) /\ ack[m].readLevel < t.id
      BY <1>1 DEF OrderInv, OrderOf
    <3> QED BY <3>1, <3>2, Order, Chain, Whole DEF AckOrder, CanReadItem
  <2> QED BY <2>1 DEF ReadInOrder
<1> QED BY OrderInvariant, <1>1, PTL
============================================================================
