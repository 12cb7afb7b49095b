--------------------------- MODULE SemaphoreProofs ---------------------------
(***************************************************************************)
(* The rows, the caches and the holds of workflows of Semaphore agree, for *)
(* any owners, hosts, calls, managers and bucket.                          *)
(***************************************************************************)
EXTENDS Semaphore, FiniteSetTheorems, TLAPS

\* The prover of a leaf that names none.
USE ZenonT(60)

-----------------------------------------------------------------------------
(* The buckets.                                                            *)

\* The natural numbers are integers.
LEMMA Whole ==
  /\ \A a \in Nat : a \in Int /\ a + 1 \in Nat /\ 0 <= a /\ -1 < a
  /\ 0 \in Nat /\ -1 \in Int
BY SMTT(30)

\* The order of the integers.
LEMMA Order ==
  ASSUME NEW a \in Int, NEW b \in Int
  PROVE  /\ a > b <=> b < a
         /\ a >= b <=> b <= a
         /\ ~(a < b) <=> b <= a
         /\ a <= b <=> (a < b \/ a = b)
         /\ a <= b <=> a < b + 1
         /\ a < b <=> a + 1 <= b
BY SMTT(30)

\* The order is transitive.
LEMMA Chain ==
  ASSUME NEW a \in Int, NEW b \in Int, NEW c \in Int
  PROVE  /\ a <= b /\ b <= c => a <= c
         /\ a < b /\ b <= c => a < c
         /\ a <= b /\ b < c => a < c
BY SMTT(30)

\* The quotient of a division.
LEMMA Quotient ==
  ASSUME NEW a \in Nat, NEW b \in Nat \ {0}
  PROVE  a \div b \in Nat /\ (a \div b) * b <= a /\ a < (a \div b) * b + b
BY SMTT(30)

\* A bucket ends where the next one begins.
LEMMA Ordered ==
  ASSUME NEW b \in Nat, NEW d \in Nat, b < d, NEW m \in Nat \ {0}
  PROVE  b * m \in Nat /\ d * m \in Nat /\ b * m + m <= d * m
<1>1. PICK k \in Nat : d = b + 1 + k
  <2>1. d - b - 1 \in Nat /\ d = b + 1 + (d - b - 1)
    BY SMTT(30)
  <2> QED BY <2>1
<1>2. d * m = b * m + m + k * m /\ k * m \in Nat /\ b * m \in Nat
  BY SMTT(30), <1>1
<1> QED BY SMTT(30), <1>2

\* The buckets of a semaphore partition its tokens, whatever its size and the
\* size of a bucket (NumBuckets, BucketTokenRange).
THEOREM BucketsPartition ==
  ASSUME NEW size \in Nat \ {0}, NEW m \in Nat \ {0}
  PROVE  Partition(size, m)
<1> DEFINE n == NumBuckets(size, m)
           range(b) == BucketTokenRange(size, m, b)
<1>1. n \in Nat /\ n * m <= size + m - 1 /\ size + m - 1 < n * m + m
  <2>1. size + m - 1 \in Nat
    BY SMTT(30)
  <2> QED BY <2>1, Quotient DEF NumBuckets
<1>2. ASSUME NEW b \in 0 .. n - 1
      PROVE  b * m \in Nat /\ b * m < size
  <2>1. b \in Nat /\ b < n
    BY SMTT(30), <1>1
  <2>2. b * m \in Nat /\ n * m \in Nat /\ b * m + m <= n * m
    BY <2>1, <1>1, Ordered
  <2> QED BY SMTT(30), <2>2, <1>1
<1>3. \A b \in 0 .. n - 1 : range(b) = {t \in Int : b * m + 1 <= t /\ t <= b * m + m /\ t <= size}
  BY SMTT(30), <1>2 DEF BucketTokenRange, Lesser
<1>4. \A b \in 0 .. n - 1 : range(b) # {} /\ range(b) \subseteq 1 .. size
  <2>1. ASSUME NEW b \in 0 .. n - 1
        PROVE  b * m + 1 \in range(b) /\ range(b) \subseteq 1 .. size
    BY SMTT(30), <1>2, <1>3
  <2> QED BY <2>1
<1>5. ASSUME NEW t \in 1 .. size
      PROVE  \E b \in 0 .. n - 1 : t \in range(b)
  <2> DEFINE b == (t - 1) \div m
  <2>1. b \in Nat /\ b * m <= t - 1 /\ t - 1 < b * m + m
    <3>1. t - 1 \in Nat
      BY SMTT(30)
    <3> QED BY <3>1, Quotient
  <2>2. b < n
    <3>1. SUFFICES ASSUME n <= b PROVE FALSE
      BY SMTT(30), <2>1, <1>1
    <3>2. n * m \in Nat /\ b * m \in Nat /\ n * m <= b * m
      <4>1. CASE n = b
        BY SMTT(30), <4>1, <2>1
      <4>2. CASE n < b
        BY SMTT(30), <4>2, <2>1, <1>1, Ordered
      <4> QED BY SMTT(30), <4>1, <4>2, <3>1, <2>1, <1>1
    <3> QED BY SMTT(30), <3>2, <2>1, <1>1
  <2>3. b \in 0 .. n - 1
    BY SMTT(30), <2>1, <2>2, <1>1
  <2> HIDE DEF b
  <2>4. t \in range(b)
    BY SMTT(30), <2>1, <2>3, <1>3
  <2> QED BY <2>3, <2>4
<1>6. ASSUME NEW b \in 0 .. n - 1, NEW d \in 0 .. n - 1, b < d
      PROVE  range(b) \cap range(d) = {}
  <2>1. b * m \in Nat /\ d * m \in Nat /\ b * m + m <= d * m
    BY SMTT(30), <1>6, <1>1, Ordered
  <2>2. ASSUME NEW t \in range(b), t \in range(d) PROVE FALSE
    BY SMTT(30), <2>1, <2>2, <1>3
  <2> QED BY <2>2
<1>7. \A b, d \in 0 .. n - 1 : b # d => range(b) \cap range(d) = {}
  <2>1. \A b, d \in 0 .. n - 1 : b # d => b < d \/ d < b
    BY SMTT(30), <1>1
  <2> HIDE DEF range
  <2> QED BY <2>1, <1>6
<1>8. UNION {range(b) : b \in 0 .. n - 1} = 1 .. size
  <2> HIDE DEF range
  <2> QED BY <1>4, <1>5
<1> QED BY <1>4, <1>7, <1>8 DEF Partition

-----------------------------------------------------------------------------
(* The cache.                                                              *)

\* The tokens of the bucket are finitely many positive numbers.
LEMMA TokensFinite ==
  /\ IsFiniteSet(Tokens)
  /\ Tokens \subseteq Nat /\ NoToken \notin Tokens
<1> DEFINE lo == Bucket * BucketSize + 1
           hi == Bucket * BucketSize + Lesser(BucketSize, Size - Bucket * BucketSize)
<1>1. NumBuckets(Size, BucketSize) \in Int
  BY SMTT(30), BucketAssumption DEF NumBuckets
<1>2. Bucket \in Nat
  BY SMTT(30), <1>1, BucketAssumption
<1>3. Bucket * BucketSize \in Nat
  BY SMTT(30), <1>2, BucketAssumption
<1>4. lo \in Nat \ {0} /\ hi \in Int
  BY SMTT(30), <1>3, BucketAssumption DEF Lesser
<1>5. Tokens = lo .. hi
  BY DEF Tokens, BucketTokenRange
<1> HIDE DEF lo, hi
<1>6. IsFiniteSet(lo .. hi)
  BY SMTT(30), <1>4, FS_Interval
<1> QED BY SMTT(30), <1>4, <1>5, <1>6 DEF NoToken

\* The free count of updateToken is the number of free tokens.
LEMMA UpdateCounts ==
  ASSUME NEW c \in Caches, Indexed(c), NEW t \in Tokens,
         NEW e \in Owner \cup {FreeToken, Unavailable}
  PROVE  UpdateToken(c, t, e).freeCount = Cardinality(FreeTokens(UpdateToken(c, t, e)))
<1> DEFINE d == UpdateToken(c, t, e)
           F == FreeTokens(c)
<1>1. CASE c.tokens[t] = e
  BY <1>1 DEF UpdateToken, Indexed
<1>2. CASE c.tokens[t] # e
  <2> DEFINE other == IF e \in Owner THEN c.tokenByOwner[e] ELSE NoToken
  <2>1. d.freeCount = c.freeCount - (IF c.tokens[t] = FreeToken THEN 1 ELSE 0)
                                  + (IF e = FreeToken THEN 1 ELSE 0)
    BY <1>2 DEF UpdateToken, FreeCount
  <2>2. \A s \in Tokens : d.tokens[s] = IF s = t THEN e
                           ELSE IF s = other THEN Unavailable ELSE c.tokens[s]
    BY <1>2 DEF UpdateToken
  <2>3. \A s \in Tokens : s = other => c.tokens[s] # FreeToken
    <3>1. ASSUME NEW s \in Tokens, s = other PROVE c.tokens[s] # FreeToken
      <4>1. e \in Owner /\ c.tokenByOwner[e] = s
        BY <3>1, TokensFinite
      <4>2. c.tokens[s] = e
        BY <4>1 DEF Indexed
      <4> QED BY <4>1, <4>2, BucketAssumption
    <3> QED BY <3>1
  <2>4. FreeTokens(d) = (F \ {t}) \cup (IF e = FreeToken THEN {t} ELSE {})
    BY <2>2, <2>3, BucketAssumption DEF FreeTokens
  <2>5. F \subseteq Tokens /\ (t \in F <=> c.tokens[t] = FreeToken)
    BY DEF FreeTokens
  <2>6. IsFiniteSet(F)
    BY <2>5, TokensFinite, FS_Subset
  <2>7. c.freeCount = Cardinality(F) /\ Cardinality(F) \in Nat
    BY <2>6, FS_CardinalityType DEF Indexed
  <2>8. Cardinality(F \ {t}) = IF t \in F THEN Cardinality(F) - 1 ELSE Cardinality(F)
    BY <2>6, FS_RemoveElement
  <2>9. Cardinality(F \cup {t}) = IF t \in F THEN Cardinality(F) ELSE Cardinality(F) + 1
    BY <2>6, FS_AddElement
  <2> HIDE DEF d, F
  <2>10. CASE e = FreeToken
    <3>1. t \notin F
      BY <1>2, <2>5, <2>10
    <3>2. FreeTokens(d) = F \cup {t}
      BY <2>4, <2>10, <3>1
    <3> QED BY SMTT(30), <1>2, <2>1, <2>7, <2>9, <2>10, <3>1, <3>2 DEF d
  <2>11. CASE e # FreeToken
    <3>1. FreeTokens(d) = F \ {t}
      BY <2>4, <2>11
    <3> QED BY SMTT(30), <2>1, <2>5, <2>7, <2>8, <2>11, <3>1 DEF d
  <2> QED BY <2>10, <2>11
<1> QED BY <1>1, <1>2

\* Whatever entry updateToken writes, the index of the owners and the count of
\* free tokens stay right, for a bucket of any size.
THEOREM UpdateIndexed ==
  ASSUME NEW c \in Caches, Indexed(c), NEW t \in Tokens,
         NEW e \in Owner \cup {FreeToken, Unavailable}
  PROVE  Indexed(UpdateToken(c, t, e)) /\ UpdateToken(c, t, e) \in Caches
<1> DEFINE d == UpdateToken(c, t, e)
<1>1. CASE c.tokens[t] = e
  BY <1>1 DEF UpdateToken
<1>2. CASE c.tokens[t] # e
  <2> DEFINE other == IF e \in Owner THEN c.tokenByOwner[e] ELSE NoToken
             tk == [s \in Tokens |-> IF s = t THEN e
                                     ELSE IF s = other THEN Unavailable ELSE c.tokens[s]]
             by == [o \in Owner |-> IF o = e THEN t
                                    ELSE IF o = c.tokens[t] THEN NoToken ELSE c.tokenByOwner[o]]
  <2>1. d.tokens = tk /\ d.tokenByOwner = by
    BY <1>2 DEF UpdateToken
  <2>2. \A o \in Owner, s \in Tokens : tk[s] = o <=> by[o] = s
    BY SMTT(30), <1>2, BucketAssumption, TokensFinite DEF Indexed, Caches
  <2>3. d.freeCount = Cardinality(FreeTokens(d))
    BY UpdateCounts
  <2>4. Cardinality(FreeTokens(d)) \in Nat
    <3>1. FreeTokens(d) \subseteq Tokens
      BY DEF FreeTokens
    <3> QED BY <3>1, TokensFinite, FS_Subset, FS_CardinalityType
  <2>5. tk \in [Tokens -> Owner \cup {FreeToken, Unavailable}]
    BY DEF Caches
  <2>6. by \in [Owner -> Tokens \cup {NoToken}]
    BY DEF Caches
  <2>7. d = [tokens |-> tk, tokenByOwner |-> by, freeCount |-> d.freeCount]
    BY <1>2 DEF UpdateToken
  <2> HIDE DEF d, tk, by
  <2>8. d \in Caches
    BY SMTT(30), <2>3, <2>4, <2>5, <2>6, <2>7 DEF Caches
  <2>9. Indexed(d)
    BY <2>1, <2>2, <2>3 DEF Indexed
  <2> QED BY <2>8, <2>9 DEF d
<1> QED BY <1>1, <1>2

\* A cache that newBucketCache builds from rows that agree, agrees with itself.
LEMMA NewCacheBacked ==
  ASSUME TypeOK, RowsInverse
  PROVE  /\ NewBucketCache(holder, held) \in Caches
         /\ Indexed(NewBucketCache(holder, held))
         /\ \A o \in Owner : NewBucketCache(holder, held).tokenByOwner[o] \in {NoToken, held[o]}
<1> DEFINE entry(t) == IF \E o \in Owner : held[o] = t THEN CHOOSE o \in Owner : held[o] = t
                       ELSE IF holder[t] \in Owner THEN Unavailable ELSE FreeToken
           tk == [t \in Tokens |-> entry(t)]
           by == [o \in Owner |-> IF held[o] \in Tokens THEN held[o] ELSE NoToken]
           n == Cardinality({t \in Tokens : entry(t) = FreeToken})
           d == NewBucketCache(holder, held)
<1>1. d = [tokens |-> tk, tokenByOwner |-> by, freeCount |-> n]
  BY DEF NewBucketCache
<1>2. \A t \in Tokens : entry(t) \in Owner \cup {FreeToken, Unavailable}
  OBVIOUS
<1>3. tk \in [Tokens -> Owner \cup {FreeToken, Unavailable}]
  BY <1>2
<1>4. by \in [Owner -> Tokens \cup {NoToken}]
  OBVIOUS
<1>5. n \in Nat
  <2>1. IsFiniteSet({t \in Tokens : entry(t) = FreeToken})
    BY TokensFinite, FS_Subset
  <2> QED BY <2>1, FS_CardinalityType
<1>6. FreeTokens(d) = {t \in Tokens : entry(t) = FreeToken}
  BY SMTT(30), <1>1 DEF FreeTokens
<1>7. \A o \in Owner, t \in Tokens : held[o] = t => entry(t) = o
  BY SMTT(30) DEF RowsInverse
<1>8. \A o \in Owner, t \in Tokens : entry(t) = o => held[o] = t
  BY BucketAssumption
<1>9. \A o \in Owner, t \in Tokens : tk[t] = o <=> by[o] = t
  BY <1>7, <1>8, TokensFinite
<1>10. \A o \in Owner : by[o] \in {NoToken, held[o]}
  OBVIOUS
<1> HIDE DEF tk, by, n, entry, d
<1>11. d \in Caches
  BY <1>1, <1>3, <1>4, <1>5 DEF Caches
<1>12. Indexed(d)
  BY <1>1, <1>6, <1>9 DEF Indexed, n
<1> QED BY SMTT(30), <1>1, <1>10, <1>11, <1>12 DEF d

\* updateFromTokenRow and recordGrantResult leave a cache that the database backs.
LEMMA ConfirmBacked ==
  ASSUME TypeOK, Agree, NEW c \in Call, call[c].pc = "confirm"
  PROVE  LET t == call[c].token
             d == UpdateFromTokenRow(mgr[call[c].m].cache, call[c].owner, t, holder[t])
         IN  /\ d \in Caches /\ Indexed(d)
             /\ \A o \in Owner : d.tokenByOwner[o] \in {NoToken, held[o]}
<1> DEFINE t == call[c].token
           old == mgr[call[c].m].cache
           e == IF holder[t] \in {call[c].owner, FreeToken} THEN holder[t] ELSE Unavailable
           d == UpdateToken(old, t, e)
<1>1. old \in Caches /\ Indexed(old) /\ t \in Tokens /\ call[c].owner \in Owner
  BY DEF Agree, CallBacked, Backed, Serving
<1>2. e \in Owner \cup {FreeToken, Unavailable}
  BY <1>1
<1>3. \A o \in Owner : old.tokenByOwner[o] \in {NoToken, held[o]}
  BY DEF Agree, CallBacked, Backed, Serving
<1>4. e \in Owner => held[e] = t
  BY SMTT(30), <1>1, BucketAssumption DEF Agree, RowsInverse
<1> HIDE DEF old, e, t
<1>5. \A o \in Owner : d.tokenByOwner[o] \in {NoToken, held[o]}
  BY <1>1, <1>2, <1>3, <1>4 DEF UpdateToken
<1>6. d \in Caches /\ Indexed(d)
  BY <1>1, <1>2, UpdateIndexed
<1> QED BY <1>5, <1>6 DEF UpdateFromTokenRow, t, old, e

\* An answer to a grant, as the cache records it.
LEMMA RecordBacked ==
  ASSUME TypeOK, Agree, NEW c \in Call, call[c].pc = "record"
  PROVE  LET t == call[c].token
             d == RecordGrantResult(mgr[call[c].m].cache, call[c].owner, t, call[c].outcome)
         IN  /\ d \in Caches /\ Indexed(d)
             /\ \A o \in Owner : d.tokenByOwner[o] \in {NoToken, held[o]}
<1> DEFINE t == call[c].token
           old == mgr[call[c].m].cache
           e == IF call[c].outcome = "taken" THEN Unavailable ELSE call[c].owner
           d == UpdateToken(old, t, e)
<1>1. old \in Caches /\ Indexed(old) /\ t \in Tokens /\ call[c].owner \in Owner
  BY DEF Agree, CallBacked, Backed, Serving
<1>2. e \in Owner \cup {FreeToken, Unavailable}
  BY <1>1
<1>3. \A o \in Owner : old.tokenByOwner[o] \in {NoToken, held[o]}
  BY DEF Agree, CallBacked, Backed, Serving
<1>4. e \in Owner => held[e] = t
  BY <1>1, BucketAssumption DEF Agree, CallBacked
<1> HIDE DEF old, e, t
<1>5. \A o \in Owner : d.tokenByOwner[o] \in {NoToken, held[o]}
  BY <1>1, <1>2, <1>3, <1>4 DEF UpdateToken
<1>6. d \in Caches /\ Indexed(d)
  BY <1>1, <1>2, UpdateIndexed
<1> QED BY <1>5, <1>6 DEF RecordGrantResult, t, old, e

-----------------------------------------------------------------------------
(* Types.                                                                  *)

RestTyped ==
  /\ holder \in [Tokens -> Owner \cup {NoRow, FreeToken}]
  /\ held \in [Owner -> Tokens \cup {NoToken}]
  /\ rangeID \in Nat /\ late \subseteq Owner \X Tokens
  /\ ring \in Host /\ changed \subseteq Host
  /\ registry \in [Host -> Manager \cup {0}]

HistoryTyped ==
  /\ hold \in [Owner -> Tokens \cup {NoToken, Gone}]
  /\ attempt \in [Owner -> Call \cup {None}]

\* The type of one call.
LEMMA CallTyped == ASSUME TypeOK, NEW c \in Call PROVE call[c] \in CallRecord
BY DEF TypeOK

\* The end of a call keeps the types.
LEMMA AnswerTyped ==
  ASSUME TypeOK, NEW c \in Call, NEW t \in Tokens \cup {NoToken}, Answer(c, t)
  PROVE  call' \in [Call -> CallRecord] /\ HistoryTyped'
<1>1. NoCall \in CallRecord
  BY SMTT(30), SemaphoreAssumption DEF NoCall, CallRecord
<1>2. call' \in [Call -> CallRecord]
  BY <1>1 DEF Answer, TypeOK
<1>3. HistoryTyped'
  BY DEF Answer, TypeOK, HistoryTyped
<1> QED BY <1>2, <1>3

\* So does the failure of a call.
LEMMA FailTyped ==
  ASSUME TypeOK, NEW c \in Call, Fail(c)
  PROVE  call' \in [Call -> CallRecord] /\ HistoryTyped'
BY AnswerTyped DEF Fail

\* A step of a call keeps the types.
LEMMA GotoTyped ==
  ASSUME TypeOK, NEW c \in Call,
         NEW pc \in {"idle", "create", "start", "stopping", "await"} \cup Loading \cup Serving,
         Goto(c, pc)
  PROVE  call' \in [Call -> CallRecord] /\ HistoryTyped'
<1>1. [call[c] EXCEPT !.pc = pc, !.token = NoToken, !.outcome = "none"] \in CallRecord
  BY CallTyped DEF CallRecord
<1>2. call' \in [Call -> CallRecord]
  BY <1>1 DEF Goto, TypeOK
<1>3. HistoryTyped'
  BY DEF Goto, TypeOK, HistoryTyped, historyVars
<1> QED BY <1>2, <1>3

\* Every step keeps the types.
LEMMA TypeStep ==
  ASSUME TypeOK, Agree, [Next]_vars
  PROVE  TypeOK'
<1>1. ASSUME NEW g \in late, DecideLate(g)
      PROVE  TypeOK'
  <2>1. mgr' \in [Manager -> ManagerRecord]
    BY <1>1 DEF TypeOK, DecideLate
  <2>2. call' \in [Call -> CallRecord] /\ HistoryTyped'
    BY <1>1 DEF TypeOK, DecideLate, HistoryTyped, historyVars
  <2>3. RestTyped'
    BY SMTT(30), <1>1, SemaphoreAssumption DEF TypeOK, RestTyped, DecideLate, GrantSemaphoreToken, dbVars, ringVars
  <2> QED BY <2>1, <2>2, <2>3 DEF TypeOK, RestTyped, HistoryTyped
<1>2. ASSUME NEW c \in Call, GetOrCreate(c)
      PROVE  TypeOK'
  <2>1. mgr' \in [Manager -> ManagerRecord]
    <3> DEFINE fresh == {m \in Manager : mgr[m].state = "none"}
               m == CHOOSE k \in fresh : TRUE
    <3>1. CASE fresh # {}
      <4>1. m \in Manager
        BY <3>1
      <4> HIDE DEF m
      <4>2. mgr[m] \in ManagerRecord /\ call[c].host \in Host \cup {None}
        BY <4>1 DEF TypeOK, CallRecord
      <4>3. [mgr[m] EXCEPT !.host = call[c].host, !.state = "created"] \in ManagerRecord
        BY <4>2 DEF ManagerRecord
      <4> QED BY <1>2, <4>1, <4>3 DEF GetOrCreate, TypeOK, m
    <3>2. CASE fresh = {}
      BY <1>2, <3>2 DEF GetOrCreate, TypeOK
    <3> QED BY <3>1, <3>2
  <2>2. call' \in [Call -> CallRecord] /\ HistoryTyped'
    <3> DEFINE fresh == {m \in Manager : mgr[m].state = "none"}
               new == CHOOSE k \in fresh : TRUE
    <3>1. \E m \in Manager : call' = [call EXCEPT ![c].pc = "start", ![c].m = m]
      <4>1. CASE registry[call[c].host] # 0
        <5>1. call[c].host \in Host
          BY <1>2 DEF GetOrCreate, Agree, CallBacked
        <5>2. registry[call[c].host] \in Manager
          BY <4>1, <5>1 DEF TypeOK
        <5> QED BY <1>2, <4>1, <5>2 DEF GetOrCreate
      <4>2. CASE registry[call[c].host] = 0
        BY <1>2, <4>2 DEF GetOrCreate
      <4> QED BY <4>1, <4>2
    <3>2. PICK m \in Manager : call' = [call EXCEPT ![c].pc = "start", ![c].m = m]
      BY <3>1
    <3>3. [call[c] EXCEPT !.pc = "start", !.m = m] \in CallRecord
      BY CallTyped DEF CallRecord
    <3> QED BY <1>2, <3>2, <3>3 DEF GetOrCreate, TypeOK, HistoryTyped, historyVars
  <2>3. RestTyped'
    BY SMTT(30), <1>2, SemaphoreAssumption DEF TypeOK, RestTyped, GetOrCreate, dbVars, ringVars
  <2> QED BY <2>1, <2>2, <2>3 DEF TypeOK, RestTyped, HistoryTyped
<1>3. ASSUME NEW c \in Call, Start(c)
      PROVE  TypeOK'
  <2>1. mgr' \in [Manager -> ManagerRecord]
    <3>1. call[c].m \in Manager /\ mgr[call[c].m] \in ManagerRecord
      BY <1>3 DEF Start, Agree, CallBacked, TypeOK, Loading, Serving
    <3>2. [mgr[call[c].m] EXCEPT !.state = "starting"] \in ManagerRecord
      BY <3>1 DEF ManagerRecord
    <3> QED BY <1>3, <3>1, <3>2 DEF Start, TypeOK
  <2>2. call' \in [Call -> CallRecord] /\ HistoryTyped'
    <3>1. Fail(c) \/ Goto(c, "claim") \/ Goto(c, "await")
      BY <1>3 DEF Start
    <3> QED BY <3>1, FailTyped, GotoTyped DEF Loading, Serving
  <2>3. RestTyped'
    BY <1>3, SemaphoreAssumption DEF TypeOK, RestTyped, Start, dbVars, ringVars
  <2> QED BY <2>1, <2>2, <2>3 DEF TypeOK, RestTyped, HistoryTyped
<1>4. ASSUME NEW c \in Call, Claim(c)
      PROVE  TypeOK'
  <2>1. mgr' \in [Manager -> ManagerRecord]
    <3>1. call[c].m \in Manager /\ mgr[call[c].m] \in ManagerRecord
      BY <1>4 DEF Claim, Agree, CallBacked, TypeOK, Loading, Serving
    <3>2. [mgr[call[c].m] EXCEPT !.rangeID = rangeID + 1] \in ManagerRecord
      <4>1. rangeID + 1 \in Nat
        BY Whole DEF TypeOK
      <4> QED BY <3>1, <4>1 DEF ManagerRecord
    <3> QED BY <1>4, <3>1, <3>2 DEF Claim, TypeOK
  <2>2. call' \in [Call -> CallRecord] /\ HistoryTyped'
    <3>1. Goto(c, "scan")
      BY <1>4 DEF Claim
    <3> QED BY <3>1, GotoTyped DEF Loading, Serving
  <2>3. RestTyped'
    BY SMTT(30), <1>4, SemaphoreAssumption DEF TypeOK, RestTyped, Claim, dbVars, ringVars
  <2> QED BY <2>1, <2>2, <2>3 DEF TypeOK, RestTyped, HistoryTyped
<1>5. ASSUME NEW c \in Call, BuildCache(c)
      PROVE  TypeOK'
  <2>1. mgr' \in [Manager -> ManagerRecord]
    <3>1. call[c].m \in Manager /\ mgr[call[c].m] \in ManagerRecord
      BY <1>5 DEF BuildCache, Agree, CallBacked, TypeOK, Loading, Serving
    <3>2. [mgr[call[c].m] EXCEPT !.cache = NewBucketCache(holder, held)] \in ManagerRecord
      BY <3>1, NewCacheBacked DEF Agree, ManagerRecord
    <3> QED BY <1>5, <3>1, <3>2 DEF BuildCache, TypeOK
  <2>2. call' \in [Call -> CallRecord] /\ HistoryTyped'
    <3>1. Goto(c, "finish")
      BY <1>5 DEF BuildCache
    <3> QED BY <3>1, GotoTyped DEF Loading, Serving
  <2>3. RestTyped'
    BY <1>5, SemaphoreAssumption DEF TypeOK, RestTyped, BuildCache, dbVars, ringVars
  <2> QED BY <2>1, <2>2, <2>3 DEF TypeOK, RestTyped, HistoryTyped
<1>6. ASSUME NEW c \in Call, FinishLoad(c)
      PROVE  TypeOK'
  <2>1. mgr' \in [Manager -> ManagerRecord]
    <3>1. call[c].m \in Manager /\ mgr[call[c].m] \in ManagerRecord
      BY <1>6 DEF FinishLoad, Agree, CallBacked, TypeOK, Loading, Serving
    <3>2. Loaded(call[c].m) \in ManagerRecord
      BY <3>1 DEF ManagerRecord, Loaded
    <3> QED BY <1>6, <3>1, <3>2 DEF FinishLoad, TypeOK
  <2>2. call' \in [Call -> CallRecord] /\ HistoryTyped'
    <3>1. Fail(c) \/ Goto(c, "await")
      BY <1>6 DEF FinishLoad
    <3> QED BY <3>1, FailTyped, GotoTyped DEF Loading, Serving
  <2>3. RestTyped'
    BY <1>6, SemaphoreAssumption DEF TypeOK, RestTyped, FinishLoad, dbVars, ringVars
  <2> QED BY <2>1, <2>2, <2>3 DEF TypeOK, RestTyped, HistoryTyped
<1>7. ASSUME NEW c \in Call, LoadFails(c)
      PROVE  TypeOK'
  <2>1. mgr' \in [Manager -> ManagerRecord]
    <3>1. call[c].m \in Manager /\ mgr[call[c].m] \in ManagerRecord
      BY <1>7 DEF LoadFails, Agree, CallBacked, TypeOK, Loading, Serving
    <3>2. Stopping(call[c].m) \in ManagerRecord
      BY <3>1 DEF ManagerRecord, Stopping
    <3> QED BY <1>7, <3>1, <3>2 DEF LoadFails, TypeOK
  <2>2. call' \in [Call -> CallRecord] /\ HistoryTyped'
    <3>1. Goto(c, "stopping")
      BY <1>7 DEF LoadFails
    <3> QED BY <3>1, GotoTyped DEF Loading, Serving
  <2>3. RestTyped'
    BY SMTT(30), <1>7, SemaphoreAssumption DEF TypeOK, RestTyped, LoadFails, dbVars, ringVars
  <2> QED BY <2>1, <2>2, <2>3 DEF TypeOK, RestTyped, HistoryTyped
<1>8. ASSUME NEW c \in Call, LoadFailed(c)
      PROVE  TypeOK'
  <2>1. mgr' \in [Manager -> ManagerRecord]
    BY <1>8 DEF TypeOK, LoadFailed
  <2>2. call' \in [Call -> CallRecord] /\ HistoryTyped'
    <3>1. Fail(c)
      BY <1>8 DEF LoadFailed
    <3> QED BY <3>1, FailTyped
  <2>3. RestTyped'
    BY <1>8, SemaphoreAssumption DEF TypeOK, RestTyped, LoadFailed, dbVars, ringVars
  <2> QED BY <2>1, <2>2, <2>3 DEF TypeOK, RestTyped, HistoryTyped
<1>9. ASSUME NEW c \in Call, AwaitStartup(c)
      PROVE  TypeOK'
  <2>1. mgr' \in [Manager -> ManagerRecord]
    BY <1>9 DEF TypeOK, AwaitStartup
  <2>2. call' \in [Call -> CallRecord] /\ HistoryTyped'
    <3>1. Fail(c) \/ Goto(c, "find")
      BY <1>9 DEF AwaitStartup
    <3> QED BY <3>1, FailTyped, GotoTyped DEF Loading, Serving
  <2>3. RestTyped'
    BY <1>9, SemaphoreAssumption DEF TypeOK, RestTyped, AwaitStartup, dbVars, ringVars
  <2> QED BY <2>1, <2>2, <2>3 DEF TypeOK, RestTyped, HistoryTyped
<1>10. ASSUME NEW c \in Call, FindHeldToken(c)
      PROVE  TypeOK'
  <2>1. mgr' \in [Manager -> ManagerRecord]
    BY <1>10 DEF TypeOK, FindHeldToken
  <2>2. call' \in [Call -> CallRecord] /\ HistoryTyped'
    <3> DEFINE t == mgr[call[c].m].cache.tokenByOwner[call[c].owner]
    <3>1. t \in Tokens \cup {NoToken}
      BY <1>10 DEF FindHeldToken, Agree, CallBacked, Backed, Caches, Serving
    <3> HIDE DEF t
    <3>2. \A pc \in {"grant", "confirm"} : [call[c] EXCEPT !.pc = pc, !.token = t] \in CallRecord
      BY <3>1, CallTyped DEF CallRecord, Serving
    <3> QED BY <1>10, <3>2 DEF FindHeldToken, TypeOK, HistoryTyped, historyVars, t
  <2>3. RestTyped'
    BY <1>10, SemaphoreAssumption DEF TypeOK, RestTyped, FindHeldToken, dbVars, ringVars
  <2> QED BY <2>1, <2>2, <2>3 DEF TypeOK, RestTyped, HistoryTyped
<1>11. ASSUME NEW c \in Call, ConfirmToken(c)
      PROVE  TypeOK'
  <2>1. mgr' \in [Manager -> ManagerRecord]
    <3> DEFINE m == call[c].m
               cache == UpdateFromTokenRow(mgr[m].cache, call[c].owner, call[c].token, holder[call[c].token])
    <3>1. m \in Manager /\ mgr[m] \in ManagerRecord
      BY <1>11 DEF ConfirmToken, Agree, CallBacked, TypeOK
    <3>2. cache \in Caches
      BY <1>11, ConfirmBacked DEF ConfirmToken
    <3> HIDE DEF m, cache
    <3>3. [mgr[m] EXCEPT !.cache = cache] \in ManagerRecord
      BY <3>1, <3>2 DEF ManagerRecord
    <3> QED BY <1>11, <3>1, <3>3 DEF ConfirmToken, TypeOK, m, cache
  <2>2. call' \in [Call -> CallRecord] /\ HistoryTyped'
    <3>1. Answer(c, call[c].token) \/ Goto(c, "grant")
      BY <1>11 DEF ConfirmToken
    <3>2. call[c].token \in Tokens
      BY <1>11 DEF ConfirmToken, Agree, CallBacked
    <3> QED BY <3>1, <3>2, AnswerTyped, GotoTyped DEF Loading, Serving
  <2>3. RestTyped'
    BY <1>11, SemaphoreAssumption DEF TypeOK, RestTyped, ConfirmToken, dbVars, ringVars
  <2> QED BY <2>1, <2>2, <2>3 DEF TypeOK, RestTyped, HistoryTyped
<1>12. ASSUME NEW c \in Call, AnswerNoSlot(c)
      PROVE  TypeOK'
  <2>1. mgr' \in [Manager -> ManagerRecord]
    BY <1>12 DEF TypeOK, AnswerNoSlot
  <2>2. call' \in [Call -> CallRecord] /\ HistoryTyped'
    <3>1. Fail(c)
      BY <1>12 DEF AnswerNoSlot
    <3> QED BY <3>1, FailTyped
  <2>3. RestTyped'
    BY <1>12, SemaphoreAssumption DEF TypeOK, RestTyped, AnswerNoSlot, dbVars, ringVars
  <2> QED BY <2>1, <2>2, <2>3 DEF TypeOK, RestTyped, HistoryTyped
<1>13. ASSUME NEW c \in Call, PickFreeToken(c)
      PROVE  TypeOK'
  <2>1. mgr' \in [Manager -> ManagerRecord]
    BY <1>13 DEF TypeOK, PickFreeToken
  <2>2. call' \in [Call -> CallRecord] /\ HistoryTyped'
    <3>1. PICK t \in Tokens :
            call' = [call EXCEPT ![c].pc = "write", ![c].token = t, ![c].tries = @ + 1]
      BY <1>13 DEF PickFreeToken, FreeTokens
    <3>2. [call[c] EXCEPT !.pc = "write", !.token = t, !.tries = @ + 1] \in CallRecord
      BY SMTT(30), <1>13, SemaphoreAssumption DEF PickFreeToken, CallRecord, TypeOK, Serving
    <3> QED BY <1>13, <3>1, <3>2 DEF PickFreeToken, TypeOK, HistoryTyped, historyVars
  <2>3. RestTyped'
    BY <1>13, SemaphoreAssumption DEF TypeOK, RestTyped, PickFreeToken, dbVars, ringVars
  <2> QED BY <2>1, <2>2, <2>3 DEF TypeOK, RestTyped, HistoryTyped
<1>14. ASSUME NEW c \in Call, WriteGrant(c)
      PROVE  TypeOK'
  <2>1. mgr' \in [Manager -> ManagerRecord]
    BY <1>14 DEF TypeOK, WriteGrant
  <2>2. call' \in [Call -> CallRecord] /\ HistoryTyped'
    <3> DEFINE o == call[c].owner
               t == Answered(o, call[c].token)
               x == GrantOutcome(o, call[c].token)
    <3>1. t \in Tokens \cup {NoToken} /\ x \in {"applied", "held", "taken"}
      BY <1>14 DEF WriteGrant, Agree, CallBacked, TypeOK, Answered, GrantOutcome
    <3> HIDE DEF t, x
    <3>2. [call[c] EXCEPT !.pc = "record", !.outcome = x, !.token = t] \in CallRecord
      BY <3>1, CallTyped DEF CallRecord, Serving
    <3> QED BY <1>14, <3>2 DEF WriteGrant, TypeOK, HistoryTyped, historyVars, t, x
  <2>3. RestTyped'
    <3>1. call[c].owner \in Owner /\ call[c].token \in Tokens
      BY <1>14 DEF WriteGrant, Agree, CallBacked
    <3> QED BY <1>14, <3>1 DEF TypeOK, RestTyped, WriteGrant, GrantSemaphoreToken, ringVars
  <2> QED BY <2>1, <2>2, <2>3 DEF TypeOK, RestTyped, HistoryTyped
<1>15. ASSUME NEW c \in Call, RecordGrant(c)
      PROVE  TypeOK'
  <2>1. mgr' \in [Manager -> ManagerRecord]
    <3> DEFINE m == call[c].m
               cache == RecordGrantResult(mgr[m].cache, call[c].owner, call[c].token, call[c].outcome)
    <3>1. m \in Manager /\ mgr[m] \in ManagerRecord
      BY <1>15 DEF RecordGrant, Agree, CallBacked, TypeOK
    <3>2. cache \in Caches
      BY <1>15, RecordBacked DEF RecordGrant
    <3> HIDE DEF m, cache
    <3>3. [mgr[m] EXCEPT !.cache = cache] \in ManagerRecord
      BY <3>1, <3>2 DEF ManagerRecord
    <3> QED BY <1>15, <3>1, <3>3 DEF RecordGrant, TypeOK, m, cache
  <2>2. call' \in [Call -> CallRecord] /\ HistoryTyped'
    <3>1. Answer(c, call[c].token) \/ Goto(c, "grant")
      BY <1>15 DEF RecordGrant
    <3>2. call[c].token \in Tokens
      BY <1>15 DEF RecordGrant, Agree, CallBacked
    <3> QED BY <3>1, <3>2, AnswerTyped, GotoTyped DEF Loading, Serving
  <2>3. RestTyped'
    BY <1>15, SemaphoreAssumption DEF TypeOK, RestTyped, RecordGrant, dbVars, ringVars
  <2> QED BY <2>1, <2>2, <2>3 DEF TypeOK, RestTyped, HistoryTyped
<1>16. ASSUME NEW c \in Call, Timeout(c)
      PROVE  TypeOK'
  <2>1. mgr' \in [Manager -> ManagerRecord]
    BY <1>16 DEF TypeOK, Timeout
  <2>2. call' \in [Call -> CallRecord] /\ HistoryTyped'
    <3>1. Fail(c)
      BY <1>16 DEF Timeout
    <3> QED BY <3>1, FailTyped
  <2>3. RestTyped'
    BY <1>16, SemaphoreAssumption DEF TypeOK, RestTyped, Timeout, dbVars, ringVars
  <2> QED BY <2>1, <2>2, <2>3 DEF TypeOK, RestTyped, HistoryTyped
<1>17. ASSUME NEW c \in Call, StatementFails(c)
      PROVE  TypeOK'
  <2>1. mgr' \in [Manager -> ManagerRecord]
    BY <1>17 DEF TypeOK, StatementFails
  <2>2. call' \in [Call -> CallRecord] /\ HistoryTyped'
    <3>1. Fail(c)
      BY <1>17 DEF StatementFails
    <3> QED BY <3>1, FailTyped
  <2>3. RestTyped'
    <3>1. call[c].pc = "write" => <<call[c].owner, call[c].token>> \in Owner \X Tokens
      BY DEF Agree, CallBacked
    <3> QED BY <1>17, <3>1 DEF TypeOK, RestTyped, StatementFails, ringVars
  <2> QED BY <2>1, <2>2, <2>3 DEF TypeOK, RestTyped, HistoryTyped
<1>18. ASSUME NEW m \in Manager, GoIdle(m)
      PROVE  TypeOK'
  <2>1. mgr' \in [Manager -> ManagerRecord]
    <3>1. m \in Manager /\ mgr[m] \in ManagerRecord
      BY DEF TypeOK
    <3>2. Stopping(m) \in ManagerRecord
      BY <3>1 DEF ManagerRecord, Stopping
    <3> QED BY <1>18, <3>1, <3>2 DEF GoIdle, TypeOK, BeginStop
  <2>2. call' \in [Call -> CallRecord] /\ HistoryTyped'
    BY <1>18 DEF TypeOK, GoIdle, BeginStop, HistoryTyped, historyVars
  <2>3. RestTyped'
    BY <1>18, SemaphoreAssumption DEF TypeOK, RestTyped, GoIdle, BeginStop, dbVars, ringVars
  <2> QED BY <2>1, <2>2, <2>3 DEF TypeOK, RestTyped, HistoryTyped
<1>19. ASSUME NEW m \in Manager, SaveAckLevel(m)
      PROVE  TypeOK'
  <2>1. mgr' \in [Manager -> ManagerRecord]
    <3>1. m \in Manager /\ mgr[m] \in ManagerRecord
      BY DEF TypeOK
    <3>2. Stopping(m) \in ManagerRecord
      BY <3>1 DEF ManagerRecord, Stopping
    <3> QED BY <1>19, <3>1, <3>2 DEF SaveAckLevel, TypeOK, BeginStop
  <2>2. call' \in [Call -> CallRecord] /\ HistoryTyped'
    BY <1>19 DEF TypeOK, SaveAckLevel, BeginStop, HistoryTyped, historyVars
  <2>3. RestTyped'
    BY <1>19, SemaphoreAssumption DEF TypeOK, RestTyped, SaveAckLevel, BeginStop, dbVars, ringVars
  <2> QED BY <2>1, <2>2, <2>3 DEF TypeOK, RestTyped, HistoryTyped
<1>20. ASSUME NEW m \in Manager, UnloadStop(m)
      PROVE  TypeOK'
  <2>1. mgr' \in [Manager -> ManagerRecord]
    <3>1. m \in Manager /\ mgr[m] \in ManagerRecord
      BY DEF TypeOK
    <3>2. Stopping(m) \in ManagerRecord
      BY <3>1 DEF ManagerRecord, Stopping
    <3> QED BY <1>20, <3>1, <3>2 DEF UnloadStop, TypeOK, BeginStop
  <2>2. call' \in [Call -> CallRecord] /\ HistoryTyped'
    BY <1>20 DEF TypeOK, UnloadStop, BeginStop, HistoryTyped, historyVars
  <2>3. RestTyped'
    BY <1>20, SemaphoreAssumption DEF TypeOK, RestTyped, UnloadStop, BeginStop, dbVars, ringVars
  <2> QED BY <2>1, <2>2, <2>3 DEF TypeOK, RestTyped, HistoryTyped
<1>21. ASSUME NEW m \in Manager, OnStop(m)
      PROVE  TypeOK'
  <2>1. mgr' \in [Manager -> ManagerRecord]
    <3>1. m \in Manager /\ mgr[m] \in ManagerRecord
      BY DEF TypeOK
    <3>2. [mgr[m] EXCEPT !.stop = "unregistered"] \in ManagerRecord
      BY <3>1 DEF ManagerRecord
    <3> QED BY <1>21, <3>1, <3>2 DEF OnStop, TypeOK
  <2>2. call' \in [Call -> CallRecord] /\ HistoryTyped'
    BY <1>21 DEF TypeOK, OnStop, HistoryTyped, historyVars
  <2>3. RestTyped'
    BY <1>21, SemaphoreAssumption DEF TypeOK, RestTyped, OnStop, Unregister, dbVars, ringVars
  <2> QED BY <2>1, <2>2, <2>3 DEF TypeOK, RestTyped, HistoryTyped
<1>22. ASSUME NEW m \in Manager, EndStop(m)
      PROVE  TypeOK'
  <2>1. mgr' \in [Manager -> ManagerRecord]
    <3>1. m \in Manager /\ mgr[m] \in ManagerRecord
      BY DEF TypeOK
    <3>2. [mgr[m] EXCEPT !.stop = "done", !.done = TRUE] \in ManagerRecord
      BY <3>1 DEF ManagerRecord
    <3> QED BY <1>22, <3>1, <3>2 DEF EndStop, TypeOK
  <2>2. call' \in [Call -> CallRecord] /\ HistoryTyped'
    BY <1>22 DEF TypeOK, EndStop, HistoryTyped, historyVars
  <2>3. RestTyped'
    BY <1>22, SemaphoreAssumption DEF TypeOK, RestTyped, EndStop, dbVars, ringVars
  <2> QED BY <2>1, <2>2, <2>3 DEF TypeOK, RestTyped, HistoryTyped
<1>23. ASSUME NEW h \in Host, MoveBucket(h)
      PROVE  TypeOK'
  <2>1. mgr' \in [Manager -> ManagerRecord]
    BY <1>23 DEF TypeOK, MoveBucket
  <2>2. call' \in [Call -> CallRecord] /\ HistoryTyped'
    BY <1>23 DEF TypeOK, MoveBucket, HistoryTyped, historyVars
  <2>3. RestTyped'
    BY <1>23, SemaphoreAssumption DEF TypeOK, RestTyped, MoveBucket, dbVars, ringVars
  <2> QED BY <2>1, <2>2, <2>3 DEF TypeOK, RestTyped, HistoryTyped
<1>24. ASSUME NEW h \in Host, MembershipChange(h)
      PROVE  TypeOK'
  <2>1. mgr' \in [Manager -> ManagerRecord]
    <3>1. CASE ring # h /\ registry[h] # 0
      <4>1. registry[h] \in Manager /\ mgr[registry[h]] \in ManagerRecord
        BY <3>1 DEF TypeOK
      <4>2. [mgr[registry[h]] EXCEPT !.unloading = TRUE] \in ManagerRecord
        BY <4>1 DEF ManagerRecord
      <4> QED BY <1>24, <3>1, <4>1, <4>2 DEF MembershipChange, TypeOK
    <3>2. CASE ~(ring # h /\ registry[h] # 0)
      BY <1>24, <3>2 DEF MembershipChange, TypeOK
    <3> QED BY <3>1, <3>2
  <2>2. call' \in [Call -> CallRecord] /\ HistoryTyped'
    BY <1>24 DEF TypeOK, MembershipChange, HistoryTyped, historyVars
  <2>3. RestTyped'
    BY <1>24, SemaphoreAssumption DEF TypeOK, RestTyped, MembershipChange, dbVars, ringVars
  <2> QED BY <2>1, <2>2, <2>3 DEF TypeOK, RestTyped, HistoryTyped
<1>25. ASSUME NEW h \in Host, Crash(h)
      PROVE  TypeOK'
  <2>1. mgr' \in [Manager -> ManagerRecord]
    <3>1. ASSUME NEW m \in Manager
          PROVE  [mgr[m] EXCEPT !.state = "stopped", !.stop = "done", !.done = TRUE] \in ManagerRecord
      <4>1. mgr[m] \in ManagerRecord
        BY DEF TypeOK
      <4> QED BY <4>1 DEF ManagerRecord
    <3> QED BY <1>25, <3>1 DEF Crash, TypeOK
  <2>2. call' \in [Call -> CallRecord] /\ HistoryTyped'
    <3>1. NoCall \in CallRecord
      BY SMTT(30), SemaphoreAssumption DEF NoCall, CallRecord
    <3>2. call' \in [Call -> CallRecord]
      BY <1>25, <3>1 DEF Crash, TypeOK
    <3> QED BY <1>25, <3>2 DEF Crash, TypeOK, HistoryTyped
  <2>3. RestTyped'
    <3>1. \A d \in Call : call[d].pc = "write" => <<call[d].owner, call[d].token>> \in Owner \X Tokens
      BY DEF Agree, CallBacked
    <3> DEFINE lost == {<<call[d].owner, call[d].token>> : d \in
                       {f \in Call : call[f].pc # "idle" /\ call[f].host = h /\ call[f].pc = "write"}}
    <3>2. late' = late \cup lost
      BY <1>25 DEF Crash
    <3>3. lost \subseteq Owner \X Tokens
      BY <3>1
    <3>4. late' \subseteq Owner \X Tokens
      BY <3>2, <3>3 DEF TypeOK
    <3> QED BY <1>25, <3>4 DEF TypeOK, RestTyped, Crash, ringVars
  <2> QED BY <2>1, <2>2, <2>3 DEF TypeOK, RestTyped, HistoryTyped
<1>26. ASSUME NEW o \in Owner, NEW c \in Call, NEW h \in Host, AskForToken(o, c, h)
      PROVE  TypeOK'
  <2>1. mgr' \in [Manager -> ManagerRecord]
    BY <1>26 DEF TypeOK, AskForToken
  <2>2. call' \in [Call -> CallRecord] /\ HistoryTyped'
    <3>1. \A pc \in {"start", "create"} :
            [call[c] EXCEPT !.pc = pc, !.owner = o, !.host = h, !.m = registry[h]] \in CallRecord
      <4>1. registry[h] \in Manager \cup {0}
        BY DEF TypeOK
      <4>2. ASSUME NEW pc \in {"start", "create"}
            PROVE  [call[c] EXCEPT !.pc = pc, !.owner = o, !.host = h, !.m = registry[h]]
                     \in CallRecord
        BY <4>1, CallTyped DEF CallRecord
      <4> QED BY <4>2
    <3> QED BY <1>26, <3>1 DEF AskForToken, TypeOK, HistoryTyped
  <2>3. RestTyped'
    BY <1>26, SemaphoreAssumption DEF TypeOK, RestTyped, AskForToken, dbVars, ringVars
  <2> QED BY <2>1, <2>2, <2>3 DEF TypeOK, RestTyped, HistoryTyped
<1>27. ASSUME NEW o \in Owner, GiveUp(o)
      PROVE  TypeOK'
  <2>1. mgr' \in [Manager -> ManagerRecord]
    BY <1>27 DEF TypeOK, GiveUp
  <2>2. call' \in [Call -> CallRecord] /\ HistoryTyped'
    BY <1>27 DEF TypeOK, GiveUp, HistoryTyped, historyVars
  <2>3. RestTyped'
    BY <1>27, SemaphoreAssumption DEF TypeOK, RestTyped, GiveUp, dbVars, ringVars
  <2> QED BY <2>1, <2>2, <2>3 DEF TypeOK, RestTyped, HistoryTyped
<1>28. ASSUME NEW o \in Owner, ReleaseHold(o)
      PROVE  TypeOK'
  <2>1. mgr' \in [Manager -> ManagerRecord]
    BY <1>28 DEF TypeOK, ReleaseHold
  <2>2. call' \in [Call -> CallRecord] /\ HistoryTyped'
    BY <1>28 DEF TypeOK, ReleaseHold, HistoryTyped, historyVars, Gone
  <2>3. RestTyped'
    BY <1>28, SemaphoreAssumption DEF TypeOK, RestTyped, ReleaseHold, dbVars, ringVars
  <2> QED BY <2>1, <2>2, <2>3 DEF TypeOK, RestTyped, HistoryTyped
<1>29. CASE UNCHANGED vars
  BY <1>29 DEF TypeOK, vars, dbVars, ringVars, historyVars
<1> QED BY <1>1, <1>2, <1>3, <1>4, <1>5, <1>6, <1>7, <1>8, <1>9, <1>10, <1>11, <1>12, <1>13, <1>14, <1>15,
        <1>16, <1>17, <1>18, <1>19, <1>20, <1>21, <1>22, <1>23, <1>24, <1>25, <1>26, <1>27, <1>28, <1>29
        DEF Next, Step, Fault, Move, Release, CallStep, ManagerStep, HistoryStep

-----------------------------------------------------------------------------
(* The rows, the caches and the holds agree.                               *)

\* No step takes a token from an owner, or spoils a cache.
Kept ==
  /\ \A p \in Owner : held[p] # NoToken => held'[p] = held[p]
  /\ \A m \in Manager : Backed(m) => Backed(m)'

Attempts ==
  \A o \in Owner : attempt[o] # None =>
    call[attempt[o]].pc # "idle" /\ call[attempt[o]].owner = o

\* A grant to an owner that has no token, of a token that nobody has, keeps the
\* two kinds of rows in agreement.
LEMMA GrantKeeps ==
  ASSUME TypeOK, RowsInverse, NEW o \in Owner, NEW t \in Tokens, GrantSemaphoreToken(o, t)
  PROVE  /\ RowsInverse'
         /\ \A p \in Owner : held[p] # NoToken => held'[p] = held[p]
<1>1. CASE GrantOutcome(o, t) = "applied"
  <2>1. held[o] = NoToken /\ holder[t] \notin Owner
    BY <1>1, BucketAssumption DEF GrantOutcome
  <2>2. held' = [held EXCEPT ![o] = t] /\ holder' = [holder EXCEPT ![t] = o]
    BY <1>1 DEF GrantSemaphoreToken
  <2>3. \A p \in Owner : held'[p] = IF p = o THEN t ELSE held[p]
    BY <2>2 DEF TypeOK
  <2>4. \A s \in Tokens : holder'[s] = IF s = t THEN o ELSE holder[s]
    BY <2>2 DEF TypeOK
  <2>5. RowsInverse'
    BY SMTT(30), <2>1, <2>3, <2>4, TokensFinite DEF RowsInverse
  <2> QED BY <2>1, <2>3, <2>5
<1>2. CASE GrantOutcome(o, t) # "applied"
  BY SMTT(30), <1>2 DEF GrantSemaphoreToken, RowsInverse
<1> QED BY <1>1, <1>2

\* A cache that a step leaves alone is still backed.
LEMMA BackedKept ==
  ASSUME NEW m \in Manager, mgr'[m].cache = mgr[m].cache,
         \A p \in Owner : held[p] # NoToken => held'[p] = held[p],
         Backed(m)
  PROVE  Backed(m)'
BY DEF Backed

\* A step that leaves the grants and the caches alone.
LEMMA CachesStay ==
  ASSUME RowsInverse, UNCHANGED <<holder, held>>, \A m \in Manager : mgr'[m].cache = mgr[m].cache
  PROVE  Kept /\ RowsInverse'
BY BackedKept DEF Kept, RowsInverse

\* A call that a step leaves alone.
LEMMA CallStays ==
  ASSUME NEW c \in Call, CallBacked(c), Kept, call'[c] = call[c]
  PROVE  CallBacked(c)'
<1>1. call[c].pc = "record" /\ call[c].outcome # "taken" => held'[call[c].owner] = call[c].token
  BY TokensFinite DEF CallBacked, Kept
<1>2. call[c].pc \in {"finish"} \cup Serving => Backed(call[c].m)'
  BY DEF CallBacked, Kept, Serving
<1>3. call'[c].pc # "idle" => call'[c].owner \in Owner /\ call'[c].host \in Host
  BY DEF CallBacked
<1>4. call'[c].pc \notin {"idle", "create"} => call'[c].m \in Manager
  BY DEF CallBacked
<1>5. call'[c].pc \in {"confirm", "write", "record"} => call'[c].token \in Tokens
  BY DEF CallBacked
<1>6. call'[c].pc \in {"finish"} \cup Serving => Backed(call[c].m)'
  BY <1>2
<1>7. call'[c].pc = "record" /\ call'[c].outcome # "taken" => held'[call'[c].owner] = call'[c].token
  BY <1>1
<1> QED BY <1>3, <1>4, <1>5, <1>6, <1>7 DEF CallBacked, Backed

\* A call that is over.
LEMMA CallOver ==
  ASSUME NEW c \in Call, call'[c] = NoCall
  PROVE  CallBacked(c)'
BY SMTT(30) DEF CallBacked, NoCall, Serving

\* A step that leaves the calls and the holds alone.
LEMMA CallsStay ==
  ASSUME Agree, Kept, UNCHANGED <<call, historyVars>>
  PROVE  HoldsBacked' /\ (\A c \in Call : CallBacked(c)') /\ Attempts'
<1>1. HoldsBacked'
  BY TokensFinite DEF Agree, HoldsBacked, Kept, historyVars
<1>2. \A c \in Call : CallBacked(c)'
  BY CallStays DEF Agree
<1>3. Attempts'
  BY DEF Agree, Attempts, historyVars
<1> QED BY <1>1, <1>2, <1>3

\* The end of a call, with the token that its owner has, or none.
LEMMA AnswerAgrees ==
  ASSUME TypeOK, Agree, Kept, NEW c \in Call, NEW t \in Tokens \cup {NoToken}, Answer(c, t),
         t # NoToken => held'[call[c].owner] = t
  PROVE  HoldsBacked' /\ (\A d \in Call : CallBacked(d)') /\ Attempts'
<1>1. ASSUME NEW o \in Owner, hold'[o] \in Tokens
      PROVE  held'[o] = hold'[o]
  <2>1. CASE attempt[o] = c /\ t # NoToken
    <3>1. call[c].owner = o
      BY <2>1, SemaphoreAssumption DEF Agree
    <3> QED BY <2>1, <3>1 DEF Answer
  <2>2. CASE ~(attempt[o] = c /\ t # NoToken)
    <3>1. hold'[o] = hold[o]
      BY <2>2 DEF Answer
    <3> QED BY SMTT(30), <1>1, <3>1, TokensFinite DEF Agree, HoldsBacked, Kept
  <2> QED BY <2>1, <2>2
<1>2. ASSUME NEW d \in Call
      PROVE  CallBacked(d)'
  <2>1. CASE d = c
    BY <2>1, CallOver DEF Answer, TypeOK
  <2>2. CASE d # c
    BY <2>2, CallStays DEF Answer, TypeOK, Agree
  <2> QED BY <2>1, <2>2
<1>3. ASSUME NEW o \in Owner, attempt'[o] # None
      PROVE  call'[attempt'[o]].pc # "idle" /\ call'[attempt'[o]].owner = o
  <2>1. attempt'[o] = attempt[o] /\ attempt[o] # c
    BY <1>3 DEF Answer
  <2>2. attempt[o] \in Call
    BY <1>3, <2>1 DEF TypeOK
  <2>3. call'[attempt[o]] = call[attempt[o]]
    BY <2>1, <2>2 DEF Answer, TypeOK
  <2> QED BY <1>3, <2>1, <2>3 DEF Agree
<1> QED BY <1>1, <1>2, <1>3 DEF HoldsBacked, Attempts

\* The same for a call that fails.
LEMMA FailAgrees ==
  ASSUME TypeOK, Agree, Kept, NEW c \in Call, Fail(c)
  PROVE  HoldsBacked' /\ (\A d \in Call : CallBacked(d)') /\ Attempts'
BY AnswerAgrees DEF Fail

\* A call that goes on for the same owner, on what it has seen.
LEMMA CallAgrees ==
  ASSUME TypeOK, Agree, Kept, NEW c \in Call,
         \A d \in Call \ {c} : call'[d] = call[d],
         call'[c].pc # "idle", call'[c].owner = call[c].owner,
         CallBacked(c)', UNCHANGED historyVars
  PROVE  HoldsBacked' /\ (\A d \in Call : CallBacked(d)') /\ Attempts'
<1>1. HoldsBacked'
  BY TokensFinite DEF Agree, HoldsBacked, Kept, historyVars
<1>2. \A d \in Call : CallBacked(d)'
  BY CallStays DEF Agree
<1>3. ASSUME NEW o \in Owner, attempt'[o] # None
      PROVE  call'[attempt'[o]].pc # "idle" /\ call'[attempt'[o]].owner = o
  <2>1. attempt'[o] = attempt[o]
    BY DEF historyVars
  <2>2. attempt[o] \in Call /\ call[attempt[o]].pc # "idle" /\ call[attempt[o]].owner = o
    BY <1>3, <2>1 DEF TypeOK, Agree
  <2> QED BY <2>1, <2>2
<1> QED BY <1>1, <1>2, <1>3 DEF Attempts

\* A call that goes on with its manager.
LEMMA GotoAgrees ==
  ASSUME TypeOK, Agree, Kept, NEW c \in Call, call[c].pc \notin {"idle", "create"},
         NEW pc \in {"claim", "scan", "finish", "stopping", "await", "find", "grant"},
         NEW k, k = call[c].m, pc \in {"finish", "find", "grant"} => Backed(k)', Goto(c, pc)
  PROVE  HoldsBacked' /\ (\A d \in Call : CallBacked(d)') /\ Attempts'
<1>1. call' = [call EXCEPT ![c].pc = pc, ![c].token = NoToken, ![c].outcome = "none"]
  BY DEF Goto
<1>2. call[c] \in CallRecord
  BY CallTyped
<1>3. call'[c] = [call[c] EXCEPT !.pc = pc, !.token = NoToken, !.outcome = "none"]
  BY <1>1 DEF TypeOK
<1>4. /\ call'[c].pc = pc /\ call'[c].owner = call[c].owner /\ call'[c].m = call[c].m
      /\ call'[c].host = call[c].host
  BY <1>2, <1>3 DEF CallRecord
<1>5. \A d \in Call \ {c} : call'[d] = call[d]
  BY <1>1 DEF TypeOK
<1>6. call[c].owner \in Owner /\ call[c].host \in Host /\ call[c].m \in Manager
  BY DEF Agree, CallBacked
<1>7. CallBacked(c)'
  <2>1. call'[c].pc \in {"finish"} \cup Serving => Backed(k)'
    BY <1>4 DEF Serving
  <2> QED BY <1>4, <1>6, <2>1 DEF CallBacked, Backed, Serving
<1> QED BY <1>4, <1>5, <1>7, CallAgrees DEF Goto

\* A manager that comes to serve has a cache that is backed.
LEMMA RunningAgrees ==
  ASSUME Agree, Kept,
         \A m \in Manager : mgr'[m].state = "running" => mgr[m].state = "running" \/ Backed(m)'
  PROVE  CacheBacked'
BY DEF Agree, CacheBacked, Kept

\* A new manager is the only one to change, and does not serve.
LEMMA Created ==
  ASSUME TypeOK, NEW c \in Call, GetOrCreate(c)
  PROVE  \A n \in Manager : /\ mgr'[n].cache = mgr[n].cache
                            /\ mgr'[n].state = "running" => mgr[n].state = "running"
<1> DEFINE fresh == {m \in Manager : mgr[m].state = "none"}
           m == CHOOSE k \in fresh : TRUE
<1>1. mgr' = mgr \/ (fresh # {} /\ mgr' = [mgr EXCEPT ![m] = [@ EXCEPT !.host = call[c].host, !.state = "created"]])
  BY DEF GetOrCreate
<1>2. fresh # {} => m \in Manager
  OBVIOUS
<1> HIDE DEF m
<1>3. CASE mgr' # mgr
  <2>1. m \in Manager /\ mgr[m] \in ManagerRecord
    BY <1>1, <1>2, <1>3 DEF TypeOK
  <2>2. mgr'[m] = [mgr[m] EXCEPT !.host = call[c].host, !.state = "created"]
    BY <1>1, <1>3, <2>1 DEF TypeOK
  <2>3. mgr'[m].cache = mgr[m].cache /\ mgr'[m].state = "created"
    BY <2>1, <2>2 DEF ManagerRecord
  <2>4. \A n \in Manager \ {m} : mgr'[n] = mgr[n]
    BY <1>1, <1>3, <2>1 DEF TypeOK
  <2> QED BY <2>3, <2>4
<1> QED BY <1>1, <1>3

\* Every step keeps the agreement.
LEMMA AgreeStep ==
  ASSUME TypeOK, TypeOK', Agree, [Next]_vars
  PROVE  Agree'
<1>1. ASSUME NEW g \in late, DecideLate(g)
      PROVE  Agree'
  <2>1. Kept /\ RowsInverse'
    <3>1. g[1] \in Owner /\ g[2] \in Tokens /\ GrantSemaphoreToken(g[1], g[2])
      BY <1>1 DEF DecideLate, TypeOK
    <3>2. RowsInverse' /\ \A p \in Owner : held[p] # NoToken => held'[p] = held[p]
      BY <3>1, GrantKeeps DEF Agree
    <3>3. mgr' = mgr
      BY <1>1 DEF DecideLate
    <3> QED BY <3>2, <3>3, BackedKept DEF Kept
  <2>2. HoldsBacked' /\ (\A d \in Call : CallBacked(d)') /\ Attempts'
    BY <1>1, <2>1, CallsStay DEF DecideLate
  <2>3. CacheBacked'
    BY <1>1, <2>1, RunningAgrees DEF DecideLate
  <2> QED BY <2>1, <2>2, <2>3 DEF Agree, Attempts
<1>2. ASSUME NEW c \in Call, GetOrCreate(c)
      PROVE  Agree'
  <2>1. Kept /\ RowsInverse'
    <3>1. \A n \in Manager : mgr'[n].cache = mgr[n].cache
      BY <1>2, Created
    <3> QED BY <1>2, <3>1, CachesStay DEF GetOrCreate, Agree, dbVars
  <2>2. HoldsBacked' /\ (\A d \in Call : CallBacked(d)') /\ Attempts'
    <3> DEFINE fresh == {m \in Manager : mgr[m].state = "none"}
    <3>1. call[c].host \in Host /\ call[c].owner \in Owner
      BY <1>2 DEF GetOrCreate, Agree, CallBacked
    <3>2. registry[call[c].host] # 0 => registry[call[c].host] \in Manager
      BY <3>1 DEF TypeOK
    <3>3. PICK m \in Manager : call' = [call EXCEPT ![c].pc = "start", ![c].m = m]
      <4>1. CASE registry[call[c].host] # 0
        BY <1>2, <3>2, <4>1 DEF GetOrCreate
      <4>2. CASE registry[call[c].host] = 0
        BY <1>2, <4>2 DEF GetOrCreate
      <4> QED BY <4>1, <4>2
    <3>4. call[c] \in CallRecord /\ call'[c] = [call[c] EXCEPT !.pc = "start", !.m = m]
      BY <3>3 DEF TypeOK
    <3>5. /\ call'[c].pc = "start" /\ call'[c].m = m /\ call'[c].owner = call[c].owner
          /\ call'[c].host = call[c].host
      BY <3>4 DEF CallRecord
    <3>6. CallBacked(c)'
      BY <3>1, <3>5 DEF CallBacked, Serving
    <3>7. \A d \in Call \ {c} : call'[d] = call[d]
      BY <3>3 DEF TypeOK
    <3> QED BY <1>2, <2>1, <3>5, <3>6, <3>7, CallAgrees DEF GetOrCreate
  <2>3. CacheBacked'
    <3>1. \A n \in Manager : mgr'[n].state = "running" => mgr[n].state = "running"
      BY <1>2, Created
    <3> QED BY <2>1, <3>1, RunningAgrees
  <2> QED BY <2>1, <2>2, <2>3 DEF Agree, Attempts
<1>3. ASSUME NEW c \in Call, Start(c)
      PROVE  Agree'
  <2>0. PICK k \in Manager : k = call[c].m
    BY <1>3 DEF Start, Agree, CallBacked
  <2>1. Kept /\ RowsInverse'
    <3>1. \A n \in Manager : mgr'[n].cache = mgr[n].cache
      <4>1. mgr' = mgr \/ mgr' = [mgr EXCEPT ![k].state = "starting"]
        BY <1>3, <2>0 DEF Start
      <4>2. mgr \in [Manager -> ManagerRecord] /\ mgr[k] \in ManagerRecord
        BY <2>0 DEF TypeOK
      <4>3. [mgr[k] EXCEPT !.state = "starting"].cache = mgr[k].cache
        BY <4>2 DEF ManagerRecord
      <4> QED BY <4>1, <4>2, <4>3
    <3> QED BY <1>3, <3>1, CachesStay DEF Start, Agree, dbVars
  <2>2. HoldsBacked' /\ (\A d \in Call : CallBacked(d)') /\ Attempts'
    <3>1. Fail(c) \/ Goto(c, "claim") \/ Goto(c, "await")
      BY <1>3 DEF Start
    <3>2. call[c].pc \notin {"idle", "create"}
      BY <1>3 DEF Start
    <3> QED BY <2>0, <2>1, <3>1, <3>2, FailAgrees, GotoAgrees
  <2>3. CacheBacked'
    <3>1. \A n \in Manager : mgr'[n].state = "running" => mgr[n].state = "running"
      BY SMTT(30), <1>3 DEF Start, TypeOK, ManagerRecord
    <3> QED BY <2>1, <3>1, RunningAgrees
  <2> QED BY <2>1, <2>2, <2>3 DEF Agree, Attempts
<1>4. ASSUME NEW c \in Call, Claim(c)
      PROVE  Agree'
  <2>0. PICK k \in Manager : k = call[c].m
    BY <1>4 DEF Claim, Agree, CallBacked
  <2>1. Kept /\ RowsInverse'
    <3>1. \A n \in Manager : mgr'[n].cache = mgr[n].cache
      BY SMTT(30), <1>4 DEF Claim, TypeOK, ManagerRecord
    <3> QED BY <1>4, <3>1, CachesStay DEF Claim, Agree, dbVars
  <2>2. HoldsBacked' /\ (\A d \in Call : CallBacked(d)') /\ Attempts'
    <3>1. Goto(c, "scan")
      BY <1>4 DEF Claim
    <3>2. call[c].pc \notin {"idle", "create"}
      BY <1>4 DEF Claim
    <3> QED BY <2>0, <2>1, <3>1, <3>2, GotoAgrees
  <2>3. CacheBacked'
    <3>1. \A n \in Manager : mgr'[n].state = "running" => mgr[n].state = "running"
      BY SMTT(30), <1>4 DEF Claim, TypeOK, ManagerRecord
    <3> QED BY <2>1, <3>1, RunningAgrees
  <2> QED BY <2>1, <2>2, <2>3 DEF Agree, Attempts
<1>5. ASSUME NEW c \in Call, BuildCache(c)
      PROVE  Agree'
  <2>0. PICK k \in Manager : k = call[c].m
    BY <1>5 DEF BuildCache, Agree, CallBacked
  <2>1. Kept /\ RowsInverse'
    <3> DEFINE new == NewBucketCache(holder, held)
    <3>1. mgr[k] \in ManagerRecord
      BY DEF TypeOK
    <3>2. /\ new \in Caches /\ Indexed(new)
          /\ \A o \in Owner : new.tokenByOwner[o] \in {NoToken, held[o]}
      BY <1>5, NewCacheBacked DEF BuildCache, Agree
    <3>3. mgr' = [mgr EXCEPT ![k].cache = new] /\ UNCHANGED <<holder, held>>
      BY <1>5, <2>0 DEF BuildCache, dbVars
    <3> HIDE DEF new
    <3>4. mgr'[k].cache = new /\ \A n \in Manager \ {k} : mgr'[n].cache = mgr[n].cache
      BY <3>1, <3>3 DEF TypeOK, ManagerRecord
    <3>5. Backed(k)'
      BY <3>2, <3>3, <3>4 DEF Backed
    <3>6. \A n \in Manager \ {k} : Backed(n) => Backed(n)'
      BY <3>3, <3>4, BackedKept
    <3> QED BY SMTT(30), <3>3, <3>5, <3>6 DEF Kept, Agree, RowsInverse
  <2>2. HoldsBacked' /\ (\A d \in Call : CallBacked(d)') /\ Attempts'
    <3>1. Goto(c, "finish")
      BY <1>5 DEF BuildCache
    <3>2. call[c].pc \notin {"idle", "create"}
      BY <1>5 DEF BuildCache
    <3>3. Backed(k)'
      <4>1. mgr[k] \in ManagerRecord
        BY DEF TypeOK
      <4>2. mgr'[k].cache = NewBucketCache(holder, held)
        BY <1>5, <2>0, <4>1 DEF BuildCache, TypeOK, ManagerRecord
      <4> QED BY <1>5, <4>2, NewCacheBacked DEF BuildCache, Backed, Agree, dbVars
    <3> QED BY <2>0, <2>1, <3>1, <3>2, <3>3, GotoAgrees
  <2>3. CacheBacked'
    <3>1. \A n \in Manager : mgr'[n].state = "running" => mgr[n].state = "running"
      BY SMTT(30), <1>5 DEF BuildCache, TypeOK, ManagerRecord
    <3> QED BY <2>1, <3>1, RunningAgrees
  <2> QED BY <2>1, <2>2, <2>3 DEF Agree, Attempts
<1>6. ASSUME NEW c \in Call, FinishLoad(c)
      PROVE  Agree'
  <2>0. PICK k \in Manager : k = call[c].m
    BY <1>6 DEF FinishLoad, Agree, CallBacked
  <2>1. Kept /\ RowsInverse'
    <3>1. \A n \in Manager : mgr'[n].cache = mgr[n].cache
      BY <1>6 DEF FinishLoad, Loaded, TypeOK, ManagerRecord
    <3> QED BY <1>6, <3>1, CachesStay DEF FinishLoad, Agree, dbVars
  <2>2. HoldsBacked' /\ (\A d \in Call : CallBacked(d)') /\ Attempts'
    <3>1. Fail(c) \/ Goto(c, "await")
      BY <1>6 DEF FinishLoad
    <3>2. call[c].pc \notin {"idle", "create"}
      BY <1>6 DEF FinishLoad
    <3> QED BY <2>0, <2>1, <3>1, <3>2, FailAgrees, GotoAgrees
  <2>3. CacheBacked'
    <3>1. Backed(k)'
      BY <1>6, <2>0, <2>1 DEF FinishLoad, Agree, CallBacked, Kept
    <3>2. \A n \in Manager \ {k} : mgr'[n] = mgr[n]
      BY <1>6, <2>0 DEF FinishLoad, TypeOK
    <3> QED BY <2>1, <3>1, <3>2, RunningAgrees
  <2> QED BY <2>1, <2>2, <2>3 DEF Agree, Attempts
<1>7. ASSUME NEW c \in Call, LoadFails(c)
      PROVE  Agree'
  <2>0. PICK k \in Manager : k = call[c].m
    BY <1>7 DEF LoadFails, Agree, CallBacked
  <2>1. Kept /\ RowsInverse'
    <3>1. \A n \in Manager : mgr'[n].cache = mgr[n].cache
      BY SMTT(30), <1>7 DEF LoadFails, Stopping, TypeOK, ManagerRecord
    <3> QED BY <1>7, <3>1, CachesStay DEF LoadFails, Agree, dbVars
  <2>2. HoldsBacked' /\ (\A d \in Call : CallBacked(d)') /\ Attempts'
    <3>1. Goto(c, "stopping")
      BY <1>7 DEF LoadFails
    <3>2. call[c].pc \notin {"idle", "create"}
      BY <1>7 DEF LoadFails
    <3> QED BY <2>0, <2>1, <3>1, <3>2, GotoAgrees
  <2>3. CacheBacked'
    <3>1. \A n \in Manager : mgr'[n].state = "running" => mgr[n].state = "running"
      BY SMTT(30), <1>7 DEF LoadFails, Stopping, TypeOK, ManagerRecord
    <3> QED BY <2>1, <3>1, RunningAgrees
  <2> QED BY <2>1, <2>2, <2>3 DEF Agree, Attempts
<1>8. ASSUME NEW c \in Call, LoadFailed(c)
      PROVE  Agree'
  <2>1. Kept /\ RowsInverse'
    BY <1>8, CachesStay DEF LoadFailed, Agree, dbVars
  <2>2. HoldsBacked' /\ (\A d \in Call : CallBacked(d)') /\ Attempts'
    BY <1>8, <2>1, FailAgrees DEF LoadFailed
  <2>3. CacheBacked'
    BY <1>8, <2>1, RunningAgrees DEF LoadFailed
  <2> QED BY <2>1, <2>2, <2>3 DEF Agree, Attempts
<1>9. ASSUME NEW c \in Call, AwaitStartup(c)
      PROVE  Agree'
  <2>0. PICK k \in Manager : k = call[c].m
    BY <1>9 DEF AwaitStartup, Agree, CallBacked
  <2>1. Kept /\ RowsInverse'
    BY <1>9, CachesStay DEF AwaitStartup, Agree, dbVars
  <2>2. HoldsBacked' /\ (\A d \in Call : CallBacked(d)') /\ Attempts'
    <3>1. Fail(c) \/ Goto(c, "find")
      BY <1>9 DEF AwaitStartup
    <3>2. call[c].pc \notin {"idle", "create"}
      BY <1>9 DEF AwaitStartup
    <3>3. Goto(c, "find") => Backed(k)'
      <4>2. CASE mgr[k].state = "running"
        BY <2>1, <4>2 DEF Agree, CacheBacked, Kept
      <4>3. CASE mgr[k].state # "running"
        <5>1. Fail(c)
          BY <1>9, <2>0, <4>3 DEF AwaitStartup
        <5>2. call'[c].pc = "idle"
          BY <5>1 DEF Fail, Answer, NoCall, TypeOK
        <5>3. ASSUME Goto(c, "find") PROVE FALSE
          BY <5>2, <5>3 DEF Goto, TypeOK, CallRecord
        <5> QED BY <5>3
      <4> QED BY <4>2, <4>3
    <3> QED BY <2>0, <2>1, <3>1, <3>2, <3>3, FailAgrees, GotoAgrees
  <2>3. CacheBacked'
    BY <1>9, <2>1, RunningAgrees DEF AwaitStartup
  <2> QED BY <2>1, <2>2, <2>3 DEF Agree, Attempts
<1>10. ASSUME NEW c \in Call, FindHeldToken(c)
      PROVE  Agree'
  <2>0. PICK k \in Manager : k = call[c].m
    BY <1>10 DEF FindHeldToken, Agree, CallBacked
  <2>1. Kept /\ RowsInverse'
    BY <1>10, CachesStay DEF FindHeldToken, Agree, dbVars
  <2>2. HoldsBacked' /\ (\A d \in Call : CallBacked(d)') /\ Attempts'
    <3> DEFINE t == mgr[call[c].m].cache.tokenByOwner[call[c].owner]
               pc == IF t = NoToken THEN "grant" ELSE "confirm"
    <3>1. /\ call[c].owner \in Owner /\ call[c].host \in Host
          /\ call[c].m \in Manager /\ Backed(call[c].m)
      BY <1>10 DEF FindHeldToken, Agree, CallBacked, Serving
    <3>2. t \in Tokens \cup {NoToken}
      BY <3>1 DEF Backed, Caches
    <3>3. call' = [call EXCEPT ![c].pc = pc, ![c].token = t]
      BY <1>10 DEF FindHeldToken
    <3> HIDE DEF t
    <3>4. call[c] \in CallRecord /\ call'[c] = [call[c] EXCEPT !.pc = pc, !.token = t]
      BY <3>3 DEF TypeOK
    <3>5. /\ call'[c].pc = pc /\ call'[c].token = t /\ call'[c].m = call[c].m
          /\ call'[c].owner = call[c].owner /\ call'[c].host = call[c].host
      BY <3>4 DEF CallRecord
    <3>6. Backed(k)'
      BY <2>0, <2>1, <3>1 DEF Kept
    <3>7. CallBacked(c)'
      BY <2>0, <3>1, <3>2, <3>5, <3>6 DEF CallBacked, Backed, Serving
    <3>8. \A d \in Call \ {c} : call'[d] = call[d]
      BY <3>3 DEF TypeOK
    <3>9. call'[c].pc # "idle"
      BY <3>5
    <3>10. UNCHANGED historyVars
      BY <1>10 DEF FindHeldToken
    <3> HIDE DEF pc
    <3> QED BY <2>1, <3>5, <3>7, <3>8, <3>9, <3>10, CallAgrees
  <2>3. CacheBacked'
    BY <1>10, <2>1, RunningAgrees DEF FindHeldToken
  <2> QED BY <2>1, <2>2, <2>3 DEF Agree, Attempts
<1>11. ASSUME NEW c \in Call, ConfirmToken(c)
      PROVE  Agree'
  <2>0. PICK k \in Manager : k = call[c].m
    BY <1>11 DEF ConfirmToken, Agree, CallBacked
  <2>1. Kept /\ RowsInverse'
    <3> DEFINE new == UpdateFromTokenRow(mgr[call[c].m].cache, call[c].owner, call[c].token, holder[call[c].token])
    <3>1. mgr[k] \in ManagerRecord
      BY DEF TypeOK
    <3>2. /\ new \in Caches /\ Indexed(new)
          /\ \A o \in Owner : new.tokenByOwner[o] \in {NoToken, held[o]}
      BY <1>11, ConfirmBacked DEF ConfirmToken, Agree
    <3>3. mgr' = [mgr EXCEPT ![k].cache = new] /\ UNCHANGED <<holder, held>>
      BY <1>11, <2>0 DEF ConfirmToken, dbVars
    <3> HIDE DEF new
    <3>4. mgr'[k].cache = new /\ \A n \in Manager \ {k} : mgr'[n].cache = mgr[n].cache
      BY <3>1, <3>3 DEF TypeOK, ManagerRecord
    <3>5. Backed(k)'
      BY <3>2, <3>3, <3>4 DEF Backed
    <3>6. \A n \in Manager \ {k} : Backed(n) => Backed(n)'
      BY <3>3, <3>4, BackedKept
    <3> QED BY <3>3, <3>5, <3>6 DEF Kept, Agree, RowsInverse
  <2>2. HoldsBacked' /\ (\A d \in Call : CallBacked(d)') /\ Attempts'
    <3>1. Answer(c, call[c].token) \/ Goto(c, "grant")
      BY <1>11 DEF ConfirmToken
    <3>2. call[c].pc \notin {"idle", "create"}
      BY <1>11 DEF ConfirmToken
    <3>3. Backed(k)'
      BY <1>11, <2>0, <2>1 DEF ConfirmToken, Agree, CallBacked, Kept, Serving
    <3>4. call[c].token \in Tokens
      BY <1>11 DEF ConfirmToken, Agree, CallBacked
    <3>5. CASE Answer(c, call[c].token)
      <4>1. holder[call[c].token] = call[c].owner
        <5>1. CASE holder[call[c].token] # call[c].owner
          <6>1. Goto(c, "grant")
            BY <1>11, <5>1 DEF ConfirmToken
          <6>2. call'[c].pc = "grant"
            BY <6>1 DEF Goto, TypeOK, CallRecord
          <6>3. call'[c].pc = "idle"
            BY <3>5 DEF Answer, NoCall, TypeOK
          <6> QED BY <6>2, <6>3
        <5> QED BY <5>1
      <4>2. call[c].owner \in Owner
        BY <1>11 DEF ConfirmToken, Agree, CallBacked
      <4>3. held[call[c].owner] = call[c].token
        BY SMTT(30), <3>4, <4>1, <4>2 DEF Agree, RowsInverse
      <4>4. held'[call[c].owner] = call[c].token
        BY <2>1, <3>4, <4>2, <4>3, TokensFinite DEF Kept
      <4> QED BY <2>1, <3>4, <3>5, <4>4, AnswerAgrees
    <3>6. CASE Goto(c, "grant")
      BY <2>0, <2>1, <3>2, <3>3, <3>6, GotoAgrees
    <3> QED BY <3>1, <3>5, <3>6
  <2>3. CacheBacked'
    <3>1. \A n \in Manager : mgr'[n].state = "running" => mgr[n].state = "running"
      BY SMTT(30), <1>11 DEF ConfirmToken, TypeOK, ManagerRecord
    <3> QED BY <2>1, <3>1, RunningAgrees
  <2> QED BY <2>1, <2>2, <2>3 DEF Agree, Attempts
<1>12. ASSUME NEW c \in Call, AnswerNoSlot(c)
      PROVE  Agree'
  <2>1. Kept /\ RowsInverse'
    BY <1>12, CachesStay DEF AnswerNoSlot, Agree, dbVars
  <2>2. HoldsBacked' /\ (\A d \in Call : CallBacked(d)') /\ Attempts'
    BY <1>12, <2>1, FailAgrees DEF AnswerNoSlot
  <2>3. CacheBacked'
    BY <1>12, <2>1, RunningAgrees DEF AnswerNoSlot
  <2> QED BY <2>1, <2>2, <2>3 DEF Agree, Attempts
<1>13. ASSUME NEW c \in Call, PickFreeToken(c)
      PROVE  Agree'
  <2>0. PICK k \in Manager : k = call[c].m
    BY <1>13 DEF PickFreeToken, Agree, CallBacked
  <2>1. Kept /\ RowsInverse'
    BY <1>13, CachesStay DEF PickFreeToken, Agree, dbVars
  <2>2. HoldsBacked' /\ (\A d \in Call : CallBacked(d)') /\ Attempts'
    <3>1. PICK t \in Tokens :
            call' = [call EXCEPT ![c].pc = "write", ![c].token = t, ![c].tries = @ + 1]
      BY <1>13 DEF PickFreeToken, FreeTokens
    <3>2. /\ call[c].owner \in Owner /\ call[c].host \in Host
          /\ call[c].m \in Manager /\ Backed(call[c].m)
      BY <1>13 DEF PickFreeToken, Agree, CallBacked, Serving
    <3>3. call[c] \in CallRecord /\ call'[c] = [call[c] EXCEPT !.pc = "write", !.token = t, !.tries = @ + 1]
      BY <3>1 DEF TypeOK
    <3>4. /\ call'[c].pc = "write" /\ call'[c].token = t /\ call'[c].m = call[c].m
          /\ call'[c].owner = call[c].owner /\ call'[c].host = call[c].host
      BY <3>3 DEF CallRecord
    <3>5. Backed(k)'
      BY <2>0, <2>1, <3>2 DEF Kept
    <3>6. CallBacked(c)'
      BY <2>0, <3>2, <3>4, <3>5 DEF CallBacked, Backed, Serving
    <3>7. \A d \in Call \ {c} : call'[d] = call[d]
      BY <3>1 DEF TypeOK
    <3> QED BY <1>13, <2>1, <3>4, <3>6, <3>7, CallAgrees DEF PickFreeToken
  <2>3. CacheBacked'
    BY <1>13, <2>1, RunningAgrees DEF PickFreeToken
  <2> QED BY <2>1, <2>2, <2>3 DEF Agree, Attempts
<1>14. ASSUME NEW c \in Call, WriteGrant(c)
      PROVE  Agree'
  <2>0. PICK k \in Manager : k = call[c].m
    BY <1>14 DEF WriteGrant, Agree, CallBacked
  <2>1. Kept /\ RowsInverse'
    <3>1. call[c].owner \in Owner /\ call[c].token \in Tokens /\ GrantSemaphoreToken(call[c].owner, call[c].token)
      BY <1>14 DEF WriteGrant, Agree, CallBacked
    <3>2. RowsInverse' /\ \A p \in Owner : held[p] # NoToken => held'[p] = held[p]
      BY <3>1, GrantKeeps DEF Agree
    <3>3. mgr' = mgr
      BY <1>14 DEF WriteGrant
    <3> QED BY <3>2, <3>3, BackedKept DEF Kept
  <2>2. HoldsBacked' /\ (\A d \in Call : CallBacked(d)') /\ Attempts'
    <3> DEFINE o == call[c].owner
               t == Answered(o, call[c].token)
               x == GrantOutcome(o, call[c].token)
    <3>1. /\ o \in Owner /\ call[c].host \in Host /\ call[c].token \in Tokens
          /\ call[c].m \in Manager /\ Backed(call[c].m)
      BY <1>14 DEF WriteGrant, Agree, CallBacked, Serving
    <3>2. t \in Tokens
      BY <3>1 DEF Answered, GrantOutcome, TypeOK
    <3>3. x # "taken" => held'[o] = t
      <4>1. CASE x = "applied"
        BY <1>14, <3>1, <4>1 DEF WriteGrant, GrantSemaphoreToken, Answered, TypeOK
      <4>2. CASE x = "held"
        BY <1>14, <3>1, <4>2 DEF WriteGrant, GrantSemaphoreToken, Answered
      <4> QED BY <4>1, <4>2 DEF GrantOutcome
    <3>4. call' = [call EXCEPT ![c].pc = "record", ![c].outcome = x, ![c].token = t]
      BY <1>14 DEF WriteGrant
    <3> HIDE DEF t, x
    <3>5. /\ call[c] \in CallRecord
          /\ call'[c] = [call[c] EXCEPT !.pc = "record", !.outcome = x, !.token = t]
      BY <3>4 DEF TypeOK
    <3>6. /\ call'[c].pc = "record" /\ call'[c].token = t /\ call'[c].m = call[c].m
          /\ call'[c].outcome = x /\ call'[c].owner = o /\ call'[c].host = call[c].host
      BY <3>5 DEF CallRecord
    <3>7. Backed(k)'
      BY <2>0, <2>1, <3>1 DEF Kept
    <3>8. CallBacked(c)'
      BY <2>0, <3>1, <3>2, <3>3, <3>6, <3>7 DEF CallBacked, Backed, Serving
    <3>9. \A d \in Call \ {c} : call'[d] = call[d]
      BY <3>4 DEF TypeOK
    <3> QED BY <1>14, <2>1, <3>6, <3>8, <3>9, CallAgrees DEF WriteGrant
  <2>3. CacheBacked'
    BY <1>14, <2>1, RunningAgrees DEF WriteGrant
  <2> QED BY <2>1, <2>2, <2>3 DEF Agree, Attempts
<1>15. ASSUME NEW c \in Call, RecordGrant(c)
      PROVE  Agree'
  <2>0. PICK k \in Manager : k = call[c].m
    BY <1>15 DEF RecordGrant, Agree, CallBacked
  <2>1. Kept /\ RowsInverse'
    <3> DEFINE new == RecordGrantResult(mgr[call[c].m].cache, call[c].owner, call[c].token, call[c].outcome)
    <3>1. mgr[k] \in ManagerRecord
      BY DEF TypeOK
    <3>2. /\ new \in Caches /\ Indexed(new)
          /\ \A o \in Owner : new.tokenByOwner[o] \in {NoToken, held[o]}
      BY <1>15, RecordBacked DEF RecordGrant, Agree
    <3>3. mgr' = [mgr EXCEPT ![k].cache = new] /\ UNCHANGED <<holder, held>>
      BY <1>15, <2>0 DEF RecordGrant, dbVars
    <3> HIDE DEF new
    <3>4. mgr'[k].cache = new /\ \A n \in Manager \ {k} : mgr'[n].cache = mgr[n].cache
      BY <3>1, <3>3 DEF TypeOK, ManagerRecord
    <3>5. Backed(k)'
      BY <3>2, <3>3, <3>4 DEF Backed
    <3>6. \A n \in Manager \ {k} : Backed(n) => Backed(n)'
      BY <3>3, <3>4, BackedKept
    <3> QED BY <3>3, <3>5, <3>6 DEF Kept, Agree, RowsInverse
  <2>2. HoldsBacked' /\ (\A d \in Call : CallBacked(d)') /\ Attempts'
    <3>1. Answer(c, call[c].token) \/ Goto(c, "grant")
      BY <1>15 DEF RecordGrant
    <3>2. call[c].pc \notin {"idle", "create"}
      BY <1>15 DEF RecordGrant
    <3>3. Backed(k)'
      BY <1>15, <2>0, <2>1 DEF RecordGrant, Agree, CallBacked, Kept, Serving
    <3>4. call[c].token \in Tokens
      BY <1>15 DEF RecordGrant, Agree, CallBacked
    <3>5. CASE Answer(c, call[c].token)
      <4>1. call[c].outcome # "taken"
        <5>1. CASE call[c].outcome = "taken"
          <6>1. Goto(c, "grant")
            BY <1>15, <5>1 DEF RecordGrant
          <6>2. call'[c].pc = "grant"
            BY <6>1 DEF Goto, TypeOK, CallRecord
          <6>3. call'[c].pc = "idle"
            BY <3>5 DEF Answer, NoCall, TypeOK
          <6> QED BY <6>2, <6>3
        <5> QED BY <5>1
      <4>2. call[c].owner \in Owner /\ held[call[c].owner] = call[c].token
        BY <1>15, <4>1 DEF RecordGrant, Agree, CallBacked
      <4>3. held'[call[c].owner] = call[c].token
        BY <2>1, <3>4, <4>2, TokensFinite DEF Kept
      <4> QED BY <2>1, <3>4, <3>5, <4>3, AnswerAgrees
    <3>6. CASE Goto(c, "grant")
      BY <2>0, <2>1, <3>2, <3>3, <3>6, GotoAgrees
    <3> QED BY <3>1, <3>5, <3>6
  <2>3. CacheBacked'
    <3>1. \A n \in Manager : mgr'[n].state = "running" => mgr[n].state = "running"
      BY SMTT(30), <1>15 DEF RecordGrant, TypeOK, ManagerRecord
    <3> QED BY <2>1, <3>1, RunningAgrees
  <2> QED BY <2>1, <2>2, <2>3 DEF Agree, Attempts
<1>16. ASSUME NEW c \in Call, Timeout(c)
      PROVE  Agree'
  <2>1. Kept /\ RowsInverse'
    BY <1>16, CachesStay DEF Timeout, Agree, dbVars
  <2>2. HoldsBacked' /\ (\A d \in Call : CallBacked(d)') /\ Attempts'
    BY <1>16, <2>1, FailAgrees DEF Timeout
  <2>3. CacheBacked'
    BY <1>16, <2>1, RunningAgrees DEF Timeout
  <2> QED BY <2>1, <2>2, <2>3 DEF Agree, Attempts
<1>17. ASSUME NEW c \in Call, StatementFails(c)
      PROVE  Agree'
  <2>1. Kept /\ RowsInverse'
    BY <1>17, CachesStay DEF StatementFails, Agree, dbVars
  <2>2. HoldsBacked' /\ (\A d \in Call : CallBacked(d)') /\ Attempts'
    BY <1>17, <2>1, FailAgrees DEF StatementFails
  <2>3. CacheBacked'
    BY <1>17, <2>1, RunningAgrees DEF StatementFails
  <2> QED BY <2>1, <2>2, <2>3 DEF Agree, Attempts
<1>18. ASSUME NEW m \in Manager, GoIdle(m)
      PROVE  Agree'
  <2>1. Kept /\ RowsInverse'
    <3>1. \A n \in Manager : mgr'[n].cache = mgr[n].cache
      BY SMTT(30), <1>18 DEF GoIdle, BeginStop, Stopping, TypeOK, ManagerRecord
    <3> QED BY <1>18, <3>1, CachesStay DEF GoIdle, BeginStop, Agree, dbVars
  <2>2. HoldsBacked' /\ (\A d \in Call : CallBacked(d)') /\ Attempts'
    BY <1>18, <2>1, CallsStay DEF GoIdle, BeginStop
  <2>3. CacheBacked'
    <3>1. \A n \in Manager : mgr'[n].state = "running" => mgr[n].state = "running"
      BY <1>18 DEF GoIdle, BeginStop, Stopping, TypeOK, ManagerRecord
    <3> QED BY <2>1, <3>1, RunningAgrees
  <2> QED BY <2>1, <2>2, <2>3 DEF Agree, Attempts
<1>19. ASSUME NEW m \in Manager, SaveAckLevel(m)
      PROVE  Agree'
  <2>1. Kept /\ RowsInverse'
    <3>1. \A n \in Manager : mgr'[n].cache = mgr[n].cache
      BY SMTT(30), <1>19 DEF SaveAckLevel, BeginStop, Stopping, TypeOK, ManagerRecord
    <3> QED BY <1>19, <3>1, CachesStay DEF SaveAckLevel, BeginStop, Agree, dbVars
  <2>2. HoldsBacked' /\ (\A d \in Call : CallBacked(d)') /\ Attempts'
    BY <1>19, <2>1, CallsStay DEF SaveAckLevel, BeginStop
  <2>3. CacheBacked'
    <3>1. \A n \in Manager : mgr'[n].state = "running" => mgr[n].state = "running"
      BY <1>19 DEF SaveAckLevel, BeginStop, Stopping, TypeOK, ManagerRecord
    <3> QED BY <2>1, <3>1, RunningAgrees
  <2> QED BY <2>1, <2>2, <2>3 DEF Agree, Attempts
<1>20. ASSUME NEW m \in Manager, UnloadStop(m)
      PROVE  Agree'
  <2>1. Kept /\ RowsInverse'
    <3>1. \A n \in Manager : mgr'[n].cache = mgr[n].cache
      BY SMTT(30), <1>20 DEF UnloadStop, BeginStop, Stopping, TypeOK, ManagerRecord
    <3> QED BY <1>20, <3>1, CachesStay DEF UnloadStop, BeginStop, Agree, dbVars
  <2>2. HoldsBacked' /\ (\A d \in Call : CallBacked(d)') /\ Attempts'
    BY <1>20, <2>1, CallsStay DEF UnloadStop, BeginStop
  <2>3. CacheBacked'
    <3>1. \A n \in Manager : mgr'[n].state = "running" => mgr[n].state = "running"
      BY SMTT(30), <1>20 DEF UnloadStop, BeginStop, Stopping, TypeOK, ManagerRecord
    <3> QED BY <2>1, <3>1, RunningAgrees
  <2> QED BY <2>1, <2>2, <2>3 DEF Agree, Attempts
<1>21. ASSUME NEW m \in Manager, OnStop(m)
      PROVE  Agree'
  <2>1. Kept /\ RowsInverse'
    <3>1. \A n \in Manager : mgr'[n].cache = mgr[n].cache
      BY SMTT(30), <1>21 DEF OnStop, TypeOK, ManagerRecord
    <3> QED BY <1>21, <3>1, CachesStay DEF OnStop, Agree, dbVars
  <2>2. HoldsBacked' /\ (\A d \in Call : CallBacked(d)') /\ Attempts'
    BY <1>21, <2>1, CallsStay DEF OnStop
  <2>3. CacheBacked'
    <3>1. \A n \in Manager : mgr'[n].state = "running" => mgr[n].state = "running"
      BY SMTT(30), <1>21 DEF OnStop, TypeOK, ManagerRecord
    <3> QED BY <2>1, <3>1, RunningAgrees
  <2> QED BY <2>1, <2>2, <2>3 DEF Agree, Attempts
<1>22. ASSUME NEW m \in Manager, EndStop(m)
      PROVE  Agree'
  <2>1. Kept /\ RowsInverse'
    <3>1. \A n \in Manager : mgr'[n].cache = mgr[n].cache
      BY <1>22 DEF EndStop, TypeOK, ManagerRecord
    <3> QED BY <1>22, <3>1, CachesStay DEF EndStop, Agree, dbVars
  <2>2. HoldsBacked' /\ (\A d \in Call : CallBacked(d)') /\ Attempts'
    BY <1>22, <2>1, CallsStay DEF EndStop
  <2>3. CacheBacked'
    <3>1. \A n \in Manager : mgr'[n].state = "running" => mgr[n].state = "running"
      BY SMTT(30), <1>22 DEF EndStop, TypeOK, ManagerRecord
    <3> QED BY <2>1, <3>1, RunningAgrees
  <2> QED BY <2>1, <2>2, <2>3 DEF Agree, Attempts
<1>23. ASSUME NEW h \in Host, MoveBucket(h)
      PROVE  Agree'
  <2>1. Kept /\ RowsInverse'
    BY <1>23, CachesStay DEF MoveBucket, Agree, dbVars
  <2>2. HoldsBacked' /\ (\A d \in Call : CallBacked(d)') /\ Attempts'
    BY <1>23, <2>1, CallsStay DEF MoveBucket
  <2>3. CacheBacked'
    BY <1>23, <2>1, RunningAgrees DEF MoveBucket
  <2> QED BY <2>1, <2>2, <2>3 DEF Agree, Attempts
<1>24. ASSUME NEW h \in Host, MembershipChange(h)
      PROVE  Agree'
  <2>1. Kept /\ RowsInverse'
    <3>1. \A n \in Manager : mgr'[n].cache = mgr[n].cache
      <4>1. mgr' = mgr \/ mgr' = [mgr EXCEPT ![registry[h]].unloading = TRUE]
        BY <1>24 DEF MembershipChange
      <4>2. mgr \in [Manager -> ManagerRecord]
        BY DEF TypeOK
      <4> QED BY SMTT(30), <4>1, <4>2 DEF ManagerRecord
    <3> QED BY <1>24, <3>1, CachesStay DEF MembershipChange, Agree, dbVars
  <2>2. HoldsBacked' /\ (\A d \in Call : CallBacked(d)') /\ Attempts'
    BY <1>24, <2>1, CallsStay DEF MembershipChange
  <2>3. CacheBacked'
    <3>1. \A n \in Manager : mgr'[n].state = "running" => mgr[n].state = "running"
      <4>1. mgr' = mgr \/ mgr' = [mgr EXCEPT ![registry[h]].unloading = TRUE]
        BY <1>24 DEF MembershipChange
      <4>2. mgr \in [Manager -> ManagerRecord]
        BY DEF TypeOK
      <4> QED BY SMTT(30), <4>1, <4>2 DEF ManagerRecord
    <3> QED BY <2>1, <3>1, RunningAgrees
  <2> QED BY <2>1, <2>2, <2>3 DEF Agree, Attempts
<1>25. ASSUME NEW h \in Host, Crash(h)
      PROVE  Agree'
  <2>1. Kept /\ RowsInverse'
    <3>1. ASSUME NEW n \in Manager PROVE mgr'[n].cache = mgr[n].cache
      <4>1. mgr[n] \in ManagerRecord
        BY DEF TypeOK
      <4>2. mgr'[n] = mgr[n] \/ mgr'[n] = [mgr[n] EXCEPT !.state = "stopped", !.stop = "done", !.done = TRUE]
        BY <1>25 DEF Crash
      <4> QED BY <4>1, <4>2 DEF ManagerRecord
    <3> QED BY <1>25, <3>1, CachesStay DEF Crash, Agree, dbVars
  <2>2. HoldsBacked' /\ (\A d \in Call : CallBacked(d)') /\ Attempts'
    <3> DEFINE ended == {d \in Call : call[d].pc # "idle" /\ call[d].host = h}
    <3>1. call' = [d \in Call |-> IF d \in ended THEN NoCall ELSE call[d]]
      BY <1>25 DEF Crash
    <3>2. attempt' = [o \in Owner |-> IF attempt[o] \in ended THEN None ELSE attempt[o]]
      BY <1>25 DEF Crash
    <3>3. HoldsBacked'
      BY <1>25, <2>1, TokensFinite DEF Crash, Agree, HoldsBacked, Kept
    <3> HIDE DEF ended
    <3>4. ASSUME NEW d \in Call PROVE CallBacked(d)'
      BY <2>1, <3>1, CallOver, CallStays DEF Agree
    <3>5. ASSUME NEW o \in Owner, attempt'[o] # None
          PROVE  call'[attempt'[o]].pc # "idle" /\ call'[attempt'[o]].owner = o
      <4>1. attempt'[o] = attempt[o] /\ attempt[o] \notin ended
        BY <3>2, <3>5
      <4>2. attempt[o] \in Call /\ call'[attempt[o]] = call[attempt[o]]
        BY <3>1, <3>5, <4>1 DEF TypeOK
      <4> QED BY <3>5, <4>1, <4>2 DEF Agree
    <3> QED BY <3>3, <3>4, <3>5 DEF Attempts
  <2>3. CacheBacked'
    <3>1. ASSUME NEW n \in Manager, mgr'[n].state = "running" PROVE mgr[n].state = "running"
      <4>1. mgr[n] \in ManagerRecord
        BY DEF TypeOK
      <4>2. mgr'[n] = mgr[n] \/ mgr'[n] = [mgr[n] EXCEPT !.state = "stopped", !.stop = "done", !.done = TRUE]
        BY <1>25 DEF Crash
      <4> QED BY <3>1, <4>1, <4>2 DEF ManagerRecord
    <3> QED BY <2>1, <3>1, RunningAgrees
  <2> QED BY <2>1, <2>2, <2>3 DEF Agree, Attempts
<1>26. ASSUME NEW o \in Owner, NEW c \in Call, NEW h \in Host, AskForToken(o, c, h)
      PROVE  Agree'
  <2>1. Kept /\ RowsInverse'
    BY <1>26, CachesStay DEF AskForToken, Agree, dbVars
  <2>2. HoldsBacked' /\ (\A d \in Call : CallBacked(d)') /\ Attempts'
    <3>1. call' = [call EXCEPT ![c] = [@ EXCEPT
             !.pc = IF registry[h] # 0 THEN "start" ELSE "create",
             !.owner = o, !.host = h, !.m = registry[h]]]
      BY <1>26 DEF AskForToken
    <3>2. registry[h] \in Manager \cup {0} /\ call[c] \in CallRecord /\ call[c].pc = "idle"
      BY <1>26 DEF AskForToken, TypeOK
    <3>3. /\ call'[c].pc = IF registry[h] # 0 THEN "start" ELSE "create"
          /\ call'[c].owner = o /\ call'[c].host = h /\ call'[c].m = registry[h]
      BY <3>1, <3>2 DEF TypeOK, CallRecord
    <3>4. CallBacked(c)'
      BY <3>2, <3>3 DEF CallBacked, Serving
    <3>5. \A d \in Call \ {c} : call'[d] = call[d]
      BY <3>1 DEF TypeOK
    <3>6. \A d \in Call : CallBacked(d)'
      BY <2>1, <3>4, <3>5, CallStays DEF Agree
    <3>7. HoldsBacked'
      BY <1>26, <2>1, TokensFinite DEF AskForToken, Agree, HoldsBacked, Kept
    <3>8. ASSUME NEW p \in Owner, attempt'[p] # None
          PROVE  call'[attempt'[p]].pc # "idle" /\ call'[attempt'[p]].owner = p
      <4>1. CASE p = o
        <5>1. attempt'[p] = c
          BY <1>26, <4>1 DEF AskForToken, TypeOK
        <5> QED BY <3>3, <4>1, <5>1
      <4>2. CASE p # o
        <5>1. attempt'[p] = attempt[p]
          BY <1>26, <4>2 DEF AskForToken, TypeOK
        <5>2. /\ attempt[p] \in Call
              /\ call[attempt[p]].pc # "idle" /\ call[attempt[p]].owner = p
          BY <3>8, <5>1 DEF TypeOK, Agree
        <5>3. attempt[p] # c
          BY <3>2, <5>2
        <5> QED BY <3>5, <5>1, <5>2, <5>3
      <4> QED BY <4>1, <4>2
    <3> QED BY <3>6, <3>7, <3>8 DEF Attempts
  <2>3. CacheBacked'
    BY <1>26, <2>1, RunningAgrees DEF AskForToken
  <2> QED BY <2>1, <2>2, <2>3 DEF Agree, Attempts
<1>27. ASSUME NEW o \in Owner, GiveUp(o)
      PROVE  Agree'
  <2>1. Kept /\ RowsInverse'
    BY <1>27, CachesStay DEF GiveUp, Agree, dbVars
  <2>2. HoldsBacked' /\ (\A d \in Call : CallBacked(d)') /\ Attempts'
    <3>1. \A d \in Call : CallBacked(d)'
      BY <1>27, <2>1, CallStays DEF GiveUp, Agree
    <3>2. HoldsBacked'
      BY SMTT(30), <1>27, <2>1, TokensFinite DEF GiveUp, Agree, HoldsBacked, Kept, TypeOK
    <3>3. Attempts'
      BY <1>27 DEF GiveUp, Agree, Attempts, TypeOK
    <3> QED BY <3>1, <3>2, <3>3
  <2>3. CacheBacked'
    BY <1>27, <2>1, RunningAgrees DEF GiveUp
  <2> QED BY <2>1, <2>2, <2>3 DEF Agree, Attempts
<1>28. ASSUME NEW o \in Owner, ReleaseHold(o)
      PROVE  Agree'
  <2>1. Kept /\ RowsInverse'
    BY <1>28, CachesStay DEF ReleaseHold, Agree, dbVars
  <2>2. HoldsBacked' /\ (\A d \in Call : CallBacked(d)') /\ Attempts'
    <3>1. \A d \in Call : CallBacked(d)'
      BY <1>28, <2>1, CallStays DEF ReleaseHold, Agree
    <3>2. HoldsBacked'
      BY SMTT(30), <1>28, <2>1, TokensFinite DEF ReleaseHold, Agree, HoldsBacked, Kept, TypeOK, Gone
    <3>3. Attempts'
      BY <1>28 DEF ReleaseHold, Agree, Attempts, TypeOK
    <3> QED BY <3>1, <3>2, <3>3
  <2>3. CacheBacked'
    BY <1>28, <2>1, RunningAgrees DEF ReleaseHold
  <2> QED BY <2>1, <2>2, <2>3 DEF Agree, Attempts
<1>29. CASE UNCHANGED vars
  <2>1. Kept /\ RowsInverse'
    BY <1>29, CachesStay DEF vars, dbVars, Agree
  <2>2. HoldsBacked' /\ (\A d \in Call : CallBacked(d)') /\ Attempts'
    BY <1>29, <2>1, CallsStay DEF vars
  <2>3. CacheBacked'
    BY <1>29, <2>1, RunningAgrees DEF vars
  <2> QED BY <2>1, <2>2, <2>3 DEF Agree, Attempts
<1> QED BY <1>1, <1>2, <1>3, <1>4, <1>5, <1>6, <1>7, <1>8, <1>9, <1>10, <1>11, <1>12, <1>13, <1>14, <1>15,
        <1>16, <1>17, <1>18, <1>19, <1>20, <1>21, <1>22, <1>23, <1>24, <1>25, <1>26, <1>27, <1>28, <1>29
        DEF Next, Step, Fault, Move, Release, CallStep, ManagerStep, HistoryStep
=============================================================================
