----------------------------- MODULE BucketCache -----------------------------
(***************************************************************************)
(* The tokens of a semaphore bucket (common/semaphore/buckets.go) and what *)
(* a host knows of them (service/matching/semaphore/bucket_cache.go).  A   *)
(* cache has an entry for each token of the bucket: the owner that holds   *)
(* it, FreeToken or Unavailable.                                           *)
(***************************************************************************)
EXTENDS Integers, FiniteSets

CONSTANTS Owner, Size, BucketSize, Bucket, FreeToken, Unavailable, NoRow

NoToken == 0

Lesser(a, b) == IF a <= b THEN a ELSE b

NumBuckets(size, bucketSize) == (size + bucketSize - 1) \div bucketSize

BucketTokenRange(size, bucketSize, b) ==
  b * bucketSize + 1 .. b * bucketSize + Lesser(bucketSize, size - b * bucketSize)

ASSUME BucketAssumption ==
  /\ Size \in Nat \ {0} /\ BucketSize \in Nat \ {0}
  /\ Bucket \in 0 .. NumBuckets(Size, BucketSize) - 1
  /\ FreeToken # Unavailable /\ FreeToken # NoRow /\ Unavailable # NoRow
  /\ FreeToken \notin Owner /\ Unavailable \notin Owner /\ NoRow \notin Owner

Tokens == BucketTokenRange(Size, BucketSize, Bucket)

Caches == [tokens : [Tokens -> Owner \cup {FreeToken, Unavailable}],
           tokenByOwner : [Owner -> Tokens \cup {NoToken}],
           freeCount : Nat]

FreeTokens(c) == {t \in Tokens : c.tokens[t] = FreeToken}

-----------------------------------------------------------------------------
\* Mutant: the count goes down whatever the token was before.
FreeCountBlind(c, t, e) == c.freeCount + (IF e = FreeToken THEN 1 ELSE -1)

FreeCount(c, t, e) ==
  c.freeCount - (IF c.tokens[t] = FreeToken THEN 1 ELSE 0) + (IF e = FreeToken THEN 1 ELSE 0)

\* updateToken: the entry of t becomes e.  The owner of e may have another token
\* in the cache, which becomes unavailable.
UpdateToken(c, t, e) ==
  IF t \notin Tokens \/ c.tokens[t] = e THEN c
  ELSE LET other == IF e \in Owner THEN c.tokenByOwner[e] ELSE NoToken
       IN [tokens |-> [s \in Tokens |-> IF s = t THEN e
                                        ELSE IF s = other THEN Unavailable ELSE c.tokens[s]],
           tokenByOwner |-> [o \in Owner |-> IF o = e THEN t
                                             ELSE IF o = c.tokens[t] THEN NoToken ELSE c.tokenByOwner[o]],
           freeCount |-> FreeCount(c, t, e)]

\* newBucketCache, from the holders in the token rows and the tokens in the
\* owner rows.  Owner rows decide.
NewBucketCache(holder, held) ==
  LET entry(t) == IF \E o \in Owner : held[o] = t THEN CHOOSE o \in Owner : held[o] = t
                  ELSE IF holder[t] \in Owner THEN Unavailable ELSE FreeToken
  IN [tokens |-> [t \in Tokens |-> entry(t)],
      tokenByOwner |-> [o \in Owner |-> IF held[o] \in Tokens THEN held[o] ELSE NoToken],
      freeCount |-> Cardinality({t \in Tokens : entry(t) = FreeToken})]

\* updateFromTokenRow: the token row of t has been read for o.
UpdateFromTokenRow(c, o, t, row) ==
  UpdateToken(c, t, IF row \in {o, FreeToken} THEN row ELSE Unavailable)

\* Mutant: the owner is given the token that another one has taken.
RecordGrantResultAny(c, o, t, outcome) == UpdateToken(c, t, o)

\* recordGrantResult: the answer to a grant to o, about token t.
RecordGrantResult(c, o, t, outcome) ==
  UpdateToken(c, t, IF outcome = "taken" THEN Unavailable ELSE o)

-----------------------------------------------------------------------------
\* The three fields of a cache say the same.
Indexed(c) ==
  /\ \A o \in Owner, t \in Tokens : c.tokens[t] = o <=> c.tokenByOwner[o] = t
  /\ c.freeCount = Cardinality(FreeTokens(c))

\* Every bucket has a token, every token of the semaphore is in one bucket, and
\* the buckets have no others.
Partition(size, bucketSize) ==
  LET buckets == 0 .. NumBuckets(size, bucketSize) - 1
      range(b) == BucketTokenRange(size, bucketSize, b)
  IN  /\ UNION {range(b) : b \in buckets} = 1 .. size
      /\ \A b \in buckets : range(b) # {}
      /\ \A b, d \in buckets : b # d => range(b) \cap range(d) = {}
=============================================================================
