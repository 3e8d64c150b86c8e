---------------------------- MODULE FrontDoorProofs ----------------------------
(***************************************************************************)
(* The two parts behind /auth/*, for every set of addresses, limit, window *)
(* and table size, and every number of replicas and accounts: the throttle *)
(* stays within its memory and exceeds a budget only in a crowd; one link  *)
(* is mailed per address, sessions belong to who received it, and one that *)
(* was logged out of or has expired opens nothing any more.                *)
(***************************************************************************)
EXTENDS RateLimiter, Accounts, FiniteSetTheorems, TLAPS

(***************************************************************************)
(* The throttle.  Held is what the table remembers of a client's           *)
(* admissions, a suffix of its history; what it has lost of them and is    *)
(* still in the window was lost in a crowd: more clients than the table    *)
(* holds were admitted since.                                              *)
(***************************************************************************)
Held(b, k) == IF k \in DOMAIN b THEN Len(b[k]) ELSE 0
Since(l, t) == {j \in Keys : l[j] # <<>> /\ Last(l[j]) >= t}

LimiterTypeOK ==
    /\ clock \in Nat
    /\ DOMAIN bucket \subseteq Keys /\ bucket \in [DOMAIN bucket -> Seq(Nat)]
    /\ log \in [Keys -> Seq(Nat)]

InOrder ==
    \A k \in Keys : \A i, j \in DOMAIN log[k] :
        log[k][i] <= clock /\ (i <= j => log[k][i] <= log[k][j])

BucketsAreSuffixes ==
    \A k \in DOMAIN bucket :
        /\ Len(bucket[k]) <= Len(log[k])
        /\ \A i \in 1 .. Len(bucket[k]) :
              bucket[k][i] = log[k][Len(log[k]) - Len(bucket[k]) + i]

LostInACrowd ==
    \A k \in Keys : \A i \in 1 .. Len(log[k]) - Held(bucket, k) :
        InWindow(log[k][i]) => Cardinality(Since(log, log[k][i])) > MaxKeys

LimiterInvariant ==
    /\ LimiterTypeOK /\ MemoryIsBounded
    /\ InOrder /\ BucketsAreSuffixes /\ LostInACrowd

LEMMA KeysAreFinite ==
    /\ IsFiniteSet(Keys)
    /\ \A S \in SUBSET Keys : IsFiniteSet(S) /\ Cardinality(S) \in Nat
<1>1. IsFiniteSet(Keys)
  BY LimiterAssumption, FS_AddElement DEF Keys
<1> QED
  BY <1>1, FS_Subset, FS_CardinalityType

LEMMA UpToIsFinite ==
    ASSUME NEW n \in Nat
    PROVE  IsFiniteSet(1 .. n) /\ Cardinality(1 .. n) = n
<1>1. 1 \in Int /\ n \in Int
  OBVIOUS
<1>2. IsFiniteSet(1 .. n) /\ Cardinality(1 .. n) = IF 1 > n THEN 0 ELSE n - 1 + 1
  BY <1>1, FS_Interval, Zenon
<1> QED
  BY <1>2

\* What popleft takes from the front is no longer in the window.
LEMMA ExpiredIsAPrefix ==
    ASSUME NEW s \in Seq(Nat)
    PROVE  /\ Cardinality(Expired(s)) \in 0 .. Len(s)
           /\ \A i \in 1 .. Cardinality(Expired(s)) : ~InWindow(s[i])
<1>1. /\ IsFiniteSet(1 .. Len(s)) /\ Cardinality(1 .. Len(s)) = Len(s)
      /\ Expired(s) \in SUBSET (1 .. Len(s))
  BY UpToIsFinite DEF Expired
<1>2. Cardinality(Expired(s)) \in 0 .. Len(s)
  BY <1>1, FS_Subset, FS_CardinalityType
<1>3. ASSUME NEW i \in 1 .. Cardinality(Expired(s)), InWindow(s[i])
      PROVE  FALSE
  <2>1. Expired(s) \in SUBSET (1 .. i - 1)
    BY <1>2, <1>3 DEF Expired
  <2>2. IsFiniteSet(1 .. i - 1) /\ Cardinality(1 .. i - 1) = i - 1
    BY <1>2, UpToIsFinite
  <2>3. Cardinality(Expired(s)) <= i - 1
    BY <2>1, <2>2, FS_Subset
  <2> QED
    BY <1>2, <2>3
<1> QED
  BY <1>2, <1>3

LEMMA KeptIsASuffix ==
    ASSUME LimiterTypeOK, NEW k \in Keys
    PROVE  /\ Kept(bucket, k) \in Seq(Nat)
           /\ Len(Kept(bucket, k)) <= Held(bucket, k)
           /\ k \in DOMAIN bucket =>
                 /\ \A i \in 1 .. Len(Kept(bucket, k)) :
                       Kept(bucket, k)[i]
                         = bucket[k][Len(bucket[k]) - Len(Kept(bucket, k)) + i]
                 /\ \A i \in 1 .. Len(bucket[k]) - Len(Kept(bucket, k)) :
                       ~InWindow(bucket[k][i])
<1>1. CASE k \notin DOMAIN bucket
  BY <1>1 DEF Kept, Held
<1>2. CASE k \in DOMAIN bucket
  <2>1. PICK s, n, r : /\ s = bucket[k] /\ n = Cardinality(Expired(s))
                       /\ r = Kept(bucket, k)
    OBVIOUS
  <2>2. s \in Seq(Nat)
    BY <1>2, <2>1 DEF LimiterTypeOK
  <2>3. n \in 0 .. Len(s) /\ \A i \in 1 .. n : ~InWindow(s[i])
    BY <2>1, <2>2, ExpiredIsAPrefix
  <2>4. r = SubSeq(s, n + 1, Len(s))
    BY <1>2, <2>1 DEF Kept
  <2>5. /\ r \in Seq(Nat) /\ Len(r) = Len(s) - n
        /\ \A i \in 1 .. Len(s) - n : r[i] = s[n + i]
    BY <2>2, <2>3, <2>4
  <2>6. n = Len(s) - Len(r) /\ Len(r) <= Len(s)
    BY <2>2, <2>3, <2>5
  <2>7. \A i \in 1 .. Len(r) : r[i] = s[Len(s) - Len(r) + i]
    BY <2>5, <2>6
  <2>8. \A i \in 1 .. Len(s) - Len(r) : ~InWindow(s[i])
    BY <2>3, <2>6
  <2> QED
    BY <1>2, <2>1, <2>5, <2>6, <2>7, <2>8, Zenon DEF Held
<1> QED
  BY <1>1, <1>2

\* The room made for a new client: whoever is forgotten has left the window, or the
\* table was full of clients admitted no earlier.
LEMMA RoomIsMadeFairly ==
    ASSUME LimiterTypeOK, MemoryIsBounded, NEW b \in RoomFor(bucket)
    PROVE  /\ DOMAIN b \subseteq DOMAIN bucket
           /\ \A j \in DOMAIN b : b[j] = bucket[j]
           /\ Cardinality(DOMAIN b) < MaxKeys
           /\ \A e \in DOMAIN bucket \ DOMAIN b :
                 \/ ~InWindow(Last(bucket[e]))
                 \/ \E full \in SUBSET DOMAIN bucket :
                       /\ Cardinality(full) >= MaxKeys
                       /\ \A j \in full : Last(bucket[e]) <= Last(bucket[j])
<1> DEFINE fresh == Dropping(bucket, Stale(bucket))
<1>0. /\ \A S \in SUBSET DOMAIN bucket : IsFiniteSet(S) /\ Cardinality(S) \in Nat
      /\ Cardinality(DOMAIN bucket) \in Nat /\ Cardinality(DOMAIN bucket) <= MaxKeys
      /\ MaxKeys \in Nat \ {0}
  BY KeysAreFinite, LimiterAssumption DEF LimiterTypeOK, MemoryIsBounded
<1>1. /\ DOMAIN fresh = DOMAIN bucket \ Stale(bucket)
      /\ \A j \in DOMAIN fresh : fresh[j] = bucket[j]
      /\ \A e \in Stale(bucket) : ~InWindow(Last(bucket[e]))
  BY DEF Dropping, Stale
<1>2. CASE Cardinality(DOMAIN bucket) < MaxKeys
  <2>1. b = bucket
    BY <1>2 DEF RoomFor
  <2> QED
    BY <1>2, <2>1
<1>3. CASE ~(Cardinality(DOMAIN bucket) < MaxKeys) /\ Cardinality(DOMAIN fresh) < MaxKeys
  <2>1. b = fresh
    BY <1>3 DEF RoomFor
  <2> QED
    BY <1>1, <1>3, <2>1
<1>4. CASE ~(Cardinality(DOMAIN bucket) < MaxKeys) /\ ~(Cardinality(DOMAIN fresh) < MaxKeys)
  <2>1. PICK k \in LeastRecent(fresh) : b = Dropping(fresh, {k})
    BY <1>4 DEF RoomFor
  <2>2. /\ DOMAIN b = DOMAIN fresh \ {k} /\ k \in DOMAIN fresh
        /\ \A j \in DOMAIN b : b[j] = fresh[j]
        /\ \A j \in DOMAIN fresh : Last(fresh[k]) <= Last(fresh[j])
    BY <2>1 DEF Dropping, LeastRecent
  <2>3. Cardinality(DOMAIN fresh) >= MaxKeys
    BY <1>0, <1>1, <1>4
  <2>4. Cardinality(DOMAIN b) < MaxKeys
    <3>1. IsFiniteSet(DOMAIN fresh) /\ Cardinality(DOMAIN fresh) <= MaxKeys
      BY <1>0, <1>1, FS_Subset
    <3>2. Cardinality(DOMAIN b) = Cardinality(DOMAIN fresh) - 1
      BY <2>2, <3>1, FS_RemoveElement
    <3> QED
      BY <1>0, <1>1, <2>3, <3>1, <3>2
  <2>5. ASSUME NEW e \in DOMAIN bucket \ DOMAIN b
        PROVE  \/ ~InWindow(Last(bucket[e]))
               \/ \E full \in SUBSET DOMAIN bucket :
                     /\ Cardinality(full) >= MaxKeys
                     /\ \A j \in full : Last(bucket[e]) <= Last(bucket[j])
    <3>1. CASE e \in Stale(bucket)
      BY <1>1, <3>1
    <3>2. CASE e = k
      <4>1. /\ DOMAIN fresh \in SUBSET DOMAIN bucket
            /\ \A j \in DOMAIN fresh : Last(bucket[e]) <= Last(bucket[j])
        BY <1>1, <2>2, <3>2
      <4> QED
        BY <2>3, <4>1
    <3> QED
      BY <1>1, <2>2, <3>1, <3>2
  <2> QED
    BY <1>1, <2>2, <2>4, <2>5
<1> QED
  BY <1>2, <1>3, <1>4
-----------------------------------------------------------------------------
LEMMA LimiterInvariantInit == LimiterInit => LimiterInvariant
<1> SUFFICES ASSUME LimiterInit
             PROVE  LimiterInvariant
  OBVIOUS
<1>1. Cardinality(DOMAIN bucket) = 0 /\ DOMAIN bucket = {}
  BY FS_EmptySet DEF LimiterInit
<1>2. \A k \in Keys : log[k] = <<>>
  BY DEF LimiterInit
<1>3. MemoryIsBounded
  BY <1>1, LimiterAssumption DEF MemoryIsBounded
<1>4. LimiterTypeOK
  BY DEF LimiterInit, LimiterTypeOK
<1>5. InOrder /\ BucketsAreSuffixes /\ LostInACrowd
  BY <1>1, <1>2 DEF InOrder, BucketsAreSuffixes, LostInACrowd, Held
<1> QED
  BY <1>3, <1>4, <1>5 DEF LimiterInvariant

LEMMA ClockTicksKeeps ==
    ASSUME LimiterInvariant, ClockTicks
    PROVE  LimiterInvariant'
<1> USE LimiterAssumption
<1>1. LimiterTypeOK' /\ MemoryIsBounded'
  BY DEF LimiterInvariant, LimiterTypeOK, MemoryIsBounded, ClockTicks
<1>2. InOrder' /\ BucketsAreSuffixes'
  BY DEF LimiterInvariant, LimiterTypeOK, InOrder, BucketsAreSuffixes, ClockTicks
<1>3. LostInACrowd'
  <2>1. ASSUME NEW k \in Keys, NEW i \in 1 .. Len(log[k]) - Held(bucket, k),
               InWindow(log[k][i])'
        PROVE  InWindow(log[k][i])
    <3>1. log[k] \in Seq(Nat) /\ clock \in Nat /\ Held(bucket, k) \in Nat
      BY DEF LimiterInvariant, LimiterTypeOK, Held
    <3>2. log[k][i] \in Nat
      BY <3>1
    <3> QED
      BY <2>1, <3>1, <3>2 DEF InWindow, ClockTicks
  <2> QED
    BY <2>1 DEF LimiterInvariant, LostInACrowd, ClockTicks, Held, Since
<1> QED
  BY <1>1, <1>2, <1>3 DEF LimiterInvariant

LEMMA RefuseKeeps ==
    ASSUME LimiterInvariant, NEW r \in Requests, Refuse(r)
    PROVE  LimiterInvariant'
<1> DEFINE k == ClientKey(r)
           kept == Kept(bucket, k)
<1> USE LimiterAssumption
<1>1. LimiterTypeOK /\ k \in Keys
  BY DEF LimiterInvariant, ClientKey, Requests
<1>2. PICK s : s = kept
  OBVIOUS
<1>3. /\ s \in Seq(Nat) /\ Len(s) <= Held(bucket, k) /\ Len(s) >= Limit /\ Limit > 0
      /\ bucket' = Recorded(bucket, k, s) /\ log' = log /\ clock' = clock
  BY <1>1, <1>2, KeptIsASuffix DEF Refuse, Throttled, Enabled
<1>4. k \in DOMAIN bucket
  BY <1>3 DEF Held
<1>5. /\ \A i \in 1 .. Len(s) : s[i] = bucket[k][Len(bucket[k]) - Len(s) + i]
      /\ \A i \in 1 .. Len(bucket[k]) - Len(s) : ~InWindow(bucket[k][i])
      /\ Len(s) <= Len(bucket[k])
  BY <1>1, <1>2, <1>3, <1>4, KeptIsASuffix DEF Held
<1>6. /\ DOMAIN bucket' = DOMAIN bucket /\ bucket'[k] = s
      /\ \A j \in DOMAIN bucket \ {k} : bucket'[j] = bucket[j]
  BY <1>3, <1>4 DEF Recorded
<1>7. LimiterTypeOK'
  BY <1>1, <1>3, <1>4 DEF LimiterTypeOK, Recorded
<1>8. MemoryIsBounded'
  <2>1. \A j \in DOMAIN bucket : Len(bucket[j]) \in 1 .. Limit
    BY DEF LimiterInvariant, MemoryIsBounded
  <2>2. Len(s) \in 1 .. Limit
    BY <1>3, <1>4, <1>5, <2>1
  <2>3. \A j \in DOMAIN bucket' : Len(bucket'[j]) \in 1 .. Limit
    BY <1>6, <2>1, <2>2
  <2>4. Cardinality(DOMAIN bucket') <= MaxKeys
    BY <1>6 DEF LimiterInvariant, MemoryIsBounded
  <2> QED
    BY <2>3, <2>4 DEF MemoryIsBounded
<1>9. InOrder'
  BY <1>3 DEF LimiterInvariant, InOrder
<1>10. /\ bucket[k] \in Seq(Nat) /\ log[k] \in Seq(Nat) /\ Len(bucket[k]) <= Len(log[k])
       /\ \A i \in 1 .. Len(bucket[k]) :
             bucket[k][i] = log[k][Len(log[k]) - Len(bucket[k]) + i]
  BY <1>1, <1>4 DEF LimiterInvariant, LimiterTypeOK, BucketsAreSuffixes
<1>11. PICK sl, bl, ll \in Nat :
          sl = Len(s) /\ bl = Len(bucket[k]) /\ ll = Len(log[k]) /\ sl <= bl /\ bl <= ll
  BY <1>3, <1>5, <1>10
<1> HIDE LimiterAssumption
<1>12. BucketsAreSuffixes'
  <2>0. sl <= bl /\ bl <= ll
    BY <1>11
  <2>1. ASSUME NEW i \in 1 .. sl
        PROVE  s[i] = log[k][ll - sl + i]
    <3>1. bl - sl + i \in 1 .. bl /\ ll - bl + (bl - sl + i) = ll - sl + i
      BY <2>0
    <3> QED
      BY <1>5, <1>10, <1>11, <3>1
  <2>2. ASSUME NEW j \in DOMAIN bucket'
        PROVE  /\ Len(bucket'[j]) <= Len(log[j])
               /\ \A i \in 1 .. Len(bucket'[j]) :
                     bucket'[j][i] = log[j][Len(log[j]) - Len(bucket'[j]) + i]
    <3>1. CASE j = k
      BY <1>6, <1>11, <2>1, <3>1
    <3>2. CASE j # k
      BY <1>6, <2>2, <3>2 DEF LimiterInvariant, BucketsAreSuffixes
    <3> QED
      BY <3>1, <3>2
  <2> QED
    BY <1>3, <2>2 DEF BucketsAreSuffixes
<1>13. LostInACrowd'
  <2>1. ASSUME NEW j \in Keys, NEW i \in 1 .. Len(log[j]) - Held(bucket', j),
               InWindow(log[j][i])
        PROVE  Cardinality(Since(log, log[j][i])) > MaxKeys
    <3>1. CASE i \in 1 .. Len(log[j]) - Held(bucket, j)
      BY <2>1, <3>1 DEF LimiterInvariant, LostInACrowd
    <3>2. CASE j = k /\ i > ll - bl
      <4>1. i \in 1 .. ll - sl
        BY <1>4, <1>6, <1>11, <3>2 DEF Held
      <4>2. PICK n \in Int : n = i - (ll - bl)
        BY <4>1
      <4>3. n \in 1 .. bl - sl /\ n \in 1 .. bl /\ ll - bl + n = i
        <5>1. sl <= bl /\ bl <= ll /\ i > ll - bl
          BY <1>11, <3>2
        <5> QED
          BY <4>1, <4>2, <5>1
      <4>4. bucket[k][n] = log[k][i] /\ ~InWindow(bucket[k][n])
        BY <1>5, <1>10, <1>11, <4>3
      <4> QED
        BY <2>1, <3>2, <4>4
    <3>3. CASE j # k
      BY <1>4, <1>6, <3>1, <3>3 DEF Held
    <3>4. Len(log[j]) \in Nat /\ Held(bucket, j) \in Nat
      BY <1>1 DEF LimiterTypeOK, Held
    <3> QED
      <4>1. CASE j = k
        <5>1. Held(bucket, j) = bl /\ Len(log[j]) = ll
          BY <1>4, <1>11, <4>1 DEF Held
        <5>2. Len(log[j]) - Held(bucket', j) \in Int
          BY <1>4, <1>6, <1>11, <4>1 DEF Held
        <5>3. i \in 1 .. ll - bl \/ i > ll - bl
          BY <2>1, <5>2
        <5> QED
          BY <3>1, <3>2, <4>1, <5>1, <5>3
      <4> QED
        BY <3>3, <4>1
  <2> QED
    BY <1>3, <2>1 DEF LostInACrowd, Since, InWindow, Held
<1> QED
  BY <1>7, <1>8, <1>9, <1>12, <1>13 DEF LimiterInvariant

LEMMA HeldIsBounded ==
    ASSUME LimiterTypeOK, MemoryIsBounded, BucketsAreSuffixes, NEW k \in Keys
    PROVE  /\ Held(bucket, k) \in Nat /\ Len(log[k]) \in Nat
           /\ Held(bucket, k) <= Len(log[k]) /\ Held(bucket, k) <= Limit
<1>1. log[k] \in Seq(Nat) /\ Len(log[k]) \in Nat /\ Limit \in Nat
  BY LimiterAssumption DEF LimiterTypeOK
<1>2. CASE k \in DOMAIN bucket
  <2>1. /\ bucket[k] \in Seq(Nat) /\ Len(bucket[k]) <= Len(log[k])
        /\ Len(bucket[k]) \in 1 .. Limit
    BY <1>2 DEF LimiterTypeOK, BucketsAreSuffixes, MemoryIsBounded
  <2> QED
    BY <1>1, <1>2, <2>1 DEF Held
<1>3. CASE k \notin DOMAIN bucket
  BY <1>1, <1>3 DEF Held
<1> QED
  BY <1>2, <1>3

\* Whoever was admitted no earlier than t still was after k is admitted now.
LEMMA SinceGrows ==
    ASSUME LimiterTypeOK, InOrder, NEW k \in Keys,
           log' = [log EXCEPT ![k] = Append(@, clock)], NEW t \in Nat
    PROVE  Since(log, t) \subseteq Since(log', t)
<1>1. ASSUME NEW j \in Since(log, t)
      PROVE  j \in Since(log', t)
  <2>1. CASE j # k
    BY <2>1 DEF Since, LimiterTypeOK
  <2>2. CASE j = k
    <3>1. log[k] \in Seq(Nat) /\ log[k] # <<>> /\ Last(log[k]) >= t /\ clock \in Nat
      BY <2>2 DEF Since, LimiterTypeOK
    <3>2. Len(log[k]) \in DOMAIN log[k] /\ log[k][Len(log[k])] \in Nat
      BY <3>1
    <3>3. Last(log[k]) <= clock /\ Last(log[k]) \in Nat
      BY <3>2 DEF InOrder, Last
    <3>4. log'[k] = Append(log[k], clock)
      BY DEF LimiterTypeOK
    <3>5. log'[k] # <<>> /\ Last(log'[k]) = clock
      BY <3>1, <3>4 DEF Last
    <3>6. clock >= t
      BY <3>1, <3>3
    <3> QED
      BY <2>2, <3>5, <3>6 DEF Since
  <2> QED
    BY <2>1, <2>2
<1> QED
  BY <1>1

\* A bucket's newest admission is its client's newest, and none is newer.
LEMMA NewestOfBucket ==
    ASSUME LimiterInvariant, NEW e \in DOMAIN bucket
    PROVE  /\ log[e] # <<>> /\ Last(bucket[e]) = Last(log[e]) /\ Last(bucket[e]) \in Nat
           /\ \A i \in DOMAIN log[e] : log[e][i] <= Last(bucket[e]) /\ log[e][i] \in Nat
<1>1. /\ bucket[e] \in Seq(Nat) /\ log[e] \in Seq(Nat) /\ e \in Keys
      /\ Len(bucket[e]) \in 1 .. Limit /\ Len(bucket[e]) <= Len(log[e])
      /\ \A i \in 1 .. Len(bucket[e]) :
            bucket[e][i] = log[e][Len(log[e]) - Len(bucket[e]) + i]
  BY DEF LimiterInvariant, LimiterTypeOK, BucketsAreSuffixes, MemoryIsBounded
<1>2. PICK bl, ll \in Nat :
         bl = Len(bucket[e]) /\ ll = Len(log[e]) /\ bl <= ll /\ bl \in 1 .. bl
  BY <1>1, LimiterAssumption
<1>3. ll - bl + bl = ll /\ ll \in 1 .. ll
  BY <1>2
<1>4. bucket[e][bl] = log[e][ll] /\ log[e][ll] \in Nat
  BY <1>1, <1>2, <1>3
<1>5. \A i \in DOMAIN log[e] : i <= ll /\ log[e][i] <= log[e][ll] /\ log[e][i] \in Nat
  BY <1>1, <1>2, <1>3 DEF LimiterInvariant, InOrder
<1> QED
  BY <1>1, <1>2, <1>3, <1>4, <1>5 DEF Last

\* An admission forgotten with its bucket is outside the window or was lost in a crowd.
LEMMA EvictionInACrowd ==
    ASSUME LimiterInvariant, NEW k \in Keys, k \notin DOMAIN bucket,
           log' = [log EXCEPT ![k] = Append(@, clock)],
           NEW b \in RoomFor(bucket), NEW e \in DOMAIN bucket \ DOMAIN b,
           NEW i \in DOMAIN log[e], InWindow(log[e][i])
    PROVE  Cardinality(Since(log', log[e][i])) > MaxKeys
<1>1. LimiterTypeOK /\ MemoryIsBounded /\ InOrder
  BY DEF LimiterInvariant
<1>2. /\ log[e][i] <= Last(bucket[e]) /\ log[e][i] \in Nat /\ Last(bucket[e]) \in Nat
  BY NewestOfBucket
<1>3. InWindow(Last(bucket[e]))
  BY <1>1, <1>2, LimiterAssumption DEF InWindow, LimiterTypeOK
<1>4. PICK full \in SUBSET DOMAIN bucket :
         /\ Cardinality(full) >= MaxKeys
         /\ \A j \in full : Last(bucket[e]) <= Last(bucket[j])
  BY <1>1, <1>3, RoomIsMadeFairly
<1>5. full \subseteq Since(log, log[e][i])
  <2>1. ASSUME NEW j \in full
        PROVE  j \in Since(log, log[e][i])
    <3>1. /\ log[j] # <<>> /\ Last(log[j]) = Last(bucket[j]) /\ Last(bucket[j]) \in Nat
          /\ j \in Keys
      BY <1>1, NewestOfBucket DEF LimiterTypeOK
    <3>2. Last(log[j]) >= log[e][i]
      BY <1>2, <1>4, <3>1
    <3> QED
      BY <3>1, <3>2 DEF Since
  <2> QED
    BY <2>1
<1>6. k \in Since(log', log[e][i])
  <2>1. log[k] \in Seq(Nat) /\ log'[k] = Append(log[k], clock) /\ clock \in Nat
    BY <1>1 DEF LimiterTypeOK
  <2>2. log'[k] # <<>> /\ Last(log'[k]) = clock
    BY <2>1 DEF Last
  <2>3. clock >= log[e][i]
    BY <1>1, <1>2, <2>1 DEF InOrder, LimiterTypeOK
  <2> QED
    BY <2>2, <2>3 DEF Since
<1>7. full \cup {k} \subseteq Since(log', log[e][i])
  BY <1>1, <1>2, <1>5, <1>6, SinceGrows
<1>8. IsFiniteSet(full) /\ Cardinality(full) \in Nat /\ k \notin full
  BY <1>1, KeysAreFinite DEF LimiterTypeOK
<1>9. Cardinality(full \cup {k}) = Cardinality(full) + 1
  BY <1>8, FS_AddElement
<1>10. Since(log', log[e][i]) \in SUBSET Keys
  BY DEF Since
<1>11. /\ Cardinality(full \cup {k}) <= Cardinality(Since(log', log[e][i]))
       /\ Cardinality(Since(log', log[e][i])) \in Nat
  BY <1>7, <1>10, KeysAreFinite, FS_Subset
<1> QED
  BY <1>4, <1>8, <1>9, <1>11, LimiterAssumption

\* What an admission does: with room made (b), k's pruned bucket (s) and its history
\* gain the time of now.
Admission(k, s, b) ==
    /\ Len(s) < Limit /\ Len(s) <= Held(bucket, k)
    /\ k \in DOMAIN bucket =>
          /\ b = bucket
          /\ \A i \in 1 .. Len(s) : s[i] = bucket[k][Len(bucket[k]) - Len(s) + i]
          /\ \A i \in 1 .. Len(bucket[k]) - Len(s) : ~InWindow(bucket[k][i])
    /\ k \notin DOMAIN bucket => b \in RoomFor(bucket) /\ s = <<>>
    /\ DOMAIN b \subseteq DOMAIN bucket /\ \A j \in DOMAIN b : b[j] = bucket[j]
    /\ bucket' = Recorded(b, k, Append(s, clock))
    /\ log' = [log EXCEPT ![k] = Append(@, clock)]
    /\ clock' = clock

LEMMA AdmitStep ==
    ASSUME LimiterInvariant, NEW r \in Requests, Admit(r)
    PROVE  \E k \in Keys : \E s \in Seq(Nat) : \E b : Admission(k, s, b)
<1> DEFINE k == ClientKey(r)
<1>1. LimiterTypeOK /\ MemoryIsBounded /\ k \in Keys
  BY DEF LimiterInvariant, ClientKey, Requests
<1>2. PICK s : s = Kept(bucket, k)
  OBVIOUS
<1>3. /\ s \in Seq(Nat) /\ Len(s) < Limit /\ Len(s) <= Held(bucket, k)
      /\ log' = [log EXCEPT ![k] = Append(@, clock)] /\ clock' = clock
  BY <1>1, <1>2, KeptIsASuffix DEF Admit
<1>4. PICK b \in Tracked(bucket, k) : bucket' = Recorded(b, k, Append(s, clock))
  BY <1>2 DEF Admit
<1>5. CASE k \in DOMAIN bucket
  <2>1. b = bucket
    BY <1>4, <1>5 DEF Tracked
  <2>2. /\ \A i \in 1 .. Len(s) : s[i] = bucket[k][Len(bucket[k]) - Len(s) + i]
        /\ \A i \in 1 .. Len(bucket[k]) - Len(s) : ~InWindow(bucket[k][i])
    BY <1>1, <1>2, <1>5, KeptIsASuffix
  <2> QED
    BY <1>1, <1>3, <1>4, <1>5, <2>1, <2>2 DEF Admission
<1>6. CASE k \notin DOMAIN bucket
  <2>1. b \in RoomFor(bucket) /\ s = <<>>
    BY <1>2, <1>4, <1>6 DEF Tracked, Kept
  <2>2. DOMAIN b \subseteq DOMAIN bucket /\ \A j \in DOMAIN b : b[j] = bucket[j]
    BY <1>1, <2>1, RoomIsMadeFairly
  <2> QED
    BY <1>1, <1>3, <1>4, <1>6, <2>1, <2>2 DEF Admission
<1> QED
  BY <1>5, <1>6

LEMMA AdmitKeeps ==
    ASSUME LimiterInvariant, NEW r \in Requests, Admit(r)
    PROVE  LimiterInvariant'
<1>0. LimiterTypeOK /\ MemoryIsBounded /\ InOrder /\ BucketsAreSuffixes /\ LostInACrowd
  BY DEF LimiterInvariant
<1>a. PICK k \in Keys : \E s \in Seq(Nat) : \E b : Admission(k, s, b)
  BY AdmitStep
<1>b. PICK s \in Seq(Nat) : \E b : Admission(k, s, b)
  BY <1>a
<1>1. PICK b : Admission(k, s, b)
  BY <1>b
<1>2. /\ Len(s) < Limit /\ Len(s) <= Held(bucket, k)
      /\ k \in DOMAIN bucket =>
            /\ b = bucket
            /\ \A i \in 1 .. Len(s) : s[i] = bucket[k][Len(bucket[k]) - Len(s) + i]
            /\ \A i \in 1 .. Len(bucket[k]) - Len(s) : ~InWindow(bucket[k][i])
      /\ k \notin DOMAIN bucket => b \in RoomFor(bucket) /\ s = <<>>
      /\ DOMAIN b \subseteq DOMAIN bucket /\ \A j \in DOMAIN b : b[j] = bucket[j]
      /\ bucket' = Recorded(b, k, Append(s, clock))
      /\ log' = [log EXCEPT ![k] = Append(@, clock)]
      /\ clock' = clock
  BY <1>1 DEF Admission
<1>3. PICK t : t = Append(s, clock)
  OBVIOUS
<1>4. /\ clock \in Nat /\ log[k] \in Seq(Nat) /\ t \in Seq(Nat) /\ Len(t) = Len(s) + 1
      /\ t[Len(s) + 1] = clock /\ \A i \in 1 .. Len(s) : t[i] = s[i]
  BY <1>0, <1>3 DEF LimiterTypeOK
<1>5. /\ DOMAIN bucket' = DOMAIN b \cup {k} /\ bucket'[k] = t
      /\ \A j \in DOMAIN b \ {k} : bucket'[j] = bucket[j]
      /\ bucket' = [j \in DOMAIN b \cup {k} |-> IF j = k THEN t ELSE b[j]]
  BY <1>2, <1>3 DEF Recorded
<1>6. PICK l : l = log'[k]
  OBVIOUS
<1>7. /\ l \in Seq(Nat) /\ Len(l) = Len(log[k]) + 1 /\ l[Len(log[k]) + 1] = clock
      /\ \A i \in 1 .. Len(log[k]) : l[i] = log[k][i]
      /\ \A j \in Keys \ {k} : log'[j] = log[j]
      /\ log' \in [Keys -> Seq(Nat)]
  BY <1>0, <1>2, <1>4, <1>6 DEF LimiterTypeOK
<1>8. PICK sl, hl, ll \in Nat :
         sl = Len(s) /\ hl = Held(bucket, k) /\ ll = Len(log[k]) /\ sl <= hl /\ hl <= ll
  <2>1. Held(bucket, k) \in Nat /\ Held(bucket, k) <= Len(log[k])
    BY <1>0, HeldIsBounded
  <2>2. Len(s) \in Nat /\ Len(log[k]) \in Nat
    BY <1>2, <1>4
  <2> QED
    BY <1>2, <2>1, <2>2
<1>9. LimiterTypeOK'
  <2>1. \A j \in DOMAIN b : b[j] \in Seq(Nat) /\ j \in Keys
    BY <1>0, <1>2 DEF LimiterTypeOK
  <2> QED
    BY <1>2, <1>4, <1>5, <1>7, <2>1 DEF LimiterTypeOK
<1>10. MemoryIsBounded'
  <2>1. /\ Limit \in Nat /\ MaxKeys \in Nat \ {0}
        /\ DOMAIN b \in SUBSET Keys /\ DOMAIN bucket \in SUBSET Keys
    BY <1>0, <1>2, LimiterAssumption DEF LimiterTypeOK
  <2>2. Len(t) \in 1 .. Limit
    BY <1>2, <1>4, <2>1
  <2>3. \A j \in DOMAIN bucket' : Len(bucket'[j]) \in 1 .. Limit
    BY <1>0, <1>2, <1>5, <2>2 DEF MemoryIsBounded
  <2>4. CASE k \in DOMAIN bucket
    BY <1>0, <1>2, <1>5, <2>3, <2>4 DEF MemoryIsBounded
  <2>5. CASE k \notin DOMAIN bucket
    <3>1. Cardinality(DOMAIN b) < MaxKeys /\ k \notin DOMAIN b
      BY <1>0, <1>2, <2>5, RoomIsMadeFairly
    <3>2. /\ Cardinality(DOMAIN b) \in Nat
          /\ Cardinality(DOMAIN b \cup {k}) = Cardinality(DOMAIN b) + 1
      BY <2>1, <3>1, KeysAreFinite, FS_AddElement
    <3>3. Cardinality(DOMAIN bucket') <= MaxKeys
      BY <1>5, <2>1, <3>1, <3>2
    <3> QED
      BY <2>3, <3>3 DEF MemoryIsBounded
  <2> QED
    BY <2>4, <2>5
<1>11. InOrder'
  <2>0. /\ DOMAIN l = 1 .. ll + 1 /\ l[ll + 1] = clock /\ clock \in Nat
        /\ \A i \in 1 .. ll : l[i] = log[k][i]
    BY <1>4, <1>7, <1>8
  <2>1. \A i \in DOMAIN l : i \in 1 .. ll \/ i = ll + 1
    BY <2>0
  <2>2. \A i, j \in 1 .. ll :
           log[k][i] <= clock /\ (i <= j => log[k][i] <= log[k][j])
    <3>1. DOMAIN log[k] = 1 .. ll
      BY <1>4, <1>8
    <3> QED
      BY <1>0, <3>1, Zenon DEF InOrder
  <2>3. \A i, j \in DOMAIN l : l[i] <= clock /\ (i <= j => l[i] <= l[j])
    <3>1. ASSUME NEW i \in DOMAIN l, NEW j \in DOMAIN l, i <= j
          PROVE  l[i] <= clock /\ l[i] <= l[j]
      <4>1. CASE j = ll + 1
        BY <2>0, <2>1, <2>2, <4>1
      <4>2. CASE j \in 1 .. ll
        <5>1. i \in 1 .. ll
          BY <2>0, <3>1, <4>2
        <5> QED
          BY <2>0, <2>2, <3>1, <4>2, <5>1
      <4> QED
        BY <2>1, <4>1, <4>2
    <3>2. \A i \in DOMAIN l : i <= i
      BY <2>0
    <3> QED
      BY <3>1, <3>2
  <2>4. ASSUME NEW q \in Keys, NEW i \in DOMAIN log'[q], NEW j \in DOMAIN log'[q]
        PROVE  log'[q][i] <= clock /\ (i <= j => log'[q][i] <= log'[q][j])
    <3>1. CASE q = k
      BY <1>6, <2>3, <2>4, <3>1
    <3>2. CASE q # k
      BY <1>0, <1>7, <2>4, <3>2 DEF InOrder
    <3> QED
      BY <3>1, <3>2
  <2> QED
    BY <1>2, <2>4 DEF InOrder
<1>12. BucketsAreSuffixes'
  <2>0. sl <= hl /\ hl <= ll
    BY <1>8
  <2>1. /\ Len(t) = sl + 1 /\ Len(l) = ll + 1 /\ t[sl + 1] = clock /\ l[ll + 1] = clock
        /\ \A i \in 1 .. sl : t[i] = s[i]
        /\ \A i \in 1 .. ll : l[i] = log[k][i]
    BY <1>4, <1>7, <1>8
  <2>2. \A i \in 1 .. sl : s[i] = log[k][ll - sl + i]
    <3>1. CASE k \notin DOMAIN bucket
      BY <1>2, <1>8, <3>1
    <3>2. CASE k \in DOMAIN bucket
      <4>1. /\ hl = Len(bucket[k]) /\ \A i \in 1 .. sl : s[i] = bucket[k][hl - sl + i]
            /\ \A i \in 1 .. hl : bucket[k][i] = log[k][ll - hl + i]
        BY <1>0, <1>2, <1>8, <3>2 DEF Held, BucketsAreSuffixes
      <4>2. \A i \in 1 .. sl :
               hl - sl + i \in 1 .. hl /\ ll - hl + (hl - sl + i) = ll - sl + i
        BY <2>0
      <4> QED
        BY <4>1, <4>2
    <3> QED
      BY <3>1, <3>2
  <2>3. ASSUME NEW i \in 1 .. sl + 1
        PROVE  t[i] = l[ll + 1 - (sl + 1) + i]
    <3>1. CASE i = sl + 1
      <4>1. ll + 1 - (sl + 1) + i = ll + 1
        BY <3>1
      <4> QED
        BY <2>1, <3>1, <4>1
    <3>2. CASE i \in 1 .. sl
      <4>1. ll + 1 - (sl + 1) + i = ll - sl + i /\ ll - sl + i \in 1 .. ll
        BY <2>0, <3>2
      <4> QED
        BY <2>1, <2>2, <3>2, <4>1
    <3> QED
      BY <3>1, <3>2
  <2>4. ASSUME NEW j \in DOMAIN bucket'
        PROVE  /\ Len(bucket'[j]) <= Len(log'[j])
               /\ \A i \in 1 .. Len(bucket'[j]) :
                     bucket'[j][i] = log'[j][Len(log'[j]) - Len(bucket'[j]) + i]
    <3>1. CASE j = k
      <4>1. sl + 1 <= ll + 1
        BY <2>0
      <4> QED
        BY <1>5, <1>6, <2>1, <2>3, <3>1, <4>1
    <3>2. CASE j # k
      <4>1. j \in DOMAIN bucket /\ bucket'[j] = bucket[j] /\ j \in Keys
        BY <1>0, <1>2, <1>5, <2>4, <3>2 DEF LimiterTypeOK
      <4>2. log'[j] = log[j]
        BY <1>7, <3>2, <4>1
      <4> QED
        BY <1>0, <4>1, <4>2, Zenon DEF BucketsAreSuffixes
    <3> QED
      BY <3>1, <3>2
  <2> QED
    BY <2>4 DEF BucketsAreSuffixes
<1>13. LostInACrowd'
  <2>1. ASSUME NEW n \in Nat, Cardinality(Since(log, n)) > MaxKeys
        PROVE  Cardinality(Since(log', n)) > MaxKeys
    <3>1. Since(log, n) \in SUBSET Since(log', n)
      BY <1>0, <1>2, SinceGrows
    <3>2. Since(log, n) \in SUBSET Keys /\ Since(log', n) \in SUBSET Keys
      BY DEF Since
    <3> QED
      BY <2>1, <3>1, <3>2, KeysAreFinite, FS_Subset, LimiterAssumption
  <2>2. ASSUME NEW j \in Keys, NEW i \in 1 .. Len(log[j]) - Held(bucket, j),
               InWindow(log[j][i])
        PROVE  Cardinality(Since(log', log[j][i])) > MaxKeys
    <3>1. log[j] \in Seq(Nat) /\ Held(bucket, j) \in Nat
      BY <1>0 DEF LimiterTypeOK, Held
    <3>2. log[j][i] \in Nat
      BY <3>1
    <3> QED
      BY <1>0, <2>1, <2>2, <3>2 DEF LostInACrowd
  <2>3. ASSUME NEW i \in 1 .. ll + 1 - (sl + 1), InWindow(l[i])
        PROVE  Cardinality(Since(log', l[i])) > MaxKeys
    <3>0. sl <= hl /\ hl <= ll /\ i \in 1 .. ll - sl /\ i \in 1 .. ll
      <4>1. sl <= hl /\ hl <= ll
        BY <1>8
      <4> QED
        BY <4>1
    <3>1. l[i] = log[k][i]
      BY <1>7, <1>8, <3>0
    <3>2. CASE i \in 1 .. ll - hl
      BY <1>8, <2>2, <2>3, <3>1, <3>2
    <3>3. CASE i > ll - hl /\ k \in DOMAIN bucket
      <4>1. PICK n \in Int : n = i - (ll - hl)
        BY <3>0
      <4>2. n \in 1 .. hl - sl /\ n \in 1 .. hl /\ ll - hl + n = i
        BY <3>0, <3>3, <4>1
      <4>3. bucket[k][n] = log[k][i] /\ ~InWindow(bucket[k][n])
        BY <1>0, <1>2, <1>8, <3>3, <4>2 DEF Held, BucketsAreSuffixes
      <4> QED
        BY <2>3, <3>1, <4>3
    <3>4. CASE i > ll - hl /\ k \notin DOMAIN bucket
      <4>1. hl = 0
        BY <1>8, <3>4 DEF Held
      <4> QED
        BY <3>0, <3>4, <4>1
    <3> QED
      BY <3>0, <3>2, <3>3, <3>4
  <2>4. ASSUME NEW j \in Keys \ {k}, NEW i \in 1 .. Len(log[j]) - Held(bucket', j),
               InWindow(log[j][i])
        PROVE  Cardinality(Since(log', log[j][i])) > MaxKeys
    <3>1. CASE j \in DOMAIN b \/ j \notin DOMAIN bucket
      <4>1. Held(bucket', j) = Held(bucket, j)
        BY <1>2, <1>5, <3>1 DEF Held
      <4> QED
        BY <2>2, <2>4, <4>1
    <3>2. CASE j \in DOMAIN bucket \ DOMAIN b
      <4>1. Held(bucket', j) = 0 /\ log[j] \in Seq(Nat)
        BY <1>0, <1>5, <3>2 DEF Held, LimiterTypeOK
      <4>2. i \in DOMAIN log[j]
        BY <4>1
      <4>3. k \notin DOMAIN bucket /\ b \in RoomFor(bucket)
        BY <1>2, <3>2
      <4> QED
        BY <1>2, <2>4, <3>2, <4>2, <4>3, EvictionInACrowd
    <3> QED
      BY <3>1, <3>2
  <2>5. ASSUME NEW j \in Keys, NEW i \in 1 .. Len(log'[j]) - Held(bucket', j),
               InWindow(log'[j][i])
        PROVE  Cardinality(Since(log', log'[j][i])) > MaxKeys
    <3>1. CASE j = k
      <4>1. Len(log'[j]) = ll + 1 /\ Held(bucket', j) = sl + 1
        BY <1>4, <1>5, <1>6, <1>7, <1>8, <3>1 DEF Held
      <4> QED
        BY <1>6, <2>3, <2>5, <3>1, <4>1
    <3>2. CASE j # k
      BY <1>7, <2>4, <2>5, <3>2
    <3> QED
      BY <3>1, <3>2
  <2> QED
    BY <1>2, <2>5 DEF LostInACrowd, InWindow, Since, Held
<1> QED
  BY <1>9, <1>10, <1>11, <1>12, <1>13 DEF LimiterInvariant

LEMMA LimiterInvariantStep ==
    ASSUME LimiterInvariant, [LimiterNext]_limiterVars
    PROVE  LimiterInvariant'
<1>1. CASE UNCHANGED limiterVars
  BY <1>1 DEF limiterVars, LimiterInvariant, LimiterTypeOK, MemoryIsBounded, InOrder,
              BucketsAreSuffixes, LostInACrowd, InWindow
<1>2. CASE LimiterNext
  BY <1>1, <1>2, AdmitKeeps, RefuseKeeps, ClockTicksKeeps DEF LimiterNext, PassThrough
<1> QED
  BY <1>1, <1>2

\* No request sequence makes the table hold more clients than it may, or a client more
\* admissions than the limit, or leaves a bucket empty.
THEOREM MemoryIsBoundedAlways == LimiterSpec => []MemoryIsBounded
<1>1. LimiterInvariant /\ [LimiterNext]_limiterVars => LimiterInvariant'
  BY LimiterInvariantStep
<1>2. LimiterInvariant => MemoryIsBounded
  BY DEF LimiterInvariant
<1> QED
  BY LimiterInvariantInit, <1>1, <1>2, PTL DEF LimiterSpec

LEMMA LossesAreInACrowd ==
    ASSUME LimiterInvariant, NEW k \in Keys, Cardinality(Recent(k)) > Limit
    PROVE  Cardinality(RecentClients) > MaxKeys
<1>0. /\ LimiterTypeOK /\ MemoryIsBounded /\ InOrder /\ BucketsAreSuffixes /\ LostInACrowd
      /\ Limit \in Nat /\ Window \in Nat /\ clock \in Nat /\ log[k] \in Seq(Nat)
  BY LimiterAssumption DEF LimiterInvariant, LimiterTypeOK
<1>1. PICK hl, ll \in Nat :
         hl = Held(bucket, k) /\ ll = Len(log[k]) /\ hl <= ll /\ hl <= Limit
  BY <1>0, HeldIsBounded
<1>2. PICK i \in Recent(k) : i \in 1 .. ll - hl
  <2>1. CASE Recent(k) \subseteq ll - hl + 1 .. ll
    <3>1. /\ IsFiniteSet(ll - hl + 1 .. ll)
          /\ Cardinality(ll - hl + 1 .. ll) = IF ll - hl + 1 > ll THEN 0 ELSE ll - (ll - hl + 1) + 1
      <4>1. ll - hl + 1 \in Int /\ ll \in Int
        OBVIOUS
      <4> QED
        BY <4>1, FS_Interval
    <3>2. Cardinality(ll - hl + 1 .. ll) = hl
      BY <1>1, <3>1
    <3>3. Cardinality(Recent(k)) <= hl /\ IsFiniteSet(Recent(k))
      BY <2>1, <3>1, <3>2, FS_Subset
    <3>4. Cardinality(Recent(k)) \in Nat /\ hl <= Limit
      BY <1>1, <3>3, FS_CardinalityType
    <3> QED
      BY <1>0, <3>3, <3>4
  <2>2. Recent(k) \subseteq 1 .. ll
    BY <1>0, <1>1 DEF Recent
  <2> QED
    BY <2>1, <2>2
<1>3. InWindow(log[k][i]) /\ log[k][i] \in Nat
  BY <1>0, <1>2 DEF Recent
<1>4. Cardinality(Since(log, log[k][i])) > MaxKeys
  BY <1>0, <1>1, <1>2, <1>3 DEF LostInACrowd
<1>5. ASSUME NEW j \in Since(log, log[k][i])
      PROVE  j \in RecentClients
  <2>1. j \in Keys /\ log[j] \in Seq(Nat) /\ log[j] # <<>> /\ Last(log[j]) >= log[k][i]
    BY <1>0 DEF Since, LimiterTypeOK
  <2>2. Len(log[j]) \in DOMAIN log[j] /\ log[j][Len(log[j])] \in Nat
    BY <2>1
  <2>3. InWindow(log[j][Len(log[j])])
    BY <1>0, <1>3, <2>1, <2>2 DEF InWindow, Last
  <2> QED
    BY <2>1, <2>2, <2>3 DEF RecentClients, Recent
<1>6. Since(log, log[k][i]) \in SUBSET RecentClients /\ RecentClients \in SUBSET Keys
      /\ Since(log, log[k][i]) \in SUBSET Keys
  BY <1>5 DEF RecentClients, Since
<1>7. /\ Cardinality(Since(log, log[k][i])) <= Cardinality(RecentClients)
      /\ Cardinality(Since(log, log[k][i])) \in Nat /\ Cardinality(RecentClients) \in Nat
      /\ MaxKeys \in Nat
  BY <1>6, KeysAreFinite, FS_Subset, LimiterAssumption
<1> QED
  BY <1>4, <1>7

\* A client exceeds its budget in a window only while more clients were admitted in it
\* than the table holds.
THEOREM OverBudgetOnlyWhenCrowdedAlways == LimiterSpec => []OverBudgetOnlyWhenCrowded
<1>1. LimiterInvariant /\ [LimiterNext]_limiterVars => LimiterInvariant'
  BY LimiterInvariantStep
<1>2. LimiterInvariant => OverBudgetOnlyWhenCrowded
  BY LossesAreInACrowd DEF OverBudgetOnlyWhenCrowded
<1> QED
  BY LimiterInvariantInit, <1>1, <1>2, PTL DEF LimiterSpec
-----------------------------------------------------------------------------
(***************************************************************************)
(* The accounts.  An address goes through one sign-up: it is registered by *)
(* one replica, which alone issues its token and mails it; it becomes      *)
(* active only by a mailed token, and a token is used only after that.     *)
(***************************************************************************)
TokenRow == [user : Emails, expires : Nat, used : BOOLEAN]

AccountRowsTyped ==
    /\ now \in Nat
    /\ DOMAIN users \subseteq Emails
    /\ tokens \in Seq(TokenRow)
    /\ minted \in Seq([user : Emails, at : Nat])
    /\ DOMAIN job = Replicas

\* Replica r has registered an address and not mailed its link yet.
Signing(r) == job[r].at \in {"issueToken", "mail"}
Mailed(e) == \E m \in mailed : m.to = e

TokensAreOwned ==
    /\ \A n \in DOMAIN tokens : Registered(tokens[n].user)
    /\ \A m \in mailed : m.token \in DOMAIN tokens /\ tokens[m.token].user = m.to

\* What the handler of each replica has made sure of.
JobsAreSound ==
    \A r \in Replicas :
        /\ job[r].at \in {"insertUser", "issueToken", "mail", "openSession"} => job[r].email \in Emails
        /\ Signing(r) => Registered(job[r].email) /\ ~Mailed(job[r].email)
        /\ job[r].at = "mail" =>
              /\ job[r].token \in DOMAIN tokens
              /\ tokens[job[r].token].user = job[r].email
        /\ job[r].at \in {"activate", "consume"} => \E m \in mailed : m.token = job[r].token
        /\ job[r].at = "consume" => Active(tokens[job[r].token].user)
        /\ job[r].at = "openSession" => Active(job[r].email)

OneSignsUp ==
    \A q, r \in Replicas :
        Signing(q) /\ Signing(r) /\ job[q].email = job[r].email => q = r

AccountsInvariant ==
    /\ AccountRowsTyped /\ TokensAreOwned /\ JobsAreSound /\ OneSignsUp
    /\ OneLinkPerAddress /\ NoTokenIsSpentInVain

LEMMA AccountsInvariantInit == AccountsInit => AccountsInvariant
<1> SUFFICES ASSUME AccountsInit
             PROVE  AccountsInvariant
  OBVIOUS
<1>1. AccountRowsTyped /\ TokensAreOwned
  BY DEF AccountsInit, AccountRowsTyped, TokensAreOwned
<1>2. \A r \in Replicas : job[r].at = "idle"
  BY DEF AccountsInit, Idle
<1>3. JobsAreSound /\ OneSignsUp
  BY <1>2 DEF JobsAreSound, OneSignsUp, Signing
<1>4. OneLinkPerAddress /\ NoTokenIsSpentInVain
  BY DEF AccountsInit, OneLinkPerAddress, NoTokenIsSpentInVain,
         Active, Registered
<1> QED
  BY <1>1, <1>3, <1>4 DEF AccountsInvariant

\* A handler that reads, answers or dies: only its own job, now not signing, changes.
LEMMA OnlyItsJobChanges ==
    ASSUME AccountsInvariant, NEW r \in Replicas, NEW next,
           UNCHANGED <<now, users, tokens, mailed, minted>>,
           job' = [job EXCEPT ![r] = next],
           next.at \notin {"issueToken", "mail", "consume"},
           next.at \in {"insertUser", "openSession"} => next.email \in Emails,
           next.at = "openSession" => Active(next.email),
           next.at = "activate" => \E m \in mailed : m.token = next.token
    PROVE  AccountsInvariant'
<1>1. /\ DOMAIN job' = Replicas /\ job'[r] = next
      /\ \A q \in Replicas \ {r} : job'[q] = job[q]
  BY DEF AccountsInvariant, AccountRowsTyped
<1>2. AccountRowsTyped' /\ TokensAreOwned'
  BY <1>1 DEF AccountsInvariant, AccountRowsTyped, TokensAreOwned,
              Active, Registered, Mailed
<1>3. OneLinkPerAddress' /\ NoTokenIsSpentInVain'
  BY DEF AccountsInvariant, OneLinkPerAddress, NoTokenIsSpentInVain, Active, Registered
<1>4. JobsAreSound'
  BY <1>1 DEF AccountsInvariant, JobsAreSound, Signing, Mailed, Active, Registered
<1>5. OneSignsUp'
  BY <1>1 DEF AccountsInvariant, OneSignsUp, Signing
<1> QED
  BY <1>2, <1>3, <1>4, <1>5 DEF AccountsInvariant

\* No account, token, mail or handler has changed.
LEMMA NothingChanges ==
    ASSUME AccountsInvariant, UNCHANGED <<users, tokens, mailed, minted, job>>, now' \in Nat
    PROVE  AccountsInvariant'
<1>1. AccountRowsTyped' /\ TokensAreOwned' /\ OneSignsUp'
  BY DEF AccountsInvariant, AccountRowsTyped, TokensAreOwned,
         OneSignsUp, Signing, Active, Registered, Mailed
<1>2. OneLinkPerAddress' /\ NoTokenIsSpentInVain'
  BY DEF AccountsInvariant, OneLinkPerAddress, NoTokenIsSpentInVain, Active, Registered
<1>3. JobsAreSound'
  BY DEF AccountsInvariant, JobsAreSound, Signing, Mailed, Active, Registered
<1> QED
  BY <1>1, <1>2, <1>3 DEF AccountsInvariant

LEMMA ReadingHandlersKeep ==
    ASSUME AccountsInvariant, NEW r \in Replicas,
           \/ \E e \in Emails : SignUp(r, e) \/ \E ok \in BOOLEAN : LogIn(r, e, ok)
           \/ \E n \in DOMAIN tokens : Verify(r, n)
           \/ \E s \in DOMAIN minted : LogOut(r, s)
           \/ \E c \in Credentials : Access(r, c)
           \/ Crash(r)
    PROVE  AccountsInvariant'
<1> USE DEF rowVars, historyVars, linkHistory, Goto
<1>0. now \in Nat
  BY DEF AccountsInvariant, AccountRowsTyped
<1>1. ASSUME NEW e \in Emails, SignUp(r, e)
      PROVE  AccountsInvariant'
  <2>1. CASE UNCHANGED job
    BY <1>0, <1>1, <2>1, NothingChanges DEF SignUp
  <2>2. CASE job' = [job EXCEPT ![r] = [at |-> "insertUser", email |-> e]]
    BY <1>1, <2>2, OnlyItsJobChanges DEF SignUp
  <2> QED
    BY <1>1, <2>1, <2>2 DEF SignUp
<1>2. ASSUME NEW e \in Emails, NEW ok \in BOOLEAN, LogIn(r, e, ok)
      PROVE  AccountsInvariant'
  <2>1. CASE UNCHANGED job
    BY <1>0, <1>2, <2>1, NothingChanges DEF LogIn
  <2>2. CASE job' = [job EXCEPT ![r] = [at |-> "openSession", email |-> e]] /\ Active(e)
    BY <1>2, <2>2, OnlyItsJobChanges DEF LogIn
  <2> QED
    BY <1>2, <2>1, <2>2 DEF LogIn
<1>3. ASSUME NEW n \in DOMAIN tokens, Verify(r, n)
      PROVE  AccountsInvariant'
  <2>1. CASE UNCHANGED job
    BY <1>0, <1>3, <2>1, NothingChanges DEF Verify
  <2>2. CASE job' = [job EXCEPT ![r] =
                        [at |-> "activate", token |-> n, asked |-> Len(verified)]]
    BY <1>3, <2>2, OnlyItsJobChanges DEF Verify
  <2> QED
    BY <1>3, <2>1, <2>2 DEF Verify, Presents
<1>4. ASSUME NEW s \in DOMAIN minted, LogOut(r, s)
      PROVE  AccountsInvariant'
  BY <1>0, <1>4, NothingChanges DEF LogOut
<1>5. ASSUME NEW c \in Credentials, Access(r, c)
      PROVE  AccountsInvariant'
  BY <1>0, <1>5, NothingChanges DEF Access
<1>6. CASE Crash(r)
  BY <1>6, OnlyItsJobChanges DEF Crash, Idle
<1> QED
  BY <1>1, <1>2, <1>3, <1>4, <1>5, <1>6

LEMMA InsertUserKeeps ==
    ASSUME AccountsInvariant, NEW r \in Replicas, InsertUser(r)
    PROVE  AccountsInvariant'
<1> DEFINE e == job[r].email
           next == [at |-> "issueToken", email |-> e]
<1>1. CASE UNCHANGED users
  <2>1. CASE job' = [job EXCEPT ![r] = Idle]
    <3>1. UNCHANGED <<now, users, tokens, mailed, minted>>
      BY <1>1 DEF InsertUser, historyVars, linkHistory
    <3>2. Idle.at = "idle"
      BY DEF Idle
    <3> QED
      BY <2>1, <3>1, <3>2, OnlyItsJobChanges
  <2>2. CASE job' = [job EXCEPT ![r] = next] /\ ~Registered(e)
    BY <1>1, <2>2 DEF InsertUser, Registered
  <2> QED
    BY <1>1, <2>1, <2>2 DEF InsertUser, Goto
<1>2. CASE ~Registered(e)
  <2>1. /\ e \in Emails /\ DOMAIN users' = DOMAIN users \cup {e} /\ users'[e] = "pending"
        /\ \A x \in DOMAIN users : users'[x] = users[x]
        /\ UNCHANGED <<now, tokens, mailed, minted>>
        /\ job' = [job EXCEPT ![r] = next]
    BY <1>2 DEF InsertUser, Goto, AccountsInvariant, JobsAreSound, Registered, historyVars, linkHistory
  <2>2. /\ DOMAIN job' = Replicas /\ job'[r] = next
        /\ \A q \in Replicas \ {r} : job'[q] = job[q]
    BY <2>1 DEF AccountsInvariant, AccountRowsTyped
  <2>3. /\ \A x : Registered(x)' <=> Registered(x) \/ x = e
        /\ \A x : Active(x)' <=> Active(x)
    BY <1>2, <2>1 DEF Registered, Active
  <2>4. ~Mailed(e) /\ \A q \in Replicas : Signing(q) => job[q].email # e
    BY <1>2 DEF AccountsInvariant, TokensAreOwned, JobsAreSound, Mailed
  <2>5. AccountRowsTyped' /\ TokensAreOwned'
    BY <2>1, <2>2, <2>3 DEF AccountsInvariant, AccountRowsTyped, TokensAreOwned, Mailed
  <2>6. OneLinkPerAddress' /\ NoTokenIsSpentInVain'
    BY <2>1, <2>3 DEF AccountsInvariant, OneLinkPerAddress, NoTokenIsSpentInVain
  <2>7. JobsAreSound'
    BY <2>1, <2>2, <2>3, <2>4 DEF AccountsInvariant, JobsAreSound, Signing, Mailed
  <2>8. OneSignsUp'
    BY <2>2, <2>4 DEF AccountsInvariant, OneSignsUp, Signing
  <2> QED
    BY <2>5, <2>6, <2>7, <2>8 DEF AccountsInvariant
<1> QED
  BY <1>1, <1>2 DEF InsertUser

LEMMA IssueTokenKeeps ==
    ASSUME AccountsInvariant, NEW r \in Replicas, IssueToken(r)
    PROVE  AccountsInvariant'
<1> DEFINE e == job[r].email
           n == Len(tokens) + 1
           next == [at |-> "mail", email |-> e, token |-> n]
<1>1. /\ job[r].at = "issueToken" /\ e \in Emails /\ now \in Nat
      /\ Registered(e) /\ ~Mailed(e) /\ Signing(r)
      /\ job' = [job EXCEPT ![r] = next]
      /\ UNCHANGED <<now, users, mailed, minted>>
  BY DEF IssueToken, Goto, AccountsInvariant, JobsAreSound, AccountRowsTyped, Signing,
         historyVars, linkHistory
<1>2. PICK row \in TokenRow : /\ row.user = e /\ row.used = FALSE
                              /\ tokens' = Append(tokens, row)
  <2>1. PICK row : row = [user |-> e, expires |-> now + VerificationTtl, used |-> FALSE]
    OBVIOUS
  <2>2. row \in TokenRow /\ row.user = e /\ row.used = FALSE
    BY <1>1, <2>1, AccountsAssumption DEF TokenRow
  <2>3. tokens' = Append(tokens, row)
    BY <2>1 DEF IssueToken
  <2> QED
    BY <2>2, <2>3
<1>3. /\ tokens' \in Seq(TokenRow) /\ tokens \in Seq(TokenRow)
      /\ DOMAIN tokens' = DOMAIN tokens \cup {n} /\ tokens'[n] = row
      /\ \A t \in DOMAIN tokens : tokens'[t] = tokens[t]
  BY <1>2 DEF AccountsInvariant, AccountRowsTyped
<1>4. /\ DOMAIN job' = Replicas /\ job'[r] = next
      /\ \A q \in Replicas \ {r} : job'[q] = job[q]
  BY <1>1 DEF AccountsInvariant, AccountRowsTyped
<1>5. \A x : (Registered(x)' <=> Registered(x)) /\ (Active(x)' <=> Active(x))
  BY <1>1 DEF Registered, Active
<1>6. AccountRowsTyped'
  BY <1>1, <1>3, <1>4 DEF AccountsInvariant, AccountRowsTyped
<1>7. TokensAreOwned'
  BY <1>1, <1>2, <1>3, <1>5 DEF AccountsInvariant, TokensAreOwned
<1>8. OneLinkPerAddress'
  BY <1>1, <1>5 DEF AccountsInvariant, OneLinkPerAddress, Mailed
<1>9. NoTokenIsSpentInVain'
  BY <1>2, <1>3, <1>5 DEF AccountsInvariant, NoTokenIsSpentInVain
<1>10. JobsAreSound'
  <2>1. ASSUME NEW q \in Replicas \ {r}, job[q].at = "consume"
        PROVE  Active(tokens'[job[q].token].user)
    BY <1>3, <2>1 DEF AccountsInvariant, JobsAreSound, TokensAreOwned
  <2>2. ASSUME NEW q \in Replicas \ {r}, job[q].at = "mail"
        PROVE  /\ job[q].token \in DOMAIN tokens'
               /\ tokens'[job[q].token].user = job[q].email
    BY <1>3, <2>2 DEF AccountsInvariant, JobsAreSound
  <2>3. next.token \in DOMAIN tokens' /\ tokens'[next.token].user = next.email
    BY <1>2, <1>3
  <2>4. \A x : Mailed(x)' <=> Mailed(x)
    BY <1>1 DEF Mailed
  <2> QED
    BY <1>1, <1>4, <1>5, <2>1, <2>2, <2>3, <2>4 DEF AccountsInvariant, JobsAreSound, Signing
<1>11. OneSignsUp'
  BY <1>1, <1>4 DEF AccountsInvariant, OneSignsUp, Signing
<1> QED
  BY <1>6, <1>7, <1>8, <1>9, <1>10, <1>11 DEF AccountsInvariant

LEMMA SendMailKeeps ==
    ASSUME AccountsInvariant, NEW r \in Replicas, SendMail(r)
    PROVE  AccountsInvariant'
<1> DEFINE e == job[r].email
           link == [to |-> e, token |-> job[r].token]
<1>1. /\ job[r].at = "mail" /\ e \in Emails /\ Signing(r)
      /\ Registered(e) /\ ~Mailed(e) /\ job[r].token \in DOMAIN tokens
      /\ tokens[job[r].token].user = e
      /\ job' = [job EXCEPT ![r] = Idle]
      /\ mailed' = mailed \cup {link}
      /\ UNCHANGED <<now, users, tokens, minted>>
  BY DEF SendMail, Goto, AccountsInvariant, JobsAreSound, Signing, rowVars
<1>2. /\ DOMAIN job' = Replicas /\ job'[r].at = "idle"
      /\ \A q \in Replicas \ {r} : job'[q] = job[q]
  BY <1>1 DEF AccountsInvariant, AccountRowsTyped, Idle
<1>3. \A x : (Registered(x)' <=> Registered(x)) /\ (Active(x)' <=> Active(x))
  BY <1>1 DEF Registered, Active
<1>4. \A x : Mailed(x)' <=> Mailed(x) \/ x = e
  <2>1. link.to = e
    OBVIOUS
  <2>2. \A m : m \in mailed' <=> m \in mailed \/ m = link
    BY <1>1
  <2> QED
    BY <2>1, <2>2, Zenon DEF Mailed
<1>5. \A q \in Replicas \ {r} : Signing(q) => job[q].email # e
  BY <1>1 DEF AccountsInvariant, OneSignsUp
<1>6. AccountRowsTyped' /\ TokensAreOwned'
  BY <1>1, <1>2, <1>3, <1>4 DEF AccountsInvariant, AccountRowsTyped, TokensAreOwned
<1>7. OneLinkPerAddress' /\ NoTokenIsSpentInVain'
  BY <1>1, <1>3 DEF AccountsInvariant, OneLinkPerAddress, NoTokenIsSpentInVain, Mailed
<1>8. JobsAreSound'
  BY <1>1, <1>2, <1>3, <1>4, <1>5 DEF AccountsInvariant, JobsAreSound, Signing
<1>9. OneSignsUp'
  BY <1>2 DEF AccountsInvariant, OneSignsUp, Signing
<1> QED
  BY <1>6, <1>7, <1>8, <1>9 DEF AccountsInvariant

LEMMA ActivateKeeps ==
    ASSUME AccountsInvariant, NEW r \in Replicas, Activate(r)
    PROVE  AccountsInvariant'
<1> DEFINE n == job[r].token
           e == tokens[n].user
           next == [at |-> "consume", token |-> n, asked |-> job[r].asked]
<1>1. /\ job[r].at = "activate" /\ Mailed(e) /\ n \in DOMAIN tokens /\ Registered(e)
      /\ \E m \in mailed : m.token = n
      /\ job' = [job EXCEPT ![r] = next]
      /\ users' = [users EXCEPT ![e] = "active"]
      /\ UNCHANGED <<now, tokens, mailed, minted>>
  BY DEF Activate, Goto, AccountsInvariant, JobsAreSound, TokensAreOwned, Mailed, historyVars, linkHistory
<1>2. /\ DOMAIN job' = Replicas /\ job'[r] = next
      /\ \A q \in Replicas \ {r} : job'[q] = job[q]
  BY <1>1 DEF AccountsInvariant, AccountRowsTyped
<1>3. /\ \A x : Registered(x)' <=> Registered(x)
      /\ \A x : Active(x)' <=> Active(x) \/ x = e
  BY <1>1 DEF Registered, Active
<1>4. AccountRowsTyped' /\ TokensAreOwned'
  BY <1>1, <1>2, <1>3 DEF AccountsInvariant, AccountRowsTyped, TokensAreOwned, Mailed
<1>5. OneLinkPerAddress' /\ NoTokenIsSpentInVain'
  BY <1>1, <1>3 DEF AccountsInvariant, OneLinkPerAddress, NoTokenIsSpentInVain
<1>6. JobsAreSound'
  BY <1>1, <1>2, <1>3 DEF AccountsInvariant, JobsAreSound, Signing, Mailed
<1>7. OneSignsUp'
  BY <1>2 DEF AccountsInvariant, OneSignsUp, Signing
<1> QED
  BY <1>4, <1>5, <1>6, <1>7 DEF AccountsInvariant

LEMMA ConsumeKeeps ==
    ASSUME AccountsInvariant, NEW r \in Replicas, Consume(r)
    PROVE  AccountsInvariant'
<1> DEFINE n == job[r].token
<1>1. /\ job[r].at = "consume" /\ n \in DOMAIN tokens /\ Active(tokens[n].user)
      /\ tokens \in Seq(TokenRow)
      /\ job' = [job EXCEPT ![r] = Idle]
      /\ tokens' = [tokens EXCEPT ![n].used = TRUE]
      /\ UNCHANGED <<now, users, mailed, minted>>
  BY DEF Consume, Goto, AccountsInvariant, JobsAreSound, TokensAreOwned, AccountRowsTyped,
         historyVars, linkHistory
<1>2. /\ tokens' \in Seq(TokenRow) /\ DOMAIN tokens' = DOMAIN tokens
      /\ \A t \in DOMAIN tokens : tokens'[t].user = tokens[t].user
      /\ \A t \in DOMAIN tokens \ {n} : tokens'[t] = tokens[t]
  <2>1. PICK row : row = [tokens[n] EXCEPT !.used = TRUE]
    OBVIOUS
  <2>2. tokens[n] \in TokenRow
    BY <1>1
  <2>3. row \in TokenRow /\ row.user = tokens[n].user
    BY <2>1, <2>2 DEF TokenRow
  <2>4. tokens' = [tokens EXCEPT ![n] = row]
    BY <1>1, <2>1
  <2> QED
    BY <1>1, <2>3, <2>4
<1>3. /\ DOMAIN job' = Replicas /\ job'[r].at = "idle"
      /\ \A q \in Replicas \ {r} : job'[q] = job[q]
  BY <1>1 DEF AccountsInvariant, AccountRowsTyped, Idle
<1>4. \A x : (Registered(x)' <=> Registered(x)) /\ (Active(x)' <=> Active(x))
  BY <1>1 DEF Registered, Active
<1>5. AccountRowsTyped' /\ TokensAreOwned'
  BY <1>1, <1>2, <1>3, <1>4 DEF AccountsInvariant, AccountRowsTyped, TokensAreOwned, Mailed
<1>6. OneLinkPerAddress'
  BY <1>1 DEF AccountsInvariant, OneLinkPerAddress
<1>7. NoTokenIsSpentInVain'
  BY <1>1, <1>2, <1>4 DEF AccountsInvariant, NoTokenIsSpentInVain
<1>8. JobsAreSound'
  <2>1. ASSUME NEW q \in Replicas \ {r}, job[q].at = "consume"
        PROVE  Active(tokens'[job[q].token].user)
    BY <1>2, <2>1 DEF AccountsInvariant, JobsAreSound, TokensAreOwned
  <2> QED
    BY <1>1, <1>2, <1>3, <1>4, <2>1 DEF AccountsInvariant, JobsAreSound, Signing, Mailed
<1>9. OneSignsUp'
  BY <1>3 DEF AccountsInvariant, OneSignsUp, Signing
<1> QED
  BY <1>5, <1>6, <1>7, <1>8, <1>9 DEF AccountsInvariant

LEMMA OpenSessionKeeps ==
    ASSUME AccountsInvariant, NEW r \in Replicas, OpenSession(r)
    PROVE  AccountsInvariant'
<1> DEFINE e == job[r].email
<1>1. /\ job[r].at = "openSession" /\ e \in Emails /\ Active(e) /\ now \in Nat
      /\ job' = [job EXCEPT ![r] = Idle]
      /\ minted \in Seq([user : Emails, at : Nat])
      /\ UNCHANGED <<now, users, tokens, mailed>>
  BY DEF OpenSession, Goto, AccountsInvariant, JobsAreSound, AccountRowsTyped, linkHistory
<1>2. PICK row \in [user : Emails, at : Nat] : row.user = e /\ minted' = Append(minted, row)
  BY <1>1 DEF OpenSession
<1>3. /\ minted' \in Seq([user : Emails, at : Nat])
      /\ \A s \in DOMAIN minted' : s \in DOMAIN minted \/ minted'[s] = row
      /\ \A s \in DOMAIN minted : minted'[s] = minted[s]
  BY <1>1, <1>2
<1>4. /\ DOMAIN job' = Replicas /\ job'[r].at = "idle"
      /\ \A q \in Replicas \ {r} : job'[q] = job[q]
  BY <1>1 DEF AccountsInvariant, AccountRowsTyped, Idle
<1>5. \A x : (Registered(x)' <=> Registered(x)) /\ (Active(x)' <=> Active(x))
  BY <1>1 DEF Registered, Active
<1>6. AccountRowsTyped' /\ TokensAreOwned'
  BY <1>1, <1>3, <1>4, <1>5 DEF AccountsInvariant, AccountRowsTyped, TokensAreOwned
<1>8. OneLinkPerAddress' /\ NoTokenIsSpentInVain'
  BY <1>1, <1>5 DEF AccountsInvariant, OneLinkPerAddress, NoTokenIsSpentInVain
<1>9. JobsAreSound'
  BY <1>1, <1>4, <1>5 DEF AccountsInvariant, JobsAreSound, Signing, Mailed
<1>10. OneSignsUp'
  BY <1>4 DEF AccountsInvariant, OneSignsUp, Signing
<1> QED
  BY <1>6, <1>8, <1>9, <1>10 DEF AccountsInvariant

LEMMA AccountsInvariantStep ==
    ASSUME AccountsInvariant, [AccountsNext]_accountVars
    PROVE  AccountsInvariant'
<1>0. now \in Nat
  BY DEF AccountsInvariant, AccountRowsTyped
<1>1. CASE UNCHANGED accountVars
  BY <1>0, <1>1, NothingChanges DEF accountVars, rowVars, historyVars, linkHistory
<1>2. CASE Elapse
  BY <1>0, <1>2, NothingChanges DEF Elapse, rowVars, historyVars, linkHistory
<1>3. CASE \E r \in Replicas : ReplicaNext(r)
  <2>1. PICK r \in Replicas : ReplicaNext(r)
    BY <1>3
  <2> QED
    BY <2>1, ReadingHandlersKeep, InsertUserKeeps, IssueTokenKeeps, SendMailKeeps,
       ActivateKeeps, ConsumeKeeps, OpenSessionKeeps DEF ReplicaNext
<1> QED
  BY <1>1, <1>2, <1>3 DEF AccountsNext

LEMMA AccountsInvariantAlways == AccountsSpec => []AccountsInvariant
<1>1. AccountsInvariant /\ [AccountsNext]_accountVars => AccountsInvariant'
  BY AccountsInvariantStep
<1> QED
  BY AccountsInvariantInit, <1>1, PTL DEF AccountsSpec

\* However many replicas sign an address up at once and wherever they die, at most one
\* link is mailed to it.
THEOREM OneLinkPerAddressAlways == AccountsSpec => []OneLinkPerAddress
<1>1. AccountsInvariant => OneLinkPerAddress
  BY DEF AccountsInvariant
<1> QED
  BY AccountsInvariantAlways, <1>1, PTL

\* A spent token has activated its account, whichever replica died in between.
THEOREM NoTokenIsSpentInVainAlways == AccountsSpec => []NoTokenIsSpentInVain
<1>1. AccountsInvariant => NoTokenIsSpentInVain
  BY DEF AccountsInvariant
<1> QED
  BY AccountsInvariantAlways, <1>1, PTL

-----------------------------------------------------------------------------
(***************************************************************************)
(* The links.  An account becomes active only by a token that was          *)
(* presented; and a verification under way has looked its token up before  *)
(* any of that token was answered, but those it overlaps.                  *)
(***************************************************************************)
Verifying(r) == job[r].at \in {"activate", "consume"}

\* A link mailed to e was presented.
Reached(e) == \E m \in mailed : m.to = e /\ m.token \in presented

LinksArePresented ==
    /\ \A r \in Replicas : Verifying(r) => job[r].token \in presented
    /\ \A n \in presented : \E m \in mailed : m.token = n
    /\ \A e : Active(e) => Reached(e)
    /\ SessionsBelongToReachedAddresses

LinksAreSpent ==
    /\ verified \in Seq([token : Nat, asked : Nat])
    /\ \A i \in DOMAIN verified :
          verified[i].token \in DOMAIN tokens /\ tokens[verified[i].token].used
    /\ \A r \in Replicas : Verifying(r) =>
          /\ job[r].token \in DOMAIN tokens /\ job[r].asked \in 0 .. Len(verified)
          /\ \A i \in 1 .. job[r].asked : verified[i].token # job[r].token
    /\ LinksWorkTwiceOnlyByOverlap

LinkInvariant == LinksArePresented /\ LinksAreSpent

\* A verification begins: the link is good and its look-up is noted.
Verifies(r, n) ==
    /\ Presentable(n) /\ Presents(r, n)
    /\ UNCHANGED <<users, tokens, mailed, verified, minted>>

\* No step but those of a verification and of a login speaks of links and sessions; it
\* issues at most one token, and no account becomes active by it.
Bystanding ==
    /\ UNCHANGED <<presented, verified, minted>>
    /\ mailed \subseteq mailed'
    /\ tokens' = tokens \/ \E row \in TokenRow : tokens' = Append(tokens, row)
    /\ \A e : Active(e)' <=> Active(e)
    /\ \A r \in Replicas : job'[r] = job[r] \/ ~Verifying(r)'

LEMMA LinkInvariantInit == AccountsInit => LinkInvariant
<1> SUFFICES ASSUME AccountsInit
             PROVE  LinkInvariant
  OBVIOUS
<1>1. /\ \A r \in Replicas : ~Verifying(r)
      /\ presented = {} /\ verified = <<>> /\ minted = <<>> /\ \A e : ~Active(e)
  BY DEF AccountsInit, Verifying, Idle, Active, Registered
<1> QED
  BY <1>1 DEF LinkInvariant, LinksArePresented, LinksAreSpent,
              SessionsBelongToReachedAddresses, LinksWorkTwiceOnlyByOverlap

LEMMA MostStepsStandBy ==
    ASSUME AccountsInvariant, [AccountsNext]_accountVars
    PROVE  \/ Bystanding
           \/ \E r \in Replicas : \E n \in DOMAIN tokens : Verify(r, n) /\ Verifies(r, n)
           \/ \E r \in Replicas : Activate(r) \/ Consume(r) \/ OpenSession(r)
<1> USE DEF rowVars, historyVars, linkHistory, Goto
<1>0. DOMAIN job = Replicas /\ tokens \in Seq(TokenRow) /\ now \in Nat
  BY DEF AccountsInvariant, AccountRowsTyped
<1>1. ASSUME UNCHANGED <<users, tokens, presented, verified, minted>>,
             mailed \subseteq mailed',
             \A r \in Replicas : job'[r] = job[r] \/ ~Verifying(r)'
      PROVE  Bystanding
  BY <1>1 DEF Bystanding, Active, Registered
<1>2. CASE UNCHANGED accountVars \/ Elapse
  <2>1. UNCHANGED <<users, tokens, presented, verified, minted, mailed, job>>
    BY <1>2 DEF accountVars, Elapse
  <2> QED
    BY <1>1, <2>1
<1>3. ASSUME NEW r \in Replicas, NEW next, job' = [job EXCEPT ![r] = next],
             next.at \notin {"activate", "consume"}
      PROVE  \A q \in Replicas : job'[q] = job[q] \/ ~Verifying(q)'
  BY <1>0, <1>3 DEF Verifying
<1>4. ASSUME NEW r \in Replicas, NEW e \in Emails,
             SignUp(r, e) \/ \E ok \in BOOLEAN : LogIn(r, e, ok)
      PROVE  Bystanding
  <2>1. /\ UNCHANGED <<users, tokens, presented, verified, minted, mailed>>
        /\ \/ UNCHANGED job
           \/ job' = [job EXCEPT ![r] = [at |-> "insertUser", email |-> e]]
           \/ job' = [job EXCEPT ![r] = [at |-> "openSession", email |-> e]]
    BY <1>4 DEF SignUp, LogIn
  <2> QED
    BY <1>1, <1>3, <2>1
<1>5. ASSUME NEW r \in Replicas, Crash(r) \/ SendMail(r)
      PROVE  Bystanding
  <2>1. /\ UNCHANGED <<users, tokens, presented, verified, minted>>
        /\ mailed \subseteq mailed' /\ job' = [job EXCEPT ![r] = Idle]
    BY <1>5 DEF Crash, SendMail
  <2>2. Idle.at \notin {"activate", "consume"}
    BY DEF Idle
  <2> QED
    BY <1>1, <1>3, <2>1, <2>2
<1>6. ASSUME NEW r \in Replicas, InsertUser(r)
      PROVE  Bystanding
  <2>1. /\ UNCHANGED <<tokens, presented, verified, minted, mailed>>
        /\ \A x : Active(x)' <=> Active(x)
    BY <1>6 DEF InsertUser, Active, Registered
  <2>2. \/ job' = [job EXCEPT ![r] = Idle]
        \/ job' = [job EXCEPT ![r] = [at |-> "issueToken", email |-> job[r].email]]
    BY <1>6 DEF InsertUser
  <2>3. Idle.at \notin {"activate", "consume"}
    BY DEF Idle
  <2>4. \A q \in Replicas : job'[q] = job[q] \/ ~Verifying(q)'
    BY <1>3, <2>2, <2>3
  <2> QED
    BY <2>1, <2>4 DEF Bystanding
<1>7. ASSUME NEW r \in Replicas, IssueToken(r)
      PROVE  Bystanding
  <2> DEFINE row == [user |-> job[r].email, expires |-> now + VerificationTtl, used |-> FALSE]
             next == [at |-> "mail", email |-> job[r].email, token |-> Len(tokens) + 1]
  <2>1. /\ UNCHANGED <<users, presented, verified, minted, mailed>>
        /\ tokens' = Append(tokens, row) /\ job' = [job EXCEPT ![r] = next]
        /\ job[r].email \in Emails
    BY <1>7 DEF IssueToken, AccountsInvariant, JobsAreSound
  <2>2. row \in TokenRow
    BY <1>0, <2>1, AccountsAssumption DEF TokenRow
  <2>3. \A q \in Replicas : job'[q] = job[q] \/ ~Verifying(q)'
    BY <1>3, <2>1
  <2>4. \A x : Active(x)' <=> Active(x)
    BY <2>1 DEF Active, Registered
  <2> QED
    BY <2>1, <2>2, <2>3, <2>4 DEF Bystanding
<1>8. ASSUME NEW r \in Replicas, NEW n \in DOMAIN tokens, Verify(r, n)
      PROVE  Bystanding \/ Verifies(r, n)
  <2>1. CASE UNCHANGED <<job, presented>>
    BY <1>1, <1>8, <2>1 DEF Verify
  <2> QED
    BY <1>8, <2>1 DEF Verify, Verifies
<1>9. ASSUME NEW r \in Replicas,
             (\E s \in DOMAIN minted : LogOut(r, s)) \/ \E c \in Credentials : Access(r, c)
      PROVE  Bystanding
  <2>1. UNCHANGED <<users, tokens, presented, verified, minted, mailed, job>>
    BY <1>9 DEF LogOut, Access
  <2> QED
    BY <1>1, <2>1
<1>10. ASSUME NEW r \in Replicas, ReplicaNext(r)
       PROVE  \/ Bystanding
              \/ \E n \in DOMAIN tokens : Verify(r, n) /\ Verifies(r, n)
              \/ Activate(r) \/ Consume(r) \/ OpenSession(r)
  BY <1>4, <1>5, <1>6, <1>7, <1>8, <1>9, <1>10 DEF ReplicaNext
<1> QED
  BY <1>2, <1>10 DEF AccountsNext

LEMMA BystandingKeepsLinks ==
    ASSUME AccountsInvariant, LinkInvariant, Bystanding
    PROVE  LinkInvariant'
<1>0. tokens \in Seq(TokenRow)
  BY DEF AccountsInvariant, AccountRowsTyped
<1>1. /\ DOMAIN tokens \subseteq DOMAIN tokens'
      /\ \A n \in DOMAIN tokens : tokens'[n] = tokens[n]
  <2>1. ASSUME NEW row \in TokenRow, tokens' = Append(tokens, row)
        PROVE  /\ DOMAIN tokens \subseteq DOMAIN tokens'
               /\ \A n \in DOMAIN tokens : tokens'[n] = tokens[n]
    BY <1>0, <2>1
  <2> QED
    BY <2>1 DEF Bystanding
<1>2. UNCHANGED <<presented, verified, minted>> /\ mailed \subseteq mailed'
  BY DEF Bystanding
<1>3. ASSUME NEW r \in Replicas, Verifying(r)'
      PROVE  job'[r] = job[r] /\ Verifying(r)
  BY <1>3 DEF Bystanding, Verifying
<1>4. LinksArePresented'
  <2>1. /\ \A e : Reached(e) => Reached(e)'
        /\ \A n \in presented' : \E m \in mailed' : m.token = n
    BY <1>2 DEF LinkInvariant, LinksArePresented, Reached
  <2>2. \A e : Active(e)' => Reached(e)'
    BY <2>1 DEF Bystanding, LinkInvariant, LinksArePresented
  <2>3. SessionsBelongToReachedAddresses'
    BY <1>2, <2>1 DEF LinkInvariant, LinksArePresented, SessionsBelongToReachedAddresses,
                      Reached
  <2>4. \A r \in Replicas : Verifying(r)' => job'[r].token \in presented'
    BY <1>2, <1>3 DEF LinkInvariant, LinksArePresented
  <2> QED
    BY <2>1, <2>2, <2>3, <2>4 DEF LinksArePresented
<1>5. LinksAreSpent'
  <2>1. /\ verified' \in Seq([token : Nat, asked : Nat])
        /\ \A i \in DOMAIN verified' :
              verified'[i].token \in DOMAIN tokens' /\ tokens'[verified'[i].token].used
    BY <1>1, <1>2 DEF LinkInvariant, LinksAreSpent
  <2>2. \A r \in Replicas : Verifying(r)' =>
          /\ job'[r].token \in DOMAIN tokens' /\ job'[r].asked \in 0 .. Len(verified')
          /\ \A i \in 1 .. job'[r].asked : verified'[i].token # job'[r].token
    BY <1>1, <1>2, <1>3 DEF LinkInvariant, LinksAreSpent
  <2>3. LinksWorkTwiceOnlyByOverlap'
    BY <1>2 DEF LinkInvariant, LinksAreSpent, LinksWorkTwiceOnlyByOverlap
  <2> QED
    BY <2>1, <2>2, <2>3 DEF LinksAreSpent
<1> QED
  BY <1>4, <1>5 DEF LinkInvariant

LEMMA VerifyingKeepsLinks ==
    ASSUME AccountsInvariant, LinkInvariant, NEW r \in Replicas, NEW n \in DOMAIN tokens,
           Verifies(r, n), \E m \in mailed : m.token = n
    PROVE  LinkInvariant'
<1> DEFINE next == [at |-> "activate", token |-> n, asked |-> Len(verified)]
<1>1. /\ UNCHANGED <<users, tokens, mailed, verified, minted>>
      /\ presented' = presented \cup {n} /\ job' = [job EXCEPT ![r] = next]
      /\ ~tokens[n].used
  BY DEF Verifies, Presents, Goto, Presentable
<1>2. /\ next.token = n /\ next.asked = Len(verified)
      /\ job'[r] = next /\ \A q \in Replicas \ {r} : job'[q] = job[q]
  BY <1>1 DEF AccountsInvariant, AccountRowsTyped
<1> HIDE DEF next
<1>3. ASSUME NEW q \in Replicas \ {r}, Verifying(q)'
      PROVE  Verifying(q) /\ job'[q] = job[q]
  BY <1>2, <1>3 DEF Verifying
<1>4. LinksArePresented'
  <2>1. \A e : (Reached(e) => Reached(e)') /\ (Active(e)' <=> Active(e))
    BY <1>1 DEF Reached, Active, Registered
  <2>2. SessionsBelongToReachedAddresses'
    BY <1>1 DEF LinkInvariant, LinksArePresented, SessionsBelongToReachedAddresses
  <2>3. \A q \in Replicas : Verifying(q)' => job'[q].token \in presented'
    BY <1>1, <1>2, <1>3 DEF LinkInvariant, LinksArePresented
  <2>4. \A k \in presented' : \E m \in mailed' : m.token = k
    BY <1>1 DEF LinkInvariant, LinksArePresented
  <2> QED
    BY <2>1, <2>2, <2>3, <2>4 DEF LinkInvariant, LinksArePresented
<1>5. LinksAreSpent'
  <2>1. LinksWorkTwiceOnlyByOverlap'
    BY <1>1 DEF LinkInvariant, LinksAreSpent, LinksWorkTwiceOnlyByOverlap
  <2>2. /\ Len(verified) \in 0 .. Len(verified) /\ DOMAIN verified = 1 .. Len(verified)
        /\ \A i \in DOMAIN verified : verified[i].token # n
    BY <1>1 DEF LinkInvariant, LinksAreSpent
  <2>3. \A q \in Replicas : Verifying(q)' =>
          /\ job'[q].token \in DOMAIN tokens' /\ job'[q].asked \in 0 .. Len(verified')
          /\ \A i \in 1 .. job'[q].asked : verified'[i].token # job'[q].token
    <3>1. ASSUME NEW q \in Replicas \ {r}, Verifying(q)'
          PROVE  /\ job'[q].token \in DOMAIN tokens' /\ job'[q].asked \in 0 .. Len(verified')
                 /\ \A i \in 1 .. job'[q].asked : verified'[i].token # job'[q].token
      BY <1>1, <1>3, <3>1 DEF LinkInvariant, LinksAreSpent
    <3>2. /\ job'[r].token \in DOMAIN tokens' /\ job'[r].asked \in 0 .. Len(verified')
          /\ \A i \in 1 .. job'[r].asked : verified'[i].token # job'[r].token
      BY <1>1, <1>2, <2>2
    <3> QED
      BY <3>1, <3>2
  <2> QED
    BY <1>1, <2>1, <2>3 DEF LinkInvariant, LinksAreSpent
<1> QED
  BY <1>4, <1>5 DEF LinkInvariant

LEMMA ActivateKeepsLinks ==
    ASSUME AccountsInvariant, LinkInvariant, NEW r \in Replicas, Activate(r)
    PROVE  LinkInvariant'
<1> DEFINE n == job[r].token
           next == [at |-> "consume", token |-> n, asked |-> job[r].asked]
<1>1. /\ Verifying(r) /\ job' = [job EXCEPT ![r] = next]
      /\ users' = [users EXCEPT ![tokens[n].user] = "active"]
      /\ UNCHANGED <<tokens, mailed, presented, verified, minted>>
  BY DEF Activate, Goto, Verifying, historyVars, linkHistory
<1>2. /\ next.at = "consume" /\ next.token = job[r].token /\ next.asked = job[r].asked
      /\ job'[r] = next /\ \A q \in Replicas \ {r} : job'[q] = job[q]
  BY <1>1 DEF AccountsInvariant, AccountRowsTyped
<1> HIDE DEF next
<1>3. \A q \in Replicas : Verifying(q)' =>
          /\ Verifying(q)
          /\ job'[q].token = job[q].token /\ job'[q].asked = job[q].asked
  <2>1. ASSUME NEW q \in Replicas \ {r}, Verifying(q)'
        PROVE  Verifying(q) /\ job'[q] = job[q]
    BY <1>2, <2>1 DEF Verifying
  <2> QED
    BY <1>1, <1>2, <2>1
<1>4. LinksArePresented'
  <2>1. \A e : Reached(e) => Reached(e)'
    BY <1>1 DEF Reached
  <2>2. n \in presented /\ Reached(tokens[n].user)
    BY <1>1 DEF LinkInvariant, LinksArePresented, Reached, AccountsInvariant, TokensAreOwned
  <2>3. \A e : Active(e)' => Active(e) \/ e = tokens[n].user
    BY <1>1 DEF Active, Registered
  <2>4. \A e : Active(e)' => Reached(e)'
    BY <2>1, <2>2, <2>3 DEF LinkInvariant, LinksArePresented
  <2>5. SessionsBelongToReachedAddresses'
    BY <1>1 DEF LinkInvariant, LinksArePresented, SessionsBelongToReachedAddresses
  <2> QED
    BY <1>1, <1>3, <2>4, <2>5 DEF LinkInvariant, LinksArePresented
<1>5. LinksAreSpent'
  <2>1. LinksWorkTwiceOnlyByOverlap'
    BY <1>1 DEF LinkInvariant, LinksAreSpent, LinksWorkTwiceOnlyByOverlap
  <2> QED
    BY <1>1, <1>3, <2>1 DEF LinkInvariant, LinksAreSpent
<1> QED
  BY <1>4, <1>5 DEF LinkInvariant

LEMMA ConsumeKeepsLinks ==
    ASSUME AccountsInvariant, LinkInvariant, NEW r \in Replicas, Consume(r)
    PROVE  LinkInvariant'
<1> DEFINE n == job[r].token
           row == [token |-> n, asked |-> job[r].asked]
<1>1. /\ Verifying(r) /\ n \in DOMAIN tokens /\ tokens \in Seq(TokenRow)
      /\ tokens' = [tokens EXCEPT ![n].used = TRUE]
      /\ verified' = Append(verified, row) /\ job' = [job EXCEPT ![r] = Idle]
      /\ UNCHANGED <<users, mailed, presented, minted>>
  BY DEF Consume, Goto, Verifying, LinkInvariant, LinksAreSpent, AccountsInvariant,
         AccountRowsTyped
<1>2. /\ DOMAIN tokens' = DOMAIN tokens /\ tokens'[n].used
      /\ \A k \in DOMAIN tokens : tokens[k].used => tokens'[k].used
  <2>1. PICK spent : spent = [tokens[n] EXCEPT !.used = TRUE]
    OBVIOUS
  <2>2. tokens[n] \in TokenRow
    BY <1>1
  <2>3. spent \in TokenRow /\ spent.used
    BY <2>1, <2>2 DEF TokenRow
  <2>4. tokens' = [tokens EXCEPT ![n] = spent]
    BY <1>1, <2>1
  <2>5. /\ DOMAIN tokens' = DOMAIN tokens /\ tokens'[n] = spent
        /\ \A k \in DOMAIN tokens \ {n} : tokens'[k] = tokens[k]
    BY <1>1, <2>4
  <2> QED
    BY <2>3, <2>5
<1>3. \A q \in Replicas : Verifying(q)' => Verifying(q) /\ job'[q] = job[q]
  BY <1>1 DEF AccountsInvariant, AccountRowsTyped, Verifying, Idle
<1>4. /\ row \in [token : Nat, asked : Nat] /\ row.token = n /\ row.asked = job[r].asked
      /\ verified \in Seq([token : Nat, asked : Nat]) /\ job[r].asked \in Nat
      /\ \A i \in 1 .. job[r].asked : verified[i].token # n
  BY <1>1 DEF LinkInvariant, LinksAreSpent
<1> HIDE DEF row
<1>5. /\ verified' \in Seq([token : Nat, asked : Nat])
      /\ Len(verified') = Len(verified) + 1 /\ verified'[Len(verified) + 1] = row
      /\ \A i \in DOMAIN verified : verified'[i] = verified[i]
      /\ DOMAIN verified = 1 .. Len(verified) /\ DOMAIN verified' = 1 .. Len(verified) + 1
  BY <1>1, <1>4
<1>6. LinksArePresented'
  <2>1. \A e : (Reached(e)' <=> Reached(e)) /\ (Active(e)' <=> Active(e))
    BY <1>1 DEF Reached, Active, Registered
  <2>2. SessionsBelongToReachedAddresses'
    BY <1>1 DEF LinkInvariant, LinksArePresented, SessionsBelongToReachedAddresses
  <2> QED
    BY <1>1, <1>3, <2>1, <2>2 DEF LinkInvariant, LinksArePresented
<1>7. LinksAreSpent'
  <2>1. \A i \in DOMAIN verified' :
           verified'[i].token \in DOMAIN tokens' /\ tokens'[verified'[i].token].used
    <3>1. ASSUME NEW i \in DOMAIN verified
          PROVE  verified'[i].token \in DOMAIN tokens' /\ tokens'[verified'[i].token].used
      BY <1>2, <1>5 DEF LinkInvariant, LinksAreSpent
    <3>2. DOMAIN verified' = DOMAIN verified \cup {Len(verified) + 1}
      BY <1>5
    <3> QED
      BY <1>1, <1>2, <1>4, <1>5, <3>1, <3>2
  <2>2. ASSUME NEW q \in Replicas, Verifying(q)'
        PROVE  /\ job'[q].token \in DOMAIN tokens' /\ job'[q].asked \in 0 .. Len(verified')
               /\ \A i \in 1 .. job'[q].asked : verified'[i].token # job'[q].token
    <3>1. /\ job[q].token \in DOMAIN tokens /\ job[q].asked \in 0 .. Len(verified)
          /\ \A i \in 1 .. job[q].asked : verified[i].token # job[q].token
      BY <1>3, <2>2 DEF LinkInvariant, LinksAreSpent
    <3>2. job'[q].token \in DOMAIN tokens'
      BY <1>2, <1>3, <2>2, <3>1
    <3>3. Len(verified) \in Nat /\ job'[q].asked \in 0 .. Len(verified')
      BY <1>3, <1>4, <1>5, <2>2, <3>1
    <3>4. \A i \in 1 .. job[q].asked : i \in DOMAIN verified /\ verified'[i] = verified[i]
      <4>1. \A a, b, i \in Int : a <= b /\ i \in 1 .. a => i \in 1 .. b
        OBVIOUS
      <4>2. job[q].asked \in Int /\ Len(verified) \in Int /\ job[q].asked <= Len(verified)
        BY <3>1, <3>3
      <4>3. \A i \in 1 .. job[q].asked : i \in 1 .. Len(verified)
        BY <4>1, <4>2
      <4> QED
        BY <1>5, <4>3
    <3>5. \A i \in 1 .. job'[q].asked : verified'[i].token # job'[q].token
      BY <1>3, <2>2, <3>1, <3>4
    <3> QED
      BY <3>2, <3>3, <3>5
  <2>3. ASSUME NEW i \in DOMAIN verified', NEW j \in DOMAIN verified',
               i < j, verified'[i].token = verified'[j].token
        PROVE  verified'[j].asked < i
    <3>1. i \in DOMAIN verified /\ verified'[i] = verified[i]
      BY <1>5, <2>3
    <3>2. CASE j \in DOMAIN verified
      BY <1>5, <2>3, <3>1, <3>2 DEF LinkInvariant, LinksAreSpent, LinksWorkTwiceOnlyByOverlap
    <3>3. CASE j = Len(verified) + 1
      <4>1. verified[i].token = n /\ verified'[j].asked = job[r].asked
        BY <1>4, <1>5, <2>3, <3>1, <3>3
      <4>2. i \in Nat /\ 1 <= i
        BY <1>4, <1>5, <3>1
      <4>3. ~(i \in 1 .. job[r].asked)
        BY <1>4, <4>1
      <4>4. job[r].asked < i
        BY <1>4, <4>2, <4>3
      <4> QED
        BY <4>1, <4>4
    <3> QED
      BY <1>5, <3>2, <3>3
  <2>4. LinksWorkTwiceOnlyByOverlap'
    BY <2>3 DEF LinksWorkTwiceOnlyByOverlap
  <2> QED
    BY <1>5, <2>1, <2>2, <2>4 DEF LinksAreSpent
<1> QED
  BY <1>6, <1>7 DEF LinkInvariant

LEMMA OpenSessionKeepsLinks ==
    ASSUME AccountsInvariant, LinkInvariant, NEW r \in Replicas, OpenSession(r)
    PROVE  LinkInvariant'
<1>1. /\ Active(job[r].email) /\ job[r].email \in Emails /\ now \in Nat
      /\ minted \in Seq([user : Emails, at : Nat])
  BY DEF OpenSession, AccountsInvariant, JobsAreSound, AccountRowsTyped
<1>2. PICK row \in [user : Emails, at : Nat] :
         row.user = job[r].email /\ minted' = Append(minted, row)
  BY <1>1 DEF OpenSession
<1>3. \A s \in DOMAIN minted' : (s \in DOMAIN minted /\ minted'[s] = minted[s]) \/ minted'[s] = row
  BY <1>1, <1>2
<1>4. UNCHANGED <<users, tokens, mailed, presented, verified>> /\ job' = [job EXCEPT ![r] = Idle]
  BY DEF OpenSession, Goto, linkHistory
<1>5. \A q \in Replicas : Verifying(q)' => Verifying(q) /\ job'[q] = job[q]
  BY <1>4 DEF AccountsInvariant, AccountRowsTyped, Verifying, Idle
<1>6. LinksArePresented'
  <2>1. \A e : (Reached(e)' <=> Reached(e)) /\ (Active(e)' <=> Active(e))
    BY <1>4 DEF Reached, Active, Registered
  <2>2. Reached(row.user)
    BY <1>1, <1>2 DEF LinkInvariant, LinksArePresented
  <2>3. SessionsBelongToReachedAddresses'
    BY <1>3, <1>4, <2>2 DEF LinkInvariant, LinksArePresented,
                            SessionsBelongToReachedAddresses, Reached
  <2> QED
    BY <1>4, <1>5, <2>1, <2>3 DEF LinkInvariant, LinksArePresented
<1>7. LinksAreSpent'
  <2>1. LinksWorkTwiceOnlyByOverlap'
    BY <1>4 DEF LinkInvariant, LinksAreSpent, LinksWorkTwiceOnlyByOverlap
  <2> QED
    BY <1>4, <1>5, <2>1 DEF LinkInvariant, LinksAreSpent
<1> QED
  BY <1>6, <1>7 DEF LinkInvariant

LEMMA LinkInvariantStep ==
    ASSUME AccountsInvariant, LinkInvariant, [AccountsNext]_accountVars
    PROVE  LinkInvariant'
<1>1. ASSUME NEW r \in Replicas, NEW n \in DOMAIN tokens, Verify(r, n) /\ Verifies(r, n)
      PROVE  LinkInvariant'
  BY <1>1, VerifyingKeepsLinks DEF Verify
<1> QED
  BY <1>1, MostStepsStandBy, BystandingKeepsLinks, ActivateKeepsLinks, ConsumeKeepsLinks,
     OpenSessionKeepsLinks

LEMMA LinkInvariantAlways == AccountsSpec => []LinkInvariant
<1>1. AccountsInvariant /\ LinkInvariant /\ [AccountsNext]_accountVars => LinkInvariant'
  BY LinkInvariantStep
<1> QED
  BY LinkInvariantInit, AccountsInvariantAlways, <1>1, PTL DEF AccountsSpec

\* Every session belongs to an account for which a link mailed to its address was
\* presented: a login between the mail and the verification opens none.
THEOREM SessionsBelongAlways == AccountsSpec => []SessionsBelongToReachedAddresses
<1>1. LinkInvariant => SessionsBelongToReachedAddresses
  BY DEF LinkInvariant, LinksArePresented
<1> QED
  BY LinkInvariantAlways, <1>1, PTL

\* A link is answered 200 a second time only by verifications that overlap: whoever
\* looks it up after an answer does not find it.
THEOREM LinksWorkTwiceOnlyByOverlapAlways == AccountsSpec => []LinksWorkTwiceOnlyByOverlap
<1>1. LinkInvariant => LinksWorkTwiceOnlyByOverlap
  BY DEF LinkInvariant, LinksAreSpent
<1> QED
  BY LinkInvariantAlways, <1>1, PTL
-----------------------------------------------------------------------------
(***************************************************************************)
(* Sessions: a row of sessions is that of a login, expires a lifetime      *)
(* after it and was not logged out of; numbers are not used twice.         *)
(***************************************************************************)
SessionInvariant ==
    /\ ended \subseteq DOMAIN minted
    /\ DOMAIN sessions \subseteq DOMAIN minted \ ended
    /\ \A s \in DOMAIN sessions : sessions[s].expires = minted[s].at + SessionTtl

LEMMA SessionInvariantInit == AccountsInit => SessionInvariant
BY DEF AccountsInit, SessionInvariant

\* Only a login and a logout touch what the invariant speaks of.
LEMMA OthersKeepSessions ==
    ASSUME [AccountsNext]_accountVars
    PROVE  \/ UNCHANGED <<sessions, minted, ended>>
           \/ \E r \in Replicas : OpenSession(r)
           \/ \E r \in Replicas : \E s \in DOMAIN minted : LogOut(r, s)
<1> USE DEF rowVars, historyVars, linkHistory
<1>1. CASE UNCHANGED accountVars \/ Elapse
  BY <1>1 DEF accountVars, Elapse
<1>2. ASSUME NEW r \in Replicas, ReplicaNext(r)
      PROVE  \/ UNCHANGED <<sessions, minted, ended>>
             \/ OpenSession(r)
             \/ \E s \in DOMAIN minted : LogOut(r, s)
  BY <1>2 DEF ReplicaNext, SignUp, LogIn, InsertUser, IssueToken, SendMail, Verify,
              Activate, Consume, Access, Crash
<1> QED
  BY <1>1, <1>2 DEF AccountsNext

LEMMA SessionInvariantStep ==
    ASSUME AccountsInvariant, SessionInvariant, [AccountsNext]_accountVars
    PROVE  SessionInvariant'
<1>1. CASE UNCHANGED <<sessions, minted, ended>>
  BY <1>1 DEF SessionInvariant
<1>2. ASSUME NEW r \in Replicas, OpenSession(r)
      PROVE  SessionInvariant'
  <2> PICK s : s = Len(minted) + 1
    OBVIOUS
  <2> DEFINE row == [user |-> job[r].email, at |-> now]
  <2>1. minted \in Seq([user : Emails, at : Nat])
    BY DEF AccountsInvariant, AccountRowsTyped
  <2>2. minted' = Append(minted, row) /\ row \in [user : Emails, at : Nat]
    <3>1. job[r].email \in Emails /\ now \in Nat
      BY <1>2 DEF OpenSession, AccountsInvariant, JobsAreSound, AccountRowsTyped
    <3> QED
      BY <1>2, <3>1 DEF OpenSession
  <2>3. row.at = now
    OBVIOUS
  <2> HIDE DEF row
  <2>4. /\ DOMAIN minted' = DOMAIN minted \cup {s} /\ s \notin DOMAIN minted
        /\ minted'[s] = row /\ \A x \in DOMAIN minted : minted'[x] = minted[x]
    BY <2>1, <2>2
  <2>5. /\ ended' = ended
        /\ DOMAIN sessions' = DOMAIN sessions \cup {s}
        /\ sessions'[s].expires = now + SessionTtl
        /\ \A x \in DOMAIN sessions \ {s} : sessions'[x] = sessions[x]
    BY <1>2 DEF OpenSession
  <2> QED
    BY <2>3, <2>4, <2>5 DEF SessionInvariant
<1>3. ASSUME NEW r \in Replicas, NEW s \in DOMAIN minted, LogOut(r, s)
      PROVE  SessionInvariant'
  <2>1. /\ minted' = minted /\ ended' = ended \cup {s}
        /\ DOMAIN sessions' = DOMAIN sessions \ {s}
        /\ \A x \in DOMAIN sessions \ {s} : sessions'[x] = sessions[x]
    BY <1>3 DEF LogOut
  <2> QED
    BY <2>1 DEF SessionInvariant
<1> QED
  BY <1>1, <1>2, <1>3, OthersKeepSessions

\* Access is granted to a session that is there and has not expired, nothing else.
LEMMA GrantedToTheLiving ==
    ASSUME [AccountsNext]_accountVars, NEW s,
           answer' # answer, answer'.op = "access", answer'.code = 200,
           answer'.who = [by |-> "password", session |-> s]
    PROVE  LiveSession(s)
<1>1. CASE UNCHANGED accountVars \/ Elapse
  BY <1>1 DEF accountVars, Elapse
<1>2. ASSUME NEW r \in Replicas, NEW c \in Credentials, Access(r, c)
      PROVE  LiveSession(s)
  <2>1. \/ \E i \in Accepting(c) :
              Reply("access", 200, [by |-> Providers[i], session |-> c.session])
        \/ Reply("access", 401, c)
        \/ Reply("access", 200, [by |-> "anonymous", session |-> c.session])
    BY <1>2 DEF Access
  <2>2. PICK i \in Accepting(c) : Reply("access", 200, [by |-> Providers[i], session |-> c.session])
    BY <2>1 DEF Reply
  <2>3. Providers[i] = "password" /\ c.session = s
    <3>1. answer'.who = [by |-> Providers[i], session |-> c.session]
      BY <2>2 DEF Reply
    <3> QED
      BY <3>1
  <2>4. Accepts("password", c)
    BY <2>3 DEF Accepting
  <2>5. SessionAccepted(c)
    BY <2>4 DEF Accepts
  <2> QED
    BY <2>3, <2>5 DEF SessionAccepted
<1>3. ASSUME NEW r \in Replicas, ReplicaNext(r)
      PROVE  \E c \in Credentials : Access(r, c)
  <2>1. ASSUME NEW e \in Emails, SignUp(r, e) \/ \E ok \in BOOLEAN : LogIn(r, e, ok)
        PROVE  FALSE
    BY <2>1 DEF SignUp, LogIn, Reply
  <2>2. ASSUME NEW n, Verify(r, n) \/ LogOut(r, n)
        PROVE  FALSE
    BY <2>2 DEF Verify, LogOut, Reply
  <2>3. CASE InsertUser(r) \/ IssueToken(r) \/ SendMail(r)
    BY <2>3 DEF InsertUser, IssueToken, SendMail, Reply
  <2>4. CASE Activate(r) \/ Consume(r) \/ OpenSession(r) \/ Crash(r)
    BY <2>4 DEF Activate, Consume, OpenSession, Crash, Reply
  <2> QED
    BY <1>3, <2>1, <2>2, <2>3, <2>4 DEF ReplicaNext
<1> QED
  BY <1>1, <1>2, <1>3 DEF AccountsNext

\* Logging out at one replica ends a session at every other, and so does its lifetime:
\* a handler that opens a session while others run never brings one back.
THEOREM DeadSessionsStayDeadAlways == AccountsSpec => DeadSessionsStayDead
<1>1. AccountsInvariant /\ SessionInvariant /\ [AccountsNext]_accountVars => SessionInvariant'
  BY SessionInvariantStep
<1>2. SessionInvariant /\ [AccountsNext]_accountVars => [
        \A s \in DOMAIN minted :
          (answer' # answer /\ answer'.op = "access"
           /\ answer'.code = 200 /\ answer'.who = [by |-> "password", session |-> s])
          => s \notin ended /\ now < minted[s].at + SessionTtl ]_accountVars
  BY GrantedToTheLiving DEF SessionInvariant, LiveSession
<1> QED
  BY <1>1, <1>2, SessionInvariantInit, AccountsInvariantAlways, PTL
     DEF AccountsSpec, DeadSessionsStayDead
=============================================================================
