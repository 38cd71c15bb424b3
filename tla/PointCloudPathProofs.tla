------------------------- MODULE PointCloudPathProofs -------------------------
(***************************************************************************)
(* The safety of the way of a cloud from the lidar to the costmap, for     *)
(* every set of clouds, every size of a cloud, every limit on the samples, *)
(* every depth of the queue and every order of the callbacks.              *)
(***************************************************************************)
EXTENDS PointCloudPath, FiniteSetTheorems, SequenceTheorems, TLAPS

-----------------------------------------------------------------------------
(* Division.                                                               *)

\* The quotient and the remainder of the filter's divisions.
LEMMA Division ==
  ASSUME NEW a \in Int, NEW n \in Nat \ {0}
  PROVE  /\ a \div n \in Int
         /\ a % n \in 0..n - 1
         /\ a = (a \div n) * n + (a % n)
  OBVIOUS

\* A product and a remainder determine the quotient.
LEMMA QuotientUnique ==
  ASSUME NEW p \in Int, NEW q \in Int, NEW n \in Nat \ {0},
         NEW r \in 0..n - 1, NEW s \in 0..n - 1,
         p * n + r = q * n + s
  PROVE  p = q
<1>1. ASSUME NEW x \in Int, NEW y \in Int, x < y, NEW t \in 0..n - 1, NEW u \in 0..n - 1
      PROVE  x * n + t < y * n + u
  <2>1. (x + 1) * n <= y * n
    BY <1>1
  <2>2. (x + 1) * n = x * n + n
    OBVIOUS
  <2>3. x * n \in Int /\ y * n \in Int
    OBVIOUS
  <2>4. QED
    BY <2>1, <2>2, <2>3
<1>2. ~(p < q) /\ ~(q < p)
  BY <1>1
<1>3. QED
  BY <1>2

\* A value that is a product and a remainder has that quotient.
LEMMA QuotientOf ==
  ASSUME NEW a \in Int, NEW n \in Nat \ {0}, NEW q \in Int, NEW r \in 0..n - 1,
         q * n + r = a
  PROVE  q = a \div n
<1>1. /\ a \div n \in Int
      /\ a % n \in 0..n - 1
      /\ a = (a \div n) * n + (a % n)
  BY Division
<1>2. QED
  BY <1>1, QuotientUnique

-----------------------------------------------------------------------------
(* The sampling loop.                                                      *)

Count == Len(points)
Samples == SampledPointCount(Len(points), max_input_points)
Intervals == SampleIntervalCount(Len(points), max_input_points)
Span == SampleSpan(Len(points))

\* How many samples and intervals a cloud has.
LEMMA Counts ==
  ASSUME NEW count \in Nat, NEW limit \in Nat \ {0}
  PROVE  /\ SampledPointCount(count, limit) \in 0..count
         /\ SampledPointCount(count, limit) = 0 <=> count = 0
         /\ SampleIntervalCount(count, limit) \in Nat \ {0}
         /\ SampledPointCount(count, limit) > 1 =>
               SampleIntervalCount(count, limit) = SampledPointCount(count, limit) - 1
         /\ SampleSpan(count) = count - 1
         /\ SampledPointCount(count, limit) > 0 => SampleSpan(count) \in Nat
  BY DEF SampledPointCount, SampleIntervalCount, SampleSpan

\* Every sample is a point of the cloud.
LEMMA SampleInCloud ==
  ASSUME NEW count \in Nat, NEW limit \in Nat \ {0},
         NEW k \in 0..SampledPointCount(count, limit) - 1
  PROVE  SampleIndex(k, count, limit) \in 0..count - 1
<1> DEFINE samples == SampledPointCount(count, limit)
           n == SampleIntervalCount(count, limit)
           span == SampleSpan(count)
<1>1. /\ samples \in 1..count /\ n \in Nat \ {0} /\ span = count - 1
      /\ samples > 1 => n = samples - 1
  BY Counts
<1>2. CASE samples = 1
  BY <1>1, <1>2 DEF SampleIndex
<1>3. CASE samples > 1
  <2> DEFINE a == k * span
  <2>1. k \in 0..n /\ span \in Nat
    BY <1>1, <1>3
  <2>2. a \in Nat /\ a <= n * span
    <3>1. ASSUME NEW x \in Nat, NEW y \in Nat, NEW z \in Nat, x <= y
          PROVE  x * z \in Nat /\ x * z <= y * z
      BY <3>1
    <3>2. k \in Nat /\ k <= n /\ n \in Nat
      BY <2>1, <1>1
    <3>3. QED
      BY <2>1, <3>1, <3>2
  <2>3. SampleIndex(k, count, limit) = a \div n
    BY <1>3 DEF SampleIndex
  <2> HIDE DEF a, n, span
  <2>4. PICK q \in Int, r \in 0..n - 1 : q = a \div n /\ a = q * n + r
    <3>1. a \in Int /\ n \in Nat \ {0}
      BY <2>2, <1>1
    <3>2. a \div n \in Int /\ a % n \in 0..n - 1 /\ a = (a \div n) * n + (a % n)
      BY <3>1, Division
    <3>3. QED
      BY <3>2
  <2>5. q >= 0
    <3>1. SUFFICES ASSUME q <= -1 PROVE FALSE
      BY <2>4
    <3>2. q * n <= (-1) * n
      BY <2>4, <1>1, <3>1
    <3>3. QED
      BY <3>2, <2>2, <2>4, <1>1
  <2>6. q <= span
    <3>1. SUFFICES ASSUME q >= span + 1 PROVE FALSE
      BY <2>1, <2>4
    <3>2. q * n >= (span + 1) * n
      BY <2>1, <2>4, <1>1, <3>1
    <3>3. (span + 1) * n = n * span + n
      BY <2>1, <1>1
    <3>4. QED
      BY <3>2, <3>3, <2>1, <2>2, <2>4, <1>1
  <2>7. QED
    BY <2>1, <2>3, <2>4, <2>5, <2>6, <1>1
<1>4. QED
  BY <1>1, <1>2, <1>3

\* The loop is at the k-th sample when its index is q and its error is e: the index is the
\* quotient of k times the span, and the error the remainder.
AtInterval(q, e, k, n, span) ==
    q \in Int /\ e \in 0..n - 1 /\ q * n + e = k * span

\* At a sample, the loop's index is that sample's, as the formula of the filter gives it.
LEMMA AtQuotient ==
  ASSUME NEW n \in Nat \ {0}, NEW span \in Nat, NEW k \in Nat, NEW q, NEW e,
         AtInterval(q, e, k, n, span)
  PROVE  q = (k * span) \div n
<1>1. q \in Int /\ e \in 0..n - 1 /\ q * n + e = k * span /\ k * span \in Int
  BY DEF AtInterval
<1>2. QED
  BY <1>1, QuotientOf

\* The loop starts at sample 0.
LEMMA FirstInterval ==
  ASSUME NEW n \in Nat \ {0}, NEW span \in Nat
  PROVE  AtInterval(0, 0, 0, n, span)
<1>1. 0 * n + 0 = 0 /\ 0 * span = 0
  OBVIOUS
<1>2. QED
  BY <1>1 DEF AtInterval

\* A turn of the loop moves from a sample to the next: adding the quotient of one interval
\* and, when the remainders have summed up to an interval, one more.
Error(e, n, span) == e + (span % n)
Carry(e, n, span) == IF Error(e, n, span) >= n THEN 1 ELSE 0

\* A turn of the loop reaches the next sample.
LEMMA NextInterval ==
  ASSUME NEW n \in Nat \ {0}, NEW span \in Nat, NEW k \in Nat, NEW q, NEW e,
         AtInterval(q, e, k, n, span)
  PROVE  AtInterval(q + (span \div n) + Carry(e, n, span),
                    Error(e, n, span) - Carry(e, n, span) * n, k + 1, n, span)
<1> DEFINE product == k * span
           error == Error(e, n, span)
           carry == Carry(e, n, span)
<1>1. PICK d \in Int, r \in 0..n - 1 : d = span \div n /\ r = span % n /\ span = d * n + r
  <2>1. /\ span \div n \in Int /\ span % n \in 0..n - 1
        /\ span = (span \div n) * n + (span % n)
    <3>1. span \in Int
      OBVIOUS
    <3>2. QED
      BY <3>1, Division
  <2>2. QED
    BY <2>1
<1>2. /\ (k + 1) * span = product + span /\ product \in Int
      /\ q \in Int /\ e \in 0..n - 1 /\ q * n + e = product
  BY DEF AtInterval
<1>3. error = e + r /\ carry = IF error >= n THEN 1 ELSE 0
  BY <1>1 DEF Error, Carry
<1> HIDE DEF product, error, carry
<1>4. error \in Int /\ carry \in {0, 1}
  BY <1>1, <1>2, <1>3
<1>5. error - carry * n \in 0..n - 1
  BY <1>1, <1>2, <1>3
<1>6. (q + d + carry) * n + (error - carry * n) = product + span
  <2>1. (q + d + carry) * n = q * n + d * n + carry * n
    BY <1>1, <1>2, <1>4
  <2>2. q * n \in Int /\ d * n \in Int /\ carry * n \in Int
    BY <1>1, <1>2, <1>4
  <2>3. q * n = product - e /\ d * n = span - r
    BY <2>2, <1>1, <1>2
  <2>4. product \in Int /\ e \in Int /\ r \in Int
    BY <1>1, <1>2
  <2>5. QED
    BY <2>1, <2>2, <2>3, <2>4, <1>3
<1>7. q + d + carry \in Int
  BY <1>1, <1>2, <1>4
<1>8. QED
  BY <1>1, <1>2, <1>5, <1>6, <1>7 DEF AtInterval, error, carry

-----------------------------------------------------------------------------
(* The inductive invariant of the filter.                                  *)

CloudPoints == Seq(Keys \union {Rejected})

\* The loop stands at the sample it is about to take, and the error is what the quotients
\* have left out so far.
AtSample ==
    Sampling =>
        /\ next_sample_index = SampleIndex(samples_visited, Count, max_input_points)
        /\ Samples > 1 => AtInterval(next_sample_index, sample_interval_error,
                                     samples_visited, Intervals, Span)

Counted ==
    \A key \in Keys : voxels[key] = Cardinality(SamplesIn(key, samples_visited))

FilterInv ==
    /\ max_input_points \in MaxInputPoints
    /\ points \in CloudPoints
    /\ samples_visited \in 0..Samples
    /\ voxels \in [Keys -> Nat]
    /\ AtSample
    /\ Counted

\* The counts of the cloud being filtered.
LEMMA FilterCounts ==
  ASSUME FilterInv
  PROVE  /\ Count \in Nat /\ max_input_points \in Nat \ {0}
         /\ Samples \in 0..Count /\ Intervals \in Nat \ {0} /\ Span = Count - 1
         /\ Samples > 1 => Intervals = Samples - 1
         /\ Samples = 0 <=> Count = 0
<1>1. Count \in Nat /\ max_input_points \in Nat \ {0}
  BY FilterAssumption DEF FilterInv, CloudPoints, Count
<1>2. QED
  BY <1>1, Counts DEF Samples, Intervals, Span, Count

\* The sampled points never leave the cloud.
LEMMA FilterStaysInCloud ==
  ASSUME FilterInv, Sampling
  PROVE  next_sample_index \in 0..Len(points) - 1
<1>1. samples_visited \in 0..Samples - 1
  BY FilterCounts DEF FilterInv, Sampling, Samples
<1>2. SampleIndex(samples_visited, Count, max_input_points) \in 0..Count - 1
  BY <1>1, FilterCounts, SampleInCloud DEF Samples, Count
<1>3. QED
  BY <1>2 DEF FilterInv, AtSample, Count

\* Nothing is sampled before the first turn.
LEMMA NoSamples ==
  ASSUME NEW key PROVE Cardinality(SamplesIn(key, 0)) = 0
<1>1. SamplesIn(key, 0) = {}
  BY DEF SamplesIn
<1>2. QED
  BY <1>1, FS_EmptySet

\* A filter that has filtered nothing is between two clouds.
LEMMA FilterInitInv == FilterInit => FilterInv
<1> SUFFICES ASSUME FilterInit PROVE FilterInv
  OBVIOUS
<1>1. points = <<>> /\ Len(points) = 0 /\ points \in CloudPoints
  BY DEF FilterInit, CloudPoints
<1>2. max_input_points \in MaxInputPoints /\ max_input_points \in Nat \ {0}
  BY FilterAssumption DEF FilterInit
<1>3. Samples = 0 /\ samples_visited = 0
  BY <1>1, <1>2, Counts DEF Samples, FilterInit
<1>4. ~Sampling
  BY <1>3 DEF Sampling, Samples
<1>5. Counted
  BY <1>3, NoSamples DEF Counted, FilterInit
<1>6. QED
  BY <1>1, <1>2, <1>3, <1>4, <1>5 DEF FilterInv, AtSample, FilterInit

\* A call begins from scratch, whatever the workspace holds from the one before.
LEMMA BeginInv ==
  ASSUME FilterInv, NEW cloud_points \in CloudPoints, Begin(cloud_points)
  PROVE  FilterInv'
<1>1. /\ points' = cloud_points /\ points' \in CloudPoints /\ samples_visited' = 0
      /\ sample_interval_error' = 0
      /\ max_input_points' = max_input_points /\ max_input_points' \in MaxInputPoints
      /\ max_input_points' \in Nat \ {0}
      /\ voxels' = [k \in Keys |-> 0]
  BY FilterAssumption DEF Begin, FilterInv
<1>2. Count' \in Nat
  BY <1>1 DEF CloudPoints, Count
<1>3. Samples' \in Nat /\ Intervals' \in Nat \ {0} /\ Span' \in Int
  BY <1>1, <1>2, Counts DEF Samples, Intervals, Span, Count
<1>4. samples_visited' \in 0..Samples'
  BY <1>1, <1>3
<1>5. AtSample'
  <2> SUFFICES ASSUME Sampling'
               PROVE  /\ next_sample_index' = SampleIndex(0, Count', max_input_points')
                      /\ Samples' > 1 => AtInterval(next_sample_index', 0, 0, Intervals', Span')
    BY <1>1 DEF AtSample
  <2>1. Samples' > 0
    BY <1>1, <1>3 DEF Sampling, Samples
  <2>2. Span' \in Nat
    BY <2>1, <1>1, <1>2, Counts DEF Samples, Span, Count
  <2>3. CASE Samples' = 1
    BY <1>1, <2>3 DEF Begin, SampleIndex, Samples, Count
  <2>4. CASE Samples' > 1
    <3>1. next_sample_index' = 0
      BY <1>1, <2>4 DEF Begin, Samples
    <3>2. AtInterval(0, 0, 0, Intervals', Span')
      BY <1>3, <2>2, FirstInterval
    <3>3. 0 = (0 * Span') \div Intervals'
      BY <1>3, <2>2, <3>2, AtQuotient
    <3>4. SampleIndex(0, Count', max_input_points') = (0 * Span') \div Intervals'
      BY <2>4 DEF SampleIndex, Samples, Intervals, Span, Count
    <3>5. QED
      BY <3>1, <3>2, <3>3, <3>4
  <2>5. QED
    BY <1>3, <2>1, <2>3, <2>4
<1>6. Counted'
  <2>1. ASSUME NEW key \in Keys
        PROVE  voxels'[key] = Cardinality(SamplesIn(key, samples_visited)')
    <3>1. SamplesIn(key, samples_visited)' = {}
      BY <1>1 DEF SamplesIn
    <3>2. QED
      BY <1>1, <3>1, FS_EmptySet
  <2>2. QED
    BY <2>1 DEF Counted
<1>7. voxels' \in [Keys -> Nat]
  BY <1>1
<1>8. QED
  BY <1>1, <1>4, <1>5, <1>6, <1>7 DEF FilterInv

\* Taking one more sample adds it to the samples of its voxel and to no other.
LEMMA OneMoreSample ==
  ASSUME NEW key, NEW visited \in Nat
  PROVE  LET index == SampleIndex(visited, Len(points), max_input_points)
         IN  Cardinality(SamplesIn(key, visited + 1)) =
                IF points[index + 1] = key
                THEN Cardinality(SamplesIn(key, visited)) + 1
                ELSE Cardinality(SamplesIn(key, visited))
<1> DEFINE index == SampleIndex(visited, Len(points), max_input_points)
<1>1. IsFiniteSet(SamplesIn(key, visited)) /\ visited \notin SamplesIn(key, visited)
  <2>1. IsFiniteSet(0..visited - 1)
    BY FS_Interval
  <2>2. SamplesIn(key, visited) \subseteq 0..visited - 1
    BY DEF SamplesIn
  <2>3. QED
    BY <2>1, <2>2, FS_Subset
<1>2. CASE points[index + 1] = key
  <2>1. SamplesIn(key, visited + 1) = SamplesIn(key, visited) \union {visited}
    BY <1>2 DEF SamplesIn
  <2>2. QED
    BY <1>1, <1>2, <2>1, FS_AddElement
<1>3. CASE points[index + 1] # key
  <2>1. SamplesIn(key, visited + 1) = SamplesIn(key, visited)
    BY <1>3 DEF SamplesIn
  <2>2. QED
    BY <1>3, <2>1
<1>4. QED
  BY <1>2, <1>3

\* One turn of the loop: the point it takes is the next evenly spaced one.
LEMMA VisitInv ==
  ASSUME FilterInv, Visit
  PROVE  FilterInv'
<1> DEFINE index == SampleIndex(samples_visited, Count, max_input_points)
<1>1. /\ max_input_points' = max_input_points /\ points' = points
      /\ samples_visited' = samples_visited + 1
      /\ Accumulate(points[index + 1])
  BY DEF Visit, FilterInv, AtSample
<1> HIDE DEF index
<1>2. Samples' = Samples /\ Intervals' = Intervals /\ Span' = Span /\ Count' = Count
  BY <1>1 DEF Samples, Intervals, Span, Count
<1>3. samples_visited \in 0..Samples - 1 /\ samples_visited' \in 1..Samples
  BY <1>1, FilterCounts DEF FilterInv, Visit, Sampling, Samples
<1>4. AtSample'
  <2> SUFFICES ASSUME Sampling'
               PROVE  /\ next_sample_index' = SampleIndex(samples_visited', Count, max_input_points)
                      /\ AtInterval(next_sample_index', sample_interval_error',
                                    samples_visited', Intervals, Span)
    BY <1>1, <1>2 DEF AtSample
  <2>1. samples_visited' < Samples /\ Samples > 1
    BY <1>1, <1>2, <1>3, FilterCounts DEF Sampling, Samples
  <2>2. /\ next_sample_index' = next_sample_index + (Span \div Intervals)
              + Carry(sample_interval_error, Intervals, Span)
        /\ sample_interval_error' = Error(sample_interval_error, Intervals, Span)
              - Carry(sample_interval_error, Intervals, Span) * Intervals
    BY <2>1 DEF Visit, Samples, Span, Intervals, Error, Carry
  <2>3. AtInterval(next_sample_index, sample_interval_error, samples_visited, Intervals, Span)
    BY <2>1 DEF FilterInv, AtSample, Visit
  <2>4. Intervals \in Nat \ {0} /\ Span \in Nat /\ samples_visited \in Nat
    BY <1>3, <2>1, FilterCounts
  <2>5. AtInterval(next_sample_index', sample_interval_error', samples_visited', Intervals, Span)
    BY <1>1, <2>2, <2>3, <2>4, NextInterval
  <2>6. next_sample_index' = (samples_visited' * Span) \div Intervals
    BY <1>3, <2>4, <2>5, AtQuotient
  <2>7. SampleIndex(samples_visited', Count, max_input_points)
           = (samples_visited' * Span) \div Intervals
    BY <2>1 DEF SampleIndex, Samples, Intervals, Span, Count
  <2>8. QED
    BY <2>5, <2>6, <2>7
<1>5. voxels' \in [Keys -> Nat]
  BY <1>1 DEF FilterInv, Accumulate, HasKey
<1>6. Counted'
  <2> SUFFICES ASSUME NEW key \in Keys
               PROVE  voxels'[key] = Cardinality(SamplesIn(key, samples_visited)')
    BY DEF Counted
  <2>1. SamplesIn(key, samples_visited)' = SamplesIn(key, samples_visited + 1)
    BY <1>1 DEF SamplesIn
  <2>2. Cardinality(SamplesIn(key, samples_visited + 1)) =
           IF points[index + 1] = key
           THEN Cardinality(SamplesIn(key, samples_visited)) + 1
           ELSE Cardinality(SamplesIn(key, samples_visited))
    BY <1>3, OneMoreSample DEF Count, index
  <2>3. voxels[key] = Cardinality(SamplesIn(key, samples_visited))
    BY DEF FilterInv, Counted
  <2>4. voxels'[key] = IF points[index + 1] = key THEN voxels[key] + 1 ELSE voxels[key]
    BY <1>1 DEF FilterInv, Accumulate, HasKey
  <2>5. QED
    BY <2>1, <2>2, <2>3, <2>4
<1>7. QED
  BY <1>1, <1>2, <1>3, <1>4, <1>5, <1>6 DEF FilterInv

\* The filter's state alone decides its invariant.
LEMMA FilterUnchanged == FilterInv /\ UNCHANGED filter_vars => FilterInv'
<1> SUFFICES ASSUME FilterInv, UNCHANGED filter_vars PROVE FilterInv'
  OBVIOUS
<1>1. /\ max_input_points' = max_input_points /\ points' = points
      /\ samples_visited' = samples_visited /\ next_sample_index' = next_sample_index
      /\ sample_interval_error' = sample_interval_error /\ voxels' = voxels
  BY DEF filter_vars, loop_vars
<1>2. QED
  BY <1>1 DEF FilterInv, AtSample, Counted, Sampling, Samples, Intervals, Span, Count,
     SamplesIn

-----------------------------------------------------------------------------
(* The numbers under way.                                                  *)

\* A sequence of numbers that ascend between two bounds, the lower one excluded.
Ordered(s, low, high) ==
    /\ s \in Seq(Nat)
    /\ \A i \in DOMAIN s : low < s[i] /\ s[i] <= high
    /\ \A i, j \in DOMAIN s : i < j => s[i] < s[j]

\* Every number of one sequence is less than every number of the other.
Before(s, t) == \A i \in DOMAIN s, j \in DOMAIN t : s[i] < t[j]

\* t is a subsequence of s.
Picks(t, s) ==
    \E at \in [DOMAIN t -> DOMAIN s] :
        /\ \A i, j \in DOMAIN t : i < j => at[i] < at[j]
        /\ \A i \in DOMAIN t : t[i] = s[at[i]]

\* The numbers in the queue, in the callback and in the chain.
InLine(q, c, h, low, high) ==
    /\ low \in Nat /\ high \in Nat /\ low <= high
    /\ Ordered(q, low, high) /\ Ordered(c, low, high) /\ Ordered(h, low, high)
    /\ Before(q, c) /\ Before(q, h) /\ Before(c, h)

\* A subsequence stays in order, and on its side of the others.
LEMMA PicksOrdered ==
  ASSUME NEW low \in Nat, NEW high \in Nat, NEW s, NEW t \in Seq(Nat),
         Ordered(s, low, high), Picks(t, s)
  PROVE  Ordered(t, low, high)
  BY DEF Ordered, Picks

\* A subsequence lies where the whole did.
LEMMA PicksBefore ==
  ASSUME NEW s \in Seq(Nat), NEW t \in Seq(Nat), NEW u \in Seq(Nat), Picks(t, s)
  PROVE  /\ Before(s, u) => Before(t, u)
         /\ Before(u, s) => Before(u, t)
  BY DEF Before, Picks

\* Two ascending sequences, one before the other, ascend together.
LEMMA ConcatOrdered ==
  ASSUME NEW low \in Nat, NEW high \in Nat, NEW s, NEW t,
         Ordered(s, low, high), Ordered(t, low, high), Before(s, t)
  PROVE  Ordered(s \o t, low, high)
<1> DEFINE c == s \o t
<1>1. s \in Seq(Nat) /\ t \in Seq(Nat) /\ Len(s) \in Nat /\ Len(t) \in Nat
  BY DEF Ordered
<1>2. /\ c \in Seq(Nat) /\ Len(c) = Len(s) + Len(t)
      /\ \A i \in 1..Len(s) + Len(t) : c[i] = IF i <= Len(s) THEN s[i] ELSE t[i - Len(s)]
  BY <1>1, ConcatProperties
<1> HIDE DEF c
<1>3. /\ DOMAIN c = 1..Len(s) + Len(t) /\ DOMAIN s = 1..Len(s) /\ DOMAIN t = 1..Len(t)
  BY <1>1, <1>2, LenProperties
<1>4. \A i \in DOMAIN c : IF i <= Len(s) THEN i \in DOMAIN s /\ c[i] = s[i]
                          ELSE i - Len(s) \in DOMAIN t /\ c[i] = t[i - Len(s)]
  BY <1>1, <1>2, <1>3
<1>5. ASSUME NEW i \in DOMAIN c PROVE low < c[i] /\ c[i] <= high
  BY <1>4, <1>5 DEF Ordered
<1>6. ASSUME NEW i \in DOMAIN c, NEW j \in DOMAIN c, i < j PROVE c[i] < c[j]
  <2>1. i \in Nat /\ j \in Nat
    BY <1>1, <1>3
  <2>2. CASE i <= Len(s) /\ j <= Len(s)
    BY <1>4, <1>6, <2>2 DEF Ordered
  <2>3. CASE i <= Len(s) /\ ~(j <= Len(s))
    BY <1>4, <2>3 DEF Before
  <2>4. CASE ~(i <= Len(s))
    <3>1. ~(j <= Len(s)) /\ i - Len(s) < j - Len(s)
      BY <1>1, <1>6, <2>1, <2>4
    <3>2. QED
      BY <1>4, <2>4, <3>1 DEF Ordered
  <2>5. QED
    BY <2>2, <2>3, <2>4
<1>7. QED
  BY <1>2, <1>5, <1>6 DEF Ordered, c

\* What is after both parts is after the whole.
LEMMA ConcatBefore ==
  ASSUME NEW s \in Seq(Nat), NEW t \in Seq(Nat), NEW u \in Seq(Nat),
         Before(s, u), Before(t, u)
  PROVE  Before(s \o t, u)
<1> DEFINE c == s \o t
<1>1. /\ c \in Seq(Nat) /\ Len(c) = Len(s) + Len(t)
      /\ \A i \in 1..Len(s) + Len(t) : c[i] = IF i <= Len(s) THEN s[i] ELSE t[i - Len(s)]
  BY ConcatProperties
<1> HIDE DEF c
<1>2. /\ DOMAIN c = 1..Len(s) + Len(t) /\ DOMAIN s = 1..Len(s) /\ DOMAIN t = 1..Len(t)
      /\ Len(s) \in Nat /\ Len(t) \in Nat
  BY <1>1, LenProperties
<1>3. \A i \in DOMAIN c : IF i <= Len(s) THEN i \in DOMAIN s /\ c[i] = s[i]
                          ELSE i - Len(s) \in DOMAIN t /\ c[i] = t[i - Len(s)]
  BY <1>1, <1>2
<1>4. QED
  BY <1>3 DEF Before, c

\* In one line the numbers ascend.
LEMMA LineOrdered ==
  ASSUME NEW q, NEW c, NEW h, NEW low, NEW high, InLine(q, c, h, low, high)
  PROVE  Ordered(q \o c \o h, low, high)
<1>1. Ordered(q \o c, low, high)
  BY ConcatOrdered DEF InLine
<1>2. Before(q \o c, h)
  BY ConcatBefore DEF InLine, Ordered
<1>3. QED
  BY <1>1, <1>2, ConcatOrdered DEF InLine

\* Dropping numbers, here those up to a new lower bound and possibly others, keeps the line.
LEMMA LineThins ==
  ASSUME NEW q, NEW c, NEW h, NEW low, NEW high, InLine(q, c, h, low, high),
         NEW r \in Seq(Nat), Picks(r, q),
         NEW bound \in Nat,
         bound = low \/ (\E i \in DOMAIN q : bound = q[i] /\ \A j \in DOMAIN r : bound < r[j])
  PROVE  InLine(r, c, h, bound, high)
<1>1. q \in Seq(Nat) /\ c \in Seq(Nat) /\ h \in Seq(Nat) /\ low \in Nat /\ high \in Nat
  BY DEF InLine, Ordered
<1>2. Ordered(r, low, high) /\ Before(r, c) /\ Before(r, h)
  BY <1>1, PicksOrdered, PicksBefore DEF InLine
<1>3. CASE bound = low
  BY <1>1, <1>2, <1>3 DEF InLine
<1>4. CASE \E i \in DOMAIN q : bound = q[i] /\ \A j \in DOMAIN r : bound < r[j]
  <2>1. Ordered(r, bound, high) /\ Ordered(c, bound, high) /\ Ordered(h, bound, high)
    BY <1>1, <1>2, <1>4 DEF InLine, Ordered, Before
  <2>2. bound <= high
    BY <1>1, <1>4 DEF InLine, Ordered
  <2>3. QED
    BY <1>1, <1>2, <2>1, <2>2 DEF InLine
<1>5. QED
  BY <1>3, <1>4

\* Appending a number that is greater than all.
LEMMA AppendOrdered ==
  ASSUME NEW low \in Nat, NEW high \in Nat, NEW s, Ordered(s, low, high),
         NEW x \in low + 1..high, \A i \in DOMAIN s : s[i] < x
  PROVE  Ordered(Append(s, x), low, high)
  BY DEF Ordered

\* Where a sequence with one more number lies.
LEMMA AppendBefore ==
  ASSUME NEW s \in Seq(Nat), NEW x \in Nat, NEW u \in Seq(Nat)
  PROVE  /\ Before(s, u) /\ (\A j \in DOMAIN u : x < u[j]) => Before(Append(s, x), u)
         /\ Before(u, s) /\ (\A j \in DOMAIN u : u[j] < x) => Before(u, Append(s, x))
  BY DEF Before

\* One number, and none.
LEMMA OneOrdered ==
  ASSUME NEW low \in Nat, NEW high \in Nat, NEW x
  PROVE  Ordered(<<x>>, low, high) <=> x \in low + 1..high
  BY DEF Ordered

\* The empty sequence ascends.
LEMMA NoneOrdered ==
  ASSUME NEW low \in Nat, NEW high \in Nat
  PROVE  Ordered(<<>>, low, high)
  BY DEF Ordered

\* Where one number lies, and none.
LEMMA OneBefore ==
  ASSUME NEW x, NEW u
  PROVE  /\ Before(<<x>>, u) <=> \A j \in DOMAIN u : x < u[j]
         /\ Before(u, <<x>>) <=> \A j \in DOMAIN u : u[j] < x
         /\ Before(<<>>, u) /\ Before(u, <<>>)
  BY DEF Before

\* The head is the least number, the tail a subsequence.
LEMMA HeadAndTail ==
  ASSUME NEW low \in Nat, NEW high \in Nat, NEW s, Ordered(s, low, high), s # <<>>
  PROVE  /\ Head(s) \in low + 1..high /\ 1 \in DOMAIN s /\ Head(s) = s[1]
         /\ Tail(s) \in Seq(Nat) /\ Picks(Tail(s), s)
         /\ \A j \in DOMAIN Tail(s) : Head(s) < Tail(s)[j]
<1>1. /\ s \in Seq(Nat) /\ Len(s) \in Nat /\ DOMAIN s = 1..Len(s) /\ Len(s) > 0
  BY DEF Ordered
<1>2. /\ Tail(s) \in Seq(Nat) /\ DOMAIN Tail(s) = 1..Len(s) - 1
      /\ \A j \in DOMAIN Tail(s) : Tail(s)[j] = s[j + 1]
  BY <1>1
<1>3. Head(s) = s[1] /\ 1 \in DOMAIN s
  BY <1>1
<1>4. \A j \in DOMAIN Tail(s) : j \in Nat /\ j >= 1 /\ j + 1 \in DOMAIN s
  BY <1>1, <1>2
<1>5. \A j \in DOMAIN Tail(s) : Head(s) < Tail(s)[j]
  BY <1>2, <1>3, <1>4 DEF Ordered
<1>6. Picks(Tail(s), s)
  <2> DEFINE at == [j \in DOMAIN Tail(s) |-> j + 1]
  <2>1. at \in [DOMAIN Tail(s) -> DOMAIN s]
    BY <1>4
  <2>2. \A i, j \in DOMAIN Tail(s) : i < j => at[i] < at[j]
    BY <1>4
  <2>3. \A i \in DOMAIN Tail(s) : Tail(s)[i] = s[at[i]]
    BY <1>2
  <2>4. QED
    BY <2>1, <2>2, <2>3 DEF Picks
<1>7. Head(s) \in low + 1..high
  BY <1>1, <1>3 DEF Ordered
<1>8. QED
  BY <1>2, <1>3, <1>5, <1>6, <1>7

\* The callback's number joins the end of the queue, or is dropped.
LEMMA LineEnqueues ==
  ASSUME NEW q, NEW x, NEW h, NEW low, NEW high, InLine(q, <<x>>, h, low, high)
  PROVE  /\ InLine(Append(q, x), <<>>, h, low, high)
         /\ InLine(q, <<>>, h, low, high)
<1>1. /\ low \in Nat /\ high \in Nat /\ q \in Seq(Nat) /\ h \in Seq(Nat)
      /\ Ordered(q, low, high) /\ Ordered(h, low, high) /\ Ordered(<<x>>, low, high)
      /\ Before(q, <<x>>) /\ Before(q, h) /\ Before(<<x>>, h)
  BY DEF InLine, Ordered
<1>2. /\ x \in low + 1..high /\ x \in Nat
      /\ \A j \in DOMAIN q : q[j] < x
      /\ \A j \in DOMAIN h : x < h[j]
  <2>1. x \in low + 1..high
    BY <1>1, OneOrdered
  <2>2. QED
    BY <1>1, <2>1, OneBefore
<1>3. Ordered(Append(q, x), low, high) /\ Before(Append(q, x), h)
  BY <1>1, <1>2, AppendOrdered, AppendBefore
<1>4. low <= high
  BY DEF InLine
<1>5. QED
  BY <1>1, <1>3, <1>4, NoneOrdered, OneBefore DEF InLine

\* The oldest number of the chain moves into the callback, or is dropped.
LEMMA LineDelivers ==
  ASSUME NEW q, NEW c, NEW h, NEW low, NEW high, InLine(q, c, h, low, high), h # <<>>
  PROVE  /\ InLine(q, <<Head(h)>>, Tail(h), low, high)
         /\ InLine(q, c, Tail(h), low, high)
<1>1. /\ low \in Nat /\ high \in Nat
      /\ q \in Seq(Nat) /\ c \in Seq(Nat) /\ h \in Seq(Nat)
      /\ Ordered(q, low, high) /\ Ordered(c, low, high) /\ Ordered(h, low, high)
      /\ Before(q, c) /\ Before(q, h) /\ Before(c, h)
  BY DEF InLine, Ordered
<1>2. /\ Head(h) \in low + 1..high /\ 1 \in DOMAIN h /\ Head(h) = h[1]
      /\ Tail(h) \in Seq(Nat) /\ Picks(Tail(h), h)
      /\ \A j \in DOMAIN Tail(h) : Head(h) < Tail(h)[j]
  BY <1>1, HeadAndTail
<1>3. Ordered(Tail(h), low, high) /\ Before(q, Tail(h)) /\ Before(c, Tail(h))
  BY <1>1, <1>2, PicksOrdered, PicksBefore
<1>4. \A j \in DOMAIN q : q[j] < Head(h)
  BY <1>1, <1>2 DEF Before
<1>5. Ordered(<<Head(h)>>, low, high) /\ Before(q, <<Head(h)>>) /\ Before(<<Head(h)>>, Tail(h))
  BY <1>1, <1>2, <1>4, OneOrdered, OneBefore
<1>6. QED
  BY <1>1, <1>3, <1>5 DEF InLine

\* A number greater than all joins the end of the chain, or is only published.
LEMMA LinePublishes ==
  ASSUME NEW q, NEW c, NEW h, NEW low, NEW high, InLine(q, c, h, low, high),
         NEW x \in Nat, x > high
  PROVE  /\ InLine(q, c, Append(h, x), low, x)
         /\ InLine(q, c, h, low, x)
<1>1. /\ low \in Nat /\ high \in Nat
      /\ q \in Seq(Nat) /\ c \in Seq(Nat) /\ h \in Seq(Nat)
      /\ Ordered(q, low, high) /\ Ordered(c, low, high) /\ Ordered(h, low, high)
      /\ Before(q, c) /\ Before(q, h) /\ Before(c, h)
  BY DEF InLine, Ordered
<1>2. ASSUME NEW s, Ordered(s, low, high)
      PROVE  Ordered(s, low, x) /\ \A i \in DOMAIN s : s[i] < x
  BY <1>1, <1>2 DEF Ordered
<1>3. low <= high /\ low <= x /\ x \in low + 1..x
  BY <1>1 DEF InLine
<1>4. /\ Ordered(q, low, x) /\ Ordered(c, low, x) /\ Ordered(h, low, x)
      /\ \A i \in DOMAIN q : q[i] < x
      /\ \A i \in DOMAIN c : c[i] < x
      /\ \A i \in DOMAIN h : h[i] < x
  BY <1>1, <1>2
<1>5. InLine(q, c, h, low, x)
  BY <1>1, <1>3, <1>4 DEF InLine
<1>6. Ordered(Append(h, x), low, x)
  BY <1>1, <1>3, <1>4, AppendOrdered
<1>7. Before(q, Append(h, x)) /\ Before(c, Append(h, x))
  BY <1>1, <1>4, AppendBefore
<1>8. QED
  BY <1>1, <1>3, <1>4, <1>5, <1>6, <1>7 DEF InLine

-----------------------------------------------------------------------------
(* The clouds under way, by their numbers.                                 *)

Sent == [number : Nat, stamped : BOOLEAN]
Waiting == [number : Nat, overdue : BOOLEAN]

Numbers(s) == [i \in DOMAIN s |-> s[i].number]

\* The numbers of a queue of clouds are a sequence of the same length.
LEMMA NumbersSeq ==
  ASSUME NEW S, S = Sent \/ S = Waiting, NEW s \in Seq(S)
  PROVE  /\ Numbers(s) \in Seq(Nat) /\ Len(Numbers(s)) = Len(s)
         /\ DOMAIN Numbers(s) = DOMAIN s
         /\ \A i \in DOMAIN s : s[i] \in S /\ Numbers(s)[i] = s[i].number
         /\ DOMAIN s = 1..Len(s) /\ Len(s) \in Nat
<1>1. Len(s) \in Nat /\ DOMAIN s = 1..Len(s) /\ \A i \in DOMAIN s : s[i] \in S
  OBVIOUS
<1>2. \A x \in S : x.number \in Nat
  BY DEF Sent, Waiting
<1>3. Numbers(s) \in [1..Len(s) -> Nat] /\ \A i \in DOMAIN s : Numbers(s)[i] = s[i].number
  BY <1>1, <1>2 DEF Numbers
<1>4. Numbers(s) \in Seq(Nat)
  BY <1>1, <1>3, SeqDef
<1>5. DOMAIN Numbers(s) = 1..Len(s) /\ DOMAIN Numbers(s) = 1..Len(Numbers(s))
  BY <1>3, <1>4
<1>6. Len(Numbers(s)) = Len(s)
  BY <1>1, <1>4, <1>5
<1>7. QED
  BY <1>1, <1>3, <1>4, <1>5, <1>6

\* A cloud more is a number more.
LEMMA NumbersAppend ==
  ASSUME NEW S, S = Sent \/ S = Waiting, NEW s \in Seq(S), NEW x \in S
  PROVE  /\ Append(s, x) \in Seq(S) /\ Len(Append(s, x)) = Len(s) + 1
         /\ Numbers(Append(s, x)) = Append(Numbers(s), x.number)
  BY DEF Numbers, Sent, Waiting

\* A cloud less at the front is a number less at the front.
LEMMA NumbersTail ==
  ASSUME NEW S, S = Sent \/ S = Waiting, NEW s \in Seq(S), s # <<>>
  PROVE  /\ Head(s) \in S /\ Tail(s) \in Seq(S) /\ Len(Tail(s)) = Len(s) - 1
         /\ Numbers(s) # <<>> /\ Head(Numbers(s)) = Head(s).number
         /\ Numbers(Tail(s)) = Tail(Numbers(s))
  BY DEF Numbers, Sent, Waiting

-----------------------------------------------------------------------------
(* The inductive invariant of the whole path.                              *)

\* The timer has not published what it works on, and filters that cloud.
ThrottleInv ==
    /\ timer \in {"idle", "lookup", "filter"}
    /\ latest_cloud_ \in Clouds \union {NoCloud} /\ message \in Clouds \union {NoCloud}
    /\ latest_cloud_sequence_ \in 0..MaxClouds
    /\ last_published_sequence_ \in 0..latest_cloud_sequence_
    /\ published \in 0..last_published_sequence_
    /\ timer # "idle" => sequence \in last_published_sequence_ + 1..latest_cloud_sequence_
    /\ timer = "filter" => points = message.points

LayerShape ==
    /\ waits \in BOOLEAN
    /\ lifecycle \in {"inactive", "activating", "active", "deactivating"}
    /\ in_callback \in Sent
    /\ pending \in Seq(Waiting) /\ Len(pending) <= MaxPending
    /\ chain \in Seq(Sent)
    /\ NothingPendingWhileInactive

CallbackNumbers == IF in_callback = Nothing THEN <<>> ELSE <<in_callback.number>>

LineInv ==
    InLine(Numbers(pending), CallbackNumbers, Numbers(chain), observed, published)

IInv == FilterInv /\ ThrottleInv /\ LayerShape /\ LineInv

\* Every cloud, and none, has points that can be filtered.
LEMMA CloudHasPoints ==
  ASSUME NEW cloud \in Clouds \union {NoCloud} PROVE cloud.points \in CloudPoints
<1>1. CASE cloud \in Clouds
  BY <1>1, CloudsAssumption DEF CloudPoints
<1>2. CASE cloud = NoCloud
  <2>1. <<>> \in CloudPoints
    BY DEF CloudPoints
  <2>2. QED
    BY <1>2, <2>1 DEF NoCloud
<1>3. QED
  BY <1>1, <1>2

\* Nothing is under way at the start.
LEMMA InitIInv == Init => IInv
<1> SUFFICES ASSUME Init PROVE IInv
  OBVIOUS
<1>1. FilterInv
  BY FilterInitInv DEF Init, ThrottleInit
<1>2. ThrottleInv
  BY CloudsAssumption DEF Init, ThrottleInit, ThrottleInv
<1>3. LayerShape
  BY LayerAssumption DEF Init, LayerInit, LayerShape, Nothing, Sent,
     NothingPendingWhileInactive
<1>4. LineInv
  <2>1. Numbers(<<>>) = <<>>
    BY DEF Numbers
  <2>2. InLine(<<>>, <<>>, <<>>, 0, 0)
    <3>1. Ordered(<<>>, 0, 0) /\ Before(<<>>, <<>>)
      BY NoneOrdered, OneBefore
    <3>2. QED
      BY <3>1 DEF InLine
  <2>3. pending = <<>> /\ chain = <<>> /\ CallbackNumbers = <<>> /\ observed = 0 /\ published = 0
    BY DEF Init, ThrottleInit, LayerInit, CallbackNumbers
  <2>4. QED
    BY <2>1, <2>2, <2>3 DEF LineInv
<1>5. QED
  BY <1>1, <1>2, <1>3, <1>4 DEF IInv

-----------------------------------------------------------------------------
(* The throttle's steps.                                                   *)

LEMMA ThrottleStepInv ==
  ASSUME FilterInv, ThrottleInv, ThrottleStep
  PROVE  FilterInv' /\ ThrottleInv' /\ published' = published
<1> USE DEF ThrottleInv, throttle_vars, cloud_vars, Finished
<1>1. CASE CloudCallback
  <2>1. ThrottleInv' /\ published' = published
    BY <1>1, CloudsAssumption DEF CloudCallback, filter_vars, loop_vars
  <2>2. QED
    BY <1>1, <2>1, FilterUnchanged DEF CloudCallback
<1>2. CASE TakeLatest
  <2>1. ThrottleInv' /\ published' = published
    BY <1>2, CloudsAssumption DEF TakeLatest
  <2>2. QED
    BY <1>2, <2>1, FilterUnchanged DEF TakeLatest
<1>3. CASE LookupFails
  <2>1. ThrottleInv' /\ published' = published
    BY <1>3 DEF LookupFails
  <2>2. QED
    BY <1>3, <2>1, FilterUnchanged DEF LookupFails
<1>4. CASE LookupSucceeds
  <2>1. CASE Refused(message)
    <3>1. ThrottleInv' /\ published' = published
      BY <1>4, <2>1, CloudsAssumption DEF LookupSucceeds
    <3>2. QED
      BY <1>4, <2>1, <3>1, FilterUnchanged DEF LookupSucceeds
  <2>2. CASE ~Refused(message)
    <3>1. ThrottleInv' /\ published' = published
      BY <1>4, <2>2 DEF LookupSucceeds, Begin
    <3>2. FilterInv'
      BY <1>4, <2>2, CloudHasPoints, BeginInv DEF LookupSucceeds
    <3>3. QED
      BY <3>1, <3>2
  <2>3. QED
    BY <2>1, <2>2
<1>5. CASE FilterVisits
  <2>1. ThrottleInv' /\ published' = published
    BY <1>5 DEF FilterVisits, Visit
  <2>2. QED
    BY <1>5, <2>1, VisitInv DEF FilterVisits
<1>6. QED
  BY <1>1, <1>2, <1>3, <1>4, <1>5 DEF ThrottleStep

\* What is published is newer than everything published before.
LEMMA PublishInv ==
  ASSUME FilterInv, ThrottleInv, Publish
  PROVE  /\ FilterInv' /\ ThrottleInv'
         /\ published' = sequence /\ sequence \in Nat /\ sequence > published
<1>1. ThrottleInv' /\ published' = sequence /\ sequence \in Nat /\ sequence > published
  BY CloudsAssumption DEF Publish, ThrottleInv, Finished, cloud_vars
<1>2. QED
  BY <1>1, FilterUnchanged DEF Publish

\* Steps of the layer do not disturb the throttle.
LEMMA ThrottleUnchanged ==
  FilterInv /\ ThrottleInv /\ UNCHANGED <<filter_vars, throttle_vars>>
    => FilterInv' /\ ThrottleInv' /\ published' = published
<1> SUFFICES ASSUME FilterInv, ThrottleInv, UNCHANGED <<filter_vars, throttle_vars>>
             PROVE  FilterInv' /\ ThrottleInv' /\ published' = published
  OBVIOUS
<1>1. ThrottleInv' /\ published' = published
  BY DEF ThrottleInv, throttle_vars, cloud_vars, filter_vars, loop_vars
<1>2. QED
  BY <1>1, FilterUnchanged

-----------------------------------------------------------------------------
(* The obstacle layer's steps.                                             *)

\* Every sequence is a subsequence of itself, and emptying it leaves one.
LEMMA TrivialPicks ==
  ASSUME NEW s \in Seq(Nat)
  PROVE  Picks(s, s) /\ Picks(<<>>, s)
<1>1. Picks(s, s)
  <2> DEFINE at == [i \in DOMAIN s |-> i]
  <2>1. at \in [DOMAIN s -> DOMAIN s]
    OBVIOUS
  <2>2. QED
    BY <2>1 DEF Picks
<1>2. Picks(<<>>, s)
  <2> DEFINE at == [i \in DOMAIN <<>> |-> 1]
  <2>1. DOMAIN <<>> = {}
    OBVIOUS
  <2>2. at \in [DOMAIN <<>> -> DOMAIN s]
    BY <2>1
  <2>3. QED
    BY <2>1, <2>2 DEF Picks
<1>3. QED
  BY <1>1, <1>2

\* Steps that touch neither the queue nor the callback nor the buffer.
LEMMA LineUnchanged ==
  ASSUME LineInv, UNCHANGED <<pending, in_callback, observed, chain, published>>
  PROVE  LineInv'
  BY DEF LineInv, CallbackNumbers, Numbers

\* deactivate() and reset().
LEMMA LineEmptied ==
  ASSUME LayerShape, LineInv, pending' = <<>>, UNCHANGED <<in_callback, observed, chain, published>>
  PROVE  LineInv'
<1>1. Numbers(pending) \in Seq(Nat) /\ observed \in Nat
  BY DEF LineInv, InLine, Ordered
<1>2. Picks(<<>>, Numbers(pending)) /\ <<>> \in Seq(Nat)
  BY <1>1, TrivialPicks
<1>3. InLine(<<>>, CallbackNumbers, Numbers(chain), observed, published)
  BY <1>1, <1>2, LineThins DEF LineInv
<1>4. Numbers(<<>>) = <<>>
  BY DEF Numbers
<1>5. CallbackNumbers' = CallbackNumbers
  BY DEF CallbackNumbers
<1>6. QED
  BY <1>3, <1>4, <1>5 DEF LineInv

\* enqueue(): a full queue loses its oldest cloud, and the new one is the newest.
LEMMA EnqueueInv ==
  ASSUME LayerShape, LineInv, Enqueue, UNCHANGED <<chain, published>>
  PROVE  LayerShape' /\ LineInv'
<1> DEFINE q == Numbers(pending)
           base == IF Len(pending) >= MaxPending THEN Tail(pending) ELSE pending
           waiting == [number |-> in_callback.number, overdue |-> FALSE]
           enqueued == in_callback.stamped /\ Active
<1>1. /\ in_callback' = Nothing /\ in_callback' \in Sent /\ CallbackNumbers' = <<>>
      /\ pending' = IF enqueued THEN Append(base, waiting) ELSE pending
      /\ observed' = observed /\ lifecycle' = lifecycle /\ waits' = waits
      /\ CallbackNumbers = <<in_callback.number>>
  BY DEF Enqueue, Queued, CallbackNumbers, Nothing, Sent
<1>2. /\ pending \in Seq(Waiting) /\ Len(pending) \in Nat
      /\ in_callback \in Sent /\ waiting \in Waiting
  BY DEF LayerShape, Sent, Waiting
<1>3. /\ q \in Seq(Nat) /\ observed \in Nat
      /\ InLine(q, <<in_callback.number>>, Numbers(chain), observed, published)
  BY <1>1 DEF LineInv, InLine, Ordered
<1>4. /\ base \in Seq(Waiting) /\ Len(base) < MaxPending
      /\ Numbers(base) \in Seq(Nat) /\ Picks(Numbers(base), q)
  <2>1. CASE Len(pending) >= MaxPending
    <3>1. pending # <<>>
      BY <2>1, LayerAssumption
    <3>2. /\ base = Tail(pending) /\ base \in Seq(Waiting) /\ Len(base) = Len(pending) - 1
          /\ Numbers(base) = Tail(q) /\ q # <<>>
      BY <1>2, <2>1, <3>1, NumbersTail
    <3>3. Tail(q) \in Seq(Nat) /\ Picks(Tail(q), q)
      BY <1>3, <3>2, HeadAndTail DEF InLine
    <3>4. Len(base) < MaxPending
      BY <1>2, <3>2, LayerAssumption DEF LayerShape
    <3>5. QED
      BY <3>2, <3>3, <3>4
  <2>2. CASE ~(Len(pending) >= MaxPending)
    BY <1>2, <1>3, <2>2, TrivialPicks, LayerAssumption
  <2>3. QED
    BY <2>1, <2>2
<1> HIDE DEF base, waiting, q
<1>5. InLine(Numbers(base), <<in_callback.number>>, Numbers(chain), observed, published)
  BY <1>3, <1>4, LineThins
<1>6. CASE enqueued
  <2>1. /\ pending' \in Seq(Waiting) /\ Len(pending') = Len(base) + 1
        /\ Numbers(pending') = Append(Numbers(base), in_callback.number)
    <3>1. pending' = Append(base, waiting) /\ waiting.number = in_callback.number
      BY <1>1, <1>6 DEF waiting
    <3>2. QED
      BY <1>2, <1>4, <3>1, NumbersAppend
  <2>2. Len(pending') <= MaxPending
    BY <1>4, <2>1, LayerAssumption
  <2>3. lifecycle' # "inactive"
    BY <1>1, <1>6 DEF Active
  <2>4. LayerShape'
    BY <1>1, <2>1, <2>2, <2>3 DEF LayerShape, NothingPendingWhileInactive
  <2>5. LineInv'
    BY <1>1, <1>5, <2>1, LineEnqueues DEF LineInv
  <2>6. QED
    BY <2>4, <2>5
<1>7. CASE ~enqueued
  <2>1. LayerShape'
    BY <1>1, <1>7 DEF LayerShape, NothingPendingWhileInactive
  <2>2. LineInv'
    BY <1>1, <1>3, <1>7, LineEnqueues DEF LineInv, q
  <2>3. QED
    BY <2>1, <2>2
<1>8. QED
  BY <1>6, <1>7

\* A sequence over the same or over fewer places.
LEMMA SeqOver ==
  ASSUME NEW n \in Nat, NEW S, NEW f \in [1..n -> S]
  PROVE  f \in Seq(S) /\ Len(f) = n
<1>1. f \in Seq(S)
  BY SeqDef
<1>2. QED
  BY <1>1

\* Time passes for the queue: it keeps its numbers.
LEMMA WaitInv ==
  ASSUME LayerShape, LineInv, Wait, UNCHANGED <<chain, published>>
  PROVE  LayerShape' /\ LineInv' /\ observed' = observed
<1>1. PICK n \in DOMAIN pending :
         /\ pending' = [i \in DOMAIN pending |->
                          IF i <= n THEN [pending[i] EXCEPT !.overdue = TRUE] ELSE pending[i]]
         /\ UNCHANGED <<waits, lifecycle, in_callback, observed>>
  BY DEF Wait
<1>2. /\ Len(pending) \in Nat /\ DOMAIN pending = 1..Len(pending)
      /\ \A i \in DOMAIN pending : pending[i] \in Waiting
  BY DEF LayerShape
<1>3. /\ pending' \in [1..Len(pending) -> Waiting]
      /\ \A i \in DOMAIN pending : pending'[i].number = pending[i].number
  BY <1>1, <1>2 DEF Waiting
<1>4. pending' \in Seq(Waiting) /\ Len(pending') = Len(pending) /\ DOMAIN pending' = DOMAIN pending
  BY <1>2, <1>3, SeqOver
<1>5. Numbers(pending') = Numbers(pending)
  BY <1>3, <1>4 DEF Numbers
<1>6. pending # <<>>
  BY <1>1
<1>7. LayerShape'
  BY <1>1, <1>4, <1>6 DEF LayerShape, NothingPendingWhileInactive
<1>8. LineInv'
  BY <1>1, <1>5 DEF LineInv, CallbackNumbers
<1>9. QED
  BY <1>1, <1>7, <1>8

\* A pass over the queue: what is observed is newer than what was, and what stays is newer
\* still.
LEMMA UpdateInv ==
  ASSUME LayerShape, LineInv, Update, UNCHANGED <<chain, published>>
  PROVE  LayerShape' /\ LineInv' /\ (observed' # observed => observed' > observed)
<1> DEFINE q == Numbers(pending)
<1>0. PICK expired \in Expired :
         \E ready \in SUBSET (DOMAIN pending \ expired) :
            /\ Active /\ pending # <<>>
            /\ \E list \in Ascending(Kept(ready, expired)) :
                  pending' = [i \in DOMAIN list |->
                      [pending[list[i]] EXCEPT !.overdue = \E j \in expired : list[i] < j]]
            /\ \E buffered \in SUBSET ready : Observe(buffered)
            /\ UNCHANGED <<waits, lifecycle, in_callback>>
  BY DEF Update
<1>1. PICK ready \in SUBSET (DOMAIN pending \ expired) :
         /\ Active /\ pending # <<>>
         /\ \E list \in Ascending(Kept(ready, expired)) :
               pending' = [i \in DOMAIN list |->
                   [pending[list[i]] EXCEPT !.overdue = \E j \in expired : list[i] < j]]
         /\ \E buffered \in SUBSET ready : Observe(buffered)
         /\ UNCHANGED <<waits, lifecycle, in_callback>>
  BY <1>0
<1> DEFINE kept == Kept(ready, expired)
<1>2. PICK list \in Ascending(kept) :
         pending' = [i \in DOMAIN list |->
                   [pending[list[i]] EXCEPT !.overdue = \E j \in expired : list[i] < j]]
  BY <1>1
<1>3. PICK buffered \in SUBSET ready : Observe(buffered)
  BY <1>1
<1>4. /\ Len(pending) \in Nat /\ DOMAIN pending = 1..Len(pending)
      /\ \A i \in DOMAIN pending : pending[i] \in Waiting
      /\ Len(pending) <= MaxPending
  BY DEF LayerShape
<1>5. kept \subseteq DOMAIN pending /\ \A i \in kept, j \in ready : i > j
  BY DEF Kept
<1> HIDE DEF kept
<1>6. Cardinality(kept) \in Nat /\ Cardinality(kept) <= Len(pending)
  <2>1. IsFiniteSet(1..Len(pending)) /\ Cardinality(1..Len(pending)) = Len(pending)
    BY <1>4, FS_Interval
  <2>2. IsFiniteSet(kept) /\ Cardinality(kept) <= Cardinality(1..Len(pending))
    BY <1>4, <1>5, <2>1, FS_Subset
  <2>3. QED
    BY <2>1, <2>2, FS_CardinalityType
<1>7. /\ list \in [1..Cardinality(kept) -> kept] /\ DOMAIN list = 1..Cardinality(kept)
      /\ \A i, j \in DOMAIN list : i < j => list[i] < list[j]
  BY DEF Ascending
<1>8. /\ pending' \in [1..Cardinality(kept) -> Waiting]
      /\ \A i \in DOMAIN list : pending'[i].number = pending[list[i]].number
  <2>1. ASSUME NEW i \in DOMAIN list
        PROVE  /\ [pending[list[i]] EXCEPT !.overdue = \E j \in expired : list[i] < j] \in Waiting
               /\ [pending[list[i]] EXCEPT !.overdue = \E j \in expired : list[i] < j].number
                     = pending[list[i]].number
    <3>1. pending[list[i]] \in Waiting
      BY <1>4, <1>5, <1>7
    <3>2. (\E j \in expired : list[i] < j) \in BOOLEAN
      OBVIOUS
    <3>3. QED
      BY <3>1, <3>2 DEF Waiting
  <2>2. QED
    BY <1>2, <1>7, <2>1
<1>9. /\ pending' \in Seq(Waiting) /\ Len(pending') = Cardinality(kept)
      /\ DOMAIN pending' = DOMAIN list
  BY <1>6, <1>7, <1>8, SeqOver
<1>10. /\ q \in Seq(Nat) /\ DOMAIN q = DOMAIN pending /\ Ordered(q, observed, published)
       /\ \A i \in DOMAIN q : q[i] = pending[i].number
       /\ observed \in Nat
  BY NumbersSeq DEF LayerShape, LineInv, InLine
<1>11. /\ Numbers(pending') \in Seq(Nat) /\ DOMAIN Numbers(pending') = DOMAIN list
       /\ \A i \in DOMAIN list : Numbers(pending')[i] = q[list[i]]
  <2>1. /\ Numbers(pending') \in Seq(Nat) /\ DOMAIN Numbers(pending') = DOMAIN list
        /\ \A i \in DOMAIN list : Numbers(pending')[i] = pending'[i].number
    BY <1>9, NumbersSeq
  <2>2. QED
    BY <1>5, <1>7, <1>8, <1>10, <2>1
<1> HIDE DEF q
<1>12. Picks(Numbers(pending'), q)
  <2>1. list \in [DOMAIN Numbers(pending') -> DOMAIN q]
    BY <1>5, <1>7, <1>10, <1>11
  <2>2. QED
    BY <1>7, <1>11, <2>1 DEF Picks
<1>13. \/ observed' = observed
       \/ /\ observed' > observed
          /\ \E i \in DOMAIN q : observed' = q[i] /\ \A j \in DOMAIN list : observed' < q[list[j]]
  <2>1. CASE buffered = {}
    BY <1>3, <2>1 DEF Observe
  <2>2. CASE buffered # {}
    <3>1. PICK last \in buffered : observed' = pending[last].number
      BY <1>3, <2>2 DEF Observe
    <3>2. last \in ready /\ last \in DOMAIN q /\ observed' = q[last]
      BY <1>1, <1>10, <3>1
    <3>3. q[last] > observed
      BY <1>10, <3>2 DEF Ordered
    <3>4. \A j \in DOMAIN list : last < list[j] /\ list[j] \in DOMAIN q
      BY <1>5, <1>7, <1>10, <3>2
    <3>5. \A j \in DOMAIN list : q[last] < q[list[j]]
      BY <1>10, <3>2, <3>4 DEF Ordered
    <3>6. QED
      BY <3>2, <3>3, <3>5
  <2>3. QED
    BY <2>1, <2>2
<1>14. InLine(Numbers(pending'), CallbackNumbers, Numbers(chain), observed', published)
  <2>1. InLine(q, CallbackNumbers, Numbers(chain), observed, published)
    BY DEF LineInv, q
  <2>2. observed' \in Nat
    BY <1>10, <1>13
  <2>3. QED
    BY <1>11, <1>12, <1>13, <2>1, <2>2, LineThins
<1>15. LineInv'
  BY <1>1, <1>14 DEF LineInv, CallbackNumbers
<1>16. LayerShape'
  BY <1>1, <1>4, <1>6, <1>9, LayerAssumption DEF LayerShape, NothingPendingWhileInactive, Active
<1>17. QED
  BY <1>13, <1>15, <1>16

\* Every step of the layer alone keeps its shape and the line, and observes only what is newer.
LEMMA LayerStepInv ==
  ASSUME LayerShape, LineInv, LayerStep, UNCHANGED <<chain, published>>
  PROVE  LayerShape' /\ LineInv' /\ (observed' # observed => observed' > observed)
<1>1. ASSUME UNCHANGED <<waits, in_callback, pending, observed>>,
             \/ lifecycle = "inactive" /\ lifecycle' = "activating"
             \/ lifecycle = "activating" /\ lifecycle' = "active"
             \/ lifecycle = "active" /\ lifecycle' = "deactivating"
      PROVE  LayerShape' /\ LineInv' /\ observed' = observed
  <2>1. LayerShape' /\ observed' = observed
    BY <1>1 DEF LayerShape, NothingPendingWhileInactive
  <2>2. QED
    BY <1>1, <2>1, LineUnchanged
<1>2. ASSUME pending' = <<>>, UNCHANGED <<waits, in_callback, observed>>,
             lifecycle' \in {lifecycle, "inactive"}
      PROVE  LayerShape' /\ LineInv' /\ observed' = observed
  <2>1. LayerShape' /\ observed' = observed
    BY <1>2, LayerAssumption DEF LayerShape, NothingPendingWhileInactive
  <2>2. QED
    BY <1>2, <2>1, LineEmptied
<1>3. CASE Activate \/ Subscribe \/ Unsubscribe
  BY <1>1, <1>3 DEF Activate, Subscribe, Unsubscribe
<1>4. CASE Deactivate \/ Reset
  BY <1>2, <1>4 DEF Deactivate, Reset
<1>5. CASE Enqueue
  BY <1>5, EnqueueInv DEF Enqueue
<1>6. CASE Wait
  BY <1>6, WaitInv
<1>7. CASE Update
  BY <1>7, UpdateInv
<1>8. QED
  BY <1>3, <1>4, <1>5, <1>6, <1>7 DEF LayerStep

-----------------------------------------------------------------------------
(* The chain's steps and the composition.                                  *)

\* A cloud enters the chain: it is newer than all that are under way.
LEMMA PublishCloudInv ==
  ASSUME IInv, PublishCloud
  PROVE  IInv' /\ observed' = observed
<1>1. /\ FilterInv' /\ ThrottleInv'
      /\ published' = sequence /\ sequence \in Nat /\ sequence > published
  BY PublishInv DEF IInv, PublishCloud
<1>2. /\ waits' = waits /\ lifecycle' = lifecycle /\ in_callback' = in_callback
      /\ pending' = pending /\ observed' = observed
  BY DEF PublishCloud, layer_vars
<1>3. chain \in Seq(Sent)
  BY DEF IInv, LayerShape
<1> DEFINE cloud == [number |-> sequence, stamped |-> message.header = "stamped"]
<1>4. cloud \in Sent /\ cloud.number = sequence
  BY <1>1 DEF Sent
<1>5. chain' = Append(chain, cloud) \/ chain' = chain
  BY DEF PublishCloud
<1> HIDE DEF cloud
<1>6. InLine(Numbers(pending), CallbackNumbers, Numbers(chain), observed, published)
  BY DEF IInv, LineInv
<1>7. /\ InLine(Numbers(pending), CallbackNumbers, Append(Numbers(chain), sequence),
                observed, sequence)
      /\ InLine(Numbers(pending), CallbackNumbers, Numbers(chain), observed, sequence)
  BY <1>1, <1>6, LinePublishes
<1>8. /\ Append(chain, cloud) \in Seq(Sent)
      /\ Numbers(Append(chain, cloud)) = Append(Numbers(chain), sequence)
  BY <1>3, <1>4, NumbersAppend
<1>9. chain' \in Seq(Sent)
  BY <1>3, <1>5, <1>8
<1>10. CallbackNumbers' = CallbackNumbers
  BY <1>2 DEF CallbackNumbers
<1>11. LineInv'
  BY <1>1, <1>2, <1>5, <1>7, <1>8, <1>10 DEF LineInv
<1>12. LayerShape'
  BY <1>2, <1>9 DEF IInv, LayerShape, NothingPendingWhileInactive
<1>13. QED
  BY <1>1, <1>2, <1>11, <1>12 DEF IInv

\* The oldest cloud of the chain is lost, or delivered to an idle callback.
LEMMA ChainMovesInv ==
  ASSUME IInv, LoseCloud \/ DeliverCloud
  PROVE  IInv' /\ observed' = observed
<1>1. FilterInv' /\ ThrottleInv' /\ published' = published
  BY ThrottleUnchanged DEF IInv, LoseCloud, DeliverCloud
<1>2. chain # <<>> /\ chain' = Tail(chain)
  BY DEF LoseCloud, DeliverCloud
<1>3. chain \in Seq(Sent)
  BY DEF IInv, LayerShape
<1>4. /\ Head(chain) \in Sent /\ Tail(chain) \in Seq(Sent)
      /\ Numbers(chain) # <<>> /\ Head(Numbers(chain)) = Head(chain).number
      /\ Numbers(Tail(chain)) = Tail(Numbers(chain))
  BY <1>2, <1>3, NumbersTail
<1>5. InLine(Numbers(pending), CallbackNumbers, Numbers(chain), observed, published)
  BY DEF IInv, LineInv
<1>6. /\ InLine(Numbers(pending), <<Head(chain).number>>, Numbers(Tail(chain)), observed, published)
      /\ InLine(Numbers(pending), CallbackNumbers, Numbers(Tail(chain)), observed, published)
  BY <1>4, <1>5, LineDelivers
<1>7. CASE LoseCloud
  <2>1. /\ waits' = waits /\ lifecycle' = lifecycle /\ in_callback' = in_callback
        /\ pending' = pending /\ observed' = observed
    BY <1>7 DEF LoseCloud, layer_vars
  <2>2. LayerShape'
    BY <1>2, <1>4, <2>1 DEF IInv, LayerShape, NothingPendingWhileInactive
  <2>3. LineInv'
    BY <1>1, <1>2, <1>6, <2>1 DEF LineInv, CallbackNumbers
  <2>4. QED
    BY <1>1, <2>1, <2>2, <2>3 DEF IInv
<1>8. CASE DeliverCloud
  <2>1. /\ waits' = waits /\ lifecycle' = lifecycle /\ in_callback' = Head(chain)
        /\ pending' = pending /\ observed' = observed
    BY <1>8 DEF DeliverCloud, Receive
  <2>2. Head(chain) # Nothing
    <3>1. /\ Ordered(<<Head(chain).number>>, observed, published)
          /\ observed \in Nat /\ published \in Nat
      BY <1>6 DEF InLine
    <3>2. Head(chain).number \in observed + 1..published
      BY <3>1, OneOrdered
    <3>3. Head(chain).number # 0
      BY <3>1, <3>2
    <3>4. QED
      BY <3>3 DEF Nothing
  <2>3. CallbackNumbers' = <<Head(chain).number>>
    BY <2>1, <2>2 DEF CallbackNumbers
  <2>4. LayerShape'
    BY <1>2, <1>4, <2>1 DEF IInv, LayerShape, NothingPendingWhileInactive
  <2>5. LineInv'
    BY <1>1, <1>2, <1>6, <2>1, <2>3 DEF LineInv
  <2>6. QED
    BY <1>1, <2>1, <2>4, <2>5 DEF IInv
<1>9. QED
  BY <1>7, <1>8

\* So does every step of the path.
LEMMA NextIInv ==
  ASSUME IInv, [Next]_vars
  PROVE  IInv' /\ (observed' # observed => observed' > observed)
<1>1. CASE ThrottleStep /\ UNCHANGED <<layer_vars, chain>>
  <2>1. FilterInv' /\ ThrottleInv' /\ published' = published
    BY <1>1, ThrottleStepInv DEF IInv
  <2>2. LayerShape' /\ observed' = observed
    BY <1>1 DEF IInv, LayerShape, NothingPendingWhileInactive, layer_vars
  <2>3. LineInv'
    BY <1>1, <2>1, LineUnchanged DEF IInv, layer_vars
  <2>4. QED
    BY <2>1, <2>2, <2>3 DEF IInv
<1>2. CASE LayerStep /\ UNCHANGED <<filter_vars, throttle_vars, chain>>
  <2>1. FilterInv' /\ ThrottleInv' /\ published' = published
    BY <1>2, ThrottleUnchanged DEF IInv
  <2>2. LayerShape' /\ LineInv' /\ (observed' # observed => observed' > observed)
    BY <1>2, <2>1, LayerStepInv DEF IInv
  <2>3. QED
    BY <2>1, <2>2 DEF IInv
<1>3. CASE PublishCloud
  BY <1>3, PublishCloudInv
<1>4. CASE LoseCloud \/ DeliverCloud
  BY <1>4, ChainMovesInv
<1>5. CASE UNCHANGED vars
  <2>1. FilterInv' /\ ThrottleInv' /\ published' = published
    BY <1>5, ThrottleUnchanged DEF IInv, vars
  <2>2. LayerShape' /\ observed' = observed
    BY <1>5 DEF IInv, LayerShape, NothingPendingWhileInactive, layer_vars, vars
  <2>3. LineInv'
    BY <1>5, <2>1, LineUnchanged DEF IInv, layer_vars, vars
  <2>4. QED
    BY <2>1, <2>2, <2>3 DEF IInv
<1>6. QED
  BY <1>1, <1>2, <1>3, <1>4, <1>5 DEF Next

-----------------------------------------------------------------------------
(* The theorems.                                                           *)

\* The line of numbers as TypeOK writes it.
LEMMA IInvTypeOK == IInv => TypeOK
<1> SUFFICES ASSUME IInv PROVE TypeOK
  OBVIOUS
<1> DEFINE numbers == [i \in DOMAIN pending |-> pending[i].number]
               \o (IF in_callback = Nothing THEN <<>> ELSE <<in_callback.number>>)
               \o [i \in DOMAIN chain |-> chain[i].number]
<1>1. numbers = Numbers(pending) \o CallbackNumbers \o Numbers(chain)
  BY DEF Numbers, CallbackNumbers
<1>2. Ordered(numbers, observed, published) /\ observed \in Nat /\ published \in Nat
  BY <1>1, LineOrdered DEF IInv, LineInv, InLine
<1> HIDE DEF numbers
<1>3. /\ \A i, j \in DOMAIN numbers : i < j => numbers[i] < numbers[j]
      /\ \A i \in DOMAIN numbers : numbers[i] \in observed + 1..published
  BY <1>2 DEF Ordered
<1>4. /\ max_input_points \in MaxInputPoints /\ voxels \in [Keys -> Nat]
  BY DEF IInv, FilterInv
<1>5. /\ timer \in {"idle", "lookup", "filter"}
      /\ latest_cloud_ \in Clouds \union {NoCloud} /\ message \in Clouds \union {NoCloud}
      /\ latest_cloud_sequence_ \in 0..MaxClouds
      /\ last_published_sequence_ \in 0..latest_cloud_sequence_
      /\ timer # "idle" => sequence \in last_published_sequence_ + 1..latest_cloud_sequence_
  BY DEF IInv, ThrottleInv
<1>6. /\ waits \in BOOLEAN
      /\ lifecycle \in {"inactive", "activating", "active", "deactivating"}
      /\ Len(pending) <= MaxPending
  BY DEF IInv, LayerShape
<1>7. QED
  BY <1>3, <1>4, <1>5, <1>6 DEF TypeOK, numbers

\* The invariant holds throughout.
LEMMA PathInvariant == Spec => []IInv
<1>1. IInv /\ [Next]_vars => IInv'
  BY NextIInv
<1>2. QED
  BY <1>1, InitIInv, PTL DEF Spec

\* The timer never works on a cloud it has dealt with, nothing is queued that was not
\* published, and what is under way keeps the order of publication.
THEOREM PathTypeCorrect == Spec => []TypeOK
  BY PathInvariant, IInvTypeOK, PTL

\* For a cloud of any size and any limit, the voxels hold exactly its evenly spaced samples,
\* none of an earlier cloud, and the sampling never leaves the cloud.
THEOREM SampledEvenly == Spec => []OutputIsItsSample
<1>1. IInv => OutputIsItsSample
  BY FilterStaysInCloud
  DEF IInv, FilterInv, ThrottleInv, OutputIsItsSample, VoxelsAreTheSample, Counted
<1>2. QED
  BY <1>1, PathInvariant, PTL

\* An inactive layer has an empty queue, whatever callback outlived the subscription.
THEOREM InactiveLayerIsEmpty == Spec => []NothingPendingWhileInactive
<1>1. IInv => NothingPendingWhileInactive
  BY DEF IInv, LayerShape
<1>2. QED
  BY <1>1, PathInvariant, PTL

\* No observation is replaced by an older one or made twice.
THEOREM ObservationsAscending == Spec => ObservationsAscend
<1>1. IInv /\ [Next]_vars => [observed' # observed => observed' > observed]_layer_vars
  BY NextIInv
<1>2. QED
  BY <1>1, PathInvariant, PTL DEF Spec, ObservationsAscend
=============================================================================
