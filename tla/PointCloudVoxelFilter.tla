------------------------ MODULE PointCloudVoxelFilter ------------------------
(***************************************************************************)
(* PointCloudVoxelFilterWorkspace::filter: at most max_input_points evenly *)
(* spaced points of a cloud are sampled and averaged per voxel, in maps    *)
(* that are reused from one call to the next.                              *)
(*                                                                         *)
(* A point is the key of the voxel its transformed position falls in, or   *)
(* Rejected: not finite, outside the height range or too far for a key.    *)
(* An average is the number of points it is taken over.  Sequences count   *)
(* from 1, the code's indices from 0.                                      *)
(***************************************************************************)
EXTENDS Integers, Sequences, FiniteSets

CONSTANTS
    Keys,               \* voxel keys
    Rejected,           \* a point without a key
    MaxInputPoints      \* values of max_input_points

ASSUME FilterAssumption == Rejected \notin Keys /\ MaxInputPoints \subseteq Nat \ {0}

VARIABLES
    max_input_points,   \* parameter, fixed for the filter's life
    points,             \* the points of the cloud being filtered
    samples_visited, next_sample_index, sample_interval_error,
    voxels              \* the number of points accumulated, by key

loop_vars == <<points, samples_visited, next_sample_index, sample_interval_error, voxels>>
filter_vars == <<max_input_points, loop_vars>>

\* sampled_point_count, sample_interval_count and sample_span of a cloud of so many points.
SampledPointCount(count, limit) == IF count < limit THEN count ELSE limit
SampleIntervalCount(count, limit) ==
    IF SampledPointCount(count, limit) > 1 THEN SampledPointCount(count, limit) - 1 ELSE 1
SampleSpan(count) == count - 1

FilterInit ==
    /\ max_input_points \in MaxInputPoints
    /\ points = <<>> /\ samples_visited = 0 /\ next_sample_index = 0
    /\ sample_interval_error = 0 /\ voxels = [k \in Keys |-> 0]

\* A call for a well formed cloud, up to the loop.  For an empty cloud the code returns an
\* empty result instead of emptying the maps.
Begin(cloud_points) ==
    /\ points' = cloud_points
    /\ samples_visited' = 0 /\ sample_interval_error' = 0
    /\ next_sample_index' =
           IF SampledPointCount(Len(cloud_points), max_input_points) = 1
           THEN (Len(cloud_points) - 1) \div 2 ELSE 0
    /\ voxels' = [k \in Keys |-> 0]
    /\ UNCHANGED max_input_points

Sampling == samples_visited < SampledPointCount(Len(points), max_input_points)

\* A point outside the height range or without a key (makeVoxelKey) counts for no voxel.
HasKey(point) == point \in Keys
Accumulate(point) ==
    voxels' = IF HasKey(point) THEN [voxels EXCEPT ![point] = @ + 1] ELSE voxels

\* Variant: the remainder of the division is dropped.
VisitEvenly ==
    LET intervals == SampleIntervalCount(Len(points), max_input_points)
    IN  /\ Sampling
        /\ samples_visited' = samples_visited + 1
        /\ IF samples_visited' < SampledPointCount(Len(points), max_input_points)
           THEN next_sample_index' = next_sample_index + (SampleSpan(Len(points)) \div intervals)
           ELSE UNCHANGED next_sample_index
        /\ Accumulate(points[next_sample_index + 1])
        /\ UNCHANGED <<max_input_points, points, sample_interval_error>>

\* One turn of the sampling loop.  The remainder of the division is spread over the samples.
Visit ==
    LET intervals == SampleIntervalCount(Len(points), max_input_points)
        error == sample_interval_error + (SampleSpan(Len(points)) % intervals)
        carry == IF error >= intervals THEN 1 ELSE 0
    IN  /\ Sampling
        /\ samples_visited' = samples_visited + 1
        /\ IF samples_visited' < SampledPointCount(Len(points), max_input_points)
           THEN /\ next_sample_index' =
                       next_sample_index + (SampleSpan(Len(points)) \div intervals) + carry
                /\ sample_interval_error' = error - carry * intervals
           ELSE UNCHANGED <<next_sample_index, sample_interval_error>>
        /\ Accumulate(points[next_sample_index + 1])
        /\ UNCHANGED <<max_input_points, points>>

(***************************************************************************)
(* Properties                                                              *)
(***************************************************************************)

\* The k-th of the evenly spaced samples of a cloud: the first and the last point are among
\* them, a single sample is the middle one.
SampleIndex(k, count, limit) ==
    IF SampledPointCount(count, limit) = 1 THEN (count - 1) \div 2
    ELSE (k * SampleSpan(count)) \div SampleIntervalCount(count, limit)

\* The samples taken from a cloud whose point falls in a voxel.
SamplesIn(key, visited) ==
    {k \in 0..visited - 1 : points[SampleIndex(k, Len(points), max_input_points) + 1] = key}

\* A voxel accumulates exactly the evenly spaced samples of the cloud at hand that fall in
\* it, none of an earlier cloud, and the sampling never leaves the cloud.
VoxelsAreTheSample ==
    /\ \A key \in Keys : voxels[key] = Cardinality(SamplesIn(key, samples_visited))
    /\ Sampling => next_sample_index \in 0..Len(points) - 1
=============================================================================
