--------------------- MODULE OdinLocalizationAdapterProofs ---------------------
(***************************************************************************)
(* The safety of the Odin adapter, for every timeout, tolerance and queue  *)
(* length, and for every order of packets, resets and clock ticks.         *)
(***************************************************************************)
EXTENDS OdinLocalizationAdapter, SequenceTheorems, WellFoundedInduction, TLAPS

-----------------------------------------------------------------------------
(* The queue of local samples.                                             *)

\* QueueOrdered of a queue whose stamps reach up to latest and whose receipts up to now.
Ordered(queue, latest, now, watermark) ==
    /\ queue \in Seq([stamp : 1..latest, received : 1..now])
    /\ \A i, j \in 1..Len(queue) : i < j =>
           /\ queue[i].stamp < queue[j].stamp
           /\ queue[i].received <= queue[j].received
    /\ queue # <<>> => queue[Len(queue)].stamp = watermark

\* What is left when samples are taken from the front is ordered as it was.
LEMMA SuffixOrdered ==
  ASSUME NEW queue, NEW latest \in Int, NEW now \in Int, NEW watermark,
         Ordered(queue, latest, now, watermark), NEW first \in 1..Len(queue) + 1
  PROVE  /\ Ordered(SubSeq(queue, first, Len(queue)), latest, now, watermark)
         /\ Len(SubSeq(queue, first, Len(queue))) = Len(queue) - first + 1
<1> DEFINE Samples == [stamp : 1..latest, received : 1..now]
           rest == SubSeq(queue, first, Len(queue))
<1>1. queue \in Seq(Samples) /\ Len(queue) \in Nat /\ first \in Nat
  BY LenProperties DEF Ordered
<1> HIDE DEF Samples
<1>2. \A i \in first..Len(queue) : queue[i] \in Samples
  BY <1>1, ElementOfSeq
<1>3. /\ rest \in Seq(Samples)
      /\ Len(rest) = IF first <= Len(queue) THEN Len(queue) - first + 1 ELSE 0
      /\ \A i \in 1..Len(queue) - first + 1 : rest[i] = queue[first + i - 1]
  BY <1>1, <1>2, SubSeqProperties
<1>4. Len(rest) = Len(queue) - first + 1
  BY <1>1, <1>3
<1> HIDE DEF rest
<1>6. \A i, j \in 1..Len(rest) : i < j =>
          rest[i].stamp < rest[j].stamp /\ rest[i].received <= rest[j].received
  <2> SUFFICES ASSUME NEW i \in 1..Len(rest), NEW j \in 1..Len(rest), i < j
               PROVE  rest[i].stamp < rest[j].stamp /\ rest[i].received <= rest[j].received
    OBVIOUS
  <2>1. /\ first + i - 1 \in 1..Len(queue) /\ first + j - 1 \in 1..Len(queue)
        /\ first + i - 1 < first + j - 1
    BY <1>1, <1>4
  <2>2. rest[i] = queue[first + i - 1] /\ rest[j] = queue[first + j - 1]
    BY <1>3, <1>4
  <2>3. QED
    BY <2>1, <2>2 DEF Ordered
<1>7. rest # <<>> => rest[Len(rest)].stamp = watermark
  <2> SUFFICES ASSUME rest # <<>> PROVE rest[Len(rest)].stamp = watermark
    OBVIOUS
  <2>1. Len(rest) # 0
    BY <1>3, EmptySeq
  <2>2. Len(rest) \in 1..Len(queue) - first + 1 /\ first + Len(rest) - 1 = Len(queue)
    BY <2>1, <1>1, <1>4
  <2>3. rest[Len(rest)] = queue[Len(queue)] /\ queue # <<>>
    BY <2>2, <1>3, <1>1, EmptySeq
  <2>4. QED
    BY <2>3 DEF Ordered
<1>8. QED
  BY <1>3, <1>4, <1>6, <1>7 DEF Ordered, rest, Samples

\* A newer sample at the end keeps the order; only the watermark moves.
LEMMA AppendOrdered ==
  ASSUME NEW queue, NEW latest \in Int, NEW now \in Int, NEW watermark,
         Ordered(queue, latest, now, watermark),
         NEW stamp, stamp \in 1..latest, now >= 1, watermark < stamp, watermark \in Int
  PROVE  /\ Ordered(Append(queue, [stamp |-> stamp, received |-> now]), latest, now, stamp)
         /\ Len(Append(queue, [stamp |-> stamp, received |-> now])) = Len(queue) + 1
<1> DEFINE Samples == [stamp : 1..latest, received : 1..now]
           sample == [stamp |-> stamp, received |-> now]
           queued == Append(queue, sample)
<1>1. sample \in Samples
  OBVIOUS
<1>2. queue \in Seq(Samples) /\ Len(queue) \in Nat
  BY LenProperties DEF Ordered
<1>3. \A i \in 1..Len(queue) : queue[i].stamp \in Int /\ queue[i].received \in 1..now
  <2> HIDE DEF Samples
  <2>1. \A i \in 1..Len(queue) : queue[i] \in Samples
    BY <1>2, ElementOfSeq
  <2>2. QED
    BY <2>1 DEF Samples
<1>4. \A i \in 1..Len(queue) : queue[i].stamp <= watermark
  <2> SUFFICES ASSUME NEW i \in 1..Len(queue) PROVE queue[i].stamp <= watermark
    OBVIOUS
  <2>1. queue # <<>> /\ Len(queue) \in 1..Len(queue)
    BY <1>2, EmptySeq
  <2>2. queue[Len(queue)].stamp = watermark
    BY <2>1 DEF Ordered
  <2>3. CASE i = Len(queue)
    BY <2>2, <2>3
  <2>4. CASE i < Len(queue)
    <3>1. queue[i].stamp < queue[Len(queue)].stamp
      BY <2>1, <2>4 DEF Ordered
    <3>2. QED
      BY <3>1, <2>1, <2>2, <1>3
  <2>5. QED
    BY <2>3, <2>4, <1>2
<1> HIDE DEF Samples
<1>5. /\ queued \in Seq(Samples)
      /\ Len(queued) = Len(queue) + 1
      /\ \A i \in 1..Len(queue) : queued[i] = queue[i]
      /\ queued[Len(queue) + 1] = sample
  BY <1>1, <1>2, AppendProperties
<1>6. \A i, j \in 1..Len(queued) : i < j =>
          queued[i].stamp < queued[j].stamp /\ queued[i].received <= queued[j].received
  <2> SUFFICES ASSUME NEW i \in 1..Len(queued), NEW j \in 1..Len(queued), i < j
               PROVE  /\ queued[i].stamp < queued[j].stamp
                      /\ queued[i].received <= queued[j].received
    OBVIOUS
  <2>1. i \in 1..Len(queue) /\ queued[i] = queue[i]
    BY <1>2, <1>5
  <2>2. CASE j = Len(queue) + 1
    BY <2>1, <2>2, <1>3, <1>4, <1>5
  <2>3. CASE j \in 1..Len(queue)
    BY <2>1, <2>3, <1>5 DEF Ordered
  <2>4. QED
    BY <2>2, <2>3, <1>2, <1>5
<1>7. queued[Len(queued)].stamp = stamp
  BY <1>5, <1>2
<1>8. QED
  BY <1>5, <1>6, <1>7 DEF Ordered, Samples

\* A sequence over a set is one over every larger set.
LEMMA SeqOfLarger ==
  ASSUME NEW S, NEW T, S \subseteq T, NEW queue \in Seq(S)
  PROVE  queue \in Seq(T)
<1>1. queue \in [1..Len(queue) -> S] /\ Len(queue) \in Nat
  BY LenProperties
<1>2. queue \in [1..Len(queue) -> T]
  BY <1>1
<1>3. QED
  BY <1>1, <1>2, SeqDef

\* Stamps and receipts only have to reach higher as the clocks advance.
LEMMA LaterOrdered ==
  ASSUME NEW queue, NEW latest \in Int, NEW now \in Int, NEW watermark,
         Ordered(queue, latest, now, watermark),
         NEW latest2 \in Int, NEW now2 \in Int, latest <= latest2, now <= now2
  PROVE  Ordered(queue, latest2, now2, watermark)
<1>1. [stamp : 1..latest, received : 1..now] \subseteq [stamp : 1..latest2, received : 1..now2]
  OBVIOUS
<1>2. queue \in Seq([stamp : 1..latest2, received : 1..now2])
  BY <1>1, SeqOfLarger DEF Ordered
<1>3. QED
  BY <1>2 DEF Ordered

\* A nonempty set of natural numbers has a least element.
LEMMA LeastElement ==
  ASSUME NEW S, S \subseteq Nat, S # {}
  PROVE  \E i \in S : \A j \in S : i <= j
<1>1. \E i \in S : \A j \in S : ~(<<j, i>> \in OpToRel(<, Nat))
  BY NatLessThanWellFounded, WFMin, Zenon
<1>2. PICK i \in S : \A j \in S : ~(<<j, i>> \in OpToRel(<, Nat))
  BY <1>1
<1>3. ASSUME NEW j \in S PROVE i <= j
  <2>1. i \in Nat /\ j \in Nat
    OBVIOUS
  <2>2. ~(j < i)
    BY <1>2, <2>1 DEF OpToRel
  <2>3. QED
    BY <2>1, <2>2
<1>4. QED
  BY <1>3

\* Pruning leaves the samples from the first usable one on.
LEMMA PrunedIsSuffix ==
  ASSUME NEW S, NEW queue \in Seq(S)
  PROVE  \E first \in 1..Len(queue) + 1 :
             /\ Pruned(queue) = SubSeq(queue, first, Len(queue))
             /\ first <= Len(queue) => Usable(queue[first])
<1> DEFINE usable == {i \in DOMAIN queue : Usable(queue[i])}
<1>1. DOMAIN queue = 1..Len(queue) /\ Len(queue) \in Nat
  BY LenProperties
<1>2. CASE usable = {}
  <2>1. Pruned(queue) = <<>>
    BY <1>2 DEF Pruned
  <2>2. SubSeq(queue, Len(queue) + 1, Len(queue)) = <<>>
    BY <1>1, SubSeqEmpty
  <2>3. QED
    BY <1>1, <2>1, <2>2
<1>3. CASE usable # {}
  <2>1. \E i \in usable : \A j \in usable : i <= j
    <3>1. usable \subseteq Nat
      BY <1>1
    <3> HIDE DEF usable
    <3>2. QED
      BY <1>3, <3>1, LeastElement
  <2> DEFINE first == CHOOSE i \in usable : \A j \in usable : i <= j
  <2>2. first \in usable
    BY <2>1
  <2>3. Pruned(queue) = SubSeq(queue, first, Len(queue))
    BY <1>3 DEF Pruned
  <2>4. first \in 1..Len(queue) + 1 /\ Usable(queue[first])
    BY <2>2, <1>1
  <2> HIDE DEF first
  <2>5. QED
    BY <2>3, <2>4
<1>4. QED
  BY <1>2, <1>3

-----------------------------------------------------------------------------
(* The inductive invariant.                                                *)

\* The evidence behind "ready", kept in every state.  A published local sample has been
\* counted since the last reset, and the twist has a baseline only after two; a correction
\* in use was stamped after the last reset, and no correction was ever newer than the
\* watermark.
EvidenceInv ==
    /\ previous_stamp_ # Absent => baseline >= 1
    /\ differentiated_ => baseline = 2
    /\ correction_stamp_ # Absent => correction_stamp_ > recovery_after_
    /\ \A stamp \in corrections : stamp <= last_correction_stamp_

IInv == TypeOK /\ EvidenceInv /\ ReadyIsEarned

\* The queue's part of the type invariant, in the terms of the lemmas above.
LEMMA QueueIsOrdered ==
  QueueOrdered <=>
      /\ Ordered(pending_, ros_now + FutureTolerance, steady_now, last_local_stamp_)
      /\ Len(pending_) <= MaxPendingSamples
  BY DEF QueueOrdered, Ordered, Stamps, Receipts

\* The program starts with the invariant.
LEMMA InitIInv == Init => IInv
<1> SUFFICES ASSUME Init PROVE IInv
  OBVIOUS
<1>1. ClocksInRange
  BY AdapterAssumption DEF Init, ClocksInRange
<1>2. QueueOrdered
  <2>1. <<>> \in Seq([stamp : Stamps, received : Receipts])
    OBVIOUS
  <2>2. Len(<<>>) = 0
    OBVIOUS
  <2>3. pending_ = <<>>
    BY DEF Init
  <2>4. QED
    BY <2>1, <2>2, <2>3, AdapterAssumption DEF QueueOrdered
<1>3. LocalTogether
  <2>1. /\ last_local_stamp_ = Absent /\ previous_stamp_ = Absent
        /\ local_accepted_at_ = Absent /\ recovery_after_ = Absent
        /\ baseline = 0
    BY DEF Init
  <2>2. local_reason_ \in LocalReasons
    BY DEF Init, LocalReasons
  <2>3. differentiated_ = FALSE
    BY DEF Init
  <2>4. differentiated_ \in BOOLEAN /\ (differentiated_ => previous_stamp_ # Absent)
    BY <2>3
  <2>5. /\ {last_local_stamp_, previous_stamp_} \subseteq Stamps \union {Absent}
        /\ local_accepted_at_ \in Receipts \union {Absent}
        /\ recovery_after_ \in 1..ros_now \union {Absent}
        /\ baseline \in 0..2
    BY <2>1
  <2>6. previous_stamp_ = Absent <=> local_accepted_at_ = Absent
    BY <2>1
  <2>7. QED
    BY <2>2, <2>4, <2>5, <2>6 DEF LocalTogether
<1>4. CorrectionIsNewest
  BY DEF Init, CorrectionIsNewest
<1>5. TypeOK
  BY <1>1, <1>2, <1>3, <1>4 DEF Init, TypeOK
<1>6. EvidenceInv /\ ReadyIsEarned
  BY DEF Init, EvidenceInv, ReadyIsEarned, Silent
<1>7. QED
  BY <1>5, <1>6 DEF IInv

\* What does not depend on the clocks keeps its shape while they stand still.
LEMMA ClocksUnchanged ==
  ASSUME UNCHANGED clock_vars
  PROVE  /\ ClocksInRange <=> ClocksInRange'
         /\ Stamps' = Stamps /\ Receipts' = Receipts
         /\ UNCHANGED <<ros_now, steady_now>>
  BY DEF clock_vars, ClocksInRange, Stamps, Receipts

\* A reset forgets together what local odometry knew, the correction in use with it.
LEMMA InvalidateInv ==
  ASSUME TypeOK, EvidenceInv, NEW reason \in LocalReasons, InvalidateLocal(reason),
         UNCHANGED <<clock_vars, last_correction_stamp_, corrections,
                     published_correction_stamp_, alignment_confirmed_>>,
         last_local_stamp_' \in Stamps \union {Absent}
  PROVE  /\ ClocksInRange' /\ QueueOrdered' /\ LocalTogether' /\ CorrectionIsNewest'
         /\ EvidenceInv' /\ alignment_confirmed_' \in BOOLEAN
<1>1. ClocksInRange' /\ Stamps' = Stamps /\ Receipts' = Receipts /\ ros_now' = ros_now
  BY ClocksUnchanged DEF TypeOK
<1>2. QueueOrdered'
  <2>1. <<>> \in Seq([stamp : Stamps', received : Receipts'])
    OBVIOUS
  <2>2. Len(<<>>) = 0
    OBVIOUS
  <2>3. pending_' = <<>>
    BY DEF InvalidateLocal
  <2>4. QED
    BY <2>1, <2>2, <2>3, AdapterAssumption DEF QueueOrdered
<1>3. LocalTogether'
  <2>1. recovery_after_' \in 1..ros_now'
    BY <1>1 DEF InvalidateLocal, LaterBoundary, TypeOK, ClocksInRange, LocalTogether
  <2>2. QED
    <3>1. /\ previous_stamp_' = Absent /\ local_accepted_at_' = Absent
          /\ baseline' = 0 /\ local_reason_' \in LocalReasons
      BY DEF InvalidateLocal
    <3>2. differentiated_' = FALSE
      BY DEF InvalidateLocal
    <3>3. QED
      <4>1. differentiated_' \in BOOLEAN /\ (differentiated_' => previous_stamp_' # Absent)
        BY <3>2
      <4>2. /\ {last_local_stamp_, previous_stamp_}' \subseteq Stamps' \union {Absent}
            /\ local_accepted_at_' \in Receipts' \union {Absent}
            /\ recovery_after_' \in 1..ros_now' \union {Absent}
            /\ baseline' \in 0..2
        BY <1>1, <2>1, <3>1
      <4>3. previous_stamp_' = Absent <=> local_accepted_at_' = Absent
        BY <3>1
      <4>4. QED
        BY <3>1, <4>1, <4>2, <4>3 DEF LocalTogether
<1>4. CorrectionIsNewest'
  BY <1>1 DEF InvalidateLocal, TypeOK, CorrectionIsNewest
<1>5. EvidenceInv'
  BY DEF InvalidateLocal, EvidenceInv, TypeOK
<1>6. QED
  BY <1>1, <1>2, <1>3, <1>4, <1>5 DEF TypeOK

-----------------------------------------------------------------------------
(* Every step keeps the invariant.                                         *)

\* A step that does not publish "ready" leaves nothing to be earned.
LEMMA NotReady ==
  ASSUME status' # "ready"
  PROVE  ReadyIsEarned'
  BY DEF ReadyIsEarned

\* A newer correction raises the watermark over all corrections.  One from before the last
\* reset is never received while an older one is in use, for that would itself be older.
LEMMA ReceiveCorrectionInv ==
  ASSUME IInv, NEW stamp \in 1..ros_now + FutureTolerance, ReceiveCorrection(stamp)
  PROVE  IInv'
<1>1. TypeOK /\ EvidenceInv /\ UNCHANGED <<clock_vars, local_vars, alignment_confirmed_>>
  BY DEF IInv, ReceiveCorrection
<1>2. /\ ClocksInRange' /\ Stamps' = Stamps /\ Receipts' = Receipts
      /\ UNCHANGED <<ros_now, steady_now>>
  BY <1>1, ClocksUnchanged DEF TypeOK
<1>3. QueueOrdered' /\ LocalTogether'
  BY <1>1, <1>2 DEF TypeOK, QueueOrdered, LocalTogether, local_vars
<1>4. /\ stamp \in Stamps /\ steady_now \in Receipts /\ stamp \in Int /\ stamp >= 1
      /\ recovery_after_ \in Int /\ last_correction_stamp_ \in Int
  BY <1>1, AdapterAssumption
     DEF TypeOK, ClocksInRange, LocalTogether, CorrectionIsNewest, Stamps, Receipts, Absent
<1>5. \A earlier \in corrections : earlier \in Int /\ earlier >= 1 /\ earlier < stamp
  <2> SUFFICES ASSUME NEW earlier \in corrections
               PROVE  earlier \in Int /\ earlier >= 1 /\ earlier < stamp
    OBVIOUS
  <2>1. earlier \in Int /\ earlier >= 1 /\ earlier <= last_correction_stamp_
    BY <1>1, AdapterAssumption DEF TypeOK, ClocksInRange, CorrectionIsNewest, EvidenceInv, Stamps
  <2>2. last_correction_stamp_ = Absent \/ stamp > last_correction_stamp_
    BY DEF ReceiveCorrection, NewCorrection
  <2>3. QED
    BY <1>4, <2>1, <2>2 DEF Absent
<1>6. \A earlier \in corrections' : earlier <= last_correction_stamp_'
  BY <1>4, <1>5 DEF ReceiveCorrection
<1>7. /\ {last_correction_stamp_, correction_stamp_, published_correction_stamp_}'
             \subseteq Stamps \union {Absent}
      /\ correction_received_at_' \in Receipts \union {Absent}
      /\ corrections' \subseteq Stamps
  BY <1>1, <1>4 DEF ReceiveCorrection, TypeOK, CorrectionIsNewest
<1>8. correction_stamp_' # Absent =>
          /\ correction_received_at_' # Absent
          /\ correction_stamp_' = last_correction_stamp_'
          /\ correction_stamp_' > recovery_after_'
  <2>1. recovery_after_' = recovery_after_
    BY <1>1 DEF local_vars
  <2>2. CASE recovery_after_ # Absent /\ stamp <= recovery_after_
    <3>1. correction_stamp_' = correction_stamp_
      BY <2>2 DEF ReceiveCorrection
    <3>2. correction_stamp_ # Absent =>
              /\ correction_stamp_ = last_correction_stamp_
              /\ correction_stamp_ > recovery_after_
      BY <1>1 DEF TypeOK, CorrectionIsNewest, EvidenceInv
    <3>3. last_correction_stamp_ = Absent \/ stamp > last_correction_stamp_
      BY DEF ReceiveCorrection, NewCorrection
    <3>4. correction_stamp_ = Absent
      BY <1>4, <2>2, <3>2, <3>3
    <3>5. QED
      BY <3>1, <3>4
  <2>3. CASE ~(recovery_after_ # Absent /\ stamp <= recovery_after_)
    <3>1. /\ correction_stamp_' = stamp /\ last_correction_stamp_' = stamp
          /\ correction_received_at_' = steady_now
      BY <2>3 DEF ReceiveCorrection
    <3>2. stamp > recovery_after_
      BY <1>4, <2>3 DEF Absent
    <3>3. steady_now # Absent
      BY <1>4 DEF Receipts, Absent
    <3>4. QED
      BY <2>1, <3>1, <3>2, <3>3
  <2>4. QED
    BY <2>2, <2>3
<1>9. CorrectionIsNewest'
  BY <1>2, <1>7, <1>8 DEF CorrectionIsNewest
<1>10. EvidenceInv'
  BY <1>1, <1>6, <1>8 DEF EvidenceInv, local_vars
<1>11. status' = Silent
  BY DEF ReceiveCorrection
<1>12. ReadyIsEarned'
  BY <1>11, NotReady DEF Silent
<1>13. QED
  BY <1>1, <1>2, <1>3, <1>9, <1>10, <1>11, <1>12 DEF IInv, TypeOK

\* A correction that cannot be used takes the one in use with it, and no more.
LEMMA ReceiveInvalidCorrectionInv ==
  ASSUME IInv, ReceiveInvalidCorrection
  PROVE  IInv'
<1>1. TypeOK /\ EvidenceInv /\ UNCHANGED <<clock_vars, local_vars, alignment_confirmed_>>
  BY DEF IInv, ReceiveInvalidCorrection
<1>2. /\ ClocksInRange' /\ Stamps' = Stamps /\ Receipts' = Receipts
      /\ UNCHANGED <<ros_now, steady_now>>
  BY <1>1, ClocksUnchanged DEF TypeOK
<1>3. QueueOrdered' /\ LocalTogether'
  BY <1>1, <1>2 DEF TypeOK, QueueOrdered, LocalTogether, local_vars
<1>4. CorrectionIsNewest'
  BY <1>1, <1>2 DEF ReceiveInvalidCorrection, TypeOK, CorrectionIsNewest
<1>5. EvidenceInv'
  BY <1>1 DEF ReceiveInvalidCorrection, EvidenceInv, local_vars
<1>6. status' = Silent
  BY DEF ReceiveInvalidCorrection
<1>7. ReadyIsEarned'
  BY <1>6, NotReady DEF Silent
<1>8. QED
  BY <1>1, <1>2, <1>3, <1>4, <1>5, <1>6, <1>7 DEF IInv, TypeOK

\* A newer sample goes to the end of the queue; a full queue loses its oldest one.
LEMMA ReceiveOdometryInv ==
  ASSUME IInv, NEW stamp \in 1..ros_now + FutureTolerance, ReceiveOdometry(stamp)
  PROVE  IInv'
<1>1. TypeOK /\ EvidenceInv
      /\ UNCHANGED <<clock_vars, alignment_confirmed_, correction_vars,
                     published_correction_stamp_, previous_stamp_, local_accepted_at_,
                     differentiated_, recovery_after_, local_reason_, baseline>>
  BY DEF IInv, ReceiveOdometry
<1>2. /\ ClocksInRange' /\ Stamps' = Stamps /\ Receipts' = Receipts
      /\ UNCHANGED <<ros_now, steady_now>>
  BY <1>1, ClocksUnchanged DEF TypeOK
<1>3. last_local_stamp_' = stamp /\ stamp \in Stamps /\ status' = Silent
  BY DEF ReceiveOdometry, Stamps
<1>4. QueueOrdered'
  <2> DEFINE latest == ros_now + FutureTolerance
             queued == Append(pending_, [stamp |-> stamp, received |-> steady_now])
  <2>1. /\ latest \in Int /\ steady_now \in Int /\ steady_now >= 1
        /\ last_local_stamp_ \in Int /\ last_local_stamp_ < stamp
    BY <1>1, AdapterAssumption
       DEF TypeOK, ClocksInRange, LocalTogether, Stamps, Absent, ReceiveOdometry
  <2>2. /\ Ordered(pending_, latest, steady_now, last_local_stamp_)
        /\ Len(pending_) <= MaxPendingSamples
    BY <1>1, QueueIsOrdered DEF TypeOK
  <2>3. Len(pending_) \in Nat
    BY <2>2, LenProperties DEF Ordered
  <2>4. Ordered(queued, latest, steady_now, stamp) /\ Len(queued) = Len(pending_) + 1
    <3> HIDE DEF queued, latest
    <3>1. stamp \in 1..latest
      BY DEF latest
    <3>2. QED
      BY <2>1, <2>2, <3>1, AppendOrdered DEF queued
  <2>5. pending_' = IF Len(queued) > MaxPendingSamples THEN Tail(queued) ELSE queued
    BY DEF ReceiveOdometry
  <2> HIDE DEF queued, latest
  <2>6. Ordered(pending_', latest, steady_now, stamp) /\ Len(pending_') <= MaxPendingSamples
    <3>1. CASE Len(queued) > MaxPendingSamples
      <4>1. pending_' = Tail(queued)
        BY <2>5, <3>1
      <4>2. queued # <<>> /\ 2 \in 1..Len(queued) + 1
        BY <2>3, <2>4, EmptySeq
      <4>3. Tail(queued) = SubSeq(queued, 2, Len(queued))
        BY <2>4, <4>2, TailIsSubSeq DEF Ordered
      <4>4. /\ Ordered(Tail(queued), latest, steady_now, stamp)
            /\ Len(Tail(queued)) = Len(queued) - 2 + 1
        <5>1. /\ Ordered(SubSeq(queued, 2, Len(queued)), latest, steady_now, stamp)
              /\ Len(SubSeq(queued, 2, Len(queued))) = Len(queued) - 2 + 1
          BY <2>1, <2>4, <4>2, SuffixOrdered, Zenon
        <5>2. QED
          BY <4>3, <5>1
      <4>5. Len(queued) - 2 + 1 <= MaxPendingSamples
        BY <2>2, <2>3, <2>4, AdapterAssumption
      <4>6. QED
        BY <4>1, <4>4, <4>5
    <3>2. CASE ~(Len(queued) > MaxPendingSamples)
      <4>1. pending_' = queued
        BY <2>5, <3>2
      <4>2. Len(queued) <= MaxPendingSamples
        BY <2>3, <2>4, <3>2, AdapterAssumption
      <4>3. QED
        BY <2>4, <4>1, <4>2
    <3>3. QED
      BY <3>1, <3>2
  <2>7. QED
    BY <1>2, <1>3, <2>6 DEF QueueOrdered, Ordered, Stamps, Receipts, latest
<1>5. LocalTogether'
  <2>1. {last_local_stamp_, previous_stamp_}' \subseteq Stamps \union {Absent}
    BY <1>1, <1>3 DEF TypeOK, LocalTogether
  <2>2. QED
    BY <1>1, <1>2, <2>1 DEF TypeOK, LocalTogether
<1>6. CorrectionIsNewest' /\ EvidenceInv'
  BY <1>1, <1>2 DEF TypeOK, CorrectionIsNewest, EvidenceInv, correction_vars
<1>7. ReadyIsEarned'
  BY <1>3, NotReady DEF Silent
<1>8. QED
  BY <1>1, <1>2, <1>3, <1>4, <1>5, <1>6, <1>7 DEF IInv, TypeOK

\* What the tolerance reaches grows with the clock.
LEMMA ReachGrows ==
  ASSUME NEW now \in Nat, NEW later \in Nat, now <= later
  PROVE  /\ now + FutureTolerance \in Int /\ later + FutureTolerance \in Int
         /\ now + FutureTolerance <= later + FutureTolerance
         /\ 1..now + FutureTolerance \subseteq 1..later + FutureTolerance
         /\ 1..now \subseteq 1..later
  BY AdapterAssumption

\* The clocks advance: every stamp and receipt stays within reach.
LEMMA TickInv ==
  ASSUME IInv, Tick
  PROVE  IInv'
<1>1. TypeOK /\ EvidenceInv
  BY DEF IInv
<1>2. /\ ros_now \in Nat /\ steady_now \in Nat /\ ros_now <= steady_now /\ ros_now >= 1
      /\ steady_now < MaxTime
  BY <1>1, AdapterAssumption DEF TypeOK, ClocksInRange, Tick
<1>3. /\ steady_now' = steady_now + 1
      /\ ros_now' = ros_now \/ ros_now' = ros_now + 1
      /\ UNCHANGED <<alignment_confirmed_, local_vars, correction_vars,
                     published_correction_stamp_>>
      /\ status' = Silent
  BY DEF Tick
<1>4. ros_now' \in Nat /\ steady_now' \in Nat /\ ros_now <= ros_now' /\ steady_now <= steady_now'
  BY <1>2, <1>3
<1>5. ClocksInRange'
  BY <1>2, <1>3, AdapterAssumption DEF ClocksInRange
<1>6. Stamps \subseteq Stamps' /\ Receipts \subseteq Receipts'
  BY <1>2, <1>4, ReachGrows DEF Stamps, Receipts
<1>7. QueueOrdered'
  <2>1. /\ ros_now + FutureTolerance \in Int /\ ros_now' + FutureTolerance \in Int
        /\ ros_now + FutureTolerance <= ros_now' + FutureTolerance
    BY <1>2, <1>4, ReachGrows
  <2>2. /\ Ordered(pending_, ros_now + FutureTolerance, steady_now, last_local_stamp_)
        /\ Len(pending_) <= MaxPendingSamples
    BY <1>1, QueueIsOrdered DEF TypeOK
  <2>3. Ordered(pending_, ros_now' + FutureTolerance, steady_now', last_local_stamp_)
    BY <1>2, <1>4, <2>1, <2>2, LaterOrdered
  <2>4. pending_' = pending_ /\ last_local_stamp_' = last_local_stamp_
    BY <1>3 DEF local_vars
  <2>5. QED
    BY <2>2, <2>3, <2>4 DEF QueueOrdered, Ordered, Stamps, Receipts
<1>8. LocalTogether'
  <2>1. 1..ros_now \subseteq 1..ros_now'
    BY <1>2, <1>4
  <2>2. QED
    BY <1>1, <1>3, <1>6, <2>1 DEF TypeOK, LocalTogether, local_vars
<1>9. CorrectionIsNewest' /\ EvidenceInv'
  BY <1>1, <1>3, <1>6 DEF TypeOK, CorrectionIsNewest, EvidenceInv, correction_vars, local_vars
<1>10. ReadyIsEarned'
  BY <1>3, NotReady DEF Silent
<1>11. QED
  BY <1>1, <1>3, <1>5, <1>7, <1>8, <1>9, <1>10 DEF IInv, TypeOK

\* A step that resets local odometry keeps the invariant: it does not say "ready".
LEMMA ResetInv ==
  ASSUME IInv, NEW reason \in LocalReasons, InvalidateLocal(reason),
         UNCHANGED <<clock_vars, alignment_confirmed_, last_correction_stamp_, corrections,
                     published_correction_stamp_>>,
         last_local_stamp_' \in Stamps \union {Absent},
         status' \in LocalReasons \union {Silent}
  PROVE  IInv'
<1>1. TypeOK /\ EvidenceInv
  BY DEF IInv
<1>2. /\ ClocksInRange' /\ QueueOrdered' /\ LocalTogether' /\ CorrectionIsNewest'
      /\ EvidenceInv' /\ alignment_confirmed_' \in BOOLEAN
  BY <1>1, InvalidateInv
<1>3. status' # "ready" /\ status' \in Reasons \union {Silent}
  BY DEF LocalReasons, Resets, Silent, Reasons
<1>4. QED
  BY <1>2, <1>3, NotReady DEF IInv, TypeOK

\* Only the four conditions together make the verdict "ready".
LEMMA ReadyVerdict ==
  ASSUME NEW pending, NEW previous, NEW differentiated, NEW reason \in LocalReasons
  PROVE  /\ Verdict(pending, previous, differentiated, reason) \in Reasons
         /\ Verdict(pending, previous, differentiated, reason) = "ready" =>
                /\ previous # Absent /\ alignment_confirmed_
                /\ CorrectionIsFresh /\ differentiated
<1>1. reason \in Reasons /\ reason # "ready"
  BY DEF LocalReasons, Resets, Reasons
<1>2. CASE previous = Absent
  BY <1>1, <1>2 DEF Verdict, Reasons
<1>3. CASE previous # Absent /\ ~alignment_confirmed_
  BY <1>3 DEF Verdict, Reasons
<1>4. CASE previous # Absent /\ alignment_confirmed_ /\ ~CorrectionIsFresh
  BY <1>4 DEF Verdict, Reasons
<1>5. CASE previous # Absent /\ alignment_confirmed_ /\ CorrectionIsFresh /\ ~differentiated
  BY <1>5 DEF Verdict, Reasons
<1>6. CASE previous # Absent /\ alignment_confirmed_ /\ CorrectionIsFresh /\ differentiated
  BY <1>6 DEF Verdict, Reasons
<1>7. QED
  BY <1>2, <1>3, <1>4, <1>5, <1>6

\* What is left of the queue after a tick of the timer is ordered, and every sample of it
\* is recent: the first because it is usable, the others because they are newer and none
\* is further in the future than the tolerance.
LEMMA PrunedQueue ==
  ASSUME TypeOK
  PROVE  /\ Ordered(Pruned(pending_), ros_now + FutureTolerance, steady_now, last_local_stamp_)
         /\ Len(Pruned(pending_)) <= MaxPendingSamples
         /\ \A i \in 1..Len(Pruned(pending_)) :
                /\ Pruned(pending_)[i].stamp \in Stamps
                /\ Fresh(Pruned(pending_)[i].stamp, LocalTimeout)
<1> DEFINE latest == ros_now + FutureTolerance
           Samples == [stamp : 1..latest, received : 1..steady_now]
           kept == Pruned(pending_)
<1>1. /\ Ordered(pending_, latest, steady_now, last_local_stamp_)
      /\ Len(pending_) <= MaxPendingSamples
  BY QueueIsOrdered DEF TypeOK
<1>2. pending_ \in Seq(Samples) /\ Len(pending_) \in Nat
  BY <1>1, LenProperties DEF Ordered
<1>3. /\ latest \in Int /\ steady_now \in Int /\ ros_now \in Int /\ LocalTimeout \in Int
      /\ ros_now - latest = -FutureTolerance /\ FutureTolerance \in Int
      /\ MaxPendingSamples \in Int
  BY AdapterAssumption DEF TypeOK, ClocksInRange
<1> HIDE DEF Samples
<1>4. PICK first \in 1..Len(pending_) + 1 :
          /\ kept = SubSeq(pending_, first, Len(pending_))
          /\ first <= Len(pending_) => Usable(pending_[first])
  BY <1>2, PrunedIsSuffix
<1> HIDE DEF kept, latest
<1>5. Ordered(kept, latest, steady_now, last_local_stamp_) /\ Len(kept) = Len(pending_) - first + 1
  BY <1>1, <1>3, <1>4, SuffixOrdered
<1>6. Len(kept) <= MaxPendingSamples
  BY <1>1, <1>2, <1>3, <1>5
<1>7. ASSUME NEW i \in 1..Len(kept)
      PROVE  kept[i].stamp \in 1..latest /\ Fresh(kept[i].stamp, LocalTimeout)
  <2>1. kept \in Seq(Samples) /\ Len(kept) \in Nat
    BY <1>5, LenProperties DEF Ordered, Samples
  <2>2. 1 \in 1..Len(kept) /\ first \in 1..Len(pending_)
    BY <1>2, <1>5
  <2>3. kept[i] \in Samples /\ kept[1] \in Samples
    BY <2>1, <2>2, ElementOfSeq
  <2>4. kept[i].stamp \in 1..latest /\ kept[1].stamp \in 1..latest
    BY <2>3 DEF Samples
  <2>5. kept[1] = pending_[first]
    <3>1. \A k \in first..Len(pending_) : pending_[k] \in Samples
      BY <1>2, ElementOfSeq
    <3>2. \A k \in 1..Len(pending_) - first + 1 :
              SubSeq(pending_, first, Len(pending_))[k] = pending_[first + k - 1]
      BY <1>2, <2>2, <3>1, SubSeqProperties
    <3>3. 1 \in 1..Len(pending_) - first + 1 /\ first + 1 - 1 = first
      BY <1>2, <2>2
    <3>4. QED
      BY <1>4, <3>2, <3>3
  <2>6. ros_now - kept[1].stamp <= LocalTimeout
    BY <1>3, <1>4, <2>2, <2>4, <2>5 DEF Usable, Fresh
  <2>7. kept[1].stamp <= kept[i].stamp
    <3>1. CASE i = 1
      BY <3>1, <2>4, <1>3
    <3>2. CASE 1 < i
      <4>1. kept[1].stamp < kept[i].stamp
        BY <3>2, <2>2, <1>5 DEF Ordered
      <4>2. QED
        BY <4>1, <2>4, <1>3
    <3>3. QED
      BY <3>1, <3>2, <2>1
  <2>8. kept[i].stamp <= latest
    BY <2>4, <1>3
  <2>9. QED
    BY <1>3, <2>4, <2>6, <2>7, <2>8 DEF Fresh
<1>8. QED
  BY <1>5, <1>6, <1>7 DEF kept, latest, Stamps

\* Without a new sample "ready" rests on the last one, which the stall check has found
\* recent.
LEMMA ProcessWaitingInv ==
  ASSUME IInv, ProcessWaiting
  PROVE  IInv'
<1>1. TypeOK /\ EvidenceInv
      /\ UNCHANGED <<clock_vars, alignment_confirmed_, correction_vars, last_local_stamp_,
                     previous_stamp_, local_accepted_at_, differentiated_, recovery_after_,
                     local_reason_, baseline>>
  BY DEF IInv, ProcessWaiting
<1>2. /\ ClocksInRange' /\ Stamps' = Stamps /\ Receipts' = Receipts
      /\ UNCHANGED <<ros_now, steady_now>>
  BY <1>1, ClocksUnchanged DEF TypeOK
<1>3. QueueOrdered'
  <2>1. pending_' = Pruned(pending_)
    BY DEF ProcessWaiting
  <2>2. QED
    BY <1>1, <1>2, <2>1, PrunedQueue DEF QueueOrdered, Ordered, Stamps, Receipts
<1>4. LocalTogether'
  BY <1>1, <1>2 DEF TypeOK, LocalTogether
<1>5. /\ status' = Verdict(pending_', previous_stamp_, differentiated_, local_reason_)
      /\ published_correction_stamp_' \in {correction_stamp_, published_correction_stamp_}
  BY DEF ProcessWaiting, PublishVerdict
<1>6. CorrectionIsNewest' /\ EvidenceInv'
  BY <1>1, <1>2, <1>5 DEF TypeOK, CorrectionIsNewest, EvidenceInv, correction_vars
<1>7. local_reason_ \in LocalReasons
  BY <1>1 DEF TypeOK, LocalTogether
<1>8. status' \in Reasons
  BY <1>5, <1>7, ReadyVerdict
<1>9. ASSUME status' = "ready" PROVE ReadyIsEarned'
  <2>1. previous_stamp_ # Absent /\ alignment_confirmed_ /\ CorrectionIsFresh /\ differentiated_
    <3>1. Verdict(pending_', previous_stamp_, differentiated_, local_reason_) = "ready"
      BY <1>5, <1>9
    <3>2. local_reason_ # "ready"
      BY <1>7 DEF LocalReasons, Resets
    <3>3. QED
      BY <3>1, <3>2 DEF Verdict
  <2>2. /\ Fresh(previous_stamp_, LocalTimeout)
        /\ ~(steady_now - local_accepted_at_ > LocalTimeout)
    BY <2>1 DEF ProcessWaiting, Stalled
  <2>3. steady_now - local_accepted_at_ <= LocalTimeout
    BY <1>1, <2>2, AdapterAssumption DEF TypeOK, ClocksInRange, LocalTogether, Receipts, Absent
  <2>4. baseline = 2 /\ correction_stamp_ # Absent /\ correction_stamp_ > recovery_after_
    BY <1>1, <2>1 DEF EvidenceInv, CorrectionIsFresh
  <2>5. QED
    BY <1>1, <1>2, <2>1, <2>2, <2>3, <2>4 DEF ReadyIsEarned, CorrectionIsFresh, Fresh,
                                               correction_vars
<1>10. QED
  BY <1>1, <1>2, <1>3, <1>4, <1>6, <1>8, <1>9, NotReady DEF IInv, TypeOK

\* One more sample is counted; a second one makes two.
LEMMA CountedUp ==
  ASSUME NEW count \in 0..2, NEW counted, counted = IF count < 2 THEN count + 1 ELSE 2
  PROVE  counted \in 0..2 /\ counted >= 1 /\ (count >= 1 => counted = 2)
  OBVIOUS

\* A new sample is recent; the twist has a baseline only if one came before it since the
\* last reset, and that one has been counted.
LEMMA ProcessSampleInv ==
  ASSUME IInv, NEW index, ProcessSample(index)
  PROVE  IInv'
<1> DEFINE kept == Pruned(pending_)
           sample == kept[index]
           rest == SubSeq(kept, index + 1, Len(kept))
           latest == ros_now + FutureTolerance
<1>1. TypeOK /\ EvidenceInv
      /\ UNCHANGED <<clock_vars, alignment_confirmed_, correction_vars, last_local_stamp_,
                     recovery_after_, local_reason_>>
  BY DEF IInv, ProcessSample
<1>2. /\ ClocksInRange' /\ Stamps' = Stamps /\ Receipts' = Receipts
      /\ UNCHANGED <<ros_now, steady_now>>
  BY <1>1, ClocksUnchanged DEF TypeOK
<1>3. /\ Ordered(kept, latest, steady_now, last_local_stamp_)
      /\ Len(kept) <= MaxPendingSamples
      /\ \A i \in 1..Len(kept) : kept[i].stamp \in Stamps /\ Fresh(kept[i].stamp, LocalTimeout)
  BY <1>1, PrunedQueue
<1>4. Len(kept) \in Nat /\ DOMAIN kept = 1..Len(kept)
  BY <1>3, LenProperties DEF Ordered
<1>5. index \in 1..Len(kept) /\ index + 1 \in 1..Len(kept) + 1
  BY <1>4 DEF ProcessSample
<1>6. /\ differentiated_' = (previous_stamp_ # Absent)
      /\ previous_stamp_' = sample.stamp
      /\ local_accepted_at_' = steady_now
      /\ pending_' = rest
      /\ baseline' = IF baseline < 2 THEN baseline + 1 ELSE 2
      /\ status' = Verdict(rest, sample.stamp, differentiated_', local_reason_)
      /\ published_correction_stamp_' \in {correction_stamp_, published_correction_stamp_}
  BY DEF ProcessSample, PublishVerdict
<1>7. sample.stamp \in Stamps /\ Fresh(sample.stamp, LocalTimeout) /\ sample.stamp # Absent
  BY <1>3, <1>5 DEF Stamps, Absent
<1>8. /\ steady_now \in Receipts /\ steady_now # Absent /\ latest \in Int /\ steady_now \in Int
      /\ steady_now - steady_now <= LocalTimeout
  BY <1>1, AdapterAssumption DEF TypeOK, ClocksInRange, Receipts, Absent
<1>9. /\ baseline' \in 0..2 /\ baseline' >= 1
      /\ previous_stamp_ # Absent => baseline' = 2
  <2>1. /\ baseline \in 0..2
        /\ previous_stamp_ # Absent => baseline >= 1
    BY <1>1 DEF TypeOK, LocalTogether, EvidenceInv
  <2>2. QED
    BY <1>6, <2>1, CountedUp
<1>10. QueueOrdered'
  <2> HIDE DEF kept, latest
  <2>1. /\ Ordered(rest, latest, steady_now, last_local_stamp_)
        /\ Len(rest) = Len(kept) - (index + 1) + 1
    BY <1>3, <1>5, <1>8, SuffixOrdered
  <2> HIDE DEF rest
  <2>2. Len(rest) <= MaxPendingSamples
    BY <1>3, <1>4, <1>5, <2>1, AdapterAssumption
  <2>3. last_local_stamp_' = last_local_stamp_
    BY <1>1
  <2>4. QED
    BY <1>2, <1>6, <2>1, <2>2, <2>3 DEF QueueOrdered, Ordered, Stamps, Receipts, latest
<1> HIDE DEF sample, rest, kept
<1>11. LocalTogether'
  <2>1. differentiated_' \in BOOLEAN /\ (differentiated_' => previous_stamp_' # Absent)
    BY <1>6, <1>7
  <2>2. baseline' \in 0..2
    BY <1>9
  <2>3. {last_local_stamp_, previous_stamp_}' \subseteq Stamps' \union {Absent}
    BY <1>1, <1>2, <1>6, <1>7 DEF TypeOK, LocalTogether
  <2>4. previous_stamp_' = Absent <=> local_accepted_at_' = Absent
    BY <1>6, <1>7, <1>8
  <2>5. /\ local_accepted_at_' \in Receipts' \union {Absent}
        /\ recovery_after_' \in 1..ros_now' \union {Absent}
        /\ local_reason_' \in LocalReasons
    BY <1>1, <1>2, <1>6, <1>8 DEF TypeOK, LocalTogether
  <2>6. QED
    BY <2>1, <2>2, <2>3, <2>4, <2>5 DEF LocalTogether
<1>12. CorrectionIsNewest'
  BY <1>1, <1>2, <1>6 DEF TypeOK, CorrectionIsNewest, correction_vars
<1>13. EvidenceInv'
  <2>1. baseline' >= 1
    BY <1>9
  <2>2. differentiated_' => baseline' = 2
    BY <1>6, <1>9
  <2>3. /\ correction_stamp_' # Absent => correction_stamp_' > recovery_after_'
        /\ \A stamp \in corrections' : stamp <= last_correction_stamp_'
    BY <1>1 DEF EvidenceInv, correction_vars
  <2>4. QED
    BY <2>1, <2>2, <2>3 DEF EvidenceInv
<1>14. local_reason_ \in LocalReasons
  BY <1>1 DEF TypeOK, LocalTogether
<1>15. status' \in Reasons
  BY <1>6, <1>14, ReadyVerdict
<1>16. ASSUME status' = "ready" PROVE ReadyIsEarned'
  <2>1. alignment_confirmed_ /\ CorrectionIsFresh /\ differentiated_'
    BY <1>6, <1>14, <1>16, ReadyVerdict
  <2>2. baseline' = 2
    BY <2>1, <1>13 DEF EvidenceInv
  <2>3. correction_stamp_ # Absent /\ correction_stamp_ > recovery_after_
    BY <1>1, <2>1 DEF EvidenceInv, CorrectionIsFresh
  <2>4. Fresh(previous_stamp_, LocalTimeout)'
    BY <1>2, <1>6, <1>7 DEF Fresh
  <2>5. (steady_now - local_accepted_at_ <= LocalTimeout)'
    BY <1>2, <1>6, <1>8
  <2>6. QED
    BY <1>1, <1>2, <2>1, <2>2, <2>3, <2>4, <2>5
       DEF ReadyIsEarned, CorrectionIsFresh, Fresh, correction_vars
<1>17. QED
  BY <1>1, <1>2, <1>10, <1>11, <1>12, <1>13, <1>15, <1>16, NotReady DEF IInv, TypeOK

\* Every step of the adapter, and every stuttering step, keeps the invariant.
LEMMA NextInv == IInv /\ [Next]_vars => IInv'
<1> SUFFICES ASSUME IInv, [Next]_vars PROVE IInv'
  OBVIOUS
<1>1. ASSUME NEW stamp \in 1..ros_now + FutureTolerance, ReceiveCorrection(stamp) PROVE IInv'
  BY <1>1, ReceiveCorrectionInv
<1>2. ASSUME NEW stamp \in 1..ros_now + FutureTolerance, ReceiveOdometry(stamp) PROVE IInv'
  BY <1>2, ReceiveOdometryInv
<1>3. ASSUME NEW stamp \in 1..ros_now + FutureTolerance, OdometryRegresses(stamp) PROVE IInv'
  <2>1. /\ InvalidateLocal("local_time_regression") /\ status' = Silent
        /\ last_local_stamp_' \in Stamps \union {Absent}
        /\ UNCHANGED <<clock_vars, alignment_confirmed_, last_correction_stamp_, corrections,
                       published_correction_stamp_>>
    BY <1>3 DEF OdometryRegresses, Stamps
  <2>2. QED
    BY <2>1, ResetInv DEF LocalReasons, Resets
<1>4. ASSUME ReceiveInvalidCorrection PROVE IInv'
  BY <1>4, ReceiveInvalidCorrectionInv
<1>5. last_local_stamp_ \in Stamps \union {Absent}
  BY DEF IInv, TypeOK, LocalTogether
<1>6. ASSUME ReceiveInvalidOdometry PROVE IInv'
  <2>1. /\ InvalidateLocal("invalid_local_input") /\ status' = Silent
        /\ last_local_stamp_' \in Stamps \union {Absent}
        /\ UNCHANGED <<clock_vars, alignment_confirmed_, last_correction_stamp_, corrections,
                       published_correction_stamp_>>
    BY <1>5, <1>6 DEF ReceiveInvalidOdometry
  <2>2. QED
    BY <2>1, ResetInv DEF LocalReasons, Resets
<1>7. ASSUME ProcessStalled PROVE IInv'
  <2>1. /\ InvalidateLocal("local_odometry_not_advancing")
        /\ status' = "local_odometry_not_advancing"
        /\ last_local_stamp_' \in Stamps \union {Absent}
        /\ UNCHANGED <<clock_vars, alignment_confirmed_, last_correction_stamp_, corrections,
                       published_correction_stamp_>>
    BY <1>5, <1>7 DEF ProcessStalled
  <2>2. QED
    BY <2>1, ResetInv DEF LocalReasons, Resets
<1>8. ASSUME ProcessWaiting PROVE IInv'
  BY <1>8, ProcessWaitingInv
<1>9. ASSUME NEW index, ProcessSample(index) PROVE IInv'
  BY <1>9, ProcessSampleInv
<1>10. ASSUME NEW index, NEW reason \in Resets, ProcessReset(index, reason) PROVE IInv'
  <2>1. /\ InvalidateLocal(reason) /\ status' = reason
        /\ last_local_stamp_' \in Stamps \union {Absent}
        /\ UNCHANGED <<clock_vars, alignment_confirmed_, last_correction_stamp_, corrections,
                       published_correction_stamp_>>
    BY <1>5, <1>10 DEF ProcessReset
  <2>2. reason \in LocalReasons
    BY DEF LocalReasons
  <2>3. QED
    BY <2>1, <2>2, ResetInv
<1>11. ASSUME Tick PROVE IInv'
  BY <1>11, TickInv
<1>12. ASSUME UNCHANGED vars PROVE IInv'
  BY <1>12 DEF IInv, TypeOK, ClocksInRange, QueueOrdered, LocalTogether, CorrectionIsNewest,
               EvidenceInv, ReadyIsEarned, Stamps, Receipts, Fresh, vars, clock_vars,
               local_vars, correction_vars
<1>13. QED
  BY <1>1, <1>2, <1>3, <1>4, <1>6, <1>7, <1>8, <1>9, <1>10, <1>11, <1>12 DEF Next, Process

\* The invariant holds throughout.
LEMMA AdapterInvariant == Spec => []IInv
  BY InitIInv, NextInv, PTL DEF Spec

-----------------------------------------------------------------------------
(* The theorems.                                                           *)

\* The state keeps its shape: the queue is bounded, ascends in stamps and receipts and ends
\* with the watermark; no stamp is further in the future than the tolerance; a correction
\* in use is the newest one received.
THEOREM AdapterTypeCorrect == Spec => []TypeOK
<1>1. IInv => TypeOK
  BY DEF IInv
<1>2. QED
  BY <1>1, AdapterInvariant, PTL

\* "ready" is published only on evidence since the last reset of local odometry that is
\* recent by both clocks, whatever the timeouts are and however packets are delayed,
\* duplicated or reordered.
THEOREM ReadyEarned == Spec => []ReadyIsEarned
<1>1. IInv => ReadyIsEarned
  BY DEF IInv
<1>2. QED
  BY <1>1, AdapterInvariant, PTL

\* map -> odom is published with ascending stamps only: no correction is put to use twice
\* or after a newer one was received.
THEOREM CorrectionsNeverGoBack == Spec => CorrectionsAscend
<1> DEFINE Ascends ==
        correction_stamp_' # correction_stamp_ /\ correction_stamp_' # Absent =>
            \A stamp \in corrections : correction_stamp_' > stamp
<1>1. IInv /\ [Next]_vars => [Ascends]_vars
  <2> SUFFICES ASSUME IInv, Next, correction_stamp_' # correction_stamp_,
                      correction_stamp_' # Absent
               PROVE  \A stamp \in corrections : correction_stamp_' > stamp
    OBVIOUS
  <2>1. PICK newest \in 1..ros_now + FutureTolerance : ReceiveCorrection(newest)
    BY DEF Next, Process, ReceiveOdometry, OdometryRegresses, ReceiveInvalidCorrection,
           ReceiveInvalidOdometry, ProcessStalled, ProcessWaiting, ProcessSample,
           ProcessReset, InvalidateLocal, Tick, correction_vars
  <2>2. correction_stamp_' = newest
    BY <2>1 DEF ReceiveCorrection
  <2>3. newest \in Int /\ newest >= 1
    BY <2>1
  <2>4. last_correction_stamp_ = Absent \/ newest > last_correction_stamp_
    BY <2>1 DEF ReceiveCorrection, NewCorrection
  <2>5. ASSUME NEW stamp \in corrections PROVE newest > stamp
    <3>1. /\ stamp \in Int /\ stamp >= 1 /\ stamp <= last_correction_stamp_
          /\ last_correction_stamp_ \in Int
      BY AdapterAssumption DEF IInv, TypeOK, ClocksInRange, CorrectionIsNewest, EvidenceInv,
                               Stamps, Absent
    <3>2. QED
      BY <2>3, <2>4, <3>1 DEF Absent
  <2>6. QED
    BY <2>2, <2>5
<1>2. QED
  BY <1>1, AdapterInvariant, PTL DEF Spec, CorrectionsAscend
=============================================================================
