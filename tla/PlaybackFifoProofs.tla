------------------------- MODULE PlaybackFifoProofs -------------------------
(***************************************************************************)
(* Proofs about the playback ring for every ring size and every set of     *)
(* frames: the ring invariant, and that the ring implements the queue.     *)
(***************************************************************************)
EXTENDS PlaybackFifo, SequenceTheorems, TLAPS

-----------------------------------------------------------------------------
(* Arithmetic modulo the size of the ring.  Every index the code computes  *)
(* is below 2 * FIFO_FRAMES before it is reduced.                          *)

\* Reducing an index that is already a slot leaves it alone.
LEMMA ModBelow ==
    ASSUME NEW N \in Nat \ {0}, NEW a \in 0..(N - 1)
    PROVE  a % N = a
  BY SMT

\* Reducing an index up to one lap too large takes the lap off.
LEMMA ModOneLap ==
    ASSUME NEW N \in Nat \ {0}, NEW a \in N..(2 * N - 1)
    PROVE  a % N = a - N
  BY SMT

\* The two cases together, for the sums of a slot and a count.
LEMMA Wrap ==
    ASSUME NEW N \in Nat \ {0}, NEW a \in 0..(2 * N - 1)
    PROVE  /\ a % N = IF a < N THEN a ELSE a - N
           /\ a % N \in 0..(N - 1)
  <1>1. CASE a < N
    <2>1. a \in 0..(N - 1)
      BY <1>1
    <2> QED  BY <1>1, <2>1, ModBelow
  <1>2. CASE ~(a < N)
    <2>1. a \in N..(2 * N - 1)
      BY <1>2
    <2>2. a - N \in 0..(N - 1)
      BY <2>1
    <2> QED  BY <1>2, <2>1, <2>2, ModOneLap
  <1> QED  BY <1>1, <1>2

\* An index reduced by at most one lap of the ring.
Lap(a) == IF a < FIFO_FRAMES THEN a ELSE a - FIFO_FRAMES

\* The form the ring needs: a slot plus a count of at most one lap.
LEMMA SlotSum ==
    \A s \in Slot : \A n \in 0..FIFO_FRAMES :
        (s + n) % FIFO_FRAMES = Lap(s + n) /\ Lap(s + n) \in Slot
  <1>1. \A s \in Slot : \A n \in 0..FIFO_FRAMES :
          s + n \in 0..(2 * FIFO_FRAMES - 1)
    BY FifoAssumption, SMT DEF Slot
  <1>2. \A a \in 0..(2 * FIFO_FRAMES - 1) :
          a % FIFO_FRAMES = Lap(a) /\ a % FIFO_FRAMES \in Slot
    BY FifoAssumption, Wrap DEF Lap, Slot
  <1> QED  BY <1>1, <1>2, Zenon

\* A full lap comes back to the slot it left.
LEMMA LapOfFullRing == \A s \in Slot : Lap(s + FIFO_FRAMES) = s
  <1> SUFFICES ASSUME NEW s \in Slot PROVE Lap(s + FIFO_FRAMES) = s
    OBVIOUS
  <1>1. s \in Nat /\ FIFO_FRAMES \in Nat
    BY FifoAssumption, SMT DEF Slot
  <1>2. ~(s + FIFO_FRAMES < FIFO_FRAMES) /\ (s + FIFO_FRAMES) - FIFO_FRAMES = s
    BY <1>1, SMT
  <1> QED  BY <1>2, Zenon DEF Lap

-----------------------------------------------------------------------------
(* The ring invariant.                                                     *)

\* The run of slots [start, start + n) is a sequence of frames.
LEMMA RunIsSeq ==
    ASSUME TypeOK, NEW start \in Nat, NEW n \in Nat, start + n <= FIFO_FRAMES
    PROVE  /\ Run(start, n) \in Seq(Frame)
           /\ Len(Run(start, n)) = n
           /\ \A i \in 1..n : Run(start, n)[i] = fifo[start + i - 1]
  <1>1. \A i \in 1..n : fifo[start + i - 1] \in Frame
    <2> SUFFICES ASSUME NEW i \in 1..n PROVE fifo[start + i - 1] \in Frame
      OBVIOUS
    <2>1. start + i - 1 \in Slot
      BY FifoAssumption DEF Slot
    <2> QED  BY <2>1 DEF TypeOK
  <1> QED  BY <1>1, SMT DEF Run

\* The two runs that a drain of k frames makes each stay inside the ring.
LEMMA RunsStayInside ==
    ASSUME TypeOK, NEW k \in 0..level
    PROVE  /\ Contig(k) \in 0..k
           /\ tail + Contig(k) <= FIFO_FRAMES
           /\ k - Contig(k) \in 0..tail
           /\ k - Contig(k) <= FIFO_FRAMES
  BY FifoAssumption, SMT DEF TypeOK, Slot, Contig

\* The ring starts in shape, with every slot silent.
LEMMA RingInit == Init => RingInv
  <1> SUFFICES ASSUME Init PROVE RingInv
    OBVIOUS
  <1>1. 0 \in Slot
    BY FifoAssumption, SMT DEF Slot
  <1>2. TypeOK
    <2>1. level \in 0..FIFO_FRAMES
      BY FifoAssumption, SMT DEF Init
    <2> QED  BY <1>1, <2>1, SilenceAssumption DEF Init, TypeOK
  <1>3. RingShape
    <2>1. 0 % FIFO_FRAMES = 0
      BY <1>1, FifoAssumption, ModBelow DEF Slot
    <2>2. tail + level = 0
      BY DEF Init
    <2> QED  BY <2>1, <2>2 DEF Init, RingShape
  <1> QED  BY <1>2, <1>3 DEF RingInv

\* Every handler keeps the ring in shape.
LEMMA RingStep == RingInv /\ [Next]_vars => RingInv'
  <1> SUFFICES ASSUME RingInv, [Next]_vars PROVE RingInv'
    OBVIOUS
  <1> USE DEF RingInv
  <1>t. /\ head \in Slot /\ tail \in Slot /\ level \in 0..FIFO_FRAMES
        /\ 0 \in Slot /\ 1 \in 0..FIFO_FRAMES
    BY FifoAssumption, SMT DEF TypeOK, Slot
  <1>h. head = Lap(tail + level)
    <2>1. (tail + level) % FIFO_FRAMES = Lap(tail + level)
      BY <1>t, SlotSum, Zenon
    <2> QED  BY <2>1, Zenon DEF RingShape
  <1>n. \A s \in Slot :
          /\ (s + 1) % FIFO_FRAMES = Lap(s + 1)
          /\ (s + 1) % FIFO_FRAMES \in Slot
    BY <1>t, SlotSum, Zenon
  <1>1. ASSUME NEW f \in Frame, Push(f) PROVE RingInv'
    <2>1. /\ head' = Lap(head + 1)
          /\ head' \in Slot
      BY <1>1, <1>t, <1>n, Zenon DEF Push
    <2>2. /\ tail' \in Slot
          /\ Full => tail' = Lap(tail + 1)
          /\ ~Full => tail' = tail
      BY <1>1, <1>t, <1>n, Zenon DEF Push, TailAfterPush
    <2>3. level' = IF Full THEN FIFO_FRAMES ELSE level + 1
      BY <1>1, <1>t, FifoAssumption, SMT DEF Push, Full
    <2>4. level' \in 0..FIFO_FRAMES
      BY <1>t, <2>3, FifoAssumption, SMT DEF Full
    <2>5. fifo' \in [Slot -> Frame]
      BY <1>1 DEF Push, Store, TypeOK
    <2>6. posrFU' \in BOOLEAN /\ written' \in Seq(Frame)
      BY <1>1 DEF Push, TypeOK
    <2>7. TypeOK'
      BY <2>1, <2>2, <2>4, <2>5, <2>6 DEF TypeOK, Slot
    <2>8. head' = Lap(tail' + level')
      <3>1. CASE Full
        <4>1. head = tail /\ tail' = head' /\ level' = FIFO_FRAMES
          BY <1>t, <1>h, <2>1, <2>2, <2>3, <3>1, FifoAssumption, SMT
          DEF Lap, Full, Slot
        <4>2. Lap(tail' + FIFO_FRAMES) = tail'
          BY <2>2, LapOfFullRing, Zenon
        <4> QED  BY <4>1, <4>2
      <3>2. CASE ~Full
        <4>1. tail' = tail /\ level' = level + 1 /\ level < FIFO_FRAMES
          BY <1>t, <2>2, <2>3, <3>2, FifoAssumption, SMT DEF Full
        <4> QED  BY <1>t, <1>h, <2>1, <4>1, FifoAssumption, SMT DEF Lap, Slot
      <3> QED  BY <3>1, <3>2
    <2>9. (tail' + level') % FIFO_FRAMES = Lap(tail' + level')
      BY <2>2, <2>4, SlotSum, Zenon
    <2> QED  BY <2>7, <2>8, <2>9, Zenon DEF RingShape
  <1>2. ASSUME NEW k \in 0..level, Drain(k) PROVE RingInv'
    <2>1. written' \in Seq(Frame)
      <3>1. /\ Contig(k) \in Nat /\ k - Contig(k) \in Nat
            /\ tail \in Nat /\ 0 \in Nat
            /\ tail + Contig(k) <= FIFO_FRAMES
            /\ 0 + (k - Contig(k)) <= FIFO_FRAMES
        BY <1>t, FifoAssumption, SMT DEF Slot, Contig
      <3>2. Run(tail, Contig(k)) \in Seq(Frame)
        BY <3>1, RunIsSeq
      <3>3. Run(0, k - Contig(k)) \in Seq(Frame)
        BY <3>1, RunIsSeq
      <3> QED  BY <1>2, <3>2, <3>3, ConcatProperties DEF Drain
    <2>2. k \in 0..FIFO_FRAMES /\ level - k \in 0..FIFO_FRAMES
      BY <1>t, FifoAssumption, SMT
    <2>3. /\ tail' = Lap(tail + k)
          /\ tail' \in Slot
      <3>1. tail' = (tail + k) % FIFO_FRAMES
        BY <1>2 DEF Drain
      <3>2. /\ (tail + k) % FIFO_FRAMES = Lap(tail + k)
            /\ (tail + k) % FIFO_FRAMES \in Slot
        BY <1>t, <2>2, SlotSum, Zenon
      <3> QED  BY <3>1, <3>2, Zenon
    <2>4. /\ level' = level - k /\ level' \in 0..FIFO_FRAMES
          /\ head' = head /\ fifo' = fifo /\ posrFU' = posrFU
      BY <1>2, <2>2 DEF Drain
    <2>5. TypeOK'
      BY <2>1, <2>3, <2>4 DEF TypeOK, Slot
    <2>6. head' = Lap(tail' + level')
      <3>1. CASE tail + k < FIFO_FRAMES
        BY <1>t, <1>h, <2>2, <2>3, <2>4, <3>1, FifoAssumption, SMT DEF Lap, Slot
      <3>2. CASE ~(tail + k < FIFO_FRAMES)
        BY <1>t, <1>h, <2>2, <2>3, <2>4, <3>2, FifoAssumption, SMT DEF Lap, Slot
      <3> QED  BY <3>1, <3>2
    <2>7. (tail' + level') % FIFO_FRAMES = Lap(tail' + level')
      BY <2>3, <2>4, SlotSum, Zenon
    <2> QED  BY <2>5, <2>6, <2>7, Zenon DEF RingShape
  <1>3. ASSUME ClearStatus PROVE RingInv'
    BY <1>3 DEF ClearStatus, TypeOK, RingShape, Slot
  <1>4. ASSUME Reset PROVE RingInv'
    <2>1. TypeOK'
      <3>1. level' \in 0..FIFO_FRAMES
        BY <1>4, FifoAssumption, SMT DEF Reset
      <3> QED  BY <1>4, <1>t, <3>1 DEF Reset, TypeOK, Slot
    <2>2. RingShape'
      <3>1. 0 % FIFO_FRAMES = 0
        BY <1>t, FifoAssumption, ModBelow DEF Slot
      <3>2. tail' + level' = 0
        BY <1>4 DEF Reset
      <3> QED  BY <1>4, <3>1, <3>2 DEF Reset, RingShape
    <2> QED  BY <2>1, <2>2
  <1>5. ASSUME UNCHANGED vars PROVE RingInv'
    BY <1>5 DEF vars, TypeOK, RingShape, Slot
  <1> QED  BY <1>1, <1>2, <1>3, <1>4, <1>5 DEF Next

\* The ring invariant holds in every state of the playback path: the indices
\* stay inside the array and the three counters agree (push_frame, drain).
THEOREM RingIsWellFormed == Spec => []RingInv
  BY RingInit, RingStep, PTL DEF Spec

\* In particular the head is always level slots past the tail.
THEOREM HeadFollowsTail == Spec => []RingShape
  <1>1. RingInv => RingShape
    BY DEF RingInv
  <1> QED  BY <1>1, RingIsWellFormed, PTL

-----------------------------------------------------------------------------
(* The ring implements the queue.                                          *)

\* The queue a ring in shape stands for, with its indices reduced by hand.
QueuedShape == /\ Queued \in Seq(Frame)
               /\ Len(Queued) = level
               /\ \A i \in 1..level : Queued[i] = fifo[Lap(tail + (i - 1))]

LEMMA QueuedFrames == RingInv => QueuedShape
  <1> SUFFICES ASSUME RingInv PROVE QueuedShape
    OBVIOUS
  <1>1. \A i \in 1..level :
          /\ (tail + (i - 1)) % FIFO_FRAMES = Lap(tail + (i - 1))
          /\ Lap(tail + (i - 1)) \in Slot
    <2> SUFFICES ASSUME NEW i \in 1..level
                 PROVE  /\ (tail + (i - 1)) % FIFO_FRAMES = Lap(tail + (i - 1))
                        /\ Lap(tail + (i - 1)) \in Slot
      OBVIOUS
    <2>1. i - 1 \in 0..FIFO_FRAMES /\ tail \in Slot
      BY FifoAssumption, SMT DEF RingInv, TypeOK
    <2> QED  BY <2>1, SlotSum, Zenon
  <1>2. Queued = [i \in 1..level |-> fifo[Lap(tail + (i - 1))]]
    BY <1>1, Zenon DEF Queued
  <1>3. \A i \in 1..level : fifo[Lap(tail + (i - 1))] \in Frame
    BY <1>1 DEF RingInv, TypeOK
  <1>4. level \in Nat
    BY FifoAssumption, SMT DEF RingInv, TypeOK
  <1> QED  BY <1>2, <1>3, <1>4, SMT DEF QueuedShape

\* The same of the next state.
LEMMA QueuedFramesNext == RingInv' => QueuedShape'
  BY QueuedFrames, PTL

\* A push appends to the queue, after dropping its oldest frame if full.
LEMMA PushImplements ==
    ASSUME RingInv, RingInv', NEW f \in Frame, Push(f)
    PROVE  Abstract!Push(f)
  <1>t. /\ head \in Slot /\ tail \in Slot /\ level \in 0..FIFO_FRAMES
        /\ fifo \in [Slot -> Frame] /\ FIFO_FRAMES \in Nat \ {0}
    BY FifoAssumption DEF RingInv, TypeOK
  <1>q. QueuedShape
    BY QueuedFrames
  <1>n. QueuedShape'
    BY QueuedFramesNext
  <1>h. head = Lap(tail + level)
    BY <1>t, SlotSum, Zenon DEF RingInv, RingShape
  <1>f. fifo' = [fifo EXCEPT ![head] = f]
    BY DEF Push, Store
  <1>1. CASE ~Full
    <2>1. tail' = tail /\ level' = level + 1 /\ level < FIFO_FRAMES
      BY <1>1, <1>t, SMT DEF Push, Full, TailAfterPush
    <2> DEFINE q == Append(Queued, f)
    <2>2. /\ q \in Seq(Frame) /\ Len(q) = level + 1
          /\ \A i \in 1..level : q[i] = Queued[i]
          /\ q[level + 1] = f
      BY <1>q, AppendProperties DEF QueuedShape
    <2> HIDE DEF q
    <2>3. \A i \in 1..(level + 1) : Queued'[i] = fifo'[Lap(tail + (i - 1))]
      BY <1>n, <2>1 DEF QueuedShape
    <2>4. \A i \in 1..level : Lap(tail + (i - 1)) \in Slot \ {head}
      BY <1>t, <1>h, <2>1, SMT DEF Lap, Slot
    <2>5. \A i \in 1..level : Queued'[i] = q[i]
      BY <1>t, <1>q, <1>f, <2>2, <2>3, <2>4, SMT DEF QueuedShape
    <2>6. Queued'[level + 1] = f
      <3>1. level + 1 \in 1..(level + 1) /\ (level + 1) - 1 = level
        BY <1>t, SMT
      <3> QED  BY <1>t, <1>f, <1>h, <2>3, <3>1
    <2>7. \A i \in 1..(level + 1) : Queued'[i] = q[i]
      BY <1>t, <2>2, <2>5, <2>6, SMT
    <2>8. Queued' = q
      BY <1>n, <2>1, <2>2, <2>7, SeqEqual DEF QueuedShape
    <2> QED  BY <1>1, <1>q, <2>8 DEF q, Abstract!Push, Push, Full, QueuedShape
  <1>2. CASE Full
    <2>1. head = tail /\ level = FIFO_FRAMES /\ level' = FIFO_FRAMES
      BY <1>2, <1>t, <1>h, SMT DEF Push, Full, Lap, Slot
    <2>2. tail' = Lap(tail + 1)
      <3>1. 1 \in 0..FIFO_FRAMES
        BY <1>t
      <3> QED  BY <1>2, <1>t, <3>1, SlotSum, Zenon DEF Push, TailAfterPush
    <2> DEFINE t == Tail(Queued)
    <2>3. /\ t \in Seq(Frame) /\ Len(t) = FIFO_FRAMES - 1
          /\ \A i \in 1..(FIFO_FRAMES - 1) : t[i] = Queued[i + 1]
      <3>1. Queued # <<>>
        BY <1>q, <1>t, <2>1, SMT DEF QueuedShape
      <3> QED  BY <3>1, <1>q, <2>1, HeadTailProperties DEF QueuedShape
    <2> HIDE DEF t
    <2> DEFINE q == Append(t, f)
    <2>4. /\ q \in Seq(Frame) /\ Len(q) = (FIFO_FRAMES - 1) + 1
          /\ \A i \in 1..(FIFO_FRAMES - 1) : q[i] = t[i]
          /\ q[(FIFO_FRAMES - 1) + 1] = f
      BY <2>3, AppendProperties
    <2> HIDE DEF q
    <2>5. \A i \in 1..(FIFO_FRAMES - 1) :
            Lap(tail' + (i - 1)) = Lap(tail + i) /\ Lap(tail + i) \in Slot \ {head}
      BY <1>t, <2>1, <2>2, SMT DEF Lap, Slot
    <2>6. \A i \in 1..(FIFO_FRAMES - 1) : Queued'[i] = q[i]
      <3> SUFFICES ASSUME NEW i \in 1..(FIFO_FRAMES - 1) PROVE Queued'[i] = q[i]
        OBVIOUS
      <3>1. i \in 1..level' /\ i + 1 \in 1..level /\ (i + 1) - 1 = i
        BY <1>t, <2>1, SMT
      <3>2. Queued'[i] = fifo'[Lap(tail + i)]
        BY <1>n, <2>5, <3>1 DEF QueuedShape
      <3>3. Queued[i + 1] = fifo[Lap(tail + i)]
        BY <1>q, <3>1, Zenon DEF QueuedShape
      <3> QED  BY <1>t, <1>f, <2>3, <2>4, <2>5, <3>2, <3>3
    <2>7. Queued'[FIFO_FRAMES] = f
      <3>1. FIFO_FRAMES \in 1..level'
        BY <1>t, <2>1, SMT
      <3>2. Lap(tail' + (FIFO_FRAMES - 1)) = head
        BY <1>t, <2>1, <2>2, SMT DEF Lap, Slot
      <3> QED  BY <1>n, <1>t, <1>f, <3>1, <3>2 DEF QueuedShape
    <2>8. \A i \in 1..FIFO_FRAMES : Queued'[i] = q[i]
      BY <1>t, <2>4, <2>6, <2>7, SMT
    <2>9. Queued' = q
      BY <1>n, <1>t, <2>1, <2>4, <2>8, SeqEqual, SMT DEF QueuedShape
    <2> QED  BY <1>2, <1>q, <2>9
             DEF q, t, Abstract!Push, Push, Full, QueuedShape
  <1> QED  BY <1>1, <1>2

\* A drain of k frames plays the k oldest, in order, across the ring's end.
LEMMA DrainImplements ==
    ASSUME RingInv, RingInv', NEW k \in 0..level, Drain(k)
    PROVE  Abstract!Play(k)
  <1>t. /\ tail \in Slot /\ level \in 0..FIFO_FRAMES /\ k \in 0..FIFO_FRAMES
        /\ TypeOK /\ FIFO_FRAMES \in Nat \ {0}
    BY FifoAssumption, SMT DEF RingInv, TypeOK
  <1>q. QueuedShape
    BY QueuedFrames
  <1>n. QueuedShape'
    BY QueuedFramesNext
  <1>d. /\ level' = level - k /\ fifo' = fifo /\ posrFU' = posrFU
        /\ tail' = Lap(tail + k)
    BY <1>t, SlotSum, Zenon DEF Drain
  <1>1. written' = SubSeq(Queued, 1, k)
    <2> DEFINE c == Contig(k)
               first == Run(tail, c)
               second == Run(0, k - c)
               out == first \o second
    <2>1. /\ c \in 0..k /\ c \in Nat /\ k - c \in Nat /\ tail \in Nat
          /\ tail + c <= FIFO_FRAMES /\ 0 + (k - c) <= FIFO_FRAMES
          /\ c < k => tail + c = FIFO_FRAMES
      BY <1>t, SMT DEF Contig, Slot
    <2> HIDE DEF c
    <2>2. /\ first \in Seq(Frame) /\ Len(first) = c
          /\ \A i \in 1..c : first[i] = fifo[tail + i - 1]
      BY <1>t, <2>1, RunIsSeq
    <2>3. /\ second \in Seq(Frame) /\ Len(second) = k - c
          /\ \A i \in 1..(k - c) : second[i] = fifo[0 + i - 1]
      BY <1>t, <2>1, RunIsSeq
    <2> HIDE DEF first, second
    <2>4. /\ out \in Seq(Frame) /\ Len(out) = c + (k - c)
          /\ \A i \in 1..(c + (k - c)) :
                out[i] = IF i <= c THEN first[i] ELSE second[i - c]
      BY <2>2, <2>3, ConcatProperties
    <2>5. written' = out
      BY DEF Drain, out, first, second, c
    <2> HIDE DEF out
    <2> DEFINE prefix == SubSeq(Queued, 1, k)
    <2>6. /\ prefix \in Seq(Frame) /\ Len(prefix) = k
          /\ \A i \in 1..k : prefix[i] = Queued[i]
      <3>1. \A i \in 1..k : Queued[i] \in Frame
        BY <1>q, <1>t, ElementOfSeq, SMT DEF QueuedShape
      <3> QED  BY <1>t, <3>1, SubSeqProperties, SMT
    <2> HIDE DEF prefix
    <2>7. \A i \in 1..k : out[i] = prefix[i]
      <3> SUFFICES ASSUME NEW i \in 1..k PROVE out[i] = prefix[i]
        OBVIOUS
      <3>1. prefix[i] = fifo[Lap(tail + (i - 1))]
        BY <1>t, <1>q, <2>6, SMT DEF QueuedShape
      <3>2. CASE i <= c
        <4>1. out[i] = fifo[tail + i - 1]
          BY <1>t, <2>1, <2>2, <2>4, <3>2, SMT
        <4>2. Lap(tail + (i - 1)) = tail + i - 1
          BY <1>t, <2>1, <3>2, SMT DEF Lap, Slot
        <4> QED  BY <3>1, <4>1, <4>2
      <3>3. CASE ~(i <= c)
        <4>1. out[i] = fifo[0 + (i - c) - 1]
          <5>1. i - c \in 1..(k - c) /\ i \in 1..(c + (k - c))
            BY <1>t, <2>1, <3>3, SMT
          <5>2. out[i] = second[i - c]
            BY <2>4, <3>3, <5>1, Zenon
          <5> QED  BY <2>3, <5>1, <5>2, Zenon
        <4>2. Lap(tail + (i - 1)) = 0 + (i - c) - 1
          BY <1>t, <2>1, <3>3, SMT DEF Lap, Slot
        <4> QED  BY <3>1, <4>1, <4>2
      <3> QED  BY <3>2, <3>3
    <2>8. Len(out) = Len(prefix)
      BY <1>t, <2>1, <2>4, <2>6, SMT
    <2>9. out = prefix
      BY <2>4, <2>6, <2>7, <2>8, SeqEqual
    <2> QED  BY <2>5, <2>9 DEF prefix
  <1>2. Queued' = SubSeq(Queued, k + 1, Len(Queued))
    <2> DEFINE rest == SubSeq(Queued, k + 1, level)
    <2>1. /\ rest \in Seq(Frame) /\ Len(rest) = level - k
          /\ \A i \in 1..(level - k) : rest[i] = Queued[k + i]
      <3>1. \A i \in (k + 1)..level : Queued[i] \in Frame
        BY <1>q, <1>t, ElementOfSeq, SMT DEF QueuedShape
      <3> QED  BY <1>t, <3>1, SubSeqProperties, SMT
    <2> HIDE DEF rest
    <2>2. \A i \in 1..(level - k) : Queued'[i] = rest[i]
      <3> SUFFICES ASSUME NEW i \in 1..(level - k) PROVE Queued'[i] = rest[i]
        OBVIOUS
      <3>1. k + i \in 1..level /\ (k + i) - 1 = k + (i - 1)
        BY <1>t, SMT
      <3>2. rest[i] = fifo[Lap(tail + ((k + i) - 1))]
        BY <1>q, <2>1, <3>1, Zenon DEF QueuedShape
      <3>3. Queued'[i] = fifo[Lap(tail' + (i - 1))]
        BY <1>n, <1>d DEF QueuedShape
      <3>4. Lap(tail' + (i - 1)) = Lap(tail + ((k + i) - 1))
        BY <1>t, <1>d, SMT DEF Lap, Slot
      <3> QED  BY <3>2, <3>3, <3>4
    <2>3. Queued' = rest
      BY <1>n, <1>d, <2>1, <2>2, SeqEqual DEF QueuedShape
    <2> QED  BY <1>q, <2>3 DEF rest, QueuedShape
  <1> QED  BY <1>1, <1>2, <1>d DEF Abstract!Play

\* A handler that leaves the ring alone leaves the queue alone.
LEMMA QueuedUnchanged ==
    ASSUME UNCHANGED <<fifo, tail, level>> PROVE Queued' = Queued
  BY DEF Queued

\* The ring of pxa2xx_ac97.c implements the queue its guest and its host rely
\* on: an empty queue at the start, and one queue operation, or none, a step.
THEOREM RingImplementsQueue == Spec => ImplementsQueue
  <1>1. Init => Abstract!Init
    <2> SUFFICES ASSUME Init PROVE Abstract!Init
      OBVIOUS
    <2>1. QueuedShape
      BY RingInit, QueuedFrames
    <2>2. Queued = <<>>
      BY <2>1, EmptySeq, SMT DEF Init, QueuedShape
    <2> QED  BY <2>2 DEF Init, Abstract!Init
  <1>2. RingInv /\ RingInv' /\ [Next]_vars => [Abstract!Next]_(Abstract!vars)
    <2> SUFFICES ASSUME RingInv, RingInv', [Next]_vars
                 PROVE  [Abstract!Next]_(Abstract!vars)
      OBVIOUS
    <2>1. CASE \E f \in Frame : Push(f)
      BY <2>1, PushImplements DEF Abstract!Next
    <2>2. CASE \E k \in 0..level : Drain(k)
      <3>1. Len(Queued) = level
        BY QueuedFrames DEF QueuedShape
      <3> QED  BY <2>2, <3>1, DrainImplements DEF Abstract!Next
    <2>3. CASE ClearStatus
      BY <2>3, QueuedUnchanged
      DEF ClearStatus, Abstract!Next, Abstract!Acknowledge
    <2>4. CASE Reset
      <3>1. QueuedShape'
        BY QueuedFramesNext
      <3>2. Queued' = <<>>
        BY <2>4, <3>1, EmptySeq, SMT DEF Reset, QueuedShape
      <3> QED  BY <2>4, <3>2 DEF Reset, Abstract!Next, Abstract!Clear
    <2>5. CASE UNCHANGED vars
      BY <2>5, QueuedUnchanged DEF vars, Abstract!vars
    <2> QED  BY <2>1, <2>2, <2>3, <2>4, <2>5 DEF Next
  <1> QED
    BY <1>1, <1>2, RingIsWellFormed, PTL
    DEF Spec, ImplementsQueue, Abstract!Spec
=============================================================================
