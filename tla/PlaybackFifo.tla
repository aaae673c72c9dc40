----------------------------- MODULE PlaybackFifo -----------------------------
(***************************************************************************)
(* The playback ring of pxa2xx_ac97.c: fifo, fifo_head, fifo_tail and      *)
(* fifo_level, written by the guest through PCDR and emptied by the host   *)
(* audio callback.  The Aux DAC's ring (aux_fifo, aux_head, aux_tail,      *)
(* aux_level, fed through MODR) is the same code with 16-bit mono samples  *)
(* and MOSR in the place of POSR, so this module stands for both.          *)
(*                                                                         *)
(* Every handler runs under QEMU's big lock, so each is one action.        *)
(***************************************************************************)
EXTENDS Integers, Sequences

CONSTANTS FIFO_FRAMES,  \* slots in the ring (4096 in the source)
          Frame,        \* frames a guest may write
          Silence       \* the frame a zeroed slot holds

ASSUME FifoAssumption == FIFO_FRAMES \in Nat \ {0}
ASSUME SilenceAssumption == Silence \in Frame

VARIABLES fifo,      \* the slots
          head,      \* fifo_head: next slot to write
          tail,      \* fifo_tail: next slot to read
          level,     \* fifo_level: frames currently queued
          posrFU,    \* bit 4 of POSR (MOSR for the Aux DAC)
          written    \* frames AUD_write took in the last callback

vars == <<fifo, head, tail, level, posrFU, written>>

Slot == 0..(FIFO_FRAMES - 1)

TypeOK == /\ fifo \in [Slot -> Frame]
          /\ head \in Slot
          /\ tail \in Slot
          /\ level \in 0..FIFO_FRAMES
          /\ posrFU \in BOOLEAN
          /\ written \in Seq(Frame)

Init == /\ fifo = [s \in Slot |-> Silence]
        /\ head = 0
        /\ tail = 0
        /\ level = 0
        /\ posrFU = FALSE
        /\ written = <<>>
-------------------------------------------------------------------------------
\* Mutations a plausible slip in the ring arithmetic would make.
StoreAtTail(f) == [fifo EXCEPT ![tail] = f]
TailStaysOnOverrun == tail

(***************************************************************************)
(* pxa2xx_ac97_push_frame: make room first, then store at the head.        *)
(***************************************************************************)
Full == level = FIFO_FRAMES

TailAfterPush == IF Full THEN (tail + 1) % FIFO_FRAMES ELSE tail

Store(f) == [fifo EXCEPT ![head] = f]

Push(f) ==
    /\ tail' = TailAfterPush
    /\ level' = (IF Full THEN level - 1 ELSE level) + 1
    /\ posrFU' = (posrFU \/ Full)
    /\ fifo' = Store(f)
    /\ head' = (head + 1) % FIFO_FRAMES
    /\ UNCHANGED written

(***************************************************************************)
(* pxa2xx_ac97_drain: AUD_write never reads across the end of the ring, so *)
(* k frames go out as the run that ends there and then a run from slot 0.  *)
(* The host decides k: it bounds the callback by its free space and any    *)
(* AUD_write may be short.                                                 *)
(***************************************************************************)
Contig(k) == IF k <= FIFO_FRAMES - tail THEN k ELSE FIFO_FRAMES - tail

Run(start, n) == [i \in 1..n |-> fifo[start + i - 1]]

Drain(k) ==
    /\ written' = Run(tail, Contig(k)) \o Run(0, k - Contig(k))
    /\ tail' = (tail + k) % FIFO_FRAMES
    /\ level' = level - k
    /\ UNCHANGED <<fifo, head, posrFU>>

(***************************************************************************)
(* A guest write of POSR with the FU bit set: write one to clear.          *)
(***************************************************************************)
ClearStatus == /\ posrFU' = FALSE
               /\ UNCHANGED <<fifo, head, tail, level, written>>

(***************************************************************************)
(* pxa2xx_ac97_reset_hold rewinds the ring; the slots keep their contents. *)
(***************************************************************************)
Reset == /\ head' = 0
         /\ tail' = 0
         /\ level' = 0
         /\ posrFU' = FALSE
         /\ UNCHANGED <<fifo, written>>

Next == \/ \E f \in Frame : Push(f)
        \/ \E k \in 0..level : Drain(k)
        \/ ClearStatus
        \/ Reset

Spec == Init /\ [][Next]_vars
-------------------------------------------------------------------------------
\* The three counters describe one ring: the head is level slots past the
\* tail, whatever mix of overruns, partial drains and resets came before.
RingShape == head = (tail + level) % FIFO_FRAMES

\* The inductive invariant of the ring.
RingInv == TypeOK /\ RingShape

\* The frames between tail and head, oldest first.
Queued == [i \in 1..level |-> fifo[(tail + (i - 1)) % FIFO_FRAMES]]

Abstract == INSTANCE DropOldestQueue
              WITH Capacity <- FIFO_FRAMES, queue <- Queued, overrun <- posrFU

\* The ring plays the guest's frames in order, each once, and gives up only
\* the oldest, and only with FU set: the wrap at the end of the array and the
\* split AUD_write runs are invisible.
ImplementsQueue == Abstract!Spec
===============================================================================
