--------------------------- MODULE DropOldestQueue ---------------------------
(***************************************************************************)
(* What a DAC of the AC97 unit promises the guest that writes frames to it *)
(* and the host that plays them: a queue of at most Capacity frames, played*)
(* in the order they were written.  A frame written to a full queue pushes *)
(* the oldest one out and leaves a sticky overrun flag behind.             *)
(*                                                                         *)
(* PlaybackFifo, the ring buffer of pxa2xx_ac97.c, implements this module. *)
(***************************************************************************)
EXTENDS Integers, Sequences

CONSTANTS Frame,      \* the samples a guest may write
          Capacity    \* FIFO_FRAMES

VARIABLES queue,      \* frames waiting for the host, oldest first
          overrun,    \* a frame was lost since the guest last cleared it
          written     \* what the last audio callback handed to the host

vars == <<queue, overrun, written>>

Init == /\ queue = <<>>
        /\ overrun = FALSE
        /\ written = <<>>

Push(f) ==
    /\ queue' = IF Len(queue) = Capacity THEN Append(Tail(queue), f)
                                         ELSE Append(queue, f)
    /\ overrun' = (overrun \/ Len(queue) = Capacity)
    /\ UNCHANGED written

Play(k) ==
    /\ written' = SubSeq(queue, 1, k)
    /\ queue' = SubSeq(queue, k + 1, Len(queue))
    /\ UNCHANGED overrun

Acknowledge == /\ overrun' = FALSE
               /\ UNCHANGED <<queue, written>>

Clear == /\ queue' = <<>>
         /\ overrun' = FALSE
         /\ UNCHANGED written

Next == \/ \E f \in Frame : Push(f)
        \/ \E k \in 0..Len(queue) : Play(k)
        \/ Acknowledge
        \/ Clear

Spec == Init /\ [][Next]_vars
=============================================================================
