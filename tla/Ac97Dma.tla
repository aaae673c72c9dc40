------------------------------- MODULE Ac97Dma -------------------------------
(***************************************************************************)
(* The AC97 controller and the PXA2xx DMA engine that feeds it.            *)
(*                                                                         *)
(* qemu_set_irq is a function call: raising a request line runs the DMA    *)
(* engine at once, inside pxa2xx_ac97_update_dma, and every frame it moves *)
(* is a PCDR or MODR write whose handler updates the lines again.  The     *)
(* outer call then goes on with the wants it computed before.  Here the    *)
(* update is as many steps as the code takes, after each of the handlers   *)
(* of module Ac97 that ends with it.                                       *)
(*                                                                         *)
(* QEMU's DMA engine is modelled from what this device needs of it: it     *)
(* latches a request only once the guest has mapped it (DRCMR_MAPVLD),     *)
(* moves whole bursts while the latch is set, and does not run twice at    *)
(* once, so a line that changes during a run changes only the latch.       *)
(*                                                                         *)
(* The guest keeps to what its driver does: one channel per DAC, mapped    *)
(* before it is started and while it runs, and a link that is brought up   *)
(* before any channel is started (it may go down at any time).             *)
(***************************************************************************)
EXTENDS Ac97

CONSTANTS FIFO_REFILL_THRESHOLD,   \* free frames that raise the request (64)
          Burst,      \* frames the engine moves at a time (32 bytes: 8 words)
          MaxWork     \* bound: frames in one descriptor

ASSUME ThresholdAssumption == FIFO_REFILL_THRESHOLD \in Nat \ {0}
ASSUME BurstAssumption == Burst \in Nat \ {0} /\ MaxWork \in Nat \ {0}

\* A burst that was under way when the line fell and one more that a stale
\* request lets through have to fit above the refill threshold, in the ring.
ASSUME HeadroomAssumption == /\ 2 * Burst <= FIFO_REFILL_THRESHOLD
                             /\ FIFO_REFILL_THRESHOLD <= FIFO_FRAMES

VARIABLES line,       \* the DMA request lines, as last driven
          refresh,    \* the dma_refresh timer is armed
          phase,      \* where update_dma is: "idle" outside of it; "tx" and
                      \* "aux" inside the call that drives that line; "dma"
                      \* while the engine runs for the guest's own start
          want,       \* want_aux and link_up of the outer update_dma
          engine,     \* the engine is running
          mapped,     \* the guest has mapped this DAC's request to its channel
          running,    \* the channel is started
          left,       \* frames left in its descriptor
          request     \* the engine's latch of the request line

requests == <<line, refresh>>
dmaVars == <<mapped, running, left, request>>
dvars == <<vars, requests, phase, want, engine, dmaVars>>

DmaTypeOK ==
    /\ TypeOK
    /\ line \in [DAC -> BOOLEAN]
    /\ refresh \in BOOLEAN
    /\ phase \in {"idle", "tx", "aux", "dma"}
    /\ want \in [aux : BOOLEAN, link : BOOLEAN]
    /\ engine \in BOOLEAN
    /\ mapped \in [DAC -> BOOLEAN]
    /\ running \in [DAC -> BOOLEAN]
    /\ left \in [DAC -> 0..MaxWork]
    /\ request \in [DAC -> BOOLEAN]

NoWant == [aux |-> FALSE, link |-> FALSE]

DmaInit == /\ Init
           /\ line = [d \in DAC |-> FALSE] /\ refresh = FALSE
           /\ phase = "idle" /\ want = NoWant /\ engine = FALSE
           /\ mapped = [d \in DAC |-> FALSE]
           /\ running = [d \in DAC |-> FALSE]
           /\ left = [d \in DAC |-> 0]
           /\ request = [d \in DAC |-> FALSE]

LinkUp(g) == /\ "ACLINK_OFF" \notin g
             /\ "nDMAEN" \notin g
             /\ g \cap {"COLD_RST", "WARM_RST"} # {}

\* Mutation: any free frame raises the request.
WantsAnyRoom(g, n) == LinkUp(g) /\ FIFO_FRAMES - n > 0

WantsFrames(g, n) == LinkUp(g) /\ FIFO_FRAMES - n >= FIFO_REFILL_THRESHOLD
------------------------------------------------------------------------------
(* The engine.                                                             *)

Ready(d) == running[d] /\ request[d] /\ left[d] > 0

EngineBusy == engine /\ \E d \in DAC : Ready(d)

\* The engine sees a line only through a mapped request.
Latched(d, on) == IF mapped[d] THEN on ELSE request[d]

BurstSize(d) == IF left[d] < Burst THEN left[d] ELSE Burst

\* One burst: its frames go through the data register, each followed by an
\* update of both lines, of which only what the last one leaves is seen.
MoveBurst(d) ==
    LET n == BurstSize(d)
        wants == [e \in DAC |-> WantsFrames(gcr, level'[e])]
    IN  /\ engine /\ Ready(d)
        /\ PushBody(d, n)
        /\ line' = wants
        /\ refresh' = LinkUp(gcr)
        /\ request' = [e \in DAC |-> Latched(e, wants[e])]
        /\ left' = [left EXCEPT ![d] = @ - n]
        /\ running' = [running EXCEPT ![d] = left[d] > n]
        /\ UNCHANGED <<registers, irq, phase, want, engine, mapped>>
------------------------------------------------------------------------------
(* pxa2xx_ac97_update_dma, in the order it drives its lines.               *)

\* Both wants are taken first; the PCM line is driven.
DriveTxFrom(lines) ==
    LET on == WantsFrames(gcr', level'["pcm"]) IN
    /\ want' = [aux |-> WantsFrames(gcr', level'["aux"]), link |-> LinkUp(gcr')]
    /\ line' = [lines EXCEPT !["pcm"] = on]
    /\ request' = [request EXCEPT !["pcm"] = Latched("pcm", on)]
    /\ engine' = (on /\ mapped["pcm"])
    /\ phase' = "tx"
    /\ UNCHANGED <<refresh, mapped, running, left>>

DriveTx == DriveTxFrom(line)

\* The Aux line is driven by the want of before the PCM line's run.
DriveAux ==
    /\ phase = "tx" /\ ~EngineBusy
    /\ line' = [line EXCEPT !["aux"] = want.aux]
    /\ request' = [request EXCEPT !["aux"] = Latched("aux", want.aux)]
    /\ engine' = (want.aux /\ mapped["aux"])
    /\ phase' = "aux"
    /\ UNCHANGED <<vars, refresh, want, mapped, running, left>>

\* Mutations: the timer is never cancelled, or never armed.
TimerStaysArmed == refresh \/ want.link
TimerStaysOff == FALSE

TimerArmed == want.link

\* The timer is armed or cancelled, and the handler returns.
SetTimer ==
    /\ phase = "aux" /\ ~EngineBusy
    /\ refresh' = TimerArmed
    /\ phase' = "idle" /\ engine' = FALSE /\ want' = NoWant
    /\ UNCHANGED <<vars, line, dmaVars>>
------------------------------------------------------------------------------
(* The handlers that end in an update.                                     *)

Driven(d) == running[d] /\ left[d] > 0

\* Mutation: the write takes the link down and leaves the lines.
DmaWriteGcrForgets(g) ==
    /\ phase = "idle"
    /\ LinkUp(g) => \A d \in DAC : ~Driven(d)
    /\ WriteGcr(g)
    /\ UNCHANGED <<requests, phase, want, engine, dmaVars>>

DmaWriteGcr(g) ==
    /\ phase = "idle"
    /\ LinkUp(g) => \A d \in DAC : ~Driven(d)
    /\ WriteGcr(g)
    /\ DriveTx

\* A write of POCR stores a value nothing reads.
DmaWritePocr ==
    /\ phase = "idle"
    /\ UNCHANGED vars
    /\ DriveTx

\* Mutation: the callback makes room and does not drive the lines.
DmaCallbackForgets(d, k) ==
    /\ phase = "idle"
    /\ Callback(d, k)
    /\ UNCHANGED <<requests, phase, want, engine, dmaVars>>

DmaCallback(d, k) ==
    /\ phase = "idle"
    /\ Callback(d, k)
    /\ DriveTx

DmaRefresh ==
    /\ phase = "idle"
    /\ refresh
    /\ UNCHANGED vars
    /\ DriveTx

\* A snapshot is loaded, by this process or a new one.  The engine's own fields
\* and the timer are in it; what the lines were last driven to is not, so it is
\* that of the loading process, whose reset has taken them down.  post_load tells
\* the host of the voices after the update; the engine's frames wake a voice
\* (flag and host alike) whichever comes first.
DmaLoad ==
    /\ phase = "idle"
    /\ Restore
    /\ DriveTxFrom([d \in DAC |-> FALSE])

\* The guest's writes of the DMA controller.
Map(d) ==
    /\ phase = "idle" /\ ~mapped[d]
    /\ mapped' = [mapped EXCEPT ![d] = TRUE]
    /\ UNCHANGED <<vars, requests, phase, want, engine, running, left, request>>

Unmap(d) ==
    /\ phase = "idle" /\ mapped[d] /\ ~running[d]
    /\ mapped' = [mapped EXCEPT ![d] = FALSE]
    /\ UNCHANGED <<vars, requests, phase, want, engine, running, left, request>>

Start(d, n) ==
    /\ phase = "idle" /\ mapped[d] /\ ~running[d] /\ LinkUp(gcr)
    /\ running' = [running EXCEPT ![d] = TRUE]
    /\ left' = [left EXCEPT ![d] = n]
    /\ engine' = TRUE /\ phase' = "dma"
    /\ UNCHANGED <<vars, requests, want, mapped, request>>

StartReturns ==
    /\ phase = "dma" /\ ~EngineBusy
    /\ engine' = FALSE /\ phase' = "idle"
    /\ UNCHANGED <<vars, requests, want, dmaVars>>

Stop(d) ==
    /\ phase = "idle" /\ running[d]
    /\ running' = [running EXCEPT ![d] = FALSE]
    /\ left' = [left EXCEPT ![d] = 0]
    /\ UNCHANGED <<vars, requests, phase, want, engine, mapped, request>>

\* A machine reset reaches both devices.
DmaReset ==
    /\ phase = "idle"
    /\ Reset
    /\ line' = [d \in DAC |-> FALSE] /\ refresh' = FALSE
    /\ mapped' = [d \in DAC |-> FALSE]
    /\ running' = [d \in DAC |-> FALSE]
    /\ left' = [d \in DAC |-> 0]
    /\ request' = [d \in DAC |-> FALSE]
    /\ UNCHANGED <<phase, want, engine>>

Engine == \E d \in DAC : MoveBurst(d)

UpdateSteps == Engine \/ DriveAux \/ SetTimer \/ StartReturns

Guest == \/ \E g \in GcrWrites : DmaWriteGcr(g)
         \/ DmaWritePocr
         \/ \E d \in DAC : Map(d) \/ Unmap(d) \/ Stop(d)
         \/ \E d \in DAC : \E n \in 1..MaxWork : Start(d, n)

DmaNext == \/ UpdateSteps
           \/ Guest
           \/ \E d \in DAC : \E k \in 0..level[d] : DmaCallback(d, k)
           \/ DmaRefresh
           \/ DmaLoad
           \/ DmaReset

DmaSpec == DmaInit /\ [][DmaNext]_dvars

(***************************************************************************)
(* Fairness.  A handler runs to its end; the audio backend goes on taking  *)
(* frames from a voice it was told is active; and while the timer is armed *)
(* the lines are driven again and again, by the timer or by another update *)
(* that put it off (each one arms it anew).                                *)
(***************************************************************************)
HostPlays(d) == \E k \in 1..level[d] : DmaCallback(d, k)

DrivesLines == \/ DmaRefresh
               \/ \E d \in DAC : \E k \in 0..level[d] : DmaCallback(d, k)
               \/ \E g \in GcrWrites : DmaWriteGcr(g)
               \/ DmaWritePocr

DmaFairness == /\ WF_dvars(UpdateSteps)
               /\ SF_dvars(refresh /\ DrivesLines)
               /\ \A d \in DAC : SF_dvars(HostPlays(d))

DmaFairSpec == DmaSpec /\ DmaFairness
------------------------------------------------------------------------------
(* Properties.                                                             *)

\* The engine never overruns a ring: a throttled stream loses no frame, though
\* bursts end late and the Aux line may be driven by a stale want.
NoOverrun == \A d \in DAC : ~fu[d] /\ level[d] <=
                 FIFO_FRAMES - FIFO_REFILL_THRESHOLD + 2 * Burst

\* No request is lost: between handlers a DAC with room for a refill has its
\* line up, also when a snapshot has just been loaded.
RoomIsRequested ==
    phase = "idle" => \A d \in DAC : WantsFrames(gcr, level[d]) => line[d]

\* The converse, as far as the code keeps it: between handlers a request that is
\* up is of a link that is up, and of a ring with room for a refill.  The Aux
\* line is driven by the want of before the PCM line's run, so its ring may have
\* taken one burst since; no more than one, and the PCM ring none.
RequestsHoldGood ==
    phase = "idle" =>
        \A d \in DAC : line[d] =>
            /\ LinkUp(gcr)
            /\ level[d] <= FIFO_FRAMES - FIFO_REFILL_THRESHOLD
                             + (IF d = "aux" THEN Burst ELSE 0)

\* The timer that re-presents the lines runs exactly while the link is up.
TimerFollowsLink == phase = "idle" => refresh = LinkUp(gcr)

\* A started channel is served: its descriptor completes unless the guest stops
\* it, takes the link down or resets, even if its request was first raised
\* before the guest mapped it.
StreamIsServed ==
    \A d \in DAC : (running[d] /\ LinkUp(gcr)) ~> (~running[d] \/ ~LinkUp(gcr))
==============================================================================
