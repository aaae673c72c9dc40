----------------------------- MODULE Ac97DmaProofs -----------------------------
(***************************************************************************)
(* Proofs about the AC97 controller while the DMA engine runs inside its   *)
(* update of the request lines, for every ring depth, threshold, burst and *)
(* descriptor: no ring is overrun, no request is lost and none outlives    *)
(* the link or the room for a refill, the timer is armed while the link is *)
(* up, and what the controller's handlers keep on their own they keep when *)
(* the engine comes in between, also while a snapshot is loaded.           *)
(***************************************************************************)
EXTENDS Ac97Dma, Ac97Proofs

\* The fullest a ring can be and still ask for a refill.
HighWater == FIFO_FRAMES - FIFO_REFILL_THRESHOLD

\* What the controller's handlers keep.
ControllerInv == VoiceInv /\ QueueInv /\ RegisterInv /\ IrqInv

EngineTypeOK == /\ line \in [DAC -> BOOLEAN]
                /\ refresh \in BOOLEAN
                /\ phase \in {"idle", "tx", "aux", "dma"}
                /\ want \in [aux : BOOLEAN, link : BOOLEAN]
                /\ engine \in BOOLEAN
                /\ mapped \in [DAC -> BOOLEAN]
                /\ running \in [DAC -> BOOLEAN]
                /\ left \in [DAC -> 0..MaxWork]
                /\ request \in [DAC -> BOOLEAN]
                /\ \A d \in DAC : running[d] => mapped[d]

\* A latch is never more stale than this: the PCM line is driven by what the
\* ring has room for, the Aux line by a want that one burst may have met.
LatchesInBounds ==
    /\ NoOverrun
    /\ request["pcm"] => level["pcm"] <= HighWater
    /\ request["aux"] => level["aux"] <= HighWater + Burst
    /\ phase = "tx" /\ want.aux => /\ level["aux"] <= HighWater + Burst
                                   /\ request["aux"] => level["aux"] <= HighWater

\* A line that is up is of a link that is up and a ring with room; while the PCM
\* line's run is under way that holds of the want the Aux line will be driven by.
LinesInBounds ==
    /\ line["pcm"] => LinkUp(gcr) /\ level["pcm"] <= HighWater
    /\ IF phase = "tx" THEN want.aux => LinkUp(gcr)
                       ELSE line["aux"] => /\ LinkUp(gcr)
                                           /\ level["aux"] <= HighWater + Burst

\* No want is forgotten on its way to a line, nor is the link's state.
WantsUnderWay ==
    /\ WantsFrames(gcr, level["pcm"]) => line["pcm"]
    /\ WantsFrames(gcr, level["aux"]) =>
           IF phase = "tx" THEN want.aux ELSE line["aux"]
    /\ LinkUp(gcr) = IF phase \in {"tx", "aux"} THEN want.link ELSE refresh

DmaInv == /\ ControllerInv
          /\ EngineTypeOK
          /\ LatchesInBounds
          /\ LinesInBounds
          /\ WantsUnderWay
-------------------------------------------------------------------------------
(* Lemmas about the operators.                                             *)

\* A DAC wants frames only from the high-water mark down, and goes on wanting
\* them as its ring drains.
LEMMA WantIsRoom ==
    ASSUME NEW g, NEW m \in Nat, NEW n \in Nat
    PROVE  /\ WantsFrames(g, n) \in BOOLEAN
           /\ WantsFrames(g, n) => LinkUp(g) /\ n <= HighWater
           /\ WantsFrames(g, n) /\ m <= n => WantsFrames(g, m)
  <1>1. WantsFrames(g, n) \in BOOLEAN
    BY DEF WantsFrames, LinkUp
  <1>2. WantsFrames(g, n) => LinkUp(g) /\ n <= HighWater
    BY FifoAssumption, ThresholdAssumption, SMT DEF WantsFrames, HighWater
  <1>3. WantsFrames(g, n) /\ m <= n => WantsFrames(g, m)
    BY FifoAssumption, ThresholdAssumption, SMT DEF WantsFrames
  <1> QED  BY <1>1, <1>2, <1>3

\* Two bursts fit above the high-water mark.
LEMMA Headroom == /\ HighWater \in Nat /\ Burst \in Nat
                  /\ HighWater + 2 * Burst <= FIFO_FRAMES
  BY FifoAssumption, ThresholdAssumption, BurstAssumption, HeadroomAssumption, SMT
  DEF HighWater

LEMMA LinkIsBoolean == ASSUME NEW g PROVE LinkUp(g) \in BOOLEAN
  BY DEF LinkUp

\* A burst of a DAC that is ready is not empty, nor more than is left.
LEMMA BurstFits ==
    ASSUME EngineTypeOK, NEW d \in DAC, Ready(d)
    PROVE  /\ BurstSize(d) \in 1..Burst
           /\ left[d] - BurstSize(d) \in 0..MaxWork
  <1>1. left[d] \in 1..MaxWork
    BY BurstAssumption DEF EngineTypeOK, Ready
  <1> QED  BY <1>1, BurstAssumption DEF BurstSize
-------------------------------------------------------------------------------
(* The invariant.                                                          *)

LEMMA DmaInvInit == DmaInit => DmaInv
  <1> SUFFICES ASSUME DmaInit PROVE DmaInv
    OBVIOUS
  <1>1. ControllerInv
    BY InvInit, InvInParts DEF DmaInit, ControllerInv
  <1>2. EngineTypeOK
    <2>1. 0 \in 0..MaxWork
      BY BurstAssumption
    <2> QED  BY <2>1 DEF DmaInit, Init, EngineTypeOK, NoWant
  <1>3. LatchesInBounds
    BY Headroom, SMT
    DEF DmaInit, Init, LatchesInBounds, NoOverrun, HighWater, NoWant, DAC
  <1>4. WantsUnderWay
    BY DEF DmaInit, Init, WantsUnderWay, WantsFrames, LinkUp
  <1>5. LinesInBounds
    BY DEF DmaInit, LinesInBounds, DAC
  <1> QED  BY <1>1, <1>2, <1>3, <1>4, <1>5 DEF DmaInv

\* A handler that has only drained rings drives the PCM line and remembers the
\* want of the other.
LEMMA DriveTxStep ==
    ASSUME DmaInv, phase = "idle", ControllerInv',
           NEW lines \in [DAC -> BOOLEAN], DriveTxFrom(lines),
           \A d \in DAC : ~fu'[d] /\ level'[d] <= level[d]
    PROVE  DmaInv'
  <1>t. /\ "pcm" \in DAC /\ "aux" \in DAC
        /\ level \in [DAC -> 0..FIFO_FRAMES] /\ level' \in [DAC -> 0..FIFO_FRAMES]
    BY DEF DmaInv, ControllerInv, QueueInv, DAC
  <1>n. \A d \in DAC : level[d] \in Nat /\ level'[d] \in Nat
    BY <1>t, FifoAssumption
  <1>w. \A d \in DAC : /\ WantsFrames(gcr', level'[d]) \in BOOLEAN
                       /\ WantsFrames(gcr', level'[d]) =>
                              LinkUp(gcr') /\ level'[d] <= HighWater
    BY <1>n, WantIsRoom
  <1>1. EngineTypeOK'
    <2>1. /\ line' \in [DAC -> BOOLEAN] /\ request' \in [DAC -> BOOLEAN]
          /\ engine' \in BOOLEAN
      BY <1>t, <1>w DEF DriveTxFrom, DmaInv, EngineTypeOK, Latched
    <2>2. want' \in [aux : BOOLEAN, link : BOOLEAN]
      BY <1>t, <1>w, LinkIsBoolean DEF DriveTxFrom
    <2> QED  BY <2>1, <2>2 DEF DriveTxFrom, DmaInv, EngineTypeOK
  <1>2. LatchesInBounds'
    <2>1. /\ request'["pcm"] => request["pcm"] \/ WantsFrames(gcr', level'["pcm"])
          /\ request'["aux"] = request["aux"]
          /\ want'.aux = WantsFrames(gcr', level'["aux"])
          /\ phase' = "tx"
      BY <1>t DEF DriveTxFrom, DmaInv, EngineTypeOK, Latched
    <2>2. \A d \in DAC : level[d] <= HighWater + 2 * Burst
      BY DEF DmaInv, LatchesInBounds, NoOverrun, HighWater
    <2>3. NoOverrun'
      BY <1>n, <2>2, Headroom, SMT DEF NoOverrun, HighWater
    <2>4. request'["pcm"] => level'["pcm"] <= HighWater
      BY <1>n, <1>t, <1>w, <2>1, Headroom DEF DmaInv, LatchesInBounds
    <2>5. request'["aux"] => level'["aux"] <= HighWater + Burst
      BY <1>n, <1>t, <2>1, Headroom DEF DmaInv, LatchesInBounds
    <2>6. want'.aux => level'["aux"] <= HighWater
      BY <1>t, <1>w, <2>1
    <2>7. want'.aux => level'["aux"] <= HighWater + Burst
      BY <1>n, <1>t, <2>6, Headroom
    <2> QED  BY <2>3, <2>4, <2>5, <2>6, <2>7 DEF LatchesInBounds, HighWater
  <1>3. WantsUnderWay'
    BY <1>t DEF WantsUnderWay, DriveTxFrom, DmaInv, EngineTypeOK
  <1>4. LinesInBounds'
    <2>1. /\ line'["pcm"] = WantsFrames(gcr', level'["pcm"])
          /\ want'.aux = WantsFrames(gcr', level'["aux"])
          /\ phase' = "tx"
      BY <1>t DEF DriveTxFrom
    <2> QED  BY <1>t, <1>w, <2>1 DEF LinesInBounds, HighWater
  <1> QED  BY <1>1, <1>2, <1>3, <1>4 DEF DmaInv

\* The engine moves a burst wherever it came in, and leaves all lines fresh.
LEMMA MoveBurstStep ==
    ASSUME DmaInv, NEW d \in DAC, MoveBurst(d)
    PROVE  DmaInv'
  <1> DEFINE n == BurstSize(d)
  <1>t. /\ "pcm" \in DAC /\ "aux" \in DAC
        /\ level \in [DAC -> 0..FIFO_FRAMES]
        /\ fu \in [DAC -> BOOLEAN]
    BY DEF DmaInv, ControllerInv, QueueInv, DAC
  <1>b. n \in 1..Burst /\ left[d] - n \in 0..MaxWork
    BY BurstFits DEF MoveBurst, DmaInv
  <1>r. /\ running[d] /\ mapped[d] /\ request[d] /\ level[d] <= HighWater + Burst
        /\ d = "pcm" => level[d] <= HighWater
    BY <1>t, Headroom DEF MoveBurst, Ready, DmaInv, EngineTypeOK, LatchesInBounds, DAC
  <1>f. ~Overruns(d, n) /\ LevelAfterPush(d, n) = level[d] + n
    BY <1>t, <1>b, <1>r, Headroom, FifoAssumption DEF Overruns, LevelAfterPush
  <1>l. /\ level' = [level EXCEPT ![d] = level[d] + n]
        /\ fu' = [fu EXCEPT ![d] = fu[d]]
        /\ level'[d] = level[d] + n
        /\ \A e \in DAC \ {d} : level'[e] = level[e]
        /\ \A e \in DAC : fu'[e] = fu[e]
    BY <1>t, <1>f DEF MoveBurst, PushBody
  <1>1. ControllerInv'
    <2>1. VoiceInv' /\ QueueInv'
      BY <1>b, PushBodyStep, BurstAssumption DEF MoveBurst, DmaInv, ControllerInv
    <2>2. RegisterInv' /\ IrqInv'
      BY RegistersLeftAlone, IrqLeftAlone
      DEF MoveBurst, DmaInv, ControllerInv, registers
    <2> QED  BY <2>1, <2>2 DEF ControllerInv
  <1>n. \A e \in DAC : level[e] \in Nat /\ level'[e] \in Nat /\ level[e] <= level'[e]
    BY <1>t, <1>b, <1>l, FifoAssumption, BurstAssumption
  <1>w. \A e \in DAC : /\ WantsFrames(gcr, level'[e]) \in BOOLEAN
                       /\ WantsFrames(gcr, level'[e]) =>
                              LinkUp(gcr) /\ level'[e] <= HighWater
                       /\ WantsFrames(gcr, level'[e]) => WantsFrames(gcr, level[e])
    BY <1>n, WantIsRoom
  <1>g. /\ gcr' = gcr /\ phase' = phase /\ want' = want /\ mapped' = mapped
        /\ line' = [e \in DAC |-> WantsFrames(gcr, level'[e])]
        /\ request' = [e \in DAC |-> Latched(e, WantsFrames(gcr, level'[e]))]
        /\ refresh' = LinkUp(gcr)
        /\ engine' = engine
    BY DEF MoveBurst, registers
  <1>2. EngineTypeOK'
    <2>1. line' \in [DAC -> BOOLEAN] /\ request' \in [DAC -> BOOLEAN]
      BY <1>g, <1>w DEF DmaInv, EngineTypeOK, Latched
    <2>2. left' \in [DAC -> 0..MaxWork]
      BY <1>b DEF MoveBurst, DmaInv, EngineTypeOK
    <2>3. /\ running' \in [DAC -> BOOLEAN]
          /\ \A e \in DAC : running'[e] => mapped[e]
      BY <1>r DEF MoveBurst, DmaInv, EngineTypeOK
    <2> QED  BY <1>g, <2>1, <2>2, <2>3, LinkIsBoolean DEF DmaInv, EngineTypeOK
  <1>3. LatchesInBounds'
    <2>1. NoOverrun'
      <3>1. \A e \in DAC : ~fu[e] /\ level[e] <= HighWater + 2 * Burst
        BY DEF DmaInv, LatchesInBounds, NoOverrun, HighWater
      <3>2. level'[d] <= HighWater + 2 * Burst
        BY <1>n, <1>b, <1>l, <1>r, Headroom
      <3>3. \A e \in DAC : ~fu'[e] /\ level'[e] <= HighWater + 2 * Burst
        BY <1>l, <3>1, <3>2
      <3> QED  BY <3>3 DEF NoOverrun, HighWater
    <2>2. ASSUME NEW e \in DAC, request'[e]
          PROVE  level'[e] <= HighWater \/ (e # d /\ request[e])
      BY <1>g, <1>r, <1>w, <2>2 DEF Latched
    <2>3. request'["pcm"] => level'["pcm"] <= HighWater
      BY <1>t, <1>l, <2>2 DEF DmaInv, LatchesInBounds
    <2>4. request'["aux"] => level'["aux"] <= HighWater + Burst
      BY <1>t, <1>n, <1>l, <2>2, Headroom DEF DmaInv, LatchesInBounds
    <2>5. ASSUME phase' = "tx", want'.aux
          PROVE  /\ level'["aux"] <= HighWater + Burst
                 /\ request'["aux"] => level'["aux"] <= HighWater
      <3>1. /\ level["aux"] <= HighWater + Burst
            /\ request["aux"] => level["aux"] <= HighWater
        BY <1>g, <2>5 DEF DmaInv, LatchesInBounds
      <3>2. CASE d = "aux"
        BY <1>n, <1>b, <1>l, <1>r, <2>2, <3>1, <3>2, Headroom
      <3>3. CASE d # "aux"
        BY <1>t, <1>l, <2>2, <3>1, <3>3
      <3> QED  BY <3>2, <3>3
    <2> QED  BY <2>1, <2>3, <2>4, <2>5 DEF LatchesInBounds, HighWater
  <1>4. WantsUnderWay'
    BY <1>g, <1>t, <1>w DEF WantsUnderWay, DmaInv
  <1>5. LinesInBounds'
    <2>1. \A e \in DAC : line'[e] => LinkUp(gcr) /\ level'[e] <= HighWater
      BY <1>g, <1>w
    <2>2. line'["aux"] => level'["aux"] <= HighWater + Burst
      BY <1>t, <1>n, <2>1, Headroom
    <2>3. phase = "tx" /\ want.aux => LinkUp(gcr)
      BY DEF DmaInv, LinesInBounds
    <2> QED  BY <1>g, <1>t, <2>1, <2>2, <2>3 DEF LinesInBounds, HighWater
  <1> QED  BY <1>1, <1>2, <1>3, <1>4, <1>5 DEF DmaInv

\* What leaves the controller alone leaves what its handlers keep.
LEMMA ControllerLeftAlone ==
    ASSUME ControllerInv, UNCHANGED <<registers, voices, queues, irq>>
    PROVE  ControllerInv'
  <1>1. VoiceInv' /\ QueueInv' /\ RegisterInv' /\ IrqInv'
    BY VoicesLeftAlone, QueuesLeftAlone, RegistersLeftAlone, IrqLeftAlone
    DEF ControllerInv, voices, registers
  <1> QED  BY <1>1 DEF ControllerInv

\* The second line, and the timer.
LEMMA UpdateEnds == ASSUME DmaInv, DriveAux \/ SetTimer PROVE DmaInv'
  <1>t. "pcm" \in DAC /\ "aux" \in DAC
    BY DEF DAC
  <1>1. CASE DriveAux
    <2>1. ControllerInv'
      BY <1>1, ControllerLeftAlone DEF DriveAux, DmaInv, vars
    <2>2. EngineTypeOK'
      <3>1. /\ line' \in [DAC -> BOOLEAN] /\ request' \in [DAC -> BOOLEAN]
            /\ engine' \in BOOLEAN
        BY <1>1, <1>t DEF DriveAux, DmaInv, EngineTypeOK, Latched
      <3> QED  BY <1>1, <3>1 DEF DriveAux, DmaInv, EngineTypeOK
    <2>3. LatchesInBounds'
      <3>1. /\ request'["pcm"] = request["pcm"]
            /\ request'["aux"] => want.aux \/ request["aux"]
            /\ UNCHANGED <<level, fu>> /\ phase' = "aux"
        BY <1>1, <1>t DEF DriveAux, DmaInv, EngineTypeOK, Latched, vars, queues
      <3> QED
        BY <1>1, <3>1 DEF DriveAux, DmaInv, LatchesInBounds, NoOverrun, HighWater
    <2>4. WantsUnderWay'
      <3>1. /\ line'["pcm"] = line["pcm"] /\ line'["aux"] = want.aux
            /\ UNCHANGED <<gcr, level, want>> /\ phase = "tx" /\ phase' = "aux"
        BY <1>1, <1>t DEF DriveAux, DmaInv, EngineTypeOK, vars, queues, registers
      <3> QED  BY <3>1 DEF DmaInv, WantsUnderWay
    <2>5. LinesInBounds'
      <3>1. /\ line'["pcm"] = line["pcm"] /\ line'["aux"] = want.aux
            /\ UNCHANGED <<gcr, level>> /\ phase = "tx" /\ phase' = "aux"
        BY <1>1, <1>t DEF DriveAux, DmaInv, EngineTypeOK, vars, queues, registers
      <3>2. want.aux => LinkUp(gcr) /\ level["aux"] <= HighWater + Burst
        BY <3>1 DEF DmaInv, LinesInBounds, LatchesInBounds
      <3> QED  BY <3>1, <3>2 DEF DmaInv, LinesInBounds, HighWater
    <2> QED  BY <2>1, <2>2, <2>3, <2>4, <2>5 DEF DmaInv
  <1>2. CASE SetTimer
    <2>1. ControllerInv'
      BY <1>2, ControllerLeftAlone DEF SetTimer, DmaInv, vars
    <2>2. EngineTypeOK'
      BY <1>2 DEF SetTimer, TimerArmed, NoWant, dmaVars, DmaInv, EngineTypeOK
    <2>3. /\ UNCHANGED <<gcr, level, fu, line, request>>
          /\ phase = "aux" /\ phase' = "idle" /\ refresh' = want.link
      BY <1>2 DEF SetTimer, TimerArmed, dmaVars, vars, queues, registers
    <2>4. LatchesInBounds'
      BY <2>3 DEF DmaInv, LatchesInBounds, NoOverrun, HighWater
    <2>5. WantsUnderWay'
      BY <2>3 DEF DmaInv, WantsUnderWay
    <2>6. LinesInBounds'
      BY <2>3 DEF DmaInv, LinesInBounds, HighWater
    <2> QED  BY <2>1, <2>2, <2>4, <2>5, <2>6 DEF DmaInv
  <1> QED  BY <1>1, <1>2

\* The guest's writes of the DMA controller, and the end of the run they start.
LEMMA ChannelStep ==
    ASSUME DmaInv,
           \/ \E d \in DAC : Map(d) \/ Unmap(d) \/ Stop(d)
           \/ \E d \in DAC : \E n \in 1..MaxWork : Start(d, n)
           \/ StartReturns
    PROVE  DmaInv'
  <1>1. /\ UNCHANGED <<vars, requests, request>>
        /\ phase \in {"idle", "dma"} /\ phase' \in {"idle", "dma"}
        /\ want' = want
    BY DEF Map, Unmap, Stop, Start, StartReturns, dmaVars
  <1>2. ControllerInv'
    BY <1>1, ControllerLeftAlone DEF DmaInv, vars
  <1>3. EngineTypeOK'
    <2>1. line' = line /\ refresh' = refresh
      BY <1>1 DEF requests
    <2>2. /\ engine' \in BOOLEAN
          /\ mapped' \in [DAC -> BOOLEAN] /\ running' \in [DAC -> BOOLEAN]
          /\ left' \in [DAC -> 0..MaxWork]
          /\ \A d \in DAC : running'[d] => mapped'[d]
      <3>1. ASSUME NEW d \in DAC, Map(d) PROVE <2>2
        BY <3>1 DEF Map, DmaInv, EngineTypeOK
      <3>2. ASSUME NEW d \in DAC, Unmap(d) PROVE <2>2
        BY <3>2 DEF Unmap, DmaInv, EngineTypeOK
      <3>3. ASSUME NEW d \in DAC, Stop(d) PROVE <2>2
        <4>1. 0 \in 0..MaxWork
          BY BurstAssumption
        <4> QED  BY <3>3, <4>1 DEF Stop, DmaInv, EngineTypeOK
      <3>4. ASSUME NEW d \in DAC, NEW n \in 1..MaxWork, Start(d, n) PROVE <2>2
        <4>1. n \in 0..MaxWork
          OBVIOUS
        <4> QED  BY <3>4, <4>1 DEF Start, DmaInv, EngineTypeOK
      <3>5. CASE StartReturns
        BY <3>5 DEF StartReturns, dmaVars, DmaInv, EngineTypeOK
      <3> QED  BY <3>1, <3>2, <3>3, <3>4, <3>5
    <2> QED  BY <1>1, <2>1, <2>2 DEF DmaInv, EngineTypeOK
  <1>4. LatchesInBounds' /\ LinesInBounds' /\ WantsUnderWay'
    <2>1. UNCHANGED <<gcr, level, fu, line, refresh>>
      BY <1>1 DEF vars, registers, queues, requests
    <2> QED
      BY <1>1, <2>1
      DEF DmaInv, LatchesInBounds, LinesInBounds, NoOverrun, HighWater, WantsUnderWay
  <1> QED  BY <1>2, <1>3, <1>4 DEF DmaInv

\* A reset of the machine empties the rings and takes everything down.
LEMMA DmaResetStep == ASSUME DmaInv, DmaReset PROVE DmaInv'
  <1>1. ControllerInv'
    <2>1. VoiceInv' /\ QueueInv' /\ RegisterInv' /\ IrqInv'
      BY ResetStep DEF DmaReset, DmaInv, ControllerInv
    <2> QED  BY <2>1 DEF ControllerInv
  <1>2. EngineTypeOK'
    <2>1. 0 \in 0..MaxWork
      BY BurstAssumption
    <2> QED  BY <2>1 DEF DmaReset, Reset, DmaInv, EngineTypeOK
  <1>3. LatchesInBounds'
    BY Headroom, SMT
    DEF DmaReset, Reset, LatchesInBounds, NoOverrun, HighWater, DAC
  <1>4. WantsUnderWay'
    BY DEF DmaReset, Reset, WantsUnderWay, WantsFrames, LinkUp
  <1>5. LinesInBounds'
    BY DEF DmaReset, LinesInBounds, DAC, DmaInv
  <1> QED  BY <1>1, <1>2, <1>3, <1>4, <1>5 DEF DmaInv

LEMMA DmaInvStep == DmaInv /\ [DmaNext]_dvars => DmaInv'
  <1> SUFFICES ASSUME DmaInv, [DmaNext]_dvars PROVE DmaInv'
    OBVIOUS
  <1>f. /\ \A d \in DAC : ~fu[d]
        /\ fu \in [DAC -> BOOLEAN] /\ level \in [DAC -> 0..FIFO_FRAMES]
    BY DEF DmaInv, LatchesInBounds, NoOverrun, ControllerInv, QueueInv
  <1>l. \A d \in DAC : level[d] <= level[d]
    BY <1>f, FifoAssumption
  <1>o. line \in [DAC -> BOOLEAN]
    BY DEF DmaInv, EngineTypeOK
  <1>1. ASSUME NEW g \in GcrWrites, DmaWriteGcr(g) PROVE DmaInv'
    <2>1. ControllerInv'
      BY <1>1, WriteGcrStep DEF DmaWriteGcr, DmaInv, ControllerInv
    <2>2. UNCHANGED <<fu, level>>
      BY <1>1 DEF DmaWriteGcr, WriteGcr, queues
    <2> QED  BY <1>1, <1>f, <1>l, <2>1, <2>2, <1>o, DriveTxStep DEF DmaWriteGcr, DriveTx
  <1>2. ASSUME NEW d \in DAC, NEW k \in 0..level[d], DmaCallback(d, k) PROVE DmaInv'
    <2>1. VoiceInv' /\ QueueInv'
      BY <1>2, CallbackStep DEF DmaCallback, DmaInv, ControllerInv
    <2>2. RegisterInv' /\ IrqInv'
      BY <1>2, RegistersLeftAlone, IrqLeftAlone
      DEF DmaCallback, Callback, DmaInv, ControllerInv, registers
    <2>3. \A e \in DAC : ~fu'[e] /\ level'[e] <= level[e]
      <3>1. fu' = fu /\ level' = [level EXCEPT ![d] = @ - k]
        BY <1>2 DEF DmaCallback, Callback
      <3>2. level[d] - k <= level[d]
        BY <1>f, <1>2, FifoAssumption
      <3> QED  BY <1>f, <1>l, <3>1, <3>2
    <2>4. ControllerInv'
      BY <2>1, <2>2 DEF ControllerInv
    <2> QED  BY <1>2, <2>3, <2>4, <1>o, DriveTxStep DEF DmaCallback, DriveTx
  <1>3. CASE DmaRefresh \/ DmaWritePocr
    <2>1. phase = "idle" /\ UNCHANGED vars /\ DriveTx
      BY <1>3 DEF DmaRefresh, DmaWritePocr
    <2>2. ControllerInv'
      BY <2>1, ControllerLeftAlone DEF vars, DmaInv
    <2>3. UNCHANGED <<fu, level>>
      BY <2>1 DEF vars, queues
    <2> QED  BY <1>f, <1>l, <1>o, <2>1, <2>2, <2>3, DriveTxStep DEF DriveTx
  <1>4. ASSUME NEW d \in DAC, MoveBurst(d) PROVE DmaInv'
    BY <1>4, MoveBurstStep
  <1>5. CASE DriveAux \/ SetTimer
    BY <1>5, UpdateEnds
  <1>6. CASE \/ \E d \in DAC : Map(d) \/ Unmap(d) \/ Stop(d)
             \/ \E d \in DAC : \E n \in 1..MaxWork : Start(d, n)
             \/ StartReturns
    BY <1>6, ChannelStep
  <1>7. CASE DmaReset
    BY <1>7, DmaResetStep
  <1>8. CASE DmaLoad
    <2> DEFINE down == [d \in DAC |-> FALSE]
    <2>1. phase = "idle" /\ Restore /\ DriveTxFrom(down)
      BY <1>8 DEF DmaLoad
    <2>2. VoiceInv' /\ QueueInv' /\ RegisterInv' /\ IrqInv'
      BY <2>1, RestoreStep DEF DmaInv, ControllerInv
    <2>3. ControllerInv'
      BY <2>2 DEF ControllerInv
    <2>4. UNCHANGED <<fu, level>>
      BY <2>1 DEF Restore, SavedFields
    <2>5. down \in [DAC -> BOOLEAN]
      OBVIOUS
    <2> QED  BY <1>f, <1>l, <2>1, <2>3, <2>4, <2>5, DriveTxStep
  <1>9. CASE UNCHANGED dvars
    <2>1. ControllerInv'
      BY <1>9, ControllerLeftAlone DEF DmaInv, dvars, vars
    <2>2. UNCHANGED <<gcr, fu, level, line, refresh, phase, want, engine,
                      mapped, running, left, request>>
      BY <1>9 DEF dvars, dmaVars, vars, registers, queues, requests
    <2> QED
      BY <2>1, <2>2
      DEF DmaInv, EngineTypeOK, LatchesInBounds, LinesInBounds, NoOverrun,
          HighWater, WantsUnderWay
  <1> QED
    BY <1>1, <1>2, <1>3, <1>4, <1>5, <1>6, <1>7, <1>8, <1>9
    DEF DmaNext, UpdateSteps, Engine, Guest

LEMMA DmaInvariance == DmaSpec => []DmaInv
  BY DmaInvInit, DmaInvStep, PTL DEF DmaSpec
-------------------------------------------------------------------------------
\* A throttled stream loses no frame in either ring, for every depth, threshold
\* and burst of which two fit into the threshold, though bursts end late and the
\* Aux line is driven by a want that may be stale.
THEOREM ThrottledStreamFits == DmaSpec => []NoOverrun
  <1>1. DmaInv => NoOverrun
    BY DEF DmaInv, LatchesInBounds
  <1> QED  BY <1>1, DmaInvariance, PTL

\* A DAC with room for a refill has its line up when a handler has returned,
\* whatever the engine did inside it.
THEOREM NoRequestIsLost == DmaSpec => []RoomIsRequested
  <1>1. DmaInv => RoomIsRequested
    BY DEF DmaInv, WantsUnderWay, RoomIsRequested, DAC
  <1> QED  BY <1>1, DmaInvariance, PTL

\* A request that is up when a handler has returned is of a link that is up and
\* of a ring with room: for the threshold's frames on the PCM line, for all but a
\* burst of them on the Aux line, which may be driven by a want from before a run.
THEOREM RequestsAreTimely == DmaSpec => []RequestsHoldGood
  <1>1. DmaInv => RequestsHoldGood
    <2> SUFFICES ASSUME DmaInv, phase = "idle", NEW d \in DAC, line[d]
                 PROVE  /\ LinkUp(gcr)
                        /\ level[d] <= HighWater + (IF d = "aux" THEN Burst ELSE 0)
      BY DEF RequestsHoldGood, HighWater
    <2>1. CASE d = "pcm"
      <3>1. level[d] \in Nat
        BY FifoAssumption DEF DmaInv, ControllerInv, QueueInv
      <3> QED  BY <2>1, <3>1, Headroom DEF DmaInv, LinesInBounds
    <2>2. CASE d = "aux"
      BY <2>2 DEF DmaInv, LinesInBounds
    <2> QED  BY <2>1, <2>2 DEF DAC
  <1> QED  BY <1>1, DmaInvariance, PTL

\* The timer that presents the lines again runs exactly while the link is up,
\* though the engine's updates set it before the outer one does.
THEOREM TimerIsSet == DmaSpec => []TimerFollowsLink
  <1>1. DmaInv => TimerFollowsLink
    BY DEF DmaInv, WantsUnderWay, TimerFollowsLink
  <1> QED  BY <1>1, DmaInvariance, PTL

\* All state keeps its type while the engine comes in between.
THEOREM DmaTypeCorrect == DmaSpec => []DmaTypeOK
  <1>1. DmaInv => DmaTypeOK
    BY DEF DmaInv, ControllerInv, VoiceInv, QueueInv, RegisterInv, IrqInv,
           EngineTypeOK, DmaTypeOK, TypeOK
  <1> QED  BY <1>1, DmaInvariance, PTL

\* What the device believes of its voices is what the host was told, and a silent
\* voice is idled, also where it is the engine that wakes it.
THEOREM DmaKeepsVoices == DmaSpec => [](HostTracksFlag /\ SilenceReleasesHost)
  <1>1. DmaInv => HostTracksFlag /\ SilenceReleasesHost
    BY DEF DmaInv, ControllerInv, VoiceInv, QueueInv
  <1> QED  BY <1>1, DmaInvariance, PTL
===============================================================================
