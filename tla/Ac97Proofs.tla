------------------------------ MODULE Ac97Proofs ------------------------------
(***************************************************************************)
(* Proofs about the AC97 controller for every ring depth, battery voltage  *)
(* and set of guest writes: its type invariant, that its interrupt line    *)
(* follows its registers, and that what it believes of the host voices is  *)
(* what the host was told.  The last section is about snapshots: a load    *)
(* keeps all that, and queued frames are heard again.                      *)
(***************************************************************************)
EXTENDS Ac97Snapshot, TLAPS

\* A callback that has found the ring empty is remembered until a frame comes.
QuietIsDrained == \A d \in DAC : quiet[d] > 0 => drained[d]

\* The inductive invariant.
Inv == /\ TypeOK
       /\ IrqTracksStatus
       /\ HostTracksFlag
       /\ QuietIsDrained
       /\ SilenceReleasesHost

\* What the handlers do, in three independent parts.
VoiceInv == /\ freq \in [DAC -> VoiceRate]
            /\ voice \in [DAC -> BOOLEAN]
            /\ active \in [DAC -> BOOLEAN]
            /\ hostActive \in [DAC -> BOOLEAN]
            /\ HostTracksFlag

-------------------------------------------------------------------------------
(* Lemmas about the operators.                                             *)

\* A rate register never makes the device ask the host for a rate it refuses.
LEMMA RatesInRange ==
    ASSUME NEW c \in [front : Word, surr : Word, dig1 : Word, adc : Word]
    PROVE  /\ PlaybackFreq(c) \in VoiceRate
           /\ AuxFreq(c) \in VoiceRate
  <1>1. c.front \in Word /\ c.surr \in Word
    OBVIOUS
  <1>2. PlaybackFreq(c) \in VoiceRate
    BY <1>1, SMT DEF PlaybackFreq, RateInRange, VoiceRate, MIN_RATE, MAX_RATE, Word
  <1>3. AuxFreq(c) \in VoiceRate
    BY <1>1, <1>2, SMT DEF AuxFreq, RateInRange, VoiceRate, MIN_RATE, MAX_RATE, Word
  <1> QED  BY <1>2, <1>3

\* Every write leaves 16 bits in each codec register.
LEMMA CodecStaysTyped ==
    ASSUME codec \in [front : Word, surr : Word, dig1 : Word, adc : Word],
           NEW reg, NEW v \in Word
    PROVE  CodecAfter(reg, v) \in [front : Word, surr : Word, dig1 : Word, adc : Word]
  <1>1. DefaultRegs \in [front : Word, surr : Word, dig1 : Word, adc : Word]
    BY SMT DEF DefaultRegs, Word
  <1>2. Reading \in Word
    BY BatteryAssumption, SMT DEF Reading, Word
  <1>3. PollBit(v) => v - POLL \in Word
    BY SMT DEF PollBit, POLL, Word
  <1>4. Digitise(codec, v) \in [front : Word, surr : Word, dig1 : Word, adc : Word]
    BY <1>2, <1>3 DEF Digitise
  <1> QED  BY <1>1, <1>4 DEF CodecAfter

\* Reopening a voice, or leaving it alone, keeps the host informed.
LEMMA RetuneKeepsVoices ==
    ASSUME VoiceInv, NEW d \in DAC, NEW r \in VoiceRate, Retune(d, r)
    PROVE  VoiceInv' /\ active' = active
  <1>1. CASE UNCHANGED voices
    BY <1>1 DEF voices, VoiceInv, HostTracksFlag
  <1>2. CASE OpenVoice(d, r, active[d])
    <2>1. PICK opened \in BOOLEAN :
            /\ freq' = [freq EXCEPT ![d] = r]
            /\ voice' = [voice EXCEPT ![d] = opened]
            /\ hostActive' = [hostActive EXCEPT ![d] = opened /\ active[d]]
            /\ active' = active
      BY <1>2 DEF OpenVoice
    <2>2. HostTracksFlag'
      BY <2>1 DEF VoiceInv, HostTracksFlag
    <2> QED  BY <2>1, <2>2 DEF VoiceInv
  <1> QED  BY <1>1, <1>2 DEF Retune

\* Waking or idling an open voice tells the host.
LEMMA SetActiveKeepsVoices ==
    ASSUME VoiceInv, NEW d \in DAC, NEW on \in BOOLEAN, voice[d], SetActive(d, on)
    PROVE  VoiceInv'
  BY DEF SetActive, VoiceInv, HostTracksFlag

LEMMA UpdateIrqTracks ==
    ASSUME UpdateIrq PROVE IrqTracksStatus' /\ irq' \in BOOLEAN
  BY DEF UpdateIrq, IrqTracksStatus, IrqLevel

\* What a ring and its two silence counters may look like.
QueueInv == /\ fu \in [DAC -> BOOLEAN]
            /\ drained \in [DAC -> BOOLEAN]
            /\ level \in [DAC -> 0..FIFO_FRAMES]
            /\ quiet \in [DAC -> 0..2]
            /\ QuietIsDrained
            /\ SilenceReleasesHost

RegisterInv == /\ gcr \subseteq GcrBit
               /\ gsr \subseteq GsrBit
               /\ codec \in [front : Word, surr : Word, dig1 : Word, adc : Word]

IrqInv == irq \in BOOLEAN /\ IrqTracksStatus

LEMMA InvInParts ==
    Inv <=> VoiceInv /\ QueueInv /\ RegisterInv /\ IrqInv
  BY DEF Inv, TypeOK, VoiceInv, QueueInv, RegisterInv, IrqInv

LEMMA QueuesLeftAlone ==
    ASSUME QueueInv, UNCHANGED <<queues, active>> PROVE QueueInv'
  BY DEF QueueInv, queues, QuietIsDrained, SilenceReleasesHost

LEMMA VoicesLeftAlone ==
    ASSUME VoiceInv, UNCHANGED voices PROVE VoiceInv'
  BY DEF VoiceInv, voices, HostTracksFlag

LEMMA IrqLeftAlone ==
    ASSUME IrqInv, UNCHANGED <<gcr, gsr, irq>> PROVE IrqInv'
  BY DEF IrqInv, IrqTracksStatus

LEMMA RegistersLeftAlone ==
    ASSUME RegisterInv, UNCHANGED registers PROVE RegisterInv'
  BY DEF RegisterInv, registers

\* A write of GCR, a cold reset of the codec included, keeps the invariant.
LEMMA WriteGcrStep ==
    ASSUME VoiceInv, QueueInv, RegisterInv, NEW g \in GcrWrites, WriteGcr(g)
    PROVE  VoiceInv' /\ QueueInv' /\ RegisterInv' /\ IrqInv'
  <1>1. VoiceInv' /\ QueueInv'
    BY VoicesLeftAlone, QueuesLeftAlone DEF WriteGcr, voices
  <1>2. RegisterInv'
    <2>1. gcr' \subseteq GcrBit
      BY WritesAssumption DEF WriteGcr
    <2>2. gsr' \subseteq GsrBit
      BY DEF WriteGcr, RegisterInv, GsrBit
    <2>3. codec' \in [front : Word, surr : Word, dig1 : Word, adc : Word]
      <3>1. DefaultRegs \in [front : Word, surr : Word, dig1 : Word, adc : Word]
        BY SMT DEF DefaultRegs, Word
      <3> QED  BY <3>1 DEF WriteGcr, RegisterInv
    <2> QED  BY <2>1, <2>2, <2>3 DEF RegisterInv
  <1>3. IrqInv'
    BY UpdateIrqTracks DEF WriteGcr, IrqInv
  <1> QED  BY <1>1, <1>2, <1>3

\* Frames, dropped or kept, keep the ring and the voice in order.
LEMMA PushBodyStep ==
    ASSUME VoiceInv, QueueInv, NEW d \in DAC, NEW n \in Nat,
           PushBody(d, n)
    PROVE  VoiceInv' /\ QueueInv'
  <1>1. VoiceInv'
    <2>1. CASE UNCHANGED voices
      BY <2>1, VoicesLeftAlone
    <2>2. CASE voice[d] /\ SetActive(d, TRUE)
      BY <2>2, SetActiveKeepsVoices
    <2> QED  BY <2>1, <2>2 DEF PushBody, Wake
  <1>2. LevelAfterPush(d, n) \in 0..FIFO_FRAMES
    BY FifoAssumption, SMT DEF LevelAfterPush, Overruns, QueueInv
  <1>3. /\ fu' = [fu EXCEPT ![d] = @ \/ Overruns(d, n)]
        /\ level' = [level EXCEPT ![d] = LevelAfterPush(d, n)]
        /\ drained' = [drained EXCEPT ![d] = FALSE]
        /\ quiet' = [quiet EXCEPT ![d] = 0]
    BY DEF PushBody, DrainedAfterPush
  <1>4. /\ fu' \in [DAC -> BOOLEAN]
        /\ level' \in [DAC -> 0..FIFO_FRAMES]
        /\ drained' \in [DAC -> BOOLEAN]
        /\ quiet' \in [DAC -> 0..2]
    BY <1>2, <1>3 DEF QueueInv, Overruns
  <1>5. \A e \in DAC \ {d} : /\ level'[e] = level[e] /\ drained'[e] = drained[e]
                              /\ quiet'[e] = quiet[e] /\ active'[e] = active[e]
    <2>1. \A e \in DAC \ {d} : active'[e] = active[e]
      BY DEF PushBody, Wake, SetActive, voices, VoiceInv
    <2> QED  BY <1>3, <2>1 DEF QueueInv
  <1>6. drained'[d] = FALSE /\ quiet'[d] = 0
    BY <1>3 DEF QueueInv
  <1>7. QuietIsDrained' /\ SilenceReleasesHost'
    BY <1>5, <1>6, SMT
    DEF QueueInv, QuietIsDrained, SilenceReleasesHost
  <1> QED  BY <1>1, <1>4, <1>7 DEF QueueInv

\* An audio callback keeps them in order, and idles the voice in time.
LEMMA CallbackStep ==
    ASSUME VoiceInv, QueueInv, NEW d \in DAC,
           NEW k \in 0..level[d], Callback(d, k)
    PROVE  VoiceInv' /\ QueueInv'
  <1>1. VoiceInv'
    <2>1. CASE UNCHANGED voices
      BY <2>1, VoicesLeftAlone
    <2>2. CASE SetActive(d, FALSE)
      BY <2>2, SetActiveKeepsVoices DEF Callback, Called
    <2> QED  BY <2>1, <2>2 DEF Callback, IdleIfQuiet
  <1>2. /\ level[d] - k \in 0..FIFO_FRAMES
        /\ level' = [level EXCEPT ![d] = level[d] - k]
        /\ level'[d] \in 0..FIFO_FRAMES
    BY FifoAssumption, SMT DEF Callback, QueueInv
  <1>3. /\ level' \in [DAC -> 0..FIFO_FRAMES]
        /\ \A e \in DAC \ {d} : level'[e] = level[e]
    BY <1>2 DEF QueueInv
  <1>4. /\ drained' \in [DAC -> BOOLEAN]
        /\ drained'[d] = (level'[d] = 0)
        /\ \A e \in DAC \ {d} : drained'[e] = drained[e]
    BY DEF Callback, QueueInv
  <1>5. /\ quiet' \in [DAC -> 0..2]
        /\ quiet'[d] = IF level'[d] > 0 THEN 0
                       ELSE IF quiet[d] < 2 THEN quiet[d] + 1 ELSE 2
        /\ \A e \in DAC \ {d} : quiet'[e] = quiet[e]
    <2> DEFINE q == IF level'[d] > 0 THEN 0
                    ELSE IF quiet[d] < 2 THEN quiet[d] + 1 ELSE 2
    <2>1. quiet' = [quiet EXCEPT ![d] = q]
      BY DEF Callback
    <2>2. q \in 0..2
      BY SMT DEF QueueInv
    <2> QED  BY <2>1, <2>2 DEF QueueInv
  <1>6. \A e \in DAC \ {d} : active'[e] = active[e]
    BY DEF Callback, IdleIfQuiet, SetActive, voices, VoiceInv
  <1>7. active[d] = TRUE
    BY DEF Callback, Called, VoiceInv, HostTracksFlag
  <1>8. active'[d] => quiet'[d] < 2
    <2>1. CASE level'[d] > 0
      BY <1>5, <2>1, SMT
    <2>2. CASE level'[d] = 0 /\ drained[d]
      BY <1>7, <2>2 DEF Callback, IdleIfQuiet, MustIdle, SetActive, VoiceInv
    <2>3. CASE level'[d] = 0 /\ ~drained[d]
      <3>1. quiet[d] = 0
        BY <2>3, SMT DEF QueueInv, QuietIsDrained
      <3> QED  BY <1>5, <2>3, <3>1, SMT
    <2> QED  BY <1>2, <2>1, <2>2, <2>3, SMT
  <1>9. QuietIsDrained' /\ SilenceReleasesHost'
    <2>1. QuietIsDrained'
      <3>1. quiet'[d] > 0 => drained'[d]
        BY <1>2, <1>4, <1>5, SMT
      <3> QED  BY <1>4, <1>5, <3>1, SMT DEF QuietIsDrained, QueueInv
    <2>2. SilenceReleasesHost'
      BY <1>5, <1>6, <1>8, SMT DEF SilenceReleasesHost, QueueInv
    <2> QED  BY <2>1, <2>2
  <1> QED  BY <1>1, <1>3, <1>4, <1>5, <1>9 DEF QueueInv, Callback

\* A reset of the machine brings all but the rates and the voices back.
LEMMA ResetStep ==
    ASSUME VoiceInv, QueueInv, Reset
    PROVE  VoiceInv' /\ QueueInv' /\ RegisterInv' /\ IrqInv'
  <1>1. VoiceInv'
    BY DEF Reset, StoppedByReset, VoiceInv, HostTracksFlag
  <1>2. QueueInv'
    BY FifoAssumption, SMT
    DEF Reset, QueueInv, QuietIsDrained, SilenceReleasesHost
  <1>3. RegisterInv'
    BY SMT DEF Reset, RegisterInv, DefaultRegs, Word
  <1>4. IrqInv'
    BY DEF Reset, IrqInv, IrqTracksStatus, IrqLevel
  <1> QED  BY <1>1, <1>2, <1>3, <1>4
-------------------------------------------------------------------------------
(* The invariant.                                                          *)

\* The realized machine, just out of reset.
LEMMA InvInit == Init => Inv
  <1> SUFFICES ASSUME Init PROVE Inv
    OBVIOUS
  <1> USE DEF Init
  <1>1. VoiceInv
    <2>1. MAX_RATE \in VoiceRate
      BY SMT DEF VoiceRate, MIN_RATE, MAX_RATE
    <2> QED  BY <2>1 DEF VoiceInv, HostTracksFlag
  <1>2. QueueInv
    BY FifoAssumption, SMT
    DEF QueueInv, QuietIsDrained, SilenceReleasesHost
  <1>3. RegisterInv
    BY SMT DEF RegisterInv, DefaultRegs, Word
  <1>4. IrqInv
    BY DEF IrqInv, IrqTracksStatus, IrqLevel
  <1> QED  BY <1>1, <1>2, <1>3, <1>4, InvInParts

\* Every guest access keeps the invariant.
LEMMA InvGuestAccess == ASSUME Inv, GuestAccess PROVE Inv'
  <1>i. VoiceInv /\ QueueInv /\ RegisterInv /\ IrqInv
    BY InvInParts
  <1>p. VoiceInv' /\ QueueInv' /\ RegisterInv' /\ IrqInv' => Inv'
    BY InvInParts, PTL
  <1>c. codec \in [front : Word, surr : Word, dig1 : Word, adc : Word]
    BY <1>i DEF RegisterInv
  <1>b. {"CDONE", "SDONE", "PCR"} \subseteq GsrBit
    BY DEF GsrBit
  <1>1. ASSUME NEW g \in GcrWrites, WriteGcr(g) PROVE Inv'
    <2>1. VoiceInv' /\ QueueInv' /\ RegisterInv' /\ IrqInv'
      BY <1>1, <1>i, WriteGcrStep DEF WriteGcr
    <2> QED  BY <1>p, <2>1
  <1>2. ASSUME NEW bits \in GsrWrites, WriteGsr(bits) PROVE Inv'
    <2>1. VoiceInv' /\ QueueInv'
      BY <1>2, <1>i, VoicesLeftAlone, QueuesLeftAlone
      DEF WriteGsr, voices, queues
    <2>2. RegisterInv'
      BY <1>2, <1>i DEF WriteGsr, RegisterInv
    <2>3. IrqInv'
      BY <1>2, UpdateIrqTracks DEF WriteGsr, IrqInv
    <2> QED  BY <1>p, <2>1, <2>2, <2>3
  <1>3. ASSUME NEW w \in CodecWrites, WriteCodec(w[1], w[2]) PROVE Inv'
    <2>0. w[2] \in Word
      BY WritesAssumption
    <2>1. codec' \in [front : Word, surr : Word, dig1 : Word, adc : Word]
      BY <1>3, <1>c, <2>0, CodecStaysTyped DEF WriteCodec
    <2>2. VoiceInv' /\ active' = active
      <3>1. /\ PlaybackFreq(codec') \in VoiceRate
            /\ AuxFreq(codec') \in VoiceRate
        BY <2>1, RatesInRange
      <3>2. CASE Retune("pcm", PlaybackFreq(codec'))
        BY <1>i, <3>1, <3>2, RetuneKeepsVoices DEF DAC
      <3>3. CASE Retune("aux", AuxFreq(codec'))
        BY <1>i, <3>1, <3>3, RetuneKeepsVoices DEF DAC
      <3>4. CASE UNCHANGED voices
        BY <1>i, <3>4, VoicesLeftAlone DEF voices
      <3>5. \/ Retune("pcm", PlaybackFreq(codec'))
            \/ Retune("aux", AuxFreq(codec'))
            \/ UNCHANGED voices
        BY <1>3 DEF WriteCodec
      <3> QED  BY <3>2, <3>3, <3>4, <3>5
    <2>3. QueueInv'
      BY <1>3, <1>i, <2>2, QueuesLeftAlone DEF WriteCodec, queues
    <2>4. RegisterInv'
      BY <1>3, <1>i, <1>b, <2>1 DEF WriteCodec, RegisterInv
    <2>5. IrqInv'
      BY <1>3, UpdateIrqTracks DEF WriteCodec, IrqInv
    <2> QED  BY <1>p, <2>2, <2>3, <2>4, <2>5
  <1>4. ASSUME ReadCodec PROVE Inv'
    <2>1. VoiceInv' /\ QueueInv'
      BY <1>4, <1>i, VoicesLeftAlone, QueuesLeftAlone
      DEF ReadCodec, voices, queues
    <2>2. RegisterInv'
      BY <1>4, <1>i, <1>b DEF ReadCodec, RegisterInv
    <2>3. IrqInv'
      BY <1>4, UpdateIrqTracks DEF ReadCodec, IrqInv
    <2> QED  BY <1>p, <2>1, <2>2, <2>3
  <1>5. ASSUME NEW d \in DAC, ClearFifoStatus(d) PROVE Inv'
    <2>1. VoiceInv' /\ RegisterInv' /\ IrqInv'
      BY <1>5, <1>i, VoicesLeftAlone, RegistersLeftAlone,
         IrqLeftAlone
      DEF ClearFifoStatus, registers
    <2>2. QueueInv'
      BY <1>5, <1>i
      DEF ClearFifoStatus, QueueInv, voices, QuietIsDrained,
          SilenceReleasesHost
    <2> QED  BY <1>p, <2>1, <2>2
  <1>6. ASSUME NEW d \in DAC, Push(d) PROVE Inv'
    <2>1. VoiceInv' /\ QueueInv'
      BY <1>6, <1>i, PushBodyStep DEF Push
    <2>2. RegisterInv' /\ IrqInv'
      BY <1>6, <1>i, RegistersLeftAlone, IrqLeftAlone DEF Push, registers
    <2> QED  BY <1>p, <2>1, <2>2
  <1> QED  BY <1>1, <1>2, <1>3, <1>4, <1>5, <1>6 DEF GuestAccess

\* So do the audio callbacks and reset.
LEMMA InvStep == Inv /\ [Next]_vars => Inv'
  <1> SUFFICES ASSUME Inv, [Next]_vars PROVE Inv'
    OBVIOUS
  <1>i. VoiceInv /\ QueueInv /\ RegisterInv /\ IrqInv
    BY InvInParts
  <1>p. VoiceInv' /\ QueueInv' /\ RegisterInv' /\ IrqInv' => Inv'
    BY InvInParts, PTL
  <1>1. CASE GuestAccess
    BY <1>1, InvGuestAccess
  <1>2. ASSUME NEW d \in DAC, NEW k \in 0..level[d], Callback(d, k) PROVE Inv'
    <2>1. VoiceInv' /\ QueueInv'
      BY <1>2, <1>i, CallbackStep DEF Callback
    <2>2. RegisterInv' /\ IrqInv'
      BY <1>2, <1>i, RegistersLeftAlone, IrqLeftAlone DEF Callback, registers
    <2> QED  BY <1>p, <2>1, <2>2
  <1>3. CASE Reset
    BY <1>3, <1>i, <1>p, ResetStep
  <1>4. CASE UNCHANGED vars
    <2>1. VoiceInv' /\ QueueInv' /\ RegisterInv' /\ IrqInv'
      BY <1>4, <1>i, VoicesLeftAlone, QueuesLeftAlone, RegistersLeftAlone,
         IrqLeftAlone
      DEF vars, registers, voices, queues
    <2> QED  BY <1>p, <2>1
  <1> QED  BY <1>1, <1>2, <1>3, <1>4 DEF Next

LEMMA Invariance == Spec => []Inv
  BY InvInit, InvStep, PTL DEF Spec

\* The controller's state keeps its type: no register outgrows its width, no
\* ring its depth, and no voice is asked for a rate the host would refuse.
THEOREM TypeCorrect == Spec => []TypeOK
  <1>1. Inv => TypeOK
    BY DEF Inv
  <1> QED  BY <1>1, Invariance, PTL

\* The interrupt line follows GCR and GSR through every handler.
THEOREM InterruptFollowsStatus == Spec => []IrqTracksStatus
  <1>1. Inv => IrqTracksStatus
    BY DEF Inv
  <1> QED  BY <1>1, Invariance, PTL

\* The device's idea of its voices is the host's, even when an open fails.
THEOREM HostIsInformed == Spec => []HostTracksFlag
  <1>1. Inv => HostTracksFlag
    BY DEF Inv
  <1> QED  BY <1>1, Invariance, PTL

\* A silent guest lets go of the host's output after two quiet callbacks.
THEOREM SilentVoiceIsIdled == Spec => []SilenceReleasesHost
  <1>1. Inv => SilenceReleasesHost
    BY DEF Inv
  <1> QED  BY <1>1, Invariance, PTL

-------------------------------------------------------------------------------
(* Rates.                                                                  *)

\* After a retune the voice plays at the rate that was asked for.
LEMMA RetuneTunes ==
    ASSUME TypeOK, NEW d \in DAC, NEW r, Retune(d, r)
    PROVE  freq' = [freq EXCEPT ![d] = r]
  BY DEF Retune, OpenVoice, voices, TypeOK

\* The two halves of ProgrammedRateIsPlayed, which no handler mixes.
PcmRateIsPlayed == \/ freq["pcm"] = PlaybackFreq(codec)
                   \/ codec.front = DefaultRegs.front
AuxRateIsPlayed == \/ freq["aux"] = AuxFreq(codec)
                   \/ codec.surr = DefaultRegs.surr
                   \/ ~RateInRange(codec.surr)

\* A write of a rate register leaves the voice it governs at its rate, and the
\* other register and voice alone.
LEMMA RateWriteTunes ==
    ASSUME TypeOK, NEW w \in CodecWrites, WriteCodec(w[1], w[2])
    PROVE  /\ w[1] = "FRONT_RATE" => /\ freq'["pcm"] = PlaybackFreq(codec')
                                     /\ freq'["aux"] = freq["aux"]
                                     /\ codec'.surr = codec.surr
           /\ w[1] = "SURR_RATE" => /\ freq'["aux"] = AuxFreq(codec')
                                    /\ freq'["pcm"] = freq["pcm"]
                                    /\ codec'.front = codec.front
  <1>1. CASE w[1] = "FRONT_RATE"
    <2>1. /\ codec' = [codec EXCEPT !.front = w[2]]
          /\ Retune("pcm", PlaybackFreq(codec'))
      BY <1>1 DEF WriteCodec, CodecAfter
    <2>2. freq' = [freq EXCEPT !["pcm"] = PlaybackFreq(codec')]
      BY <2>1, RetuneTunes DEF DAC
    <2> QED  BY <1>1, <2>1, <2>2 DEF TypeOK, DAC
  <1>2. CASE w[1] = "SURR_RATE"
    <2>1. /\ codec' = [codec EXCEPT !.surr = w[2]]
          /\ Retune("aux", AuxFreq(codec'))
      BY <1>2 DEF WriteCodec, CodecAfter
    <2>2. freq' = [freq EXCEPT !["aux"] = AuxFreq(codec')]
      BY <2>1, RetuneTunes DEF DAC
    <2> QED  BY <1>2, <2>1, <2>2 DEF TypeOK, DAC
  <1> QED  BY <1>1, <1>2

\* No step parts a voice from its register, but for the resets that the two
\* formulas name.
LEMMA RateStep ==
    ASSUME TypeOK, [Next]_vars
    PROVE  /\ PcmRateIsPlayed => PcmRateIsPlayed'
           /\ AuxRateIsPlayed => AuxRateIsPlayed'
  <1> DEFINE Kept == /\ PcmRateIsPlayed => PcmRateIsPlayed'
                     /\ AuxRateIsPlayed => AuxRateIsPlayed'
  <1>0. ASSUME UNCHANGED <<codec, freq>> PROVE Kept
    BY <1>0 DEF PcmRateIsPlayed, AuxRateIsPlayed, PlaybackFreq, AuxFreq
  <1>d. ASSUME codec' = DefaultRegs PROVE Kept
    BY <1>d DEF PcmRateIsPlayed, AuxRateIsPlayed, DefaultRegs
  <1>1. ASSUME NEW g \in GcrWrites, WriteGcr(g) PROVE Kept
    BY <1>0, <1>d, <1>1 DEF WriteGcr, voices
  <1>2. ASSUME NEW w \in CodecWrites, WriteCodec(w[1], w[2]) PROVE Kept
    <2>1. CASE w[1] \in {"FRONT_RATE", "SURR_RATE"}
      BY <1>2, <2>1, RateWriteTunes
      DEF PcmRateIsPlayed, AuxRateIsPlayed, PlaybackFreq, AuxFreq
    <2>2. CASE w[1] = "RESET"
      BY <1>2, <1>d, <2>2 DEF WriteCodec, CodecAfter
    <2>3. CASE w[1] \notin {"FRONT_RATE", "SURR_RATE", "RESET"}
      <3>1. codec'.front = codec.front /\ codec'.surr = codec.surr
        BY <1>2, <2>3 DEF WriteCodec, CodecAfter, Digitise, TypeOK
      <3>2. freq' = freq
        BY <1>2, <2>3 DEF WriteCodec, voices
      <3> QED
        BY <3>1, <3>2 DEF PcmRateIsPlayed, AuxRateIsPlayed, PlaybackFreq, AuxFreq
    <2> QED  BY <2>1, <2>2, <2>3
  <1>3. ASSUME NEW bits \in GsrWrites, WriteGsr(bits) PROVE Kept
    BY <1>0, <1>3 DEF WriteGsr, voices
  <1>4. CASE ReadCodec
    BY <1>0, <1>4 DEF ReadCodec, voices
  <1>5. ASSUME NEW d \in DAC, ClearFifoStatus(d) PROVE Kept
    BY <1>0, <1>5 DEF ClearFifoStatus, registers, voices
  <1>6. ASSUME NEW d \in DAC, Push(d) PROVE Kept
    BY <1>0, <1>6 DEF Push, PushBody, Wake, SetActive, registers, voices
  <1>7. ASSUME NEW d \in DAC, NEW k \in 0..level[d], Callback(d, k) PROVE Kept
    BY <1>0, <1>7
    DEF Callback, IdleIfQuiet, SetActive, registers, voices
  <1>8. CASE Reset
    BY <1>d, <1>8 DEF Reset
  <1>9. CASE UNCHANGED vars
    BY <1>0, <1>9 DEF vars, registers, voices
  <1> QED
    BY <1>1, <1>2, <1>3, <1>4, <1>5, <1>6, <1>7, <1>8, <1>9
    DEF Next, GuestAccess

\* Only a reset of the codec or the fallback of the Aux rate parts the rate
\* the host plays from the rate the guest programmed, for all register values.
THEOREM RateIsPlayed == Spec => []ProgrammedRateIsPlayed
  <1> USE DEF ProgrammedRateIsPlayed, PcmRateIsPlayed, AuxRateIsPlayed
  <1>1. Init => ProgrammedRateIsPlayed
    BY DEF Init, DefaultRegs
  <1>2. Inv /\ ProgrammedRateIsPlayed /\ [Next]_vars => ProgrammedRateIsPlayed'
    BY RateStep DEF Inv
  <1> QED  BY <1>1, <1>2, Invariance, PTL DEF Spec

-------------------------------------------------------------------------------
(* The digitiser.                                                          *)

\* A conversion leaves the poll bit clear, and takes its word from the pack.
LEMMA PollBitReadsClear ==
    ASSUME NEW c \in [front : Word, surr : Word, dig1 : Word, adc : Word],
           NEW v \in Word, ~PollBit(c.dig1)
    PROVE  /\ ~PollBit(Digitise(c, v).dig1)
           /\ Digitise(c, v).adc \in {c.adc, Reading}
  <1>1. PollBit(v) => ~PollBit(v - POLL)
    BY SMT DEF PollBit, POLL, Word
  <1> QED  BY <1>1 DEF Digitise

LEMMA DefaultsAreClear == ~PollBit(DefaultRegs.dig1)
  BY SMT DEF DefaultRegs, PollBit, POLL

\* The codec's registers change by a write of one of them or by a reset.
LEMMA CodecSteps ==
    ASSUME [Next]_vars
    PROVE  \/ codec' = codec
           \/ codec' = DefaultRegs
           \/ \E w \in CodecWrites : codec' = CodecAfter(w[1], w[2])
  BY DEF Next, GuestAccess, WriteGcr, WriteCodec, WriteGsr, ReadCodec,
         ClearFifoStatus, Push, Callback, Reset, vars, registers

\* The guest's wait for the digitiser ends whatever it writes; it reads what the
\* user set if that fits the converter's 12 bits and the guest leaves the
\* converter's register alone.
THEOREM BatteryIsRead ==
    /\ Spec => []~PollBit(codec.dig1)
    /\ BatteryMv < 4096 /\ (\A w \in CodecWrites : w[1] # "DIGITISER_RD") /\ Spec
          => []BatteryReadsAsSet
  <1>1. Init => ~PollBit(codec.dig1)
    BY DefaultsAreClear DEF Init
  <1>2. Inv /\ ~PollBit(codec.dig1) /\ [Next]_vars => ~PollBit(codec.dig1)'
    <2> SUFFICES ASSUME TypeOK, ~PollBit(codec.dig1),
                        NEW w \in CodecWrites, codec' = CodecAfter(w[1], w[2])
                 PROVE  ~PollBit(codec'.dig1)
      BY CodecSteps, DefaultsAreClear DEF Inv
    <2>1. w[2] \in Word
      BY WritesAssumption
    <2>2. CASE w[1] = "DIG1"
      BY <2>1, <2>2, PollBitReadsClear DEF CodecAfter, TypeOK
    <2>3. CASE w[1] # "DIG1"
      BY <2>3, DefaultsAreClear DEF CodecAfter, TypeOK
    <2> QED  BY <2>2, <2>3
  <1>3. Spec => []~PollBit(codec.dig1)
    BY <1>1, <1>2, Invariance, PTL DEF Spec
  <1> DEFINE Undisturbed == /\ BatteryMv < 4096
                            /\ \A w \in CodecWrites : w[1] # "DIGITISER_RD"
             AdcInv == Undisturbed /\ codec.adc \in {DefaultRegs.adc, BatteryMv}
  <1>4. Undisturbed /\ Init => AdcInv
    BY DEF Init
  <1>5. Inv /\ ~PollBit(codec.dig1) /\ AdcInv /\ [Next]_vars => AdcInv'
    <2> SUFFICES ASSUME TypeOK, ~PollBit(codec.dig1), AdcInv,
                        NEW w \in CodecWrites, codec' = CodecAfter(w[1], w[2])
                 PROVE  codec'.adc \in {DefaultRegs.adc, BatteryMv}
      BY CodecSteps DEF Inv
    <2>1. w[2] \in Word
      BY WritesAssumption
    <2>2. Reading = BatteryMv
      BY BatteryAssumption, SMT DEF Reading
    <2>3. CASE w[1] = "DIG1"
      BY <2>1, <2>2, <2>3, PollBitReadsClear DEF CodecAfter, TypeOK
    <2>4. CASE w[1] \notin {"DIG1", "DIGITISER_RD"}
      BY <2>4 DEF CodecAfter, TypeOK
    <2> QED  BY <2>3, <2>4
  <1>6. Undisturbed /\ Spec => []AdcInv
    BY <1>3, <1>4, <1>5, Invariance, PTL DEF Spec
  <1>7. ~PollBit(codec.dig1) /\ AdcInv => BatteryReadsAsSet
    BY DEF BatteryReadsAsSet
  <1> QED  BY <1>3, <1>6, <1>7, PTL

-------------------------------------------------------------------------------
(* When the host never refuses a voice.                                    *)

\* Both voices stay open, queued frames keep a voice awake, and a voice that is
\* awake and drained has been through a quiet callback.
AudibleInv ==
    /\ OpenMayFail = FALSE
    /\ \A d \in DAC : voice[d]
    /\ \A d \in DAC : level[d] > 0 => active[d]
    /\ \A d \in DAC : drained[d] /\ active[d] => quiet[d] > 0

LEMMA AudibleInit == OpenMayFail = FALSE /\ Init => AudibleInv
  BY SMT DEF Init, AudibleInv

\* A retune of a host that never refuses keeps every voice open.
LEMMA RetuneKeepsOpen ==
    ASSUME TypeOK, AudibleInv, NEW d \in DAC, NEW r, Retune(d, r)
    PROVE  active' = active /\ \A e \in DAC : voice'[e]
  BY DEF Retune, OpenVoice, voices, TypeOK, AudibleInv

LEMMA AudibleStep == Inv /\ AudibleInv /\ [Next]_vars => AudibleInv'
  <1> SUFFICES ASSUME Inv, AudibleInv, [Next]_vars PROVE AudibleInv'
    OBVIOUS
  <1>t. TypeOK
    BY DEF Inv
  <1>0. ASSUME UNCHANGED <<voice, level, active, drained, quiet>> PROVE AudibleInv'
    BY <1>0 DEF AudibleInv
  <1>1. ASSUME NEW g \in GcrWrites, WriteGcr(g) PROVE AudibleInv'
    BY <1>0, <1>1 DEF WriteGcr, voices, queues
  <1>2. ASSUME NEW w \in CodecWrites, WriteCodec(w[1], w[2]) PROVE AudibleInv'
    <2>1. active' = active /\ \A e \in DAC : voice'[e]
      <3>1. \/ \E d \in DAC, r \in {PlaybackFreq(codec'), AuxFreq(codec')} : Retune(d, r)
            \/ UNCHANGED voices
        BY <1>2 DEF WriteCodec, DAC
      <3>2. CASE \E d \in DAC, r \in {PlaybackFreq(codec'), AuxFreq(codec')} : Retune(d, r)
        BY <1>t, <3>2, RetuneKeepsOpen
      <3>3. CASE UNCHANGED voices
        BY <3>3 DEF voices, AudibleInv
      <3> QED  BY <3>1, <3>2, <3>3
    <2>2. UNCHANGED <<level, drained, quiet>>
      BY <1>2 DEF WriteCodec, queues
    <2> QED  BY <2>1, <2>2 DEF AudibleInv
  <1>3. ASSUME NEW bits \in GsrWrites, WriteGsr(bits) PROVE AudibleInv'
    BY <1>0, <1>3 DEF WriteGsr, voices, queues
  <1>4. CASE ReadCodec
    BY <1>0, <1>4 DEF ReadCodec, voices, queues
  <1>5. ASSUME NEW d \in DAC, ClearFifoStatus(d) PROVE AudibleInv'
    BY <1>0, <1>5 DEF ClearFifoStatus, voices
  <1>6. ASSUME NEW d \in DAC, Push(d) PROVE AudibleInv'
    <2>1. /\ voice' = voice
          /\ active'[d]
          /\ drained'[d] = FALSE
          /\ \A e \in DAC \ {d} :
                /\ active'[e] = active[e] /\ level'[e] = level[e]
                /\ drained'[e] = drained[e] /\ quiet'[e] = quiet[e]
      BY <1>t, <1>6
      DEF Push, PushBody, DrainedAfterPush, Wake, SetActive, voices, TypeOK,
          AudibleInv
    <2> QED  BY <2>1 DEF AudibleInv
  <1>7. ASSUME NEW d \in DAC, NEW k \in 0..level[d], Callback(d, k)
        PROVE AudibleInv'
    <2>1. /\ voice' = voice
          /\ \A e \in DAC \ {d} :
                /\ active'[e] = active[e] /\ level'[e] = level[e]
                /\ drained'[e] = drained[e] /\ quiet'[e] = quiet[e]
      BY <1>t, <1>7
      DEF Callback, IdleIfQuiet, SetActive, voices, TypeOK
    <2>2. /\ level'[d] \in 0..FIFO_FRAMES
          /\ drained'[d] = (level'[d] = 0)
          /\ drained'[d] => quiet'[d] > 0
      <3>1. level'[d] = level[d] - k /\ level'[d] \in 0..FIFO_FRAMES
        BY <1>t, <1>7, FifoAssumption, SMT DEF Callback, TypeOK
      <3>2. quiet'[d] = IF level'[d] > 0 THEN 0
                        ELSE IF quiet[d] < 2 THEN quiet[d] + 1 ELSE 2
        BY <1>t, <1>7 DEF Callback, TypeOK
      <3>3. drained'[d] = (level'[d] = 0)
        BY <1>t, <1>7 DEF Callback, TypeOK
      <3>4. quiet[d] \in 0..2
        BY <1>t DEF TypeOK
      <3>5. level'[d] = 0 => quiet'[d] > 0
        BY <3>2, <3>4, SMT
      <3> QED  BY <3>1, <3>3, <3>5
    <2>3. active[d]
      BY <1>7 DEF Callback, Called, Inv, HostTracksFlag
    <2>4. level'[d] > 0 => active'[d]
      <3>1. level'[d] > 0 => level'[d] # 0
        BY SMT
      <3>2. level'[d] # 0 => active' = active
        BY <1>7, Zenon DEF Callback, IdleIfQuiet, voices
      <3> QED  BY <2>3, <3>1, <3>2
    <2> QED  BY <2>1, <2>2, <2>4 DEF AudibleInv
  <1>8. CASE Reset
    <2>1. \A d \in DAC : voice'[d] /\ level'[d] = 0 /\ active'[d] = FALSE
      BY <1>t, <1>8 DEF Reset, StoppedByReset, TypeOK, AudibleInv
    <2> QED  BY <2>1, SMT DEF AudibleInv
  <1>9. CASE UNCHANGED vars
    BY <1>0, <1>9 DEF vars, voices, queues
  <1> QED
    BY <1>1, <1>2, <1>3, <1>4, <1>5, <1>6, <1>7, <1>8, <1>9
    DEF Next, GuestAccess

LEMMA AudibleInvariance == OpenMayFail = FALSE /\ Spec => [](Inv /\ AudibleInv)
  BY AudibleInit, AudibleStep, Invariance, PTL DEF Spec

\* While the host grants every voice, no frame is ever stuck in a ring whose
\* voice sleeps: neither a rate change nor the idling of a quiet voice can
\* strand what the guest has queued.
THEOREM QueuedFramesAreHeard == OpenMayFail = FALSE /\ Spec => []QueuedIsAudible
  <1>1. Inv /\ AudibleInv => QueuedIsAudible
    BY DEF Inv, AudibleInv, HostTracksFlag, QueuedIsAudible
  <1> QED  BY <1>1, AudibleInvariance, PTL

\* But for a reset, only a callback that found the ring empty before and finds it
\* empty again idles a voice.
LEMMA OnlyACallbackIdles ==
    ASSUME Inv, [Next]_vars, ~Reset, NEW d \in DAC, active[d], ~active'[d]
    PROVE  drained[d] /\ (quiet[d] > 0 => quiet'[d] = 2)
  <1>t. TypeOK
    BY DEF Inv
  <1>1. ASSUME NEW e \in DAC, NEW k \in 0..level[e], Callback(e, k)
        PROVE  drained[d] /\ (quiet[d] > 0 => quiet'[d] = 2)
    <2>1. e = d /\ level'[d] = 0 /\ drained[d]
      BY <1>t, <1>1
      DEF Callback, IdleIfQuiet, MustIdle, SetActive, voices, TypeOK
    <2>2. quiet[d] \in 0..2
      BY <1>t DEF TypeOK
    <2>3. quiet'[d] = IF level'[d] > 0 THEN 0
                      ELSE IF quiet[d] < 2 THEN quiet[d] + 1 ELSE 2
      BY <1>t, <1>1, <2>1 DEF Callback, TypeOK
    <2>4. quiet[d] > 0 => quiet'[d] = 2
      BY <2>1, <2>2, <2>3, SMT
    <2> QED  BY <2>1, <2>4
  <1>2. ASSUME NEW w \in CodecWrites, WriteCodec(w[1], w[2]) PROVE FALSE
    <2>1. \/ \E e \in DAC, r \in {PlaybackFreq(codec'), AuxFreq(codec')} : Retune(e, r)
          \/ UNCHANGED voices
      BY <1>2 DEF WriteCodec, DAC
    <2> QED  BY <2>1 DEF Retune, OpenVoice, voices
  <1>3. ASSUME NEW e \in DAC, Push(e) PROVE FALSE
    BY <1>t, <1>3 DEF Push, PushBody, Wake, SetActive, voices, TypeOK
  <1>4. ASSUME UNCHANGED active PROVE FALSE
    BY <1>4
  <1> QED
    BY <1>1, <1>2, <1>3, <1>4
    DEF Next, GuestAccess, WriteGcr, WriteGsr, ReadCodec, ClearFifoStatus,
        voices, vars

\* And a voice is idled by its second quiet callback, by nothing else but a
\* reset, and never by the callback that played its last frame.
THEOREM VoiceOutlivesOneQuietCallback ==
    OpenMayFail = FALSE /\ Spec => IdlesAfterTwoQuietCallbacks
  <1> DEFINE A == Reset \/ \A d \in DAC : active[d] /\ ~active'[d] => quiet'[d] = 2
  <1>1. Inv /\ AudibleInv /\ [Next]_vars => [A]_vars
    BY OnlyACallbackIdles DEF AudibleInv
  <1> QED
    BY <1>1, AudibleInvariance, PTL DEF Spec, IdlesAfterTwoQuietCallbacks
--------------------------------------------------------------------------------
(* Snapshots.                                                              *)

\* Whatever process loads the snapshot, its voices are at rates of the host.
LEMMA HostRatesInRange == HostRates \subseteq VoiceRate
  <1>1. MAX_RATE \in VoiceRate
    BY SMT DEF MAX_RATE, MIN_RATE, VoiceRate
  <1>2. ASSUME NEW w \in CodecWrites, RateInRange(w[2]) PROVE w[2] \in VoiceRate
    <2>1. w[2] \in Nat
      BY WritesAssumption DEF Word
    <2> QED  BY <1>2, <2>1, SMT DEF RateInRange, VoiceRate, MIN_RATE, MAX_RATE
  <1> QED  BY <1>1, <1>2 DEF HostRates

\* A load leaves the controller as its handlers do.
LEMMA RestoreStep ==
    ASSUME VoiceInv, QueueInv, RegisterInv, IrqInv, Restore
    PROVE  VoiceInv' /\ QueueInv' /\ RegisterInv' /\ IrqInv'
  <1>1. VoiceInv'
    <2>1. freq' \in [DAC -> VoiceRate]
      BY HostRatesInRange DEF Restore
    <2>2. voice' \in [DAC -> BOOLEAN] /\ active' = active
      BY DEF Restore, SavedFields
    <2>3. /\ hostActive' \in [DAC -> BOOLEAN]
          /\ \A d \in DAC : hostActive'[d] = (voice'[d] /\ active'[d])
      BY <2>2, Zenon DEF Restore, TellHost
    <2> QED  BY <2>1, <2>2, <2>3 DEF VoiceInv, HostTracksFlag
  <1>2. QueueInv'
    <2>1. UNCHANGED <<fu, level, quiet, active>> /\ drained' = [d \in DAC |-> TRUE]
      BY DEF Restore, SavedFields
    <2> QED  BY <2>1 DEF QueueInv, QuietIsDrained, SilenceReleasesHost
  <1>3. RegisterInv' /\ IrqInv'
    BY RegistersLeftAlone, IrqLeftAlone DEF Restore, SavedFields, registers
  <1> QED  BY <1>1, <1>2, <1>3

LEMMA SnapshotInvariance == SnapshotSpec => []Inv
  <1>1. SnapshotInit => Inv
    BY InvInit DEF SnapshotInit
  <1>2. Inv /\ [SnapshotNext]_snapshotVars => Inv'
    <2> SUFFICES ASSUME Inv, [SnapshotNext]_snapshotVars PROVE Inv'
      OBVIOUS
    <2>1. CASE Load
      <3>1. VoiceInv /\ QueueInv /\ RegisterInv /\ IrqInv
        BY InvInParts
      <3>2. VoiceInv' /\ QueueInv' /\ RegisterInv' /\ IrqInv'
        BY <2>1, <3>1, RestoreStep DEF Load
      <3>3. VoiceInv' /\ QueueInv' /\ RegisterInv' /\ IrqInv' => Inv'
        BY InvInParts, PTL
      <3> QED  BY <3>2, <3>3
    <2>2. CASE [Next]_vars
      BY <2>2, InvStep
    <2> QED  BY <2>1, <2>2 DEF SnapshotNext, Run, snapshotVars
  <1> QED  BY <1>1, <1>2, PTL DEF SnapshotSpec

\* What the device believes of a voice is what the host was told, through any
\* number of loads, also of snapshots taken with a voice that failed to open.
THEOREM RestoredHostIsInformed == SnapshotSpec => []HostTracksFlag
  <1>1. Inv => HostTracksFlag
    BY DEF Inv
  <1> QED  BY <1>1, SnapshotInvariance, PTL
-------------------------------------------------------------------------------
(* Queued frames are called for.                                           *)

\* A voice that was never lost is open, and active while frames wait for it.
HeardInv == \A d \in DAC \ deaf : voice[d] /\ (level[d] > 0 => active[d])

\* A step of the machine that loses no voice d strands no frame of it.
LEMMA RunKeepsHeard ==
    ASSUME Inv, Next, NEW d \in DAC, voice[d], level[d] > 0 => active[d],
           voice'[d], level'[d] > 0
    PROVE  active'[d]
  <1>t. TypeOK
    BY DEF Inv
  <1>0. ASSUME level' = level, active' = active PROVE active'[d]
    BY <1>0
  <1>1. ASSUME NEW g \in GcrWrites, WriteGcr(g) PROVE active'[d]
    BY <1>0, <1>1 DEF WriteGcr, voices, queues
  <1>2. ASSUME NEW w \in CodecWrites, WriteCodec(w[1], w[2]) PROVE active'[d]
    <2>1. active' = active
      <3>1. \/ \E e \in DAC, r \in {PlaybackFreq(codec'), AuxFreq(codec')} : Retune(e, r)
            \/ UNCHANGED voices
        BY <1>2 DEF WriteCodec, DAC
      <3> QED  BY <3>1 DEF Retune, OpenVoice, voices
    <2> QED  BY <1>0, <1>2, <2>1 DEF WriteCodec, queues
  <1>3. ASSUME NEW bits \in GsrWrites, WriteGsr(bits) PROVE active'[d]
    BY <1>0, <1>3 DEF WriteGsr, voices, queues
  <1>4. CASE ReadCodec
    BY <1>0, <1>4 DEF ReadCodec, voices, queues
  <1>5. ASSUME NEW e \in DAC, ClearFifoStatus(e) PROVE active'[d]
    BY <1>0, <1>5 DEF ClearFifoStatus, voices
  <1>6. ASSUME NEW e \in DAC, Push(e) PROVE active'[d]
    <2>1. CASE e = d
      BY <1>t, <1>6, <2>1 DEF Push, PushBody, Wake, SetActive, voices, TypeOK
    <2>2. CASE e # d
      <3>1. level'[d] = level[d] /\ active'[d] = active[d]
        BY <1>t, <1>6, <2>2 DEF Push, PushBody, Wake, SetActive, voices, TypeOK
      <3> QED  BY <3>1
    <2> QED  BY <2>1, <2>2
  <1>7. ASSUME NEW e \in DAC, NEW k \in 0..level[e], Callback(e, k)
        PROVE active'[d]
    <2>1. CASE e = d
      <3>1. active[d]
        BY <1>7, <2>1 DEF Callback, Called, Inv, HostTracksFlag
      <3>2. level'[d] # 0
        BY SMT
      <3>3. active' = active
        BY <1>7, <2>1, <3>2, Zenon DEF Callback, IdleIfQuiet, voices
      <3> QED  BY <3>1, <3>3
    <2>2. CASE e # d
      <3>1. level'[d] = level[d] /\ active'[d] = active[d]
        BY <1>t, <1>7, <2>2
        DEF Callback, IdleIfQuiet, SetActive, voices, TypeOK
      <3> QED  BY <3>1
    <2> QED  BY <2>1, <2>2
  <1>8. CASE Reset
    <2>1. level'[d] = 0
      BY <1>8 DEF Reset
    <2> QED  BY <2>1, SMT
  <1> QED
    BY <1>1, <1>2, <1>3, <1>4, <1>5, <1>6, <1>7, <1>8
    DEF Next, GuestAccess

\* However often the machine is saved and loaded, every voice that never failed
\* to open is there, and is awake while frames are queued for it.
LEMMA HeardInvariance == SnapshotSpec => []HeardInv
  <1>1. SnapshotInit => HeardInv
    BY SMT DEF SnapshotInit, Init, HeardInv
  <1>2. Inv /\ HeardInv /\ [SnapshotNext]_snapshotVars => HeardInv'
    <2> SUFFICES ASSUME Inv, HeardInv, [SnapshotNext]_snapshotVars,
                        NEW d \in DAC, d \notin deaf'
                 PROVE  voice'[d] /\ (level'[d] > 0 => active'[d])
      BY DEF HeardInv
    <2>1. CASE Run
      <3>1. d \notin deaf /\ voice'[d]
        BY <2>1 DEF Run
      <3>2. voice[d] /\ (level[d] > 0 => active[d])
        BY <3>1 DEF HeardInv
      <3> QED  BY <2>1, <3>1, <3>2, RunKeepsHeard DEF Run
    <2>2. CASE Load
      <3>1. d \notin deaf /\ voice'[d] /\ UNCHANGED <<level, active>>
        BY <2>2 DEF Load, Restore, SavedFields
      <3> QED  BY <3>1 DEF HeardInv
    <2>3. CASE UNCHANGED snapshotVars
      BY <2>3 DEF snapshotVars, vars, voices, queues, HeardInv
    <2> QED  BY <2>1, <2>2, <2>3 DEF SnapshotNext
  <1> QED  BY <1>1, <1>2, SnapshotInvariance, PTL DEF SnapshotSpec

\* A restored machine goes on playing, for every depth of the rings and however
\* often it is saved and loaded: no frame is stuck behind a voice that sleeps,
\* unless the host refused to open it at some time.
THEOREM RestoredFramesAreHeard == SnapshotSpec => []RestoredIsAudible
  <1>1. Inv /\ HeardInv => RestoredIsAudible
    BY DEF Inv, HeardInv, HostTracksFlag, RestoredIsAudible
  <1> QED  BY <1>1, SnapshotInvariance, HeardInvariance, PTL
-------------------------------------------------------------------------------
(* Rates.                                                                  *)

\* A voice whose rate was written since the load is at the rate of its register.
RateInv == /\ "pcm" \in astray \/ PcmRateIsPlayed
           /\ "aux" \in astray \/ AuxRateIsPlayed

\* A write of the rate register ends what a load has left open.
LEMMA WrittenRateIsPlayed ==
    ASSUME TypeOK, NEW d \in DAC, RateWritten(d)
    PROVE  /\ d = "pcm" => PcmRateIsPlayed'
           /\ d = "aux" => AuxRateIsPlayed'
  <1>1. PICK w \in CodecWrites : w[1] = RateRegister[d] /\ WriteCodec(w[1], w[2])
    BY DEF RateWritten
  <1>2. CASE d = "pcm"
    <2>1. w[1] = "FRONT_RATE"
      BY <1>1, <1>2 DEF RateRegister
    <2> QED  BY <1>1, <1>2, <2>1, RateWriteTunes DEF PcmRateIsPlayed
  <1>3. CASE d = "aux"
    <2>1. w[1] = "SURR_RATE"
      BY <1>1, <1>3 DEF RateRegister
    <2> QED  BY <1>1, <1>3, <2>1, RateWriteTunes DEF AuxRateIsPlayed
  <1> QED  BY <1>2, <1>3 DEF DAC

\* A snapshot does not hold the rates of the voices; the guest's next write of a
\* rate puts its voice right, even one that repeats what the register holds, and
\* no later step parts the two but the resets that ProgrammedRateIsPlayed names.
THEOREM WriteRestoresRate == SnapshotSpec => []RestoredRateIsPlayed
  <1>1. SnapshotInit => RateInv
    BY DEF SnapshotInit, Init, RateInv, PcmRateIsPlayed, AuxRateIsPlayed, DefaultRegs
  <1>2. Inv /\ RateInv /\ [SnapshotNext]_snapshotVars => RateInv'
    <2> SUFFICES ASSUME TypeOK, RateInv, [SnapshotNext]_snapshotVars PROVE RateInv'
      BY DEF Inv
    <2>1. CASE Run
      <3>1. \A d \in DAC : d \in astray' \/ d \notin astray \/ RateWritten(d)
        BY <2>1 DEF Run
      <3>2. "pcm" \in astray' \/ PcmRateIsPlayed'
        BY <2>1, <3>1, RateStep, WrittenRateIsPlayed DEF Run, RateInv, DAC
      <3>3. "aux" \in astray' \/ AuxRateIsPlayed'
        BY <2>1, <3>1, RateStep, WrittenRateIsPlayed DEF Run, RateInv, DAC
      <3> QED  BY <3>2, <3>3 DEF RateInv
    <2>2. CASE Load
      BY <2>2 DEF Load, RateInv, DAC
    <2>3. CASE UNCHANGED snapshotVars
      BY <2>3, RateStep DEF snapshotVars, RateInv
    <2> QED  BY <2>1, <2>2, <2>3 DEF SnapshotNext
  <1>3. RateInv => RestoredRateIsPlayed
    BY DEF RateInv, PcmRateIsPlayed, AuxRateIsPlayed, RestoredRateIsPlayed
  <1> QED  BY <1>1, <1>2, <1>3, SnapshotInvariance, PTL DEF SnapshotSpec
-------------------------------------------------------------------------------
(* Idling.                                                                 *)

\* An active voice that was drained has been through a quiet callback, unless a
\* load has just set drained_last_cb.
CountedInv == \A d \in DAC \ (fresh \cup deaf) :
                  drained[d] /\ active[d] => quiet[d] > 0

\* A step of the machine leaves an open voice as it is, or counts its callback.
LEMMA QuietIsCounted ==
    ASSUME Inv, Next, NEW d \in DAC, voice[d]
    PROVE  \/ /\ drained'[d] = drained[d] /\ active'[d] = active[d]
              /\ quiet'[d] = quiet[d]
           \/ drained'[d] /\ active'[d] => quiet'[d] > 0
  <1> DEFINE Kept == /\ drained'[d] = drained[d] /\ active'[d] = active[d]
                     /\ quiet'[d] = quiet[d]
             Counted == drained'[d] /\ active'[d] => quiet'[d] > 0
  <1>t. TypeOK
    BY DEF Inv
  <1>0. ASSUME UNCHANGED <<drained, active, quiet>> PROVE Kept
    BY <1>0
  <1>1. ASSUME NEW g \in GcrWrites, WriteGcr(g) PROVE Kept
    BY <1>0, <1>1 DEF WriteGcr, voices, queues
  <1>2. ASSUME NEW w \in CodecWrites, WriteCodec(w[1], w[2]) PROVE Kept
    <2>1. active' = active
      <3>1. \/ \E e \in DAC, r \in {PlaybackFreq(codec'), AuxFreq(codec')} : Retune(e, r)
            \/ UNCHANGED voices
        BY <1>2 DEF WriteCodec, DAC
      <3> QED  BY <3>1 DEF Retune, OpenVoice, voices
    <2> QED  BY <1>0, <1>2, <2>1 DEF WriteCodec, queues
  <1>3. ASSUME NEW bits \in GsrWrites, WriteGsr(bits) PROVE Kept
    BY <1>0, <1>3 DEF WriteGsr, voices, queues
  <1>4. CASE ReadCodec
    BY <1>0, <1>4 DEF ReadCodec, voices, queues
  <1>5. ASSUME NEW e \in DAC, ClearFifoStatus(e) PROVE Kept
    BY <1>0, <1>5 DEF ClearFifoStatus, voices
  <1>6. ASSUME NEW e \in DAC, Push(e) PROVE Kept \/ Counted
    <2>1. CASE e = d
      BY <1>t, <1>6, <2>1 DEF Push, PushBody, DrainedAfterPush, TypeOK
    <2>2. CASE e # d
      BY <1>t, <1>6, <2>2 DEF Push, PushBody, Wake, SetActive, voices, TypeOK
    <2> QED  BY <2>1, <2>2
  <1>7. ASSUME NEW e \in DAC, NEW k \in 0..level[e], Callback(e, k)
        PROVE Kept \/ Counted
    <2>1. CASE e = d
      <3>1. quiet'[d] = IF level'[d] > 0 THEN 0
                        ELSE IF quiet[d] < 2 THEN quiet[d] + 1 ELSE 2
        BY <1>t, <1>7, <2>1 DEF Callback, TypeOK
      <3>2. drained'[d] = (level'[d] = 0) /\ quiet[d] \in 0..2
        BY <1>t, <1>7, <2>1 DEF Callback, TypeOK
      <3>3. level'[d] = 0 => quiet'[d] > 0
        BY <3>1, <3>2, SMT
      <3> QED  BY <3>2, <3>3
    <2>2. CASE e # d
      BY <1>t, <1>7, <2>2
      DEF Callback, IdleIfQuiet, SetActive, voices, TypeOK
    <2> QED  BY <2>1, <2>2
  <1>8. CASE Reset
    BY <1>8 DEF Reset, StoppedByReset
  <1> QED
    BY <1>1, <1>2, <1>3, <1>4, <1>5, <1>6, <1>7, <1>8
    DEF Next, GuestAccess

\* A snapshot forgets the quiet callback that came before it, so the first one
\* after a load may idle a voice; from then on it takes two again.
THEOREM OnlyTheFirstIdlesEarly == SnapshotSpec => RestoredIdlesOnceEarly
  <1>1. SnapshotInit => CountedInv
    BY SMT DEF SnapshotInit, Init, CountedInv
  <1>2. Inv /\ HeardInv /\ CountedInv /\ [SnapshotNext]_snapshotVars
        => CountedInv'
    <2> SUFFICES ASSUME Inv, HeardInv, CountedInv, [SnapshotNext]_snapshotVars,
                        NEW d \in DAC, d \notin fresh', d \notin deaf'
                 PROVE  drained'[d] /\ active'[d] => quiet'[d] > 0
      BY DEF CountedInv
    <2>1. CASE Run
      <3>1. d \notin deaf
        BY <2>1 DEF Run
      <3>2. \/ d \notin fresh
            \/ ~drained'[d]
            \/ quiet'[d] # quiet[d]
        BY <2>1 DEF Run
      <3>3. voice[d]
        BY <3>1 DEF HeardInv
      <3> QED  BY <2>1, <3>1, <3>2, <3>3, QuietIsCounted DEF Run, CountedInv
    <2>2. CASE Load
      BY <2>2 DEF Load
    <2>3. CASE UNCHANGED snapshotVars
      BY <2>3 DEF snapshotVars, vars, voices, queues, CountedInv
    <2> QED  BY <2>1, <2>2, <2>3 DEF SnapshotNext
  <1> DEFINE A == \A d \in DAC : active[d] /\ ~active'[d] => \/ quiet'[d] = 2
                                                             \/ d \in fresh \cup deaf
                                                             \/ Reset
  <1>3. Inv /\ CountedInv /\ [SnapshotNext]_snapshotVars => [A]_snapshotVars
    <2> SUFFICES ASSUME Inv, CountedInv, SnapshotNext, ~Reset,
                        NEW d \in DAC, active[d], ~active'[d],
                        d \notin fresh, d \notin deaf
                 PROVE  quiet'[d] = 2
      BY Zenon
    <2>1. ~Load
      BY DEF Load, Restore, SavedFields
    <2> QED  BY <2>1, OnlyACallbackIdles DEF SnapshotNext, Run, CountedInv
  <1> QED
    BY <1>1, <1>2, <1>3, SnapshotInvariance, HeardInvariance, PTL
    DEF SnapshotSpec, RestoredIdlesOnceEarly
===============================================================================
