--------------------------------- MODULE Ac97 ---------------------------------
(***************************************************************************)
(* The PXA27x AC97 controller with its WM9713 codec (pxa2xx_ac97.c): the   *)
(* register file the guest sees, the two playback DACs, the host voices    *)
(* behind them and the interrupt line.                                     *)
(*                                                                         *)
(* The DACs are "pcm" (PCDR, stereo) and "aux" (MODR, mono).  What their   *)
(* rings hold is PlaybackFifo's business; here a ring is its level.        *)
(*                                                                         *)
(* An action is what a handler does to the registers, the rings and the    *)
(* voices.  The update of the DMA request lines that most handlers end     *)
(* with (pxa2xx_ac97_update_dma) is not one step: driving a line runs the  *)
(* DMA engine, whose frames are further writes of the guest's data         *)
(* registers.  Module Ac97Dma adds that update to these actions, step by   *)
(* step; nothing here depends on a request line.                           *)
(*                                                                         *)
(* QEMU's big lock keeps guest accesses, timers and audio callbacks from   *)
(* running at the same time.                                               *)
(***************************************************************************)
EXTENDS Integers, FiniteSets

CONSTANTS FIFO_FRAMES,             \* depth of each ring (4096)
          BatteryMv,               \* the device's battery-mv property
          GcrWrites,               \* values the guest writes to GCR
          GsrWrites,               \* values the guest writes to GSR
          CodecWrites,             \* <<register, value>> the guest writes
          OpenMayFail              \* AUD_open_out may return NULL

GcrBit == {"GIE", "COLD_RST", "WARM_RST", "ACLINK_OFF", "nDMAEN",
           "CDONE_IE", "SDONE_IE", "PRIRDY_IEN", "SECRDY_IEN",
           "PRIRES_IEN", "SECRES_IEN"}
GsrBit == {"CDONE", "SDONE", "PCR", "SCR", "PRIRES", "SECRES"}
CodecReg == {"RESET", "FRONT_RATE", "SURR_RATE", "DIG1", "DIGITISER_RD",
             "VENDOR_ID", "OTHER"}
Word == {v \in Nat : v < 65536}     \* a 16-bit register
DAC == {"pcm", "aux"}

ASSUME FifoAssumption == FIFO_FRAMES \in Nat \ {0}
ASSUME BatteryAssumption == BatteryMv \in Nat
ASSUME WritesAssumption == /\ GcrWrites \subseteq SUBSET GcrBit
                           /\ GsrWrites \subseteq SUBSET GsrBit
                           /\ CodecWrites \subseteq CodecReg \X Word
                           /\ OpenMayFail \in BOOLEAN

VARIABLES gcr, gsr,      \* the global control and status registers, as bit sets
          fu,            \* the FU bits of POSR and MOSR
          codec,         \* the codec registers something depends on
          freq,          \* freq, aux_freq: rate asked of the host
          voice,         \* voice, aux_voice are not NULL
          active,        \* voice_active, aux_active
          hostActive,    \* what the host was last told (AUD_set_active_out)
          drained,       \* drained_last_cb, aux_drained_last_cb
          level,         \* fifo_level, aux_level
          irq,           \* the interrupt line
          quiet          \* history: callbacks since the last frame (or reset)
                         \* that ended with nothing queued, up to two

registers == <<gcr, gsr, codec>>
voices == <<freq, voice, active, hostActive>>
queues == <<fu, drained, level, quiet>>
vars == <<registers, voices, queues, irq>>

MAX_RATE == 48000
MIN_RATE == 4000
VoiceRate == {r \in Nat : MIN_RATE <= r /\ r <= MAX_RATE}

TypeOK == /\ gcr \subseteq GcrBit
          /\ gsr \subseteq GsrBit
          /\ fu \in [DAC -> BOOLEAN]
          /\ codec \in [front : Word, surr : Word, dig1 : Word, adc : Word]
          /\ freq \in [DAC -> VoiceRate]
          /\ voice \in [DAC -> BOOLEAN]
          /\ active \in [DAC -> BOOLEAN]
          /\ hostActive \in [DAC -> BOOLEAN]
          /\ drained \in [DAC -> BOOLEAN]
          /\ level \in [DAC -> 0..FIFO_FRAMES]
          /\ irq \in BOOLEAN
          /\ quiet \in [DAC -> 0..2]
-------------------------------------------------------------------------------
(* Interrupt line.                                                         *)

\* The status bit each enable bit lets through.
Enables == [CDONE_IE |-> "CDONE", SDONE_IE |-> "SDONE", PRIRDY_IEN |-> "PCR",
            SECRDY_IEN |-> "SCR", PRIRES_IEN |-> "PRIRES",
            SECRES_IEN |-> "SECRES"]

IrqLevel(g, st) ==
    "GIE" \in g /\ \E e \in g \cap DOMAIN Enables : Enables[e] \in st

UpdateIrq == irq' = IrqLevel(gcr', gsr')

(* Sample rates.                                                           *)

RateInRange(r) == r >= MIN_RATE /\ r <= MAX_RATE

PlaybackFreq(c) == IF RateInRange(c.front) THEN c.front ELSE MAX_RATE

AuxFreq(c) == IF RateInRange(c.surr) THEN c.surr ELSE PlaybackFreq(c)

\* wm9713_default_regs, at the registers this module tracks.
DefaultRegs == [front |-> 48000, surr |-> 48000, dig1 |-> 0, adc |-> 0]
-------------------------------------------------------------------------------
\* The machine after realize and the first reset: both voices open and idle.
Init == /\ gcr = {} /\ gsr = {}
        /\ fu = [d \in DAC |-> FALSE]
        /\ codec = DefaultRegs
        /\ freq = [d \in DAC |-> MAX_RATE]
        /\ voice = [d \in DAC |-> TRUE]
        /\ active = [d \in DAC |-> FALSE]
        /\ hostActive = [d \in DAC |-> FALSE]
        /\ drained = [d \in DAC |-> TRUE]
        /\ level = [d \in DAC |-> 0]
        /\ irq = FALSE
        /\ quiet = [d \in DAC |-> 0]
-------------------------------------------------------------------------------
(* The guest writes the codec.                                             *)

\* pxa2xx_ac97_open_voice, pxa2xx_ac97_open_aux_voice: the host replaces the
\* voice, and the new one is idle until it is told otherwise.
OpenVoice(d, rate, on) ==
    \E opened \in (IF OpenMayFail THEN BOOLEAN ELSE {TRUE}) :
        /\ freq' = [freq EXCEPT ![d] = rate]
        /\ voice' = [voice EXCEPT ![d] = opened]
        /\ hostActive' = [hostActive EXCEPT ![d] = opened /\ on]
        /\ UNCHANGED active

\* Mutations: the new voice is left idle; an active voice is not reopened.
RetuneLeavesIdle(d, rate) ==
    IF rate # freq[d] THEN OpenVoice(d, rate, FALSE) ELSE UNCHANGED voices
RetuneOnlyWhenIdle(d, rate) ==
    IF rate # freq[d] /\ ~active[d] THEN OpenVoice(d, rate, FALSE)
                                     ELSE UNCHANGED voices

\* The open voice of d keeps up with a rate register the guest just wrote.
Retune(d, rate) ==
    IF rate # freq[d] THEN OpenVoice(d, rate, active[d])
                      ELSE UNCHANGED voices

POLL == 512     \* WM9713_DIG1_POLL

PollBit(v) == (v \div POLL) % 2 = 1

Reading == BatteryMv % 4096     \* battery_mv & WM9713_ADC_MASK

\* Mutation: the guest's poll bit is stored as written.
DigitiseKeepsPoll(c, v) == IF PollBit(v) THEN [c EXCEPT !.dig1 = v, !.adc = Reading]
                                         ELSE [c EXCEPT !.dig1 = v]

\* A conversion completes at once: the poll bit reads back clear.
Digitise(c, v) == IF PollBit(v) THEN [c EXCEPT !.dig1 = v - POLL, !.adc = Reading]
                                ELSE [c EXCEPT !.dig1 = v]

CodecAfter(reg, v) ==
    CASE reg = "RESET" -> DefaultRegs
      [] reg = "FRONT_RATE" -> [codec EXCEPT !.front = v]
      [] reg = "SURR_RATE" -> [codec EXCEPT !.surr = v]
      [] reg = "DIG1" -> Digitise(codec, v)
      [] reg = "DIGITISER_RD" -> [codec EXCEPT !.adc = v]
      [] OTHER -> codec

WriteCodec(reg, v) ==
    /\ codec' = CodecAfter(reg, v)
    /\ CASE reg = "FRONT_RATE" -> Retune("pcm", PlaybackFreq(codec'))
         [] reg = "SURR_RATE" -> Retune("aux", AuxFreq(codec'))
         [] OTHER -> UNCHANGED voices
    /\ gsr' = gsr \cup {"CDONE"}
    /\ UNCHANGED <<gcr, queues>>
    /\ UpdateIrq

\* Reading any codec register completes at once as well.
ReadCodec ==
    /\ gsr' = gsr \cup {"SDONE"}
    /\ UNCHANGED <<gcr, codec, voices, queues>>
    /\ UpdateIrq
-------------------------------------------------------------------------------
(* The guest writes the controller.                                        *)

\* Taking a reset line high with the link on makes the codec report ready;
\* a cold reset also restores its registers.
ResetLinesHigh(g) == /\ g \cap {"COLD_RST", "WARM_RST"} # {}
                     /\ "ACLINK_OFF" \notin g

ColdReset(g) == ResetLinesHigh(g) /\ "COLD_RST" \in g \ gcr

WriteGcr(g) ==
    /\ gcr' = g
    /\ codec' = IF ColdReset(g) THEN DefaultRegs ELSE codec
    /\ gsr' = IF ResetLinesHigh(g) THEN gsr \cup {"PCR"} ELSE gsr
    /\ UNCHANGED <<voices, queues>>
    /\ UpdateIrq

\* Mutation: acknowledging a status bit leaves the line up.
WriteGsrForgetsIrq(bits) ==
    /\ gsr' = gsr \ bits
    /\ UNCHANGED <<gcr, codec, voices, queues, irq>>

\* Write one to clear.
WriteGsr(bits) ==
    /\ gsr' = gsr \ bits
    /\ UNCHANGED <<gcr, codec, voices, queues>>
    /\ UpdateIrq

\* A write of POSR or MOSR with FU set.
ClearFifoStatus(d) ==
    /\ fu' = [fu EXCEPT ![d] = FALSE]
    /\ UNCHANGED <<registers, voices, drained, level, quiet, irq>>
-------------------------------------------------------------------------------
(* Frames in, frames out.                                                  *)

SetActive(d, on) ==
    /\ active' = [active EXCEPT ![d] = on]
    /\ hostActive' = [hostActive EXCEPT ![d] = on]
    /\ UNCHANGED <<freq, voice>>

\* The first frame after an idle spell wakes the voice.
Wake(d) == IF voice[d] /\ ~active[d] THEN SetActive(d, TRUE)
                                     ELSE UNCHANGED voices

\* Mutation: no room is made on an overrun.
LevelWithoutDrop(d, n) == level[d] + n

Overruns(d, n) == n > FIFO_FRAMES - level[d]

\* An overrun drops the oldest frame and leaves the ring full.
LevelAfterPush(d, n) == IF Overruns(d, n) THEN FIFO_FRAMES ELSE level[d] + n

DrainedAfterPush(d) == FALSE

\* pxa2xx_ac97_push_frame, pxa2xx_ac97_push_aux_sample: n frames in a row.
PushBody(d, n) ==
    /\ fu' = [fu EXCEPT ![d] = @ \/ Overruns(d, n)]
    /\ level' = [level EXCEPT ![d] = LevelAfterPush(d, n)]
    /\ drained' = [drained EXCEPT ![d] = DrainedAfterPush(d)]
    /\ quiet' = [quiet EXCEPT ![d] = 0]
    /\ Wake(d)

\* A write of PCDR or MODR.
Push(d) ==
    /\ PushBody(d, 1)
    /\ UNCHANGED <<registers, irq>>

\* Mutations: the first quiet callback idles the voice; none does.
IdlesAtOnce(d) == active[d]
NeverIdles(d) == FALSE

\* The second callback in a row to find nothing queued idles the voice.
MustIdle(d) == drained[d] /\ active[d]

IdleIfQuiet(d) ==
    IF level'[d] = 0 /\ MustIdle(d) THEN SetActive(d, FALSE)
                                    ELSE UNCHANGED voices

\* The audio backend calls the DACs whose voice is open and active.
Called(d) == voice[d] /\ hostActive[d]

\* pxa2xx_ac97_out_cb, pxa2xx_ac97_aux_cb: the host takes k frames.
Callback(d, k) ==
    /\ Called(d)
    /\ level' = [level EXCEPT ![d] = @ - k]
    /\ drained' = [drained EXCEPT ![d] = level'[d] = 0]
    /\ quiet' = [quiet EXCEPT ![d] = IF level'[d] > 0 THEN 0
                                     ELSE IF quiet[d] < 2 THEN quiet[d] + 1 ELSE 2]
    /\ IdleIfQuiet(d)
    /\ UNCHANGED <<registers, fu, irq>>
-------------------------------------------------------------------------------
\* An open voice that is active is stopped; the flag of a voice that failed to
\* open is left as it is.
StoppedByReset(d) == voice[d] /\ active[d]

\* pxa2xx_ac97_reset_hold.  The voices keep their rates.
Reset ==
    /\ gcr' = {} /\ gsr' = {} /\ codec' = DefaultRegs
    /\ fu' = [d \in DAC |-> FALSE]
    /\ level' = [d \in DAC |-> 0]
    /\ drained' = [d \in DAC |-> TRUE]
    /\ quiet' = [d \in DAC |-> 0]
    /\ active' = [d \in DAC |-> active[d] /\ ~StoppedByReset(d)]
    /\ hostActive' = [d \in DAC |-> hostActive[d] /\ ~StoppedByReset(d)]
    /\ irq' = FALSE
    /\ UNCHANGED <<freq, voice>>
-------------------------------------------------------------------------------
(***************************************************************************)
(* Loading a snapshot (vmstate_pxa2xx_ac97, pxa2xx_ac97_post_load): the    *)
(* machine is reset, its fields are read, and the device puts right what   *)
(* hangs on them.  Saving changes nothing, so Restore stands for saving    *)
(* here and loading later: what the snapshot holds is as it was, and what  *)
(* it leaves out is that of the process that loads, which may be a new one *)
(* or one that has played something else.  The interrupt controller has    *)
(* its own snapshot and brings back the level of the line.                 *)
(***************************************************************************)

RateRegister == [pcm |-> "FRONT_RATE", aux |-> "SURR_RATE"]

\* Rates that the loading process may have opened a voice at.
HostRates == {MAX_RATE} \cup {w[2] : w \in {w \in CodecWrites :
                                /\ w[1] \in {RateRegister[d] : d \in DAC}
                                /\ RateInRange(w[2])}}

\* Mutations: the reset that goes before leaves the voices down; the flag of a
\* voice is not saved.
VoicesDown == hostActive' = [d \in DAC |-> FALSE]
QueuesOnly == UNCHANGED <<registers, fu, level>> /\ active' = [d \in DAC |-> FALSE]

\* The fields of vmstate_pxa2xx_ac97.
SavedFields == UNCHANGED <<registers, fu, level, active>>

\* pxa2xx_ac97_post_load tells the host of each voice there is.
TellHost == hostActive' = [d \in DAC |-> voice'[d] /\ active'[d]]

Restore == /\ SavedFields
           /\ drained' = [d \in DAC |-> TRUE]
           /\ freq' \in [DAC -> HostRates]
           /\ voice' \in [DAC -> IF OpenMayFail THEN BOOLEAN ELSE {TRUE}]
           /\ TellHost
           /\ UNCHANGED <<irq, quiet>>
-------------------------------------------------------------------------------
GuestAccess == \/ \E g \in GcrWrites : WriteGcr(g)
               \/ \E bits \in GsrWrites : WriteGsr(bits)
               \/ \E w \in CodecWrites : WriteCodec(w[1], w[2])
               \/ ReadCodec
               \/ \E d \in DAC : ClearFifoStatus(d)
               \/ \E d \in DAC : Push(d)

Next == \/ GuestAccess
        \/ \E d \in DAC : \E k \in 0..level[d] : Callback(d, k)
        \/ Reset

Spec == Init /\ [][Next]_vars
-------------------------------------------------------------------------------
(* Properties.                                                             *)

\* The guest is interrupted exactly while an enabled status bit is set:
\* no handler changes GCR or GSR and forgets the line.
IrqTracksStatus == irq = IrqLevel(gcr, gsr)

\* What the device believes of a voice is what the host was told, through
\* reopening at another rate, a failed open, idling and reset.
HostTracksFlag == \A d \in DAC : hostActive[d] = (voice[d] /\ active[d])

\* Frames in the ring are being played: a voice with something queued is
\* active, so that its callback comes.  Holds unless an open fails.
QueuedIsAudible == \A d \in DAC : level[d] > 0 => hostActive[d]

\* A silent guest does not hold the host's output device open: the second
\* quiet callback at the latest has idled the voice ...
SilenceReleasesHost == \A d \in DAC : active[d] => quiet[d] < 2

\* ... and no earlier one does (the comment over the test in out_cb).
IdlesAfterTwoQuietCallbacks ==
    [][Reset \/ \A d \in DAC : active[d] /\ ~active'[d] => quiet'[d] = 2]_vars

\* The host plays at the rate the guest programmed.  A codec or machine reset
\* puts the register back to 48 kHz and leaves the voice alone, and an Aux rate
\* out of range follows the front rate only when it is written: nothing else
\* may part the two.
ProgrammedRateIsPlayed ==
    /\ freq["pcm"] = PlaybackFreq(codec) \/ codec.front = DefaultRegs.front
    /\ \/ freq["aux"] = AuxFreq(codec)
       \/ codec.surr = DefaultRegs.surr
       \/ ~RateInRange(codec.surr)

\* The guest's wait loop on the digitiser always ends, and what it then reads
\* is the pack voltage the user set.
BatteryReadsAsSet == /\ ~PollBit(codec.dig1)
                     /\ codec.adc \in {DefaultRegs.adc, BatteryMv}
===============================================================================
