----------------------------- MODULE Ac97Snapshot -----------------------------
(***************************************************************************)
(* The AC97 controller through any number of snapshots: the machine of     *)
(* module Ac97, saved and loaded at any moment, with the histories that    *)
(* say how a restored machine may differ from one that never was.          *)
(***************************************************************************)
EXTENDS Ac97

VARIABLES fresh,    \* history: DACs without a frame or a callback since a load
          astray,   \* history: DACs whose rate was not written since a load
          deaf      \* history: DACs that lost their voice, as an open failed

snapshotVars == <<vars, fresh, astray, deaf>>

SnapshotInit == Init /\ fresh = {} /\ astray = {} /\ deaf = {}

Load == /\ Restore
        /\ fresh' = DAC
        /\ astray' = DAC
        /\ deaf' = deaf \cup {d \in DAC : ~voice[d] \/ ~voice'[d]}

RateWritten(d) == \E w \in CodecWrites : /\ w[1] = RateRegister[d]
                                         /\ WriteCodec(w[1], w[2])

\* A step of the running machine, and what it ends of the histories.
Run == /\ Next
       /\ fresh' = {d \in fresh : drained'[d] /\ quiet'[d] = quiet[d]}
       /\ astray' = {d \in astray : ~RateWritten(d)}
       /\ deaf' = deaf \cup {d \in DAC : ~voice'[d]}

SnapshotNext == Run \/ Load

SnapshotSpec == SnapshotInit /\ [][SnapshotNext]_snapshotVars
-------------------------------------------------------------------------------
(* Properties.  Those of Ac97 that a load must not disturb are checked as  *)
(* they are; these say how a restored machine may differ.                  *)

\* A restored machine goes on playing: frames that were queued are called for,
\* in whatever process the snapshot is loaded, unless an open has failed.
RestoredIsAudible == \A d \in DAC \ deaf : level[d] > 0 => hostActive[d]

\* A snapshot does not say how long the guest has been silent, so the first
\* callback after a load may idle a voice; later ones need two quiet callbacks,
\* as the comment in out_cb has it.  (A machine reset while a voice was lost
\* leaves it marked active over an empty ring: the same may happen there.)
RestoredIdlesOnceEarly ==
    [][\A d \in DAC : active[d] /\ ~active'[d] => \/ quiet'[d] = 2
                                                  \/ d \in fresh \cup deaf
                                                  \/ Reset]_snapshotVars

\* The rate that a snapshot leaves out is put right by the guest's next write
\* of it, also by one that repeats the value the register already has; until
\* then, and only then, a restored voice may play at another rate.
RestoredRateIsPlayed ==
    /\ \/ "pcm" \in astray
       \/ freq["pcm"] = PlaybackFreq(codec)
       \/ codec.front = DefaultRegs.front
    /\ \/ "aux" \in astray
       \/ freq["aux"] = AuxFreq(codec)
       \/ codec.surr = DefaultRegs.surr
       \/ ~RateInRange(codec.surr)
===============================================================================
