---- MODULE MCPlaybackFifo ----
(* A ring of four slots: two laps of the ring and a split run take a few *)
(* pushes, and an overrun can happen at each tail position.              *)
EXTENDS PlaybackFifo

MCFrame == {"silence", "left", "right"}
MCSilence == "silence"
====
