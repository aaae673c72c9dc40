--------------------------- MODULE MCAc97Snapshot ---------------------------
(* Snapshots of the AC97 controller for TLC.                               *)
EXTENDS Ac97Snapshot

OneBringUp == {{"COLD_RST", "WARM_RST"}}

\* A rate for each DAC besides the one it starts at.
RateWrites == {<<"FRONT_RATE", 4000>>, <<"SURR_RATE", 4000>>}

None == {}
===============================================================================
