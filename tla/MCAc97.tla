-------------------------------- MODULE MCAc97 --------------------------------
(* Instances of the AC97 controller for TLC.                               *)
EXTENDS Ac97

\* The link as the Linux driver drives it: held in reset, brought up cold,
\* warm only, and with each of the two bits that take it down again; and with
\* interrupts enabled, for the codec's readiness and for finished commands.
LinkGcrWrites == {{}, {"COLD_RST", "WARM_RST"}, {"COLD_RST"},
                  {"COLD_RST", "ACLINK_OFF"}, {"COLD_RST", "nDMAEN"},
                  {"COLD_RST", "GIE", "PRIRDY_IEN"},
                  {"COLD_RST", "GIE", "CDONE_IE"}, {"COLD_RST", "SDONE_IE"}}

\* The driver acknowledges all that it was told.
AllStatus == {{"CDONE", "SDONE", "PCR"}}

\* Two rates for the PCM DAC, one for the other and one that is out of range and
\* falls back on the PCM DAC's, a conversion, the reset register and a register
\* that is only stored.
PlaybackWrites == {<<"FRONT_RATE", 11025>>, <<"FRONT_RATE", 48000>>,
                   <<"SURR_RATE", 8000>>, <<"SURR_RATE", 3999>>,
                   <<"DIG1", 512 + 3>>, <<"RESET", 0>>, <<"OTHER", 7>>}
===============================================================================
