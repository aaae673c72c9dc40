------------------------------ MODULE MCAc97Dma ------------------------------
(* The controller and the DMA engine, small: the smallest bursts and rings *)
(* in which a burst can end late and a stale want can let one more through.*)
EXTENDS Ac97Dma

UpAndDown == {{}, {"COLD_RST"}}
None == {}
==============================================================================
