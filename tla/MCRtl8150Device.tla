--------------------------- MODULE MCRtl8150Device ---------------------------
(* The whole RTL8150 adapter for TLC: two of its PHY registers, one frame  *)
(* from the network and three to it.                                       *)
EXTENDS Rtl8150Device

Odd == {1, 3, 5}

\* BMSR and a register that is not implemented.
SomeWords == [i \in {0, 1} |-> IF i = 1 THEN 30765 ELSE 0]     \* 0x782d
==============================================================================
