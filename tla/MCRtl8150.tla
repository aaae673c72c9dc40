------------------------------ MODULE MCRtl8150 ------------------------------
(* Instances of the RTL8150's bulk endpoints for TLC.                      *)
EXTENDS Rtl8150

\* With packets of 2 bytes, a status word of 1 and a URB of 5: a frame whose
\* transfer is one whole packet, one that ends short, two whole packets, one
\* that just fills the URB, and one that is too long.
FittingAndTooLong == {1, 2, 3, 4, 6}

Fitting == {1, 2}

None == {}
==============================================================================
