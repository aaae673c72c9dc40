------------------------------ MODULE FrameLink ------------------------------
(***************************************************************************)
(* What the RTL8150 promises of the frames that come in from the network,  *)
(* numbered as they come: each reaches the driver at most once, whole, and *)
(* only after every frame before it.  A frame that is loose (too long, cut *)
(* by a killed URB, or caught by a reset or by the configuration) may be   *)
(* lost, and may be overtaken; what is left of one may arrive as a scrap.  *)
(*                                                                         *)
(* Rtl8150 implements this module.                                         *)
(***************************************************************************)
EXTENDS Naturals, Sequences

CONSTANT MaxFrames    \* bound: frames that the network sends

VARIABLES sent,       \* frames sent so far
          delivered,  \* the numbers of the frames that the driver got, and scraps
          loose       \* frames that are promised nothing more than "once"

vars == <<sent, delivered, loose>>

Init == sent = 0 /\ delivered = <<>> /\ loose = {}

Scrap == 0    \* no frame's number

Got == {delivered[i] : i \in DOMAIN delivered}

Loosen == loose \subseteq loose' /\ loose' \subseteq 1..sent'

Send == /\ sent < MaxFrames
        /\ sent' = sent + 1
        /\ Loosen
        /\ UNCHANGED delivered

Deliver(id) == /\ id \notin Got
               /\ id \in loose \/ 1..(id - 1) \subseteq Got \cup loose
               /\ delivered' = Append(delivered, id)
               /\ Loosen
               /\ UNCHANGED sent

DeliverScrap == /\ loose # {}
                /\ delivered' = Append(delivered, Scrap)
                /\ Loosen
                /\ UNCHANGED sent

Disturb == Loosen /\ UNCHANGED <<sent, delivered>>

Next == Send \/ Disturb \/ DeliverScrap \/ \E id \in 1..sent : Deliver(id)

Spec == Init /\ [][Next]_vars
==============================================================================
