-------------------------- MODULE Rtl8150RegsProofs --------------------------
(***************************************************************************)
(* What the driver of the RTL8150 reads from its registers, for any PHY:   *)
(* the word it asked for, a carrier that stays, and no bit to wait for.    *)
(***************************************************************************)
EXTENDS Rtl8150Regs, TLAPS

\* From the write of PHYCNT to the fetch, PHYCNT holds the driver's request and
\* PHYDAT what the PHY answered to it.
RequestAnswered ==
    doing \in {"mii", "fetch"} =>
        /\ regs.phycnt.index = index
        /\ "WRITE" \notin regs.phycnt.bits => regs.phydat = PhyWord[index]

\* The bits the driver polls are never left set.
BitsClear == "SOFT_RESET" \notin regs.cr /\ "GO" \notin regs.phycnt.bits

\* What the properties rest on: the link bits are up whatever is written.
RegsInv == /\ RegsTypeOK
           /\ BitsClear
           /\ regs.msr /\ regs.cscr
           /\ RequestAnswered
           /\ CarrierStays

\* A control write, of whatever window and value, leaves the link up, the polled
\* bits clear and the registers it does not cover alone; one of PHYCNT that asks
\* for a read brings the PHY's word.
LEMMA WriteLeaves ==
    ASSUME RegsTypeOK, BitsClear, regs.cscr,
           NEW covers, NEW value \in Registers, WriteRegs(covers, value)
    PROVE  /\ regs' \in Registers
           /\ BitsClear'
           /\ regs'.msr /\ regs'.cscr
           /\ "phycnt" \notin covers => regs'.phycnt = regs.phycnt
           /\ "phycnt" \in covers =>
                /\ regs'.phycnt.index = value.phycnt.index
                /\ regs'.phycnt.bits = value.phycnt.bits \ {"GO"}
                /\ "GO" \in value.phycnt.bits /\ "WRITE" \notin value.phycnt.bits
                     => regs'.phydat = PhyWord[value.phycnt.index]
  <1> DEFINE r == [f \in DOMAIN regs |-> IF f \in covers THEN value[f] ELSE regs[f]]
  <1>1. regs \in Registers /\ DOMAIN regs = {"cr", "phydat", "phycnt", "msr", "cscr"}
    BY DEF RegsTypeOK, Registers
  <1>2. /\ r.cr = IF "cr" \in covers THEN value.cr ELSE regs.cr
        /\ r.phydat = IF "phydat" \in covers THEN value.phydat ELSE regs.phydat
        /\ r.phycnt = IF "phycnt" \in covers THEN value.phycnt ELSE regs.phycnt
    BY <1>1
  <1>3. /\ r.cr \in SUBSET {"SOFT_RESET", "ENABLE"}
        /\ r.phydat \in Words
        /\ r.phycnt \in [bits : SUBSET {"GO", "WRITE"}, index : PhyRegs]
    BY <1>1, <1>2 DEF Registers
  <1>4. regs' = [cr |-> IF "cr" \in covers THEN r.cr \ {"SOFT_RESET"} ELSE r.cr,
                 phydat |-> IF "phycnt" \in covers
                              THEN Published(r.phycnt, r.phydat) ELSE r.phydat,
                 phycnt |-> IF "phycnt" \in covers
                              THEN [r.phycnt EXCEPT !.bits = @ \ {"GO"}]
                              ELSE r.phycnt,
                 msr |-> TRUE, cscr |-> TRUE]
    <2>1. (r.cscr \/ TRUE) = TRUE
      OBVIOUS
    <2> QED  BY <2>1 DEF WriteRegs, ResetDone, GoDone, LinkAfterWrite
  <1>5. Published(r.phycnt, r.phydat) \in Words
    BY <1>3, PhyAssumption DEF Published
  <1> HIDE DEF r
  <1>6. regs' \in Registers
    BY <1>3, <1>4, <1>5 DEF Registers
  <1>7. BitsClear'
    BY <1>2, <1>3, <1>4 DEF BitsClear
  <1>8. ASSUME "phycnt" \in covers
        PROVE  /\ regs'.phycnt.index = value.phycnt.index
               /\ regs'.phycnt.bits = value.phycnt.bits \ {"GO"}
               /\ "GO" \in value.phycnt.bits /\ "WRITE" \notin value.phycnt.bits
                    => regs'.phydat = PhyWord[value.phycnt.index]
    BY <1>2, <1>3, <1>4, <1>8 DEF Published
  <1> QED  BY <1>2, <1>4, <1>6, <1>7, <1>8

\* Reset leaves the registers as the driver expects them.
LEMMA ResetLeaves ==
    /\ ResetRegs \in Registers
    /\ ResetRegs.msr /\ ResetRegs.cscr
    /\ "SOFT_RESET" \notin ResetRegs.cr /\ "GO" \notin ResetRegs.phycnt.bits
  BY PhyAssumption DEF ResetRegs, Registers

\* Every step keeps the invariant.
LEMMA StepRegs == RegsInv /\ [RegsNext]_regsVars => RegsInv'
  <1> SUFFICES ASSUME RegsInv, [RegsNext]_regsVars PROVE RegsInv'
    OBVIOUS
  <1>t. RegsTypeOK /\ BitsClear /\ regs.msr /\ regs.cscr /\ regs \in Registers
    BY DEF RegsInv, RegsTypeOK
  <1>1. CASE AskReset
    <2>1. [regs EXCEPT !.cr = {"SOFT_RESET"}] \in Registers
      BY <1>t DEF Registers
    <2>2. regs' \in Registers /\ BitsClear' /\ regs'.msr /\ regs'.cscr
      BY <1>1, <1>t, <2>1, WriteLeaves DEF AskReset
    <2> QED
      BY <1>1, <2>2 DEF AskReset, RegsInv, RegsTypeOK, RequestAnswered, CarrierStays
  <1>2. CASE PollReset
    BY <1>2
    DEF PollReset, RegsInv, RegsTypeOK, BitsClear, RequestAnswered, CarrierStays
  <1>3. CASE Open
    <2>1. [regs EXCEPT !.cr = {"ENABLE"}, !.msr = FALSE] \in Registers
      BY <1>t DEF Registers
    <2>2. regs' \in Registers /\ BitsClear' /\ regs'.msr /\ regs'.cscr
      BY <1>3, <1>t, <2>1, WriteLeaves DEF Open
    <2> QED
      BY <1>3, <1>t, <2>2
      DEF Open, RegsInv, RegsTypeOK, RequestAnswered, CarrierStays, Registers
  <1>4. ASSUME NEW link \in BOOLEAN, Rewrite(link) PROVE RegsInv'
    <2>1. [regs EXCEPT !.msr = link, !.cscr = link] \in Registers
      BY <1>t DEF Registers
    <2>2. regs' \in Registers /\ BitsClear' /\ regs'.msr /\ regs'.cscr
      BY <1>4, <1>t, <2>1, WriteLeaves DEF Rewrite
    <2> QED
      BY <1>4, <2>2 DEF Rewrite, RegsInv, RegsTypeOK, RequestAnswered, CarrierStays
  <1>5. ASSUME NEW i \in PhyRegs, NEW data \in Words, AddressPhy(i, data)
        PROVE RegsInv'
    <2>1. [regs EXCEPT !.phydat = data] \in Registers
      BY <1>t DEF Registers
    <2>2. regs' \in Registers /\ BitsClear' /\ regs'.msr /\ regs'.cscr
      BY <1>5, <1>t, <2>1, WriteLeaves DEF AddressPhy
    <2> QED
      BY <1>5, <2>2 DEF AddressPhy, RegsInv, RegsTypeOK, RequestAnswered, CarrierStays
  <1>6. ASSUME NEW bits \in {{"GO"}, {"GO", "WRITE"}}, AskPhy(bits)
        PROVE RegsInv'
    <2> DEFINE asked == [regs EXCEPT !.phycnt = [bits |-> bits, index |-> index]]
    <2>1. asked \in Registers /\ asked.phycnt = [bits |-> bits, index |-> index]
      BY <1>t DEF Registers, RegsInv, RegsTypeOK
    <2>2. WriteRegs({"phycnt"}, asked)
      BY <1>6 DEF AskPhy
    <2> HIDE DEF asked
    <2>3. /\ regs' \in Registers /\ BitsClear' /\ regs'.msr /\ regs'.cscr
          /\ regs'.phycnt.index = index
          /\ regs'.phycnt.bits = bits \ {"GO"}
          /\ "WRITE" \notin bits => regs'.phydat = PhyWord[index]
      BY <1>6, <1>t, <2>1, <2>2, WriteLeaves
    <2>4. RequestAnswered'
      BY <1>6, <2>3 DEF AskPhy, RequestAnswered
    <2> QED  BY <1>6, <2>3, <2>4 DEF AskPhy, RegsInv, RegsTypeOK, CarrierStays
  <1>7. CASE PollPhy
    BY <1>7
    DEF PollPhy, RegsInv, RegsTypeOK, BitsClear, RequestAnswered, CarrierStays
  <1>8. CASE FetchPhy
    BY <1>8
    DEF FetchPhy, RegsInv, RegsTypeOK, BitsClear, RequestAnswered, CarrierStays, Registers
  <1>9. CASE Interrupt
    BY <1>9
    DEF Interrupt, RegsInv, RegsTypeOK, BitsClear, RequestAnswered, CarrierStays, Registers
  <1>10. CASE BusReset
    BY <1>10, ResetLeaves
    DEF BusReset, RegsInv, RegsTypeOK, BitsClear, RequestAnswered, CarrierStays
  <1>11. CASE UNCHANGED regsVars
    BY <1>11
    DEF regsVars, RegsInv, RegsTypeOK, BitsClear, RequestAnswered, CarrierStays
  <1> QED
    BY <1>1, <1>2, <1>3, <1>4, <1>5, <1>6, <1>7, <1>8, <1>9, <1>10, <1>11
    DEF RegsNext, Driver, Polls

\* The invariant holds throughout.
LEMMA RegsInvariance == RegsSpec => []RegsInv
  <1>1. RegsInit => RegsInv
    BY ResetLeaves, PhyAssumption
    DEF RegsInit, RegsInv, RegsTypeOK, BitsClear, RequestAnswered, CarrierStays
  <1> QED  BY <1>1, StepRegs, PTL DEF RegsSpec

\* The driver takes from PHYDAT the word of the register it asked for, whatever
\* the PHY holds and whatever it left in the window before.
THEOREM PhyAnswersTheRequest == RegsSpec => []WordIsTheOneAsked
  <1>1. RegsInv => WordIsTheOneAsked
    BY DEF RegsInv, RequestAnswered, WordIsTheOneAsked
  <1> QED  BY <1>1, RegsInvariance, PTL

\* An interface that is up keeps its carrier, whatever is written to the window.
THEOREM InterfaceKeepsCarrier == RegsSpec => []CarrierStays
  <1>1. RegsInv => CarrierStays
    BY DEF RegsInv
  <1> QED  BY <1>1, RegsInvariance, PTL

\* A driver that polls never finds its bit set: PollsEnd rests on the driver
\* looking, and on nothing that the device would have to do later.
THEOREM PollsFindBitsClear == RegsSpec => []BitsClear
  <1>1. RegsInv => BitsClear
    BY DEF RegsInv
  <1> QED  BY <1>1, RegsInvariance, PTL
==============================================================================
