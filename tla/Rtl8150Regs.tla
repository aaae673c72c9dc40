----------------------------- MODULE Rtl8150Regs -----------------------------
(***************************************************************************)
(* The RTL8150's register file as its driver uses it: control transfers    *)
(* that read and write a window of registers, the bits the driver polls    *)
(* until the chip clears them, the PHY behind PHYCNT and PHYDAT, and the   *)
(* two places the driver takes the carrier from, CSCR when it opens the    *)
(* interface and MSR on every poll of the interrupt endpoint.              *)
(*                                                                         *)
(* The driver is external.  It does one thing at a time under a lock, and  *)
(* its interrupt callback runs at any moment in between.                   *)
(***************************************************************************)
EXTENDS Naturals

CONSTANTS PhyRegs,      \* indices of the PHY's registers
          PhyWord,      \* [PhyRegs -> words]: what rtl8150_mii_read returns
          Words         \* words that may be left in or written to PHYDAT

ASSUME PhyAssumption == /\ PhyWord \in [PhyRegs -> Words]
                        /\ 0 \in PhyRegs /\ 0 \in Words

VARIABLES regs,         \* the registers something depends on
          doing,        \* what the driver is in the middle of
          index,        \* the PHY register it asked for
          word,         \* what it read from PHYDAT
          carrier       \* netif_carrier_ok

regsVars == <<regs, doing, index, word, carrier>>

\* MSR and CSCR stand for their link bits, PHYCNT for its GO and WRITE bits
\* and the index.
Registers == [cr : SUBSET {"SOFT_RESET", "ENABLE"},
              phydat : Words,
              phycnt : [bits : SUBSET {"GO", "WRITE"}, index : PhyRegs],
              msr : BOOLEAN,
              cscr : BOOLEAN]

RegsTypeOK == /\ regs \in Registers
              /\ doing \in {"down", "resetting", "open", "up", "addressed", "mii",
                            "fetch"}
              /\ index \in PhyRegs
              /\ word \in Words
              /\ carrier \in BOOLEAN

\* rtl8150_reset_regs
ResetRegs == [cr |-> {}, phydat |-> 0,
              phycnt |-> [bits |-> {}, index |-> 0],
              msr |-> TRUE, cscr |-> TRUE]

RegsInit == /\ regs = ResetRegs
            /\ doing = "down" /\ index = 0 /\ word = 0 /\ carrier = FALSE
------------------------------------------------------------------------------
(* The device: a vendor control write of the registers in covers.          *)

\* Mutations: the register keeps what the driver wrote.
KeepsReset(bits) == bits
KeepsGo(bits) == bits
KeepsMsr(link) == link

ResetDone(bits) == bits \ {"SOFT_RESET"}
GoDone(bits) == bits \ {"GO"}

\* A write leaves the link up.
LinkAfterWrite(link) == TRUE

\* Mutation: the data of an earlier access is left in PHYDAT.
StaleData(cnt, data) == data

\* An MII read publishes the PHY's word, a write leaves what the guest put there.
Published(cnt, data) ==
    IF "GO" \in cnt.bits /\ "WRITE" \notin cnt.bits THEN PhyWord[cnt.index]
                                                    ELSE data

WriteRegs(covers, value) ==
    LET r == [f \in DOMAIN regs |-> IF f \in covers THEN value[f] ELSE regs[f]]
    IN  regs' = [cr |-> IF "cr" \in covers THEN ResetDone(r.cr) ELSE r.cr,
                 phydat |-> IF "phycnt" \in covers
                              THEN Published(r.phycnt, r.phydat) ELSE r.phydat,
                 phycnt |-> IF "phycnt" \in covers
                              THEN [r.phycnt EXCEPT !.bits = GoDone(@)]
                              ELSE r.phycnt,
                 msr |-> LinkAfterWrite(r.msr),
                 cscr |-> r.cscr \/ LinkAfterWrite(r.cscr)]
------------------------------------------------------------------------------
(* The driver.                                                             *)

\* rtl8150_reset: ask, then read CR until the bit is gone.
AskReset ==
    /\ doing = "down"
    /\ WriteRegs({"cr"}, [regs EXCEPT !.cr = {"SOFT_RESET"}])
    /\ doing' = "resetting"
    /\ UNCHANGED <<index, word, carrier>>

PollReset ==
    /\ doing = "resetting"
    /\ "SOFT_RESET" \notin regs.cr
    /\ doing' = "open"
    /\ UNCHANGED <<regs, index, word, carrier>>

\* rtl8150_open: clear MSR, enable the MAC, and take the carrier from CSCR.
Open ==
    /\ doing = "open"
    /\ WriteRegs({"cr", "msr"}, [regs EXCEPT !.cr = {"ENABLE"}, !.msr = FALSE])
    /\ carrier' = regs.cscr
    /\ doing' = "up"
    /\ UNCHANGED <<index, word>>

\* The window may be written from a copy of it, whatever that holds.
Rewrite(link) ==
    /\ doing = "up"
    /\ WriteRegs({"msr", "cscr"}, [regs EXCEPT !.msr = link, !.cscr = link])
    /\ UNCHANGED <<doing, index, word, carrier>>

\* read_mii_word and write_mii_word: PHYADD and PHYDAT, then PHYCNT, then poll.
AddressPhy(i, data) ==
    /\ doing = "up"
    /\ WriteRegs({"phydat"}, [regs EXCEPT !.phydat = data])
    /\ index' = i
    /\ doing' = "addressed"
    /\ UNCHANGED <<word, carrier>>

AskPhy(bits) ==
    /\ doing = "addressed"
    /\ WriteRegs({"phycnt"},
                 [regs EXCEPT !.phycnt = [bits |-> bits, index |-> index]])
    /\ doing' = "mii"
    /\ UNCHANGED <<index, word, carrier>>

PollPhy ==
    /\ doing = "mii"
    /\ "GO" \notin regs.phycnt.bits
    /\ doing' = "fetch"
    /\ UNCHANGED <<regs, index, word, carrier>>

FetchPhy ==
    /\ doing = "fetch"
    /\ word' = regs.phydat
    /\ doing' = "up"
    /\ UNCHANGED <<regs, index, carrier>>

\* intr_callback: the interrupt endpoint always answers with MSR.
Interrupt ==
    /\ doing \notin {"down", "resetting", "open"}
    /\ carrier' = (carrier /\ regs.msr)
    /\ UNCHANGED <<regs, doing, index, word>>

\* A bus reset: rtl8150_handle_reset, and the driver probes afresh.
BusReset ==
    /\ regs' = ResetRegs
    /\ doing' = "down" /\ carrier' = FALSE
    /\ UNCHANGED <<index, word>>

Polls == PollReset \/ PollPhy

Driver == \/ AskReset \/ Open
          \/ Polls
          \/ \E link \in BOOLEAN : Rewrite(link)
          \/ \E i \in PhyRegs, data \in Words : AddressPhy(i, data)
          \/ \E bits \in {{"GO"}, {"GO", "WRITE"}} : AskPhy(bits)
          \/ FetchPhy
          \/ Interrupt

RegsNext == Driver \/ BusReset

RegsSpec == RegsInit /\ [][RegsNext]_regsVars
------------------------------------------------------------------------------
(* Properties.                                                             *)

\* "A model that just stores register writes verbatim hangs the driver": a poll
\* of CR or PHYCNT comes to an end.
PollsEnd == doing \in {"resetting", "mii"} ~> doing \notin {"resetting", "mii"}

\* The word a driver takes from PHYDAT is the one of the register it asked for,
\* not one an earlier access or its own write of the window left there.
WordIsTheOneAsked ==
    doing = "fetch" /\ "WRITE" \notin regs.phycnt.bits
        => regs.phydat = PhyWord[index]

\* Both registers the driver takes the carrier from say "up" whatever it wrote
\* to them, so an interface that is up keeps its carrier.
CarrierStays == doing \notin {"down", "resetting", "open"} => carrier
==============================================================================
