-------------------------------- MODULE IdeIrq --------------------------------
(***************************************************************************)
(* The IDE drive's interrupt on the Everest board.  The IDE core holds its *)
(* line until the guest reads the status register, and asserts it again    *)
(* for every completion, the line high or not; the PXA's GPIO block only   *)
(* latches edges.  The board's handler stands between them.                *)
(*                                                                         *)
(* The drive, the GPIO block and the guest are external.  The guest polls  *)
(* for some commands, and for all until it has enabled the edge, with the  *)
(* alternate status register (the line stays up) or the status register.   *)
(* Its interrupt handler clears the latch first and reads the status       *)
(* register then, and the drive goes on in between.                        *)
(***************************************************************************)
EXTENDS Naturals, Sequences

CONSTANTS MaxCommands,  \* bound: commands the guest issues
          MaxBlocks     \* bound: blocks of data that a command transfers

ASSUME BoundAssumption == MaxCommands \in Nat /\ MaxBlocks \in Nat \ {0}

VARIABLES busy,         \* the drive works on a command
          line,         \* the IDE core's interrupt line
          pin,          \* the GPIO input
          enabled,      \* the guest has enabled the rising edge
          latched,      \* the GPIO block's edge latch
          guest,        \* "idle", "polling", or "waiting" for the interrupt
          isr,          \* the guest's handler has cleared the latch
          issued,       \* commands so far
          left          \* blocks left of the command

vars == <<busy, line, pin, enabled, latched, guest, isr, issued,
          left>>

TypeOK == /\ busy \in BOOLEAN /\ line \in BOOLEAN /\ pin \in BOOLEAN
          /\ enabled \in BOOLEAN /\ latched \in BOOLEAN
          /\ guest \in {"idle", "polling", "waiting"}
          /\ isr \in BOOLEAN
          /\ issued \in 0..MaxCommands /\ left \in 0..MaxBlocks

Init == /\ busy = FALSE /\ line = FALSE /\ pin = FALSE
        /\ enabled = FALSE /\ latched = FALSE
        /\ guest = "idle" /\ isr = FALSE /\ issued = 0 /\ left = 0
------------------------------------------------------------------------------
(* everest_ide_irq_handler: the levels it drives the pin through, in turn. *)

\* Mutation: the level is passed on as it is.
PassedOn(level) == <<level>>

\* Mutation: a release is not passed on.
IgnoresRelease(level) == IF level THEN <<FALSE, TRUE>> ELSE <<pin>>

Driven(level) == IF level THEN <<FALSE, TRUE>> ELSE <<FALSE>>

\* Connecting the interrupt sets the device's irq; realize gives the bus a copy.
NewIde == [irq |-> FALSE, bus |-> FALSE]
Connected(ide) == [ide EXCEPT !.irq = TRUE]
Realized(ide) == [ide EXCEPT !.bus = ide.irq]

\* Mutation: connected in the usual order.
ConnectedLast == Connected(Realized(NewIde))

Ide == Realized(Connected(NewIde))

\* The GPIO block latches a rise from one level to the next.
Rises(levels) ==
    \E i \in DOMAIN levels :
        levels[i] /\ ~(IF i = 1 THEN pin ELSE levels[i - 1])

\* The IDE core sets its line; a bus without an interrupt says nothing.
HandleIrq(level) ==
    LET levels == IF Ide.bus THEN Driven(level) ELSE <<pin>> IN
    /\ line' = level
    /\ pin' = levels[Len(levels)]
    /\ latched' = (latched \/ (enabled /\ Rises(levels)))
------------------------------------------------------------------------------
(* The drive and the guest.                                                *)

\* The drive asserts its line for each block, and again only once the guest has
\* taken the block before.
Issue(n, mode) ==
    /\ mode = "waiting" => enabled
    /\ guest = "idle" /\ ~busy /\ issued < MaxCommands
    /\ busy' = TRUE
    /\ left' = n
    /\ guest' = mode
    /\ issued' = issued + 1
    /\ UNCHANGED <<line, pin, enabled, latched, isr>>

\* A guest that finds the drive ready takes the block: on to the next, or done.
TakeBlock ==
    /\ left' = left - 1
    /\ busy' = (left > 1)
    /\ guest' = IF left > 1 THEN guest ELSE "idle"

\* The drive asserts its line, which may be up already.
Complete ==
    /\ busy
    /\ busy' = FALSE
    /\ HandleIrq(TRUE)
    /\ UNCHANGED <<enabled, guest, isr, issued, left>>

\* A poll of the alternate status register leaves the line alone.
PollAltStatus ==
    /\ guest = "polling" /\ ~busy
    /\ TakeBlock
    /\ UNCHANGED <<line, pin, enabled, latched, isr, issued>>

PollStatus ==
    /\ guest = "polling"
    /\ IF busy THEN UNCHANGED <<busy, guest, left>> ELSE TakeBlock
    /\ HandleIrq(FALSE)
    /\ UNCHANGED <<enabled, isr, issued>>

\* The driver takes over: it clears the latch and enables the edge.
EnableEdge ==
    /\ guest = "idle" /\ ~enabled
    /\ enabled' = TRUE
    /\ latched' = FALSE
    /\ UNCHANGED <<busy, line, pin, guest, isr, issued, left>>

TakeInterrupt ==
    /\ latched /\ ~isr
    /\ latched' = FALSE
    /\ isr' = TRUE
    /\ UNCHANGED <<busy, line, pin, enabled, guest, issued, left>>

ReadStatus ==
    /\ isr
    /\ isr' = FALSE
    /\ IF guest = "waiting" /\ ~busy THEN TakeBlock
                                     ELSE UNCHANGED <<busy, guest, left>>
    /\ HandleIrq(FALSE)
    /\ UNCHANGED <<enabled, issued>>

Interrupt == TakeInterrupt \/ ReadStatus

Next == \/ \E n \in 1..MaxBlocks, mode \in {"polling", "waiting"} : Issue(n, mode)
        \/ Complete
        \/ PollAltStatus \/ PollStatus
        \/ EnableEdge
        \/ Interrupt

Spec == Init /\ [][Next]_vars

\* The drive completes its commands and the guest takes its interrupts.
FairSpec == Spec /\ WF_vars(Complete) /\ WF_vars(Interrupt)
------------------------------------------------------------------------------
(* Properties.                                                             *)

\* No interrupt is lost: a guest that waits for a command that is done has an
\* edge latched, or its handler has yet to read the status register -- also
\* when the line was up before the command was issued.
NoLostInterrupt ==
    guest = "waiting" /\ ~busy => latched \/ isr

\* The pin shows the drive's line: the fresh edge of a new assertion leaves it
\* up, and a release that the guest saw takes it down.
PinShowsLine == pin = line

\* Every command that the guest waits for returns, the one that wedged
\* /etc/StartShell included.
CommandReturns == guest = "waiting" ~> guest = "idle"
==============================================================================
