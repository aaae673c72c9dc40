# A verification development for bpemu

bpemu emulates the LevelStar Icon / Braille+ Mobile Manager on QEMU. Its own
code is a board (`qemu/hw/arm/everest.c`), an AC97 controller with the WM9713
codec (`qemu/hw/audio/pxa2xx_ac97.c`), a USB Ethernet adapter
(`qemu/hw/usb/dev-rtl8150.c`), two Python tools and a set of scripts. This
directory holds TLA+ models of that code, the TLC configurations that check
them, and proofs for TLAPS.

Run a check with `tlc -config <file>.cfg <module>`, a proof with
`tlapm <module>.tla`. `PROJECT.json` lists the runs, the source lines that each
definition models, the hazards that the properties are about, and for each
property a mutation of the code that breaks it.

## Inventory

| component | state | operations | interacts with |
|---|---|---|---|
| playback rings | `fifo[]`, head, tail, level, the FU bit; twice (PCM, Aux) | push, drain, acknowledge, reset | guest writes (PCDR, MODR), host audio callback |
| AC97 controller, codec | GCR, GSR, codec registers, rates, voices, active and drained flags | register reads and writes, callbacks, timer, reset, load | guest, host audio, interrupt controller, DMA |
| AC97 DMA requests | three request lines, refresh timer | `update_dma` at the end of most handlers | the DMA engine, by direct call |
| RTL8150 bulk | `rx_buf`, `rx_total`, `rx_ptr`, `rx_zlp`, `tx_buf`, `tx_ptr` | `can_receive`, `receive`, bulk IN and OUT, reset | QEMU's network queue, host controller, driver |
| RTL8150 registers | `regs[0x30]` | control read and write, interrupt IN, reset | driver |
| Everest board | straps, keypad map, IDE interrupt handler | option setters, reset, interrupt | GPIO block, IDE core |
| `autoboot.py` | console buffer, monitor socket, list of steps | expect, send, push, key, command | guest shell, kernel messages |
| `bpimage.py` | none (files) | unpack, mkflash, mkdisk, mtdparts | launchers |
| scripts | none (files) | set-up, build, run, package, test | all of the above |

What is hard in each of them:

- **AC97.** Raising a DMA request line is a function call that runs the DMA
  engine, which writes frames back into the device before `update_dma` has
  finished. The engine drops a request made before its channel is mapped. A
  rate change replaces a voice that is playing. Voices are idled by a flag of
  the callback before. Correct means: frames are played in order and only the
  oldest is ever lost; a request that is dropped or stale neither starves nor
  overruns a ring; queued frames are called for; silence releases the host; the guest's rate is the one played.
- **RTL8150.** A transfer is not a packet and a packet not a frame; the network
  is held back by a queue that the device has to flush at the right moment; the
  driver kills URBs half way and the bus is reset. Correct means: one frame per
  URB, in order, none forgotten; frames sent go out whole; polls end; the carrier
  stays up.
- **Board.** A level that must reach an edge latch, connected in an order that
  fails silently; resets at any moment; a key matrix whose coordinates are swapped
  between two tables. Correct means: no interrupt is lost, the guest reads the
  straps that the user asked for, and a key of the PC is the key it stands for.
- **Tools.** A sentinel on a console that others write to, time limits, partial
  failures that leave files behind. Correct means: success is only reported for
  what succeeded, and what a broken-off script left is put right by the next one.

## Plan

Written, in this order:

1. `DropOldestQueue` (abstract), `PlaybackFifo`, with the refinement proved
2. `Ac97`, the whole controller at the level of counts, with its invariants proved
3. `Ac97Dma`, composed with the DMA engine (extends `Ac97`)
4. `Rtl8150` and `Rtl8150Regs`; `FrameLink`, the abstract link that `Rtl8150`
   implements; `Rtl8150Device`, the two composed
5. `IdeIrq`, proved; `Everest`, composed with it (extends `IdeIrq`)
6. `Autoboot`
7. `Ac97Snapshot` (extends `Ac97`)
8. `HostFiles`

The proofs follow the modules. All that was planned is written, and every property
of the runs that can be proved is: what is left to the model checker alone is
named at the end of *Proofs*.

## Modules

Every handler of a device model runs to its end under QEMU's big lock, so a
handler is one action, except in `Ac97Dma`, where a handler is interrupted by
what it calls.

### DropOldestQueue, PlaybackFifo

`PlaybackFifo` has the ring of `pxa2xx_ac97.c` as it is: the array, `fifo_head`,
`fifo_tail`, `fifo_level` and bit 4 of POSR. `Push` is `push_frame`, `Drain(k)`
is a drain in which AUD_write takes k frames in all, in the runs up to and after
the end of the array. `written` shows what the host got in the last drain. The
Aux ring is the same code on other fields. `DropOldestQueue` is what the ring
promises: a bounded queue that, when full, gives up its oldest frame and sets a
flag. The mapping takes the slots from tail to head.

Run `playback_fifo`: four slots and two frames, so that every position of head
and tail, a wrap in the middle of a drain and overruns of several frames happen;
the state space is finite without further bounds.

### Ac97

The register file, both voices, the rings as levels and the interrupt line. One
action for each handler: `WriteGcr`, `WriteGsr`, `WriteCodec`, `ReadCodec`,
`ClearFifoStatus`, `Push`, `Callback`, `Reset`. Most handlers end with
`update_dma`, which drives the request lines and the refresh timer; that is not
one step and not this module's: `Ac97Dma` has the lines and adds to each handler
the update that ends it. Nothing in this module reads them. `Restore` is what a
load does to this state (see `Ac97Snapshot`). Codec
registers are those that something depends on: the two rates, DIG1 and its
readback; the others are stored and read back and change nothing. A callback
takes any number of frames from none to all.

External: the audio backend. `AUD_open_out` replaces the voice, the new one is
inactive and the call may fail (`OpenMayFail`); the backend calls back voices
that are open and active, which is the condition under which `QueuedIsAudible`
means that sound comes out. `hostActive` is what the backend was told last.
`quiet` is history: the callbacks in a row that ended with nothing queued.

Run `ac97_playback`: rings of 3, two rates for the PCM DAC, one for the other
and one that is out of range, a conversion and a codec reset, interrupts for
readiness and commands, opens that succeed. The rings are short because only
"full" and "empty" are told apart at this level. Opens that fail are in the next
run. `ProgrammedRateIsPlayed` lets register and host differ while the register
has 48 kHz, which is how it allows for a reset; a guest's own write of 48000 is
let off with it.

### Ac97Snapshot

`Load` is `loadvm` (`Restore` of `Ac97`, with histories): the machine is reset,
the fields of `vmstate_pxa2xx_ac97` are read and `post_load` runs. Saving changes nothing, so the snapshot that is loaded
may as well be the state of now; loading it later, or in a new process, changes
only what it does not hold, and that is chosen freely (the request lines are left
to `Ac97Dma`, whose `DmaLoad` drives them): the rates the voices are
open at, whether they are open at all, what the host was told, and
`drained_last_cb`, which the reset has set. `fresh`, `astray` and `deaf` are
history: the DACs that have had neither a frame nor a callback since the load,
those whose rate was not written since, and those that lost their voice.

Run `ac97_snapshot`: rings of one frame, because the ring is not the question
here; a second rate for each DAC; opens may fail. A load may come
after any step, also after another load.

### Ac97Dma

The two request lines (the capture line is never raised) and the refresh timer.
`update_dma` takes the steps that it takes in the code: both wants are
computed and the PCM line is driven (`DriveTx`), the Aux line is driven by the
want of before (`DriveAux`), the timer is set (`SetTimer`). It ends a write of GCR
(`DmaWriteGcr`) or POCR (`DmaWritePocr`), a callback (`DmaCallback`), the timer
(`DmaRefresh`) and a load (`DmaLoad`); a reset clears lines and timer without it
(`DmaReset`). Between the steps the engine moves bursts (`MoveBurst`), each of which is a run of data register
writes with the updates that they end in. While the engine runs it does not
start again: a line that changes then changes only its latch.

External: the engine, from what the comments of the device say (a request counts
only once the channel is mapped; bursts of 32 bytes), and the guest's driver: one
channel per DAC, mapped before it is started and while it runs, and started only
with the link up. A snapshot holds the engine's fields and the timer, not what the
lines were driven to. No frames are pushed by the CPU.

Run `ac97_dma`: 7 slots, threshold 4, bursts of 2, descriptors of up to 6 frames.
A channel may reach FIFO_FRAMES - threshold + 2 bursts, which is tight here: one
burst that was under way when the line fell and one that a stale want lets
through. The assumption 2 * Burst <= threshold is met by the code (16 and 64).
Fairness, for `StreamIsServed`: a handler runs to its end (`WF` on its steps); the timer, or a handler
that arms it anew, fires infinitely often if it is armed again and again (`SF`:
each update puts it off); and the backend goes on taking frames from a voice it
was told is active (`SF`: the voice may idle in between).

### Rtl8150

A byte is a frame's number with a position, so that a URB shows whose bytes it
holds. `Arrive` is a frame from the network, `InPacket` and `OutPacket` are
`handle_data`, `HandleReset` is the bus reset. The host controller may ask for one
packet or for all that the URB has room for (the code has to do with both).

External: QEMU's queue (`queue`, `receive_disabled`: it appends while
`can_receive` says no or after `receive` returned 0, and flushing offers the
frames in turn until one is refused), the URB of the driver, and its kills.
History: `got` and `wire` are what came out, and `spoiled`, `excused` and
`txSpoiled` name the frames that a kill, a reset or the configuration touched,
about which the properties promise less.

Sizes are scaled so that the code's remainders stay: packets of 2, a status word
of 1, URB and limit of 5 (the code has 64, 4 and 1540 = 24 * 64 + 4). Received
frames of 1, 2, 3, 4 and 6 give one whole packet, a short end, two whole packets,
a URB that is exactly full and a frame too long; sent frames are odd, as the
driver's padding guarantees. Three frames in each direction are enough for a
frame in the device, one waiting and one that might overtake it, and for a killed
transmission, the frame joined to it and one after that. The two directions share
no state but the reset: `rtl8150_rx` has one sent frame beside the received ones,
the run of `Rtl8150Device` one received frame beside the sent ones.

`FrameLink` says what the receiving half promises: the frames that the network
sent are delivered whole, at most once, and each only after those before it; a
frame that is *loose* may be lost and overtaken, and may leave a *scrap*.
`ImplementsLink` maps the frames that arrived, `spoiled` and `excused` to it, and
of the URBs those that are one whole frame to its number and all others to
scraps, so every step of device, queue, host controller and driver is a step of the
link or a stutter.

Runs: `rtl8150_rx` (fairness: the host controller polls the endpoints, which USB
does for a posted URB) and the finding `rtl8150_stalled`.

### Rtl8150Regs, Rtl8150Device

The registers that the driver depends on. `WriteRegs` is a control write of any
set of them, with the bits that clear themselves, the PHY access and the two
link bits that are forced up. The driver is external: reset and poll, open, MII
accesses, the interrupt callback at any time, a bus reset at any time.

`Rtl8150Device` is the adapter as a whole: `rtl8150_handle_reset` clears frames and
registers in one handler, neither half answers before the guest has selected the
configuration, and the driver moves frames once it has opened the interface, also
while a PHY access is under way. Run `rtl8150_device`: sent frames of 1, 3 and 5
bytes, three of them, one received frame, two PHY registers, resets and kills
between any two steps. Fairness: the driver goes on polling.

### IdeIrq, Everest

`HandleIrq` is the board's handler between the IDE core and the GPIO block. The
drive asserts its line for every block, the line up or not. The guest polls or
waits; its interrupt handler clears the latch and reads the status register in
two steps, between which the drive may complete. `Ide` is the drive as
`everest_init` leaves it: connecting sets the device's interrupt, realizing copies
it to the bus, and a bus without one says nothing.

`Everest` adds the rest of the board: the options with the setters' checks
(`SetBoardId`, `SetKeypadId`, `SetKeyLock`, before the start and after), `Start`,
`MachineReset`, and the keypad map. The straps are presented as the set of GPIO
pins that are driven high, and read back by the guest's kernel as its own code does; the map is the
code's, position by position, and the guest's table of keys is the one its
comment shows.

External: the keypad controller keeps one bit for each position of the matrix,
which two host keys may share; a reset of the machine takes the guest and the
drive back to the beginning, and may or may not clear the GPIO block and the
lines (today's QEMU does not clear them; the code does not rely on that). `eclipsed`
is history: keys held whose position was released with their twin.

Run `everest`: two commands of up to two blocks; a board revision within range
and one out of it; keypad variants with and without bit 3, and with bit 2, which
is refused; one option set; each host key alone, and a chord of a dot with a digit
on its two keys. Options, keys and drive share nothing but the reset, so larger
bounds multiply states without new cases. Fairness: the drive completes, the
guest takes interrupts. `CommandReturns` holds through machine resets.

### Autoboot

The script, the guest's terminal and shell, and QEMU's process. `expect` is its
loop: look for a match, look at the clock and at QEMU (`TimeOut`, `SeesExit`,
`Check`), read a chunk of any size. What is waited for is a mark of two halves:
a chunk may end, and a kernel message come, between them. A command and the line
that asks for its status are typed at once. Steps are of seven kinds: a command
that prints a line, one whose output has no newline at the end, one in the
background, one whose output is a blank line, its own text or a line like a
prompt, one that reads the line typed after it, one that prints something like a
sentinel, and a key.

`OwnOutput` is `command_output`, which goes by lines (`LineOf`): a line is
scaffolding if any of it is of the sentinel or of the line that asks for it, or if
the whole of it is blank, the command's text or like a prompt. The terminal's
echo is modelled for that, in the order which the comment of `command_output`
gives: the echo of the command, its output, the echo of the line that asks for the
sentinel, the sentinel. Kernel messages are lines of their own, and are kept.

External: the guest runs lines in order; a process's write to the terminal is not
broken up by another process, but by the kernel. QEMU may exit at any time.

Run `autoboot`: each kind of command in front of another, and a command between
two keys, with and without a push; exit statuses 0 and 2; one kernel message
anywhere. Two commands are enough for a status or an output to land in the wrong
place, and a key behind a command for it to overtake. A command that prints a
sentinel breaks what follows it; the properties are about the steps before
(`Trusted`). A command's text and a pushed file are taken not to have the form of
a sentinel. `OutputIsItsOwn` promises that the line of a command is reported, and
that nothing of another command is, but a background command's line; lines which
`command_output` drops by their form, and the echo, are outside of it. For output
without a newline and for the echo behind a prompt see `autoboot_output`.
Fairness: the script runs, and a deadline passes (`SF` on `TimeOut`: expect comes
back to it); this takes it that a write to the guest's terminal (`os.write`,
autoboot.py:84), which has no time limit, does not block.
The script stops at its end, so deadlock is not checked.

### HostFiles

What the scripts leave on the disk when each may be broken off at any step
(killed, out of space, a command that fails under `set -e`) and any may be run
next. A build file of QEMU is a sequence of parts: its text, the marker line, the
block of a version, and what is left of a marker or a block when the write is
cut. Firmware is a number. `Unpatch` and `Patch` are `setup.sh`; `BuildStep` is
`unpack` and `mkflash` file by file; `MakeDisk` is `mkdisk`, which `ProvideDrive`
of the launcher calls when there is no drive. Build files are the six that set-up
appends to; the file that it rewrites on Windows is left out (see *Not
modelled*). External: QEMU refuses a file that
is not qcow2 and locks a drive it uses; the guest formats the drive.

Run `host_files`: two of the six build files (they are patched one after the
other by the same code), two versions, two firmwares, two scripts broken off: one
break and one in the repair of it. Run `host_files_raw` is the same instance, for
the finding.

## Runs

| run | expects | distinct states | shows |
|---|---|---|---|
| `playback_fifo` | pass | 156,000 | the ring is a bounded queue that drops its oldest frame |
| `ac97_playback` | pass | 263,000 | the interrupt line is current, queued frames are played at the programmed rate, silent voices are idled after two callbacks and no fewer |
| `ac97_snapshot` | pass | 397,000 | a restored controller goes on playing; what a snapshot leaves out is put right |
| `ac97_dma` | pass | 214,000 | no overrun and no lost request while the engine runs inside `update_dma`, no request without room but for a burst; a stream is served |
| `rtl8150_rx` | pass | 119,000 | one frame per URB; the device implements the link; frames are collected |
| `rtl8150_device` | pass | 247,000 | frames go out whole and in order; polls end, PHY reads return the right register, the carrier stays |
| `rtl8150_stalled` | violation | | a reset may leave the network's queue stopped |
| `everest` | pass | 101,000 | straps, keys and interrupts reach the guest, through resets |
| `autoboot` | pass | 710,000 | statuses, output and order are right and success is real |
| `autoboot_output` | violation | | output without a newline at its end is lost, and an echo behind a prompt is reported |
| `host_files` | pass | 174,000 | broken-off scripts are put right by the next; the drive keeps its data |
| `host_files_raw` | violation | | a raw drive is refused, not formatted |

## Findings

- `rtl8150_stalled`: after a bus reset with a frame in flight and another
  waiting, the network's queue is stopped and nothing starts it again.
- `autoboot_output` (autoboot.py:240): the last line of a command's output is
  dropped when it does not end in a newline.
- `autoboot_output` (autoboot.py:238): the echo of a command is only recognised on
  a line of its own. The sentinel's match leaves the prompt after it in the buffer,
  so from the second command on the echo stands behind the prompt and is reported
  as output. The docstring promises to drop all scaffolding and keep the rest.
- `host_files_raw` (bpimage.py:189): without qemu-img `mkdisk` writes a raw file and
  says, as `run.sh` does, that the device will offer to format it; `run.sh` gives it
  to QEMU as qcow2 and the start is refused, now and later.

Limits of what the passing runs show, which are no findings:

- A `battery-mv` above 4095 wraps (a conversion keeps 12 bits), so
  `BatteryReadsAsSet` is checked with 4095.
- The Aux request line may stay up with less room than its threshold until the
  next update, because its want was computed before the PCM line's run: by one
  burst and no more (`RequestsHoldGood`), and what that lets through fits
  (`NoOverrun`).
- A frame of 1537 to 1540 bytes is accepted and does not fit the driver's URB
  with its status word. No Ethernet carries one, and `OneFramePerUrb` is about
  frames that fit and frames that are refused (`UrbAssumption`).
- The comment in `pxa2xx_ac97_out_cb` has a voice idled by the second quiet
  callback; after a load it may be the first, since a snapshot does not hold
  `drained_last_cb` (`RestoredIdlesOnceEarly` excuses one). A restored voice may
  play at another rate until the guest writes the register
  (`RestoredRateIsPlayed`).
- `ProgrammedRateIsPlayed` and `RestoredRateIsPlayed` excuse a register at 48 kHz,
  where a reset puts it without telling the voice; so neither says anything of a
  guest that writes 48000 itself.
- A drive whose making was cut exists, is not made again and is refused at every
  start; no document says of such a drive that it is not. A build that was broken off may leave the kernel of one firmware
  with the flash image of another, and it starts (`BootsOneFirmware` is about
  builds that came to their end).

## Proofs

`PlaybackFifoProofs`, `Ac97Proofs` (snapshots too), `Ac97DmaProofs`,
`Rtl8150Proofs`, `Rtl8150RegsProofs`, `EverestProofs`, `AutobootProofs` and
`HostFilesProofs` hold for all values of the constants under the assumptions that
the modules name:

| assumption | says | in the code |
|---|---|---|
| `FifoAssumption`, `ThresholdAssumption`, `SilenceAssumption` | a ring has a slot, the threshold is positive, silence is a frame | 4096, 64, zero |
| `WritesAssumption`, `BatteryAssumption` | the guest's writes are registers' values, the voltage is a number | their C types |
| `BurstAssumption`, `HeadroomAssumption` | two bursts fit below the threshold, the threshold fits in the ring | 16, 64, 4096 |
| `SizeAssumption`, `UrbAssumption` | sizes are positive; a frame that is accepted fits the URB with its status word | 1540, 64, 4; see the limits above |
| `PaddingAssumption` | the driver sends no frame of whole packets | `rtl8150_start_xmit` as the device's comments describe it |
| `PhyAssumption`, `OptionAssumption`, `FilesAssumption` | types of the tables | |
| `ScriptAssumption` | scripts are lists of the seven kinds of step, statuses are numbers and 0 is one | a shell's exit status |
| `BoundAssumption` | the bounds are numbers | bounds of the model only |

The bounds are constants too, so a theorem holds for any number of frames,
commands, steps, kernel messages, versions or broken-off scripts.

- *Ring.* The invariant is `TypeOK` with head = (tail + level) mod N; the second
  conjunct is needed for the refinement, since `Push` stores at head what the
  abstract queue appends. The proof rests on two lemmas on sums modulo N, by which
  slot tail + i of the old ring is slot (tail + k) + (i - k) of the new. Each step
  maps to the abstract action of the same name.
- *Controller.* The invariant joins the type invariant with the interrupt line,
  the agreement with the host and the relation between
  `quiet`, `drained` and `active`; the rate invariant is separate and inductive
  with the types. `QueuedIsAudible` needs voices that stay open, so its theorem
  assumes OpenMayFail = FALSE. `IdlesAfterTwoQuietCallbacks` follows from the
  invariant for each action.
- *Snapshots.* A load keeps the controller's invariant because `post_load`
  tells the host of each voice and the load starts from `drained_last_cb` set;
  whatever rate the host is at is one that it can play. `RestoredIsAudible` adds
  that a voice that was never lost is open, and active while frames wait
  (`HeardInv`), which the callback keeps because it idles a voice on an empty ring
  only.
- *Battery.* The bit that the guest polls is never left set, whatever it writes;
  that it then reads the voltage as set needs a voltage below 4096 and a guest
  that does not write the converter's result register, hypotheses of the theorem
  (`BatteryIsRead`). The run has both.
- *Rates after a load.* `WriteRestoresRate` says in the invariant which DACs are
  at their register's rate: all but those astray. `OnlyTheFirstIdlesEarly` relates
  `quiet`, `drained_last_cb` and `fresh`.
- *DMA.* `DmaInv` has four parts: what the controller's handlers keep on their
  own, the types, the bounds of a latch that may be stale, and the wants that
  `update_dma` still has to drive. A PCM request that is up means a level of at
  most FIFO_FRAMES - threshold (the high water); the Aux line was computed before
  the PCM line's run, so an Aux request means at most one burst more. A burst that
  is moved thus ends at most two bursts above the high water, and
  `HeadroomAssumption` makes that fit. The other direction, that room is requested,
  holds inside of `update_dma` only of the wants it has computed; at its end they
  are the lines. `RequestsAreTimely` is the high water of both lines between
  handlers: while `update_dma` is under way the engine may have taken the level past
  it, and the next line to be driven puts that right for the PCM ring and, but for
  one burst, for the Aux ring. A load starts with the lines down, as the reset
  before it left them, and ends with the update.
- *RTL8150, sending.* What lies in `tx_buf` and in the driver's URB together is
  the last frame submitted, in two pieces (`Clean`), or what is left by a kill or a
  reset (`Dirty`). The piece still to come is never a whole number of packets,
  since the frame is not (`PaddingAssumption`) and every packet before the last is
  full; so a short packet ends each frame and only a frame. The lemmas are about
  remainders.
- *RTL8150, receiving.* The device is idle, has packets to hand over, or owes an
  empty one (`Idle`, `Sending`, `Owing`). While it sends an uncut frame the URB
  holds the transfer up to `rx_ptr`, and the rest fits, so a packet that does not
  end the transfer is a full one; a transfer that is done with the URB still open
  was a whole number of packets, and then an empty packet is owed. Hence a URB
  completes with all of one frame or with bytes that a kill or a reset cut.
- *RTL8150, the link.* `LinkInv` adds the order: every frame that arrived has
  reached the driver, waits in the queue, is in flight or is loose; those in the
  queue that are not loose wait in order, behind the one in flight. Each action
  then maps to `Send`, `Deliver`, `DeliverScrap` or `Disturb`, or to a stutter; the
  queue's flush, which may offer several frames, is taken through the lemmas of
  the queue's order.
- *RTL8150, registers.* From the write of PHYCNT to the fetch, PHYCNT holds what
  the driver asked for and PHYDAT the answer to it; the link bits are up whatever
  is written, and the polled bits are clear after every write, so a poll finds
  them so at once (`PollsFindBitsClear`).
- *IDE interrupt.* The invariant adds that a guest only waits with the edge
  enabled. Its core is the lemma that an assertion shows the latch a rise
  whatever the pin was. `IdeIsConnected` is the fact about `Ide` that all of it
  needs: the bus has an interrupt. The board's theorem has resets of the machine
  as well; `PinShowsLine` is proved without them only, since a reset may clear
  the line and not the pin.
- *Straps and keys.* The pins stay the set that the straps present, and reading
  a run of pins back gives the number whose bits they are (`StrapBit`, for four
  bits). The matrix is the set of positions of the keys held and not eclipsed; the
  two key tables of the code agree position by position (`TablesAgree`).
- *Console automation.* What the script has read, what the terminal holds and
  what the guest is writing are one text (`Stream`): reading and writing only move
  its borders. While script and guest are in step (`InStep`), the phase of the
  script says what is in it. At rest it is `Silent`: no sentinel, and no output but
  that of background commands (`Behind`). A command is asked for, runs, is done or
  has taken the line that asks for its status (`Asked`, `Running`, `Done`,
  `Robbed`); only when it is done is a sentinel there, with the command's status
  in it and the command's output before it (`Answered`), so a match can only be
  its own. A command's line ends where it stands and nothing of the sentinel is
  before it, so it is never scaffolding. Lines that others write at any place break none of this
  (`OthersKeepText`), and what is left after the match is silent again. A command
  p that prints something like a sentinel puts them out of step (`OutOfStep(p)`)
  for good; what is settled before p, and the order up to p, stay. Exit status 0
  is the sum of it: `TakenUpTo` the end, with the result still 0. `AnswerInv` is
  separate: the mark that is waited for is in the text in one piece, or the line
  that asks for it is still to be read; a message between its halves is what
  `split` records. It needs the phases to know that a login prompt is only seen
  when the guest has a getty. All of it is checked by TLC, on the run's scripts and
  others, before it is proved; the first form was not inductive, as it did not say
  that a prompt is not in the text before it is written (`Unwritten`).
- *Host files.* A file that set-up appends to is always in one of a few shapes, and
  removing the block from any of them gives the text alone; set-up has patched each
  file but those it has still to do (`AppendedBlocksAreRenewed`, for the appended
  files only). A whole build left kernel and flash of one firmware.

The runs check the type invariants of `Ac97` and of `Rtl8150`, where it says that
`tx_buf` is never overrun; those of the other modules are stated for the reader
and for the proofs, which prove them.

Only model-checked: what must eventually happen (`StreamIsServed`,
`EveryFrameArrives`, `PollsEnd`, `CommandReturns`, `ScriptEnds`), which needs
fairness.

## Not modelled

- snapshots of the RTL8150: every field is saved and nothing is done after a
  load; the URBs and the network's queue are QEMU's
- the memory map of the board and the start of the kernel: wiring, done once
- the stored registers of the AC97 controller that nothing depends on, capture
  (it reads silence), debugging output, descriptors and strings
- the bytes of the flash image (partitions, parameter block) and the MTD map:
  data that no step depends on
- the rewrite of QEMU's `scripts/symlink-install-tree.py` on Windows (setup.sh
  110-159). Unlike the appended blocks it is made once, where a grep does not find
  its words, and in place: a later version of it does not replace an earlier one,
  and a run broken off in the write leaves a torn file. What `HostFiles` shows of
  set-up is not true of this file
- packaging, copying of files, cloning and building QEMU: I/O
- QEMU itself, except as the environment of a module
