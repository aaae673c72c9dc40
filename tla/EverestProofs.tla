----------------------------- MODULE EverestProofs -----------------------------
(***************************************************************************)
(* The Everest board, for any number of commands and blocks, any options   *)
(* and any chord of keys: no interrupt of the IDE drive is lost on its way *)
(* to the GPIO block, with machine resets and without; the guest reads the *)
(* straps that the user asked for; and it sees the keys that are held.     *)
(***************************************************************************)
EXTENDS Everest, TLAPS

--------------------------------------------------------------------------------
(* The drive's interrupt.                                                  *)

\* What the safety properties rest on: a guest only waits with the edge enabled,
\* and a command under way has blocks left.
IrqInv == /\ TypeOK
          /\ NoLostInterrupt
          /\ guest = "waiting" => enabled
          /\ guest # "idle" => left > 0

\* The order of the set-up leaves the bus with its interrupt.
LEMMA IdeIsConnected == Ide.bus
  BY DEF Ide, Realized, Connected, NewIde

\* An assertion always shows the latch a rise, whatever the pin was; the pin
\* ends at the level of the line.
LEMMA AssertionRises ==
    ASSUME HandleIrq(TRUE)
    PROVE  /\ line' = TRUE /\ pin' = TRUE
           /\ enabled => latched'
  <1>1. Driven(TRUE) = <<FALSE, TRUE>>
    BY DEF Driven
  <1>2. Rises(Driven(TRUE))
    <2>1. 2 \in DOMAIN <<FALSE, TRUE>> /\ <<FALSE, TRUE>>[2]
          /\ ~<<FALSE, TRUE>>[2 - 1]
      OBVIOUS
    <2>2. (IF 2 = 1 THEN pin ELSE <<FALSE, TRUE>>[2 - 1]) =
              <<FALSE, TRUE>>[2 - 1]
      OBVIOUS
    <2> QED BY <1>1, <2>1, <2>2, Zenon DEF Rises
  <1>3. <<FALSE, TRUE>>[Len(<<FALSE, TRUE>>)] = TRUE
    OBVIOUS
  <1> QED BY <1>1, <1>2, <1>3, IdeIsConnected DEF HandleIrq

\* A release takes the pin down and latches nothing.
LEMMA ReleaseFalls ==
    ASSUME TypeOK, HandleIrq(FALSE)
    PROVE  /\ line' = FALSE /\ pin' = FALSE
           /\ latched' = latched
  <1>1. Driven(FALSE) = <<FALSE>>
    BY DEF Driven
  <1>2. ~Rises(<<FALSE>>)
    <2>1. DOMAIN <<FALSE>> = {1} /\ <<FALSE>>[1] = FALSE
      OBVIOUS
    <2>2. \A i \in DOMAIN <<FALSE>> : ~<<FALSE>>[i]
      BY <2>1, Zenon
    <2> QED BY <2>2, Zenon DEF Rises
  <1>3. <<FALSE>>[Len(<<FALSE>>)] = FALSE
    OBVIOUS
  <1> QED BY <1>1, <1>2, <1>3, IdeIsConnected DEF HandleIrq, TypeOK

\* Taking a block leaves the drive busy with the next or the command done.
LEMMA BlockTaken ==
    ASSUME TypeOK, left > 0, TakeBlock
    PROVE  /\ left' \in 0..MaxBlocks /\ busy' \in BOOLEAN
           /\ \/ guest' = "idle"
              \/ guest' = guest /\ left' > 0 /\ busy'
  <1>1. left \in Nat /\ left <= MaxBlocks
    BY BoundAssumption DEF TypeOK
  <1>2. CASE left > 1
    <2>1. left' = left - 1 /\ busy' = (left > 1) /\ guest' = guest
      BY <1>2 DEF TakeBlock
    <2>2. left - 1 \in 0..MaxBlocks /\ left - 1 > 0
      BY <1>1, <1>2, BoundAssumption
    <2> QED BY <1>2, <2>1, <2>2
  <1>3. CASE ~(left > 1)
    <2>1. left' = left - 1 /\ busy' = (left > 1) /\ guest' = "idle"
      BY <1>3 DEF TakeBlock
    <2>2. left - 1 \in 0..MaxBlocks
      BY <1>1, BoundAssumption
    <2> QED BY <2>1, <2>2
  <1> QED BY <1>2, <1>3

\* Initially nothing is under way.
LEMMA InitIrq == Init => IrqInv
  <1> SUFFICES ASSUME Init PROVE IrqInv
    OBVIOUS
  <1>1. TypeOK
    <2>1. 0 \in 0..MaxCommands /\ 0 \in 0..MaxBlocks
      BY BoundAssumption
    <2> QED BY <2>1 DEF Init, TypeOK
  <1>2. NoLostInterrupt /\ (guest = "waiting" => enabled)
        /\ (guest # "idle" => left > 0)
    BY DEF Init, NoLostInterrupt
  <1> QED BY <1>1, <1>2 DEF IrqInv

\* Every step keeps the invariant.
LEMMA StepIrq == IrqInv /\ [Next]_vars => IrqInv'
  <1> SUFFICES ASSUME IrqInv, [Next]_vars
               PROVE  IrqInv'
    OBVIOUS
  <1> USE BoundAssumption
      DEF IrqInv, TypeOK, NoLostInterrupt
  <1>1. ASSUME NEW n \in 1..MaxBlocks, NEW mode \in {"polling", "waiting"},
               Issue(n, mode)
        PROVE  IrqInv'
    BY <1>1 DEF Issue
  <1>2. CASE Complete
    <2>1. pin' = TRUE /\ line' = TRUE /\ (enabled => latched')
      BY <1>2, AssertionRises DEF Complete
    <2>2. latched' \in BOOLEAN
      BY <1>2 DEF Complete, HandleIrq
    <2> QED BY <1>2, <2>1, <2>2 DEF Complete
  <1>3. CASE PollAltStatus
    BY <1>3 DEF PollAltStatus, TakeBlock
  <1>4. CASE PollStatus
    <2>1. pin' = FALSE /\ line' = FALSE /\ latched' = latched
      BY <1>4, ReleaseFalls DEF PollStatus
    <2>2. CASE busy
      BY <1>4, <2>1, <2>2 DEF PollStatus
    <2>3. CASE ~busy
      <3>1. TakeBlock
        BY <1>4, <2>3 DEF PollStatus
      <3>2. left' \in 0..MaxBlocks /\ busy' \in BOOLEAN
            /\ \/ guest' = "idle"
               \/ guest' = guest /\ left' > 0 /\ busy'
        BY <1>4, <3>1, BlockTaken DEF PollStatus
      <3> QED BY <1>4, <2>1, <3>2 DEF PollStatus
    <2> QED BY <2>2, <2>3
  <1>5. CASE EnableEdge
    BY <1>5 DEF EnableEdge
  <1>6. CASE TakeInterrupt
    BY <1>6 DEF TakeInterrupt
  <1>7. CASE ReadStatus
    <2>1. pin' = FALSE /\ line' = FALSE /\ latched' = latched
      BY <1>7, ReleaseFalls DEF ReadStatus
    <2>2. CASE ~(guest = "waiting" /\ ~busy)
      BY <1>7, <2>1, <2>2 DEF ReadStatus
    <2>3. CASE guest = "waiting" /\ ~busy
      <3>1. TakeBlock
        BY <1>7, <2>3 DEF ReadStatus
      <3>2. left' \in 0..MaxBlocks /\ busy' \in BOOLEAN
            /\ \/ guest' = "idle"
               \/ guest' = guest /\ left' > 0 /\ busy'
        BY <2>3, <3>1, BlockTaken
      <3> QED BY <1>7, <2>1, <2>3, <3>2 DEF ReadStatus
    <2> QED BY <2>2, <2>3
  <1>8. CASE UNCHANGED vars
    BY <1>8 DEF vars
  <1> QED
    BY <1>1, <1>2, <1>3, <1>4, <1>5, <1>6, <1>7, <1>8 DEF Next, Interrupt

\* The invariant holds throughout.
THEOREM IrqInvariant == Spec => []IrqInv
  BY InitIrq, StepIrq, PTL DEF Spec

\* A guest that waits for a command that is done is always about to be told,
\* though the GPIO block only sees edges and the drive may never have released
\* its line: for any number of commands and blocks.
THEOREM NoInterruptIsLost == Spec => []NoLostInterrupt
  <1>1. IrqInv => NoLostInterrupt
    BY DEF IrqInv
  <1> QED BY <1>1, IrqInvariant, PTL

\* The pin shows the level of the drive's line after every call of the handler;
\* only a machine reset may part them, which lowers each by itself.
THEOREM PinFollowsLine == Spec => []PinShowsLine
  <1>1. Init => PinShowsLine
    BY DEF Init, PinShowsLine
  <1>2. IrqInv /\ PinShowsLine /\ [Next]_vars => PinShowsLine'
    <2> SUFFICES ASSUME TypeOK, PinShowsLine, [Next]_vars PROVE pin' = line'
      BY DEF IrqInv, PinShowsLine
    <2>1. CASE Complete
      BY <2>1, AssertionRises DEF Complete
    <2>2. CASE PollStatus \/ ReadStatus
      BY <2>2, ReleaseFalls DEF PollStatus, ReadStatus
    <2>3. CASE UNCHANGED <<line, pin>>
      BY <2>3 DEF PinShowsLine
    <2> QED
      BY <2>1, <2>2, <2>3
      DEF Next, Interrupt, Issue, PollAltStatus, EnableEdge, TakeInterrupt, vars
  <1> QED BY <1>1, <1>2, IrqInvariant, PTL DEF Spec

\* A reset may come in the middle of everything: the guest starts over, so it
\* does not wait.
LEMMA ResetKeepsIrq == IrqInv /\ MachineReset => IrqInv'
  <1> SUFFICES ASSUME IrqInv, MachineReset PROVE IrqInv'
    OBVIOUS
  <1>1. 0 \in 0..MaxBlocks
    BY BoundAssumption
  <1>2. busy' = FALSE /\ guest' = "idle" /\ isr' = FALSE /\ left' = 0
        /\ issued' = issued
    BY DEF MachineReset
  <1>3. line' \in BOOLEAN /\ pin' \in BOOLEAN
    BY DEF MachineReset, IrqInv, TypeOK
  <1>4. enabled' \in BOOLEAN /\ latched' \in BOOLEAN
    BY DEF MachineReset, IrqInv, TypeOK
  <1> QED  BY <1>1, <1>2, <1>3, <1>4 DEF IrqInv, TypeOK, NoLostInterrupt

\* The board as a whole loses no interrupt either, whenever it is reset.
THEOREM BoardLosesNoInterrupt == EverestSpec => []NoLostInterrupt
  <1>1. EverestInit => IrqInv
    BY InitIrq DEF EverestInit
  <1>2. IrqInv /\ [EverestNext]_everestVars => IrqInv'
    <2> SUFFICES ASSUME IrqInv, [EverestNext]_everestVars PROVE IrqInv'
      OBVIOUS
    <2>1. CASE UNCHANGED vars
      BY <2>1, StepIrq
    <2>2. CASE MachineReset
      BY <2>2, ResetKeepsIrq
    <2>3. CASE IdeStep(Next)
      BY <2>3, StepIrq DEF IdeStep
    <2> QED
      BY <2>1, <2>2, <2>3
      DEF EverestNext, SetBoardId, SetKeypadId, SetKeyLock, Set, Start, Press,
          Release, everestVars
  <1>3. IrqInv => NoLostInterrupt
    BY DEF IrqInv
  <1> QED  BY <1>1, <1>2, <1>3, PTL DEF EverestSpec
--------------------------------------------------------------------------------
(* Straps.                                                                 *)

\* The options that the machine accepts.
Options == [board : 0..15, keypad : {v \in 0..15 : ~Bit(v, 2)}, lock : BOOLEAN]

\* What the straps' property rests on: the pins stay as the straps have them.
StrapsInv == /\ options \in Options /\ straps \in Options
             /\ started => pins = Presented(straps)

\* A pin of a run is high just if its bit of the value is set.
LEMMA StrapBit ==
    ASSUME NEW first \in Nat, NEW nbits \in Nat, NEW value, NEW gpio \in Nat
    PROVE  gpio \in Strap(first, value, nbits)
             <=> /\ first <= gpio /\ gpio < first + nbits
                 /\ Bit(value, gpio - first)
  <1>1. ASSUME NEW i \in 0..(nbits - 1), Bit(value, i), gpio = first + i
        PROVE  first <= gpio /\ gpio < first + nbits /\ Bit(value, gpio - first)
    <2>1. i = gpio - first /\ first <= gpio /\ gpio < first + nbits
      BY <1>1
    <2> QED  BY <1>1, <2>1
  <1>2. ASSUME first <= gpio, gpio < first + nbits, Bit(value, gpio - first)
        PROVE  gpio \in Strap(first, value, nbits)
    <2>1. gpio - first \in 0..(nbits - 1) /\ gpio = first + (gpio - first)
      BY <1>2
    <2> QED  BY <1>2, <2>1 DEF Strap
  <1> QED  BY <1>1, <1>2 DEF Strap

\* The pins, one by one.
LEMMA PinsOfStraps ==
    ASSUME NEW st \in Options
    PROVE  /\ 103 \in Presented(st) <=> Bit(st.board, 0)
           /\ 104 \in Presented(st) <=> Bit(st.board, 1)
           /\ 105 \in Presented(st) <=> Bit(st.board, 2)
           /\ 106 \in Presented(st) <=> Bit(st.board, 3)
           /\ 107 \in Presented(st) <=> Bit(st.keypad, 0)
           /\ 108 \in Presented(st) <=> Bit(st.keypad, 1)
           /\ 96 \in Presented(st) <=> Bit(st.keypad, 3)
           /\ 93 \in Presented(st) <=> ~st.lock
           /\ 4 \in Presented(st)
  <1>1. \A gpio \in Nat :
            gpio \in Presented(st) <=>
                \/ 103 <= gpio /\ gpio < 107 /\ Bit(st.board, gpio - 103)
                \/ 107 <= gpio /\ gpio < 109 /\ Bit(st.keypad, gpio - 107)
                \/ gpio = 96 /\ Bit(st.keypad, 3)
                \/ gpio = 4
                \/ gpio = 93 /\ ~st.lock
    <2> TAKE gpio \in Nat
    <2>1. gpio \in Strap(103, st.board, 4)
            <=> 103 <= gpio /\ gpio < 107 /\ Bit(st.board, gpio - 103)
      BY StrapBit
    <2>2. gpio \in Strap(107, st.keypad, 2)
            <=> 107 <= gpio /\ gpio < 109 /\ Bit(st.keypad, gpio - 107)
      BY StrapBit
    <2> QED  BY <2>1, <2>2 DEF Presented, Gpio, Pin
  <1>2. /\ 103 - 103 = 0 /\ 104 - 103 = 1 /\ 105 - 103 = 2 /\ 106 - 103 = 3
        /\ 107 - 107 = 0 /\ 108 - 107 = 1
    OBVIOUS
  <1> QED  BY <1>1, <1>2

\* A number below 16 is the sum of its bits.
LEMMA SumOfBits ==
    ASSUME NEW v \in 0..15
    PROVE  v = (IF Bit(v, 0) THEN 1 ELSE 0) + 2 * (IF Bit(v, 1) THEN 1 ELSE 0)
               + 4 * (IF Bit(v, 2) THEN 1 ELSE 0) + 8 * (IF Bit(v, 3) THEN 1 ELSE 0)
  BY DEF Bit

\* What the guest makes of the pins is what the options were.
LEMMA GuestReads ==
    ASSUME NEW st \in Options, pins = Presented(st)
    PROVE  /\ GuestBoardId = st.board /\ GuestKeypadId = st.keypad
           /\ GuestIsLocked = st.lock /\ 4 \in pins
  <1>1. st.board \in 0..15 /\ st.keypad \in 0..15 /\ ~Bit(st.keypad, 2)
        /\ st.lock \in BOOLEAN
    BY DEF Options
  <1>2. GuestBoardId = st.board
    <2>1. st.board = (IF Bit(st.board, 0) THEN 1 ELSE 0)
                     + 2 * (IF Bit(st.board, 1) THEN 1 ELSE 0)
                     + 4 * (IF Bit(st.board, 2) THEN 1 ELSE 0)
                     + 8 * (IF Bit(st.board, 3) THEN 1 ELSE 0)
      BY <1>1, SumOfBits
    <2> QED  BY <2>1, PinsOfStraps DEF GuestBoardId, Level
  <1>3. GuestKeypadId = st.keypad
    <2>1. st.keypad = (IF Bit(st.keypad, 0) THEN 1 ELSE 0)
                      + 2 * (IF Bit(st.keypad, 1) THEN 1 ELSE 0)
                      + 4 * (IF Bit(st.keypad, 2) THEN 1 ELSE 0)
                      + 8 * (IF Bit(st.keypad, 3) THEN 1 ELSE 0)
      BY <1>1, SumOfBits
    <2> QED  BY <1>1, <2>1, PinsOfStraps DEF GuestKeypadId, Level
  <1>4. GuestIsLocked = st.lock /\ 4 \in pins
    BY <1>1, PinsOfStraps DEF GuestIsLocked
  <1> QED  BY <1>2, <1>3, <1>4

\* A setting that is accepted is an option that has its pins.
LEMMA SettingIsAccepted ==
    ASSUME options \in Options, NEW chosen, Set(chosen),
           \/ \E v \in BoardIds : /\ BoardIdAllowed(v)
                                  /\ chosen = [options EXCEPT !.board = v]
           \/ \E v \in KeypadIds : /\ KeypadIdAllowed(v)
                                   /\ chosen = [options EXCEPT !.keypad = v]
           \/ \E on \in BOOLEAN : chosen = [options EXCEPT !.lock = on]
    PROVE  options' \in Options
  <1>1. ASSUME NEW v \in BoardIds, BoardIdAllowed(v),
               chosen = [options EXCEPT !.board = v]
        PROVE  options' \in Options
    <2>1. v \in 0..15
      BY <1>1, OptionAssumption DEF BoardIdAllowed
    <2> QED  BY <1>1, <2>1 DEF Set, Options
  <1>2. ASSUME NEW v \in KeypadIds, KeypadIdAllowed(v),
               chosen = [options EXCEPT !.keypad = v]
        PROVE  options' \in Options
    <2>1. v \in {w \in 0..15 : ~Bit(w, 2)}
      BY <1>2, OptionAssumption DEF KeypadIdAllowed
    <2> QED  BY <1>2, <2>1 DEF Set, Options
  <1>3. ASSUME NEW on \in BOOLEAN, chosen = [options EXCEPT !.lock = on]
        PROVE  options' \in Options
    BY <1>3 DEF Set, Options
  <1> QED  BY <1>1, <1>2, <1>3

\* Every step keeps the straps on the pins.
LEMMA StrapsInvariance == EverestSpec => []StrapsInv
  <1>1. EverestInit => StrapsInv
    <2>1. Defaults \in Options
      <3>1. ~Bit(1, 2)
        BY DEF Bit
      <3> QED  BY <3>1 DEF Defaults, Options
    <2> QED  BY <2>1 DEF EverestInit, StrapsInv
  <1>2. StrapsInv /\ [EverestNext]_everestVars => StrapsInv'
    <2> SUFFICES ASSUME StrapsInv, [EverestNext]_everestVars PROVE StrapsInv'
      OBVIOUS
    <2>1. CASE SetBoardId \/ SetKeypadId \/ SetKeyLock
      <3>1. options' \in Options
        BY <2>1, SettingIsAccepted
        DEF SetBoardId, SetKeypadId, SetKeyLock, StrapsInv
      <3>2. UNCHANGED <<started, straps, pins>>
        BY <2>1 DEF SetBoardId, SetKeypadId, SetKeyLock, Set
      <3> QED  BY <3>1, <3>2 DEF StrapsInv
    <2>2. CASE Start
      BY <2>2 DEF Start, StrapsInv
    <2>3. CASE MachineReset
      BY <2>3 DEF MachineReset, StrapsInv
    <2>4. CASE UNCHANGED boardVars
      BY <2>4 DEF boardVars, StrapsInv
    <2> QED
      BY <2>1, <2>2, <2>3, <2>4
      DEF EverestNext, Press, Release, IdeStep, everestVars
  <1> QED  BY <1>1, <1>2, PTL DEF EverestSpec

\* The guest finds in the pins what the user asked for, for every value that
\* the options accept, whenever the machine is reset.
THEOREM GuestFindsItsStraps == EverestSpec => []GuestReadsStraps
  <1>1. StrapsInv => GuestReadsStraps
    BY GuestReads DEF StrapsInv, GuestReadsStraps
  <1> QED  BY <1>1, StrapsInvariance, PTL
--------------------------------------------------------------------------------
(* Keypad.                                                                 *)

\* What the keys' property rests on: the controller has as pressed the positions
\* of the keys that are held and not eclipsed, and no other.
KeypadInv == /\ eclipsed \subseteq held /\ held \subseteq HostKey
             /\ matrix = {Position(k) : k \in held \ eclipsed}

\* A host key stands at a position of the matrix where the guest's tables have
\* the key that is meant, and only keys of the second table are in its last row.
LEMMA TablesAgree ==
    ASSUME NEW k \in HostKey
    PROVE  /\ Array2[Position(k)[2] + 1][Position(k)[1] + 1] = Meant[k]
           /\ Position(k)[2] \in 0..5
           /\ Position(k)[2] = 5 => Meant[k] \in OnlyArray2
  <1>1. Array2[Position(k)[2] + 1][Position(k)[1] + 1] = Meant[k]
    BY DEF HostKey, Meant, Array2, Position, KP, Keymap
  <1>2. Position(k)[2] \in 0..5
    BY DEF HostKey, Position, KP, Keymap
  <1>3. Position(k)[2] = 5 => Meant[k] \in OnlyArray2
    BY DEF HostKey, Meant, Position, KP, Keymap, OnlyArray2
  <1> QED  BY <1>1, <1>2, <1>3

\* Every step keeps the matrix at the keys that are held.
LEMMA KeypadInvariance == EverestSpec => []KeypadInv
  <1>1. EverestInit => KeypadInv
    BY DEF EverestInit, KeypadInv
  <1>2. KeypadInv /\ [EverestNext]_everestVars => KeypadInv'
    <2> SUFFICES ASSUME KeypadInv, [EverestNext]_everestVars PROVE KeypadInv'
      OBVIOUS
    <2>1. ASSUME NEW k \in HostKey, Press(k) PROVE KeypadInv'
      <3>1. /\ held' = held \cup {k} /\ eclipsed' = eclipsed \ Twins(k)
            /\ matrix' = matrix \cup {Position(k)}
        BY <2>1 DEF Press
      <3>2. k \in Twins(k) /\ \A t \in Twins(k) : Position(t) = Position(k)
        BY DEF Twins
      <3>3. \A p : p \in matrix' <=> \E j \in held' \ eclipsed' : p = Position(j)
        BY <3>1, <3>2 DEF KeypadInv
      <3> QED  BY <3>1, <3>3 DEF KeypadInv
    <2>2. ASSUME NEW k \in HostKey, Release(k) PROVE KeypadInv'
      <3>1. /\ held' = held \ {k} /\ eclipsed' = (eclipsed \cup Twins(k)) \cap held'
            /\ matrix' = matrix \ {Position(k)}
        BY <2>2 DEF Release
      <3>2. \A t \in HostKey : t \in Twins(k) <=> Position(t) = Position(k)
        BY DEF Twins
      <3>3. \A p : p \in matrix' <=> \E j \in held' \ eclipsed' : p = Position(j)
        BY <3>1, <3>2 DEF KeypadInv
      <3> QED  BY <3>1, <3>3 DEF KeypadInv
    <2>3. CASE UNCHANGED keypadVars
      BY <2>3 DEF keypadVars, KeypadInv
    <2> QED
      BY <2>1, <2>2, <2>3
      DEF EverestNext, SetBoardId, SetKeypadId, SetKeyLock, Set, Start,
          MachineReset, IdeStep, everestVars
  <1> QED  BY <1>1, <1>2, PTL DEF EverestSpec

\* In any chord, however its keys came together, the guest sees the keys that
\* are held and no other; what two keys at one position do to each other is all
\* that may come between.
THEOREM GuestSeesItsKeys == EverestSpec => []KeysAreTyped
  <1>1. StrapsInv /\ KeypadInv => NothingElseIsTyped
    <2> SUFFICES ASSUME KeypadInv, NEW r \in Reported
                 PROVE  r \in {Meant[k] : k \in held}
      BY DEF NothingElseIsTyped
    <2>1. PICK p \in matrix : r = Array2[p[2] + 1][p[1] + 1]
      BY DEF Reported
    <2>2. PICK k \in held : k \in HostKey /\ p = Position(k)
      BY DEF KeypadInv
    <2> QED  BY <2>1, <2>2, TablesAgree
  <1>2. StrapsInv /\ KeypadInv => HeldKeysAreTyped
    <2> SUFFICES ASSUME StrapsInv, KeypadInv, started, ~straps.lock,
                        NEW k \in held \ eclipsed,
                        straps.keypad # 0 \/ Meant[k] \notin OnlyArray2
                 PROVE  Meant[k] \in Reported
      BY DEF HeldKeysAreTyped
    <2>1. ~GuestIsLocked /\ GuestKeypadId = straps.keypad
      BY GuestReads DEF StrapsInv
    <2>2. k \in HostKey /\ Position(k) \in matrix
      BY DEF KeypadInv
    <2>3. Position(k)[2] < LastRow
      BY <2>1, <2>2, TablesAgree DEF LastRow
    <2> QED  BY <2>1, <2>2, <2>3, TablesAgree DEF Reported
  <1> QED
    BY <1>1, <1>2, StrapsInvariance, KeypadInvariance, PTL DEF KeysAreTyped
================================================================================
