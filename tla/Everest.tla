------------------------------- MODULE Everest -------------------------------
(***************************************************************************)
(* The Everest board (everest.c): its machine options, the straps that it  *)
(* presents to the guest on GPIO pins at the start and at every reset, its *)
(* keypad map, and the interrupt of the IDE drive (IdeIrq).                *)
(*                                                                         *)
(* External: QEMU's keypad controller, which looks host keys up in the map *)
(* and keeps the matrix; the GPIO block, which may or may not clear itself *)
(* at a reset; the guest's kernel, which reads the pins and has a table of *)
(* the keys at each position of the matrix (the comments of the code).     *)
(* A set of options is a record of board-id, keypad-id and key-lock.       *)
(***************************************************************************)
EXTENDS IdeIrq, Integers

CONSTANTS BoardIds, KeypadIds,  \* values that the user gives to the options
          MaxSettings,          \* bound: options set
          Chords                \* bound: host keys that are held together

ASSUME OptionAssumption == BoardIds \subseteq Nat /\ KeypadIds \subseteq Nat

VARIABLES started,    \* everest_init has run
          options,    \* EverestMachineState
          settings,   \* number of options set so far
          straps,     \* EverestStraps
          pins,       \* the pins that the board drives high
          held,       \* host keys that are down
          matrix,     \* positions that the keypad controller has as pressed
          eclipsed    \* history: held keys whose position was released since

boardVars == <<started, options, settings, straps, pins>>
keypadVars == <<held, matrix, eclipsed>>
everestVars == <<vars, boardVars, keypadVars>>
------------------------------------------------------------------------------
(* Straps.                                                                 *)

Bit(value, i) == (value \div 2^i) % 2 = 1

\* The pins of a run of nbits that are high: all of them are driven.
Strap(first, value, nbits) ==
    {first + i : i \in {i \in 0..(nbits - 1) : Bit(value, i)}}

\* One pin, high or low.
Pin(gpio, level) == {g \in {gpio} : level}

\* EVEREST_GPIO_*: the pins of the straps.
Gpio == [KEYPAD_ID_BIT3 |-> 96, BOARD_ID_BASE |-> 103, KEYPAD_ID_BASE |-> 107,
         SD_CARD_DETECT |-> 4, KEY_LOCK |-> 93]

\* Mutation: keypad-id over consecutive pins.
PresentedInARow(st) ==
    Strap(Gpio.BOARD_ID_BASE, st.board, 4) \cup Strap(Gpio.KEYPAD_ID_BASE, st.keypad, 4)
    \cup Pin(Gpio.SD_CARD_DETECT, TRUE) \cup Pin(Gpio.KEY_LOCK, ~st.lock)

\* everest_straps_reset, with no card in the slot and the key lock active low.
Presented(st) ==
    Strap(Gpio.BOARD_ID_BASE, st.board, 4) \cup Strap(Gpio.KEYPAD_ID_BASE, st.keypad, 2)
    \cup Pin(Gpio.KEYPAD_ID_BIT3, Bit(st.keypad, 3))
    \cup Pin(Gpio.SD_CARD_DETECT, TRUE) \cup Pin(Gpio.KEY_LOCK, ~st.lock)

\* everest_init of the guest's kernel, which shifts the level registers.
Level(gpio) == IF gpio \in pins THEN 1 ELSE 0
GuestBoardId == Level(103) + 2 * Level(104) + 4 * Level(105) + 8 * Level(106)
GuestKeypadId == Level(107) + 2 * Level(108) + 8 * Level(96)
GuestIsLocked == 93 \notin pins

BoardIdAllowed(value) == value <= 15
KeypadIdAllowed(value) == value <= 15 /\ ~Bit(value, 2)

\* everest_machine_instance_init.
Defaults == [board |-> 2, keypad |-> 1, lock |-> FALSE]

Set(chosen) == /\ settings < MaxSettings
               /\ settings' = settings + 1
               /\ options' = chosen
               /\ UNCHANGED <<started, straps, pins, keypadVars, vars>>

SetBoardId == \E v \in BoardIds : /\ BoardIdAllowed(v)
                                  /\ Set([options EXCEPT !.board = v])
SetKeypadId == \E v \in KeypadIds : /\ KeypadIdAllowed(v)
                                    /\ Set([options EXCEPT !.keypad = v])
SetKeyLock == \E on \in BOOLEAN : Set([options EXCEPT !.lock = on])

\* everest_init: the straps are what the options are now.
Start == /\ ~started
         /\ started' = TRUE
         /\ straps' = options
         /\ pins' = Presented(options)
         /\ UNCHANGED <<options, settings, keypadVars, vars>>

\* A reset in the middle of anything: the guest and the drive start over.
MachineReset ==
    /\ started
    /\ pins' = Presented(straps)
    /\ busy' = FALSE /\ guest' = "idle" /\ isr' = FALSE /\ left' = 0
    /\ line' \in {line, FALSE} /\ pin' \in {pin, FALSE}
    /\ \/ enabled' = FALSE /\ latched' = FALSE
       \/ UNCHANGED <<enabled, latched>>
    /\ UNCHANGED <<started, options, settings, straps, keypadVars, issued>>
------------------------------------------------------------------------------
(* Keypad.                                                                 *)

\* The EVEREST_KP_ positions, <<column, row>> as in struct keymap.
KP == [PROG1 |-> <<0, 0>>, DOT3 |-> <<1, 0>>, INFO |-> <<2, 0>>, PROGRAM |-> <<3, 0>>,
       PROG2 |-> <<4, 0>>, HELP |-> <<5, 0>>, CANCEL |-> <<6, 0>>,
       HASH |-> <<0, 1>>, DOT2 |-> <<1, 1>>, LEFT |-> <<2, 1>>, UP |-> <<3, 1>>,
       SELECT |-> <<4, 1>>, DOWN |-> <<5, 1>>, RIGHT |-> <<6, 1>>,
       D0 |-> <<0, 2>>, DOT1 |-> <<1, 2>>, D1 |-> <<2, 2>>, D2 |-> <<3, 2>>,
       D3 |-> <<4, 2>>, OK |-> <<5, 2>>, MENU |-> <<6, 2>>,
       ASTERISK |-> <<0, 3>>, DOT4 |-> <<1, 3>>, D4 |-> <<2, 3>>, RECORD |-> <<3, 3>>,
       MUTE |-> <<4, 3>>, VOLDOWN |-> <<5, 3>>, VOLUP |-> <<6, 3>>,
       DOT6 |-> <<0, 4>>, DOT5 |-> <<1, 4>>, D5 |-> <<2, 4>>, D6 |-> <<3, 4>>,
       D7 |-> <<4, 4>>, D8 |-> <<5, 4>>, D9 |-> <<6, 4>>,
       LEFTCTRL |-> <<2, 5>>, LEFTSHIFT |-> <<3, 5>>, SPACE |-> <<4, 5>>]

\* everest_keymap, with the PC's keys for their scancodes (N: numeric keypad).
Keymap == [K1 |-> "D1", K2 |-> "D2", K3 |-> "D3", K4 |-> "D4", K5 |-> "D5",
           K6 |-> "D6", K7 |-> "D7", K8 |-> "D8", K9 |-> "D9", K0 |-> "D0",
           N1 |-> "D1", N2 |-> "D2", N3 |-> "D3", N4 |-> "D4", N5 |-> "D5",
           N6 |-> "D6", N7 |-> "D7", N8 |-> "D8", N9 |-> "D9", N0 |-> "D0",
           Nstar |-> "ASTERISK", Ndot |-> "HASH",
           S |-> "DOT3", D |-> "DOT2", F |-> "DOT1",
           J |-> "DOT4", K |-> "DOT5", L |-> "DOT6",
           Space |-> "SPACE", LShift |-> "LEFTSHIFT", LCtrl |-> "LEFTCTRL",
           Enter |-> "OK", Esc |-> "CANCEL",
           Up |-> "UP", Down |-> "DOWN", Left |-> "LEFT", Right |-> "RIGHT",
           F1 |-> "HELP", F2 |-> "MENU", F3 |-> "INFO", F4 |-> "SELECT",
           F5 |-> "PROG1", F6 |-> "PROG2", F7 |-> "PROGRAM",
           PgUp |-> "VOLUP", PgDn |-> "VOLDOWN", M |-> "MUTE", R |-> "RECORD"]
HostKey == DOMAIN Keymap

\* Mutation: written (row, column), like the table of the guest.
RowFirst(k) == <<KP[Keymap[k]][2], KP[Keymap[k]][1]>>

Position(k) == KP[Keymap[k]]

\* The guest's keycode arrays 1 and 2, by row and column; the last row is only
\* in array 2, which a non-zero keypad-id selects.
Array2 == << <<"Prog1", "Dot3", "Info", "Program", "Prog2", "Help", "Cancel">>,
             <<"#", "Dot2", "Left", "Up", "Select", "Down", "Right">>,
             <<"0", "Dot1", "1", "2", "3", "OK", "Menu">>,
             <<"*", "Dot4", "4", "Record", "Mute", "VolumeDown", "VolumeUp">>,
             <<"Dot6", "Dot5", "5", "6", "7", "8", "9">>,
             <<"-", "-", "Control", "Shift", "Space", "-", "-">> >>
LastRow == IF GuestKeypadId = 0 THEN 5 ELSE 6

\* What the guest reports, which is nothing while the key lock is on.
Reported == IF GuestIsLocked THEN {}
            ELSE {Array2[p[2] + 1][p[1] + 1] : p \in {p \in matrix : p[2] < LastRow}}

\* Two host keys at one position are one key to the controller.
Twins(k) == {t \in HostKey : Position(t) = Position(k)}

Press(k) ==
    /\ started /\ k \notin held
    /\ \E chord \in Chords : held \cup {k} \subseteq chord
    /\ held' = held \cup {k}
    /\ matrix' = matrix \cup {Position(k)}
    /\ eclipsed' = eclipsed \ Twins(k)
    /\ UNCHANGED <<boardVars, vars>>

Release(k) ==
    /\ k \in held
    /\ held' = held \ {k}
    /\ matrix' = matrix \ {Position(k)}
    /\ eclipsed' = (eclipsed \cup Twins(k)) \cap held'
    /\ UNCHANGED <<boardVars, vars>>
------------------------------------------------------------------------------
EverestInit == /\ Init
               /\ started = FALSE /\ options = Defaults /\ settings = 0
               /\ straps = Defaults /\ pins = {}
               /\ held = {} /\ matrix = {} /\ eclipsed = {}

IdeStep(A) == started /\ A /\ UNCHANGED <<boardVars, keypadVars>>

EverestNext == \/ SetBoardId \/ SetKeypadId \/ SetKeyLock
               \/ Start \/ MachineReset
               \/ \E k \in HostKey : Press(k) \/ Release(k)
               \/ IdeStep(Next)

\* The drive completes its commands and the guest takes its interrupts.
EverestSpec == /\ EverestInit /\ [][EverestNext]_everestVars
               /\ WF_everestVars(IdeStep(Complete))
               /\ WF_everestVars(IdeStep(Interrupt))
------------------------------------------------------------------------------
(* Properties, with NoLostInterrupt and CommandReturns of IdeIrq, which    *)
(* hold through machine resets as well.                                    *)

\* The guest finds in the pins what the user asked for when the machine was
\* started: no option that is accepted has a bit without a pin, no bits are
\* swapped or lost, and neither a reset nor a later setting changes a strap.
GuestReadsStraps ==
    started => /\ GuestBoardId = straps.board
               /\ GuestKeypadId = straps.keypad
               /\ GuestIsLocked = straps.lock
               /\ 4 \in pins

\* The device key that the README's table of keys gives a host key.
Meant == [K1 |-> "1", K2 |-> "2", K3 |-> "3", K4 |-> "4", K5 |-> "5",
          K6 |-> "6", K7 |-> "7", K8 |-> "8", K9 |-> "9", K0 |-> "0",
          N1 |-> "1", N2 |-> "2", N3 |-> "3", N4 |-> "4", N5 |-> "5",
          N6 |-> "6", N7 |-> "7", N8 |-> "8", N9 |-> "9", N0 |-> "0",
          S |-> "Dot3", D |-> "Dot2", F |-> "Dot1",
          J |-> "Dot4", K |-> "Dot5", L |-> "Dot6",
          Space |-> "Space", LShift |-> "Shift", LCtrl |-> "Control",
          Enter |-> "OK", Esc |-> "Cancel",
          Up |-> "Up", Down |-> "Down", Left |-> "Left", Right |-> "Right",
          F1 |-> "Help", F2 |-> "Menu", F3 |-> "Info", F4 |-> "Select",
          F5 |-> "Prog1", F6 |-> "Prog2", F7 |-> "Program",
          PgUp |-> "VolumeUp", PgDn |-> "VolumeDown", M |-> "Mute", R |-> "Record",
          Nstar |-> "*", Ndot |-> "#"]
OnlyArray2 == {"Space", "Shift", "Control"}

\* The guest sees no key that is not held, and none but the one that is meant:
\* no key sticks, also when two host keys share a position.
NothingElseIsTyped == started => Reported \subseteq {Meant[k] : k \in held}

\* With the key lock off a held key is seen as the one that is meant, in any
\* chord, unless its twin was released or it takes the array that is not there.
HeldKeysAreTyped ==
    started /\ ~straps.lock =>
        \A k \in held \ eclipsed :
            Meant[k] \in Reported \/ (straps.keypad = 0 /\ Meant[k] \in OnlyArray2)

\* The guest sees the keys that are held, and no other.
KeysAreTyped == NothingElseIsTyped /\ HeldKeysAreTyped
==============================================================================
