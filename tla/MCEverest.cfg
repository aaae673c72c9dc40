SPECIFICATION EverestSpec
CONSTANTS
    MaxCommands = 2
    MaxBlocks = 2
    BoardIds = {5, 16}
    KeypadIds = {0, 4, 9, 10}
    MaxSettings = 1
    Chords <- SomeChords
INVARIANTS
    NoLostInterrupt
    GuestReadsStraps
    KeysAreTyped
PROPERTIES
    CommandReturns
