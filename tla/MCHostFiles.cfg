SPECIFICATION Spec
CONSTANTS
    BuildFiles <- TwoFiles
    Versions = 2
    Firmware = 2
    MaxBreaks = 2
INVARIANTS
    SetUpLandsOneBlock
PROPERTIES
    BootsOneFirmware
    DriveKeepsData
