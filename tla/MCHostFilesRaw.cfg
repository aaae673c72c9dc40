SPECIFICATION Spec
CONSTANTS
    BuildFiles <- TwoFiles
    Versions = 1
    Firmware = 1
    MaxBreaks = 0
INVARIANT DriveIsOffered
