------------------------------ MODULE HostFiles ------------------------------
(***************************************************************************)
(* The files that the scripts leave behind, when any script may be broken  *)
(* off at any step and run again: the blocks that setup.sh appends to      *)
(* QEMU's build files, the unpacked firmware and the flash image of        *)
(* build-image.sh, and the drive that the launchers make on demand         *)
(* (run.sh and run.ps1; Run-BraillePlus.ps1 calls qemu-img itself and has  *)
(* no raw file to fall back on).                                           *)
(*                                                                         *)
(* A build file is a sequence of <<kind, version>>: the text of QEMU, the  *)
(* marker line, the body of a block, and what is left of either when the   *)
(* write is cut ("stub", "cut").  Firmware is a number, 0 is no file.      *)
(*                                                                         *)
(* Build files are the six that set-up appends a block to.  On Windows it  *)
(* also rewrites scripts/symlink-install-tree.py in place (setup.sh        *)
(* 110-159), once, if it does not find its words there: that file is no    *)
(* part of this module, and what is said of build files is not true of it. *)
(* A later version does not renew it, and a run that breaks off in its     *)
(* write leaves a torn file that no later run repairs.                     *)
(***************************************************************************)
EXTENDS Integers, Sequences, FiniteSets

CONSTANTS BuildFiles,   \* the appended files, in the order of the script
          Versions,     \* bound: versions of this repository
          Firmware,     \* bound: firmware bundles the user has
          MaxBreaks     \* bound: scripts broken off

ASSUME BoundAssumption ==
    Versions \in Nat \ {0} /\ Firmware \in Nat \ {0} /\ MaxBreaks \in Nat
ASSUME FilesAssumption == BuildFiles \in Seq(STRING)

VARIABLES version,      \* the checked out version of this repository
          files,        \* the build files
          todo,         \* what setup.sh has still to do
          landed,       \* history: version of a set-up that came to its end
          parts,        \* firmware of kernel.bin and root.bin
          flash,        \* firmware in flash.img, Torn while it is incomplete
          bundle, build,  \* the bundle being built, what is left to do
          whole,        \* history: the last build came to its end
          drive,        \* hdd.qcow2: what is in it
          qemuImg,      \* a qemu-img can be found
          launch,       \* the launcher: "off", "drive", "boot" or "running"
          breaks

setup == <<version, files, todo, landed>>
images == <<parts, flash, bundle, build, whole>>
machine == <<drive, qemuImg, launch>>
vars == <<setup, images, machine, breaks>>

Text == <<"text", 0>>
Marker == <<"marker", 0>>
Stub == <<"stub", 0>>
Body(v) == <<"body", v>>
Cut(v) == <<"cut", v>>
Torn == -1
FileNames == {BuildFiles[i] : i \in DOMAIN BuildFiles}

Init == /\ version = 1 /\ files = [f \in FileNames |-> <<Text>>]
        /\ todo = <<>> /\ landed = 0
        /\ parts = [kernel |-> 0, root |-> 0] /\ flash = 0
        /\ bundle = 0 /\ build = <<>> /\ whole = FALSE
        /\ drive = "none" /\ qemuImg \in BOOLEAN /\ launch = "off"
        /\ breaks = 0

Break == breaks < MaxBreaks /\ breaks' = breaks + 1
------------------------------------------------------------------------------
(* setup.sh.                                                               *)

Upgrade == /\ todo = <<>> /\ version < Versions
           /\ version' = version + 1
           /\ UNCHANGED <<files, todo, landed, images, machine, breaks>>

SetUp == /\ todo = <<>>
         /\ todo' = BuildFiles
         /\ landed' = 0
         /\ UNCHANGED <<version, files, images, machine, breaks>>

\* Mutation: the block of an earlier run is left.
Unpatched(lines) == lines

Markers(lines) == {i \in DOMAIN lines : lines[i] = Marker}

\* unpatch: the first marker and all that follows is deleted.
Unpatch(lines) ==
    IF Markers(lines) = {} THEN lines
    ELSE SubSeq(lines, 1, (CHOOSE i \in Markers(lines) :
                              \A j \in Markers(lines) : i <= j) - 1)

\* A stub has no newline: what is appended continues its line.
WithoutStub(lines) == IF lines[Len(lines)] = Stub THEN SubSeq(lines, 1, Len(lines) - 1)
                                                  ELSE lines

\* unpatch of a file and cat >> to it, and the next file.
Patch == /\ todo # <<>>
         /\ files' = [files EXCEPT ![Head(todo)] =
                         WithoutStub(Unpatch(@)) \o <<Marker, Body(version)>>]
         /\ todo' = Tail(todo)
         /\ landed' = IF Len(todo) = 1 THEN version ELSE 0
         /\ UNCHANGED <<version, images, machine, breaks>>

\* The script ends in one of the two: before it writes, or in the write.
PatchBreaksOff ==
    /\ todo # <<>> /\ Break
    /\ \/ UNCHANGED files
       \/ files' = [files EXCEPT ![Head(todo)] = Unpatch(@)]
       \/ \E written \in {<<Stub>>, <<Marker>>, <<Marker, Cut(version)>>} :
              files' = [files EXCEPT ![Head(todo)] =
                           WithoutStub(Unpatch(@)) \o written]
    /\ todo' = <<>>
    /\ UNCHANGED <<version, landed, images, machine>>
------------------------------------------------------------------------------
(* build-image.sh, bpimage.py unpack and mkflash.                          *)

\* Mutation: the image is made before the bundle is unpacked.
FlashFirst == <<"open", "write", "kernel", "root">>

\* unpack writes file after file, in the order of the bundle; mkflash reads the
\* parts, opens the image, which empties it, and writes it.
BuildSteps == <<"kernel", "root", "open", "write">>

BuildImage(fw) == /\ build = <<>>
                  /\ bundle' = fw /\ build' = BuildSteps /\ whole' = FALSE
                  /\ UNCHANGED <<parts, flash, setup, machine, breaks>>

BuildStep == /\ build # <<>>
             /\ parts' = IF Head(build) \in DOMAIN parts
                           THEN [parts EXCEPT ![Head(build)] = bundle] ELSE parts
             /\ flash' = CASE Head(build) = "open" -> Torn
                           [] Head(build) = "write" -> parts.root
                           [] OTHER -> flash
             /\ build' = Tail(build)
             /\ whole' = (build' = <<>>)
             /\ UNCHANGED <<bundle, setup, machine, breaks>>

BuildBreaksOff == /\ build # <<>> /\ Break
                  /\ build' = <<>>
                  /\ UNCHANGED <<parts, flash, bundle, whole, setup, machine>>
------------------------------------------------------------------------------
(* bpimage.py mkdisk and the launchers.                                    *)

\* Mutation: a drive that exists is made anew.
AlwaysMakes(force) == TRUE

Makes(force) == drive = "none" \/ force

\* Without a qemu-img the file is raw, whatever its name says.
MakeDisk(force) ==
    drive' = CASE ~Makes(force) -> drive
               [] Makes(force) /\ qemuImg -> "qcow2"
               [] Makes(force) /\ ~qemuImg -> "raw"

\* A running QEMU holds a lock on its drive.
MkDisk(force) == /\ launch = "off"
                 /\ MakeDisk(force)
                 /\ UNCHANGED <<qemuImg, launch, setup, images, breaks>>

\* The files that must be there are looked for, not looked into.
Launch == /\ launch = "off" /\ parts.kernel # 0 /\ flash # 0
          /\ launch' = "drive"
          /\ UNCHANGED <<drive, qemuImg, setup, images, breaks>>

ProvideDrive == /\ launch = "drive"
                /\ launch' = "boot"
                /\ MakeDisk(FALSE)
                /\ UNCHANGED <<qemuImg, setup, images, breaks>>

\* qemu-img fails half way, and mkdisk and the launcher with it.
ProvideBreaksOff == /\ launch = "drive" /\ drive = "none" /\ Break
                    /\ drive' = "part" /\ launch' = "off"
                    /\ UNCHANGED <<qemuImg, setup, images>>

\* QEMU is told that the drive is qcow2, and takes it or ends.
Accepted == drive \in {"qcow2", "data"}

Boot == /\ launch = "boot" /\ Accepted
        /\ launch' = "running"
        /\ UNCHANGED <<drive, qemuImg, setup, images, breaks>>

Refuse == /\ launch = "boot" /\ ~Accepted
          /\ launch' = "off"
          /\ UNCHANGED <<drive, qemuImg, setup, images, breaks>>

\* The guest formats the drive and the user puts files there.
Format == /\ launch = "running"
          /\ drive' = "data"
          /\ UNCHANGED <<qemuImg, launch, setup, images, breaks>>

PowerOff == /\ launch = "running"
            /\ launch' = "off"
            /\ UNCHANGED <<drive, qemuImg, setup, images, breaks>>

InstallQemuImg == /\ ~qemuImg
                  /\ qemuImg' = TRUE
                  /\ UNCHANGED <<drive, launch, setup, images, breaks>>

Next == \/ Upgrade \/ SetUp \/ Patch \/ PatchBreaksOff
        \/ \E fw \in 1..Firmware : BuildImage(fw)
        \/ BuildStep \/ BuildBreaksOff
        \/ \E force \in BOOLEAN : MkDisk(force)
        \/ Launch \/ ProvideDrive \/ ProvideBreaksOff
        \/ Boot \/ Refuse \/ Format \/ PowerOff \/ InstallQemuImg

Spec == Init /\ [][Next]_vars
------------------------------------------------------------------------------
(* Properties.                                                             *)

\* Re-running "always lands the current version rather than stacking duplicates"
\* (setup.sh 68): however often set-up ran before, in whatever version, and
\* wherever it broke off, one that comes to its end leaves each file it appends
\* to with QEMU's text and one block of the current version, and no such file
\* ever has two blocks.
SetUpLandsOneBlock ==
    /\ landed # 0 =>
         \A f \in FileNames : files[f] = <<Text, Marker, Body(landed)>>
    /\ \A f \in FileNames :
         Cardinality({i \in DOMAIN files[f] : files[f][i][1] \in {"body", "cut"}}) <= 1

\* A machine is started with kernel and root file system of one firmware, unless
\* the last build was broken off or is going on: nothing records that it was.
BootsOneFirmware == [][Boot /\ whole => parts.kernel = flash]_vars

\* What the guest has put on its drive outlives every script, builds of another
\* firmware and broken-off runs too, but a mkdisk that is forced.
DriveKeepsData ==
    [][drive = "data" /\ drive' # "data" => MkDisk(TRUE)]_vars

\* "The device will offer to format it on first boot" (bpimage.py 194, run.sh 69):
\* QEMU takes every drive that mkdisk has made to its end.  It does not hold: a
\* raw drive is refused at every start, also once there is a qemu-img, as the
\* launchers say qcow2 and make no drive where there is one.
DriveIsOffered == launch = "boot" => Accepted \/ drive = "part"
==============================================================================
