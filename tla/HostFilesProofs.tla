--------------------------- MODULE HostFilesProofs ---------------------------
(***************************************************************************)
(* What the scripts leave behind, for any list of files that set-up        *)
(* appends to, however often they are run, in how many versions, and       *)
(* wherever they break off.                                                *)
(***************************************************************************)
EXTENDS HostFiles, FiniteSetTheorems, SequenceTheorems, TLAPS

------------------------------------------------------------------------------
(* Sequences.                                                              *)

\* A line and a line, one after the other.
LEMMA OneAndOne == ASSUME NEW a, NEW b PROVE <<a>> \o <<b>> = <<a, b>>
  <1>1. <<a>> \in Seq({a, b}) /\ <<b>> \in Seq({a, b}) /\ <<a, b>> \in Seq({a, b})
    OBVIOUS
  <1>2. Len(<<a>>) = 1 /\ Len(<<b>>) = 1 /\ Len(<<a, b>>) = 2
        /\ <<a>>[1] = a /\ <<b>>[1] = b /\ <<a, b>>[1] = a /\ <<a, b>>[2] = b
    OBVIOUS
  <1>3. /\ <<a>> \o <<b>> \in Seq({a, b}) /\ Len(<<a>> \o <<b>>) = 2
        /\ (<<a>> \o <<b>>)[1] = a /\ (<<a>> \o <<b>>)[2] = b
    BY <1>1, <1>2, ConcatProperties
  <1>4. \A i \in 1..2 : i = 1 \/ i = 2
    OBVIOUS
  <1> QED  BY <1>1, <1>2, <1>3, <1>4, SeqEqual

\* A line and two more.
LEMMA OneAndTwo == ASSUME NEW a, NEW b, NEW c PROVE <<a>> \o <<b, c>> = <<a, b, c>>
  <1> DEFINE S == {a, b, c}
  <1>1. <<a>> \in Seq(S) /\ <<b, c>> \in Seq(S) /\ <<a, b, c>> \in Seq(S)
    OBVIOUS
  <1>2. Len(<<a>>) = 1 /\ Len(<<b, c>>) = 2 /\ Len(<<a, b, c>>) = 3
        /\ <<a>>[1] = a /\ <<b, c>>[1] = b /\ <<b, c>>[2] = c
        /\ <<a, b, c>>[1] = a /\ <<a, b, c>>[2] = b /\ <<a, b, c>>[3] = c
    OBVIOUS
  <1> HIDE DEF S
  <1>3. /\ <<a>> \o <<b, c>> \in Seq(S) /\ Len(<<a>> \o <<b, c>>) = 3
        /\ \A i \in 1..3 : (<<a>> \o <<b, c>>)[i] =
                               IF i <= 1 THEN <<a>>[i] ELSE <<b, c>>[i - 1]
    BY <1>1, <1>2, ConcatProperties
  <1>4. (<<a>> \o <<b, c>>)[1] = a /\ (<<a>> \o <<b, c>>)[2] = b
        /\ (<<a>> \o <<b, c>>)[3] = c
    BY <1>2, <1>3
  <1>5. \A i \in 1..3 : i = 1 \/ i = 2 \/ i = 3
    OBVIOUS
  <1> QED  BY <1>1, <1>2, <1>3, <1>4, <1>5, SeqEqual

\* What comes before the second line is the first.
LEMMA FirstLine ==
    ASSUME NEW S, NEW s \in Seq(S), Len(s) >= 1
    PROVE  SubSeq(s, 1, 1) = <<s[1]>>
  <1>1. SubSeq(s, 1, 1) \in Seq(S) /\ Len(SubSeq(s, 1, 1)) = 1
        /\ SubSeq(s, 1, 1)[1] = s[1]
    BY SubSeqProperties
  <1>2. <<s[1]>> \in Seq(S) /\ Len(<<s[1]>>) = 1 /\ <<s[1]>>[1] = s[1]
    OBVIOUS
  <1>3. \A i \in 1..1 : i = 1
    OBVIOUS
  <1> QED  BY <1>1, <1>2, <1>3, SeqEqual

------------------------------------------------------------------------------
(* Set-up.                                                                 *)

\* What a build file may hold: QEMU's text alone, with what is left of a marker,
\* or with a marker and what came to be written of one block.
Patched(v) == <<Text, Marker, Body(v)>>
Shapes == {<<Text>>, <<Text, Stub>>, <<Text, Marker>>}
              \cup {Patched(v) : v \in 1..Versions}
              \cup {<<Text, Marker, Cut(v)>> : v \in 1..Versions}

InTodo == {todo[i] : i \in DOMAIN todo}

\* What the block's property rests on: set-up has patched every file but those
\* it has still to do, all with the version that is checked out.
SetUpInv ==
    /\ version \in 1..Versions
    /\ files \in [FileNames -> Shapes]
    /\ todo \in Seq(FileNames)
    /\ todo # <<>> => /\ landed = 0
                      /\ \A f \in FileNames \ InTodo : files[f] = Patched(version)
    /\ landed # 0 => \A f \in FileNames : files[f] = Patched(landed)

\* The lines of each shape.
LEMMA ShapesByLine ==
    ASSUME NEW lines \in Shapes
    PROVE  /\ lines[1] = Text
           /\ \/ lines = <<Text>> /\ DOMAIN lines = {1}
              \/ /\ lines = <<Text, Stub>> /\ DOMAIN lines = {1, 2}
                 /\ lines[2] = Stub
              \/ /\ lines = <<Text, Marker>> /\ DOMAIN lines = {1, 2}
                 /\ lines[2] = Marker
              \/ /\ DOMAIN lines = {1, 2, 3} /\ lines[2] = Marker
                 /\ \E v \in 1..Versions : lines[3] \in {Body(v), Cut(v)}
  <1>1. ASSUME NEW v, NEW x \in {Body(v), Cut(v)}
        PROVE  /\ <<Text, Marker, x>>[1] = Text /\ <<Text, Marker, x>>[2] = Marker
               /\ <<Text, Marker, x>>[3] = x /\ DOMAIN <<Text, Marker, x>> = 1..3
    OBVIOUS
  <1>2. 1..3 = {1, 2, 3}
    OBVIOUS
  <1> QED  BY <1>1, <1>2 DEF Shapes, Patched

\* Whatever an earlier run left, unpatching and taking the stub away brings back
\* the text of QEMU.
LEMMA BackToText ==
    ASSUME NEW lines \in Shapes
    PROVE  /\ Unpatch(lines) \in {<<Text>>, <<Text, Stub>>}
           /\ WithoutStub(Unpatch(lines)) = <<Text>>
  <1>1. Text # Marker /\ Stub # Marker /\ Text # Stub
    BY DEF Text, Marker, Stub
  <1>2. WithoutStub(<<Text>>) = <<Text>> /\ WithoutStub(<<Text, Stub>>) = <<Text>>
    <2>1. SubSeq(<<Text, Stub>>, 1, 1) = <<Text>>
      <3>1. <<Text, Stub>> \in Seq({Text, Stub}) /\ Len(<<Text, Stub>>) = 2
            /\ <<Text, Stub>>[1] = Text /\ 2 >= 1
        OBVIOUS
      <3>2. SubSeq(<<Text, Stub>>, 1, 1) = << <<Text, Stub>>[1] >>
        BY <3>1, FirstLine
      <3> QED  BY <3>1, <3>2
    <2>2. Len(<<Text>>) = 1 /\ <<Text>>[1] = Text
          /\ Len(<<Text, Stub>>) = 2 /\ <<Text, Stub>>[2] = Stub
      OBVIOUS
    <2> QED  BY <1>1, <2>1, <2>2 DEF WithoutStub
  <1>3. CASE lines \in {<<Text>>, <<Text, Stub>>}
    <2>1. Markers(lines) = {}
      BY <1>1, <1>3, ShapesByLine DEF Markers
    <2> QED  BY <1>2, <1>3, <2>1 DEF Unpatch
  <1>4. CASE lines \notin {<<Text>>, <<Text, Stub>>}
    <2>1. /\ 2 \in Markers(lines)
          /\ \A i \in Markers(lines) : i \in Nat /\ 2 <= i
      BY <1>1, <1>4, ShapesByLine DEF Markers
    <2>2. (CHOOSE i \in Markers(lines) : \A j \in Markers(lines) : i <= j) = 2
      BY <2>1
    <2>3. Unpatch(lines) = SubSeq(lines, 1, 1)
      BY <2>1, <2>2 DEF Unpatch
    <2>4. SubSeq(lines, 1, 1) = <<Text>>
      <3>1. PICK a, b, c : lines \in {<<a>>, <<a, b>>, <<a, b, c>>}
        BY DEF Shapes, Patched
      <3>2. /\ <<a>> \in Seq({a, b, c}) /\ Len(<<a>>) >= 1
            /\ <<a, b>> \in Seq({a, b, c}) /\ Len(<<a, b>>) >= 1
            /\ <<a, b, c>> \in Seq({a, b, c}) /\ Len(<<a, b, c>>) >= 1
        OBVIOUS
      <3>3. lines \in Seq({a, b, c}) /\ Len(lines) >= 1
        BY <3>1, <3>2
      <3> QED  BY <3>3, FirstLine, ShapesByLine
    <2> QED  BY <1>2, <2>3, <2>4
  <1> QED  BY <1>3, <1>4

\* At most one line of a file that has one of the shapes is of a block.
LEMMA OneBlockAtMost ==
    ASSUME NEW lines \in Shapes
    PROVE  Cardinality({i \in DOMAIN lines : lines[i][1] \in {"body", "cut"}}) <= 1
  <1> DEFINE Blocks == {i \in DOMAIN lines : lines[i][1] \in {"body", "cut"}}
  <1>1. Text[1] = "text" /\ Marker[1] = "marker" /\ Stub[1] = "stub"
    BY DEF Text, Marker, Stub
  <1>2. Blocks = {} \/ Blocks = {3}
    <2>1. \A i \in DOMAIN lines : i # 3 => lines[i] \in {Text, Marker, Stub}
      BY ShapesByLine
    <2>2. \A i \in Blocks : i = 3
      BY <1>1, <2>1
    <2> QED  BY <2>2
  <1> SUFFICES Cardinality(Blocks) <= 1
    OBVIOUS
  <1> HIDE DEF Blocks
  <1>3. Cardinality({}) = 0 /\ Cardinality({3}) = 1
    BY FS_EmptySet, FS_Singleton
  <1> QED  BY <1>2, <1>3

\* Every step keeps what set-up has done.
LEMMA SetUpInvariance == Spec => []SetUpInv
  <1>1. Init => SetUpInv
    <2> SUFFICES ASSUME Init PROVE SetUpInv
      OBVIOUS
    <2>1. <<>> \in Seq(FileNames) /\ 1 \in 1..Versions
      BY BoundAssumption
    <2>2. <<Text>> \in Shapes
      BY DEF Shapes
    <2> QED  BY <2>1, <2>2 DEF Init, SetUpInv
  <1>2. SetUpInv /\ [Next]_vars => SetUpInv'
    <2> SUFFICES ASSUME SetUpInv, [Next]_vars PROVE SetUpInv'
      OBVIOUS
    <2>1. CASE Upgrade
      <3>1. version + 1 \in 1..Versions
        BY <2>1, BoundAssumption DEF Upgrade, SetUpInv
      <3> QED  BY <2>1, <3>1 DEF Upgrade, SetUpInv, InTodo
    <2>2. CASE SetUp
      <3>1. BuildFiles \in Seq(FileNames)
        BY FilesAssumption DEF FileNames
      <3>2. InTodo' = FileNames
        BY <2>2 DEF SetUp, InTodo, FileNames
      <3> QED  BY <2>2, <3>1, <3>2 DEF SetUp, SetUpInv
    <2>3. CASE Patch
      <3> DEFINE f == Head(todo)
      <3>1. /\ f \in FileNames /\ todo' \in Seq(FileNames)
            /\ InTodo \subseteq InTodo' \cup {f}
            /\ Len(todo) = 1 <=> todo' = <<>>
        <4>1. todo \in Seq(FileNames) /\ todo # <<>> /\ todo' = Tail(todo)
          BY <2>3 DEF Patch, SetUpInv
        <4>2. /\ f \in FileNames /\ f = todo[1] /\ Tail(todo) \in Seq(FileNames)
              /\ Len(Tail(todo)) = Len(todo) - 1
              /\ \A i \in 1..Len(Tail(todo)) : Tail(todo)[i] = todo[i + 1]
          BY <4>1, HeadTailProperties
        <4>3. Len(todo) = 1 <=> todo' = <<>>
          <5>1. Len(todo) \in Nat /\ Len(<<>>) = 0
            BY <4>1
          <5>2. Tail(todo) # <<>> => Len(Tail(todo)) # 0
            BY <4>2, EmptySeq
          <5>3. Len(todo) = 1 <=> Len(todo) - 1 = 0
            BY <5>1
          <5> QED  BY <4>1, <4>2, <5>1, <5>2, <5>3, Zenon
        <4>4. ASSUME NEW i \in DOMAIN todo, i # 1 PROVE todo[i] \in InTodo'
          <5>1. i - 1 \in 1..Len(Tail(todo)) /\ i = (i - 1) + 1
            BY <4>1, <4>2, <4>4
          <5>2. Tail(todo)[i - 1] = todo[i] /\ i - 1 \in DOMAIN todo'
            BY <4>1, <4>2, <5>1
          <5> QED  BY <4>1, <5>2 DEF InTodo
        <4> QED  BY <4>1, <4>2, <4>3, <4>4 DEF InTodo
      <3>2. WithoutStub(Unpatch(files[f])) \o <<Marker, Body(version)>>
              = Patched(version)
        <4>1. WithoutStub(Unpatch(files[f])) = <<Text>>
          BY <3>1, BackToText DEF SetUpInv
        <4> QED  BY <4>1, OneAndTwo DEF Patched
      <3>3. files' = [files EXCEPT ![f] = Patched(version)]
        BY <2>3, <3>2 DEF Patch
      <3>4. Patched(version) \in Shapes
        BY DEF SetUpInv, Shapes
      <3>5. files' \in [FileNames -> Shapes]
        BY <3>3, <3>4 DEF SetUpInv
      <3>6. \A g \in FileNames \ InTodo' : files'[g] = Patched(version)
        BY <2>3, <3>1, <3>3 DEF SetUpInv, Patch
      <3>7. todo' = <<>> => InTodo' = {}
        BY DEF InTodo
      <3>8. version' = version
            /\ landed' = IF Len(todo) = 1 THEN version ELSE 0
        BY <2>3 DEF Patch
      <3> QED  BY <3>1, <3>5, <3>6, <3>7, <3>8 DEF SetUpInv
    <2>4. CASE PatchBreaksOff
      <3> DEFINE f == Head(todo)
      <3>1. f \in FileNames /\ <<>> \in Seq(FileNames) /\ landed = 0
        BY <2>4 DEF PatchBreaksOff, SetUpInv
      <3>2. WithoutStub(Unpatch(files[f])) = <<Text>>
            /\ Unpatch(files[f]) \in Shapes
        BY <3>1, BackToText DEF SetUpInv, Shapes
      <3>3. \A written \in {<<Stub>>, <<Marker>>, <<Marker, Cut(version)>>} :
                <<Text>> \o written \in Shapes
        <4>1. /\ <<Text>> \o <<Stub>> = <<Text, Stub>>
              /\ <<Text>> \o <<Marker>> = <<Text, Marker>>
              /\ <<Text>> \o <<Marker, Cut(version)>> = <<Text, Marker, Cut(version)>>
          BY OneAndOne, OneAndTwo
        <4> QED  BY <4>1 DEF Shapes, SetUpInv
      <3>4. files' \in [FileNames -> Shapes]
        BY <2>4, <3>1, <3>2, <3>3 DEF PatchBreaksOff, SetUpInv
      <3> QED  BY <2>4, <3>1, <3>4 DEF PatchBreaksOff, SetUpInv
    <2>5. CASE UNCHANGED setup
      BY <2>5 DEF setup, SetUpInv, InTodo
    <2> QED
      BY <2>1, <2>2, <2>3, <2>4, <2>5
      DEF Next, BuildImage, BuildStep, BuildBreaksOff, MkDisk, Launch,
          ProvideDrive, ProvideBreaksOff, Boot, Refuse, Format, PowerOff,
          InstallQemuImg, vars
  <1> QED  BY <1>1, <1>2, PTL DEF Spec

\* A set-up that comes to its end leaves in each of the files that it appends to,
\* however many they are, one block, that of the current version, whatever earlier
\* ones left there.  (symlink-install-tree.py is not one of these files.)
THEOREM AppendedBlocksAreRenewed == Spec => []SetUpLandsOneBlock
  <1>1. SetUpInv => SetUpLandsOneBlock
    BY OneBlockAtMost DEF SetUpInv, SetUpLandsOneBlock, Patched
  <1> QED  BY <1>1, SetUpInvariance, PTL
------------------------------------------------------------------------------
(* Flash images.                                                           *)

\* How far a build has come, and what it has unpacked by then.
ImagesInv ==
    /\ parts \in [{"kernel", "root"} -> 0..Firmware]
    /\ \/ build = BuildSteps
       \/ build = <<"root", "open", "write">> /\ parts.kernel = bundle
       \/ /\ build \in {<<"open", "write">>, <<"write">>}
          /\ parts.kernel = bundle /\ parts.root = bundle
       \/ build = <<>>
    /\ bundle \in 0..Firmware
    /\ whole => build = <<>> /\ parts.kernel = flash

\* Every step keeps the parts and the image in step with the build.
LEMMA ImagesInvariance == Spec => []ImagesInv
  <1>1. Init => ImagesInv
    BY BoundAssumption DEF Init, ImagesInv
  <1>2. ImagesInv /\ [Next]_vars => ImagesInv'
    <2> SUFFICES ASSUME ImagesInv, [Next]_vars PROVE ImagesInv'
      OBVIOUS
    <2>1. ASSUME NEW fw \in 1..Firmware, BuildImage(fw) PROVE ImagesInv'
      BY <2>1, BoundAssumption DEF BuildImage, ImagesInv
    <2>2. CASE BuildStep
      <3>1. /\ build' = Tail(build) /\ whole' = (build' = <<>>) /\ bundle' = bundle
            /\ parts \in [{"kernel", "root"} -> 0..Firmware] /\ bundle \in 0..Firmware
        BY <2>2 DEF BuildStep, ImagesInv
      <3>2. CASE build = BuildSteps
        <4>1. Head(build) = "kernel" /\ Tail(build) = <<"root", "open", "write">>
              /\ Tail(build) # <<>>
          BY <3>2 DEF BuildSteps
        <4>2. parts' = [parts EXCEPT !["kernel"] = bundle]
          BY <2>2, <3>1, <4>1 DEF BuildStep
        <4> QED  BY <3>1, <4>1, <4>2 DEF ImagesInv
      <3>3. CASE build = <<"root", "open", "write">> /\ parts.kernel = bundle
        <4>1. Head(build) = "root" /\ Tail(build) = <<"open", "write">>
              /\ Tail(build) # <<>>
          BY <3>3
        <4>2. parts' = [parts EXCEPT !["root"] = bundle]
          BY <2>2, <3>1, <4>1 DEF BuildStep
        <4> QED  BY <3>1, <3>3, <4>1, <4>2 DEF ImagesInv
      <3>4. CASE build = <<"open", "write">> /\ parts.kernel = bundle
                 /\ parts.root = bundle
        <4>1. Head(build) = "open" /\ Tail(build) = <<"write">>
              /\ Tail(build) # <<>>
          BY <3>4
        <4>2. parts' = parts
          BY <2>2, <3>1, <4>1 DEF BuildStep
        <4> QED  BY <3>1, <3>4, <4>1, <4>2 DEF ImagesInv
      <3>5. CASE build = <<"write">> /\ parts.kernel = bundle
                 /\ parts.root = bundle
        <4>1. Head(build) = "write" /\ Tail(build) = <<>>
          BY <3>5
        <4>2. parts' = parts /\ flash' = parts.root
          BY <2>2, <3>1, <4>1 DEF BuildStep
        <4> QED  BY <3>1, <3>5, <4>1, <4>2 DEF ImagesInv
      <3> QED  BY <2>2, <3>2, <3>3, <3>4, <3>5 DEF BuildStep, ImagesInv
    <2>3. CASE BuildBreaksOff
      BY <2>3 DEF BuildBreaksOff, ImagesInv
    <2>4. CASE UNCHANGED images
      BY <2>4 DEF images, ImagesInv
    <2> QED
      BY <2>1, <2>2, <2>3, <2>4
      DEF Next, Upgrade, SetUp, Patch, PatchBreaksOff, MkDisk, Launch,
          ProvideDrive, ProvideBreaksOff, Boot, Refuse, Format, PowerOff,
          InstallQemuImg, vars
  <1> QED  BY <1>1, <1>2, PTL DEF Spec

\* With whatever firmware images were built before, a machine is started with
\* kernel and root file system of one, if the last build came to its end.
THEOREM MachineBootsOneFirmware == Spec => BootsOneFirmware
  <1> DEFINE A == Boot /\ whole => parts.kernel = flash
  <1>1. ImagesInv /\ [Next]_vars => [A]_vars
    BY DEF ImagesInv
  <1> QED  BY <1>1, ImagesInvariance, PTL DEF Spec, BootsOneFirmware
------------------------------------------------------------------------------
(* The drive.                                                              *)

\* No script but a forced mkdisk takes from the drive what the guest put there.
THEOREM DataOutlivesScripts == Spec => DriveKeepsData
  <1> DEFINE A == drive = "data" /\ drive' # "data" => MkDisk(TRUE)
  <1>1. [Next]_vars => [A]_vars
    <2> SUFFICES ASSUME Next, drive = "data", drive' # "data" PROVE MkDisk(TRUE)
      OBVIOUS
    <2>1. PICK force \in BOOLEAN : MkDisk(force)
      BY DEF Next, Upgrade, SetUp, Patch, PatchBreaksOff, BuildImage, BuildStep,
             BuildBreaksOff, machine, Launch, ProvideDrive, MakeDisk, Makes,
             ProvideBreaksOff, Boot, Refuse, Format, PowerOff, InstallQemuImg
    <2>2. force
      BY <2>1 DEF MkDisk, MakeDisk, Makes
    <2> QED  BY <2>1, <2>2
  <1> QED  BY <1>1, PTL DEF Spec, DriveKeepsData
==============================================================================
