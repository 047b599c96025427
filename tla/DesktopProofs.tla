----------------------------- MODULE DesktopProofs -----------------------------
(***************************************************************************)
(* Proofs about Desktop, for any file systems, any lengths of the arrays,  *)
(* any batch files and any depth of their nesting: the explorer's list,    *)
(* path and viewer belong together, only what ScreenFailsOnlyBy names      *)
(* makes the screen halt or hang, and the console carries out what a line  *)
(* means, nested batch files included.                                     *)
(***************************************************************************)
EXTENDS BatchMeaning, SequenceTheorems, NaturalsInduction, WellFoundedInduction, TLAPS

-------------------------------------------------------------------------------
(* The invariant.                                                           *)

\* The mode that does not run stands at its start.
Apart ==
  /\ mode = "screen" => at = "start"
  /\ mode = "console" => pc = "start"

\* Screen mode starts with the help page.
Fresh == pc = "start" => ActivePageIndex = 0 /\ ~ActivePageDrawn

\* The arrays hold the beginning of what is to be shown.
Listed ==
  /\ ExplorerCount <= Len(Shown)
  /\ \A k \in 1 .. ExplorerCount :
       Shown[k] = [name |-> ExplorerNames[k - 1], folder |-> ExplorerTypes[k - 1]]

InFolder == FileInterface # NULL => IsFolder(FileInterface, szCurrentPath)

\* While the list is made it is the explorer's page, ...
Lists ==
  mode = "screen" /\ pc = "list" =>
    ActivePageIndex = 1 /\ ~ActivePageDrawn /\ InFolder /\ Listed

\* ... and from then on the arrays hold the folder in use, until that or its path
\* changes, after which the explorer is drawn before anything else.  In the
\* explorer they hold the volumes when none is in use.
Holds ==
  mode = "screen" /\ pc \in {"draw", "key"} =>
    /\ pc = "key" => ActivePageDrawn
    /\ (ActivePageIndex = 1 => ActivePageDrawn) /\ (ActivePageIndex = 1 \/ FileInterface # NULL) =>
         InFolder /\ Listed /\ ExplorerCount = Len(Shown)

\* What ShowsActive says of an active file, also before the page is drawn again.
Shows ==
  /\ mode = "screen" /\ pc \in {"draw", "key"}
  /\ ActivePageDrawn /\ ActivePageIndex = 2 /\ FileInterface # NULL /\ ~stale
  => \/ OffList
     \/ ExplorerTypes[ExplorerActiveIndex]
     \/ viewer = Opened

\* Whatever the viewer was left with is a file.
Viewed == viewer = NULL \/ IsFile(viewer[1], viewer[2], viewer[3])

IInv ==
  TypeOK /\ Apart /\ Fresh /\ Lists /\ Holds /\ PathExists /\ Shows /\ Viewed /\ ScreenFailsOnlyBy

-------------------------------------------------------------------------------
(* What is shown.                                                           *)

Entries == [name : Names \cup Disk, folder : BOOLEAN]

\* Volumes are shown by their numbers, a folder as it is.
LEMMA ShownIs ==
  ASSUME InFolder
  PROVE  /\ Shown \in Seq(Entries)
         /\ Len(Shown) \in Nat
         /\ \A k \in 1 .. Len(Shown) : Shown[k] \in Entries
         /\ FileInterface = NULL =>
              Len(Shown) = Disks /\ \A k \in 1 .. Disks : Shown[k].name \in Disk
<1>1. CASE FileInterface = NULL
  <2>1. Shown = [k \in 1 .. Disks |-> [name |-> k - 1, folder |-> TRUE]]
    BY <1>1 DEF Shown
  <2>2. Disks \in Nat
    BY VolumesAssumption
  <2>3. \A k \in 1 .. Disks : k - 1 \in Disk /\ [name |-> k - 1, folder |-> TRUE] \in Entries
    BY <2>2 DEF Disk, Entries
  <2>4. Shown \in Seq(Entries) /\ Len(Shown) = Disks
    BY <2>1, <2>2, <2>3
  <2> QED
    BY <2>1, <2>2, <2>3, <2>4
<1>2. CASE FileInterface # NULL
  <2>1. Shown = Listing[FileInterface, szCurrentPath] /\ <<FileInterface, szCurrentPath>> \in DOMAIN Listing
    <3>1. Shown = Listing[FileInterface, szCurrentPath]
      BY <1>2, SMTT(30) DEF Shown
    <3>2. IsFolder(FileInterface, szCurrentPath)
      BY <1>2 DEF InFolder
    <3> QED
      BY <3>1, <3>2 DEF IsFolder
  <2>2. Shown \in Seq([name : Names, folder : BOOLEAN])
    BY <2>1, VolumesAssumption
  <2>3. Len(Shown) \in Nat /\ \A k \in 1 .. Len(Shown) : Shown[k] \in [name : Names, folder : BOOLEAN]
    BY <2>2, LenProperties
  <2>4. \A k \in 1 .. Len(Shown) : Shown[k] \in Entries
    BY <2>3 DEF Entries
  <2>5. Shown \in Seq(Entries)
    BY <2>2, <2>4, <2>3, LenProperties
  <2> QED
    BY <1>2, <2>3, <2>4, <2>5
<1> QED
  BY <1>1, <1>2

\* An entry of the list is the one that is shown.
LEMMA ListedEntry ==
  ASSUME InFolder, Listed, TypeOK, ~OffList
  PROVE  /\ ExplorerActiveIndex \in Index
         /\ ExplorerActiveIndex + 1 \in 1 .. Len(Shown)
         /\ Shown[ExplorerActiveIndex + 1] \in Entries
         /\ Shown[ExplorerActiveIndex + 1].name = ExplorerNames[ExplorerActiveIndex]
         /\ Shown[ExplorerActiveIndex + 1].folder = ExplorerTypes[ExplorerActiveIndex]
<1>1. ExplorerActiveIndex \in Int /\ ExplorerCount \in Nat /\ MaxEntries \in Nat /\ ExplorerCount <= MaxEntries
  BY ExplorerAssumption DEF TypeOK, ExplorerTypeOK
<1>2. ExplorerActiveIndex \in 0 .. ExplorerCount - 1
  BY DEF OffList
<1>3. ExplorerActiveIndex + 1 \in 1 .. ExplorerCount /\ (ExplorerActiveIndex + 1) - 1 = ExplorerActiveIndex
  BY <1>1, <1>2
<1>4. Shown[ExplorerActiveIndex + 1] =
        [name |-> ExplorerNames[ExplorerActiveIndex], folder |-> ExplorerTypes[ExplorerActiveIndex]]
  BY <1>3 DEF Listed
<1> QED
  BY <1>1, <1>2, <1>3, <1>4, ShownIs DEF Listed, Index

-------------------------------------------------------------------------------
(* Types.                                                                   *)

\* A line of a command gives a path.
LEMMA TargetIs ==
  ASSUME TypeOK, NEW l \in Lines
  PROVE  Target(l) \in Seq(Name)
<1>1. l.names \in Seq(Names) /\ l.absolute \in BOOLEAN
  BY ConsoleAssumption DEF Lines
<1>2. l.names \in Seq(Name)
  BY <1>1 DEF Name
<1>3. szCurrentPath \in Seq(Name)
  BY DEF TypeOK
<1> QED
  BY <1>2, <1>3 DEF Target

\* The lines of a batch file.
LEMMA ContentIs ==
  ASSUME NEW path
  PROVE  Content(path) \in Seq(Lines)
<1>1. CASE path \in DOMAIN Batches
  <2>1. Batches[path] \in Seq(BatchLines)
    BY <1>1, ConsoleAssumption
  <2> QED
    BY <1>1, <2>1 DEF Content, Lines
<1>2. CASE path \notin DOMAIN Batches
  BY <1>2 DEF Content
<1> QED
  BY <1>1, <1>2

SharedTypeOK ==
  /\ mode \in Modes
  /\ FileInterface \in Disk \cup {NULL}
  /\ szCurrentPath \in Seq(Name)
  /\ ioFail \in BOOLEAN /\ stale \in BOOLEAN /\ moved \in BOOLEAN

\* What the calls keep when a line is carried out.
LEMMA CarriedOut ==
  ASSUME TypeOK, In("line"), NEW l \in Lines, NEW rest \in Seq(Seq(Lines)),
         Len(rest) < MaxDepth, NEW failed \in BOOLEAN, CarryOut(l, rest, failed)
  PROVE  SharedTypeOK' /\ ConsoleTypeOK' /\ (mode' = "screen" => at' = "start")
<1> USE DEF Modes
<1>1. TypeOK /\ mode = "console" /\ at = "line" /\ FileInterface = Assets
  BY DEF In, TypeOK, ConsoleTypeOK
<1>2. CASE Cd(l, rest, failed)
  BY <1>1, <1>2, TargetIs DEF Cd, AfterCd, TypeOK, SharedTypeOK, ConsoleTypeOK, Lines
<1>3. CASE OpenRead(l, rest, failed)
  <2>1. Exists(Target(l)) \in BOOLEAN /\ Exists(szCurrentPath) \in BOOLEAN
    BY DEF Exists, IsFolder, IsFile
  <2>2. HasLongName(FileInterface, szCurrentPath) \in BOOLEAN
    BY DEF HasLongName, IsFolder
  <2>3. ioFail' \in BOOLEAN /\ UNCHANGED <<FileInterface, szCurrentPath, stale, moved>>
    BY <1>1, <1>3, <2>1, <2>2 DEF OpenRead, TypeOK, Halted
  <2>4. \/ batches' = rest /\ at' = "check" /\ mode' = mode
        \/ mode' \in {"halted", "reading"} /\ UNCHANGED <<batches, at>>
    BY <1>3 DEF OpenRead, Halted
  <2> QED
    BY <1>1, <2>3, <2>4 DEF TypeOK, SharedTypeOK, ConsoleTypeOK, Lines
<1>4. CASE Batch(l, rest, failed)
  <2>1. ioFail' \in BOOLEAN /\ UNCHANGED <<FileInterface, szCurrentPath, stale, moved>>
    BY <1>1, <1>4 DEF Batch, TypeOK, Halted
  <2>2. CASE Len(rest) + 1 < MaxDepth /\ batches' = <<Content(Target(l))>> \o rest /\ at' = "line" /\ mode' = mode
    <3>1. batches' \in Seq(Seq(Lines)) /\ Len(batches') = Len(rest) + 1
      BY <2>2, ContentIs
    <3> QED
      BY <1>1, <2>1, <2>2, <3>1 DEF TypeOK, SharedTypeOK, ConsoleTypeOK, Lines
  <2>3. CASE mode' = "halted" /\ UNCHANGED <<batches, at>>
    BY <1>1, <2>1, <2>3 DEF TypeOK, SharedTypeOK, ConsoleTypeOK, Lines
  <2> QED
    BY <1>4, <2>2, <2>3 DEF Batch, Halted
<1>5. CASE Return(l, rest, failed)
  <2>1. ioFail' \in BOOLEAN /\ UNCHANGED <<FileInterface, szCurrentPath, stale, moved>>
    BY <1>1, <1>5 DEF Return, TypeOK
  <2>2. Returns(l.op # "quit", rest)
    BY <1>5 DEF Return
  <2>3. CASE rest = <<>>
    BY <1>1, <2>1, <2>2, <2>3, ConsoleAssumption DEF Returns, TypeOK, SharedTypeOK, ConsoleTypeOK, Lines
  <2>4. CASE rest # <<>>
    <3>1. Tail(rest) \in Seq(Seq(Lines)) /\ Len(Tail(rest)) < MaxDepth
      BY <2>4, ConsoleAssumption
    <3> QED
      BY <1>1, <2>1, <2>2, <2>4, <3>1 DEF Returns, TypeOK, SharedTypeOK, ConsoleTypeOK, Lines
  <2> QED
    BY <2>3, <2>4
<1>6. CASE Other(l, rest, failed)
  BY <1>1, <1>6 DEF Other, TypeOK, SharedTypeOK, ConsoleTypeOK, Lines
<1> QED
  BY <1>2, <1>3, <1>4, <1>5, <1>6 DEF CarryOut

\* A step of the console.
LEMMA ConsoleTyped ==
  ASSUME TypeOK, Apart, Shell
  PROVE  TypeOK' /\ Apart'
<1> USE DEF Modes
<1>1. TypeOK /\ mode = "console" /\ pc = "start" /\ UNCHANGED explorer
  BY DEF Shell, ConsoleStep, BatchStep, StartConsole, TypeLine, BatchLine, NoLine, CutLine, Check, In, Apart
<1>2. ExplorerTypeOK' /\ pc' = "start"
  BY <1>1 DEF explorer, locals, entries, TypeOK, ExplorerTypeOK
<1>3. SharedTypeOK' /\ ConsoleTypeOK' /\ (mode' = "screen" => at' = "start")
  <2>0. MaxDepth \in Nat \ {0} /\ Assets \in Disk
    BY ConsoleAssumption, VolumesAssumption
  <2>1. CASE StartConsole
    BY <1>1, <2>0, <2>1 DEF StartConsole, history, TypeOK, SharedTypeOK, ConsoleTypeOK
  <2>2. CASE TypeLine
    <3>1. PICK l \in Typed : CarryOut(l, <<>>, FALSE)
      BY <2>2 DEF TypeLine
    <3>2. <<>> \in Seq(Seq(Lines)) /\ Len(<<>>) < MaxDepth /\ In("line") /\ l \in Lines
      BY <2>0, <2>2 DEF TypeLine, Lines
    <3> QED
      BY <3>1, <3>2, CarriedOut
  <2>3. ASSUME batches # <<>>
        PROVE  /\ batches[1] \in Seq(Lines) /\ Tail(batches) \in Seq(Seq(Lines))
               /\ Len(Tail(batches)) + 1 < MaxDepth
    BY <2>0, <2>3 DEF TypeOK, ConsoleTypeOK, Lines
  <2>4. CASE BatchLine
    <3>1. batches[1] # <<>> /\ In("line") /\ batches # <<>>
      BY <2>4 DEF BatchLine
    <3>2. batches[1][1] \in Lines /\ Tail(batches[1]) \in Seq(Lines)
      BY <2>3, <3>1
    <3> DEFINE rest == <<Tail(batches[1])>> \o Tail(batches)
    <3>3. rest \in Seq(Seq(Lines)) /\ Len(rest) < MaxDepth
      BY <2>0, <2>3, <3>1, <3>2
    <3>4. CarryOut(batches[1][1], rest, FALSE)
      BY <2>4 DEF BatchLine
    <3> HIDE DEF rest
    <3> QED
      BY <3>1, <3>2, <3>3, <3>4, CarriedOut
  <2>5. CASE NoLine
    BY <1>1, <2>5 DEF NoLine, In, shared, history, TypeOK, SharedTypeOK, ConsoleTypeOK
  <2>6. CASE CutLine
    <3>1. In("line") /\ batches # <<>>
      BY <2>6 DEF CutLine
    <3> DEFINE rest == <<<<>>>> \o Tail(batches)
    <3>2. rest \in Seq(Seq(Lines)) /\ Len(rest) < MaxDepth
      BY <2>0, <2>3, <3>1
    <3>3. PICK l \in Typed : CarryOut(l, rest, TRUE)
      BY <2>6 DEF CutLine
    <3>4. l \in Lines
      BY DEF Lines
    <3> HIDE DEF rest
    <3> QED
      BY <3>1, <3>2, <3>3, <3>4, CarriedOut
  <2>7. CASE Check
    <3>1. CASE batches # <<>> /\ AtBatchEnd
      <4>1. /\ batches' = Tail(batches) /\ at' = at /\ at = "check"
            /\ UNCHANGED <<mode, FileInterface, szCurrentPath, ioFail, stale, moved>>
        BY <2>7, <3>1 DEF Check, In, shared, history
      <4>2. Tail(batches) \in Seq(Seq(Lines)) /\ Len(Tail(batches)) < MaxDepth
        BY <2>0, <2>3, <3>1
      <4> QED
        BY <1>1, <4>1, <4>2 DEF TypeOK, SharedTypeOK, ConsoleTypeOK, Lines
    <3>2. CASE ~(batches # <<>> /\ AtBatchEnd)
      BY <1>1, <2>7, <3>2 DEF Check, In, shared, history, TypeOK, SharedTypeOK, ConsoleTypeOK
    <3> QED
      BY <3>1, <3>2
  <2> QED
    BY <2>1, <2>2, <2>4, <2>5, <2>6, <2>7 DEF Shell, ConsoleStep, BatchStep
<1> QED
  BY <1>2, <1>3 DEF TypeOK, SharedTypeOK, Apart

\* The next entry is stored behind the others.
LEMMA EntryStored ==
  ASSUME TypeOK, Lists, ListEntry
  PROVE  /\ mode = "screen" /\ pc = "list" /\ InFolder /\ Listed
         /\ ExplorerCount + 1 \in 1 .. Len(Shown) /\ ExplorerCount \in Nat
         /\ Shown[ExplorerCount + 1] \in Entries
         /\ \/ /\ ExplorerCount \in Index /\ ExplorerCount' = ExplorerCount + 1
               /\ ExplorerNames' = [ExplorerNames EXCEPT ![ExplorerCount] = Shown[ExplorerCount + 1].name]
               /\ ExplorerTypes' = [ExplorerTypes EXCEPT ![ExplorerCount] = Shown[ExplorerCount + 1].folder]
               /\ UNCHANGED <<mode, ioFail>>
            \/ /\ ExplorerCount = MaxEntries /\ mode' = "halted"
               /\ UNCHANGED <<ioFail, entries>>
            \/ /\ FileInterface # NULL /\ mode' = "reading"
               /\ ioFail' = (ioFail \/ Shown[ExplorerCount + 1].name \notin LongName)
               /\ UNCHANGED entries
<1>1. mode = "screen" /\ pc = "list" /\ InFolder /\ Listed /\ ExplorerCount < Len(Shown)
  BY DEF ListEntry, On, Lists
<1>2. ExplorerCount \in Nat /\ MaxEntries \in Nat
  BY ExplorerAssumption DEF TypeOK, ExplorerTypeOK
<1>3. ExplorerCount + 1 \in 1 .. Len(Shown) /\ Shown[ExplorerCount + 1] \in Entries
  BY <1>1, <1>2, ShownIs
<1>4. ExplorerCount < MaxEntries => ExplorerCount \in Index
  BY <1>2 DEF Index
<1> QED
  BY <1>1, <1>2, <1>3, <1>4 DEF ListEntry, Slot, Halted

\* The number of a volume is entered from the list.
LEMMA VolumeEntered ==
  ASSUME TypeOK, Holds, EnterVolume, ~OffList
  PROVE  ExplorerNames[ExplorerActiveIndex] \in Disk
<1>1. mode = "screen" /\ pc = "key" /\ ActivePageIndex = 1 /\ FileInterface = NULL
  BY DEF EnterVolume, On
<1>2. InFolder /\ Listed
  BY <1>1 DEF Holds
<1>3. ExplorerActiveIndex + 1 \in 1 .. Len(Shown)
      /\ Shown[ExplorerActiveIndex + 1].name = ExplorerNames[ExplorerActiveIndex]
  BY <1>2, ListedEntry
<1>4. Len(Shown) = Disks /\ \A k \in 1 .. Disks : Shown[k].name \in Disk
  BY <1>1, <1>2, ShownIs
<1> QED
  BY <1>3, <1>4

\* A step of the screen.
LEMMA ScreenTyped ==
  ASSUME TypeOK, Apart, Lists, Holds, Screen
  PROVE  TypeOK' /\ Apart'
<1> USE DEF Modes, On
<1>1. TypeOK /\ mode = "screen" /\ at = "start" /\ UNCHANGED console
  BY DEF Screen, ScreenStep, Draw, Key, StartScreen, DrawPage, DrawExplorer, ListEntry, ListEnd,
         ListEndFails, DrawViewer, PageKey, Leave, EnterVolume, EnterEntry, ArrowKey, OtherKey, Apart
<1>2. at' = "start" /\ batches' \in Seq(Seq(BatchLines \cup Typed)) /\ Len(batches') < MaxDepth
  BY <1>1 DEF console, TypeOK, ConsoleTypeOK
<1>3. MaxEntries \in Nat \ {0} /\ Row \in Nat \ {0} /\ Disks \in Nat \ {0} /\ Assets \in Disk
  BY ExplorerAssumption, VolumesAssumption
<1>4. SharedTypeOK /\ ExplorerTypeOK
  BY DEF TypeOK, SharedTypeOK
<1>5. SharedTypeOK' /\ ExplorerTypeOK' /\ (mode' = "console" => pc' = "start")
  <2> USE DEF SharedTypeOK, ExplorerTypeOK
  <2>1. CASE StartScreen
    BY <1>1, <1>4, <2>1 DEF StartScreen, Halted, locals, entries
  <2>2. CASE DrawPage
    BY <1>1, <1>4, <2>2 DEF DrawPage, shared, history, entries
  <2>3. CASE DrawExplorer
    <3>1. IsFolder(FileInterface, szCurrentPath) \in BOOLEAN
      BY DEF IsFolder
    <3> QED
      BY <1>1, <1>3, <1>4, <2>3, <3>1 DEF DrawExplorer, Halted
  <2>4. CASE ListEntry
    <3>1. UNCHANGED <<FileInterface, szCurrentPath, stale, moved, pc, ActivePageIndex,
                      ActivePageDrawn, ExplorerActiveIndex, viewer>>
      BY <2>4 DEF ListEntry
    <3>2. Shown[ExplorerCount + 1].name \in Name /\ Shown[ExplorerCount + 1].folder \in BOOLEAN
      BY <2>4, EntryStored DEF Entries, Name
    <3>3. /\ ExplorerCount' \in 0 .. MaxEntries
          /\ ExplorerNames' \in [Index -> Name] /\ ExplorerTypes' \in [Index -> BOOLEAN]
      <4>1. CASE UNCHANGED entries
        BY <1>4, <4>1 DEF entries
      <4>2. CASE /\ ExplorerCount \in Index /\ ExplorerCount' = ExplorerCount + 1
                 /\ ExplorerNames' = [ExplorerNames EXCEPT ![ExplorerCount] = Shown[ExplorerCount + 1].name]
                 /\ ExplorerTypes' = [ExplorerTypes EXCEPT ![ExplorerCount] = Shown[ExplorerCount + 1].folder]
        BY <1>3, <1>4, <3>2, <4>2 DEF Index
      <4> QED
        BY <2>4, <4>1, <4>2, EntryStored
    <3>4. mode' \in {"screen", "halted", "reading"} /\ ioFail' \in BOOLEAN
      BY <1>1, <1>4, <2>4, EntryStored
    <3> QED
      BY <1>4, <3>1, <3>3, <3>4
  <2>5. CASE ListEnd
    <3>1. Corrected \in -1 .. MaxEntries - 1
      BY <1>3, <1>4 DEF Corrected
    <3> QED
      BY <1>1, <1>4, <2>5, <3>1 DEF ListEnd, shared, history, entries
  <2>15. CASE ListEndFails
    BY <1>1, <1>4, <2>15 DEF ListEndFails, explorer, locals, entries
  <2>6. CASE DrawViewer
    <3>1. OffList \in BOOLEAN /\ Openable \in BOOLEAN
      BY DEF OffList, Openable, IsFile, IsFolder
    <3> QED
      BY <1>1, <1>4, <2>6, <3>1 DEF DrawViewer, Halted, entries
  <2>7. ASSUME NEW index \in 0 .. 3, PageKey(index) PROVE SharedTypeOK' /\ ExplorerTypeOK' /\ mode' = "screen"
    BY <1>1, <1>4, <2>7 DEF PageKey, StaysDrawn, UsesVolume, history, entries
  <2>8. ASSUME NEW next \in {"console", "off"}, Leave(next)
        PROVE  SharedTypeOK' /\ ExplorerTypeOK' /\ pc' = "start"
    <3>1. mode' \in Modes /\ pc' = "start"
          /\ UNCHANGED <<FileInterface, szCurrentPath, ioFail, stale, moved>>
      BY <2>8 DEF Leave, history
    <3>2. /\ ActivePageIndex' = 0 /\ ActivePageDrawn' = FALSE
          /\ ExplorerActiveIndex' = 0 /\ ExplorerCount' = 0
          /\ ExplorerNames' = [k \in Index |-> Junk] /\ ExplorerTypes' = [k \in Index |-> FALSE]
      BY <2>8 DEF Leave, FreshLocals
    <3>3. Junk \in Name
      BY DEF Name
    <3>4. ExplorerNames' \in [Index -> Name] /\ ExplorerTypes' \in [Index -> BOOLEAN]
      BY <3>2, <3>3
    <3>5. ExplorerTypeOK'
      <4>1. ActivePageDrawn' \in BOOLEAN
        BY <3>2, Zenon
      <4>2. ExplorerActiveIndex' \in -1 .. MaxEntries - 1 /\ ExplorerCount' \in 0 .. MaxEntries
            /\ ActivePageIndex' \in 0 .. 3
        BY <1>3, <3>2
      <4> QED
        BY <3>1, <3>4, <4>1, <4>2
    <3> QED
      BY <1>4, <3>1, <3>5
  <2>9. CASE EnterVolume
    <3>1. FileInterface' \in Disk \cup {NULL}
      <4>1. CASE OffList
        BY <1>4, <2>9, <4>1 DEF EnterVolume
      <4>2. CASE ~OffList
        BY <2>9, <4>2, VolumeEntered DEF EnterVolume
      <4> QED
        BY <4>1, <4>2
    <3>2. szCurrentPath' \in Seq(Name) /\ moved' \in BOOLEAN /\ stale' \in BOOLEAN /\ ioFail' = ioFail
      <4>1. szCurrentPath' \in {<<>>, szCurrentPath} /\ moved' \in {FALSE, moved} /\ ioFail' = ioFail
        BY <2>9 DEF EnterVolume
      <4>2. stale' \in BOOLEAN
        BY <2>9 DEF EnterVolume
      <4>3. szCurrentPath' \in Seq(Name)
        BY <1>4, <4>1, EmptySeq
      <4>4. moved' \in BOOLEAN
        BY <1>4, <4>1, Zenon
      <4> QED
        BY <4>1, <4>2, <4>3, <4>4
    <3>3. mode' \in {"screen", "halted"} /\ pc' \in {"draw", "key"} /\ ActivePageDrawn' \in BOOLEAN
          /\ UNCHANGED <<ActivePageIndex, ExplorerActiveIndex, entries>>
      BY <1>1, <1>4, <2>9 DEF EnterVolume, Halted
    <3> QED
      BY <1>4, <3>1, <3>2, <3>3 DEF entries
  <2>10. CASE EnterEntry
    <3>1. szCurrentPath' \in Seq(Name)
      BY <1>4, <2>10, SMTT(30) DEF EnterEntry, Below
    <3>2. stale' \in BOOLEAN /\ UNCHANGED <<FileInterface, ioFail, moved, ExplorerActiveIndex, entries>>
      BY <1>4, <2>10 DEF EnterEntry, OffList
    <3>3. mode' \in {"screen", "halted"} /\ pc' \in {"draw", "key"} /\ ActivePageDrawn' \in BOOLEAN
          /\ ActivePageIndex' \in 0 .. 3
      <4>1. /\ mode' \in {mode, "halted"} /\ pc' \in {"draw", pc}
            /\ ActivePageDrawn' \in {FALSE, ActivePageDrawn} /\ ActivePageIndex' \in {2, ActivePageIndex}
            /\ pc = "key"
        BY <2>10 DEF EnterEntry, Halted
      <4>2. ActivePageDrawn' \in BOOLEAN
        BY <1>4, <4>1, Zenon
      <4>3. ActivePageIndex' \in 0 .. 3
        BY <1>4, <4>1
      <4> QED
        BY <1>1, <4>1, <4>2, <4>3
    <3> QED
      BY <1>4, <3>1, <3>2, <3>3 DEF entries
  <2>11. ASSUME NEW step \in {-Row, -1, 1, Row}, ArrowKey(step)
         PROVE  SharedTypeOK' /\ ExplorerTypeOK' /\ mode' = "screen"
    <3>1. step \in Int
      BY <1>3
    <3>2. Moved(step) \in -1 .. MaxEntries - 1
      BY <1>3, <1>4, <3>1 DEF Moved
    <3> QED
      BY <1>1, <1>4, <2>11, <3>2 DEF ArrowKey, shared, history, entries
  <2>12. CASE OtherKey
    BY <1>1, <1>4, <2>12 DEF OtherKey, shared, history, locals, entries
  <2>13. CASE Draw
    BY <1>1, <2>13, <2>1, <2>2, <2>3, <2>4, <2>5, <2>6, <2>15
       DEF Draw, StartScreen, DrawPage, DrawExplorer, ListEnd, ListEndFails, DrawViewer, shared, Halted
  <2>14. CASE Key
    BY <1>1, <2>14, <2>7, <2>8, <2>9, <2>10, <2>11, <2>12 DEF Key, EnterVolume, EnterEntry, OtherKey, shared, Halted
  <2> QED
    BY <2>13, <2>14 DEF Screen, ScreenStep
<1> QED
  BY <1>2, <1>5 DEF TypeOK, SharedTypeOK, ConsoleTypeOK, Apart

-------------------------------------------------------------------------------
(* The list, the path and the viewer.                                       *)

\* The console leaves screen mode at its start, and the rest of the steps that
\* are none of the screen change nothing.
LEMMA ShellStays ==
  ASSUME Apart, Shell
  PROVE  pc = "start" /\ pc' = "start" /\ UNCHANGED explorer
BY DEF Shell, ConsoleStep, BatchStep, StartConsole, TypeLine, BatchLine, NoLine, CutLine, Check,
       In, Apart, explorer

\* The actions of the screen.
LEMMA ScreenCases ==
  ASSUME Screen
  PROVE  /\ mode = "screen"
         /\ \/ StartScreen \/ DrawPage \/ DrawExplorer \/ ListEntry \/ ListEnd
            \/ ListEndFails \/ DrawViewer
            \/ \E index \in 0 .. 3 : PageKey(index)
            \/ \E next \in {"console", "off"} : Leave(next)
            \/ EnterVolume \/ EnterEntry
            \/ \E step \in {-Row, -1, 1, Row} : ArrowKey(step)
            \/ OtherKey
BY DEF Screen, ScreenStep, Draw, Key, StartScreen, DrawPage, DrawExplorer, ListEntry, ListEnd,
       ListEndFails, DrawViewer, PageKey, Leave, EnterVolume, EnterEntry, ArrowKey, OtherKey, On

\* The list is still that of the folder when neither changes.
LEMMA ListStays ==
  ASSUME UNCHANGED <<FileInterface, szCurrentPath, entries>>
  PROVE  /\ Shown' = Shown /\ InFolder' = InFolder /\ Listed' = Listed
         /\ (ExplorerCount = Len(Shown))' = (ExplorerCount = Len(Shown))
BY DEF Shown, InFolder, Listed, IsFolder, entries

\* What Holds says of the list, when it says something.
Full == InFolder /\ Listed /\ ExplorerCount = Len(Shown)

\* What the list says stays when nothing it is about changes.
LEMMA FullStays ==
  ASSUME Full, UNCHANGED <<FileInterface, szCurrentPath, entries>>
  PROVE  Full'
BY ListStays DEF Full

\* The screen keeps what is listed.
LEMMA ScreenListed ==
  ASSUME TypeOK, Fresh, Lists, Holds, Screen
  PROVE  Fresh' /\ Lists' /\ Holds'
<1> USE DEF On
<1>0. mode = "screen"
  BY ScreenCases
<1>1. CASE StartScreen
  BY <1>0, <1>1 DEF StartScreen, Halted, locals, Fresh, Lists, Holds
<1>2. CASE DrawPage
  <2>1. pc = "draw" /\ pc' = "key" /\ ActivePageDrawn' /\ ActivePageIndex' = ActivePageIndex
        /\ UNCHANGED <<FileInterface, szCurrentPath, entries>>
        /\ (ActivePageDrawn \/ ActivePageIndex \in {0, 3})
    BY <1>2 DEF DrawPage, shared
  <2>2. ActivePageIndex = 1 \/ FileInterface # NULL => Full
    BY <1>0, <2>1 DEF Holds, Full
  <2>3. ActivePageIndex' = 1 \/ FileInterface' # NULL => Full'
    BY <2>1, <2>2, FullStays
  <2> QED
    BY <2>1, <2>3 DEF Fresh, Lists, Holds, Full
<1>3. CASE DrawExplorer
  <2>1. CASE mode' = "halted"
    BY <1>3, <2>1 DEF DrawExplorer, Fresh, Lists, Holds
  <2>2. CASE InFolder /\ pc' = "list"
    <3>1. ActivePageIndex' = 1 /\ ~ActivePageDrawn' /\ ExplorerCount' = 0
          /\ UNCHANGED <<FileInterface, szCurrentPath>>
      BY <1>3 DEF DrawExplorer
    <3>2. Shown' = Shown /\ InFolder'
      BY <2>2, <3>1 DEF Shown, InFolder, IsFolder
    <3>3. Listed'
      BY <2>2, <3>1, <3>2, ShownIs DEF Listed
    <3> QED
      BY <2>2, <3>1, <3>2, <3>3 DEF Fresh, Lists, Holds
  <2> QED
    BY <1>3, <2>1, <2>2 DEF DrawExplorer, Halted, InFolder
<1>4. CASE ListEntry
  <2>1. pc' = "list" /\ UNCHANGED <<FileInterface, szCurrentPath, ActivePageIndex, ActivePageDrawn>>
    BY <1>4, EntryStored DEF ListEntry
  <2>2. CASE mode' # "screen"
    BY <2>1, <2>2 DEF Fresh, Lists, Holds
  <2>3. CASE mode' = "screen"
    <3> DEFINE c == ExplorerCount
    <3>1. /\ c \in Index /\ c \in Nat /\ c' = c + 1 /\ c + 1 \in 1 .. Len(Shown) /\ Len(Shown) \in Nat
          /\ ExplorerNames' = [ExplorerNames EXCEPT ![c] = Shown[c + 1].name]
          /\ ExplorerTypes' = [ExplorerTypes EXCEPT ![c] = Shown[c + 1].folder]
          /\ Shown[c + 1] \in Entries
          /\ InFolder /\ Listed
      BY <1>4, <2>3, EntryStored, ShownIs
    <3>2. Shown' = Shown /\ InFolder'
      BY <2>1, <3>1 DEF Shown, InFolder, IsFolder
    <3>3. DOMAIN ExplorerNames = Index /\ DOMAIN ExplorerTypes = Index /\ c <= MaxEntries /\ MaxEntries \in Nat
      BY ExplorerAssumption DEF TypeOK, ExplorerTypeOK
    <3>4. ASSUME NEW k \in 1 .. c'
          PROVE  Shown[k] = [name |-> ExplorerNames'[k - 1], folder |-> ExplorerTypes'[k - 1]]
      <4>1. CASE k = c + 1
        <5>1. ExplorerNames'[c] = Shown[c + 1].name /\ ExplorerTypes'[c] = Shown[c + 1].folder /\ k - 1 = c
          BY <3>1, <3>3, <4>1
        <5>2. Shown[c + 1] = [name |-> Shown[c + 1].name, folder |-> Shown[c + 1].folder]
          BY <3>1 DEF Entries
        <5> QED
          BY <4>1, <5>1, <5>2
      <4>2. CASE k # c + 1
        <5>1. k \in 1 .. c /\ k - 1 # c /\ k - 1 \in Index
          BY <3>1, <3>3, <4>2 DEF Index
        <5>2. ExplorerNames'[k - 1] = ExplorerNames[k - 1] /\ ExplorerTypes'[k - 1] = ExplorerTypes[k - 1]
          BY <3>1, <3>3, <5>1
        <5>3. Shown[k] = [name |-> ExplorerNames[k - 1], folder |-> ExplorerTypes[k - 1]]
          BY <3>1, <5>1 DEF Listed
        <5> QED
          BY <5>2, <5>3
      <4> QED
        BY <4>1, <4>2
    <3>5. Listed'
      <4>1. c' <= Len(Shown)
        BY <3>1
      <4> QED
        BY <3>2, <3>4, <4>1 DEF Listed
    <3>6. Lists => ActivePageIndex = 1 /\ ~ActivePageDrawn
      BY <1>0, <1>4 DEF Lists, ListEntry
    <3> QED
      BY <2>1, <3>2, <3>5, <3>6 DEF Fresh, Lists, Holds
  <2> QED
    BY <2>2, <2>3
<1>5. CASE ListEnd
  <2>1. pc = "list" /\ pc' = "key" /\ ActivePageDrawn' /\ ExplorerCount = Len(Shown)
        /\ UNCHANGED <<FileInterface, szCurrentPath, entries>>
    BY <1>5 DEF ListEnd, AtListEnd, shared
  <2>2. Full
    BY <1>0, <2>1 DEF Lists, Full
  <2>3. Full'
    BY <2>1, <2>2, FullStays
  <2> QED
    BY <2>1, <2>3 DEF Fresh, Lists, Holds, Full
<1>6. CASE DrawViewer
  <2>1. pc = "draw" /\ ActivePageIndex = 2 /\ ActivePageIndex' = 2
        /\ UNCHANGED <<FileInterface, szCurrentPath, entries>>
        /\ (mode' = "halted" \/ (pc' = "key" /\ ActivePageDrawn')) /\ pc' \in {"draw", "key"}
    BY <1>6 DEF DrawViewer, Halted
  <2>2. FileInterface' # NULL => Full'
    BY <1>0, <2>1, FullStays DEF Holds, Full
  <2> QED
    BY <2>1, <2>2 DEF Fresh, Lists, Holds, Full
<1>7. ASSUME NEW index \in 0 .. 3, PageKey(index) PROVE Fresh' /\ Lists' /\ Holds'
  <2>1. pc = "key" /\ pc' = "draw" /\ ActivePageIndex' = index
        /\ ActivePageDrawn' = StaysDrawn(index) /\ FileInterface' = UsesVolume(index)
        /\ UNCHANGED <<szCurrentPath, entries>>
    BY <1>7 DEF PageKey
  <2>2. CASE index = 1
    BY <2>1, <2>2 DEF StaysDrawn, Fresh, Lists, Holds
  <2>3. CASE index # 1
    <3>1. FileInterface' = FileInterface
      BY <2>1, <2>3 DEF UsesVolume
    <3>2. FileInterface' # NULL => Full'
      BY <1>0, <2>1, <3>1, FullStays DEF Holds, Full
    <3> QED
      BY <2>1, <2>3, <3>2 DEF Fresh, Lists, Holds, Full
  <2> QED
    BY <2>2, <2>3
<1>8. ASSUME NEW next \in {"console", "off"}, Leave(next) PROVE Fresh' /\ Lists' /\ Holds'
  BY <1>8 DEF Leave, FreshLocals, Fresh, Lists, Holds
<1>9. CASE EnterVolume
  BY <1>9 DEF EnterVolume, Halted, Fresh, Lists, Holds
<1>10. CASE EnterEntry
  <2>1. pc = "key" /\ ActivePageIndex = 1 /\ FileInterface # NULL
        /\ UNCHANGED <<FileInterface, entries>>
    BY <1>10 DEF EnterEntry
  <2>2. \/ mode' = "halted" /\ pc' = "key"
        \/ pc' = "draw" /\ ActivePageIndex' = 1 /\ ~ActivePageDrawn'
        \/ pc' = "draw" /\ ActivePageIndex' = 2 /\ ~ActivePageDrawn' /\ UNCHANGED szCurrentPath
    BY <1>10 DEF EnterEntry, Halted
  <2>3. szCurrentPath' = szCurrentPath => Full'
    BY <1>0, <2>1, FullStays DEF Holds, Full
  <2> QED
    BY <2>1, <2>2, <2>3 DEF Fresh, Lists, Holds, Full
<1>11. ASSUME NEW step \in {-Row, -1, 1, Row}, ArrowKey(step) PROVE Fresh' /\ Lists' /\ Holds'
  BY <1>11 DEF ArrowKey, Fresh, Lists, Holds
<1>12. CASE OtherKey
  <2>1. pc = "key" /\ pc' = "draw" /\ UNCHANGED <<ActivePageIndex, ActivePageDrawn>>
        /\ UNCHANGED <<FileInterface, szCurrentPath, entries>>
    BY <1>12 DEF OtherKey, shared, locals
  <2>2. ActivePageIndex = 1 \/ FileInterface # NULL => Full
    BY <1>0, <2>1 DEF Holds, Full
  <2>3. ActivePageIndex' = 1 \/ FileInterface' # NULL => Full'
    BY <2>1, <2>2, FullStays
  <2> QED
    BY <2>1, <2>3 DEF Fresh, Lists, Holds, Full
<1>13. CASE ListEndFails
  <2>1. pc = "list" /\ pc' = "list" /\ mode' = "reading"
    BY <1>13 DEF ListEndFails, explorer
  <2> QED
    BY <2>1 DEF Fresh, Lists, Holds
<1> QED
  BY <1>1, <1>2, <1>3, <1>4, <1>5, <1>6, <1>7, <1>8, <1>9, <1>10, <1>11, <1>12, <1>13, ScreenCases

\* While a key is waited for in the explorer the arrays hold what it shows.
LEMMA FullAtKey ==
  ASSUME Holds, mode = "screen", pc = "key", ActivePageIndex = 1 \/ FileInterface # NULL
  PROVE  Full
BY DEF Holds, Full

\* The screen keeps the path in the volume.
LEMMA ScreenPath ==
  ASSUME TypeOK, Lists, Holds, PathExists, Screen, TypeOK'
  PROVE  PathExists'
<1> USE DEF On
<1>0. mode = "screen"
  BY ScreenCases
<1>1. ASSUME pc # "start", UNCHANGED <<FileInterface, szCurrentPath>>, ~stale' => ~stale
      PROVE  PathExists'
  BY <1>0, <1>1 DEF PathExists, IsFolder
<1>2. CASE StartScreen
  BY <1>2 DEF StartScreen, Halted, PathExists
<1>3. CASE DrawPage \/ DrawExplorer \/ ListEntry \/ ListEnd \/ ListEndFails \/ DrawViewer \/ OtherKey
  <2>1. /\ pc # "start" /\ UNCHANGED <<FileInterface, szCurrentPath>> /\ (~stale' => ~stale)
    <3>1. CASE DrawPage \/ ListEnd \/ OtherKey
      BY <3>1 DEF DrawPage, ListEnd, OtherKey, shared, history
    <3>2. CASE DrawExplorer
      BY <3>2 DEF DrawExplorer
    <3>3. CASE ListEntry
      BY <3>3 DEF ListEntry
    <3>4. CASE DrawViewer
      BY <3>4 DEF DrawViewer
    <3>5. CASE ListEndFails
      BY <3>5 DEF ListEndFails
    <3> QED
      BY <1>3, <3>1, <3>2, <3>3, <3>4, <3>5
  <2> QED
    BY <1>1, <2>1
<1>4. ASSUME NEW index \in 0 .. 3, PageKey(index) PROVE PathExists'
  <2>1. FileInterface' \in {NULL, FileInterface} /\ pc # "start" /\ UNCHANGED <<szCurrentPath, stale>>
    BY <1>4 DEF PageKey, UsesVolume, history
  <2>2. CASE FileInterface' = NULL
    BY <2>2 DEF PathExists
  <2>3. CASE FileInterface' = FileInterface
    BY <1>1, <2>1, <2>3
  <2> QED
    BY <2>1, <2>2, <2>3
<1>5. ASSUME NEW next \in {"console", "off"}, Leave(next) PROVE PathExists'
  BY <1>5 DEF Leave, PathExists
<1>6. CASE EnterVolume
  <2>1. mode' = "halted" \/ szCurrentPath' = <<>>
    BY <1>6 DEF EnterVolume, Halted
  <2>2. FileInterface' \in Disk \cup {NULL}
    BY DEF TypeOK
  <2> QED
    BY <2>1, <2>2, VolumesAssumption DEF PathExists, IsFolder
<1>7. CASE EnterEntry
  <2>1. pc = "key" /\ ActivePageIndex = 1 /\ FileInterface # NULL /\ FileInterface' = FileInterface
        /\ stale' = (stale \/ OffList)
    BY <1>7 DEF EnterEntry
  <2>2. CASE szCurrentPath' = szCurrentPath
    BY <1>1, <2>1, <2>2
  <2>3. CASE ~OffList /\ ExplorerTypes[ExplorerActiveIndex]
             /\ szCurrentPath' = Append(szCurrentPath, ExplorerNames[ExplorerActiveIndex])
    <3> DEFINE i == ExplorerActiveIndex + 1
    <3>1. InFolder /\ Listed
      BY <1>0, <2>1, FullAtKey DEF Full
    <3>2. i \in 1 .. Len(Shown) /\ Shown[i].name = ExplorerNames[ExplorerActiveIndex] /\ Shown[i].folder
      BY <2>3, <3>1, ListedEntry
    <3>0. FileInterface # NULL
      BY <2>1
    <3>3. /\ <<FileInterface, szCurrentPath>> \in DOMAIN Listing
          /\ Shown = Listing[FileInterface, szCurrentPath]
      <4>1. Shown = Listing[FileInterface, szCurrentPath]
        BY <3>0, SMTT(30) DEF Shown
      <4>2. IsFolder(FileInterface, szCurrentPath)
        BY <3>0, <3>1 DEF InFolder
      <4> QED
        BY <4>1, <4>2 DEF IsFolder
    <3>4. DOMAIN Shown = 1 .. Len(Shown)
      BY <3>1, ShownIs, LenProperties
    <3>5. <<FileInterface, Append(szCurrentPath, Shown[i].name)>> \in DOMAIN Listing
      BY <3>2, <3>3, <3>4, VolumesAssumption
    <3> QED
      BY <2>1, <2>3, <3>2, <3>5 DEF PathExists, IsFolder
  <2>4. CASE OffList
    BY <2>1, <2>4 DEF PathExists
  <2> QED
    BY <1>7, <2>2, <2>3, <2>4 DEF EnterEntry, Below
<1>8. ASSUME NEW step \in {-Row, -1, 1, Row}, ArrowKey(step) PROVE PathExists'
  <2>1. pc # "start" /\ UNCHANGED <<FileInterface, szCurrentPath, stale>>
    BY <1>8 DEF ArrowKey, shared, history
  <2> QED
    BY <1>1, <2>1
<1> QED
  BY <1>2, <1>3, <1>4, <1>5, <1>6, <1>7, <1>8, ScreenCases

\* The viewer shows the active file after every step of the screen.
LEMMA ScreenShows ==
  ASSUME TypeOK, Lists, Holds, Shows, Screen
  PROVE  Shows'
<1> USE DEF On
<1>0. mode = "screen"
  BY ScreenCases
<1>1. ASSUME UNCHANGED <<FileInterface, szCurrentPath, stale, ActivePageIndex, ActivePageDrawn,
                        ExplorerActiveIndex, entries, viewer>>,
             pc \in {"draw", "key"}
      PROVE  Shows'
  <2>1. OffList' = OffList /\ Opened' = Opened
    BY <1>1 DEF OffList, Opened, entries
  <2> QED
    BY <1>0, <1>1, <2>1 DEF Shows, entries
<1>2. CASE StartScreen
  BY <1>2 DEF StartScreen, Shows
<1>3. CASE DrawPage
  <2>1. CASE ActivePageDrawn
    <3>1. ActivePageDrawn' = ActivePageDrawn /\ pc = "draw"
      BY <1>3, <2>1 DEF DrawPage
    <3>2. UNCHANGED <<FileInterface, szCurrentPath, stale, ActivePageIndex, ExplorerActiveIndex,
                      entries, viewer>>
      BY <1>3 DEF DrawPage, shared, history
    <3> QED
      BY <1>1, <3>1, <3>2
  <2>2. CASE ActivePageIndex \in {0, 3}
    BY <1>3, <2>2 DEF DrawPage, Shows
  <2> QED
    BY <1>3, <2>1, <2>2 DEF DrawPage
<1>4. CASE DrawExplorer \/ ListEntry
  <2>1. pc' = "list" \/ ActivePageIndex' = 1 \/ mode' # "screen"
    BY <1>4 DEF DrawExplorer, ListEntry
  <2> QED
    BY <2>1 DEF Shows
<1>5. CASE DrawViewer
  <2>1. UNCHANGED <<FileInterface, szCurrentPath, ExplorerActiveIndex, entries>>
    BY <1>5 DEF DrawViewer
  <2>2. Opened' = Opened /\ ExplorerTypes' = ExplorerTypes /\ OffList' = OffList
    BY <2>1 DEF Opened, OffList, entries
  <2>3. \/ mode' = "halted"
        \/ KeepsViewer
        \/ viewer' = Opened
    BY <1>5 DEF DrawViewer, Halted
  <2>4. KeepsViewer /\ FileInterface # NULL => OffList \/ ExplorerTypes[ExplorerActiveIndex]
    <3>1. ExplorerCount \in 0 .. MaxEntries /\ MaxEntries \in Nat /\ ExplorerActiveIndex \in Int
      BY ExplorerAssumption DEF TypeOK, ExplorerTypeOK
    <3>2. ~OffList => ExplorerActiveIndex \in Index
      BY <3>1 DEF OffList, Index
    <3> QED
      BY <3>2 DEF KeepsViewer
  <2> QED
    BY <2>1, <2>2, <2>3, <2>4 DEF Shows
<1>6. ASSUME NEW index \in 0 .. 3, PageKey(index) PROVE Shows'
  <2>1. pc = "key" /\ ActivePageIndex' = index /\ ActivePageDrawn' = StaysDrawn(index)
        /\ FileInterface' = UsesVolume(index)
        /\ UNCHANGED <<szCurrentPath, stale, ExplorerActiveIndex, entries, viewer>>
    BY <1>6 DEF PageKey, history
  <2>2. CASE index = 2 /\ ActivePageIndex = 2
    <3>1. FileInterface' = FileInterface /\ ActivePageDrawn
      BY <1>0, <2>1, <2>2 DEF UsesVolume, Holds
    <3>2. OffList' = OffList /\ Opened' = Opened
      BY <2>1, <3>1 DEF OffList, Opened, entries
    <3> QED
      BY <1>0, <2>1, <2>2, <3>1, <3>2 DEF Shows, entries
  <2>3. CASE ~(index = 2 /\ ActivePageIndex = 2)
    BY <2>1, <2>3 DEF StaysDrawn, Shows
  <2> QED
    BY <2>2, <2>3
<1>7. ASSUME NEW next \in {"console", "off"}, Leave(next) PROVE Shows'
  BY <1>7 DEF Leave, Shows
<1>8. CASE ListEnd
  <2>1. ActivePageIndex' = ActivePageIndex
    BY <1>8 DEF ListEnd
  <2> QED
    BY <1>0, <1>8, <2>1 DEF ListEnd, Lists, Shows
<1>9. CASE EnterVolume
  BY <1>9 DEF EnterVolume, Shows
<1>10. CASE EnterEntry
  BY <1>10 DEF EnterEntry, Halted, Shows
<1>11. ASSUME NEW step \in {-Row, -1, 1, Row}, ArrowKey(step) PROVE Shows'
  BY <1>11 DEF ArrowKey, Shows
<1>12. CASE OtherKey
  BY <1>1, <1>12 DEF OtherKey, shared, history, locals
<1>13. CASE ListEndFails
  BY <1>13 DEF ListEndFails, Shows
<1> QED
  BY <1>2, <1>3, <1>4, <1>5, <1>6, <1>7, <1>8, <1>9, <1>10, <1>11, <1>12, <1>13, ScreenCases

\* Only a file that can be opened comes into the viewer.
LEMMA ScreenViews ==
  ASSUME Viewed, Screen
  PROVE  Viewed'
<1>1. \/ UNCHANGED viewer
      \/ viewer' = NULL
      \/ viewer' = Opened /\ Openable
  BY ScreenCases DEF StartScreen, DrawPage, DrawExplorer, ListEntry, ListEnd, ListEndFails, DrawViewer,
     PageKey, Leave, FreshLocals, EnterVolume, EnterEntry, ArrowKey, OtherKey, explorer, locals
<1>2. CASE UNCHANGED viewer
  BY <1>2 DEF Viewed, IsFile, IsFolder
<1>3. CASE viewer' = Opened /\ Openable
  BY <1>3 DEF Viewed, Opened, Openable, IsFile, IsFolder
<1> QED
  BY <1>1, <1>2, <1>3 DEF Viewed

-------------------------------------------------------------------------------
(* What makes the screen halt or hang.                                      *)

\* An entry of the list that is no folder is a file in the folder.
LEMMA ListedFile ==
  ASSUME TypeOK, Full, FileInterface # NULL, ~OffList, ~ExplorerTypes[ExplorerActiveIndex]
  PROVE  Openable
<1> DEFINE i == ExplorerActiveIndex + 1
<1>1. InFolder /\ Listed
  BY DEF Full
<1>2. /\ ExplorerActiveIndex \in Index
      /\ i \in 1 .. Len(Shown)
      /\ Shown[i] \in Entries
      /\ Shown[i].name = ExplorerNames[ExplorerActiveIndex]
      /\ Shown[i].folder = ExplorerTypes[ExplorerActiveIndex]
  BY <1>1, ListedEntry
<1>3. Shown = Listing[FileInterface, szCurrentPath] /\ IsFolder(FileInterface, szCurrentPath)
  BY <1>1 DEF InFolder, Shown
<1>4. i \in DOMAIN Shown
  BY <1>1, <1>2, ShownIs, LenProperties
<1>5. Shown[i] = [name |-> ExplorerNames[ExplorerActiveIndex], folder |-> FALSE]
  BY <1>2 DEF Entries
<1> QED
  BY <1>2, <1>3, <1>4, <1>5 DEF Openable, IsFile

\* The screen halts or hangs only for the reasons named.
LEMMA ScreenFails ==
  ASSUME TypeOK, Lists, Holds, PathExists, Screen
  PROVE  ScreenFailsOnlyBy'
<1> USE DEF On
<1>0. mode = "screen"
  BY ScreenCases
<1>1. CASE mode' \notin {"halted", "reading"} \/ pc' = "start"
  BY <1>1 DEF ScreenFailsOnlyBy
<1>2. CASE StartScreen
  BY <1>1, <1>2 DEF StartScreen, Halted
<1>3. CASE DrawPage \/ ListEnd \/ OtherKey
  BY <1>0, <1>1, <1>3 DEF DrawPage, ListEnd, OtherKey, shared
<1>4. CASE DrawExplorer
  <2>1. mode' = mode \/ (FileInterface # NULL /\ ioFail' = (ioFail \/ IsFolder(FileInterface, szCurrentPath)))
    BY <1>4 DEF DrawExplorer, Halted
  <2>2. FileInterface # NULL => stale \/ IsFolder(FileInterface, szCurrentPath)
    BY <1>0, <1>4 DEF DrawExplorer, PathExists
  <2>3. stale' = stale
    BY <1>4 DEF DrawExplorer
  <2> QED
    BY <1>0, <1>1, <2>1, <2>2, <2>3 DEF ScreenFailsOnlyBy
<1>5. CASE ListEntry
  <2> DEFINE k == ExplorerCount + 1
  <2>1. UNCHANGED <<FileInterface, szCurrentPath>>
    BY <1>5 DEF ListEntry
  <2>2. InFolder /\ k \in 1 .. Len(Shown) /\ ExplorerCount \in Nat /\ Len(Shown) \in Nat
    BY <1>5, EntryStored, ShownIs
  <2>3. Shown' = Shown
    BY <2>1 DEF Shown
  <2>4. CASE mode' = mode
    BY <1>0, <1>1, <2>4
  <2>5. CASE ExplorerCount = MaxEntries /\ mode' = "halted" /\ UNCHANGED entries
    <3>1. ExplorerCount' = MaxEntries /\ Len(Shown) > MaxEntries
      BY <2>2, <2>5 DEF entries
    <3> QED
      BY <2>3, <2>5, <3>1 DEF ScreenFailsOnlyBy
  <2>6. CASE /\ FileInterface # NULL /\ mode' = "reading"
             /\ ioFail' = (ioFail \/ Shown[k].name \notin LongName)
    <3>1. CASE Shown[k].name \notin LongName
      BY <2>6, <3>1 DEF ScreenFailsOnlyBy
    <3>2. CASE Shown[k].name \in LongName
      <4>1. Shown = Listing[FileInterface, szCurrentPath] /\ IsFolder(FileInterface, szCurrentPath)
        BY <2>2, <2>6 DEF InFolder, Shown
      <4>2. k \in DOMAIN Shown
        BY <2>2, ShownIs, LenProperties
      <4>3. HasLongName(FileInterface, szCurrentPath)
        BY <3>2, <4>1, <4>2 DEF HasLongName
      <4>4. HasLongName(FileInterface, szCurrentPath)'
        BY <2>1, <4>3 DEF HasLongName, IsFolder
      <4> QED
        BY <2>6, <4>4 DEF ScreenFailsOnlyBy
    <3> QED
      BY <3>1, <3>2
  <2> QED
    BY <1>5, <2>4, <2>5, <2>6, EntryStored
<1>6. CASE DrawViewer
  <2>1. mode' = mode \/ (OpensFile /\ ioFail' = (ioFail \/ Openable))
    BY <1>6 DEF DrawViewer, Halted
  <2>2. pc = "draw" /\ ActivePageIndex = 2 /\ stale' = (stale \/ (FileInterface # NULL /\ OffList))
    BY <1>6 DEF DrawViewer
  <2>3. CASE OpensFile /\ ~OffList /\ ioFail' = (ioFail \/ Openable)
    <3>1. FileInterface # NULL /\ Full
      BY <1>0, <2>2, <2>3 DEF OpensFile, Holds, Full
    <3>2. ~ExplorerTypes[ExplorerActiveIndex]
      BY <2>3, <3>1, ListedEntry DEF OpensFile, KeepsViewer, Full
    <3>3. Openable
      BY <2>3, <3>1, <3>2, ListedFile
    <3> QED
      BY <2>3, <3>3 DEF ScreenFailsOnlyBy
  <2>4. CASE OpensFile /\ OffList
    BY <2>2, <2>4 DEF OpensFile, ScreenFailsOnlyBy
  <2> QED
    BY <1>0, <1>1, <2>1, <2>3, <2>4
<1>7. ASSUME NEW index \in 0 .. 3, PageKey(index) PROVE ScreenFailsOnlyBy'
  BY <1>0, <1>1, <1>7 DEF PageKey
<1>8. ASSUME NEW next \in {"console", "off"}, Leave(next) PROVE ScreenFailsOnlyBy'
  BY <1>1, <1>8 DEF Leave
<1>9. CASE EnterVolume
  <2>1. mode' = mode \/ stale'
    BY <1>9 DEF EnterVolume
  <2> QED
    BY <1>0, <1>1, <2>1 DEF ScreenFailsOnlyBy
<1>10. CASE EnterEntry
  <2>1. mode' = mode \/ (ExplorerActiveIndex \notin Index /\ stale' = (stale \/ OffList))
    BY <1>10 DEF EnterEntry
  <2>2. ExplorerActiveIndex \notin Index => OffList
    BY ExplorerAssumption DEF TypeOK, ExplorerTypeOK, OffList, Index
  <2> QED
    BY <1>0, <1>1, <2>1, <2>2 DEF ScreenFailsOnlyBy
<1>11. ASSUME NEW step \in {-Row, -1, 1, Row}, ArrowKey(step) PROVE ScreenFailsOnlyBy'
  BY <1>0, <1>1, <1>11 DEF ArrowKey, shared
<1>12. CASE ListEndFails
  BY <1>12 DEF ListEndFails, ScreenFailsOnlyBy
<1> QED
  BY <1>2, <1>3, <1>4, <1>5, <1>6, <1>7, <1>8, <1>9, <1>10, <1>11, <1>12, ScreenCases

-------------------------------------------------------------------------------
(* The theorems.                                                            *)

\* The invariant holds at the start, ...
LEMMA Starts == Init => IInv
<1> SUFFICES ASSUME Init PROVE IInv
  OBVIOUS
<1> USE DEF Init, InitVolumes, InitExplorer, InitConsole, FreshLocals
<1>1. MaxEntries \in Nat \ {0} /\ MaxDepth \in Nat \ {0} /\ Junk \in Name
  BY ExplorerAssumption, ConsoleAssumption DEF Name
<1>2. ExplorerTypeOK
  <2>1. ExplorerNames \in [Index -> Name] /\ ExplorerTypes \in [Index -> BOOLEAN]
    BY <1>1
  <2>2. ActivePageDrawn \in BOOLEAN
    BY Zenon
  <2>3. pc = "start" /\ ActivePageIndex = 0 /\ ExplorerActiveIndex = 0 /\ ExplorerCount = 0
    OBVIOUS
  <2> HIDE DEF Init
  <2> QED
    BY <1>1, <2>1, <2>2, <2>3 DEF ExplorerTypeOK
<1>3. ConsoleTypeOK
  BY <1>1 DEF ConsoleTypeOK
<1>4. TypeOK
  <2>1. mode \in Modes /\ FileInterface \in Disk \cup {NULL} /\ szCurrentPath \in Seq(Name)
    BY DEF Modes
  <2>2. ioFail \in BOOLEAN /\ stale \in BOOLEAN /\ moved \in BOOLEAN
    BY Zenon
  <2> QED
    BY <1>2, <1>3, <2>1, <2>2 DEF TypeOK
<1> QED
  BY <1>4 DEF IInv, Apart, Fresh, Lists, Holds, PathExists, Shows, Viewed, ScreenFailsOnlyBy

\* ... every step keeps it, ...
LEMMA Steps ==
  ASSUME IInv, [Next]_vars
  PROVE  IInv'
<1>1. CASE Screen
  <2>1. TypeOK' /\ Apart'
    BY <1>1, ScreenTyped DEF IInv
  <2>2. Fresh' /\ Lists' /\ Holds'
    BY <1>1, ScreenListed DEF IInv
  <2>3. PathExists' /\ Shows' /\ ScreenFailsOnlyBy'
    BY <1>1, <2>1, ScreenPath, ScreenShows, ScreenFails DEF IInv
  <2>4. Viewed'
    BY <1>1, ScreenViews DEF IInv
  <2> QED
    BY <2>1, <2>2, <2>3, <2>4 DEF IInv
<1>2. CASE Shell
  <2>1. TypeOK' /\ Apart'
    BY <1>2, ConsoleTyped DEF IInv
  <2>2. pc' = "start" /\ pc = "start" /\ UNCHANGED explorer
    BY <1>2, ShellStays DEF IInv
  <2>3. Fresh'
    BY <2>2 DEF IInv, Fresh, explorer, locals
  <2>4. Viewed'
    BY <2>2 DEF IInv, Viewed, IsFile, IsFolder, explorer, locals
  <2> QED
    BY <2>1, <2>2, <2>3, <2>4 DEF IInv, Lists, Holds, PathExists, Shows, ScreenFailsOnlyBy
<1>3. CASE UNCHANGED vars
  <2>1. UNCHANGED <<shared, explorer, console>>
    BY <1>3 DEF vars
  <2>2. UNCHANGED <<mode, FileInterface, szCurrentPath, ioFail, stale, moved, pc, ActivePageIndex,
                    ActivePageDrawn, ExplorerActiveIndex, ExplorerCount, ExplorerNames,
                    ExplorerTypes, viewer, at, batches>>
    BY <2>1 DEF shared, history, explorer, locals, entries, console
  <2>3. (TypeOK /\ Apart /\ Fresh)'
    BY <2>2 DEF IInv, TypeOK, ExplorerTypeOK, ConsoleTypeOK, Apart, Fresh
  <2>4. Shown' = Shown /\ InFolder' = InFolder /\ Listed' = Listed /\ OffList' = OffList
        /\ Opened' = Opened
    BY <2>2 DEF Shown, InFolder, IsFolder, Listed, OffList, Opened
  <2>5. (Lists /\ Holds /\ Shows)'
    BY <2>2, <2>4 DEF IInv, Lists, Holds, Shows
  <2>6. PathExists'
    BY <2>2 DEF IInv, PathExists, IsFolder
  <2>7. ScreenFailsOnlyBy'
    BY <2>2, <2>4 DEF IInv, ScreenFailsOnlyBy, HasLongName, IsFolder
  <2>8. Viewed'
    BY <2>2 DEF IInv, Viewed, IsFile, IsFolder
  <2> QED
    BY <2>3, <2>5, <2>6, <2>7, <2>8 DEF IInv
<1> QED
  BY <1>1, <1>2, <1>3 DEF Next, Stopped

\* ... and so it always holds.
LEMMA Invariance == Spec => []IInv
BY Starts, Steps, PTL DEF Spec

\* The variables of the two modes keep their types, for any file systems.
THEOREM TypeCorrect == Spec => []TypeOK
<1>1. IInv => TypeOK
  BY DEF IInv
<1> QED
  BY Invariance, <1>1, PTL

\* Whatever was entered, left and switched before, the names that Enter and F3
\* take from the list are those of the folder they are looked up in.
THEOREM ListsTheFolder == Spec => []ListIsFolder
<1>1. IInv => ListIsFolder
  BY FullAtKey DEF IInv, ListIsFolder, On, Full, Listed
<1> QED
  BY Invariance, <1>1, PTL

\* The path of the explorer is a folder of the volume in use, until an entry off
\* the list is used.
THEOREM StaysInFolders == Spec => []PathExists
<1>1. IInv => PathExists
  BY DEF IInv
<1> QED
  BY Invariance, <1>1, PTL

\* With a file active in the explorer the viewer page shows that file; with a
\* folder active or no volume in use it may still show an earlier one, but
\* nothing that is not a file of a volume.
THEOREM ShowsTheActive == Spec => []ShowsActive
<1>1. IInv => ShowsActive
  BY DEF IInv, ShowsActive, ActiveFile, Shows, Viewed, Holds, On
<1> QED
  BY Invariance, <1>1, PTL

\* Only a failing firmware, an entry off the list, too long a folder or too long
\* a name makes the screen halt or hang.
THEOREM FailsOnlyBy == Spec => []ScreenFailsOnlyBy
<1>1. IInv => ScreenFailsOnlyBy
  BY DEF IInv
<1> QED
  BY Invariance, <1>1, PTL

-------------------------------------------------------------------------------
(* Numbers.                                                                 *)

\* A set of numbers that is not empty has a least one.
LEMMA Least ==
  ASSUME NEW T \in SUBSET Nat, T # {}
  PROVE  \E x \in T : \A y \in T : x <= y
<1> DEFINE R == OpToRel(<, Nat)
<1>1. IsWellFoundedOn(R, Nat)
  BY NatLessThanWellFounded
<1>2. \A x, y \in T : <<y, x>> \in R <=> y < x
  BY DEF OpToRel
<1> HIDE DEF R
<1>3. PICK x \in T : \A y \in T : ~(<<y, x>> \in R)
  BY <1>1, WFMin
<1>4. \A y \in T : ~(y < x)
  BY <1>2, <1>3, Zenon
<1> QED
  BY <1>4

-------------------------------------------------------------------------------
(* What lines mean.                                                         *)

\* What is carried out: lines, each in a path.
Done == Seq([line : Lines, path : Seq(Name)])

Outcome == [does : Done, path : Seq(Name)]

\* A call carries out nothing, or its first line and then, unless that ends the
\* call, the lines behind it from the path that the first one leaves.
Stops(call) == call[1] = <<>> \/ call[3] = 0

First(call) == call[1][1]

Entered(call) == [line |-> First(call), path |-> call[2]]

Nested(call) == <<Content(Goal(First(call), call[2])), call[2], call[3] - 1>>

Behind(call, path) == <<Tail(call[1]), path, call[3]>>

Moves(call) ==
  IF First(call).op = "cd" THEN Nothing(Goal(First(call), call[2])) ELSE Nothing(call[2])

Joined(call, inner, after) ==
  [does |-> <<Entered(call)>> \o inner.does \o after.does, path |-> after.path]

\* m says of each call what it means; the equation of Meaning.
InnerOf(m, call) == IF First(call).op = "batch" THEN m[Nested(call)] ELSE Moves(call)

AfterOf(m, call) ==
  IF First(call).op \in {"quit", "end"} THEN Nothing(call[2])
  ELSE m[Behind(call, InnerOf(m, call).path)]

Equation(m, call) ==
  IF Stops(call) THEN Nothing(call[2]) ELSE Joined(call, InnerOf(m, call), AfterOf(m, call))

\* The calls of a call have less depth or fewer lines.
Smaller(other, call) ==
  other[3] < call[3] \/ (other[3] = call[3] /\ Len(other[1]) < Len(call[1]))

\* The parts of a call, and the calls it leads to.
LEMMA Parts ==
  ASSUME NEW call \in Calls
  PROVE  /\ call[1] \in Seq(Lines) /\ call[2] \in Seq(Name) /\ call[3] \in Nat
         /\ call = <<call[1], call[2], call[3]>>
         /\ Nothing(call[2]) \in Outcome
         /\ ~Stops(call) =>
              /\ First(call) \in Lines /\ call[3] \in Nat \ {0} /\ Tail(call[1]) \in Seq(Lines)
              /\ Entered(call) \in [line : Lines, path : Seq(Name)]
              /\ Nested(call) \in Calls /\ Smaller(Nested(call), call)
              /\ Moves(call) \in Outcome
              /\ \A path \in Seq(Name) : Behind(call, path) \in Calls /\ Smaller(Behind(call, path), call)
<1>1. /\ call[1] \in Seq(Lines) /\ call[2] \in Seq(Name) /\ call[3] \in Nat
      /\ call = <<call[1], call[2], call[3]>>
  BY DEF Calls
<1>2. \A path \in Seq(Name) : Nothing(path) \in Outcome
  BY DEF Nothing, Outcome, Done
<1>3. ASSUME ~Stops(call)
      PROVE  /\ First(call) \in Lines /\ call[3] \in Nat \ {0} /\ Tail(call[1]) \in Seq(Lines)
             /\ Entered(call) \in [line : Lines, path : Seq(Name)]
             /\ Nested(call) \in Calls /\ Smaller(Nested(call), call)
             /\ Moves(call) \in Outcome
             /\ \A path \in Seq(Name) : Behind(call, path) \in Calls /\ Smaller(Behind(call, path), call)
  <2>1. /\ First(call) \in Lines /\ call[3] \in Nat \ {0} /\ Tail(call[1]) \in Seq(Lines)
        /\ Len(Tail(call[1])) < Len(call[1])
    BY <1>1, <1>3 DEF Stops, First
  <2>2. Goal(First(call), call[2]) \in Seq(Name)
    <3>1. First(call).names \in Seq(Names)
      BY <2>1, ConsoleAssumption DEF Lines
    <3>2. First(call).names \in Seq(Name)
      BY <3>1 DEF Name
    <3> QED
      BY <1>1, <3>2 DEF Goal
  <2>3. Content(Goal(First(call), call[2])) \in Seq(Lines)
    <3>1. \A path \in DOMAIN Batches : Batches[path] \in Seq(Lines)
      BY ConsoleAssumption DEF Lines
    <3> QED
      BY <3>1 DEF Content
  <2>4. Nested(call) \in Calls /\ Smaller(Nested(call), call)
    BY <1>1, <2>1, <2>3 DEF Nested, Calls, Smaller
  <2>5. Entered(call) \in [line : Lines, path : Seq(Name)] /\ Moves(call) \in Outcome
    BY <1>1, <1>2, <2>1, <2>2 DEF Entered, Moves
  <2>6. ASSUME NEW path \in Seq(Name)
        PROVE  Behind(call, path) \in Calls /\ Smaller(Behind(call, path), call)
    BY <1>1, <2>1 DEF Behind, Calls, Smaller
  <2> QED
    BY <2>1, <2>4, <2>5, <2>6
<1> QED
  BY <1>1, <1>2, <1>3

\* Outcomes are joined to an outcome.
LEMMA JoinedIs ==
  ASSUME NEW call \in Calls, ~Stops(call), NEW inner \in Outcome, NEW after \in Outcome
  PROVE  Joined(call, inner, after) \in Outcome
<1>1. Entered(call) \in [line : Lines, path : Seq(Name)]
  BY Parts
<1>2. inner.does \in Done /\ after.does \in Done /\ after.path \in Seq(Name)
  BY DEF Outcome
<1> DEFINE E == [line : Lines, path : Seq(Name)]
<1>3. <<Entered(call)>> \o inner.does \o after.does \in Seq(E)
  <2> HIDE DEF E
  <2>1. Entered(call) \in E /\ inner.does \in Seq(E) /\ after.does \in Seq(E)
    BY <1>1, <1>2 DEF Done, E
  <2>2. <<Entered(call)>> \in Seq(E)
    BY <2>1
  <2>3. <<Entered(call)>> \o inner.does \in Seq(E)
    BY <2>1, <2>2, ConcatProperties
  <2> QED
    BY <2>1, <2>3, ConcatProperties
<1> QED
  BY <1>2, <1>3 DEF Joined, Outcome, Done

\* What holds of a call when it holds of all below it holds of all.
LEMMA CallsInduction ==
  ASSUME NEW S,
         \A call \in Calls : (\A other \in Calls : Smaller(other, call) => other \in S) => call \in S
  PROVE  Calls \subseteq S
<1> DEFINE B == Calls \ S
<1> SUFFICES ASSUME B # {} PROVE FALSE
  OBVIOUS
<1> DEFINE depths == {call[3] : call \in B}
<1>1. depths \in SUBSET Nat /\ depths # {}
  <2>1. \A call \in B : call[3] \in Nat
    BY Parts
  <2> QED
    BY <2>1
<1> HIDE DEF depths
<1>2. PICK d \in depths : \A e \in depths : d <= e
  BY <1>1, Least
<1> DEFINE C == {call \in B : call[3] = d}
           lengths == {Len(call[1]) : call \in C}
<1>3. lengths \in SUBSET Nat /\ lengths # {}
  <2>1. \A call \in C : Len(call[1]) \in Nat
    BY Parts
  <2>2. C # {}
    BY DEF depths
  <2>3. lengths # {}
    <3>1. PICK call \in C : TRUE
      BY <2>2
    <3>2. Len(call[1]) \in lengths
      OBVIOUS
    <3> QED
      BY <3>2
  <2>4. \A n \in lengths : n \in Nat
    BY <2>1
  <2> QED
    BY <2>3, <2>4
<1> HIDE DEF lengths
<1>4. PICK n \in lengths : \A k \in lengths : n <= k
  BY <1>3, Least
<1>5. PICK call \in B : call[3] = d /\ Len(call[1]) = n
  BY DEF lengths
<1>6. ASSUME NEW other \in Calls, Smaller(other, call) PROVE other \in S
  <2> SUFFICES ASSUME other \in B PROVE FALSE
    OBVIOUS
  <2>1. other[3] \in depths /\ other[3] \in Nat /\ d \in Nat /\ d <= other[3]
    BY <1>1, <1>2 DEF depths
  <2>2. other[3] = d /\ Len(other[1]) < n
    BY <1>5, <1>6, <2>1 DEF Smaller
  <2>3. Len(other[1]) \in lengths
    BY <2>2 DEF lengths
  <2>4. Len(other[1]) \in Nat /\ n \in Nat /\ n <= Len(other[1])
    BY <1>3, <1>4, <2>3
  <2> QED
    BY <2>2, <2>4
<1>7. call \in S
  BY <1>6
<1> QED
  BY <1>7

\* Pairs of a call and what it means, by the equation of Meaning.
Pairs == Calls \X Outcome

InnerIn(R, call, inner) ==
  IF First(call).op = "batch" THEN <<Nested(call), inner>> \in R ELSE inner = Moves(call)

AfterIn(R, call, inner, after) ==
  IF First(call).op \in {"quit", "end"} THEN after = Nothing(call[2])
  ELSE <<Behind(call, inner.path), after>> \in R

\* call means o, if what R says of its calls is what they mean.
Follows(R, call, o) ==
  IF Stops(call) THEN o = Nothing(call[2])
  ELSE \E inner, after \in Outcome :
         InnerIn(R, call, inner) /\ AfterIn(R, call, inner, after) /\ o = Joined(call, inner, after)

Closed(R) == \A call \in Calls, o \in Outcome : Follows(R, call, o) => <<call, o>> \in R

\* The least closed set of pairs.
Meant == {pair \in Pairs : \A R \in SUBSET Pairs : Closed(R) => pair \in R}

\* More pairs give no less.
LEMMA FollowsMore ==
  ASSUME NEW R, NEW Q, R \subseteq Q, NEW call, NEW o, Follows(R, call, o)
  PROVE  Follows(Q, call, o)
<1>1. ASSUME NEW inner, NEW after, InnerIn(R, call, inner), AfterIn(R, call, inner, after)
      PROVE  InnerIn(Q, call, inner) /\ AfterIn(Q, call, inner, after)
  BY <1>1 DEF InnerIn, AfterIn
<1> QED
  BY <1>1 DEF Follows

\* The least closed set of pairs holds what follows from it, and nothing else.
LEMMA LeastMeans ==
  ASSUME NEW call \in Calls, NEW o \in Outcome
  PROVE  <<call, o>> \in Meant <=> Follows(Meant, call, o)
<1> DEFINE M == Meant
<1>1. \A c \in Calls, q \in Outcome : Follows(M, c, q) => <<c, q>> \in M
  <2> SUFFICES ASSUME NEW c \in Calls, NEW q \in Outcome, Follows(M, c, q),
                      NEW R \in SUBSET Pairs, Closed(R)
               PROVE  <<c, q>> \in R
    BY DEF Meant, Pairs
  <2>1. M \subseteq R
    BY DEF Meant
  <2>2. Follows(R, c, q)
    BY <2>1, FollowsMore
  <2> QED
    BY <2>2 DEF Closed
<1>2. ASSUME <<call, o>> \in M, ~Follows(M, call, o) PROVE FALSE
  <2> DEFINE R == M \ {<<call, o>>}
  <2>1. R \in SUBSET Pairs /\ R \subseteq M
    BY DEF Meant
  <2>2. Closed(R)
    <3> SUFFICES ASSUME NEW c \in Calls, NEW q \in Outcome, Follows(R, c, q)
                 PROVE  <<c, q>> \in R
      BY DEF Closed
    <3>1. Follows(M, c, q)
      BY <2>1, FollowsMore
    <3>2. <<c, q>> \in M
      BY <1>1, <3>1
    <3>3. <<c, q>> # <<call, o>>
      BY <1>2, <3>1
    <3> QED
      BY <3>2, <3>3
  <2>3. <<call, o>> \in R
    <3> HIDE DEF R
    <3> QED
      BY <1>2, <2>1, <2>2 DEF Meant
  <2> QED
    BY <2>3
<1> QED
  BY <1>1, <1>2

\* A call means one thing.
LEMMA MeansOne ==
  ASSUME NEW call \in Calls
  PROVE  \E o \in Outcome : \A q \in Outcome : <<call, q>> \in Meant <=> q = o
<1> DEFINE M == Meant
           one(c, o) == \A q \in Outcome : <<c, q>> \in M <=> q = o
           S == {c \in Calls : \E o \in Outcome : one(c, o)}
<1>1. ASSUME NEW c \in Calls, \A d \in Calls : Smaller(d, c) => d \in S
      PROVE  c \in S
  <2> SUFFICES \E o \in Outcome : \A q \in Outcome : Follows(M, c, q) <=> q = o
    BY LeastMeans
  <2>1. CASE Stops(c)
    <3>1. Nothing(c[2]) \in Outcome
      BY Parts
    <3> QED
      BY <2>1, <3>1 DEF Follows
  <2>2. CASE ~Stops(c)
    <3>1. PICK inner \in Outcome : \A q \in Outcome : InnerIn(M, c, q) <=> q = inner
      <4>1. CASE First(c).op = "batch"
        <5>1. Nested(c) \in S
          BY <1>1, <2>2, Parts
        <5> QED
          BY <4>1, <5>1 DEF InnerIn
      <4>2. CASE First(c).op # "batch"
        <5>1. Moves(c) \in Outcome
          BY <2>2, Parts
        <5> QED
          BY <4>2, <5>1 DEF InnerIn
      <4> QED
        BY <4>1, <4>2
    <3>2. PICK after \in Outcome : \A q \in Outcome : AfterIn(M, c, inner, q) <=> q = after
      <4>1. CASE First(c).op \in {"quit", "end"}
        <5>1. Nothing(c[2]) \in Outcome
          BY Parts
        <5> QED
          BY <4>1, <5>1 DEF AfterIn
      <4>2. CASE First(c).op \notin {"quit", "end"}
        <5>1. inner.path \in Seq(Name)
          BY DEF Outcome
        <5>2. Behind(c, inner.path) \in S
          BY <1>1, <2>2, <5>1, Parts
        <5> QED
          BY <4>2, <5>2 DEF AfterIn
      <4> QED
        BY <4>1, <4>2
    <3>3. Joined(c, inner, after) \in Outcome
      BY <2>2, JoinedIs
    <3>4. \A q \in Outcome : Follows(M, c, q) <=> q = Joined(c, inner, after)
      <4> HIDE DEF M
      <4> QED
        BY <2>2, <3>1, <3>2 DEF Follows
    <3> QED
      BY <3>3, <3>4
  <2> QED
    BY <2>1, <2>2
<1>2. Calls \subseteq S
  <2> HIDE DEF S
  <2> QED
    BY <1>1, CallsInduction
<1> QED
  BY <1>2

\* The equation of Meaning has a solution.
LEMMA Solved ==
  \E m : m = [call \in Calls |-> Equation(m, call)]
<1> DEFINE M == Meant
           means(call) == CHOOSE o \in Outcome : <<call, o>> \in M
           m == [call \in Calls |-> means(call)]
<1>1. \A call \in Calls : m[call] \in Outcome /\ \A q \in Outcome : <<call, q>> \in M <=> q = m[call]
  BY MeansOne
<1>3. m = [call \in Calls |-> m[call]]
  <2> HIDE DEF means
  <2> QED
    OBVIOUS
<1> HIDE DEF m, M
<1>2. ASSUME NEW call \in Calls PROVE m[call] = Equation(m, call)
  <2>0. m[call] \in Outcome /\ <<call, m[call]>> \in M
    BY <1>1
  <2>1. Follows(M, call, m[call])
    BY <2>0, LeastMeans DEF M
  <2>2. CASE Stops(call)
    BY <2>1, <2>2 DEF Follows, Equation
  <2>3. CASE ~Stops(call)
    <3>1. PICK inner \in Outcome, after \in Outcome :
            InnerIn(M, call, inner) /\ AfterIn(M, call, inner, after) /\ m[call] = Joined(call, inner, after)
      BY <2>1, <2>3 DEF Follows
    <3>2. inner = InnerOf(m, call)
      <4>1. Nested(call) \in Calls
        BY <2>3, Parts
      <4> QED
        BY <1>1, <3>1, <4>1 DEF InnerIn, InnerOf
    <3>3. after = AfterOf(m, call)
      <4>1. inner.path \in Seq(Name)
        BY DEF Outcome
      <4>2. Behind(call, inner.path) \in Calls
        BY <2>3, <4>1, Parts
      <4> QED
        BY <1>1, <3>1, <3>2, <4>2 DEF AfterIn, AfterOf
    <3> QED
      BY <2>3, <3>1, <3>2, <3>3 DEF Equation
  <2> QED
    BY <2>2, <2>3
<1>4. m = [call \in Calls |-> Equation(m, call)]
  BY <1>2, <1>3
<1> QED
  BY <1>4

\* What carrying out lines means, line by line.
LEMMA MeaningIs ==
  \A call \in Calls : Meaning[call] \in Outcome /\ Meaning[call] = Equation(Meaning, call)
<1> DEFINE inner(m, call) ==
             CASE First(call).op = "cd" -> Nothing(Goal(First(call), call[2]))
               [] First(call).op = "batch" -> m[Nested(call)]
               [] OTHER -> Nothing(call[2])
           after(m, call) ==
             IF First(call).op \in {"quit", "end"} THEN Nothing(call[2])
             ELSE m[Behind(call, inner(m, call).path)]
           value(m, call) ==
             IF Stops(call) THEN Nothing(call[2]) ELSE Joined(call, inner(m, call), after(m, call))
           step(m) == [call \in Calls |-> value(m, call)]
<1>1. \A m : step(m) = [call \in Calls |-> Equation(m, call)]
  <2>1. \A m, call : inner(m, call) = InnerOf(m, call)
    BY DEF InnerOf, Moves
  <2>2. \A m, call : after(m, call) = AfterOf(m, call)
    BY <2>1 DEF AfterOf
  <2>3. \A m, call : value(m, call) = Equation(m, call)
    <3> HIDE DEF inner, after
    <3> QED
      BY <2>1, <2>2 DEF Equation
  <2> HIDE DEF value
  <2> QED
    BY <2>3
<1>2. Meaning = CHOOSE m : m = step(m)
  BY Zenon DEF Meaning, Stops, Joined, Nested, Behind, First, Entered
<1> HIDE DEF step
<1>3. Meaning = [call \in Calls |-> Equation(Meaning, call)]
  <2>1. \E m : m = step(m)
    BY <1>1, Solved
  <2>2. Meaning = step(Meaning)
    BY <1>2, <2>1
  <2> QED
    BY <1>1, <2>2
<1>4. \A call \in Calls : Meaning[call] = Equation(Meaning, call)
  BY <1>3
<1> DEFINE S == {call \in Calls : Meaning[call] \in Outcome}
<1>5. ASSUME NEW call \in Calls, \A other \in Calls : Smaller(other, call) => other \in S
      PROVE  call \in S
  <2>1. CASE Stops(call)
    BY <1>4, <2>1, Parts DEF Equation
  <2>2. CASE ~Stops(call)
    <3>1. InnerOf(Meaning, call) \in Outcome
      BY <1>5, <2>2, Parts DEF InnerOf
    <3>2. InnerOf(Meaning, call).path \in Seq(Name)
      BY <3>1 DEF Outcome
    <3>3. AfterOf(Meaning, call) \in Outcome
      <4>1. Nothing(call[2]) \in Outcome
        BY Parts
      <4>2. Behind(call, InnerOf(Meaning, call).path) \in S
        BY <1>5, <2>2, <3>2, Parts
      <4> QED
        BY <4>1, <4>2 DEF AfterOf
    <3> QED
      BY <1>4, <2>2, <3>1, <3>3, JoinedIs DEF Equation
  <2> QED
    BY <2>1, <2>2
<1>6. Calls \subseteq S
  <2> HIDE DEF S
  <2> QED
    BY <1>5, CallsInduction
<1> QED
  BY <1>4, <1>6

-------------------------------------------------------------------------------
(* The stack of calls.                                                      *)

Prefix(s, t) == \E more \in Done : t = s \o more

\* The n calls of stack, the innermost first, are still to carry out what leads
\* from done, in path, to whole: qs and ps say what is carried out, and in which
\* path the console is, when they come to each call and at the end.
LeadBy(qs, ps, n, stack, done, path, whole) ==
  /\ qs[1] = done /\ ps[1] = path
  /\ \A k \in 1 .. n :
       LET m == Meaning[<<stack[k], ps[k], MaxDepth - (n - k)>>]
       IN  qs[k + 1] = qs[k] \o m.does /\ ps[k + 1] = m.path
  /\ qs[n + 1] = whole.does /\ ps[n + 1] = whole.path
  /\ \A k \in 1 .. n + 1 : Prefix(qs[k], whole.does)

Lead(n, stack, done, path, whole) ==
  \E qs \in [1 .. n + 1 -> Done], ps \in [1 .. n + 1 -> Seq(Name)] :
    LeadBy(qs, ps, n, stack, done, path, whole)

Remains(stack, done, path, whole) == Lead(Len(stack), stack, done, path, whole)

\* What the proofs use of sequences.
LEMMA Sequences ==
  ASSUME NEW E
  PROVE  /\ \A s, t, u \in Seq(E) : (s \o t) \o u = s \o (t \o u) /\ s \o t \in Seq(E)
         /\ \A s \in Seq(E), e \in E : Append(s, e) = s \o <<e>> /\ Append(s, e) \in Seq(E) /\ <<e>> \in Seq(E)
         /\ \A s \in Seq(E) : s \o <<>> = s /\ <<>> \o s = s
         /\ \A s \in Seq(E), e \in E : /\ Len(<<e>> \o s) = Len(s) + 1 /\ <<e>> \o s \in Seq(E)
                                       /\ (<<e>> \o s)[1] = e /\ Tail(<<e>> \o s) = s
                                       /\ \A k \in 1 .. Len(s) : (<<e>> \o s)[k + 1] = s[k]
<1>1. \A s, t, u \in Seq(E) : (s \o t) \o u = s \o (t \o u) /\ s \o t \in Seq(E)
  BY ConcatAssociative, ConcatProperties, SMTT(60)
<1>2. \A s \in Seq(E), e \in E : Append(s, e) = s \o <<e>> /\ Append(s, e) \in Seq(E) /\ <<e>> \in Seq(E)
  BY AppendIsConcat, AppendProperties
<1>3. \A s \in Seq(E) : s \o <<>> = s /\ <<>> \o s = s
  BY ConcatEmptySeq
<1>4. \A s \in Seq(E), e \in E : /\ Len(<<e>> \o s) = Len(s) + 1 /\ <<e>> \o s \in Seq(E)
                                 /\ (<<e>> \o s)[1] = e /\ Tail(<<e>> \o s) = s
                                 /\ \A k \in 1 .. Len(s) : (<<e>> \o s)[k + 1] = s[k]
  OBVIOUS
<1> QED
  BY <1>1, <1>2, <1>3, <1>4

\* What is carried out, as sequences.
LEMMA DoneIs ==
  /\ \A s, t, u \in Done : (s \o t) \o u = s \o (t \o u) /\ s \o t \in Done
  /\ \A s \in Done : s \o <<>> = s /\ <<>> \o s = s
  /\ \A s \in Done, e \in [line : Lines, path : Seq(Name)] :
       Append(s, e) = s \o <<e>> /\ Append(s, e) \in Done /\ <<e>> \in Done
  /\ <<>> \in Done
<1> DEFINE E == [line : Lines, path : Seq(Name)]
<1>1. Done = Seq(E)
  BY DEF Done
<1> HIDE DEF E
<1>2. <<>> \in Done
  BY <1>1
<1>3. /\ \A s, t, u \in Seq(E) : (s \o t) \o u = s \o (t \o u) /\ s \o t \in Seq(E)
      /\ \A s \in Seq(E) : s \o <<>> = s /\ <<>> \o s = s
      /\ \A s \in Seq(E), e \in E : Append(s, e) = s \o <<e>> /\ Append(s, e) \in Seq(E) /\ <<e>> \in Seq(E)
  BY Sequences
<1>4. \A s \in Done, e \in E : Append(s, e) = s \o <<e>> /\ Append(s, e) \in Done /\ <<e>> \in Done
  BY <1>1, <1>3
<1>5. \A s, t, u \in Done : (s \o t) \o u = s \o (t \o u) /\ s \o t \in Done
  BY <1>1, <1>3, SMTT(60)
<1>6. \A s \in Done : s \o <<>> = s /\ <<>> \o s = s
  BY <1>1, <1>3
<1> QED
  BY <1>2, <1>4, <1>5, <1>6 DEF E

\* A part of a beginning is a beginning.
LEMMA PrefixOf ==
  ASSUME NEW s \in Done, NEW t \in Done, NEW u, Prefix(s \o t, u)
  PROVE  Prefix(s, u)
<1>1. PICK more \in Done : u = (s \o t) \o more
  BY DEF Prefix
<1>2. (s \o t) \o more = s \o (t \o more) /\ t \o more \in Done
  BY DoneIs, ZenonT(60)
<1> QED
  BY <1>1, <1>2 DEF Prefix

\* What is carried out line by line.
LEMMA DoneConcat ==
  ASSUME NEW s \in Done, NEW t \in Done, NEW u \in Done
  PROVE  s \o (t \o u) = (s \o t) \o u
BY DoneIs, ZenonT(60)

\* The same of four parts.
LEMMA Regrouped ==
  ASSUME NEW s \in Done, NEW t \in Done, NEW u \in Done, NEW v \in Done
  PROVE  s \o ((t \o u) \o v) = ((s \o t) \o u) \o v
<1> DEFINE w == t \o u
<1>1. w \in Done
  BY DoneIs, Zenon
<1> HIDE DEF w
<1>2. s \o (w \o v) = (s \o w) \o v
  BY <1>1, DoneConcat, SMTT(60)
<1>3. s \o (t \o u) = (s \o t) \o u
  BY DoneConcat, SMTT(60)
<1> QED
  BY <1>2, <1>3 DEF w

\* One line and what follows it.
LEMMA LineFirst ==
  ASSUME NEW done \in Done, NEW e \in [line : Lines, path : Seq(Name)],
         NEW inner \in Done, NEW after \in Done
  PROVE  done \o ((<<e>> \o inner) \o after) = (Append(done, e) \o inner) \o after
<1> DEFINE x == <<e>>
<1>1. x \in Done
  BY DoneIs
<1>2. Append(done, e) = done \o x
  BY DoneIs
<1> DEFINE w == x \o inner
<1>3. w \in Done
  BY <1>1, DoneIs, Zenon
<1> HIDE DEF x, w
<1>4. done \o (w \o after) = (done \o w) \o after
  BY <1>3, DoneConcat, SMTT(60)
<1>5. done \o (x \o inner) = (done \o x) \o inner
  BY <1>1, DoneConcat, SMTT(60)
<1>6. done \o ((x \o inner) \o after) = ((done \o x) \o inner) \o after
  BY <1>4, <1>5 DEF w
<1> QED
  BY <1>2, <1>6 DEF x

\* When no call remains, all is done.
LEMMA NoneRemains ==
  ASSUME NEW done \in Done, NEW path \in Seq(Name), NEW whole \in Outcome
  PROVE  Remains(<<>>, done, path, whole) <=> done = whole.does /\ path = whole.path
<1>1. Len(<<>>) = 0 /\ 1 .. 0 + 1 = {1} /\ 0 + 1 = 1 /\ 1 .. 0 = {}
  OBVIOUS
<1>2. Remains(<<>>, done, path, whole) => done = whole.does /\ path = whole.path
  BY <1>1 DEF Remains, Lead, LeadBy
<1>3. ASSUME done = whole.does, path = whole.path PROVE Remains(<<>>, done, path, whole)
  <2> DEFINE qs == [k \in 1 .. 1 |-> done]
             ps == [k \in 1 .. 1 |-> path]
  <2>1. Prefix(done, whole.does)
    <3>1. done \o <<>> = done /\ <<>> \in Done
      BY DEF Done
    <3> QED
      BY <1>3, <3>1 DEF Prefix
  <2>2. qs \in [1 .. 1 -> Done] /\ ps \in [1 .. 1 -> Seq(Name)] /\ qs[1] = done /\ ps[1] = path
    OBVIOUS
  <2> HIDE DEF qs, ps
  <2>3. \A k \in 1 .. 0 + 1 : Prefix(qs[k], whole.does)
    BY <1>1, <2>1, <2>2
  <2> QED
    BY <1>1, <1>3, <2>2, <2>3 DEF Remains, Lead, LeadBy
<1> QED
  BY <1>2, <1>3

\* The innermost call is carried out first.
LEMMA TopRemains ==
  ASSUME NEW lines \in Seq(Lines), NEW tail \in Seq(Seq(Lines)), Len(tail) < MaxDepth,
         NEW done \in Done, NEW path \in Seq(Name), NEW whole \in Outcome,
         NEW m, m = Meaning[<<lines, path, MaxDepth - Len(tail)>>]
  PROVE  /\ m \in Outcome
         /\ Remains(<<lines>> \o tail, done, path, whole) <=> Remains(tail, done \o m.does, m.path, whole)
<1> DEFINE stack == <<lines>> \o tail
           n == Len(tail)
<1>1. n \in Nat /\ MaxDepth \in Nat /\ n < MaxDepth
  BY ConsoleAssumption
<1>2. Len(stack) = n + 1 /\ stack[1] = lines /\ \A k \in 1 .. n : stack[k + 1] = tail[k]
  BY Sequences
<1>0. m = Meaning[<<lines, path, MaxDepth - n>>]
  OBVIOUS
<1> HIDE DEF stack, n
<1>3. m \in Outcome
  <2>1. MaxDepth - n \in Nat
    BY <1>1
  <2>2. <<lines, path, MaxDepth - n>> \in Calls
    BY <2>1 DEF Calls
  <2> QED
    BY <1>0, <2>2, MeaningIs
<1>4. m.does \in Done /\ m.path \in Seq(Name) /\ done \o m.does \in Done
  BY <1>3, DoneIs DEF Outcome
<1>5. /\ \A k \in 1 .. n + 1 : k \in 1 .. n + 1 + 1 /\ k + 1 \in 1 .. n + 1 + 1
      /\ \A k \in 1 .. n : k \in 1 .. n + 1 /\ k + 1 \in 1 .. n + 1 /\ k + 1 # 1
      /\ \A k \in 1 .. n : MaxDepth - ((n + 1) - (k + 1)) = MaxDepth - (n - k)
      /\ \A k \in 1 .. n + 1 + 1 : k = 1 \/ (k - 1 \in 1 .. n + 1 /\ (k - 1) + 1 = k)
      /\ \A k \in 1 .. n + 1 : k = 1 \/ (k - 1 \in 1 .. n /\ (k - 1) + 1 = k)
      /\ 1 \in 1 .. n + 1 /\ n + 1 \in 1 .. n + 1 /\ MaxDepth - ((n + 1) - 1) = MaxDepth - n /\ 1 + 1 = 2
      /\ 2 \in 1 .. n + 1 + 1 /\ 1 \in 1 .. n + 1 + 1 /\ n + 1 + 1 \in 1 .. n + 1 + 1 /\ n + 1 + 1 # 1
      /\ (n + 1 + 1) - 1 = n + 1
  BY <1>1
<1>6. ASSUME Remains(stack, done, path, whole)
      PROVE  Remains(tail, done \o m.does, m.path, whole)
  <2>0. PICK qs \in [1 .. n + 1 + 1 -> Done], ps \in [1 .. n + 1 + 1 -> Seq(Name)] :
          LeadBy(qs, ps, n + 1, stack, done, path, whole)
    <3>1. Lead(n + 1, stack, done, path, whole)
      BY <1>2, <1>6 DEF Remains
    <3> QED
      BY <3>1 DEF Lead
  <2>1. /\ qs[1] = done /\ ps[1] = path
        /\ \A k \in 1 .. n + 1 :
               /\ qs[k + 1] = qs[k] \o Meaning[<<stack[k], ps[k], MaxDepth - ((n + 1) - k)>>].does
               /\ ps[k + 1] = Meaning[<<stack[k], ps[k], MaxDepth - ((n + 1) - k)>>].path
        /\ qs[n + 1 + 1] = whole.does /\ ps[n + 1 + 1] = whole.path
        /\ \A k \in 1 .. n + 1 + 1 : Prefix(qs[k], whole.does)
    BY <2>0 DEF LeadBy
  <2> DEFINE q == [k \in 1 .. n + 1 |-> qs[k + 1]]
             p == [k \in 1 .. n + 1 |-> ps[k + 1]]
  <2>2. q \in [1 .. n + 1 -> Done] /\ p \in [1 .. n + 1 -> Seq(Name)]
    BY <1>5
  <2>3. \A k \in 1 .. n + 1 : q[k] = qs[k + 1] /\ p[k] = ps[k + 1]
    OBVIOUS
  <2> HIDE DEF q, p
  <2>4. q[1] = done \o m.does /\ p[1] = m.path
    <3>1. m = Meaning[<<stack[1], ps[1], MaxDepth - ((n + 1) - 1)>>]
      BY <1>0, <1>2, <1>5, <2>1
    <3>2. qs[1 + 1] = qs[1] \o m.does /\ ps[1 + 1] = m.path
      BY <1>5, <2>1, <3>1, ZenonT(60)
    <3> QED
      BY <1>5, <2>1, <2>3, <3>2
  <2>5. ASSUME NEW k \in 1 .. n
        PROVE  /\ q[k + 1] = q[k] \o Meaning[<<tail[k], p[k], MaxDepth - (n - k)>>].does
               /\ p[k + 1] = Meaning[<<tail[k], p[k], MaxDepth - (n - k)>>].path
    <3> DEFINE j == k + 1
               c == Meaning[<<stack[j], ps[j], MaxDepth - ((n + 1) - j)>>]
    <3>1. j \in 1 .. n + 1 /\ k \in 1 .. n + 1 /\ MaxDepth - ((n + 1) - j) = MaxDepth - (n - k)
      BY <1>5
    <3>2. stack[j] = tail[k] /\ q[k] = qs[j] /\ p[k] = ps[j] /\ q[j] = qs[j + 1] /\ p[j] = ps[j + 1]
      BY <1>2, <2>3, <3>1
    <3> HIDE DEF j
    <3>3. qs[j + 1] = qs[j] \o c.does /\ ps[j + 1] = c.path
      BY <2>1, <3>1
    <3>4. c = Meaning[<<tail[k], p[k], MaxDepth - (n - k)>>]
      BY <3>1, <3>2
    <3> QED
      BY <3>2, <3>3, <3>4 DEF j
  <2>6. q[n + 1] = whole.does /\ p[n + 1] = whole.path /\ \A k \in 1 .. n + 1 : Prefix(q[k], whole.does)
    BY <1>5, <2>1, <2>3, ZenonT(60)
  <2> QED
    <3>1. Lead(n, tail, done \o m.does, m.path, whole)
      <4>1. LeadBy(q, p, n, tail, done \o m.does, m.path, whole)
        BY <2>4, <2>5, <2>6 DEF LeadBy
      <4> QED
        BY <2>2, <4>1 DEF Lead
    <3> QED
      BY <3>1 DEF Remains, n
<1>7. ASSUME Remains(tail, done \o m.does, m.path, whole)
      PROVE  Remains(stack, done, path, whole)
  <2>0. PICK qs \in [1 .. n + 1 -> Done], ps \in [1 .. n + 1 -> Seq(Name)] :
          LeadBy(qs, ps, n, tail, done \o m.does, m.path, whole)
    <3>1. Lead(n, tail, done \o m.does, m.path, whole)
      BY <1>7 DEF Remains, n
    <3> QED
      BY <3>1 DEF Lead
  <2>1. /\ qs[1] = done \o m.does /\ ps[1] = m.path
        /\ \A k \in 1 .. n :
               /\ qs[k + 1] = qs[k] \o Meaning[<<tail[k], ps[k], MaxDepth - (n - k)>>].does
               /\ ps[k + 1] = Meaning[<<tail[k], ps[k], MaxDepth - (n - k)>>].path
        /\ qs[n + 1] = whole.does /\ ps[n + 1] = whole.path
        /\ \A k \in 1 .. n + 1 : Prefix(qs[k], whole.does)
    BY <2>0 DEF LeadBy
  <2> DEFINE q == [k \in 1 .. n + 1 + 1 |-> IF k = 1 THEN done ELSE qs[k - 1]]
             p == [k \in 1 .. n + 1 + 1 |-> IF k = 1 THEN path ELSE ps[k - 1]]
  <2>2. q \in [1 .. n + 1 + 1 -> Done] /\ p \in [1 .. n + 1 + 1 -> Seq(Name)]
    BY <1>5
  <2>3. q[1] = done /\ p[1] = path /\ \A k \in 1 .. n + 1 : q[k + 1] = qs[k] /\ p[k + 1] = ps[k]
    <3>1. \A k \in 1 .. n + 1 : k + 1 # 1 /\ (k + 1) - 1 = k
      BY <1>1
    <3> QED
      BY <1>5, <3>1
  <2> HIDE DEF q, p
  <2>4. Prefix(done, whole.does)
    <3>0. Prefix(done \o m.does, whole.does)
      BY <1>5, <2>1
    <3> QED
      BY <1>4, <3>0, PrefixOf
  <2>5. \A k \in 1 .. n + 1 :
          /\ q[k + 1] = q[k] \o Meaning[<<stack[k], p[k], MaxDepth - ((n + 1) - k)>>].does
          /\ p[k + 1] = Meaning[<<stack[k], p[k], MaxDepth - ((n + 1) - k)>>].path
    <3> SUFFICES ASSUME NEW k \in 1 .. n + 1
                 PROVE  /\ q[k + 1] = q[k] \o Meaning[<<stack[k], p[k], MaxDepth - ((n + 1) - k)>>].does
                        /\ p[k + 1] = Meaning[<<stack[k], p[k], MaxDepth - ((n + 1) - k)>>].path
      OBVIOUS
    <3>1. CASE k = 1
      <4>1. m = Meaning[<<stack[1], p[1], MaxDepth - ((n + 1) - 1)>>]
        BY <1>0, <1>2, <1>5, <2>3
      <4>2. q[1 + 1] = q[1] \o m.does /\ p[1 + 1] = m.path
        BY <1>5, <2>1, <2>3
      <4> QED
        BY <3>1, <4>1, <4>2
    <3>2. CASE k # 1
      <4>1. PICK j \in 1 .. n : k = j + 1
        BY <1>5, <3>2
      <4>2. /\ q[k] = qs[j] /\ p[k] = ps[j] /\ q[k + 1] = qs[j + 1] /\ p[k + 1] = ps[j + 1]
            /\ stack[k] = tail[j] /\ MaxDepth - ((n + 1) - k) = MaxDepth - (n - j)
        BY <1>2, <1>5, <2>3, <4>1
      <4> QED
        BY <2>1, <4>2
    <3> QED
      BY <3>1, <3>2
  <2>6. q[n + 1 + 1] = whole.does /\ p[n + 1 + 1] = whole.path
    BY <1>5, <2>1, <2>3
  <2>7. \A k \in 1 .. n + 1 + 1 : Prefix(q[k], whole.does)
    <3> SUFFICES ASSUME NEW k \in 1 .. n + 1 + 1 PROVE Prefix(q[k], whole.does)
      OBVIOUS
    <3>1. CASE k = 1
      BY <2>3, <2>4, <3>1
    <3>2. CASE k # 1
      <4>1. PICK j \in 1 .. n + 1 : k = j + 1
        BY <1>5, <3>2
      <4> QED
        BY <2>1, <2>3, <4>1
    <3> QED
      BY <3>1, <3>2
  <2> QED
    <3>1. Lead(n + 1, stack, done, path, whole)
      <4>1. LeadBy(q, p, n + 1, stack, done, path, whole)
        BY <2>3, <2>5, <2>6, <2>7 DEF LeadBy
      <4> QED
        BY <2>2, <4>1 DEF Lead
    <3> QED
      BY <1>2, <3>1 DEF Remains
<1> QED
  BY <1>3, <1>6, <1>7 DEF stack

\* What is carried out is the beginning of the whole.
LEMMA RemainsBegins ==
  ASSUME NEW stack \in Seq(Seq(Lines)), NEW done, NEW path, NEW whole, Remains(stack, done, path, whole)
  PROVE  Prefix(done, whole.does)
<1>1. 1 \in 1 .. Len(stack) + 1
  OBVIOUS
<1> QED
  BY <1>1 DEF Remains, Lead, LeadBy

\* The innermost call takes its next line.
LEMMA TakesLine ==
  ASSUME NEW lines \in Seq(Lines), lines # <<>>,
         NEW tail \in Seq(Seq(Lines)), Len(tail) < MaxDepth,
         NEW done \in Done, NEW path \in Seq(Name), NEW whole \in Outcome,
         Remains(<<lines>> \o tail, done, path, whole),
         NEW l, l = lines[1],
         NEW new, new = Append(done, [line |-> l, path |-> path]),
         NEW rest, rest = <<Tail(lines)>> \o tail
  PROVE  /\ new \in Done /\ Prefix(new, whole.does)
         /\ l.op = "cd" => Remains(rest, new, Goal(l, path), whole)
         /\ l.op = "batch" /\ Len(rest) < MaxDepth =>
              Remains(<<Content(Goal(l, path))>> \o rest, new, path, whole)
         /\ l.op \in {"quit", "end"} => Remains(tail, new, path, whole)
         /\ l.op \notin {"cd", "batch", "quit", "end"} => Remains(rest, new, path, whole)
<1> DEFINE d == MaxDepth - Len(tail)
           call == <<lines, path, d>>
           inner == InnerOf(Meaning, call)
           after == AfterOf(Meaning, call)
           m == Meaning[call]
           e == [line |-> l, path |-> path]
<1>1. d \in Nat \ {0} /\ MaxDepth \in Nat /\ Len(tail) \in Nat
  BY ConsoleAssumption
<1>2. call \in Calls /\ ~Stops(call) /\ First(call) = l /\ Entered(call) = e
  BY <1>1 DEF Calls, Stops, First, Entered
<1>3. e \in [line : Lines, path : Seq(Name)] /\ Tail(lines) \in Seq(Lines)
      /\ Goal(l, path) \in Seq(Name) /\ Content(Goal(l, path)) \in Seq(Lines)
  <2>1. Nested(call) \in Calls /\ Nested(call) = <<Content(Goal(l, path)), path, d - 1>>
    BY <1>2, Parts DEF Nested
  <2>2. l \in Lines
    OBVIOUS
  <2>3. Goal(l, path) \in Seq(Name)
    <3>1. l.names \in Seq(Names)
      BY <2>2, ConsoleAssumption DEF Lines
    <3>2. l.names \in Seq(Name)
      BY <3>1 DEF Name
    <3> QED
      BY <3>2 DEF Goal
  <2> QED
    BY <2>1, <2>2, <2>3 DEF Calls
<1>4. Nothing(path) \in Outcome /\ Nothing(Goal(l, path)) \in Outcome
  BY <1>3 DEF Nothing, Outcome, Done
<1>5. inner = IF l.op = "cd" THEN Nothing(Goal(l, path))
              ELSE IF l.op = "batch" THEN Meaning[<<Content(Goal(l, path)), path, d - 1>>]
              ELSE Nothing(path)
  BY <1>2 DEF InnerOf, Moves, Nested
<1>6. after = IF l.op \in {"quit", "end"} THEN Nothing(path) ELSE Meaning[<<Tail(lines), inner.path, d>>]
  BY <1>2 DEF AfterOf, Behind
<1>7. m = [does |-> <<e>> \o inner.does \o after.does, path |-> after.path]
  <2>1. m = Joined(call, inner, after)
    BY <1>2, MeaningIs DEF Equation
  <2> QED
    BY <1>2, <2>1 DEF Joined
<1> HIDE DEF inner, after, m, e, d, call
<1>8. inner \in Outcome
  <2>1. <<Content(Goal(l, path)), path, d - 1>> \in Calls
    BY <1>1, <1>3, SMTT(60) DEF Calls
  <2> QED
    BY <1>4, <1>5, <2>1, MeaningIs
<1>9. after \in Outcome
  <2>1. <<Tail(lines), inner.path, d>> \in Calls
    BY <1>1, <1>3, <1>8 DEF Calls, Outcome
  <2> QED
    BY <1>4, <1>6, <2>1, MeaningIs
<1>10. /\ new = done \o <<e>> /\ new \in Done /\ <<e>> \in Done
       /\ inner.does \in Done /\ after.does \in Done /\ inner.path \in Seq(Name) /\ after.path \in Seq(Name)
  BY <1>3, <1>8, <1>9, DoneIs DEF Outcome, e
<1>11. Remains(tail, (new \o inner.does) \o after.does, after.path, whole)
  <2>1. Remains(tail, done \o m.does, m.path, whole)
    BY TopRemains DEF m, call, d
  <2>2. m.does = (<<e>> \o inner.does) \o after.does /\ m.path = after.path
    BY <1>7
  <2>3. done \o ((<<e>> \o inner.does) \o after.does) = (Append(done, e) \o inner.does) \o after.does
    <3>1. e \in [line : Lines, path : Seq(Name)]
      BY <1>3
    <3>2. inner.does \in Done /\ after.does \in Done
      BY <1>10
    <3> QED
      BY ONLY <3>1, <3>2, done \in Done, LineFirst, ZenonT(60)
  <2>4. new = Append(done, e)
    BY DEF e
  <2> QED
    BY <2>1, <2>2, <2>3, <2>4
<1>12. new \o inner.does \in Done /\ (new \o inner.does) \o after.does \in Done
  BY <1>10, DoneIs
<1>13. Prefix(new, whole.does)
  <2>1. Prefix((new \o inner.does) \o after.does, whole.does)
    BY <1>10, <1>11, <1>12, RemainsBegins
  <2>2. Prefix(new \o inner.does, whole.does)
    BY <1>10, <1>12, <2>1, PrefixOf
  <2> QED
    BY <1>10, <2>2, PrefixOf
<1>14. rest \in Seq(Seq(Lines)) /\ Len(rest) = Len(tail) + 1
  BY <1>3, Sequences
<1>15. l.op \notin {"quit", "end"} => Remains(rest, new \o inner.does, inner.path, whole)
  <2> SUFFICES ASSUME l.op \notin {"quit", "end"} PROVE Remains(rest, new \o inner.does, inner.path, whole)
    OBVIOUS
  <2>1. after = Meaning[<<Tail(lines), inner.path, MaxDepth - Len(tail)>>]
    BY <1>6 DEF d
  <2> QED
    BY <1>3, <1>10, <1>11, <1>12, <2>1, TopRemains
<1>16. l.op = "cd" => Remains(rest, new, Goal(l, path), whole)
  <2> SUFFICES ASSUME l.op = "cd" PROVE Remains(rest, new, Goal(l, path), whole)
    OBVIOUS
  <2>1. inner.does = <<>> /\ inner.path = Goal(l, path)
    BY <1>5 DEF Nothing
  <2> QED
    BY <1>10, <1>15, <2>1, DoneIs
<1>17. l.op = "batch" /\ Len(rest) < MaxDepth => Remains(<<Content(Goal(l, path))>> \o rest, new, path, whole)
  <2> SUFFICES ASSUME l.op = "batch", Len(rest) < MaxDepth
               PROVE  Remains(<<Content(Goal(l, path))>> \o rest, new, path, whole)
    OBVIOUS
  <2>1. inner = Meaning[<<Content(Goal(l, path)), path, MaxDepth - Len(rest)>>]
    <3>1. d - 1 = MaxDepth - Len(rest)
      BY <1>1, <1>14 DEF d
    <3> QED
      BY <1>5, <3>1
  <2> QED
    BY <1>3, <1>10, <1>14, <1>15, <2>1, TopRemains, ZenonT(120)
<1>18. l.op \in {"quit", "end"} => Remains(tail, new, path, whole)
  <2> SUFFICES ASSUME l.op \in {"quit", "end"} PROVE Remains(tail, new, path, whole)
    OBVIOUS
  <2>1. inner.does = <<>> /\ after.does = <<>> /\ after.path = path
    BY <1>5, <1>6 DEF Nothing
  <2>2. (new \o <<>>) \o <<>> = new
    <3>1. new \o <<>> = new
      BY <1>10, DoneIs
    <3> QED
      BY <3>1
  <2> QED
    BY <1>11, <2>1, <2>2
<1>19. l.op \notin {"cd", "batch", "quit", "end"} => Remains(rest, new, path, whole)
  <2> SUFFICES ASSUME l.op \notin {"cd", "batch", "quit", "end"} PROVE Remains(rest, new, path, whole)
    OBVIOUS
  <2>1. inner.does = <<>> /\ inner.path = path
    BY <1>5 DEF Nothing
  <2>2. new \o inner.does = new
    BY <1>10, <2>1, DoneIs
  <2> QED
    BY <1>15, <2>1, <2>2
<1> QED
  BY <1>10, <1>13, <1>16, <1>17, <1>18, <1>19

\* A call on top of the others and the one at the bottom.
LEMMA Bottom ==
  ASSUME NEW E, NEW x \in E, NEW y \in E, NEW s \in Seq(E)
  PROVE  /\ Append(<<x>> \o s, y) = <<x>> \o Append(s, y)
         /\ <<x>> \o s \in Seq(E) /\ Append(s, y) \in Seq(E)
         /\ Tail(<<x>> \o s) = s /\ Len(<<x>> \o s) = Len(s) + 1
         /\ Len(Append(s, y)) = Len(s) + 1 /\ Len(s) \in Nat
<1>1. <<x>> \in Seq(E) /\ <<y>> \in Seq(E)
  OBVIOUS
<1>2. <<x>> \o s \in Seq(E) /\ Tail(<<x>> \o s) = s /\ Len(<<x>> \o s) = Len(s) + 1
  OBVIOUS
<1>3. Append(s, y) \in Seq(E) /\ Len(Append(s, y)) = Len(s) + 1 /\ Len(s) \in Nat
  OBVIOUS
<1>4. Append(<<x>> \o s, y) = (<<x>> \o s) \o <<y>>
  BY <1>2, AppendIsConcat
<1>5. Append(s, y) = s \o <<y>>
  BY AppendIsConcat
<1>6. (<<x>> \o s) \o <<y>> = <<x>> \o (s \o <<y>>)
  BY <1>1, ConcatAssociative
<1> QED
  BY <1>2, <1>3, <1>4, <1>5, <1>6

\* The same of the calls of the console.
LEMMA OnTop ==
  \A c \in Seq(Lines), s \in Seq(Seq(Lines)) : Append(<<c>> \o s, <<>>) = <<c>> \o Append(s, <<>>)
<1> SUFFICES ASSUME NEW c \in Seq(Lines), NEW s \in Seq(Seq(Lines))
             PROVE  Append(<<c>> \o s, <<>>) = <<c>> \o Append(s, <<>>)
  OBVIOUS
<1> DEFINE E == Seq(Lines)
           none == <<>>
<1>1. c \in E /\ none \in E /\ s \in Seq(E)
  OBVIOUS
<1> HIDE DEF E, none
<1>2. Append(<<c>> \o s, none) = <<c>> \o Append(s, none)
  BY <1>1, Bottom, SMTT(60)
<1> QED
  BY <1>2 DEF none

\* A line is carried out: when the console goes on, its calls are what remains.
LEMMA Carried ==
  ASSUME TypeOK, In("line"),
         NEW lines \in Seq(Lines), lines # <<>>, NEW l, l = lines[1],
         NEW tail \in Seq(Seq(Lines)), Len(tail) < MaxDepth,
         NEW rest \in Seq(Seq(Lines)), <<Tail(lines)>> \o tail = Append(rest, <<>>),
         rest # <<>> => tail = Append(Tail(rest), <<>>),
         NEW done \in Done, NEW whole \in Outcome,
         Remains(<<lines>> \o tail, done, szCurrentPath, whole),
         CarryOut(l, rest, FALSE), ~ioFail',
         NEW new, new = Append(done, Entry(l))
  PROVE  /\ new \in Done /\ Prefix(new, whole.does)
         /\ mode' = "console" => at' # "start" /\ Remains(Append(batches', <<>>), new, szCurrentPath', whole)
<1> DEFINE ours == <<Tail(lines)>> \o tail
           Goes == mode' = "console" =>
                     at' # "start" /\ Remains(Append(batches', <<>>), new, szCurrentPath', whole)
<1>1. szCurrentPath \in Seq(Name) /\ mode = "console" /\ at = "line"
  BY DEF TypeOK, In
<1>2. new = Append(done, [line |-> l, path |-> szCurrentPath])
  BY DEF Entry
<1>3. Target(l) = Goal(l, szCurrentPath)
  BY DEF Target, Goal
<1>4. /\ new \in Done /\ Prefix(new, whole.does)
      /\ l.op = "cd" => Remains(ours, new, Target(l), whole)
      /\ l.op = "batch" /\ Len(ours) < MaxDepth =>
           Remains(<<Content(Target(l))>> \o ours, new, szCurrentPath, whole)
      /\ l.op \in {"quit", "end"} => Remains(tail, new, szCurrentPath, whole)
      /\ l.op \notin {"cd", "batch", "quit", "end"} => Remains(ours, new, szCurrentPath, whole)
  <2> HIDE DEF Goes
  <2>1. /\ new \in Done /\ Prefix(new, whole.does)
        /\ l.op = "cd" => Remains(ours, new, Goal(l, szCurrentPath), whole)
        /\ l.op = "batch" /\ Len(ours) < MaxDepth =>
             Remains(<<Content(Goal(l, szCurrentPath))>> \o ours, new, szCurrentPath, whole)
        /\ l.op \in {"quit", "end"} => Remains(tail, new, szCurrentPath, whole)
        /\ l.op \notin {"cd", "batch", "quit", "end"} => Remains(ours, new, szCurrentPath, whole)
    <3>1. szCurrentPath \in Seq(Name)
      BY <1>1
    <3> QED
      BY <1>2, <3>1, TakesLine, ZenonT(120)
  <2> QED
    BY <1>3, <2>1
<1>5. ours = Append(rest, <<>>) /\ Len(ours) = Len(rest) + 1
  <2>1. <<>> \in Seq(Lines)
    OBVIOUS
  <2>2. Len(Append(rest, <<>>)) = Len(rest) + 1
    BY <2>1, AppendProperties
  <2> QED
    BY <2>2
<1> HIDE DEF ours
<1>6. CASE Cd(l, rest, FALSE)
  BY <1>4, <1>5, <1>6 DEF Cd, AfterCd
<1>7. CASE OpenRead(l, rest, FALSE)
  <2>1. l.op \in {"ls", "cat"} /\ szCurrentPath' = szCurrentPath
    BY <1>7 DEF OpenRead
  <2>2. mode' # "console" \/ (batches' = rest /\ at' = "check")
    BY <1>7 DEF OpenRead, Halted
  <2>3. Remains(ours, new, szCurrentPath, whole)
    BY <1>4, <2>1
  <2> QED
    BY <1>5, <2>1, <2>2, <2>3, <1>4
<1>8. CASE Batch(l, rest, FALSE)
  <2>1. l.op = "batch" /\ szCurrentPath' = szCurrentPath
    BY <1>8 DEF Batch
  <2>2. CASE Len(rest) + 1 < MaxDepth /\ batches' = <<Content(Target(l))>> \o rest /\ at' = "line"
    <3>1. Content(Target(l)) \in Seq(Lines)
      BY ContentIs
    <3>2. Append(<<Content(Target(l))>> \o rest, <<>>) = <<Content(Target(l))>> \o Append(rest, <<>>)
      BY <3>1, OnTop, Zenon
    <3> QED
      BY <1>4, <1>5, <2>1, <2>2, <3>2
  <2>3. CASE mode' = "halted"
    BY <1>4, <2>3
  <2> QED
    BY <1>8, <2>2, <2>3 DEF Batch, Halted
<1>9. CASE Return(l, rest, FALSE)
  <2>1. l.op \in {"quit", "end"} /\ szCurrentPath' = szCurrentPath /\ Returns(l.op # "quit", rest)
    BY <1>9 DEF Return
  <2>2. CASE rest = <<>>
    BY <1>4, <2>1, <2>2 DEF Returns
  <2>3. CASE rest # <<>>
    BY <1>4, <2>1, <2>3 DEF Returns
  <2> QED
    BY <2>2, <2>3
<1>10. CASE Other(l, rest, FALSE)
  <2>1. l.op \in {"graphics", "other"} /\ szCurrentPath' = szCurrentPath /\ batches' = rest /\ at' = "check"
    BY <1>10 DEF Other
  <2> QED
    BY <1>4, <1>5, <2>1
<1> QED
  BY <1>6, <1>7, <1>8, <1>9, <1>10 DEF CarryOut

-------------------------------------------------------------------------------
(* The order.                                                               *)

\* The calls of the console, that of the user, which is given no lines, at the
\* bottom.
Stack == Append(batches, <<>>)

\* What the console carried out is the beginning of what the user's line means,
\* and the calls are what remains of it.
InOrder ==
  /\ mode = "screen" \/ (mode = "console" /\ at = "start") => log = <<>> /\ batches = <<>>
  /\ mode = "console" /\ batches # <<>> => log # <<>>
  /\ log # <<>> => Prefix(log, Whole.does)
  /\ mode = "console" /\ log # <<>> => Remains(Stack, log, szCurrentPath, Whole)

Order == log \in Done /\ (~ioFail => InOrder)

\* What the first of the log means.
LEMMA WholeIs ==
  ASSUME log \in Done, log # <<>>
  PROVE  Whole \in Outcome /\ <<<<log[1].line>>, log[1].path, MaxDepth>> \in Calls
<1>1. log[1] \in [line : Lines, path : Seq(Name)]
  <2> DEFINE E == [line : Lines, path : Seq(Name)]
  <2> HIDE DEF E
  <2>1. log \in Seq(E)
    BY DEF Done, E
  <2>2. log[1] \in E
    BY <2>1
  <2> QED
    BY <2>2 DEF E
<1>2. <<log[1].line>> \in Seq(Lines) /\ log[1].path \in Seq(Name) /\ MaxDepth \in Nat
  BY <1>1, ConsoleAssumption
<1>3. <<<<log[1].line>>, log[1].path, MaxDepth>> \in Calls
  BY <1>2 DEF Calls
<1> QED
  BY <1>3, MeaningIs DEF Whole

\* The log begins with the line that the user types.
LEMMA TypeLineInOrder ==
  ASSUME TypeOK, Order, TypeLine
  PROVE  Order'
<1>1. In("line") /\ batches = <<>> /\ szCurrentPath \in Seq(Name) /\ mode = "console"
  BY DEF TypeLine, TypeOK, In
<1>2. PICK l \in Typed : CarryOut(l, <<>>, FALSE) /\ Logs(<<Entry(l)>>)
  BY DEF TypeLine
<1> DEFINE new == <<Entry(l)>>
           call == <<<<l>>, szCurrentPath, MaxDepth>>
           whole == Meaning[call]
<1>3. l \in Lines /\ new = Append(<<>>, Entry(l)) /\ new \in Done /\ MaxDepth \in Nat \ {0}
  <2>1. l \in Lines /\ MaxDepth \in Nat \ {0}
    BY ConsoleAssumption DEF Lines
  <2>2. Entry(l) \in [line : Lines, path : Seq(Name)]
    BY <1>1, <2>1 DEF Entry
  <2>3. new = Append(<<>>, Entry(l))
    OBVIOUS
  <2> QED
    BY <2>1, <2>2, <2>3, DoneIs
<1>4. log' = <<>> \/ (log' = new /\ mode' # "screen" /\ ~ioFail')
  BY <1>2 DEF Logs
<1>5. CASE log' = <<>>
  <2>1. ioFail' \/ mode' = "screen"
    BY <1>2, <1>5 DEF Logs
  <2>2. log' \in Done
    BY <1>5 DEF Done
  <2>3. CASE mode' = "screen" /\ ~ioFail'
    <3>1. batches' = <<>>
      BY <1>1, <1>2, <2>3 DEF CarryOut, Cd, OpenRead, Batch, Return, Returns, Other, Halted
    <3> QED
      BY <1>5, <2>2, <2>3, <3>1 DEF Order, InOrder
  <2> QED
    BY <2>1, <2>2, <2>3 DEF Order
<1>6. CASE log' = new /\ mode' # "screen" /\ ~ioFail'
  <2>1. call \in Calls
    <3>1. <<l>> \in Seq(Lines) /\ szCurrentPath \in Seq(Name) /\ MaxDepth \in Nat
      BY <1>1, <1>3
    <3> HIDE DEF new
    <3> QED
      BY <3>1 DEF Calls
  <2>2. whole \in Outcome
    BY <2>1, MeaningIs
  <2> DEFINE lines == <<l>>
             none == <<>>
  <2>3. /\ lines \in Seq(Lines) /\ lines # <<>> /\ l = lines[1] /\ Tail(lines) = <<>>
        /\ none \in Seq(Seq(Lines)) /\ Len(none) = 0
        /\ <<Tail(lines)>> \o none = Append(<<>>, <<>>)
        /\ none \in Done /\ <<>> \in Seq(Seq(Lines))
    BY <1>3 DEF Done
  <2> HIDE DEF lines
  <2>7. Remains(<<lines>> \o none, none, szCurrentPath, whole)
    <3>1. whole = Meaning[<<lines, szCurrentPath, MaxDepth - Len(none)>>] /\ Len(none) < MaxDepth
      BY <1>3, <2>3 DEF lines
    <3>2. none \o whole.does = whole.does /\ whole.does \in Done /\ whole.path \in Seq(Name)
      BY <2>2, DoneIs DEF Outcome
    <3>3. Remains(none, whole.does, whole.path, whole)
      BY <2>2, <3>2, NoneRemains
    <3> HIDE DEF whole, none
    <3>4. Remains(<<lines>> \o none, none, szCurrentPath, whole) <=>
            Remains(none, none \o whole.does, whole.path, whole)
      BY <1>1, <2>2, <2>3, <3>1, TopRemains
    <3> QED
      BY <3>2, <3>3, <3>4
  <2>4. /\ Prefix(new, whole.does)
        /\ mode' = "console" => at' # "start" /\ Remains(Stack', new, szCurrentPath', whole)
    <3> DEFINE rest == <<>>
    <3>1. CarryOut(l, rest, FALSE) /\ new = Append(none, Entry(l)) /\ rest \in Seq(Seq(Lines))
          /\ <<Tail(lines)>> \o none = Append(rest, <<>>) /\ Len(none) < MaxDepth /\ rest = <<>>
      <4>1. new = Append(none, Entry(l))
        BY <1>3
      <4>2. CarryOut(l, rest, FALSE)
        BY <1>2
      <4>3. Len(none) < MaxDepth
        <5> HIDE DEF none, new
        <5> QED
          BY <1>3, <2>3
      <4>4. <<Tail(lines)>> \o none = Append(rest, <<>>) /\ rest \in Seq(Seq(Lines)) /\ rest = <<>>
        BY <2>3, Zenon
      <4> QED
        BY <4>1, <4>2, <4>3, <4>4, Zenon
    <3> HIDE DEF whole, new, none, rest
    <3>2. ~ioFail' /\ In("line")
      BY <1>1, <1>6
    <3> QED
      BY <2>2, <2>3, <2>7, <3>1, <3>2, Carried DEF Stack
  <2>5. log' # <<>> /\ Whole' = whole
    <3>1. log'[1] = [line |-> l, path |-> szCurrentPath]
      BY <1>6 DEF Entry
    <3> QED
      BY <1>6, <3>1 DEF Whole
  <2> HIDE DEF whole
  <2>6. InOrder'
    BY <1>6, <2>4, <2>5 DEF InOrder
  <2> QED
    BY <1>3, <1>6, <2>6 DEF Order
<1> QED
  BY <1>4, <1>5, <1>6

\* A line of a batch file is the next of what the user's line means.
LEMMA BatchLineInOrder ==
  ASSUME TypeOK, Order, BatchLine
  PROVE  Order'
<1> DEFINE lines == batches[1]
           l == lines[1]
           rest == <<Tail(lines)>> \o Tail(batches)
           tail == Append(Tail(batches), <<>>)
           new == Append(log, Entry(l))
<1>1. /\ In("line") /\ batches # <<>> /\ lines # <<>> /\ szCurrentPath \in Seq(Name)
      /\ CarryOut(l, rest, FALSE) /\ Logs(new) /\ mode = "console"
      /\ log \in Done /\ ioFail \in BOOLEAN
  BY DEF BatchLine, TypeOK, In, Order
<1>2. /\ lines \in Seq(Lines) /\ Tail(batches) \in Seq(Seq(Lines)) /\ Tail(lines) \in Seq(Lines)
      /\ Len(Tail(batches)) + 1 = Len(batches) /\ Len(batches) < MaxDepth /\ MaxDepth \in Nat \ {0}
      /\ l \in Lines
  BY <1>1, ConsoleAssumption DEF TypeOK, ConsoleTypeOK, Lines
<1>3. new \in Done /\ new # <<>> /\ (log # <<>> => new[1] = log[1])
  <2> DEFINE E == [line : Lines, path : Seq(Name)]
             e == Entry(l)
  <2>0. new # <<>> /\ (log # <<>> => new[1] = log[1])
    <3> HIDE DEF E, e
    <3>1. log \in Seq(E)
      BY <1>1 DEF Done, E
    <3>2. e = Entry(l)
      BY DEF e
    <3>3. Append(log, e) # <<>> /\ (log # <<>> => Append(log, e)[1] = log[1])
      <4>1. e \in E
        BY <1>1, <1>2 DEF Entry, e, E
      <4>2. Append(log, e) # <<>> /\ Append(log, e)[Len(log) + 1] = e
        BY <3>1, <4>1
      <4>3. ASSUME log # <<>> PROVE Append(log, e)[1] = log[1]
        <5>1. 1 \in 1 .. Len(log)
          BY <3>1, <4>3
        <5> QED
          BY <3>1, <4>1, <5>1, AppendProperties
      <4> QED
        BY <4>2, <4>3
    <3> QED
      BY <3>2, <3>3
  <2>1. Entry(l) \in [line : Lines, path : Seq(Name)]
    BY <1>1, <1>2 DEF Entry
  <2> QED
    BY <1>1, <2>0, <2>1, DoneIs
<1>4. CASE ioFail'
  <2>1. log' \in Done
    BY <1>1, <1>4 DEF Logs, Done
  <2> QED
    BY <1>4, <2>1 DEF Order
<1>5. CASE ~ioFail'
  <2>1. ~ioFail
    BY <1>1, <1>5 DEF CarryOut, Cd, OpenRead, Batch, Return, Other
  <2>2. log # <<>> /\ Remains(Stack, log, szCurrentPath, Whole)
    BY <1>1, <2>1 DEF Order, InOrder
  <2>3. Whole \in Outcome
    BY <1>1, <2>2, WholeIs, SMTT(60)
  <2>4. /\ Stack = <<lines>> \o tail
        /\ tail \in Seq(Seq(Lines)) /\ Len(tail) < MaxDepth
        /\ rest \in Seq(Seq(Lines)) /\ <<Tail(lines)>> \o tail = Append(rest, <<>>)
        /\ rest # <<>> /\ Tail(rest) = Tail(batches)
    <3> DEFINE more == Tail(batches)
               front == Tail(lines)
               E == Seq(Lines)
    <3>1. lines \in E /\ front \in E /\ <<>> \in E /\ more \in Seq(E)
      BY <1>2
    <3>2. batches = <<lines>> \o more /\ Len(more) + 1 < MaxDepth
      BY <1>1, <1>2 DEF TypeOK, ConsoleTypeOK, Lines
    <3> HIDE DEF lines, front, more, E
    <3>3. /\ Append(<<lines>> \o more, <<>>) = <<lines>> \o Append(more, <<>>)
          /\ Append(more, <<>>) \in Seq(E) /\ Len(Append(more, <<>>)) = Len(more) + 1
      BY <3>1, Bottom, SMTT(60)
    <3>4. /\ Append(<<front>> \o more, <<>>) = <<front>> \o Append(more, <<>>)
          /\ <<front>> \o more \in Seq(E) /\ Tail(<<front>> \o more) = more
          /\ Len(<<front>> \o more) = Len(more) + 1 /\ Len(more) \in Nat
      BY <3>1, Bottom, SMTT(60)
    <3>5. <<front>> \o more # <<>>
      BY <3>4
    <3> QED
      BY <3>2, <3>3, <3>4, <3>5 DEF Stack, front, more, E
  <2> HIDE DEF lines, rest, tail, new
  <2>5. /\ Prefix(new, Whole.does)
        /\ mode' = "console" => at' # "start" /\ Remains(Stack', new, szCurrentPath', Whole)
    <3>1. lines \in Seq(Lines) /\ lines # <<>>
      BY <1>1, <1>2
    <3>2. new = Append(log, Entry(l))
      BY DEF new
    <3>3. rest # <<>> => tail = Append(Tail(rest), <<>>)
      BY <2>4 DEF tail
    <3>4. Remains(<<lines>> \o tail, log, szCurrentPath, Whole)
      BY <2>2, <2>4
    <3>5. CarryOut(l, rest, FALSE) /\ In("line") /\ log \in Done
      BY <1>1
    <3> QED
      BY <1>5, <2>3, <2>4, <3>1, <3>2, <3>3, <3>4, <3>5, Carried DEF Stack
  <2>6. log' = <<>> \/ (log' = new /\ mode' # "screen")
    BY <1>1 DEF Logs
  <2>7. CASE log' = <<>>
    <3>1. mode' = "screen"
      BY <1>1, <1>3, <1>5, <2>7 DEF Logs, new
    <3>2. batches' = <<>>
      BY <1>1, <2>4, <3>1 DEF CarryOut, Cd, OpenRead, Batch, Return, Returns, Other, Halted
    <3> QED
      BY <2>7, <3>1, <3>2 DEF Order, InOrder, Done
  <2>8. CASE log' = new /\ mode' # "screen"
    <3>1. log' # <<>> /\ log'[1] = log[1]
      BY <1>3, <2>2, <2>8 DEF new
    <3>2. Whole' = Whole
      BY <3>1 DEF Whole
    <3>3. InOrder'
      BY <2>5, <2>8, <3>1, <3>2 DEF InOrder
    <3> QED
      BY <1>3, <2>8, <3>3 DEF Order
  <2> QED
    BY <2>6, <2>7, <2>8
<1> QED
  BY <1>4, <1>5

\* A batch file that was read to its end means nothing more.
LEMMA CheckInOrder ==
  ASSUME TypeOK, Order, Check
  PROVE  Order'
<1>1. /\ mode = "console" /\ at = "check" /\ szCurrentPath \in Seq(Name)
      /\ UNCHANGED <<mode, FileInterface, szCurrentPath, ioFail, log>>
      /\ log \in Done
  BY DEF Check, In, shared, history, TypeOK, Order
<1>2. Whole' = Whole
  BY <1>1 DEF Whole
<1>3. CASE ioFail
  BY <1>1, <1>3 DEF Order
<1>4. CASE ~ioFail /\ batches # <<>> /\ AtBatchEnd
  <2> DEFINE more == Tail(batches)
             none == <<>>
  <2>1. batches' = more /\ at' = at /\ batches[1] = none
    BY <1>4 DEF Check, AtBatchEnd
  <2>2. log # <<>> /\ Prefix(log, Whole.does) /\ Remains(Stack, log, szCurrentPath, Whole)
    BY <1>1, <1>4 DEF Order, InOrder
  <2>3. Whole \in Outcome
    BY <1>1, <2>2, WholeIs
  <2>4. /\ none \in Seq(Lines) /\ more \in Seq(Seq(Lines)) /\ MaxDepth \in Nat \ {0}
        /\ batches = <<none>> \o more /\ Len(more) + 1 < MaxDepth /\ Len(more) \in Nat
    BY <1>4, <2>1, ConsoleAssumption DEF TypeOK, ConsoleTypeOK, Lines
  <2> DEFINE tail == Append(more, <<>>)
             depth == MaxDepth - Len(tail)
             m == Meaning[<<none, szCurrentPath, depth>>]
  <2>5. Stack = <<none>> \o tail
    <3> HIDE DEF none, more
    <3>1. Append(<<none>> \o more, <<>>) = <<none>> \o Append(more, <<>>)
      BY <2>4, OnTop, Zenon
    <3> QED
      BY <2>4, <3>1 DEF Stack
  <2>6. tail \in Seq(Seq(Lines)) /\ Len(tail) = Len(more) + 1
    <3> DEFINE E == Seq(Lines)
    <3>1. more \in Seq(E) /\ <<>> \in E
      BY <2>4
    <3> HIDE DEF more, E
    <3>2. tail \in Seq(E) /\ Len(tail) = Len(more) + 1
      BY <3>1
    <3> QED
      BY <3>2 DEF E
  <2> HIDE DEF more, tail
  <2>7. m = Nothing(szCurrentPath)
    <3>1. depth \in Nat
      BY <2>4, <2>6
    <3>2. <<none, szCurrentPath, depth>> \in Calls /\ Stops(<<none, szCurrentPath, depth>>)
      BY <1>1, <2>4, <3>1 DEF Calls, Stops
    <3> HIDE DEF none, depth
    <3> QED
      BY <3>2, MeaningIs DEF Equation
  <2> HIDE DEF none, m
  <2>8. m.does = <<>> /\ m.path = szCurrentPath /\ log \o <<>> = log
    BY <1>1, <2>7, DoneIs DEF Nothing
  <2>9. Remains(tail, log, szCurrentPath, Whole)
    <3>1. Remains(<<none>> \o tail, log, szCurrentPath, Whole)
      BY <2>2, <2>5
    <3>2. Len(tail) < MaxDepth /\ m = Meaning[<<none, szCurrentPath, MaxDepth - Len(tail)>>]
      BY <2>4, <2>6 DEF m
    <3>3. Remains(<<none>> \o tail, log, szCurrentPath, Whole) <=>
            Remains(tail, log \o m.does, m.path, Whole)
      BY <1>1, <2>3, <2>4, <2>6, <3>2, TopRemains
    <3> QED
      BY <2>8, <3>1, <3>3
  <2>10. Stack' = tail
    BY <2>1 DEF Stack, tail
  <2> QED
    BY <1>1, <1>2, <1>4, <2>1, <2>2, <2>9, <2>10 DEF Order, InOrder
<1>5. CASE ~ioFail /\ ~(batches # <<>> /\ AtBatchEnd)
  <2>1. batches' = batches /\ at' = "line"
    BY <1>5 DEF Check
  <2>2. Stack' = Stack
    BY <2>1 DEF Stack
  <2> QED
    BY <1>1, <1>2, <1>5, <2>1, <2>2 DEF Order, InOrder
<1> QED
  BY <1>3, <1>4, <1>5

\* A step of the console keeps the order.
LEMMA ConsoleInOrder ==
  ASSUME TypeOK, Order, Shell
  PROVE  Order'
<1>1. CASE StartConsole
  <2>1. mode = "console" /\ at = "start" /\ UNCHANGED <<mode, ioFail, batches, log>> /\ at' = "line"
    BY <1>1 DEF StartConsole, In, history
  <2> QED
    BY <2>1 DEF Order, InOrder
<1>2. CASE NoLine
  <2>1. mode = "console" /\ at = "line" /\ UNCHANGED <<mode, szCurrentPath, ioFail, batches, log>> /\ at' = "check"
    BY <1>2 DEF NoLine, In, shared, history
  <2>2. Whole' = Whole /\ Stack' = Stack
    BY <2>1 DEF Whole, Stack
  <2> QED
    BY <2>1, <2>2 DEF Order, InOrder
<1>3. CASE CutLine
  <2>1. ioFail' /\ log' = <<>>
    BY <1>3 DEF CutLine, CarryOut, Cd, OpenRead, Batch, Return, Other, Logs
  <2> QED
    BY <2>1 DEF Order, Done
<1> QED
  BY <1>1, <1>2, <1>3, TypeLineInOrder, BatchLineInOrder, CheckInOrder DEF Shell, ConsoleStep, BatchStep

\* While the screen runs the console has nothing to carry out.
LEMMA ScreenInOrder ==
  ASSUME Apart', Order, Screen
  PROVE  Order'
<1>1. mode = "screen" /\ UNCHANGED <<at, batches, log>>
  BY ScreenCases DEF Screen, console
<1>2. ioFail => ioFail'
  BY ScreenCases DEF StartScreen, DrawPage, DrawExplorer, ListEntry, ListEnd, ListEndFails, DrawViewer,
                     PageKey, Leave, EnterVolume, EnterEntry, ArrowKey, OtherKey, shared, history
<1>3. ~ioFail' => log = <<>> /\ batches = <<>>
  BY <1>1, <1>2 DEF Order, InOrder
<1> QED
  BY <1>1, <1>3 DEF Order, InOrder

\* Every step keeps the order.
LEMMA KeepsOrder ==
  ASSUME IInv, IInv', Order, [Next]_vars
  PROVE  Order'
<1>1. CASE Screen
  BY <1>1, ScreenInOrder DEF IInv
<1>2. CASE Shell
  BY <1>2, ConsoleInOrder DEF IInv
<1>3. CASE UNCHANGED vars
  <2>1. UNCHANGED <<mode, szCurrentPath, ioFail, at, batches, log>>
    BY <1>3 DEF vars, shared, history, console
  <2>2. Whole' = Whole /\ Stack' = Stack
    BY <2>1 DEF Whole, Stack
  <2> QED
    BY <2>1, <2>2 DEF Order, InOrder
<1> QED
  BY <1>1, <1>2, <1>3 DEF Next, Stopped

\* A beginning is the sequence up to its length.
LEMMA PrefixIs ==
  ASSUME NEW s \in Done, NEW t, Prefix(s, t)
  PROVE  Len(s) <= Len(t) /\ s = SubSeq(t, 1, Len(s))
<1> DEFINE E == [line : Lines, path : Seq(Name)]
<1>1. PICK more \in Done : t = s \o more
  BY DEF Prefix
<1>2. s \in Seq(E) /\ more \in Seq(E)
  BY DEF Done
<1> HIDE DEF E
<1>3. /\ Len(s) \in Nat /\ Len(more) \in Nat /\ Len(t) = Len(s) + Len(more) /\ t \in Seq(E)
      /\ \A k \in 1 .. Len(s) : t[k] = s[k]
  BY <1>1, <1>2
<1>4. Len(s) <= Len(t)
  BY <1>3
<1>5. s = SubSeq(t, 1, Len(s))
  BY <1>2, <1>3, <1>4
<1> QED
  BY <1>4, <1>5

\* The order is that of the meaning.
LEMMA OrderMeans ==
  ASSUME TypeOK, Order
  PROVE  BatchInOrder
<1> SUFFICES ASSUME log # <<>>, ~ioFail
             PROVE  /\ Len(log) <= Len(Whole.does)
                    /\ log = SubSeq(Whole.does, 1, Len(log))
                    /\ In("line") /\ batches = <<>> => log = Whole.does /\ szCurrentPath = Whole.path
  BY DEF BatchInOrder
<1>1. /\ log \in Done /\ Prefix(log, Whole.does)
      /\ mode = "console" => Remains(Stack, log, szCurrentPath, Whole)
  BY DEF Order, InOrder
<1>2. Whole \in Outcome
  BY <1>1, WholeIs
<1>3. ASSUME In("line"), batches = <<>> PROVE log = Whole.does /\ szCurrentPath = Whole.path
  <2> DEFINE none == <<>>
             calls == <<>>
             m == Meaning[<<none, szCurrentPath, MaxDepth - Len(calls)>>]
  <2>1. szCurrentPath \in Seq(Name) /\ MaxDepth \in Nat \ {0} /\ mode = "console"
    BY <1>3, ConsoleAssumption DEF TypeOK, In
  <2>2. none \in Seq(Lines) /\ calls \in Seq(Seq(Lines)) /\ Len(calls) = 0 /\ Stack = <<none>> \o calls
    BY <1>3 DEF Stack
  <2>3. m = Nothing(szCurrentPath)
    <3>1. MaxDepth - Len(calls) \in Nat
      BY <2>1
    <3>2. <<none, szCurrentPath, MaxDepth - Len(calls)>> \in Calls /\ Stops(<<none, szCurrentPath, MaxDepth - Len(calls)>>)
      BY <2>1, <2>2, <3>1 DEF Calls, Stops
    <3> HIDE DEF none, calls
    <3> QED
      BY <3>2, MeaningIs DEF Equation
  <2> HIDE DEF m, none
  <2>4. m.does = <<>> /\ m.path = szCurrentPath /\ log \o <<>> = log
    BY <1>1, <2>3, DoneIs DEF Nothing
  <2>5. Remains(calls, log, szCurrentPath, Whole)
    <3> HIDE DEF calls
    <3>1. Len(calls) < MaxDepth /\ m = Meaning[<<none, szCurrentPath, MaxDepth - Len(calls)>>]
      BY <2>1, <2>2 DEF m
    <3>2. Remains(<<none>> \o calls, log, szCurrentPath, Whole) <=> Remains(calls, log \o m.does, m.path, Whole)
      BY <1>1, <1>2, <2>1, <2>2, <3>1, TopRemains
    <3> QED
      BY <1>1, <2>1, <2>2, <2>4, <3>2
  <2> QED
    BY <1>1, <1>2, <2>1, <2>5, NoneRemains
<1> QED
  BY <1>1, <1>3, PrefixIs

\* As long as nothing failed, the console carries out what the user's line means,
\* whatever batch files call each other, to any depth.
THEOREM BatchesInOrder == Spec => []BatchInOrder
<1>1. Init => Order
  BY DEF Init, InitVolumes, InitConsole, Order, InOrder, Done
<1>2. IInv /\ Order => BatchInOrder
  BY OrderMeans DEF IInv
<1>3. IInv /\ IInv' /\ Order /\ [Next]_vars => Order'
  BY KeepsOrder
<1> QED
  BY Invariance, <1>1, <1>2, <1>3, PTL DEF Spec
===============================================================================
