------------------------------- MODULE Explorer -------------------------------
(***************************************************************************)
(* Screen mode of LavoroL (src/main.cpp, ScreenMode): four pages, chosen   *)
(* with F1 (help), F2 (explorer), F3 (viewer) and F10 (readme); in the     *)
(* explorer the arrow keys move over the entries of a folder or over the   *)
(* volumes, and Enter opens one.  A loop draws the page that is not drawn  *)
(* yet, waits for a key and acts on it.                                    *)
(*                                                                         *)
(* Reading the directory is a loop of its own: each entry is put into the  *)
(* arrays ExplorerNames and ExplorerTypes, a failed read is repeated.  An  *)
(* index outside the arrays and a handle that is NULL halt the model.      *)
(*                                                                         *)
(* Operators with a name in _Bug are wrong versions of the one that        *)
(* follows them, for checking that the properties notice.                  *)
(***************************************************************************)
EXTENDS Volumes

CONSTANTS
  MaxEntries,  \* length of ExplorerNames and ExplorerTypes (64 in the code)
  Row,         \* Explorer.W / file.W
  Junk         \* what a name holds that was never written

ASSUME ExplorerAssumption ==
  /\ MaxEntries \in Nat \ {0}
  /\ Row \in Nat \ {0}
  /\ Disks <= MaxEntries
  /\ Junk \notin Names

VARIABLES
  pc,                   \* where the loop is: start, draw, list, key
  ActivePageIndex,      \* 0 help, 1 explorer, 2 viewer, 3 readme
  ActivePageDrawn,
  ExplorerActiveIndex,
  ExplorerCount,
  ExplorerNames,
  ExplorerTypes,        \* TRUE for a folder or a volume
  viewer                \* the file the viewer shows, or NULL

entries == <<ExplorerCount, ExplorerNames, ExplorerTypes>>
locals == <<ActivePageIndex, ActivePageDrawn, ExplorerActiveIndex, entries, viewer>>
explorer == <<pc, locals>>

Index == 0 .. MaxEntries - 1

\* What ExplorerNames holds: names, the numbers of volumes, and what lies in
\* memory.  An entry off the list can bring any of them into a path.
Name == Names \cup Disk \cup {Junk}

\* The locals of ScreenMode before its loop.
FreshLocals(index, drawn, active, count, names, types, view) ==
  /\ index = 0 /\ drawn = FALSE
  /\ active = 0 /\ count = 0
  /\ names = [k \in Index |-> Junk]
  /\ types = [k \in Index |-> FALSE]
  /\ view = NULL

InitExplorer ==
  /\ pc = "start"
  /\ FreshLocals(ActivePageIndex, ActivePageDrawn, ExplorerActiveIndex,
                 ExplorerCount, ExplorerNames, ExplorerTypes, viewer)

On(place) == mode = "screen" /\ pc = place

-------------------------------------------------------------------------------
(* Drawing.                                                                 *)

\* ScreenMode is entered: it loads its pictures and texts from the volume of
\* the assets, then puts no volume in use.
StartScreen ==
  /\ On("start")
  /\ \/ pc' = "draw" /\ FileInterface' = NULL /\ UNCHANGED <<mode, ioFail>>
     \/ Halted /\ ioFail' = TRUE /\ UNCHANGED <<pc, FileInterface>>
  /\ UNCHANGED <<szCurrentPath, stale, moved, locals>>

\* Help and Readme, and any page that is drawn already.
DrawPage ==
  /\ On("draw")
  /\ ActivePageDrawn \/ ActivePageIndex \in {0, 3}
  /\ ActivePageDrawn' = TRUE
  /\ pc' = "key"
  /\ UNCHANGED <<shared, ActivePageIndex, ExplorerActiveIndex, entries, viewer>>

\* The explorer starts its list and opens the folder, if a volume is in use.
DrawExplorer ==
  /\ On("draw")
  /\ ActivePageIndex = 1 /\ ~ActivePageDrawn
  /\ ExplorerCount' = 0
  /\ \/ /\ FileInterface # NULL => IsFolder(FileInterface, szCurrentPath)
        /\ pc' = "list"
        /\ UNCHANGED <<mode, ioFail>>
     \/ /\ FileInterface # NULL
        /\ Halted
        /\ ioFail' = (ioFail \/ IsFolder(FileInterface, szCurrentPath))
        /\ UNCHANGED pc
  /\ UNCHANGED <<FileInterface, szCurrentPath, stale, moved, ActivePageIndex,
                 ActivePageDrawn, ExplorerActiveIndex, ExplorerNames, ExplorerTypes, viewer>>

\* What the loop goes over: the numbers of the volumes, or the folder.
Shown ==
  IF FileInterface = NULL
  THEN [k \in 1 .. Disks |-> [name |-> k - 1, folder |-> TRUE]]
  ELSE Listing[FileInterface, szCurrentPath]

\* Writes every entry over the one before it.
Slot_Bug == 0

\* The element of the arrays that takes the next entry.
Slot == ExplorerCount

\* The next entry is read.  One that is too long for the buffer and one that
\* cannot be read are tried for ever; the arrays have MaxEntries elements.
ListEntry ==
  /\ On("list")
  /\ ExplorerCount < Len(Shown)
  /\ LET entry == Shown[ExplorerCount + 1]
     IN  \/ /\ entry.name \notin LongName
            /\ ExplorerCount < MaxEntries
            /\ ExplorerNames' = [ExplorerNames EXCEPT ![Slot] = entry.name]
            /\ ExplorerTypes' = [ExplorerTypes EXCEPT ![Slot] = entry.folder]
            /\ ExplorerCount' = ExplorerCount + 1
            /\ UNCHANGED <<mode, ioFail>>
         \/ /\ entry.name \notin LongName
            /\ ExplorerCount = MaxEntries
            /\ Halted
            /\ UNCHANGED <<ioFail, entries>>
         \/ /\ FileInterface # NULL
            /\ mode' = "reading"
            /\ ioFail' = (ioFail \/ entry.name \notin LongName)
            /\ UNCHANGED entries
  /\ UNCHANGED <<FileInterface, szCurrentPath, stale, moved, pc, ActivePageIndex,
                 ActivePageDrawn, ExplorerActiveIndex, viewer>>

Corrected == IF ExplorerCount < ExplorerActiveIndex THEN 0 ELSE ExplorerActiveIndex

\* A read returned nothing, or there are no more volumes.
AtListEnd == ExplorerCount = Len(Shown)

ListEnd ==
  /\ On("list")
  /\ AtListEnd
  /\ ExplorerActiveIndex' = Corrected
  /\ ActivePageDrawn' = TRUE
  /\ pc' = "key"
  /\ UNCHANGED <<shared, ActivePageIndex, entries, viewer>>

\* The read that finds the end of the folder can fail, too, and is repeated
\* like any other.
ListEndFails ==
  /\ On("list")
  /\ AtListEnd
  /\ FileInterface # NULL
  /\ mode' = "reading"
  /\ ioFail' = TRUE
  /\ UNCHANGED <<FileInterface, szCurrentPath, stale, moved, explorer>>

\* The active index does not name an entry of the list.
OffList == ExplorerActiveIndex \notin 0 .. ExplorerCount - 1

\* Opens folders as files.
KeepsViewer_Bug == FileInterface = NULL

\* The viewer leaves what it shows: no volume is in use, or the active entry is
\* a folder, or the byte before the array happens to say so.
KeepsViewer ==
  FileInterface # NULL /\ ExplorerActiveIndex \in Index =>
    ExplorerTypes[ExplorerActiveIndex]

\* The viewer opens the active entry in the current folder.
OpensFile == FileInterface # NULL /\ (ExplorerActiveIndex \in Index => ~KeepsViewer)

Opened == <<FileInterface, szCurrentPath, ExplorerNames[ExplorerActiveIndex]>>

Openable ==
  /\ ExplorerActiveIndex \in Index
  /\ IsFile(FileInterface, szCurrentPath, ExplorerNames[ExplorerActiveIndex])

\* The viewer page; a file that cannot be opened is read all the same.
DrawViewer ==
  /\ On("draw")
  /\ ActivePageIndex = 2 /\ ~ActivePageDrawn
  /\ stale' = (stale \/ (FileInterface # NULL /\ OffList))
  /\ \/ /\ KeepsViewer
        /\ ActivePageDrawn' = TRUE /\ pc' = "key"
        /\ UNCHANGED <<mode, ioFail, viewer>>
     \/ /\ OpensFile /\ Openable
        /\ viewer' = Opened
        /\ ActivePageDrawn' = TRUE /\ pc' = "key"
        /\ UNCHANGED <<mode, ioFail>>
     \/ /\ OpensFile
        /\ Halted
        /\ ioFail' = (ioFail \/ Openable)
        /\ UNCHANGED <<viewer, ActivePageDrawn, pc>>
  /\ UNCHANGED <<FileInterface, szCurrentPath, moved, ActivePageIndex,
                 ExplorerActiveIndex, entries>>

-------------------------------------------------------------------------------
(* Keys.                                                                    *)

\* F2 pressed in the explorer goes back to the volumes.
UsesVolume(index) ==
  IF index = 1 /\ ActivePageIndex = 1 THEN NULL ELSE FileInterface

\* Keeps the viewer as it was drawn before.
StaysDrawn_Bug(index) == ActivePageIndex = index \/ (index = 2 /\ viewer # NULL)

\* The key of the page that is shown, but F2 always lists anew.
StaysDrawn(index) == ActivePageIndex = index /\ index # 1

\* F1, F2, F3 and F10.
PageKey(index) ==
  /\ On("key")
  /\ ActivePageIndex' = index
  /\ ActivePageDrawn' = StaysDrawn(index)
  /\ FileInterface' = UsesVolume(index)
  /\ pc' = "draw"
  /\ UNCHANGED <<mode, szCurrentPath, history, ExplorerActiveIndex, entries, viewer>>

\* Escape ends ScreenMode with true, F12 with false.
Leave(next) ==
  /\ On("key")
  /\ mode' = next
  /\ pc' = "start"
  /\ FreshLocals(ActivePageIndex', ActivePageDrawn', ExplorerActiveIndex',
                 ExplorerCount', ExplorerNames', ExplorerTypes', viewer')
  /\ UNCHANGED <<FileInterface, szCurrentPath, history>>

\* Enter on a volume; off the list, Atoi makes some number of some old name.
EnterVolume ==
  /\ On("key") /\ ActivePageIndex = 1 /\ FileInterface = NULL
  /\ stale' = (stale \/ OffList)
  /\ \/ /\ FileInterface' \in (IF OffList THEN Disk ELSE {ExplorerNames[ExplorerActiveIndex]})
        /\ szCurrentPath' = <<>>
        /\ moved' = FALSE
        /\ ActivePageDrawn' = FALSE
        /\ pc' = "draw"
        /\ UNCHANGED mode
     \/ /\ OffList
        /\ Halted
        /\ UNCHANGED <<FileInterface, szCurrentPath, moved, ActivePageDrawn, pc>>
  /\ UNCHANGED <<ioFail, ActivePageIndex, ExplorerActiveIndex, entries, viewer>>

\* The folder replaces the current path.
Below_Bug(name) == <<name>>

\* The folder is appended to the current path.
Below(name) == Append(szCurrentPath, name)

\* Enter on an entry of the folder: a folder becomes the current one, a file is
\* shown.  Before the array lies anything.
EnterEntry ==
  /\ On("key") /\ ActivePageIndex = 1 /\ FileInterface # NULL
  /\ stale' = (stale \/ OffList)
  /\ \/ /\ ExplorerActiveIndex \in Index /\ ExplorerTypes[ExplorerActiveIndex]
        /\ szCurrentPath' = Below(ExplorerNames[ExplorerActiveIndex])
        /\ ActivePageDrawn' = FALSE
        /\ pc' = "draw"
        /\ UNCHANGED <<mode, ActivePageIndex>>
     \/ /\ ExplorerActiveIndex \in Index => ~ExplorerTypes[ExplorerActiveIndex]
        /\ ActivePageDrawn' = FALSE
        /\ ActivePageIndex' = 2
        /\ pc' = "draw"
        /\ UNCHANGED <<mode, szCurrentPath>>
     \/ /\ ExplorerActiveIndex \notin Index
        /\ Halted
        /\ UNCHANGED <<szCurrentPath, ActivePageIndex, ActivePageDrawn, pc>>
  /\ UNCHANGED <<FileInterface, ioFail, moved, ExplorerActiveIndex, entries, viewer>>

\* Down and Right clamp to the count.
Moved_Bug(step) ==
  LET to == ExplorerActiveIndex + step
  IN  IF step < 0 THEN (IF to < 0 THEN 0 ELSE to)
      ELSE (IF to > ExplorerCount THEN ExplorerCount ELSE to)

\* Up and Left stop at the first entry, Down and Right at the last one, which
\* is number -1 in an empty folder.
Moved(step) ==
  LET to == ExplorerActiveIndex + step
  IN  IF step < 0 THEN (IF to < 0 THEN 0 ELSE to)
      ELSE (IF to >= ExplorerCount THEN ExplorerCount - 1 ELSE to)

ArrowKey(step) ==
  /\ On("key") /\ ActivePageIndex = 1
  /\ ExplorerActiveIndex' = Moved(step)
  /\ ActivePageDrawn' = FALSE
  /\ pc' = "draw"
  /\ UNCHANGED <<shared, ActivePageIndex, entries, viewer>>

\* Any other key, and these keys on the other pages.
OtherKey ==
  /\ On("key")
  /\ pc' = "draw"
  /\ UNCHANGED <<shared, locals>>

Draw ==
  \/ StartScreen \/ DrawPage \/ DrawExplorer
  \/ ListEntry \/ ListEnd \/ ListEndFails
  \/ DrawViewer

Key ==
  \/ \E index \in 0 .. 3 : PageKey(index)
  \/ \E next \in {"console", "off"} : Leave(next)
  \/ EnterVolume
  \/ EnterEntry
  \/ \E step \in {-Row, -1, 1, Row} : ArrowKey(step)
  \/ OtherKey

ScreenStep == Draw \/ Key

-------------------------------------------------------------------------------
(* Properties.                                                              *)

ExplorerTypeOK ==
  /\ pc \in {"start", "draw", "list", "key"}
  /\ ActivePageIndex \in 0 .. 3
  /\ ActivePageDrawn \in BOOLEAN
  /\ ExplorerActiveIndex \in -1 .. MaxEntries - 1
  /\ ExplorerCount \in 0 .. MaxEntries
  /\ ExplorerNames \in [Index -> Name]
  /\ ExplorerTypes \in [Index -> BOOLEAN]

\* While the explorer waits for a key with a volume in use, on whatever page,
\* its arrays hold the current folder of that volume: F3 and Enter take names
\* from them that are looked up there.
ListIsFolder ==
  On("key") /\ FileInterface # NULL =>
    /\ ExplorerCount = Len(Shown)
    /\ \A k \in 1 .. ExplorerCount :
         Shown[k] = [name |-> ExplorerNames[k - 1], folder |-> ExplorerTypes[k - 1]]

\* As long as no entry off the list was used, the current path is a folder of
\* the volume in use, whatever was entered, left and switched before.
PathExists ==
  mode = "screen" /\ pc # "start" /\ FileInterface # NULL /\ ~stale =>
    IsFolder(FileInterface, szCurrentPath)

\* A file, not a folder or a volume, is active in the explorer.
ActiveFile ==
  FileInterface # NULL /\ ~OffList /\ ~ExplorerTypes[ExplorerActiveIndex]

\* When a file is active in the explorer, the viewer page shows that file and
\* not one shown before.  With a folder active or no volume in use the code
\* draws again what it drew last, so an earlier file stays on the page, also one
\* of another folder or volume; all that holds then is that it is a file of a
\* volume, or nothing yet.  As long as no entry off the list was used.
ShowsActive ==
  On("key") /\ ActivePageIndex = 2 /\ ~stale =>
    IF ActiveFile
    THEN viewer = Opened
    ELSE viewer = NULL \/ IsFile(viewer[1], viewer[2], viewer[3])
===============================================================================
