-------------------------------- MODULE Volumes -------------------------------
(***************************************************************************)
(* What the screen and the console of LavoroL share: the volumes found at  *)
(* start-up (src/src/lfs.cpp), the one in use and the current path on it,  *)
(* and which of the two modes efi_main (src/main.cpp) is in.               *)
(***************************************************************************)
EXTENDS Integers, Sequences

CONSTANTS
  Disks,      \* FileInterfacesCount; a volume is a number below it
  Assets,     \* the volume that holds \assets
  Listing,    \* external: the entries of each folder, a function of <<volume, path>>
  LongName,   \* names whose EFI_FILE_INFO does not fit into the buffer of a read
  MaxPath,    \* bound: no relative path is typed behind a current path this long
  NULL        \* no volume

Disk == 0 .. Disks - 1

\* A path is the sequence of its names, the root is the empty one.
Names == UNION {{Listing[at][k].name : k \in DOMAIN Listing[at]} : at \in DOMAIN Listing}

\* A volume has a root, and a folder that is an entry has a list of its own.
ASSUME VolumesAssumption ==
  /\ Disks \in Nat \ {0}
  /\ Assets \in Disk
  /\ MaxPath \in Nat
  /\ NULL \notin Disk
  /\ \A at \in DOMAIN Listing :
       /\ at \in Disk \X Seq(Names)
       /\ Listing[at] \in Seq([name : Names, folder : BOOLEAN])
       /\ \A k \in DOMAIN Listing[at] :
            Listing[at][k].folder =>
              <<at[1], Append(at[2], Listing[at][k].name)>> \in DOMAIN Listing
  /\ \A d \in Disk : <<d, <<>>>> \in DOMAIN Listing

VARIABLES
  mode,           \* what efi_main runs: the screen, the console, or nothing any more
  FileInterface,  \* the volume in use, or NULL
  szCurrentPath,  \* the current path
  ioFail,         \* history: opening a file failed that is there
  stale,          \* history: an entry was used that the list does not show
  moved           \* history: the current path was chosen with cd

history == <<ioFail, stale, moved>>
shared == <<mode, FileInterface, szCurrentPath, history>>

\* "reading" is a loop that reads the same directory entry again and again.
Modes == {"screen", "console", "off", "halted", "reading"}

\* There is a folder at path on volume d.
IsFolder(d, path) == <<d, path>> \in DOMAIN Listing

\* There is a file called name in the folder at path.
IsFile(d, path, name) ==
  IsFolder(d, path) /\ \E k \in DOMAIN Listing[d, path] :
    Listing[d, path][k] = [name |-> name, folder |-> FALSE]

\* An entry of the folder at path can never be read.
HasLongName(d, path) ==
  IsFolder(d, path) /\ \E k \in DOMAIN Listing[d, path] :
    Listing[d, path][k].name \in LongName

\* Start-up tries every volume for \assets and leaves none in use.
InitVolumes ==
  /\ mode = "screen"
  /\ FileInterface = NULL
  /\ szCurrentPath = <<>>
  /\ ioFail = FALSE
  /\ stale = FALSE
  /\ moved = FALSE

Halted == mode' = "halted"
===============================================================================
