-------------------------------- MODULE Desktop -------------------------------
(***************************************************************************)
(* The main loop of LavoroL (src/main.cpp, efi_main): the screen and the   *)
(* console by turns, until one of them returns false.  Composes Explorer   *)
(* and Console over the volume and the path they share.                    *)
(***************************************************************************)
EXTENDS Explorer, Console

vars == <<shared, explorer, console>>

Init == InitVolumes /\ InitExplorer /\ InitConsole

\* The locals of the mode that does not run do not change.
Screen == ScreenStep /\ UNCHANGED console
Shell == ConsoleStep /\ UNCHANGED explorer

\* The program has ended, or hangs.
Stopped == mode \in {"off", "halted", "reading"} /\ UNCHANGED vars

Next == Screen \/ Shell \/ Stopped

\* The screen draws and batch files are carried out without the user; the user
\* owes nothing.
Spec ==
  /\ Init /\ [][Next]_vars
  /\ WF_vars(Draw /\ UNCHANGED console)
  /\ WF_vars(BatchStep /\ UNCHANGED explorer)

-------------------------------------------------------------------------------
TypeOK ==
  /\ mode \in Modes
  /\ FileInterface \in Disk \cup {NULL}
  /\ szCurrentPath \in Seq(Name)
  /\ ioFail \in BOOLEAN /\ stale \in BOOLEAN /\ moved \in BOOLEAN
  /\ ExplorerTypeOK
  /\ ConsoleTypeOK

\* The program waits for a key or for a line.
Waits == On("key") \/ (In("line") /\ batches = <<>>)

\* The screen halts, or reads for ever, only after a failure of the firmware or
\* the use of an entry off the list, or in a folder with more entries than the
\* arrays or with a name longer than the buffer.
ScreenFailsOnlyBy ==
  mode \in {"halted", "reading"} /\ pc # "start" =>
    \/ ioFail \/ stale
    \/ mode = "halted" /\ ExplorerCount = MaxEntries /\ Len(Shown) > MaxEntries
    \/ mode = "reading" /\ HasLongName(FileInterface, szCurrentPath)

\* Whatever the user did, the program comes back to wait for him, or ends: every
\* folder is listed to its end and every batch file carried out to its end, nested
\* or calling itself.
ComesBack == []<>(Waits \/ mode \in {"off", "halted", "reading"})
===============================================================================
