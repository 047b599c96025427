-------------------------------- MODULE Console -------------------------------
(***************************************************************************)
(* Console mode of LavoroL (src/main.cpp, ConsoleMode): a loop that takes  *)
(* a line from the user, or from a batch file when it was called with the  *)
(* name of one, and carries it out.  The command batch calls ConsoleMode   *)
(* again, so that the calls form a stack: the user's call at the bottom,   *)
(* the batch file being read on top.  All calls share szLine, szPath and   *)
(* szCurrentPath.                                                          *)
(*                                                                         *)
(* What the file and network commands do to files and sockets is left to   *)
(* ShellFiles and LSocket; here they are lines that change nothing.        *)
(***************************************************************************)
EXTENDS Volumes

CONSTANTS
  Typed,       \* lines a user may type
  Batches,     \* external: the lines of each batch file on Assets, by path
  MaxDepth     \* calls of ConsoleMode that the stack has room for

\* A line is a command and, for some, a path, absolute or not.
Ops == {"cd", "ls", "cat", "batch", "quit", "end", "graphics", "other"}

Line(op) == [op |-> op, absolute |-> TRUE, names |-> <<>>]

BatchLines == UNION {{Batches[p][k] : k \in DOMAIN Batches[p]} : p \in DOMAIN Batches}

ASSUME ConsoleAssumption ==
  /\ MaxDepth \in Nat \ {0}
  /\ \A l \in Typed \cup BatchLines :
       l.op \in Ops /\ l.absolute \in BOOLEAN /\ l.names \in Seq(Names)
  /\ \A p \in DOMAIN Batches : Batches[p] \in Seq(BatchLines)
  /\ Line("other") \in Typed

VARIABLES
  at,       \* where ConsoleMode is: start, line, check
  batches,  \* the lines left to each nested call, the innermost first
  log       \* history: what this console carried out since the user typed a
            \* line, each line with the current path it was carried out in

console == <<at, batches, log>>

InitConsole == at = "start" /\ batches = <<>> /\ log = <<>>

In(place) == mode = "console" /\ at = place

\* szPath: the path of a command, appended to the current one or absolute.
Target(l) == IF l.absolute THEN l.names ELSE szCurrentPath \o l.names

\* There is a folder or a file at path on the volume in use.
Exists(path) ==
  \/ IsFolder(FileInterface, path)
  \/ /\ path # <<>>
     /\ IsFile(FileInterface, SubSeq(path, 1, Len(path) - 1), path[Len(path)])

\* A folder and a file that is no batch file give no line that is a command.
Content(path) == IF path \in DOMAIN Batches THEN Batches[path] ELSE <<>>

-------------------------------------------------------------------------------
\* The user's call of ConsoleMode.
StartConsole ==
  /\ In("start")
  /\ FileInterface' = Assets
  /\ at' = "line"
  /\ UNCHANGED <<mode, szCurrentPath, history, batches, log>>

\* cd in a batch file has no effect.
AfterCd_Bug(l) == IF batches = <<>> THEN Target(l) ELSE szCurrentPath

\* The new current path; nothing looks whether it exists.
AfterCd(l) == Target(l)

\* Commands; rest is what is left to the calls when the line is taken, failed
\* says that reading the line failed.
Cd(l, rest, failed) ==
  /\ l.op = "cd"
  /\ szCurrentPath' = AfterCd(l)
  /\ moved' = TRUE
  /\ batches' = rest /\ at' = "check"
  /\ ioFail' = (ioFail \/ failed)
  /\ UNCHANGED <<mode, FileInterface, stale>>

\* ls and cat open a path and read it; an entry too long for the buffer of ls,
\* and one that cannot be read, are tried for ever.
OpenRead(l, rest, failed) ==
  /\ l.op \in {"ls", "cat"}
  /\ LET path == IF l.op = "ls" THEN szCurrentPath ELSE Target(l)
     IN  \/ /\ Exists(path)
            /\ l.op = "ls" => ~HasLongName(FileInterface, path)
            /\ batches' = rest /\ at' = "check"
            /\ ioFail' = (ioFail \/ failed)
            /\ UNCHANGED mode
         \/ /\ Halted
            /\ ioFail' = (ioFail \/ failed \/ Exists(path))
            /\ UNCHANGED <<batches, at>>
         \/ /\ l.op = "ls" /\ Exists(path)
            /\ mode' = "reading"
            /\ ioFail' = (ioFail \/ failed \/ ~HasLongName(FileInterface, path))
            /\ UNCHANGED <<batches, at>>
  /\ UNCHANGED <<FileInterface, szCurrentPath, stale, moved>>

\* batch calls ConsoleMode; a file that is not there is read all the same.
Batch(l, rest, failed) ==
  /\ l.op = "batch"
  /\ \/ /\ Exists(Target(l)) /\ Len(rest) + 1 < MaxDepth
        /\ batches' = <<Content(Target(l))>> \o rest
        /\ at' = "line"
        /\ ioFail' = (ioFail \/ failed)
        /\ UNCHANGED mode
     \/ /\ Halted
        /\ ioFail' = (ioFail \/ failed \/ (Exists(Target(l)) /\ Len(rest) + 1 < MaxDepth))
        /\ UNCHANGED <<batches, at>>
  /\ UNCHANGED <<FileInterface, szCurrentPath, stale, moved>>

\* Where a call that returns a value goes: the batch command ignores it, and
\* efi_main does not.
Returns(value, rest) ==
  IF rest = <<>>
  THEN /\ mode' = (IF value THEN "screen" ELSE "off")
       /\ at' = "start" /\ batches' = <<>>
  ELSE /\ at' = "check" /\ batches' = Tail(rest)
       /\ UNCHANGED mode

\* quit returns false, end and a missing graphics protocol (filldemo, printmodes)
\* true; otherwise the two draw or print something.
Return(l, rest, failed) ==
  /\ l.op \in {"quit", "end", "graphics"}
  /\ Returns(l.op # "quit", rest)
  /\ ioFail' = (ioFail \/ failed \/ l.op = "graphics")
  /\ UNCHANGED <<FileInterface, szCurrentPath, stale, moved>>

Other(l, rest, failed) ==
  /\ l.op \in {"graphics", "other"}
  /\ batches' = rest /\ at' = "check"
  /\ ioFail' = (ioFail \/ failed)
  /\ UNCHANGED <<mode, FileInterface, szCurrentPath, stale, moved>>

CarryOut(l, rest, failed) ==
  \/ Cd(l, rest, failed)
  \/ OpenRead(l, rest, failed)
  \/ Batch(l, rest, failed)
  \/ Return(l, rest, failed)
  \/ Other(l, rest, failed)

\* The log is given up when the console is left or something failed.
Logs(new) == log' = (IF mode' = "screen" \/ ioFail' THEN <<>> ELSE new)

Entry(l) == [line |-> l, path |-> szCurrentPath]

\* The user types a line at the prompt.
TypeLine ==
  /\ In("line") /\ batches = <<>>
  /\ \E l \in Typed :
       /\ l.op = "batch" \/ ~l.absolute => Len(szCurrentPath) < MaxPath
       /\ CarryOut(l, <<>>, FALSE)
       /\ Logs(<<Entry(l)>>)

\* The next line of the batch file.
BatchLine ==
  /\ In("line") /\ batches # <<>> /\ batches[1] # <<>>
  /\ CarryOut(batches[1][1], <<Tail(batches[1])>> \o Tail(batches), FALSE)
  /\ Logs(Append(log, Entry(batches[1][1])))

\* At the end of the file, which an empty one is at from the start, ReadLine
\* gives a line that is no command.
NoLine ==
  /\ In("line") /\ batches # <<>> /\ batches[1] = <<>>
  /\ at' = "check"
  /\ UNCHANGED <<shared, batches, log>>

\* Reading it fails: the reader is at its end, and what was read of the line is
\* carried out, which may be any line.
CutLine ==
  /\ In("line") /\ batches # <<>>
  /\ \E l \in Typed : CarryOut(l, <<<<>>>> \o Tail(batches), TRUE)
  /\ Logs(<<>>)

\* Never ends a batch file.
AtBatchEnd_Bug == FALSE

AtBatchEnd == batches[1] = <<>>

\* After every command: a batch file that was read to its end ends its call.
Check ==
  /\ In("check")
  /\ IF batches # <<>> /\ AtBatchEnd
     THEN batches' = Tail(batches) /\ UNCHANGED at
     ELSE at' = "line" /\ UNCHANGED batches
  /\ UNCHANGED <<shared, log>>

\* What the console does without the user.
BatchStep == StartConsole \/ BatchLine \/ NoLine \/ CutLine \/ Check

ConsoleStep == TypeLine \/ BatchStep

-------------------------------------------------------------------------------
(* Properties.                                                              *)

ConsoleTypeOK ==
  /\ at \in {"start", "line", "check"}
  /\ batches \in Seq(Seq(BatchLines \cup Typed))
  /\ Len(batches) < MaxDepth
  /\ mode = "console" /\ at # "start" => FileInterface = Assets

\* help.txt:19 "quit - exit operating system": a quit that was carried out was
\* the last thing the program did.
QuitQuits ==
  ~ioFail /\ log # <<>> /\ log[Len(log)].line.op = "quit" => mode = "off"

\* help.txt:11 "ls - list files": ls halts the program only after a cd, an entry
\* off the list or a firmware that failed.
LsLists ==
  mode = "halted" /\ log # <<>> /\ log[Len(log)].line.op = "ls" =>
    moved \/ stale \/ ioFail
===============================================================================
