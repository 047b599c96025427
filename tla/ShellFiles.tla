------------------------------ MODULE ShellFiles ------------------------------
(***************************************************************************)
(* The console commands that change files (src/main.cpp, ConsoleMode): rm, *)
(* cp, mv and addline, over the LFile of src/src/lfile.hpp, with its       *)
(* LFileReader and LFileWriter and one firmware file handle.  One command  *)
(* runs, from any contents of the volume, and every call of the firmware   *)
(* may fail.                                                               *)
(*                                                                         *)
(* fs is the volume as the firmware's calls show it.  The firmware may     *)
(* keep what it is given in memory and write it to the disk when it likes, *)
(* one path before another, until the handle is closed; the program calls  *)
(* no Flush of a handle.  images is, for each path, all that a power cut   *)
(* may leave there.                                                        *)
(*                                                                         *)
(* The reader is the byte stream that LReader shows it to be: rbuf is what *)
(* it has read and not delivered.  Operators with a name in _Bug are wrong *)
(* versions of the one that follows them, for checking the properties.     *)
(***************************************************************************)
EXTENDS Integers, Sequences

CONSTANTS
  Path,             \* the paths of a command's arguments
  Byte,             \* the bytes files hold at the start
  Lines,            \* the texts addline is given, as sequences of CHAR16
  ReadSize,         \* bytes one read asks for (127 in the code)
  WriterBufferSize, \* bytes the writer holds (128 in the code)
  MaxFile,          \* bound on the length of a file at the start
  Absent,           \* no file at a path
  NULL              \* no handle, no path

CHAR16 == 0 .. 256 * 256 - 1
Octet == 0 .. 255

AnyContents == Seq(Octet)  \* what a file may hold

ASSUME ShellAssumption ==
  /\ Byte \subseteq Octet
  /\ Lines \subseteq Seq(CHAR16)
  /\ ReadSize \in Nat \ {0}
  /\ WriterBufferSize \in Nat \ {0}
  /\ MaxFile \in Nat
  /\ NULL \notin Path
  /\ Absent \notin AnyContents

VARIABLES
  fs,        \* the file at each path, or Absent
  images,    \* what a power cut may leave at each path
  cmd,       \* the command: its name, its paths src and dst, its text
  pc,        \* where the command is
  handle,    \* the path each LFile has open, or NULL
  offset,    \* the position of each handle
  rbuf,      \* the reader of "file": the bytes read and not delivered
  ended,     \* its AtEnd()
  wbuf,      \* the writer's buffer
  todo,      \* what addline has still to write
  count,     \* Position in addline: the bytes it has counted
  before,    \* history: the volume before the command
  readFail,  \* history: a read failed
  writeFail, \* history: a write failed
  noHandle   \* history: an open failed

vars == <<fs, images, cmd, pc, handle, offset, rbuf, ended, wbuf, todo, count,
          before, readFail, writeFail, noHandle>>

File == {"file", "copy"}  \* the LFile objects of a command

Contents == UNION {[1 .. n -> Byte] : n \in 0 .. MaxFile}

Commands ==
  [name : {"cp", "mv"}, src : Path, dst : Path, text : {<<>>}]
  \cup [name : {"addline"}, src : Path, dst : {NULL}, text : Lines]
  \cup [name : {"rm"}, src : Path, dst : {NULL}, text : {<<>>}]

Init ==
  /\ fs \in [Path -> Contents \cup {Absent}]
  /\ images = [p \in Path |-> {fs[p]}]
  /\ cmd \in Commands
  /\ pc = "open"
  /\ handle = [f \in File |-> NULL]
  /\ offset = [f \in File |-> 0]
  /\ rbuf = <<>>
  /\ ended = FALSE
  /\ wbuf = <<>>
  /\ todo = <<>>
  /\ count = 0
  /\ before = fs
  /\ readFail = FALSE
  /\ writeFail = FALSE
  /\ noHandle = FALSE

-------------------------------------------------------------------------------
(* The firmware.                                                            *)

\* The firmware writes what it was given to the disk at some time, or never.
Cached == images' = [p \in Path |-> images[p] \cup {fs'[p]}]

\* Close of the handles that are open at the end: what they wrote is there.
WrittenBack ==
  images' = [p \in Path |-> IF \E f \in File : handle[f] = p THEN {fs[p]} ELSE images[p]]

\* Open of an existing file, or with EFI_FILE_MODE_CREATE of a new one.
Open(f, path, create) ==
  \/ /\ fs[path] # Absent \/ create
     /\ fs' = IF fs[path] = Absent THEN [fs EXCEPT ![path] = <<>>] ELSE fs
     /\ Cached
     /\ handle' = [handle EXCEPT ![f] = path]
     /\ UNCHANGED noHandle
  \/ /\ handle' = [handle EXCEPT ![f] = NULL]
     /\ noHandle' = TRUE
     /\ UNCHANGED <<fs, images>>

\* bytes written over a file at a position inside it or at its end.
Overwritten(old, at, bytes) ==
  SubSeq(old, 1, at) \o bytes \o SubSeq(old, at + Len(bytes) + 1, Len(old))

\* Write of bytes at the handle's position; a failure may have written some.
WriteAt(f, bytes) ==
  \E n \in 0 .. Len(bytes) :
    /\ fs' = [fs EXCEPT ![handle[f]] = Overwritten(@, offset[f], SubSeq(bytes, 1, n))]
    /\ Cached
    /\ offset' = [offset EXCEPT ![f] = @ + n]
    /\ writeFail' = (writeFail \/ n < Len(bytes))

-------------------------------------------------------------------------------
(* LFile, its reader and its writer.  A handle that is NULL is dereferenced *)
(* by ReadBuffer and WriteBuffer: the program halts.                        *)

Halt ==
  /\ pc' = "halted"
  /\ UNCHANGED <<fs, images, cmd, handle, offset, rbuf, ended, wbuf, todo, count, before,
                 readFail, writeFail, noHandle>>

\* What a read of "file" returns; nothing at its end.
Chunk ==
  LET content == fs[handle["file"]]
      upto == offset["file"] + ReadSize
  IN  SubSeq(content, offset["file"] + 1, IF upto < Len(content) THEN upto ELSE Len(content))

\* ReadBuffer() of "file".
ReadBuffer ==
  \/ /\ rbuf' = Chunk
     /\ ended' = (Chunk = <<>>)
     /\ offset' = [offset EXCEPT !["file"] = @ + Len(Chunk)]
     /\ UNCHANGED readFail
  \/ /\ rbuf' = <<>>
     /\ ended' = TRUE
     /\ readFail' = TRUE
     /\ UNCHANGED offset

\* Reader.Next() of "file", before the program goes on at place.
ReaderNext(place) ==
  \/ /\ Len(rbuf) > 1
     /\ rbuf' = Tail(rbuf)
     /\ pc' = place
     /\ UNCHANGED <<fs, images, cmd, handle, offset, ended, wbuf, todo, count, before,
                    readFail, writeFail, noHandle>>
  \/ /\ Len(rbuf) <= 1
     /\ handle["file"] # NULL
     /\ ReadBuffer
     /\ pc' = place
     /\ UNCHANGED <<fs, images, cmd, handle, wbuf, todo, count, before, writeFail, noHandle>>
  \/ /\ Len(rbuf) <= 1
     /\ handle["file"] = NULL
     /\ Halt

\* Flushes one byte too late.
Write_Bug(f, b, place) ==
  \/ /\ Len(wbuf) <= WriterBufferSize
     /\ wbuf' = Append(wbuf, b)
     /\ pc' = place
     /\ UNCHANGED <<fs, images, offset, writeFail>>
  \/ /\ Len(wbuf) > WriterBufferSize
     /\ handle[f] # NULL
     /\ WriteAt(f, wbuf)
     /\ wbuf' = <<b>>
     /\ pc' = place

\* Loses the byte for which it flushes.
Write_LossBug(f, b, place) ==
  \/ /\ Len(wbuf) < WriterBufferSize
     /\ wbuf' = Append(wbuf, b)
     /\ pc' = place
     /\ UNCHANGED <<fs, images, offset, writeFail>>
  \/ /\ Len(wbuf) = WriterBufferSize
     /\ handle[f] # NULL
     /\ WriteAt(f, wbuf)
     /\ wbuf' = <<>>
     /\ pc' = place

\* Writer.Write(b) of f.
Write(f, b, place) ==
  \/ /\ Len(wbuf) < WriterBufferSize
     /\ wbuf' = Append(wbuf, b)
     /\ pc' = place
     /\ UNCHANGED <<fs, images, offset, writeFail>>
  \/ /\ Len(wbuf) = WriterBufferSize
     /\ handle[f] # NULL
     /\ WriteAt(f, wbuf)
     /\ wbuf' = <<b>>
     /\ pc' = place
  \/ /\ Len(wbuf) = WriterBufferSize
     /\ handle[f] = NULL
     /\ pc' = "halted"
     /\ UNCHANGED <<fs, images, offset, wbuf, writeFail>>

\* Writer.Flush() of f: an error is printed, and the bytes are dropped.
Flush(f, place) ==
  \/ /\ wbuf = <<>>
     /\ pc' = place
     /\ UNCHANGED <<fs, images, offset, wbuf, writeFail>>
  \/ /\ wbuf # <<>>
     /\ handle[f] # NULL
     /\ WriteAt(f, wbuf)
     /\ wbuf' = <<>>
     /\ pc' = place
  \/ /\ wbuf # <<>>
     /\ handle[f] = NULL
     /\ pc' = "halted"
     /\ UNCHANGED <<fs, images, offset, wbuf, writeFail>>

-------------------------------------------------------------------------------
(* The commands.                                                            *)

AtStep(name, place) == cmd.name \in name /\ pc = place

Copies == {"cp", "mv"}

Target == IF cmd.name \in Copies THEN "copy" ELSE "file"

\* new LFile(szPath, ...) of the first path; only addline may create it.
OpenFile ==
  /\ pc = "open"
  /\ Open("file", cmd.src, cmd.name = "addline")
  /\ pc' = IF cmd.name \in Copies THEN "openCopy"
           ELSE IF cmd.name = "addline" THEN "prime"
           ELSE "delete"
  /\ UNCHANGED <<cmd, offset, rbuf, ended, wbuf, todo, count, before, readFail, writeFail>>

OpenCopy ==
  /\ pc = "openCopy"
  /\ Open("copy", cmd.dst, TRUE)
  /\ pc' = "prime"
  /\ UNCHANGED <<cmd, offset, rbuf, ended, wbuf, todo, count, before, readFail, writeFail>>

Prime == pc = "prime" /\ ReaderNext("loop")

\* cp and mv: fileCopy->Writer.Write(file->Reader.Current()) ...
CopyByte ==
  /\ AtStep(Copies, "loop") /\ ~ended
  /\ Write("copy", Head(rbuf), "next")
  /\ UNCHANGED <<cmd, handle, rbuf, ended, todo, count, before, readFail, noHandle>>

\* Never leaves the loop.
CopyNext_Bug == AtStep(Copies, "next") /\ ReaderNext("next")

\* ... and file->Reader.Next().
CopyNext == AtStep(Copies, "next") /\ ReaderNext("loop")

\* Deletes the source before the end of the copy is flushed.
CopyDone_Bug ==
  /\ AtStep(Copies, "loop") /\ ended
  /\ pc' = IF cmd.name = "mv" THEN "delete" ELSE "flush"
  /\ UNCHANGED <<fs, images, cmd, handle, offset, rbuf, ended, wbuf, todo, count, before,
                 readFail, writeFail, noHandle>>

CopyDone ==
  /\ AtStep(Copies, "loop") /\ ended
  /\ pc' = "flush"
  /\ UNCHANGED <<fs, images, cmd, handle, offset, rbuf, ended, wbuf, todo, count, before,
                 readFail, writeFail, noHandle>>

\* addline: ++Position ...
CountByte ==
  /\ AtStep({"addline"}, "loop") /\ ~ended
  /\ count' = count + 1
  /\ pc' = "next"
  /\ UNCHANGED <<fs, images, cmd, handle, offset, rbuf, ended, wbuf, todo, before,
                 readFail, writeFail, noHandle>>

\* ... and file->Reader.Next().
CountNext == AtStep({"addline"}, "next") /\ ReaderNext("loop")

\* Each CHAR16 is written as one byte, and CR LF follow.
Added(text) == [k \in DOMAIN text |-> text[k] % 256] \o <<13, 10>>

\* Goes back to the start instead.
Seek_Bug ==
  /\ AtStep({"addline"}, "loop") /\ ended
  /\ offset' \in {[offset EXCEPT !["file"] = 0], offset}
  /\ todo' = Added(cmd.text)
  /\ pc' = "add"
  /\ UNCHANGED <<fs, images, cmd, handle, rbuf, ended, wbuf, count, before, readFail, writeFail, noHandle>>

\* file->SetPosition(Position), which the firmware may refuse.
Seek ==
  /\ AtStep({"addline"}, "loop") /\ ended
  /\ offset' \in {[offset EXCEPT !["file"] = count], offset}
  /\ todo' = Added(cmd.text)
  /\ pc' = "add"
  /\ UNCHANGED <<fs, images, cmd, handle, rbuf, ended, wbuf, count, before, readFail, writeFail, noHandle>>

AddByte ==
  /\ pc = "add" /\ todo # <<>>
  /\ Write("file", Head(todo), "add")
  /\ todo' = Tail(todo)
  /\ UNCHANGED <<cmd, handle, rbuf, ended, count, before, readFail, noHandle>>

AddDone ==
  /\ pc = "add" /\ todo = <<>>
  /\ pc' = "flush"
  /\ UNCHANGED <<fs, images, cmd, handle, offset, rbuf, ended, wbuf, todo, count, before,
                 readFail, writeFail, noHandle>>

\* Leaves the rest of the bytes to the destructor, which cannot write them.
FlushWriter_Bug ==
  /\ pc = "flush"
  /\ pc' = IF cmd.name = "mv" THEN "delete" ELSE "close"
  /\ UNCHANGED <<fs, images, offset, wbuf, writeFail, cmd, handle, rbuf, ended, todo, count,
                 before, readFail, noHandle>>

\* Goes on to delete the source of cp, too.
FlushWriter_DeleteBug ==
  /\ pc = "flush"
  /\ Flush(Target, "delete")
  /\ UNCHANGED <<cmd, handle, rbuf, ended, todo, count, before, readFail, noHandle>>

FlushWriter ==
  /\ pc = "flush"
  /\ Flush(Target, IF cmd.name = "mv" THEN "delete" ELSE "close")
  /\ UNCHANGED <<cmd, handle, rbuf, ended, todo, count, before, readFail, noHandle>>

\* file->Delete() in rm and mv; the firmware closes the handle in any case.
Delete ==
  /\ pc = "delete"
  /\ \/ handle["file"] = NULL /\ UNCHANGED <<fs, images, handle>>
     \/ /\ handle["file"] # NULL
        /\ fs' \in {[fs EXCEPT ![handle["file"]] = Absent], fs}
        /\ Cached
        /\ handle' = [handle EXCEPT !["file"] = NULL]
  /\ pc' = "close"
  /\ UNCHANGED <<cmd, offset, rbuf, ended, wbuf, todo, count, before,
                 readFail, writeFail, noHandle>>

\* The destructors close the handles; a Flush in them reaches no file.
CloseFiles ==
  /\ pc = "close"
  /\ WrittenBack
  /\ handle' = [f \in File |-> NULL]
  /\ pc' = "done"
  /\ UNCHANGED <<fs, cmd, offset, rbuf, ended, wbuf, todo, count, before,
                 readFail, writeFail, noHandle>>

Step ==
  OpenFile \/ OpenCopy \/ Prime \/ CopyByte \/ CopyNext \/ CopyDone \/ CountByte
  \/ CountNext \/ Seek \/ AddByte \/ AddDone \/ FlushWriter \/ Delete \/ CloseFiles

Stopped == pc \in {"done", "halted"} /\ UNCHANGED vars

Next == Step \/ Stopped

\* A command is straight-line code with loops; nothing else runs.
Spec == Init /\ [][Next]_vars /\ WF_vars(Step)

-------------------------------------------------------------------------------
(* Properties.                                                              *)

ProgramOK ==
  /\ \A p \in Path : fs[p] = Absent \/ fs[p] \in AnyContents
  /\ cmd \in Commands
  /\ pc \in {"open", "openCopy", "prime", "loop", "next", "add", "flush", "delete",
             "close", "done", "halted"}
  /\ handle \in [File -> Path \cup {NULL}]
  /\ offset \in [File -> Nat]
  /\ rbuf \in AnyContents /\ Len(rbuf) <= ReadSize
  /\ ended \in BOOLEAN
  /\ wbuf \in AnyContents /\ Len(wbuf) <= WriterBufferSize
  /\ todo \in AnyContents
  /\ count \in Nat
  /\ readFail \in BOOLEAN /\ writeFail \in BOOLEAN /\ noHandle \in BOOLEAN

DiskOK == images \in [Path -> SUBSET (AnyContents \cup {Absent})]

TypeOK == ProgramOK /\ DiskOK

\* Whether a file is there and starts with (or is) what the file at old was.
Holds(content, old) ==
  /\ content # Absent
  /\ Len(content) >= Len(before[old])
  /\ SubSeq(content, 1, Len(before[old])) = before[old]

StartsWith(path, old) == Holds(fs[path], old)

NoFault == ~readFail /\ ~writeFail /\ ~noHandle

\* cp leaves the source as it was, in every state and whatever fails, unless
\* the file is copied to itself and a write fails.
CopyKeepsSource ==
  cmd.name = "cp" /\ before[cmd.src] # Absent =>
    fs[cmd.src] = before[cmd.src] \/ (cmd.src = cmd.dst /\ writeFail)

(***************************************************************************)
(* Without a fault of the firmware, mv deletes the file only when every    *)
(* byte of it was written to the copy; and a power cut leaves the file at  *)
(* its path, or all of it in the copy, at any moment but one.  From the    *)
(* Delete of the source (main.cpp:674) to the Close of the copy (678) pc   *)
(* is "close", and there firmware that has kept the copy in memory may     *)
(* lose both: the program does not flush the handle before it deletes.     *)
(***************************************************************************)
MoveKeepsData ==
  cmd.name = "mv" /\ cmd.src # cmd.dst /\ NoFault /\ before[cmd.src] # Absent =>
    /\ fs[cmd.src] = before[cmd.src] \/ StartsWith(cmd.dst, cmd.src)
    /\ pc # "close" => \/ images[cmd.src] = {before[cmd.src]}
                       \/ \A content \in images[cmd.dst] : Holds(content, cmd.src)

\* A finished cp or mv without a fault has written the source over the start
\* of the destination and kept the rest of a longer destination; only a file
\* that is moved to itself is gone.
CopiesExactly ==
  cmd.name \in Copies /\ pc = "done" /\ NoFault /\ ~(cmd.name = "mv" /\ cmd.src = cmd.dst) =>
    fs[cmd.dst] = before[cmd.src] \o
                    (IF before[cmd.dst] = Absent THEN <<>>
                     ELSE SubSeq(before[cmd.dst], Len(before[cmd.src]) + 1,
                                 Len(before[cmd.dst])))

\* addline never changes what the file held, in any state, whatever write or
\* SetPosition fails, unless a read failed while it looked for the end.
AppendKeeps ==
  cmd.name = "addline" /\ before[cmd.src] # Absent /\ ~readFail =>
    StartsWith(cmd.src, cmd.src)

\* A finished addline without a fault has added its text, a byte for each
\* CHAR16, and CR LF.
AppendsExactly ==
  cmd.name = "addline" /\ pc = "done" /\ NoFault =>
    fs[cmd.src] = (IF before[cmd.src] = Absent THEN <<>> ELSE before[cmd.src])
                    \o Added(cmd.text)

\* Every command ends, whatever fails; it halts only on a file it could not open.
Ends == <>(pc = "done" \/ (pc = "halted" /\ noHandle))

(***************************************************************************)
(* What help.txt says of mv and cp, without an allowance for failed reads  *)
(* and writes or for what the destination held: mv moves the file, cp      *)
(* copies it.                                                              *)
(***************************************************************************)
MoveNeverLosesFile ==
  cmd.name = "mv" /\ cmd.src # cmd.dst /\ ~noHandle /\ before[cmd.src] # Absent =>
    fs[cmd.src] = before[cmd.src] \/ StartsWith(cmd.dst, cmd.src)

CopyIsEqual ==
  cmd.name = "cp" /\ pc = "done" /\ NoFault => fs[cmd.dst] = before[cmd.src]
===============================================================================
