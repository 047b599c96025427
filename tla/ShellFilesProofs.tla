--------------------------- MODULE ShellFilesProofs ---------------------------
(***************************************************************************)
(* Proofs about ShellFiles, for any files, any sizes of the reads and of   *)
(* the writer and any text: what rm, cp, mv and addline do to the volume,  *)
(* whichever call of the firmware fails.                                   *)
(***************************************************************************)
EXTENDS ShellFiles, SequenceTheorems, TLAPS

-------------------------------------------------------------------------------
(* The inductive invariant.                                                 *)

\* A file LFile has open is there, and its position is in it, until the command
\* is about to close; the reader and the writer start empty.
Opened ==
  /\ fs \in [Path -> AnyContents \cup {Absent}]
  /\ before \in [Path -> AnyContents \cup {Absent}]
  /\ handle["file"] \in {NULL, cmd.src}
  /\ handle["copy"] = NULL \/ (cmd.name \in Copies /\ handle["copy"] = cmd.dst)
  /\ pc \notin {"close", "done", "halted"} =>
       \A f \in File : handle[f] # NULL =>
         fs[handle[f]] # Absent /\ offset[f] <= Len(fs[handle[f]])
  /\ pc \in {"open", "openCopy", "prime"} =>
       /\ rbuf = <<>> /\ wbuf = <<>> /\ ~ended /\ count = 0
       /\ \A f \in File : offset[f] = 0
  /\ pc \in {"open", "openCopy"} => fs = before
  /\ ended => rbuf = <<>>
  /\ pc = "loop" /\ ~ended => rbuf # <<>>
  /\ pc = "next" => rbuf # <<>> /\ ~ended

\* Where the steps of each command lead, and what is open there.
Stage ==
  /\ cmd.name = "rm" => pc \in {"open", "delete", "close", "done"}
  /\ cmd.name = "cp" => pc # "delete"
  /\ cmd.name = "addline" => pc \notin {"openCopy", "delete"}
  /\ cmd.name # "addline" => pc # "add"
  /\ ~noHandle /\ pc \in {"openCopy", "prime", "loop", "next", "add", "flush"} =>
       handle["file"] = cmd.src
  /\ ~noHandle /\ cmd.name \in Copies
       /\ pc \in {"prime", "loop", "next", "flush", "delete", "close"} => handle["copy"] = cmd.dst
  /\ ~noHandle /\ cmd.name \in Copies /\ pc # "open" => before[cmd.src] # Absent

\* The bytes addline has counted are those it has read and passed.
CountInFile ==
  cmd.name = "addline" =>
    /\ pc = "loop" => count + Len(rbuf) <= offset["file"]
    /\ pc = "next" => count + Len(rbuf) <= offset["file"] + 1

Typed == ProgramOK /\ Opened /\ Stage /\ CountInFile

\* What was at a path before the command, nothing where there was no file.
Original(p) == IF before[p] = Absent THEN <<>> ELSE before[p]

\* A copy from a file that does not change under it.
Moving ==
  cmd.name \in Copies /\ before[cmd.src] # Absent /\ (cmd.src # cmd.dst \/ ~writeFail)

SourceThere ==
  Moving => fs[cmd.src] = before[cmd.src] \/ (cmd.name = "mv" /\ pc \in {"close", "done"})

\* The reader holds the bytes of the file in front of its position.
Reads(content) ==
  \A k \in 1 .. Len(rbuf) : rbuf[k] = content[offset["file"] - Len(rbuf) + k]

ReaderHolds == Moving => Reads(before[cmd.src])

\* The writer holds the bytes of the source behind those that are written, and
\* the reader goes on behind them: nothing is left out and nothing comes twice.
Written == offset["copy"]
Taken == Written + Len(wbuf)

WriterHolds ==
  Moving /\ ~writeFail =>
    /\ Taken <= Len(before[cmd.src])
    /\ \A k \in 1 .. Len(wbuf) : wbuf[k] = before[cmd.src][Written + k]
    /\ pc = "loop" /\ ~ended => Taken = offset["file"] - Len(rbuf)
    /\ pc = "next" => Taken = offset["file"] - Len(rbuf) + 1
    /\ ended /\ ~readFail => Taken = Len(before[cmd.src])
    /\ pc \in {"loop", "next"} => offset["file"] <= Len(before[cmd.src])

InTransit == SourceThere /\ ReaderHolds /\ WriterHolds

\* The destination holds what was written, and behind that what it held.
Stored ==
  /\ fs[cmd.dst] # Absent
  /\ Len(fs[cmd.dst]) =
       IF Written > Len(Original(cmd.dst)) THEN Written ELSE Len(Original(cmd.dst))
  /\ \A k \in 1 .. Len(fs[cmd.dst]) :
       fs[cmd.dst][k] = IF k <= Written THEN before[cmd.src][k] ELSE Original(cmd.dst)[k]

\* Both files of a copy are open, and a file moved to itself is not deleted yet.
Storing ==
  /\ cmd.name \in Copies /\ NoFault /\ pc \notin {"open", "openCopy"}
  /\ ~(cmd.src = cmd.dst /\ cmd.name = "mv" /\ pc \in {"close", "done"})

CopyHolds ==
  /\ Storing => Stored
  /\ cmd.name \in Copies /\ pc \in {"delete", "close", "done"} => wbuf = <<>>
  /\ cmd.name \in Copies /\ pc \in {"flush", "delete", "close", "done"} => ended

\* addline finds the end of the file ...
Counting ==
  cmd.name = "addline" /\ ~readFail =>
    /\ pc \in {"prime", "loop", "next"} /\ handle["file"] # NULL =>
         fs[cmd.src] = Original(cmd.src)
    /\ pc \in {"loop", "next"} => wbuf = <<>>
    /\ pc = "loop" => count + Len(rbuf) = offset["file"]
    /\ pc = "next" => count + Len(rbuf) = offset["file"] + 1
    /\ pc = "loop" /\ ended => offset["file"] = Len(Original(cmd.src))
    /\ pc \notin {"open", "prime", "halted", "close", "done"} => handle["file"] # NULL
    /\ pc = "halted" \/ (pc = "prime" /\ handle["file"] = NULL) => fs = before

\* ... and writes its text from there on: what the file held stays, behind it is
\* the start of the text,
Appended == offset["file"] - Len(Original(cmd.src))

Grown ==
  /\ Appended >= 0
  /\ fs[cmd.src] # Absent
  /\ Len(fs[cmd.src]) = offset["file"]
  /\ \A k \in 1 .. Len(Original(cmd.src)) : fs[cmd.src][k] = Original(cmd.src)[k]
  /\ ~writeFail => \A k \in 1 .. Appended :
       fs[cmd.src][Len(Original(cmd.src)) + k] = Added(cmd.text)[k]

\* and its rest is in the writer and in what is still to come.
Pending ==
  /\ Appended + Len(wbuf) + Len(todo) = Len(Added(cmd.text))
  /\ \A k \in 1 .. Len(wbuf) : wbuf[k] = Added(cmd.text)[Appended + k]
  /\ \A k \in 1 .. Len(todo) : todo[k] = Added(cmd.text)[Appended + Len(wbuf) + k]

Adding ==
  cmd.name = "addline" /\ ~readFail /\ pc \in {"add", "flush", "close", "done"} =>
    /\ Grown
    /\ ~writeFail => Pending
    /\ pc \in {"flush", "close", "done"} => todo = <<>>
    /\ pc \in {"close", "done"} => wbuf = <<>>

-------------------------------------------------------------------------------
(* Sequences.                                                               *)

\* The first n elements.
LEMMA FirstOf ==
  ASSUME NEW T, NEW s \in Seq(T), NEW n \in 0 .. Len(s)
  PROVE  /\ SubSeq(s, 1, n) \in Seq(T)
         /\ Len(SubSeq(s, 1, n)) = n
         /\ \A k \in 1 .. n : SubSeq(s, 1, n)[k] = s[k]
<1>1. Len(s) \in Nat /\ \A k \in 1 .. n : s[k] \in T
  BY LenProperties
<1> QED
  BY <1>1, SubSeqProperties

\* What is written over a file: the bytes from the position on, and before and
\* behind them what was there.
LEMMA OverwrittenIs ==
  ASSUME NEW T, NEW old \in Seq(T), NEW bytes \in Seq(T), NEW at \in 0 .. Len(old)
  PROVE  /\ Overwritten(old, at, bytes) \in Seq(T)
         /\ Len(Overwritten(old, at, bytes)) =
              IF at + Len(bytes) > Len(old) THEN at + Len(bytes) ELSE Len(old)
         /\ \A k \in 1 .. Len(Overwritten(old, at, bytes)) :
              Overwritten(old, at, bytes)[k] =
                IF k <= at THEN old[k]
                ELSE IF k <= at + Len(bytes) THEN bytes[k - at] ELSE old[k]
<1> DEFINE low == SubSeq(old, 1, at)
           high == SubSeq(old, at + Len(bytes) + 1, Len(old))
<1>1. /\ Len(old) \in Nat /\ Len(bytes) \in Nat /\ at \in Nat /\ at <= Len(old)
      /\ \A k \in 1 .. Len(old) : old[k] \in T
  BY LenProperties
<1>2. /\ low \in Seq(T) /\ Len(low) = at
      /\ \A k \in 1 .. at : low[k] = old[k]
  BY FirstOf
<1>3. /\ high \in Seq(T)
      /\ Len(high) = IF at + Len(bytes) < Len(old) THEN Len(old) - at - Len(bytes) ELSE 0
      /\ \A k \in 1 .. Len(old) - at - Len(bytes) : high[k] = old[at + Len(bytes) + k]
  <2>1. \A k \in at + Len(bytes) + 1 .. Len(old) : old[k] \in T
    BY <1>1
  <2>2. at + Len(bytes) + 1 \in Int /\ Len(old) \in Int
    BY <1>1
  <2>3. /\ high \in Seq(T)
        /\ Len(high) = IF at + Len(bytes) + 1 <= Len(old)
                       THEN Len(old) - (at + Len(bytes) + 1) + 1 ELSE 0
        /\ \A k \in 1 .. Len(old) - (at + Len(bytes) + 1) + 1 :
             high[k] = old[at + Len(bytes) + 1 + k - 1]
    BY <2>1, <2>2, SubSeqProperties
  <2> QED
    BY <1>1, <2>3
<1> HIDE DEF low, high
<1>4. /\ low \o bytes \in Seq(T) /\ Len(low \o bytes) = at + Len(bytes)
      /\ \A k \in 1 .. at + Len(bytes) :
           (low \o bytes)[k] = IF k <= at THEN old[k] ELSE bytes[k - at]
  <2>1. /\ low \o bytes \in Seq(T)
        /\ Len(low \o bytes) = Len(low) + Len(bytes)
        /\ \A k \in 1 .. Len(low) + Len(bytes) :
             (low \o bytes)[k] = IF k <= Len(low) THEN low[k] ELSE bytes[k - Len(low)]
    BY <1>2, ConcatProperties
  <2> QED
    BY <1>1, <1>2, <2>1
<1> DEFINE front == low \o bytes
<1> HIDE DEF front
<1>5. /\ front \o high \in Seq(T)
      /\ Len(front \o high) = Len(front) + Len(high)
      /\ \A k \in 1 .. Len(front) + Len(high) :
           (front \o high)[k] = IF k <= Len(front) THEN front[k] ELSE high[k - Len(front)]
  <2>1. front \in Seq(T)
    BY <1>4 DEF front
  <2> QED
    BY <1>3, <2>1, ConcatProperties
<1>6. Overwritten(old, at, bytes) = front \o high
  BY DEF Overwritten, low, high, front
<1>7. /\ Len(front) = at + Len(bytes)
      /\ \A k \in 1 .. at + Len(bytes) : front[k] = IF k <= at THEN old[k] ELSE bytes[k - at]
  BY <1>4 DEF front
<1>a. Len(old) \in Nat /\ Len(bytes) \in Nat /\ at \in Nat /\ at <= Len(old)
  BY <1>1
<1>b. /\ Len(high) \in Nat
      /\ at + Len(bytes) < Len(old) => Len(high) = Len(old) - at - Len(bytes)
      /\ at + Len(bytes) >= Len(old) => Len(high) = 0
  BY <1>3, <1>a
<1>c. Len(front) = at + Len(bytes)
  BY <1>7
<1>8. ASSUME NEW k \in 1 .. Len(front) + Len(high)
      PROVE  (front \o high)[k] = IF k <= at THEN old[k]
                                  ELSE IF k <= at + Len(bytes) THEN bytes[k - at] ELSE old[k]
  <2>1. CASE k <= at + Len(bytes)
    BY <1>1, <1>3, <1>5, <1>7, <2>1
  <2>2. CASE k > at + Len(bytes)
    <3>0. Len(high) \in Nat /\ k \in Int /\ k > Len(front) /\ k <= Len(front) + Len(high)
      BY <1>a, <1>b, <1>c, <2>2
    <3>1. /\ (front \o high)[k] = high[k - (at + Len(bytes))]
          /\ k - (at + Len(bytes)) \in 1 .. Len(old) - at - Len(bytes)
      <4>1. (front \o high)[k] = high[k - Len(front)]
        BY <1>5, <1>a, <1>c, <3>0, SMTT(30)
      <4>2. Len(high) = Len(old) - at - Len(bytes)
        BY <1>a, <1>b, <1>c, <3>0
      <4> QED
        BY <1>a, <1>c, <3>0, <4>1, <4>2, SMTT(30)
    <3>2. high[k - (at + Len(bytes))] = old[at + Len(bytes) + (k - (at + Len(bytes)))]
      BY <1>3, <3>1
    <3> QED
      BY <1>1, <2>2, <3>1, <3>2
  <2> QED
    BY <1>1, <2>1, <2>2, SMTT(30)
<1>9. Len(front \o high) =
        IF at + Len(bytes) > Len(old) THEN at + Len(bytes) ELSE Len(old)
  <2>1. Len(front \o high) = Len(front) + Len(high)
    BY <1>5
  <2> QED
    BY <1>a, <1>b, <1>c, <2>1, SMTT(30)
<1> QED
  BY <1>5, <1>6, <1>8, <1>9

-------------------------------------------------------------------------------
(* The types, and what is open.                                             *)

Live == pc \notin {"close", "done", "halted"}

\* What a command is given.
LEMMA CommandFields ==
  ASSUME cmd \in Commands
  PROVE  /\ cmd.name \in {"cp", "mv", "addline", "rm"}
         /\ cmd.src \in Path
         /\ cmd.name \in Copies => cmd.dst \in Path
         /\ cmd.text \in Seq(CHAR16)
<1> DEFINE copy == [name : {"cp", "mv"}, src : Path, dst : Path, text : {<<>>}]
           add == [name : {"addline"}, src : Path, dst : {NULL}, text : Lines]
           remove == [name : {"rm"}, src : Path, dst : {NULL}, text : {<<>>}]
<1>1. ASSUME cmd \in copy
      PROVE  cmd.name \in {"cp", "mv"} /\ cmd.src \in Path /\ cmd.dst \in Path /\ cmd.text = <<>>
  BY <1>1
<1>2. ASSUME cmd \in add PROVE cmd.name = "addline" /\ cmd.src \in Path /\ cmd.text \in Lines
  BY <1>2
<1>3. ASSUME cmd \in remove PROVE cmd.name = "rm" /\ cmd.src \in Path /\ cmd.text = <<>>
  BY <1>3
<1>4. cmd \in copy \/ cmd \in add \/ cmd \in remove
  BY Zenon DEF Commands
<1> HIDE DEF copy, add, remove
<1>5. <<>> \in Seq(CHAR16)
  BY EmptySeq
<1>6. Lines \subseteq Seq(CHAR16)
  BY ShellAssumption
<1>7. CASE cmd \in copy
  BY <1>1, <1>5, <1>7 DEF Copies
<1>8. CASE cmd \in add
  <2>1. cmd.text \in Seq(CHAR16)
    BY <1>2, <1>6, <1>8
  <2> QED
    BY <1>2, <1>8, <2>1 DEF Copies
<1>9. CASE cmd \in remove
  BY <1>3, <1>5, <1>9 DEF Copies
<1> QED
  BY <1>4, <1>7, <1>8, <1>9

\* What one read of the file returns: the bytes behind its position, as many as
\* are asked for and there, none only at its end.
LEMMA ChunkIs ==
  ASSUME ProgramOK, Opened, Live, handle["file"] # NULL
  PROVE  LET content == fs[handle["file"]]
             at == offset["file"]
         IN  /\ Chunk \in AnyContents /\ Len(Chunk) <= ReadSize
             /\ content \in AnyContents /\ at \in Nat
             /\ at + Len(Chunk) <= Len(content)
             /\ Chunk = <<>> <=> at = Len(content)
             /\ \A k \in 1 .. Len(Chunk) : Chunk[k] = content[at + k]
<1> DEFINE content == fs[handle["file"]]
           at == offset["file"]
           upto == IF at + ReadSize < Len(content) THEN at + ReadSize ELSE Len(content)
<1>1. /\ content \in AnyContents /\ at \in Nat /\ at <= Len(content)
      /\ ReadSize \in Nat \ {0} /\ Len(content) \in Nat
      /\ \A k \in 1 .. Len(content) : content[k] \in Octet
  <2>1. handle["file"] \in Path
    BY DEF ProgramOK, File
  <2>2. content \in AnyContents /\ at \in Nat /\ at <= Len(content)
    BY <2>1 DEF ProgramOK, Opened, Live, File
  <2>3. content \in Seq(Octet)
    BY <2>2 DEF AnyContents
  <2>4. Len(content) \in Nat /\ content \in [1 .. Len(content) -> Octet]
    BY <2>3, LenProperties
  <2>5. ReadSize \in Nat \ {0}
    BY ShellAssumption
  <2> QED
    BY <2>2, <2>4, <2>5
<1>2. Chunk = SubSeq(content, at + 1, upto)
  BY DEF Chunk
<1> HIDE DEF content, at
<1>3. upto \in Nat /\ upto >= at /\ upto <= Len(content) /\ upto - at <= ReadSize
      /\ (upto = at <=> at = Len(content)) /\ at + 1 \in Int /\ upto \in Int
  BY <1>1
<1> HIDE DEF upto
<1>4. \A k \in at + 1 .. upto : content[k] \in Octet
  BY <1>1, <1>3
<1>5. /\ Chunk \in AnyContents
      /\ Len(Chunk) = IF at + 1 <= upto THEN upto - (at + 1) + 1 ELSE 0
      /\ \A k \in 1 .. upto - (at + 1) + 1 : Chunk[k] = content[at + 1 + k - 1]
  BY <1>2, <1>3, <1>4, SubSeqProperties, SMTT(30) DEF AnyContents
<1>6. Len(Chunk) = upto - at
  BY <1>1, <1>3, <1>5
<1>7. \A k \in 1 .. Len(Chunk) : Chunk[k] = content[at + k]
  BY <1>1, <1>3, <1>5, <1>6
<1>8. Chunk = <<>> <=> Len(Chunk) = 0
  BY <1>5, EmptySeq DEF AnyContents
<1>9. /\ Chunk \in AnyContents /\ Len(Chunk) <= ReadSize
      /\ content \in AnyContents /\ at \in Nat
      /\ at + Len(Chunk) <= Len(content)
      /\ Chunk = <<>> <=> at = Len(content)
  BY <1>1, <1>3, <1>5, <1>6, <1>8
<1> QED
  BY <1>7, <1>9 DEF content, at

\* One call of Next of the reader passes one byte, unless nothing was read yet,
\* and leaves the reader at its end exactly when it has no byte.
LEMMA ReaderMoves ==
  ASSUME Typed, pc \in {"prime", "next"}, ReaderNext("loop"), pc' = "loop"
  PROVE  /\ rbuf' \in AnyContents /\ Len(rbuf') <= ReadSize
         /\ ended' \in BOOLEAN /\ readFail' \in BOOLEAN
         /\ ended' <=> rbuf' = <<>>
         /\ offset' = [offset EXCEPT !["file"] = offset'["file"]] /\ offset'["file"] \in Nat
         /\ offset'["file"] - Len(rbuf') =
              offset["file"] - Len(rbuf) + (IF rbuf = <<>> THEN 0 ELSE 1)
         /\ offset'["file"] <= (IF handle["file"] = NULL THEN offset["file"]
                                ELSE Len(fs[handle["file"]])) \/ offset'["file"] = offset["file"]
         /\ UNCHANGED <<fs, cmd, handle, wbuf, todo, count, before, writeFail, noHandle>>
<1> USE DEF Typed
<1>1. /\ rbuf \in AnyContents /\ Len(rbuf) \in Nat /\ Len(rbuf) <= ReadSize
      /\ rbuf = <<>> <=> Len(rbuf) = 0
      /\ offset \in [File -> Nat] /\ offset["file"] \in Nat
      /\ ended \in BOOLEAN /\ readFail \in BOOLEAN
      /\ ReadSize \in Nat
  BY EmptySeq, LenProperties, ShellAssumption DEF ProgramOK, AnyContents, File
<1>2. ended => rbuf = <<>>
  BY DEF Opened
<1>0. pc = "prime" => rbuf = <<>> /\ ~ended
  BY DEF Opened
<1>01. pc = "next" => rbuf # <<>> /\ ~ended
  BY DEF Opened
<1>3. CASE Len(rbuf) > 1
  <2>1. /\ Tail(rbuf) \in AnyContents /\ Len(Tail(rbuf)) = Len(rbuf) - 1
    BY <1>1, <1>3, HeadTailProperties DEF AnyContents
  <2>2. Tail(rbuf) # <<>>
    BY <1>1, <1>3, <2>1, SMTT(30)
  <2>3. rbuf' = Tail(rbuf) /\ UNCHANGED <<offset, ended, readFail, fs, cmd, handle, wbuf, todo,
                                         count, before, writeFail, noHandle>>
    BY <1>3 DEF ReaderNext
  <2>4. rbuf # <<>> /\ ~ended
    BY <1>1, <1>2, <1>3
  <2> QED
    BY <1>1, <1>3, <2>1, <2>2, <2>3, <2>4, SMTT(30)
<1>4. CASE Len(rbuf) <= 1 /\ handle["file"] # NULL
  <2>1. ReadBuffer /\ UNCHANGED <<fs, cmd, handle, wbuf, todo, count, before, writeFail, noHandle>>
    BY <1>1, <1>4 DEF ReaderNext
  <2>2. Live
    BY DEF Live
  <2>3. /\ Chunk \in AnyContents /\ Len(Chunk) <= ReadSize /\ Len(Chunk) \in Nat
        /\ offset["file"] + Len(Chunk) <= Len(fs[handle["file"]])
    BY <1>4, <2>2, ChunkIs, LenProperties DEF AnyContents
  <2>4. CASE rbuf' = Chunk /\ ended' = (Chunk = <<>>) /\ readFail' = readFail
             /\ offset' = [offset EXCEPT !["file"] = @ + Len(Chunk)]
    <3>1. offset'["file"] = offset["file"] + Len(Chunk)
      BY <1>1, <2>4 DEF File
    <3>2. ended' \in BOOLEAN /\ readFail' \in BOOLEAN /\ (ended' <=> rbuf' = <<>>)
      BY <1>1, <2>4
    <3>3. rbuf' \in AnyContents /\ Len(rbuf') <= ReadSize /\ Len(rbuf') = Len(Chunk)
      BY <2>3, <2>4
    <3>4. offset' = [offset EXCEPT !["file"] = offset'["file"]]
      BY <2>4, <3>1
    <3>5. offset'["file"] - Len(rbuf') =
              offset["file"] - Len(rbuf) + (IF rbuf = <<>> THEN 0 ELSE 1)
      BY <1>1, <1>4, <2>3, <3>1, <3>3
    <3> QED
      BY <1>1, <1>4, <2>1, <2>3, <3>1, <3>2, <3>3, <3>4, <3>5
  <2>5. CASE rbuf' = <<>> /\ ended' = TRUE /\ readFail' = TRUE /\ offset' = offset
    <3>1. <<>> \in AnyContents /\ Len(<<>>) = 0
      BY EmptySeq DEF AnyContents
    <3> QED
      BY <1>0, <1>01, <1>1, <1>4, <2>1, <2>5, <3>1
  <2> QED
    BY <2>1, <2>4, <2>5 DEF ReadBuffer
<1>5. CASE Len(rbuf) <= 1 /\ handle["file"] = NULL
  BY <1>1, <1>5 DEF ReaderNext, Halt
<1> QED
  BY <1>1, <1>3, <1>4, <1>5

\* A write puts some number of its bytes at the position of the handle, all of
\* them unless it fails.
LEMMA WriteReaches ==
  ASSUME Typed, Live, NEW f \in File, handle[f] # NULL, NEW bytes \in AnyContents,
         WriteAt(f, bytes)
  PROVE  \E n \in 0 .. Len(bytes) :
           LET old == fs[handle[f]]
               new == fs'[handle[f]]
               at == offset[f]
           IN  /\ fs' = [fs EXCEPT ![handle[f]] = new]
               /\ old \in AnyContents /\ new \in AnyContents
               /\ at \in Nat /\ at <= Len(old)
               /\ Len(new) = IF at + n > Len(old) THEN at + n ELSE Len(old)
               /\ \A k \in 1 .. Len(new) :
                    new[k] = IF k <= at THEN old[k]
                             ELSE IF k <= at + n THEN bytes[k - at] ELSE old[k]
               /\ offset' = [offset EXCEPT ![f] = at + n]
               /\ writeFail' = (writeFail \/ n < Len(bytes))
<1> DEFINE old == fs[handle[f]]
           at == offset[f]
<1>1. PICK n \in 0 .. Len(bytes) :
        /\ fs' = [fs EXCEPT ![handle[f]] = Overwritten(old, at, SubSeq(bytes, 1, n))]
        /\ offset' = [offset EXCEPT ![f] = at + n]
        /\ writeFail' = (writeFail \/ n < Len(bytes))
  BY DEF WriteAt
<1>2. handle[f] \in Path /\ fs \in [Path -> AnyContents \cup {Absent}] /\ at \in Nat
  BY DEF Typed, ProgramOK, Opened
<1>3. old # Absent /\ at <= Len(old)
  BY DEF Typed, Opened, Live
<1>4. old \in AnyContents
  BY <1>2, <1>3
<1> DEFINE some == SubSeq(bytes, 1, n)
           new == Overwritten(old, at, some)
<1>5. some \in AnyContents /\ Len(some) = n /\ \A k \in 1 .. n : some[k] = bytes[k]
  BY FirstOf DEF AnyContents
<1>6. at \in 0 .. Len(old)
  BY <1>2, <1>3, <1>4, LenProperties DEF AnyContents
<1> HIDE DEF some, old, at
<1>7. /\ new \in AnyContents
      /\ Len(new) = IF at + n > Len(old) THEN at + n ELSE Len(old)
      /\ \A k \in 1 .. Len(new) :
           new[k] = IF k <= at THEN old[k]
                    ELSE IF k <= at + n THEN some[k - at] ELSE old[k]
  <2>1. some \in Seq(Octet) /\ old \in Seq(Octet) /\ Len(some) = n
    BY <1>4, <1>5 DEF AnyContents
  <2>2. /\ Overwritten(old, at, some) \in Seq(Octet)
        /\ Len(Overwritten(old, at, some)) =
             IF at + Len(some) > Len(old) THEN at + Len(some) ELSE Len(old)
        /\ \A k \in 1 .. Len(Overwritten(old, at, some)) :
             Overwritten(old, at, some)[k] =
                IF k <= at THEN old[k]
                ELSE IF k <= at + Len(some) THEN some[k - at] ELSE old[k]
    BY <1>6, <2>1, OverwrittenIs
  <2> QED
    BY <2>1, <2>2 DEF AnyContents
<1> HIDE DEF new
<1>8. /\ n \in Nat /\ Len(old) \in Nat /\ Len(new) \in Nat
  BY <1>4, <1>7, LenProperties DEF AnyContents
<1>9. ASSUME NEW k \in 1 .. Len(new)
      PROVE  new[k] = IF k <= at THEN old[k]
                      ELSE IF k <= at + n THEN bytes[k - at] ELSE old[k]
  <2>1. CASE k > at /\ k <= at + n
    <3>1. k - at \in 1 .. n
      BY <1>2, <1>8, <2>1
    <3> QED
      BY <1>2, <1>5, <1>7, <1>8, <2>1, <3>1
  <2>2. CASE ~(k > at /\ k <= at + n)
    BY <1>2, <1>7, <1>8, <2>2
  <2> QED
    BY <2>1, <2>2
<1>10. fs' = [fs EXCEPT ![handle[f]] = new] /\ fs'[handle[f]] = new
  BY <1>1, <1>2 DEF new, old, at, some
<1>11. offset' = [offset EXCEPT ![f] = at + n] /\ writeFail' = (writeFail \/ n < Len(bytes))
  BY <1>1 DEF at
<1>12. /\ fs' = [fs EXCEPT ![handle[f]] = fs'[handle[f]]]
       /\ old \in AnyContents /\ fs'[handle[f]] \in AnyContents
       /\ at \in Nat /\ at <= Len(old)
       /\ Len(fs'[handle[f]]) = IF at + n > Len(old) THEN at + n ELSE Len(old)
  <2>1. fs' = [fs EXCEPT ![handle[f]] = fs'[handle[f]]]
    BY <1>10
  <2>2. Len(fs'[handle[f]]) = IF at + n > Len(old) THEN at + n ELSE Len(old)
    BY <1>7, <1>10
  <2> QED
    BY <1>2, <1>3, <1>4, <1>7, <1>10, <2>1, <2>2
<1>13. \A k \in 1 .. Len(fs'[handle[f]]) :
         fs'[handle[f]][k] = IF k <= at THEN old[k]
                             ELSE IF k <= at + n THEN bytes[k - at] ELSE old[k]
  BY <1>9, <1>10
<1> QED
  BY <1>11, <1>12, <1>13 DEF old, at

\* After a write every open file is there, and the positions are in the files.
LEMMA WriteTyped ==
  ASSUME Typed, Live, NEW f \in File, handle[f] # NULL, NEW bytes \in AnyContents,
         WriteAt(f, bytes)
  PROVE  /\ fs' \in [Path -> AnyContents \cup {Absent}]
         /\ offset' \in [File -> Nat] /\ writeFail' \in BOOLEAN
         /\ \A g \in File : handle[g] # NULL =>
              fs'[handle[g]] # Absent /\ offset'[g] <= Len(fs'[handle[g]])
<1> DEFINE old == fs[handle[f]]
           new == fs'[handle[f]]
           at == offset[f]
<1>1. PICK n \in 0 .. Len(bytes) :
        /\ fs' = [fs EXCEPT ![handle[f]] = new]
        /\ old \in AnyContents /\ new \in AnyContents
        /\ at \in Nat /\ at <= Len(old)
        /\ Len(new) = IF at + n > Len(old) THEN at + n ELSE Len(old)
        /\ offset' = [offset EXCEPT ![f] = at + n]
        /\ writeFail' = (writeFail \/ n < Len(bytes))
  <2> HIDE DEF old, new, at
  <2> QED
    BY WriteReaches DEF old, new, at
<1>2. /\ handle \in [File -> Path \cup {NULL}] /\ fs \in [Path -> AnyContents \cup {Absent}]
      /\ offset \in [File -> Nat] /\ writeFail \in BOOLEAN
  BY DEF Typed, ProgramOK, Opened
<1>3. n \in Nat /\ Len(old) \in Nat /\ Len(new) \in Nat
  BY <1>1, LenProperties DEF AnyContents
<1>4. fs' \in [Path -> AnyContents \cup {Absent}]
  <2> HIDE DEF new
  <2> QED
    BY <1>1, <1>2
<1>5. offset' \in [File -> Nat] /\ writeFail' \in BOOLEAN
  <2>1. at + n \in Nat
    BY <1>1, <1>3
  <2>2. offset' \in [File -> Nat]
    BY <1>1, <1>2, <2>1
  <2>3. writeFail' \in BOOLEAN
    BY <1>1, <1>2
  <2> QED
    BY <2>2, <2>3
<1>6. ASSUME NEW g \in File, handle[g] # NULL
      PROVE  fs'[handle[g]] # Absent /\ offset'[g] <= Len(fs'[handle[g]])
  <2>1. handle[g] \in Path /\ handle[f] \in Path
    BY <1>2, <1>6
  <2>2. fs[handle[g]] # Absent /\ offset[g] <= Len(fs[handle[g]]) /\ offset[g] \in Nat
    BY <1>2, <1>6 DEF Typed, Opened, Live
  <2>3. fs[handle[g]] \in AnyContents /\ Len(fs[handle[g]]) \in Nat
    BY <1>2, <2>1, <2>2, LenProperties DEF AnyContents
  <2>4. new # Absent
    BY <1>1, ShellAssumption
  <2>5. offset'[g] = IF g = f THEN at + n ELSE offset[g]
    BY <1>1, <1>2
  <2>6. fs'[handle[g]] = IF handle[g] = handle[f] THEN new ELSE fs[handle[g]]
    BY <1>1, <1>2, <2>1
  <2>7. CASE handle[g] = handle[f]
    <3>1. offset[g] <= Len(old)
      BY <2>2, <2>7
    <3> HIDE DEF new, old, at
    <3> QED
      BY <1>1, <1>3, <2>2, <2>4, <2>5, <2>6, <2>7, <3>1
  <2>8. CASE handle[g] # handle[f]
    BY <2>2, <2>5, <2>6, <2>8
  <2> QED
    BY <2>7, <2>8
<1> QED
  BY <1>4, <1>5, <1>6

LEMMA CharsAreNumbers == CHAR16 \subseteq Nat
BY DEF CHAR16

\* The byte, or the line, that is written.
LEMMA AddedIs ==
  ASSUME NEW text \in Seq(CHAR16)
  PROVE  Added(text) \in AnyContents /\ Len(Added(text)) = Len(text) + 2
<1> DEFINE octets == [k \in DOMAIN text |-> text[k] % 256]
<1>1. Len(text) \in Nat /\ DOMAIN text = 1 .. Len(text) /\ \A k \in 1 .. Len(text) : text[k] \in Nat
  <2>1. text \in [1 .. Len(text) -> CHAR16] /\ Len(text) \in Nat /\ DOMAIN text = 1 .. Len(text)
    BY LenProperties, SMTT(30)
  <2>2. CHAR16 \subseteq Nat
    BY CharsAreNumbers
  <2> QED
    BY <2>1, <2>2, Zenon
<1>2. \A k \in 1 .. Len(text) : text[k] % 256 \in Octet
  <2>1. \A m \in Nat : m % 256 \in 0 .. 255
    OBVIOUS
  <2> QED
    BY <1>1, <2>1, ZenonT(40) DEF Octet
<1>3. octets \in Seq(Octet) /\ Len(octets) = Len(text)
  <2>1. octets = [k \in 1 .. Len(text) |-> text[k] % 256]
    BY <1>1
  <2>2. octets \in [1 .. Len(text) -> Octet]
    BY <1>2, <2>1
  <2> HIDE DEF octets
  <2>3. octets \in Seq(Octet)
    BY <1>1, <2>2, SeqDef
  <2>4. DOMAIN octets = 1 .. Len(octets) /\ Len(octets) \in Nat
    BY <2>3, LenProperties
  <2>5. DOMAIN octets = 1 .. Len(text)
    BY <2>2
  <2>6. ASSUME NEW m \in Nat, NEW n \in Nat, 1 .. m = 1 .. n PROVE m <= n
    <3>1. m = 0 \/ m \in 1 .. m
      OBVIOUS
    <3> QED
      BY <2>6, <3>1
  <2>7. Len(octets) <= Len(text) /\ Len(text) <= Len(octets)
    BY <1>1, <2>4, <2>5, <2>6
  <2>8. Len(text) \in Nat
    BY <1>1
  <2>9. Len(octets) = Len(text)
    BY <2>4, <2>7, <2>8
  <2> QED
    BY <2>3, <2>9
<1>4. <<13, 10>> \in Seq(Octet) /\ Len(<<13, 10>>) = 2
  BY DEF Octet
<1> HIDE DEF octets
<1>5. octets \o <<13, 10>> \in Seq(Octet) /\ Len(octets \o <<13, 10>>) = Len(octets) + Len(<<13, 10>>)
  BY <1>3, <1>4, ConcatProperties
<1> QED
  BY <1>1, <1>3, <1>4, <1>5 DEF Added, octets, AnyContents

LEMMA InitTyped == Init => Typed
<1> SUFFICES ASSUME Init PROVE Typed
  OBVIOUS
<1> USE DEF Init
<1>1. Contents \subseteq AnyContents
  <2>1. ASSUME NEW n \in 0 .. MaxFile, NEW c \in [1 .. n -> Byte] PROVE c \in Seq(Octet)
    <3>1. n \in Nat /\ Byte \subseteq Octet
      BY ShellAssumption
    <3>2. c \in [1 .. n -> Octet]
      BY <3>1
    <3> QED
      BY <3>1, <3>2, SeqDef
  <2> QED
    BY <2>1 DEF Contents, AnyContents
<1>2. fs \in [Path -> AnyContents \cup {Absent}]
  BY <1>1
<1>3. <<>> \in AnyContents /\ Len(<<>>) = 0
  BY EmptySeq DEF AnyContents
<1>4. ProgramOK
  <2>1. \A p \in Path : fs[p] = Absent \/ fs[p] \in AnyContents
    BY <1>2
  <2>2. handle \in [File -> Path \cup {NULL}] /\ offset \in [File -> Nat]
    OBVIOUS
  <2>3. /\ rbuf \in AnyContents /\ Len(rbuf) <= ReadSize
        /\ wbuf \in AnyContents /\ Len(wbuf) <= WriterBufferSize
        /\ todo \in AnyContents /\ count \in Nat
    BY <1>3, ShellAssumption
  <2>4. /\ cmd \in Commands
        /\ pc \in {"open", "openCopy", "prime", "loop", "next", "add", "flush", "delete",
                   "close", "done", "halted"}
    OBVIOUS
  <2>5. ended \in BOOLEAN /\ readFail \in BOOLEAN /\ writeFail \in BOOLEAN /\ noHandle \in BOOLEAN
    OBVIOUS
  <2> QED
    BY <2>1, <2>2, <2>3, <2>4, <2>5 DEF ProgramOK
<1>5. Opened
  <2>1. \A f \in File : handle[f] = NULL /\ offset[f] = 0
    OBVIOUS
  <2>2. handle["file"] = NULL /\ handle["copy"] = NULL
    BY <2>1 DEF File
  <2> QED
    BY <1>2, <2>1, <2>2 DEF Opened
<1> QED
  BY <1>4, <1>5 DEF Typed, Stage, CountInFile

\* Write of the writer keeps a buffer that is not too long, and the open files.
LEMMA WriteMoves ==
  ASSUME Typed, Live, NEW f \in File, NEW b \in Octet, NEW place, Write(f, b, place)
  PROVE  /\ pc' \in {place, "halted"}
         /\ fs' \in [Path -> AnyContents \cup {Absent}]
         /\ offset' \in [File -> Nat] /\ writeFail' \in BOOLEAN
         /\ wbuf' \in AnyContents /\ Len(wbuf') <= WriterBufferSize
         /\ \A g \in File : handle[g] # NULL =>
              fs'[handle[g]] # Absent /\ offset'[g] <= Len(fs'[handle[g]])
         /\ \A g \in File : g # f => offset'[g] = offset[g]
<1>1. /\ wbuf \in AnyContents /\ Len(wbuf) \in Nat /\ Len(wbuf) <= WriterBufferSize
      /\ WriterBufferSize \in Nat \ {0}
      /\ fs \in [Path -> AnyContents \cup {Absent}]
      /\ offset \in [File -> Nat] /\ writeFail \in BOOLEAN
  BY LenProperties, ShellAssumption DEF Typed, ProgramOK, Opened, AnyContents
<1>2. \A g \in File : handle[g] # NULL => fs[handle[g]] # Absent /\ offset[g] <= Len(fs[handle[g]])
  BY DEF Typed, Opened, Live
<1>3. ASSUME handle[f] # NULL, WriteAt(f, wbuf)
      PROVE  /\ fs' \in [Path -> AnyContents \cup {Absent}]
             /\ offset' \in [File -> Nat] /\ writeFail' \in BOOLEAN
             /\ \A g \in File : handle[g] # NULL =>
                  fs'[handle[g]] # Absent /\ offset'[g] <= Len(fs'[handle[g]])
             /\ \A g \in File : g # f => offset'[g] = offset[g]
  <2>1. \A g \in File : g # f => offset'[g] = offset[g]
    BY <1>1, <1>3 DEF WriteAt
  <2> QED
    BY <1>1, <1>3, <2>1, WriteTyped
<1>4. <<b>> \in AnyContents /\ Len(<<b>>) = 1
  BY DEF AnyContents
<1>5. CASE Len(wbuf) < WriterBufferSize
  <2>1. wbuf' = Append(wbuf, b) /\ pc' = place /\ UNCHANGED <<fs, offset, writeFail>>
    BY <1>1, <1>5 DEF Write
  <2>2. Append(wbuf, b) \in AnyContents /\ Len(Append(wbuf, b)) = Len(wbuf) + 1
    BY <1>1, AppendProperties DEF AnyContents
  <2> QED
    BY <1>1, <1>2, <1>5, <2>1, <2>2
<1>6. CASE Len(wbuf) = WriterBufferSize /\ handle[f] # NULL
  <2>1. WriteAt(f, wbuf) /\ wbuf' = <<b>> /\ pc' = place
    BY <1>1, <1>6 DEF Write
  <2> QED
    BY <1>1, <1>3, <1>4, <1>6, <2>1
<1>7. CASE Len(wbuf) = WriterBufferSize /\ handle[f] = NULL
  <2>1. pc' = "halted" /\ UNCHANGED <<fs, offset, wbuf, writeFail>>
    BY <1>1, <1>7 DEF Write
  <2> QED
    BY <1>1, <1>2, <2>1
<1> QED
  BY <1>1, <1>5, <1>6, <1>7

\* Flush empties the writer, whether the bytes could be written or not.
LEMMA FlushMoves ==
  ASSUME Typed, Live, NEW f \in File, NEW place, Flush(f, place)
  PROVE  /\ pc' \in {place, "halted"} /\ (pc' = place /\ place # "halted" => wbuf' = <<>>)
         /\ fs' \in [Path -> AnyContents \cup {Absent}]
         /\ offset' \in [File -> Nat] /\ writeFail' \in BOOLEAN
         /\ wbuf' \in AnyContents /\ Len(wbuf') <= WriterBufferSize
         /\ \A g \in File : handle[g] # NULL =>
              fs'[handle[g]] # Absent /\ offset'[g] <= Len(fs'[handle[g]])
         /\ \A g \in File : g # f => offset'[g] = offset[g]
<1>1. /\ wbuf \in AnyContents /\ Len(wbuf) \in Nat /\ Len(wbuf) <= WriterBufferSize
      /\ WriterBufferSize \in Nat \ {0}
      /\ fs \in [Path -> AnyContents \cup {Absent}]
      /\ offset \in [File -> Nat] /\ writeFail \in BOOLEAN
  BY LenProperties, ShellAssumption DEF Typed, ProgramOK, Opened, AnyContents
<1>2. \A g \in File : handle[g] # NULL => fs[handle[g]] # Absent /\ offset[g] <= Len(fs[handle[g]])
  BY DEF Typed, Opened, Live
<1>3. ASSUME handle[f] # NULL, WriteAt(f, wbuf)
      PROVE  /\ fs' \in [Path -> AnyContents \cup {Absent}]
             /\ offset' \in [File -> Nat] /\ writeFail' \in BOOLEAN
             /\ \A g \in File : handle[g] # NULL =>
                  fs'[handle[g]] # Absent /\ offset'[g] <= Len(fs'[handle[g]])
             /\ \A g \in File : g # f => offset'[g] = offset[g]
  <2>1. \A g \in File : g # f => offset'[g] = offset[g]
    BY <1>1, <1>3 DEF WriteAt
  <2> QED
    BY <1>1, <1>3, <2>1, WriteTyped
<1>4. <<>> \in AnyContents /\ Len(<<>>) = 0
  BY EmptySeq DEF AnyContents
<1>5. CASE wbuf = <<>>
  <2>1. wbuf' = wbuf /\ pc' = place /\ UNCHANGED <<fs, offset, writeFail>>
    BY <1>5 DEF Flush
  <2> QED
    BY <1>1, <1>2, <1>5, <2>1
<1>6. CASE wbuf # <<>> /\ handle[f] # NULL
  <2>1. WriteAt(f, wbuf) /\ wbuf' = <<>> /\ pc' = place
    BY <1>6 DEF Flush
  <2> QED
    BY <1>1, <1>3, <1>4, <1>6, <2>1
<1>7. CASE wbuf # <<>> /\ handle[f] = NULL
  <2>1. pc' = "halted" /\ UNCHANGED <<fs, offset, wbuf, writeFail>>
    BY <1>7 DEF Flush
  <2> QED
    BY <1>1, <1>2, <2>1
<1> QED
  BY <1>5, <1>6, <1>7

\* Opening makes at most an empty file.
LEMMA OpenTyped ==
  ASSUME fs \in [Path -> AnyContents \cup {Absent}], noHandle \in BOOLEAN, <<>> \in AnyContents,
         NEW f, NEW path, NEW create, Open(f, path, create)
  PROVE  fs' \in [Path -> AnyContents \cup {Absent}] /\ noHandle' \in BOOLEAN
<1>1. fs' = fs \/ fs' = [fs EXCEPT ![path] = <<>>]
  BY DEF Open
<1>2. [fs EXCEPT ![path] = <<>>] \in [Path -> AnyContents \cup {Absent}]
  OBVIOUS
<1>3. noHandle' \in BOOLEAN
  BY DEF Open
<1> QED
  BY <1>1, <1>2, <1>3

\* Every step keeps the types, and what is open.
LEMMA NextTyped ==
  ASSUME Typed, [Next]_vars
  PROVE  (ProgramOK /\ Opened /\ Stage /\ CountInFile)'
<1> USE DEF Typed
<1>c. /\ cmd.name \in {"cp", "mv", "addline", "rm"} /\ cmd.src \in Path
      /\ cmd.name \in Copies => cmd.dst \in Path
      /\ cmd.text \in Seq(CHAR16)
  BY CommandFields DEF ProgramOK
<1>d. Added(cmd.text) \in AnyContents
  BY <1>c, AddedIs
<1>f. /\ "file" \in File /\ "copy" \in File /\ <<>> \in AnyContents /\ Len(<<>>) = 0
      /\ Absent \notin AnyContents /\ NULL \notin Path
  BY EmptySeq, ShellAssumption DEF File, AnyContents
<1>1. CASE OpenFile
  <2>0. cmd.src \in Path /\ (pc = "openCopy" => cmd.name \in Copies)
    BY <1>1, <1>c DEF OpenFile, Stage, Copies
  <2>1. fs' \in [Path -> AnyContents \cup {Absent}] /\ noHandle' \in BOOLEAN
    <3>1. fs \in [Path -> AnyContents \cup {Absent}] /\ noHandle \in BOOLEAN
      BY DEF ProgramOK, Opened
    <3>2. PICK create : Open("file", cmd.src, create)
      BY <1>1 DEF OpenFile
    <3> QED
      BY <1>f, <3>1, <3>2, OpenTyped
  <2>2. handle' = [handle EXCEPT !["file"] = handle'["file"]]
        /\ (handle'["file"] = NULL \/ (handle'["file"] = cmd.src /\ fs'[cmd.src] # Absent))
    BY <1>1, <1>c, <2>0, <1>f, ShellAssumption DEF OpenFile, Open, ProgramOK, Opened
  <2>3. handle' \in [File -> Path \cup {NULL}]
    BY <1>1, <2>0, <1>f, <2>2 DEF OpenFile, Open, ProgramOK
  <2>4. ProgramOK'
    BY <1>1, <2>1, <2>3 DEF ProgramOK, OpenFile, Copies
  <2>5. \A g \in File : handle[g] # NULL => fs'[handle[g]] # Absent
    BY <1>1, <1>c, <1>f DEF OpenFile, Open, ProgramOK, Opened
  <2>6. Opened'
    <3>1. \A g \in File : offset'[g] = 0 /\ offset' = offset
      BY <1>1 DEF OpenFile, Opened
    <3>2. \A g \in File : handle'[g] # NULL => fs'[handle'[g]] # Absent /\ offset'[g] <= Len(fs'[handle'[g]])
      <4> SUFFICES ASSUME NEW g \in File, handle'[g] # NULL
                   PROVE  fs'[handle'[g]] # Absent /\ offset'[g] <= Len(fs'[handle'[g]])
        OBVIOUS
      <4>1. fs'[handle'[g]] # Absent /\ handle'[g] \in Path
        BY <2>2, <2>3, <2>5, <1>f DEF ProgramOK
      <4>2. fs'[handle'[g]] \in AnyContents
        BY <2>1, <4>1
      <4>3. Len(fs'[handle'[g]]) \in Nat
        BY <4>2, LenProperties DEF AnyContents
      <4> QED
        BY <3>1, <4>1, <4>3
    <3>3. before' = before /\ (pc' \in {"open", "openCopy"} => fs' = before)
      BY <1>1, <1>c DEF OpenFile, Open, Opened, Copies
    <3> QED
      BY <1>1, <1>f, <1>c, <2>0, <2>1, <2>2, <3>1, <3>2, <3>3 DEF OpenFile, Opened, ProgramOK, Copies
  <2>7. Stage'
    BY <1>1, <1>f, <1>c, <2>2 DEF OpenFile, Open, Stage, Opened, Copies, ProgramOK
  <2>8. CountInFile'
    BY <1>1 DEF CountInFile, OpenFile, Copies
  <2> QED
    BY <2>4, <2>6, <2>7, <2>8
<1>2. CASE OpenCopy
  <2>0. cmd.dst \in Path /\ (pc = "openCopy" => cmd.name \in Copies)
    BY <1>2, <1>c DEF OpenCopy, Stage, Copies
  <2>1. fs' \in [Path -> AnyContents \cup {Absent}] /\ noHandle' \in BOOLEAN
    <3>1. fs \in [Path -> AnyContents \cup {Absent}] /\ noHandle \in BOOLEAN
      BY DEF ProgramOK, Opened
    <3>2. PICK create : Open("copy", cmd.dst, create)
      BY <1>2 DEF OpenCopy
    <3> QED
      BY <1>f, <3>1, <3>2, OpenTyped
  <2>2. handle' = [handle EXCEPT !["copy"] = handle'["copy"]]
        /\ (handle'["copy"] = NULL \/ (handle'["copy"] = cmd.dst /\ fs'[cmd.dst] # Absent))
    BY <1>2, <1>c, <2>0, <1>f, ShellAssumption DEF OpenCopy, Open, ProgramOK, Opened
  <2>3. handle' \in [File -> Path \cup {NULL}]
    BY <1>2, <2>0, <1>f, <2>2 DEF OpenCopy, Open, ProgramOK
  <2>4. ProgramOK'
    BY <1>2, <2>1, <2>3 DEF ProgramOK, OpenCopy, Copies
  <2>5. \A g \in File : handle[g] # NULL => fs'[handle[g]] # Absent
    BY <1>2, <1>c, <1>f DEF OpenCopy, Open, ProgramOK, Opened
  <2>6. Opened'
    <3>1. \A g \in File : offset'[g] = 0 /\ offset' = offset
      BY <1>2 DEF OpenCopy, Opened
    <3>2. \A g \in File : handle'[g] # NULL => fs'[handle'[g]] # Absent /\ offset'[g] <= Len(fs'[handle'[g]])
      <4> SUFFICES ASSUME NEW g \in File, handle'[g] # NULL
                   PROVE  fs'[handle'[g]] # Absent /\ offset'[g] <= Len(fs'[handle'[g]])
        OBVIOUS
      <4>1. fs'[handle'[g]] # Absent /\ handle'[g] \in Path
        BY <2>2, <2>3, <2>5, <1>f DEF ProgramOK
      <4>2. fs'[handle'[g]] \in AnyContents
        BY <2>1, <4>1
      <4>3. Len(fs'[handle'[g]]) \in Nat
        BY <4>2, LenProperties DEF AnyContents
      <4> QED
        BY <3>1, <4>1, <4>3
    <3>3. before' = before /\ (pc' \in {"open", "openCopy"} => fs' = before)
      BY <1>2, <1>c DEF OpenCopy, Open, Opened, Copies
    <3> QED
      BY <1>2, <1>f, <1>c, <2>0, <2>1, <2>2, <3>1, <3>2, <3>3 DEF OpenCopy, Opened, ProgramOK, Copies
  <2>7. Stage'
    BY <1>2, <1>f, <1>c, <2>2 DEF OpenCopy, Open, Stage, Opened, Copies, ProgramOK
  <2>8. CountInFile'
    BY <1>2 DEF CountInFile, OpenCopy, Copies
  <2> QED
    BY <2>4, <2>6, <2>7, <2>8
<1>3. CASE Prime
  <2>1. CASE pc' = "loop"
    <3>1. /\ ReaderNext("loop") /\ pc \in {"prime", "next"}
      BY <1>3 DEF Prime
    <3>2. /\ rbuf' \in AnyContents /\ Len(rbuf') <= ReadSize
          /\ ended' \in BOOLEAN /\ readFail' \in BOOLEAN
          /\ ended' <=> rbuf' = <<>>
          /\ offset' = [offset EXCEPT !["file"] = offset'["file"]] /\ offset'["file"] \in Nat
          /\ offset'["file"] - Len(rbuf') =
               offset["file"] - Len(rbuf) + (IF rbuf = <<>> THEN 0 ELSE 1)
          /\ offset'["file"] <= (IF handle["file"] = NULL THEN offset["file"]
                                 ELSE Len(fs[handle["file"]])) \/ offset'["file"] = offset["file"]
          /\ UNCHANGED <<fs, cmd, handle, wbuf, todo, count, before, writeFail, noHandle>>
      BY <2>1, <3>1, ReaderMoves DEF Typed
    <3>3. offset' \in [File -> Nat]
      BY <3>2 DEF ProgramOK
    <3>4. ProgramOK'
      BY <2>1, <3>2, <3>3 DEF ProgramOK
    <3>5. Opened'
      <4>1. \A f \in File : offset'[f] = IF f = "file" THEN offset'["file"] ELSE offset[f]
        BY <3>2 DEF ProgramOK
      <4> QED
        BY <2>1, <3>1, <3>2, <4>1 DEF Opened, ProgramOK
    <3>6. Stage'
      BY <1>3, <2>1, <3>2 DEF Stage, Prime
    <3>7. CountInFile'
      <4>1. Len(rbuf) \in Nat /\ Len(rbuf') \in Nat /\ count \in Nat /\ offset["file"] \in Nat
        BY <3>2, LenProperties DEF ProgramOK, AnyContents, File
      <4>2. pc = "next" => rbuf # <<>>
        BY DEF Opened
      <4>3. pc = "prime" => rbuf = <<>> /\ count = 0 /\ Len(rbuf) = 0
        BY EmptySeq DEF Opened
      <4> QED
        BY <2>1, <3>1, <3>2, <4>1, <4>2, <4>3, SMTT(30) DEF CountInFile
    <3> QED
      BY <3>4, <3>5, <3>6, <3>7
  <2>2. CASE pc' # "loop"
    <3>1. Halt
      BY <1>3, <2>2 DEF Prime, ReaderNext
    <3>2. ProgramOK'
      BY <3>1 DEF Halt, ProgramOK
    <3>3. Opened'
      BY <3>1 DEF Halt, Opened
    <3>4. Stage'
      BY <1>3, <3>1 DEF Halt, Stage, Prime, Copies
    <3>5. CountInFile'
      BY <3>1 DEF Halt, CountInFile
    <3> QED
      BY <3>2, <3>3, <3>4, <3>5
  <2> QED
    BY <2>1, <2>2
<1>4. CASE CopyByte
  <2>1. Live
    BY <1>4 DEF CopyByte, AtStep, Live, AtStep
  <2>2. Head(rbuf) \in Octet
    <3>1. rbuf # <<>>
      BY <1>4 DEF CopyByte, AtStep, Opened
    <3> QED
      BY <3>1, HeadTailProperties DEF ProgramOK, AnyContents
  <2>3. Write("copy", Head(rbuf), "next") /\ UNCHANGED <<cmd, handle, rbuf, ended, count, before, readFail, noHandle>>
    BY <1>4 DEF CopyByte, AtStep
  <2>4. "copy" \in File
    BY DEF File
  <2>5. /\ pc' \in {"next", "halted"}
        /\ fs' \in [Path -> AnyContents \cup {Absent}]
        /\ offset' \in [File -> Nat] /\ writeFail' \in BOOLEAN
        /\ wbuf' \in AnyContents /\ Len(wbuf') <= WriterBufferSize
        /\ \A g \in File : handle[g] # NULL =>
             fs'[handle[g]] # Absent /\ offset'[g] <= Len(fs'[handle[g]])
        /\ \A g \in File : g # "copy" => offset'[g] = offset[g]
    BY <2>1, <2>2, <2>3, <2>4, WriteMoves DEF Typed
  <2>6. ProgramOK'
    BY <1>4, <2>3, <2>5 DEF ProgramOK, CopyByte
  <2>7. Opened'
    BY <1>4, <2>3, <2>5, <1>c DEF Opened, CopyByte, AtStep
  <2>8. Stage'
    BY <1>4, <2>3, <2>5, <1>c DEF Stage, CopyByte, AtStep
  <2>9. CountInFile'
    BY <1>4, <2>3, <1>c DEF CountInFile, CopyByte, AtStep, Copies
  <2> QED
    BY <2>6, <2>7, <2>8, <2>9
<1>5. CASE CopyNext
  <2>1. CASE pc' = "loop"
    <3>1. /\ ReaderNext("loop") /\ pc \in {"prime", "next"}
      BY <1>5 DEF CopyNext, AtStep
    <3>2. /\ rbuf' \in AnyContents /\ Len(rbuf') <= ReadSize
          /\ ended' \in BOOLEAN /\ readFail' \in BOOLEAN
          /\ ended' <=> rbuf' = <<>>
          /\ offset' = [offset EXCEPT !["file"] = offset'["file"]] /\ offset'["file"] \in Nat
          /\ offset'["file"] - Len(rbuf') =
               offset["file"] - Len(rbuf) + (IF rbuf = <<>> THEN 0 ELSE 1)
          /\ offset'["file"] <= (IF handle["file"] = NULL THEN offset["file"]
                                 ELSE Len(fs[handle["file"]])) \/ offset'["file"] = offset["file"]
          /\ UNCHANGED <<fs, cmd, handle, wbuf, todo, count, before, writeFail, noHandle>>
      BY <2>1, <3>1, ReaderMoves DEF Typed
    <3>3. offset' \in [File -> Nat]
      BY <3>2 DEF ProgramOK
    <3>4. ProgramOK'
      BY <2>1, <3>2, <3>3 DEF ProgramOK
    <3>5. Opened'
      <4>1. \A f \in File : offset'[f] = IF f = "file" THEN offset'["file"] ELSE offset[f]
        BY <3>2 DEF ProgramOK
      <4> QED
        BY <2>1, <3>1, <3>2, <4>1 DEF Opened, ProgramOK
    <3>6. Stage'
      BY <1>5, <2>1, <3>2 DEF Stage, CopyNext, AtStep
    <3>7. CountInFile'
      <4>1. Len(rbuf) \in Nat /\ Len(rbuf') \in Nat /\ count \in Nat /\ offset["file"] \in Nat
        BY <3>2, LenProperties DEF ProgramOK, AnyContents, File
      <4>2. pc = "next" => rbuf # <<>>
        BY DEF Opened
      <4>3. pc = "prime" => rbuf = <<>> /\ count = 0 /\ Len(rbuf) = 0
        BY EmptySeq DEF Opened
      <4> QED
        BY <2>1, <3>1, <3>2, <4>1, <4>2, <4>3 DEF CountInFile
    <3> QED
      BY <3>4, <3>5, <3>6, <3>7
  <2>2. CASE pc' # "loop"
    <3>1. Halt
      BY <1>5, <2>2 DEF CopyNext, AtStep, ReaderNext
    <3>2. ProgramOK'
      BY <3>1 DEF Halt, ProgramOK
    <3>3. Opened'
      BY <3>1 DEF Halt, Opened
    <3>4. Stage'
      BY <1>5, <3>1 DEF Halt, Stage, CopyNext, AtStep, Copies
    <3>5. CountInFile'
      BY <3>1 DEF Halt, CountInFile
    <3> QED
      BY <3>2, <3>3, <3>4, <3>5
  <2> QED
    BY <2>1, <2>2
<1>6. CASE CopyDone
  <2>1. ProgramOK'
    BY <1>6, <1>f, <1>c DEF CopyDone, AtStep, ProgramOK, Opened, Stage, CountInFile
  <2>2. Opened'
    BY <1>6, <1>f, <1>c DEF CopyDone, AtStep, ProgramOK, Opened, Stage, CountInFile
  <2>3. Stage'
    BY <1>6, <1>f, <1>c DEF CopyDone, AtStep, ProgramOK, Opened, Stage, CountInFile
  <2>4. CountInFile'
    BY <1>6, <1>f, <1>c DEF CopyDone, AtStep, ProgramOK, Opened, Stage, CountInFile
  <2> QED
    BY <2>1, <2>2, <2>3, <2>4
<1>7. CASE CountByte
  <2>1. ProgramOK'
    BY <1>7, <1>f, <1>c, SMTT(30) DEF CountByte, AtStep, ProgramOK, Opened, Stage, CountInFile
  <2>2. Opened'
    BY <1>7, <1>f, <1>c DEF CountByte, AtStep, ProgramOK, Opened, Stage, CountInFile
  <2>3. Stage'
    BY <1>7, <1>f, <1>c DEF CountByte, AtStep, ProgramOK, Opened, Stage, CountInFile
  <2>4. CountInFile'
    BY <1>7, <1>f, <1>c DEF CountByte, AtStep, ProgramOK, Opened, Stage, CountInFile
  <2> QED
    BY <2>1, <2>2, <2>3, <2>4
<1>8. CASE CountNext
  <2>1. CASE pc' = "loop"
    <3>1. /\ ReaderNext("loop") /\ pc \in {"prime", "next"}
      BY <1>8 DEF CountNext, AtStep
    <3>2. /\ rbuf' \in AnyContents /\ Len(rbuf') <= ReadSize
          /\ ended' \in BOOLEAN /\ readFail' \in BOOLEAN
          /\ ended' <=> rbuf' = <<>>
          /\ offset' = [offset EXCEPT !["file"] = offset'["file"]] /\ offset'["file"] \in Nat
          /\ offset'["file"] - Len(rbuf') =
               offset["file"] - Len(rbuf) + (IF rbuf = <<>> THEN 0 ELSE 1)
          /\ offset'["file"] <= (IF handle["file"] = NULL THEN offset["file"]
                                 ELSE Len(fs[handle["file"]])) \/ offset'["file"] = offset["file"]
          /\ UNCHANGED <<fs, cmd, handle, wbuf, todo, count, before, writeFail, noHandle>>
      BY <2>1, <3>1, ReaderMoves DEF Typed
    <3>3. offset' \in [File -> Nat]
      BY <3>2 DEF ProgramOK
    <3>4. ProgramOK'
      BY <2>1, <3>2, <3>3 DEF ProgramOK
    <3>5. Opened'
      <4>1. \A f \in File : offset'[f] = IF f = "file" THEN offset'["file"] ELSE offset[f]
        BY <3>2 DEF ProgramOK
      <4> QED
        BY <2>1, <3>1, <3>2, <4>1 DEF Opened, ProgramOK
    <3>6. Stage'
      BY <1>8, <2>1, <3>2 DEF Stage, CountNext, AtStep
    <3>7. CountInFile'
      <4>1. Len(rbuf) \in Nat /\ Len(rbuf') \in Nat /\ count \in Nat /\ offset["file"] \in Nat
        BY <3>2, LenProperties DEF ProgramOK, AnyContents, File
      <4>2. pc = "next" => rbuf # <<>>
        BY DEF Opened
      <4>3. pc = "prime" => rbuf = <<>> /\ count = 0 /\ Len(rbuf) = 0
        BY EmptySeq DEF Opened
      <4> QED
        BY <2>1, <3>1, <3>2, <4>1, <4>2, <4>3 DEF CountInFile
    <3> QED
      BY <3>4, <3>5, <3>6, <3>7
  <2>2. CASE pc' # "loop"
    <3>1. Halt
      BY <1>8, <2>2 DEF CountNext, AtStep, ReaderNext
    <3>2. ProgramOK'
      BY <3>1 DEF Halt, ProgramOK
    <3>3. Opened'
      BY <3>1 DEF Halt, Opened
    <3>4. Stage'
      BY <1>8, <3>1 DEF Halt, Stage, CountNext, AtStep, Copies
    <3>5. CountInFile'
      BY <3>1 DEF Halt, CountInFile
    <3> QED
      BY <3>2, <3>3, <3>4, <3>5
  <2> QED
    BY <2>1, <2>2
<1>9. CASE Seek
  <2>1. ProgramOK'
    BY <1>9, <1>f, <1>c, <1>d DEF Seek, AtStep, ProgramOK, Opened, Stage, CountInFile, Copies
  <2>2. Opened'
    BY <1>9, <1>f, <1>c, <1>d DEF Seek, AtStep, ProgramOK, Opened, Stage, CountInFile, Copies
  <2>3. Stage'
    BY <1>9, <1>f, <1>c, <1>d DEF Seek, AtStep, ProgramOK, Opened, Stage, CountInFile, Copies
  <2>4. CountInFile'
    BY <1>9, <1>f, <1>c, <1>d DEF Seek, AtStep, ProgramOK, Opened, Stage, CountInFile, Copies
  <2> QED
    BY <2>1, <2>2, <2>3, <2>4
<1>10. CASE AddByte
  <2>1. Live
    BY <1>10 DEF AddByte, Live, AtStep
  <2>2. Head(todo) \in Octet
    BY <1>10, HeadTailProperties DEF AddByte, ProgramOK, AnyContents
  <2>3. Write("file", Head(todo), "add") /\ UNCHANGED <<cmd, handle, rbuf, ended, count, before, readFail, noHandle>>
    BY <1>10 DEF AddByte
  <2>4. "file" \in File
    BY DEF File
  <2>5. /\ pc' \in {"add", "halted"}
        /\ fs' \in [Path -> AnyContents \cup {Absent}]
        /\ offset' \in [File -> Nat] /\ writeFail' \in BOOLEAN
        /\ wbuf' \in AnyContents /\ Len(wbuf') <= WriterBufferSize
        /\ \A g \in File : handle[g] # NULL =>
             fs'[handle[g]] # Absent /\ offset'[g] <= Len(fs'[handle[g]])
        /\ \A g \in File : g # "file" => offset'[g] = offset[g]
    BY <2>1, <2>2, <2>3, <2>4, WriteMoves DEF Typed
  <2>0. todo' \in AnyContents
    BY <1>10, HeadTailProperties DEF AddByte, ProgramOK, AnyContents
  <2>6. ProgramOK'
    BY <2>0, <2>3, <2>5 DEF ProgramOK
  <2>7. Opened'
    BY <1>10, <2>3, <2>5, <1>c DEF Opened, AddByte
  <2>8. Stage'
    BY <1>10, <2>3, <2>5, <1>c DEF Stage, AddByte
  <2>9. CountInFile'
    BY <1>10, <2>5 DEF CountInFile, AddByte
  <2> QED
    BY <2>6, <2>7, <2>8, <2>9
<1>11. CASE AddDone
  <2>1. ProgramOK'
    BY <1>11, <1>f, <1>c DEF AddDone, ProgramOK, Opened, Stage, CountInFile, Copies
  <2>2. Opened'
    BY <1>11, <1>f, <1>c DEF AddDone, ProgramOK, Opened, Stage, CountInFile, Copies
  <2>3. Stage'
    BY <1>11, <1>f, <1>c DEF AddDone, ProgramOK, Opened, Stage, CountInFile, Copies
  <2>4. CountInFile'
    BY <1>11, <1>f, <1>c DEF AddDone, ProgramOK, Opened, Stage, CountInFile, Copies
  <2> QED
    BY <2>1, <2>2, <2>3, <2>4
<1>12. CASE FlushWriter
  <2> DEFINE place == IF cmd.name = "mv" THEN "delete" ELSE "close"
  <2>1. Live /\ Target \in File /\ place \in {"delete", "close"}
    BY <1>12 DEF FlushWriter, Live, Target, File
  <2>2. /\ Flush(Target, place)
        /\ UNCHANGED <<cmd, handle, rbuf, ended, todo, count, before, readFail, noHandle>>
    BY <1>12 DEF FlushWriter
  <2>3. /\ pc' \in {place, "halted"}
        /\ fs' \in [Path -> AnyContents \cup {Absent}]
        /\ offset' \in [File -> Nat] /\ writeFail' \in BOOLEAN
        /\ wbuf' \in AnyContents /\ Len(wbuf') <= WriterBufferSize
        /\ \A g \in File : handle[g] # NULL =>
             fs'[handle[g]] # Absent /\ offset'[g] <= Len(fs'[handle[g]])
    BY <2>1, <2>2, FlushMoves DEF Typed
  <2>4. ProgramOK'
    BY <2>1, <2>2, <2>3 DEF ProgramOK
  <2>5. Opened'
    BY <2>1, <2>2, <2>3, <1>c, <1>12 DEF Opened, FlushWriter
  <2>6. Stage'
    BY <2>2, <2>3, <1>c, <1>12 DEF Stage, FlushWriter, Copies
  <2>7. CountInFile'
    BY <2>1, <2>3 DEF CountInFile
  <2> QED
    BY <2>4, <2>5, <2>6, <2>7
<1>13. CASE Delete
  <2>1. ProgramOK'
    BY <1>13, <1>f, <1>c, ZenonT(40) DEF Delete, ProgramOK, Opened, Stage, CountInFile
  <2>2. Opened'
    BY <1>13, <1>f, <1>c, ZenonT(40) DEF Delete, ProgramOK, Opened, Stage, CountInFile
  <2>3. Stage'
    BY <1>13, <1>f, <1>c DEF Delete, ProgramOK, Opened, Stage, CountInFile
  <2>4. CountInFile'
    BY <1>13, <1>f, <1>c DEF Delete, ProgramOK, Opened, Stage, CountInFile
  <2> QED
    BY <2>1, <2>2, <2>3, <2>4
<1>14. CASE CloseFiles
  <2>1. ProgramOK'
    BY <1>14, <1>f, <1>c DEF CloseFiles, ProgramOK, Opened, Stage, CountInFile
  <2>2. Opened'
    BY <1>14, <1>f, <1>c DEF CloseFiles, ProgramOK, Opened, Stage, CountInFile
  <2>3. Stage'
    BY <1>14, <1>f, <1>c DEF CloseFiles, ProgramOK, Opened, Stage, CountInFile
  <2>4. CountInFile'
    BY <1>14, <1>f, <1>c DEF CloseFiles, ProgramOK, Opened, Stage, CountInFile
  <2> QED
    BY <2>1, <2>2, <2>3, <2>4
<1>15. CASE Stopped
  <2>1. ProgramOK'
    BY <1>15 DEF Stopped, vars, ProgramOK, Opened, Stage, CountInFile
  <2>2. Opened'
    BY <1>15 DEF Stopped, vars, ProgramOK, Opened, Stage, CountInFile
  <2>3. Stage'
    BY <1>15 DEF Stopped, vars, ProgramOK, Opened, Stage, CountInFile
  <2>4. CountInFile'
    BY <1>15 DEF Stopped, vars, ProgramOK, Opened, Stage, CountInFile
  <2> QED
    BY <2>1, <2>2, <2>3, <2>4
<1>16. CASE UNCHANGED vars
  <2>1. ProgramOK'
    BY <1>16 DEF vars, ProgramOK, Opened, Stage, CountInFile
  <2>2. Opened'
    BY <1>16 DEF vars, ProgramOK, Opened, Stage, CountInFile
  <2>3. Stage'
    BY <1>16 DEF vars, ProgramOK, Opened, Stage, CountInFile
  <2>4. CountInFile'
    BY <1>16 DEF vars, ProgramOK, Opened, Stage, CountInFile
  <2> QED
    BY <2>1, <2>2, <2>3, <2>4
<1> QED
  BY <1>1, <1>2, <1>3, <1>4, <1>5, <1>6, <1>7, <1>8, <1>9, <1>10, <1>11, <1>12, <1>13, <1>14, <1>15, <1>16 DEF Next, Step

-------------------------------------------------------------------------------
(* cp and mv.                                                               *)

\* What the reader delivers is the file it reads: after a call of Next it still
\* holds the bytes in front of its position, and its end is the file's, unless
\* a read failed.
LEMMA ReaderReads ==
  ASSUME Typed, pc \in {"prime", "next"}, ReaderNext("loop"), pc' = "loop",
         NEW content \in AnyContents, Reads(content),
         handle["file"] # NULL => fs[handle["file"]] = content
  PROVE  /\ Reads(content)'
         /\ offset["file"] <= Len(content) => offset'["file"] <= Len(content)
         /\ ended' /\ ~readFail' => offset'["file"] = Len(content)
<1> USE DEF Typed
<1>1. /\ rbuf \in AnyContents /\ Len(rbuf) \in Nat
      /\ offset \in [File -> Nat] /\ offset["file"] \in Nat /\ "file" \in File
      /\ Len(content) \in Nat
  BY LenProperties DEF ProgramOK, AnyContents, File
<1>2. pc = "prime" \/ rbuf # <<>>
  BY DEF Opened
<1>3. ended => rbuf = <<>>
  BY DEF Opened
<1>4. pc = "prime" => rbuf = <<>> /\ ~ended
  BY DEF Opened
<1>5. CASE Len(rbuf) > 1
  <2>1. /\ rbuf # <<>>
        /\ rbuf' = Tail(rbuf) /\ UNCHANGED <<offset, ended, readFail>>
    BY <1>1, <1>5 DEF ReaderNext
  <2>2. /\ Len(rbuf') = Len(rbuf) - 1
        /\ \A k \in 1 .. Len(rbuf') : rbuf'[k] = rbuf[k + 1]
    BY <1>1, <2>1, HeadTailProperties DEF AnyContents
  <2>3. ASSUME NEW k \in 1 .. Len(rbuf')
        PROVE  rbuf'[k] = content[offset'["file"] - Len(rbuf') + k]
    <3>1. k + 1 \in 1 .. Len(rbuf) /\ k \in Int
      BY <1>1, <2>2
    <3>2. rbuf'[k] = content[offset["file"] - Len(rbuf) + (k + 1)]
      BY <2>2, <3>1 DEF Reads
    <3>3. offset["file"] - Len(rbuf) + (k + 1) = offset["file"] - Len(rbuf') + k
      BY <1>1, <2>2, <3>1
    <3> QED
      BY <2>1, <3>2, <3>3
  <2>4. ~ended'
    BY <1>3, <2>1
  <2> QED
    BY <2>1, <2>3, <2>4 DEF Reads
<1>6. CASE Len(rbuf) <= 1
  <2>1. handle["file"] # NULL /\ ReadBuffer
    BY <1>1, <1>6 DEF ReaderNext, Halt
  <2>2. Live
    BY DEF Live
  <2>3. /\ Chunk \in AnyContents /\ Len(Chunk) \in Nat
        /\ offset["file"] + Len(Chunk) <= Len(content)
        /\ Chunk = <<>> <=> offset["file"] = Len(content)
        /\ \A k \in 1 .. Len(Chunk) : Chunk[k] = content[offset["file"] + k]
    BY <2>1, <2>2, ChunkIs, LenProperties DEF AnyContents
  <2>4. CASE rbuf' = Chunk /\ ended' = (Chunk = <<>>) /\ readFail' = readFail
             /\ offset' = [offset EXCEPT !["file"] = @ + Len(Chunk)]
    <3>1. offset'["file"] = offset["file"] + Len(Chunk)
      BY <1>1, <2>4
    <3>2. offset'["file"] - Len(rbuf') = offset["file"]
      BY <1>1, <2>3, <2>4, <3>1
    <3>3. Reads(content)'
      BY <2>3, <2>4, <3>2 DEF Reads
    <3>4. ended' => offset'["file"] = Len(content)
      <4>1. ended' => Chunk = <<>>
        BY <2>4
      <4>2. Chunk = <<>> => Len(Chunk) = 0
        OBVIOUS
      <4> QED
        BY <1>1, <2>3, <3>1, <4>1, <4>2
    <3> QED
      BY <2>3, <3>1, <3>3, <3>4
  <2>5. CASE rbuf' = <<>> /\ ended' = TRUE /\ readFail' = TRUE /\ offset' = offset
    <3>1. Len(rbuf') = 0
      BY <2>5
    <3> QED
      BY <2>5, <3>1 DEF Reads
  <2> QED
    BY <2>1, <2>4, <2>5 DEF ReadBuffer
<1> QED
  BY <1>1, <1>5, <1>6

\* What a write of the writer to the copy does: all of the bytes reach it, or a
\* failure is noted; the source stays as it is.
LEMMA CopyWrites ==
  ASSUME Typed, InTransit, Live, Moving, cmd.src # cmd.dst \/ ~writeFail',
         handle["copy"] # NULL, fs[cmd.src] = before[cmd.src],
         WriteAt("copy", wbuf)
  PROVE  /\ fs'[cmd.src] = before[cmd.src]
         /\ offset'["file"] = offset["file"]
         /\ writeFail => writeFail'
         /\ ~writeFail' =>
              /\ offset'["copy"] = Taken
              /\ Len(fs'[cmd.dst]) =
                   IF Taken > Len(fs[cmd.dst]) THEN Taken ELSE Len(fs[cmd.dst])
              /\ \A k \in 1 .. Len(fs'[cmd.dst]) :
                   fs'[cmd.dst][k] = IF Written < k /\ k <= Taken THEN before[cmd.src][k]
                                     ELSE fs[cmd.dst][k]
              /\ fs'[cmd.dst] # Absent
<1> DEFINE old == fs[cmd.dst]
           new == fs'[cmd.dst]
           at == offset["copy"]
<1>1. /\ handle["copy"] = cmd.dst /\ "copy" \in File /\ "file" \in File
      /\ cmd.src \in Path /\ cmd.dst \in Path /\ wbuf \in AnyContents
      /\ fs \in [Path -> AnyContents \cup {Absent}] /\ offset \in [File -> Nat]
      /\ before[cmd.src] \in AnyContents /\ writeFail \in BOOLEAN
  <2>1. before \in [Path -> AnyContents \cup {Absent}]
    BY DEF Typed, Opened
  <2> QED
    BY <2>1, CommandFields DEF Typed, ProgramOK, Opened, File, Moving
<1>2. PICK n \in 0 .. Len(wbuf) :
        /\ fs' = [fs EXCEPT ![cmd.dst] = new]
        /\ old \in AnyContents /\ new \in AnyContents
        /\ at \in Nat /\ at <= Len(old)
        /\ Len(new) = IF at + n > Len(old) THEN at + n ELSE Len(old)
        /\ \A k \in 1 .. Len(new) :
             new[k] = IF k <= at THEN old[k]
                      ELSE IF k <= at + n THEN wbuf[k - at] ELSE old[k]
        /\ offset' = [offset EXCEPT !["copy"] = at + n]
        /\ writeFail' = (writeFail \/ n < Len(wbuf))
  <2> DEFINE is == fs[handle["copy"]]
             gets == fs'[handle["copy"]]
  <2> HIDE DEF is, gets
  <2>1. \E n \in 0 .. Len(wbuf) :
          /\ fs' = [fs EXCEPT ![handle["copy"]] = gets]
          /\ is \in AnyContents /\ gets \in AnyContents
          /\ offset["copy"] \in Nat /\ offset["copy"] <= Len(is)
          /\ Len(gets) = IF offset["copy"] + n > Len(is) THEN offset["copy"] + n ELSE Len(is)
          /\ \A k \in 1 .. Len(gets) :
               gets[k] = IF k <= offset["copy"] THEN is[k]
                         ELSE IF k <= offset["copy"] + n THEN wbuf[k - offset["copy"]] ELSE is[k]
          /\ offset' = [offset EXCEPT !["copy"] = offset["copy"] + n]
          /\ writeFail' = (writeFail \/ n < Len(wbuf))
    BY <1>1, WriteReaches DEF is, gets
  <2>2. is = old /\ gets = new
    BY <1>1 DEF is, gets
  <2>3. fs' = [fs EXCEPT ![handle["copy"]] = gets] => fs' = [fs EXCEPT ![cmd.dst] = new]
    BY <1>1, <2>2
  <2> HIDE DEF old, new
  <2> QED
    BY <2>1, <2>2, <2>3
<1>3. n \in Nat /\ Len(wbuf) \in Nat /\ Len(old) \in Nat /\ Len(new) \in Nat /\ n <= Len(wbuf)
  BY <1>1, <1>2, LenProperties DEF AnyContents
<1>4. offset'["file"] = offset["file"] /\ (writeFail => writeFail') /\ offset'["copy"] = at + n
  BY <1>1, <1>2
<1>5. ~writeFail' => n = Len(wbuf) /\ ~writeFail
  <2>1. ~writeFail' => ~(n < Len(wbuf)) /\ ~writeFail
    BY <1>2
  <2>2. ~(n < Len(wbuf)) => n = Len(wbuf)
    BY <1>3
  <2> QED
    BY <2>1, <2>2
<1>6. new # Absent
  BY <1>2, ShellAssumption
<1>7. ASSUME ~writeFail'
      PROVE  /\ at + n = Taken
             /\ \A k \in 1 .. Len(new) :
                  new[k] = IF at < k /\ k <= at + n THEN before[cmd.src][k] ELSE old[k]
  <2>1. at + n = Taken
    BY <1>5, <1>7 DEF Taken, Written
  <2>2. /\ n = Len(wbuf)
        /\ \A k \in 1 .. Len(wbuf) : wbuf[k] = before[cmd.src][at + k]
    BY <1>5, <1>7 DEF InTransit, WriterHolds, Written
  <2>3. ASSUME NEW k \in 1 .. Len(new)
        PROVE  new[k] = IF at < k /\ k <= at + n THEN before[cmd.src][k] ELSE old[k]
    <3>1. k \in Nat
      BY <1>3
    <3>2. CASE at < k /\ k <= at + n
      <4>1. k - at \in 1 .. Len(wbuf)
        BY <1>2, <1>3, <2>2, <3>1, <3>2
      <4>2. new[k] = wbuf[k - at]
        BY <1>2, <1>3, <3>1, <3>2
      <4>3. wbuf[k - at] = before[cmd.src][at + (k - at)]
        BY <2>2, <4>1
      <4>4. at + (k - at) = k
        BY <1>2, <3>1
      <4> QED
        BY <3>2, <4>2, <4>3, <4>4
    <3>3. CASE ~(at < k /\ k <= at + n)
      BY <1>2, <1>3, <3>1, <3>3
    <3> QED
      BY <3>2, <3>3
  <2> QED
    BY <2>1, <2>3
<1>8. fs'[cmd.src] = before[cmd.src]
  <2>1. CASE cmd.src # cmd.dst
    BY <1>1, <1>2, <2>1
  <2>2. CASE cmd.src = cmd.dst
    <3>1. ~writeFail' /\ old = before[cmd.src]
      BY <2>2
    <3>2. at + n <= Len(old)
      <4>1. Taken <= Len(before[cmd.src])
        BY <1>5, <3>1 DEF InTransit, WriterHolds
      <4> QED
        BY <1>7, <3>1, <4>1
    <3>3. Len(new) = Len(old)
      BY <1>2, <1>3, <3>2
    <3>4. \A k \in 1 .. Len(new) : new[k] = old[k]
      BY <1>7, <3>1
    <3>5. new \in Seq(Octet) /\ old \in Seq(Octet)
      BY <1>2 DEF AnyContents
    <3> HIDE DEF new, old
    <3>6. new = old
      BY <3>3, <3>4, <3>5, SeqEqual
    <3> QED
      BY <2>2, <3>1, <3>6 DEF new, old
  <2> QED
    BY <2>1, <2>2
<1>9. Written = at
  BY DEF Written
<1> HIDE DEF new, old, at
<1>10. ~writeFail' =>
         /\ offset'["copy"] = Taken
         /\ Len(new) = IF Taken > Len(old) THEN Taken ELSE Len(old)
         /\ \A k \in 1 .. Len(new) :
              new[k] = IF Written < k /\ k <= Taken THEN before[cmd.src][k] ELSE old[k]
         /\ new # Absent
  BY <1>2, <1>4, <1>6, <1>7, <1>9
<1> QED
  BY <1>4, <1>8, <1>10 DEF new, old

\* A step leaves the command and the volume it started from; a failed write
\* and a failed read stay known.
LEMMA NextKeeps ==
  ASSUME [Next]_vars
  PROVE  cmd' = cmd /\ before' = before /\ (writeFail => writeFail') /\ (readFail => readFail')
         /\ (noHandle => noHandle')
<1>1. ASSUME NEW place, ReaderNext(place)
      PROVE  cmd' = cmd /\ before' = before /\ writeFail' = writeFail
             /\ (readFail => readFail') /\ noHandle' = noHandle
  BY <1>1 DEF ReaderNext, ReadBuffer, Halt
<1>2. ASSUME NEW f, NEW b, NEW place, Write(f, b, place) \/ Flush(f, place)
      PROVE  writeFail => writeFail'
  BY <1>2 DEF Write, Flush, WriteAt
<1>3. CASE OpenFile \/ OpenCopy
  BY <1>3 DEF OpenFile, OpenCopy, Open
<1>4. CASE Prime \/ CopyNext \/ CountNext
  BY <1>1, <1>4 DEF Prime, CopyNext, CountNext
<1>5. CASE CopyByte \/ AddByte \/ FlushWriter
  BY <1>2, <1>5 DEF CopyByte, AddByte, FlushWriter
<1>6. CASE CopyDone \/ CountByte \/ Seek \/ AddDone \/ Delete \/ CloseFiles \/ Stopped
           \/ UNCHANGED vars
  BY <1>6 DEF CopyDone, CountByte, Seek, AddDone, Delete, CloseFiles, Stopped, vars
<1> QED
  BY <1>3, <1>4, <1>5, <1>6 DEF Next, Step

\* A step that moves no byte keeps what the reader and the writer hold.
LEMMA NothingMoves ==
  ASSUME InTransit, Moving, Moving', pc' \notin {"loop", "next"},
         UNCHANGED <<cmd, before, offset, rbuf, wbuf, ended, readFail, writeFail>>
  PROVE  ReaderHolds' /\ WriterHolds'
<1>1. ReaderHolds'
  BY DEF InTransit, ReaderHolds, Reads
<1>2. WriterHolds'
  BY DEF InTransit, WriterHolds, Taken, Written
<1> QED
  BY <1>1, <1>2

\* The reader's step in cp and mv.
LEMMA TransitReads ==
  ASSUME Typed, InTransit, Moving, Moving', ReaderNext("loop"), pc \in {"prime", "next"}
  PROVE  InTransit'
<1> DEFINE content == before[cmd.src]
<1>1. /\ content \in AnyContents /\ fs[cmd.src] = content /\ Reads(content)
      /\ handle["file"] \in {NULL, cmd.src}
  <2>1. before \in [Path -> AnyContents \cup {Absent}] /\ cmd.src \in Path
    BY CommandFields DEF Typed, ProgramOK, Opened
  <2> QED
    BY <2>1 DEF Moving, InTransit, SourceThere, ReaderHolds, Typed, Opened
<1>2. CASE pc' = "loop"
  <2>1. /\ Reads(content)'
        /\ offset["file"] <= Len(content) => offset'["file"] <= Len(content)
        /\ ended' /\ ~readFail' => offset'["file"] = Len(content)
    <3>1. PICK c \in AnyContents : c = content
      BY <1>1
    <3>2. Reads(c) /\ (handle["file"] # NULL => fs[handle["file"]] = c)
      BY <1>1, <3>1 DEF Reads
    <3>3. /\ Reads(c)'
          /\ offset["file"] <= Len(c) => offset'["file"] <= Len(c)
          /\ ended' /\ ~readFail' => offset'["file"] = Len(c)
      <4> HIDE DEF content
      <4> QED
        BY <1>2, <3>2, ReaderReads
    <3>4. content' = c
      <4>1. cmd' = cmd /\ before' = before
        BY <1>2, ReaderMoves DEF ReaderNext
      <4> QED
        BY <3>1, <4>1
    <3> QED
      BY <3>1, <3>3, <3>4 DEF Reads
  <2>2. /\ rbuf' \in AnyContents /\ ended' \in BOOLEAN /\ readFail' \in BOOLEAN
        /\ ended' <=> rbuf' = <<>>
        /\ offset'["file"] - Len(rbuf') =
             offset["file"] - Len(rbuf) + (IF rbuf = <<>> THEN 0 ELSE 1)
        /\ offset' = [offset EXCEPT !["file"] = offset'["file"]] /\ offset'["file"] \in Nat
        /\ UNCHANGED <<fs, cmd, handle, wbuf, before, writeFail>>
    BY <1>2, ReaderMoves
  <2>3. offset["file"] \in Nat /\ Len(rbuf) \in Nat /\ Len(wbuf) \in Nat /\ Len(content) \in Nat
        /\ offset["copy"] \in Nat /\ offset'["copy"] = offset["copy"] /\ Len(rbuf') \in Nat
    BY <1>1, <2>2, LenProperties DEF Typed, ProgramOK, File, AnyContents
  <2>4. Taken' = Taken /\ Written' = Written /\ content' = content /\ Taken \in Int
    BY <2>2, <2>3 DEF Taken, Written
  <2>5. SourceThere' /\ ReaderHolds'
    BY <1>1, <2>1, <2>2 DEF SourceThere, ReaderHolds
  <2>6. ASSUME ~writeFail
        PROVE  /\ Taken = offset'["file"] - Len(rbuf')
               /\ offset["file"] <= Len(content)
               /\ Taken <= Len(content)
               /\ \A k \in 1 .. Len(wbuf) : wbuf[k] = content[Written + k]
    <3>1. /\ Taken <= Len(content)
          /\ \A k \in 1 .. Len(wbuf) : wbuf[k] = content[Written + k]
          /\ pc = "next" => Taken = offset["file"] - Len(rbuf) + 1 /\ offset["file"] <= Len(content)
      BY <2>6 DEF InTransit, WriterHolds
    <3>2. CASE pc = "next"
      <4>1. rbuf # <<>>
        BY <3>2 DEF Typed, Opened
      <4> QED
        BY <2>2, <2>3, <3>1, <3>2, <4>1
    <3>3. CASE pc = "prime"
      <4>1. rbuf = <<>> /\ wbuf = <<>> /\ offset["file"] = 0 /\ offset["copy"] = 0
        BY <3>3 DEF Typed, Opened, File
      <4>2. Len(rbuf) = 0 /\ Len(wbuf) = 0
        BY <4>1
      <4>3. Taken = 0
        BY <4>1, <4>2 DEF Taken, Written
      <4> QED
        BY <2>2, <2>3, <3>1, <4>1, <4>2, <4>3
    <3> QED
      BY <3>2, <3>3
  <2>7. WriterHolds'
    <3> SUFFICES ASSUME ~writeFail PROVE WriterHolds'
      BY <2>2 DEF WriterHolds
    <3>1. ended' => Len(rbuf') = 0
      BY <2>2
    <3>2. ended' /\ ~readFail' => Taken = Len(content)
      BY <2>1, <2>3, <2>4, <2>6, <3>1
    <3>3. \A k \in 1 .. Len(wbuf) : wbuf[k] = content[Written + k]
      BY <2>6
    <3>4. Taken <= Len(content) /\ offset'["file"] <= Len(content) /\ Taken = offset'["file"] - Len(rbuf')
      BY <2>1, <2>6
    <3> HIDE DEF content
    <3>5. wbuf' = wbuf /\ before[cmd.src]' = content
      BY <2>2 DEF content
    <3> QED
      BY <1>2, <2>4, <3>2, <3>3, <3>4, <3>5 DEF WriterHolds
  <2> QED
    BY <2>5, <2>7 DEF InTransit
<1>3. CASE pc' # "loop"
  <2>1. Halt
    BY <1>3 DEF ReaderNext
  <2>2. ReaderHolds' /\ WriterHolds'
    BY <2>1, NothingMoves DEF Halt
  <2>3. SourceThere'
    BY <1>1, <2>1 DEF Halt, SourceThere
  <2> QED
    BY <2>2, <2>3 DEF InTransit
<1> QED
  BY <1>2, <1>3

\* A byte goes from the reader to the writer.
LEMMA TransitWrites ==
  ASSUME Typed, InTransit, Moving, Moving', CopyByte
  PROVE  InTransit'
<1> DEFINE content == before[cmd.src]
           b == Head(rbuf)
<1>1. /\ Write("copy", b, "next") /\ pc = "loop" /\ ~ended
      /\ UNCHANGED <<cmd, handle, rbuf, ended, before, readFail>>
  BY DEF CopyByte, AtStep
<1>2. rbuf \in Seq(Octet) /\ rbuf # <<>> /\ wbuf \in Seq(Octet)
  BY <1>1 DEF Typed, ProgramOK, Opened, AnyContents
<1>3. /\ Len(rbuf) \in Nat /\ Len(rbuf) > 0 /\ b = rbuf[1] /\ Len(wbuf) \in Nat
      /\ offset["file"] \in Nat /\ offset["copy"] \in Nat /\ b \in Octet
  BY <1>2, HeadTailProperties, LenProperties DEF Typed, ProgramOK, File
<1>4. /\ fs[cmd.src] = content /\ Live
      /\ \A k \in 1 .. Len(rbuf) : rbuf[k] = content[offset["file"] - Len(rbuf) + k]
  BY <1>1 DEF InTransit, SourceThere, ReaderHolds, Reads, Live
<1>5. content \in AnyContents /\ Len(content) \in Nat
  <2>1. before \in [Path -> AnyContents \cup {Absent}] /\ cmd.src \in Path
    BY CommandFields DEF Typed, ProgramOK, Opened
  <2>2. content \in AnyContents
    BY <2>1 DEF Moving
  <2> QED
    BY <2>2, LenProperties DEF AnyContents
<1>6. ASSUME ~writeFail
      PROVE  /\ Taken = offset["file"] - Len(rbuf) /\ Taken \in Nat
             /\ Taken + 1 <= Len(content)
             /\ b = content[Taken + 1]
             /\ \A k \in 1 .. Len(wbuf) : wbuf[k] = content[Written + k]
  <2>1. /\ Taken = offset["file"] - Len(rbuf) /\ offset["file"] <= Len(content)
        /\ \A k \in 1 .. Len(wbuf) : wbuf[k] = content[Written + k]
    BY <1>1, <1>6 DEF InTransit, WriterHolds
  <2>2. Taken \in Nat
    BY <1>3 DEF Taken, Written
  <2>3. b = content[offset["file"] - Len(rbuf) + 1]
    BY <1>3, <1>4
  <2> QED
    BY <1>3, <1>5, <2>1, <2>2, <2>3
<1>7. ASSUME SourceThere', offset'["file"] = offset["file"], writeFail => writeFail',
             pc' \in {"next", "halted"},
             ~writeFail' =>
               /\ Len(wbuf') \in Nat
               /\ Taken' = IF pc' = "next" THEN Taken + 1 ELSE Taken
               /\ \A k \in 1 .. Len(wbuf') : wbuf'[k] = content[Written' + k]
      PROVE  InTransit'
  <2>1. ReaderHolds'
    BY <1>1, <1>4, <1>7 DEF ReaderHolds, Reads
  <2>2. WriterHolds'
    <3> SUFFICES ASSUME ~writeFail' PROVE WriterHolds'
      BY DEF WriterHolds
    <3>1. ~writeFail
      BY <1>7
    <3>2. Taken' <= Len(content) /\ (pc' = "next" => Taken' = offset["file"] - Len(rbuf) + 1)
      BY <1>5, <1>6, <1>7, <3>1
    <3>3. offset["file"] <= Len(content)
      BY <1>1, <3>1 DEF InTransit, WriterHolds
    <3> HIDE DEF content
    <3>4. before[cmd.src]' = content
      BY <1>1 DEF content
    <3>5. pc' # "loop" /\ ~ended'
      BY <1>1, <1>7
    <3>6. \A k \in 1 .. Len(wbuf') : wbuf'[k] = content[Written' + k]
      BY <1>7
    <3>7. Taken' = offset'["file"] - Len(rbuf') + 1 \/ pc' # "next"
      BY <1>1, <1>7, <3>2
    <3> QED
      BY <1>7, <3>2, <3>3, <3>4, <3>5, <3>6, <3>7 DEF WriterHolds
  <2> QED
    BY <1>7, <2>1, <2>2 DEF InTransit
<1>8. CASE Len(wbuf) < WriterBufferSize
  <2>1. wbuf' = Append(wbuf, b) /\ pc' = "next" /\ UNCHANGED <<fs, offset, writeFail>>
    BY <1>1, <1>8, <1>3, ShellAssumption DEF Write
  <2>2. /\ Len(wbuf') = Len(wbuf) + 1
        /\ \A k \in 1 .. Len(wbuf) : wbuf'[k] = wbuf[k]
        /\ wbuf'[Len(wbuf) + 1] = b
    BY <1>2, <1>3, <2>1, AppendProperties
  <2>3. SourceThere'
    BY <1>1, <1>4, <2>1 DEF SourceThere
  <2>4. Written' = Written /\ Taken' = Taken + 1
    <3>1. Written' = Written
      BY <2>1 DEF Written
    <3>2. Taken' = Written + (Len(wbuf) + 1)
      BY <2>2, <3>1 DEF Taken
    <3>3. Written \in Int /\ Len(wbuf) \in Int
      BY <1>3 DEF Written
    <3> HIDE DEF Written
    <3> QED
      BY <3>1, <3>2, <3>3 DEF Taken
  <2>5. ASSUME ~writeFail, NEW k \in 1 .. Len(wbuf')
        PROVE  wbuf'[k] = content[Written + k]
    <3>1. CASE k \in 1 .. Len(wbuf)
      BY <1>6, <2>2, <2>5, <3>1
    <3>2. CASE k = Len(wbuf) + 1
      <4>1. Taken + 1 = Written + k
        BY <1>3, <3>2 DEF Taken, Written
      <4> QED
        BY <1>6, <2>2, <2>5, <3>2, <4>1
    <3>3. k \in 1 .. Len(wbuf) \/ k = Len(wbuf) + 1
      BY <1>3, <2>2
    <3> QED
      BY <3>1, <3>2, <3>3
  <2>6. Len(wbuf') \in Nat
    BY <1>3, <2>2
  <2> QED
    BY <1>7, <2>1, <2>3, <2>4, <2>5, <2>6
<1>9. CASE Len(wbuf) = WriterBufferSize /\ handle["copy"] # NULL
  <2>1. WriteAt("copy", wbuf) /\ wbuf' = <<b>> /\ pc' = "next"
    BY <1>1, <1>9, <1>3, ShellAssumption DEF Write
  <2>2. cmd.src # cmd.dst \/ ~writeFail'
    BY <1>1 DEF Moving
  <2>3. /\ fs'[cmd.src] = before[cmd.src]
        /\ offset'["file"] = offset["file"]
        /\ writeFail => writeFail'
        /\ ~writeFail' => offset'["copy"] = Taken
    BY <1>4, <1>9, <2>1, <2>2, CopyWrites
  <2>4. SourceThere'
    BY <1>1, <2>3 DEF SourceThere
  <2>5. Len(wbuf') = 1 /\ wbuf'[1] = b
    BY <2>1
  <2>6. ASSUME ~writeFail'
        PROVE  Taken' = Taken + 1 /\ \A k \in 1 .. Len(wbuf') : wbuf'[k] = content[Written' + k]
    <3>1. Written' = Taken /\ Taken' = Taken + 1
      BY <2>3, <2>5, <2>6 DEF Taken, Written
    <3>2. b = content[Taken + 1]
      BY <1>6, <2>3, <2>6
    <3> QED
      BY <2>5, <3>1, <3>2
  <2> QED
    BY <1>7, <2>1, <2>3, <2>4, <2>5, <2>6
<1>10. CASE Len(wbuf) = WriterBufferSize /\ handle["copy"] = NULL
  <2>1. pc' = "halted" /\ UNCHANGED <<fs, offset, wbuf, writeFail>>
    BY <1>1, <1>10, <1>3, ShellAssumption DEF Write
  <2>2. SourceThere'
    BY <1>1, <1>4, <2>1 DEF SourceThere
  <2>3. Written' = Written /\ Taken' = Taken
    BY <2>1 DEF Taken, Written
  <2> QED
    BY <1>3, <1>6, <1>7, <2>1, <2>2, <2>3
<1>11. Len(wbuf) <= WriterBufferSize /\ WriterBufferSize \in Nat
  BY ShellAssumption DEF Typed, ProgramOK
<1> QED
  BY <1>3, <1>8, <1>9, <1>10, <1>11

\* What is left in the writer goes to the copy.
LEMMA TransitFlushes ==
  ASSUME Typed, InTransit, Moving, Moving', FlushWriter
  PROVE  InTransit'
<1>1. /\ Flush("copy", IF cmd.name = "mv" THEN "delete" ELSE "close") /\ pc = "flush"
      /\ UNCHANGED <<cmd, rbuf, ended, before, readFail>>
  BY DEF FlushWriter, Moving, Target
<1>2. fs[cmd.src] = before[cmd.src] /\ Live
  BY <1>1 DEF InTransit, SourceThere, Live
<1>3. pc' \in {"delete", "close", "halted"}
  BY <1>1 DEF Flush
<1>4. CASE UNCHANGED <<fs, offset, wbuf, writeFail>>
  <2>1. ReaderHolds' /\ WriterHolds'
    BY <1>1, <1>3, <1>4, NothingMoves
  <2>2. SourceThere'
    BY <1>1, <1>2, <1>4 DEF SourceThere
  <2> QED
    BY <2>1, <2>2 DEF InTransit
<1>5. CASE handle["copy"] # NULL /\ WriteAt("copy", wbuf) /\ wbuf' = <<>>
  <2>1. cmd.src # cmd.dst \/ ~writeFail'
    BY <1>1 DEF Moving
  <2>2. /\ fs'[cmd.src] = before[cmd.src]
        /\ offset'["file"] = offset["file"]
        /\ writeFail => writeFail'
        /\ ~writeFail' => offset'["copy"] = Taken
    BY <1>2, <1>5, <2>1, CopyWrites
  <2>3. SourceThere'
    BY <1>1, <2>2 DEF SourceThere
  <2>4. ReaderHolds'
    BY <1>1, <2>2 DEF InTransit, ReaderHolds, Reads
  <2>5. WriterHolds'
    <3> SUFFICES ASSUME ~writeFail' PROVE WriterHolds'
      BY DEF WriterHolds
    <3>1. Len(wbuf') = 0 /\ offset["copy"] \in Nat /\ Len(wbuf) \in Nat
      BY <1>5, LenProperties DEF Typed, ProgramOK, File, AnyContents
    <3>2. Taken' = Taken
      BY <2>2, <3>1 DEF Taken, Written
    <3>3. Taken <= Len(before[cmd.src]) /\ (ended /\ ~readFail => Taken = Len(before[cmd.src]))
      BY <2>2 DEF InTransit, WriterHolds
    <3> QED
      BY <1>1, <1>3, <3>1, <3>2, <3>3 DEF WriterHolds
  <2> QED
    BY <2>3, <2>4, <2>5 DEF InTransit
<1> QED
  BY <1>1, <1>4, <1>5 DEF Flush

\* Every step keeps the source of a copy, and the bytes on their way.
LEMMA NextInTransit ==
  ASSUME Typed, InTransit, [Next]_vars
  PROVE  InTransit'
<1>1. CASE ~Moving'
  BY <1>1 DEF InTransit, SourceThere, ReaderHolds, WriterHolds
<1>2. CASE Moving'
  <2>1. cmd' = cmd /\ before' = before /\ (writeFail => writeFail')
    BY NextKeeps
  <2>2. Moving /\ cmd.name \in Copies /\ before[cmd.src] # Absent
    BY <1>2, <2>1 DEF Moving
  <2>3. SourceThere /\ ReaderHolds /\ WriterHolds
    BY DEF InTransit
  <2>4. /\ cmd.name # "addline" /\ cmd.name # "rm" /\ pc # "add"
        /\ cmd.src \in Path /\ cmd.dst \in Path
    BY <2>2, CommandFields DEF Copies, Typed, ProgramOK, Stage
  <2>5. before[cmd.src] \in AnyContents /\ Len(before[cmd.src]) \in Nat
    <3>1. before[cmd.src] \in AnyContents
      BY <2>2, <2>4 DEF Typed, Opened
    <3> QED
      BY <3>1, LenProperties DEF AnyContents
  <2>6. CASE OpenFile \/ OpenCopy
    <3>1. /\ UNCHANGED <<offset, rbuf, wbuf, ended, readFail, writeFail>>
          /\ pc' \in {"openCopy", "prime"}
      BY <2>2, <2>6 DEF OpenFile, OpenCopy
    <3>2. ReaderHolds' /\ WriterHolds'
      BY <1>2, <2>1, <2>2, <3>1, NothingMoves
    <3>3. fs[cmd.src] = before[cmd.src]
      BY <2>2, <2>3, <2>6 DEF SourceThere, OpenFile, OpenCopy
    <3>4. fs'[cmd.src] = fs[cmd.src]
      <4>1. fs \in [Path -> AnyContents \cup {Absent}]
        BY DEF Typed, Opened
      <4> QED
        BY <2>2, <2>4, <2>6, <3>3, <4>1 DEF OpenFile, OpenCopy, Open
    <3>5. SourceThere'
      BY <2>1, <3>3, <3>4 DEF SourceThere
    <3> QED
      BY <3>2, <3>5 DEF InTransit
  <2>7. CASE Prime \/ CopyNext
    BY <1>2, <2>2, <2>7, TransitReads DEF Prime, CopyNext, AtStep
  <2>8. CASE CopyByte
    BY <1>2, <2>2, <2>8, TransitWrites
  <2>9. CASE FlushWriter
    BY <1>2, <2>2, <2>9, TransitFlushes
  <2>10. CASE CopyDone \/ Delete \/ CloseFiles
    <3>1. /\ UNCHANGED <<offset, rbuf, wbuf, ended, readFail, writeFail>>
          /\ pc' \in {"flush", "close", "done"}
      BY <2>10 DEF CopyDone, Delete, CloseFiles
    <3>2. ReaderHolds' /\ WriterHolds'
      BY <1>2, <2>1, <2>2, <3>1, NothingMoves
    <3>3. SourceThere'
      <4>1. CASE Delete
        <5>1. cmd.name = "mv" /\ pc' = "close"
          BY <2>2, <4>1 DEF Delete, Typed, Stage, Copies
        <5> QED
          BY <2>1, <5>1 DEF SourceThere
      <4>2. CASE CopyDone \/ CloseFiles
        <5>1. fs' = fs /\ (pc \in {"close", "done"} => pc' \in {"close", "done"})
          BY <4>2 DEF CopyDone, CloseFiles, AtStep
        <5> QED
          BY <2>1, <2>2, <2>3, <5>1 DEF SourceThere
      <4> QED
        BY <2>10, <4>1, <4>2
    <3> QED
      BY <3>2, <3>3 DEF InTransit
  <2>11. CASE CountByte \/ CountNext \/ Seek \/ AddByte \/ AddDone
    BY <2>4, <2>11 DEF CountByte, CountNext, Seek, AddByte, AddDone, AtStep
  <2>12. CASE Stopped \/ UNCHANGED vars
    <3>1. UNCHANGED vars
      BY <2>12 DEF Stopped
    <3>2. SourceThere' /\ ReaderHolds'
      BY <2>2, <2>3, <3>1 DEF vars, SourceThere, ReaderHolds, Reads
    <3>3. WriterHolds'
      BY <2>2, <2>3, <3>1 DEF vars, WriterHolds, Taken, Written
    <3> QED
      BY <3>2, <3>3 DEF InTransit
  <2> QED
    BY <2>6, <2>7, <2>8, <2>9, <2>10, <2>11, <2>12 DEF Next, Step
<1> QED
  BY <1>1, <1>2

LEMMA InitInTransit == Init => InTransit
<1> SUFFICES ASSUME Init PROVE InTransit
  OBVIOUS
<1>1. Typed
  BY InitTyped
<1>2. fs = before /\ rbuf = <<>> /\ wbuf = <<>> /\ offset["copy"] = 0 /\ pc = "open" /\ ended = FALSE
  BY DEF Init, File
<1>3. Len(rbuf) = 0 /\ Len(wbuf) = 0 /\ Taken = 0
  BY <1>2 DEF Taken, Written
<1>4. SourceThere /\ ReaderHolds
  BY <1>2, <1>3 DEF SourceThere, ReaderHolds, Reads
<1>5. WriterHolds
  <2>1. Moving => before[cmd.src] \in AnyContents
    BY <1>1, CommandFields DEF Typed, ProgramOK, Opened, Moving
  <2>2. Moving => 0 <= Len(before[cmd.src])
    BY <2>1, LenProperties DEF AnyContents
  <2> QED
    BY <1>2, <1>3, <2>2 DEF WriterHolds
<1> QED
  BY <1>4, <1>5 DEF InTransit

\* What the writer writes goes behind what it has written.
LEMMA StoresBehind ==
  ASSUME Typed, InTransit, Live, Storing, Stored, NoFault', handle["copy"] # NULL,
         WriteAt("copy", wbuf), UNCHANGED <<cmd, before>>
  PROVE  Stored'
<1> DEFINE content == before[cmd.src]
           was == Original(cmd.dst)
           old == fs[cmd.dst]
           new == fs'[cmd.dst]
           taken == Taken
           written == Written
<1>1. /\ cmd.name \in Copies /\ cmd.dst \in Path /\ ~writeFail /\ ~writeFail' /\ Moving
      /\ fs[cmd.src] = before[cmd.src]
  <2>1. cmd.name \in Copies /\ cmd.dst \in Path /\ cmd.src \in Path /\ ~writeFail /\ ~writeFail'
    BY CommandFields DEF Storing, NoFault, Typed, ProgramOK
  <2>2. before[cmd.src] # Absent
    BY DEF Storing, NoFault, Typed, Stage
  <2>3. Moving
    BY <2>1, <2>2 DEF Moving
  <2> QED
    BY <2>1, <2>3 DEF InTransit, SourceThere, Live
<1>2. /\ offset'["copy"] = taken
      /\ Len(new) = IF taken > Len(old) THEN taken ELSE Len(old)
      /\ \A k \in 1 .. Len(new) :
           new[k] = IF written < k /\ k <= taken THEN content[k] ELSE old[k]
      /\ new # Absent
  BY <1>1, CopyWrites
<1>3. /\ Len(old) = IF written > Len(was) THEN written ELSE Len(was)
      /\ \A k \in 1 .. Len(old) : old[k] = IF k <= written THEN content[k] ELSE was[k]
      /\ old # Absent
  BY DEF Stored
<1>4. written \in Nat /\ taken \in Nat /\ written <= taken /\ Len(was) \in Nat
  <2>1. written \in Nat /\ Len(wbuf) \in Nat
    BY LenProperties DEF Typed, ProgramOK, File, AnyContents, Written
  <2>2. was \in AnyContents
    BY <1>1, EmptySeq DEF Original, Typed, Opened, AnyContents
  <2> QED
    BY <2>1, <2>2, LenProperties DEF AnyContents, Taken, Written
<1>5. Written' = taken /\ Original(cmd.dst)' = was /\ before[cmd.src]' = content /\ fs[cmd.dst]' = new
  BY <1>2 DEF Written, Original
<1> HIDE DEF content, was, old, new, taken, written
<1>6. Len(old) \in Nat /\ Len(new) \in Nat
  BY <1>2, <1>3, <1>4
<1>7. Len(new) = IF taken > Len(was) THEN taken ELSE Len(was)
  BY <1>2, <1>3, <1>4
<1>8. ASSUME NEW k \in 1 .. Len(new)
      PROVE  new[k] = IF k <= taken THEN content[k] ELSE was[k]
  <2>1. k \in Nat /\ k >= 1 /\ k <= Len(new)
    BY <1>6
  <2>2. CASE written < k /\ k <= taken
    BY <1>2, <2>2
  <2>3. CASE k <= written
    <3>1. k \in 1 .. Len(old) /\ k <= taken
      BY <1>3, <1>4, <1>6, <2>1, <2>3
    <3>2. ~(written < k)
      BY <1>4, <2>1, <2>3
    <3> QED
      BY <1>2, <1>3, <2>3, <3>1, <3>2
  <2>4. CASE k > taken
    <3>1. k \in 1 .. Len(old) /\ ~(k <= written) /\ ~(k <= taken)
      BY <1>2, <1>4, <1>6, <2>1, <2>4
    <3> QED
      BY <1>2, <1>3, <3>1
  <2> QED
    BY <1>4, <2>1, <2>2, <2>3, <2>4
<1> QED
  BY <1>2, <1>5, <1>7, <1>8 DEF Stored

\* Every step of cp and mv keeps what the destination holds.
LEMMA NextCopyHolds ==
  ASSUME Typed, InTransit, CopyHolds, [Next]_vars
  PROVE  CopyHolds'
<1>1. cmd' = cmd /\ before' = before /\ (NoFault' => NoFault)
  BY NextKeeps DEF NoFault
<1>2. CASE cmd.name \notin Copies
  BY <1>1, <1>2 DEF CopyHolds, Storing
<1>3. CASE cmd.name \in Copies
  <2>1. /\ cmd.src \in Path /\ cmd.dst \in Path /\ cmd.name # "addline" /\ cmd.name # "rm"
        /\ pc # "add"
    BY <1>3, CommandFields DEF Copies, Typed, ProgramOK, Stage
  <2>2. fs \in [Path -> AnyContents \cup {Absent}]
    BY DEF Typed, Opened
  <2>3. ASSUME fs'[cmd.dst] = fs[cmd.dst], offset'["copy"] = offset["copy"], Stored
        PROVE  Stored'
    BY <1>1, <2>3 DEF Stored, Written, Original
  <2>4. CASE OpenFile
    BY <1>3, <2>4 DEF OpenFile, CopyHolds, Storing
  <2>5. CASE OpenCopy
    <3>1. pc = "openCopy" /\ pc' = "prime" /\ offset' = offset
      BY <2>5 DEF OpenCopy
    <3>2. fs = before /\ offset["copy"] = 0
      BY <3>1 DEF Typed, Opened, File
    <3>3. Original(cmd.dst) \in AnyContents /\ Len(Original(cmd.dst)) \in Nat
      <4>1. Original(cmd.dst) \in AnyContents
        BY <2>1, <2>2, <3>2, EmptySeq DEF Original, AnyContents
      <4> QED
        BY <4>1, LenProperties DEF AnyContents
    <3>4. ~noHandle' => fs'[cmd.dst] = Original(cmd.dst)
      <4>1. ~noHandle' => fs' = IF fs[cmd.dst] = Absent THEN [fs EXCEPT ![cmd.dst] = <<>>] ELSE fs
        BY <2>5 DEF OpenCopy, Open
      <4> QED
        BY <2>1, <2>2, <3>2, <4>1 DEF Original
    <3>5. ~noHandle' => Stored'
      <4> SUFFICES ASSUME ~noHandle' PROVE Stored'
        OBVIOUS
      <4>1. Written' = 0 /\ Original(cmd.dst)' = Original(cmd.dst) /\ fs[cmd.dst]' = Original(cmd.dst)
        BY <1>1, <3>1, <3>2, <3>4 DEF Written, Original
      <4>2. Original(cmd.dst) # Absent
        BY <3>3, ShellAssumption
      <4>3. \A k \in 1 .. Len(Original(cmd.dst)) : ~(k <= 0)
        BY <3>3
      <4>4. ~(0 > Len(Original(cmd.dst)))
        BY <3>3
      <4> QED
        BY <4>1, <4>2, <4>3, <4>4 DEF Stored
    <3> QED
      BY <3>1, <3>5 DEF CopyHolds, Storing, NoFault
  <2>6. CASE Prime \/ CopyNext
    <3>1. ReaderNext("loop") /\ pc \in {"prime", "next"}
      BY <2>6 DEF Prime, CopyNext, AtStep
    <3>2. fs' = fs /\ offset'["copy"] = offset["copy"] /\ pc' \in {"loop", "halted"}
      <4>1. offset \in [File -> Nat] /\ "copy" \in File
        BY DEF Typed, ProgramOK, File
      <4> QED
        BY <3>1, <4>1 DEF ReaderNext, ReadBuffer, Halt
    <3>3. Storing' => Storing
      BY <1>1, <3>1 DEF Storing
    <3> QED
      BY <2>3, <3>2, <3>3 DEF CopyHolds
  <2>7. CASE CopyByte \/ FlushWriter
    <3>1. /\ pc \in {"loop", "flush"} /\ Live /\ pc' \notin {"open", "openCopy"}
          /\ pc' \in {"flush", "delete", "close", "done"} => pc = "flush" /\ ended /\ ended'
          /\ pc' \in {"delete", "close", "done"} => wbuf' = <<>>
      <4>1. CASE CopyByte
        BY <4>1 DEF CopyByte, AtStep, Write, Live
      <4>2. CASE FlushWriter
        BY <1>3, <4>2 DEF FlushWriter, Flush, Live, CopyHolds
      <4> QED
        BY <2>7, <4>1, <4>2
    <3>2. UNCHANGED <<fs, offset>> \/ (handle["copy"] # NULL /\ WriteAt("copy", wbuf))
      BY <1>3, <2>7 DEF CopyByte, FlushWriter, Target, Write, Flush
    <3>3. Storing' => Storing /\ Stored
      BY <1>1, <3>1 DEF CopyHolds, Storing, Live
    <3>4. Storing' => NoFault'
      BY DEF Storing
    <3>5. Storing' => Stored'
      BY <1>1, <2>3, <3>1, <3>2, <3>3, <3>4, StoresBehind
    <3> QED
      BY <3>1, <3>5 DEF CopyHolds
  <2>8. CASE CopyDone \/ CloseFiles
    <3>1. /\ fs' = fs /\ offset' = offset /\ wbuf' = wbuf /\ ended' = ended
          /\ pc \in {"loop", "close"} /\ (pc = "loop" => ended /\ pc' = "flush")
          /\ pc = "close" => pc' = "done"
      BY <2>8 DEF CopyDone, CloseFiles, AtStep
    <3>2. Storing' => Storing
      BY <1>1, <3>1 DEF Storing
    <3> QED
      BY <1>3, <2>3, <3>1, <3>2 DEF CopyHolds
  <2>9. CASE Delete
    <3>1. /\ pc = "delete" /\ pc' = "close" /\ offset' = offset /\ wbuf' = wbuf /\ ended' = ended
          /\ cmd.name = "mv"
      BY <1>3, <2>9 DEF Delete, Typed, Stage, Copies
    <3>2. cmd.src # cmd.dst => fs'[cmd.dst] = fs[cmd.dst]
      <4>1. handle["file"] \in {NULL, cmd.src}
        BY DEF Typed, Opened
      <4> QED
        BY <2>1, <2>2, <2>9, <4>1 DEF Delete
    <3>3. Storing' => Storing /\ cmd.src # cmd.dst
      BY <1>1, <3>1 DEF Storing
    <3> QED
      BY <1>3, <2>3, <3>1, <3>2, <3>3 DEF CopyHolds
  <2>10. CASE CountByte \/ CountNext \/ Seek \/ AddByte \/ AddDone
    BY <2>1, <2>10 DEF CountByte, CountNext, Seek, AddByte, AddDone, AtStep
  <2>11. CASE Stopped \/ UNCHANGED vars
    <3>1. UNCHANGED vars
      BY <2>11 DEF Stopped
    <3>2. Storing' => Storing
      BY <3>1 DEF vars, Storing, NoFault
    <3>3. UNCHANGED <<fs, offset, pc, wbuf, ended>>
      BY <3>1 DEF vars
    <3> QED
      BY <1>3, <2>3, <3>2, <3>3 DEF CopyHolds
  <2> QED
    BY <2>4, <2>5, <2>6, <2>7, <2>8, <2>9, <2>10, <2>11 DEF Next, Step
<1> QED
  BY <1>2, <1>3

-------------------------------------------------------------------------------
(* addline.                                                                 *)

\* The reader has an open file, and when it ends without a failed read it is at
\* the end of it.
LEMMA ReaderEnds ==
  ASSUME Typed, pc \in {"prime", "next"}, ReaderNext("loop"), pc' = "loop", ~readFail'
  PROVE  /\ pc = "prime" => handle["file"] # NULL
         /\ ended' => handle["file"] # NULL /\ offset'["file"] = Len(fs[handle["file"]])
<1> USE DEF Typed
<1>1. rbuf \in AnyContents /\ Len(rbuf) \in Nat /\ offset \in [File -> Nat] /\ "file" \in File
  BY LenProperties DEF ProgramOK, AnyContents, File
<1>2. pc = "prime" => Len(rbuf) = 0
  BY DEF Opened
<1>3. pc = "prime" => handle["file"] # NULL
  BY <1>1, <1>2 DEF ReaderNext, Halt
<1>4. ended' => Len(rbuf) <= 1
  <2> SUFFICES ASSUME ended', ~(Len(rbuf) <= 1) PROVE FALSE
    OBVIOUS
  <2>1. ended' = ended
    BY DEF ReaderNext
  <2>2. Len(rbuf) = 0
    BY <2>1 DEF Opened
  <2> QED
    BY <2>2
<1>5. ASSUME ended'
      PROVE  handle["file"] # NULL /\ offset'["file"] = Len(fs[handle["file"]])
  <2>0. ~(Len(rbuf) > 1)
    BY <1>1, <1>4, <1>5
  <2>1. handle["file"] # NULL /\ ReadBuffer
    BY <2>0 DEF ReaderNext, Halt
  <2>2. Chunk = <<>> /\ offset' = [offset EXCEPT !["file"] = @ + Len(Chunk)]
    BY <1>5, <2>1 DEF ReadBuffer
  <2>3. offset["file"] = Len(fs[handle["file"]]) /\ offset["file"] \in Nat
    BY <2>1, <2>2, ChunkIs DEF Live
  <2>4. Len(Chunk) = 0
    BY <2>2
  <2> QED
    BY <1>1, <2>1, <2>2, <2>3, <2>4
<1> QED
  BY <1>3, <1>5

\* Every step of addline counts what the file holds, until it is at its end.
LEMMA NextCounting ==
  ASSUME Typed, Counting, [Next]_vars
  PROVE  Counting'
<1>1. cmd' = cmd /\ before' = before /\ (readFail => readFail')
  BY NextKeeps
<1>2. CASE cmd.name # "addline" \/ readFail'
  BY <1>1, <1>2 DEF Counting
<1>3. CASE cmd.name = "addline" /\ ~readFail'
  <2>0. ~readFail /\ cmd.name = "addline" /\ Original(cmd.src)' = Original(cmd.src)
    BY <1>1, <1>3 DEF Original
  <2>1. /\ cmd.src \in Path /\ cmd.name \notin Copies /\ pc \notin {"openCopy", "delete"}
        /\ handle["file"] \in {NULL, cmd.src} /\ fs \in [Path -> AnyContents \cup {Absent}]
    BY <2>0, CommandFields DEF Copies, Typed, ProgramOK, Stage, Opened
  <2>2. /\ count \in Nat /\ Len(rbuf) \in Nat /\ offset["file"] \in Nat
    BY LenProperties DEF Typed, ProgramOK, File, AnyContents
  <2>3. CASE OpenFile
    <3>1. pc' = "prime" /\ fs = before
      BY <2>0, <2>3 DEF OpenFile, Copies, Typed, Opened
    <3>2. CASE handle' = [handle EXCEPT !["file"] = NULL] /\ UNCHANGED fs
      <4>1. handle'["file"] = NULL
        BY <3>2 DEF Typed, ProgramOK, File
      <4> QED
        BY <1>1, <3>1, <3>2, <4>1 DEF Counting
    <3>3. CASE /\ fs' = IF fs[cmd.src] = Absent THEN [fs EXCEPT ![cmd.src] = <<>>] ELSE fs
               /\ handle' = [handle EXCEPT !["file"] = cmd.src]
      <4>1. fs'[cmd.src] = Original(cmd.src)
        BY <2>1, <3>1, <3>3 DEF Original
      <4>2. handle'["file"] # NULL
        BY <2>1, <3>3, ShellAssumption DEF Typed, ProgramOK, File
      <4> QED
        BY <1>1, <2>0, <3>1, <4>1, <4>2 DEF Counting
    <3> QED
      BY <2>3, <3>2, <3>3 DEF OpenFile, Open
  <2>4. CASE Prime \/ CountNext
    <3>1. ReaderNext("loop") /\ pc \in {"prime", "next"}
      BY <2>4 DEF Prime, CountNext, AtStep
    <3>2. CASE pc' = "loop"
      <4>1. /\ UNCHANGED <<fs, handle, wbuf, count>> /\ rbuf' \in AnyContents
            /\ offset'["file"] - Len(rbuf') =
                 offset["file"] - Len(rbuf) + (IF rbuf = <<>> THEN 0 ELSE 1)
            /\ offset'["file"] \in Nat
        BY <3>1, <3>2, ReaderMoves
      <4>2. handle["file"] # NULL /\ (ended' => offset'["file"] = Len(fs[handle["file"]]))
        <5>1. pc = "next" => handle["file"] # NULL
          BY <2>0 DEF Counting
        <5> QED
          BY <1>3, <3>1, <3>2, <5>1, ReaderEnds
      <4>3. handle["file"] = cmd.src /\ fs[cmd.src] = Original(cmd.src)
        BY <2>0, <2>1, <3>1, <4>2 DEF Counting
      <4>4. wbuf = <<>>
        BY <2>0, <3>1 DEF Counting, Typed, Opened
      <4>5. count + Len(rbuf') = offset'["file"]
        <5>1. Len(rbuf') \in Nat
          BY <4>1, LenProperties DEF AnyContents
        <5>2. CASE pc = "next"
          <6>1. rbuf # <<>> /\ count + Len(rbuf) = offset["file"] + 1
            BY <2>0, <5>2 DEF Counting, Typed, Opened
          <6> QED
            BY <2>2, <4>1, <5>1, <6>1, SMTT(30)
        <5>3. CASE pc = "prime"
          <6>1. rbuf = <<>> /\ count = 0 /\ offset["file"] = 0
            BY <5>3 DEF Typed, Opened, File
          <6>2. Len(rbuf) = 0
            BY <6>1
          <6> QED
            BY <2>2, <4>1, <5>1, <6>1, <6>2
        <5> QED
          BY <3>1, <5>2, <5>3
      <4> QED
        BY <1>1, <2>0, <3>2, <4>1, <4>2, <4>3, <4>4, <4>5 DEF Counting
    <3>3. CASE pc' # "loop"
      <4>1. Halt /\ handle["file"] = NULL
        BY <3>1, <3>3 DEF ReaderNext
      <4>2. pc = "prime"
        BY <2>0, <3>1, <4>1 DEF Counting
      <4> QED
        BY <2>0, <4>1, <4>2 DEF Counting, Halt
    <3> QED
      BY <3>2, <3>3
  <2>5. CASE CountByte
    <3>1. /\ pc = "loop" /\ pc' = "next" /\ count' = count + 1
          /\ UNCHANGED <<fs, handle, offset, rbuf, wbuf>>
      BY <2>5 DEF CountByte, AtStep
    <3>2. count + Len(rbuf) = offset["file"]
      BY <2>0, <3>1 DEF Counting
    <3>3. count' + Len(rbuf') = offset'["file"] + 1
      BY <2>2, <3>1, <3>2
    <3> QED
      BY <1>1, <2>0, <3>1, <3>3 DEF Counting
  <2>6. CASE Seek \/ AddDone
    <3>1. /\ pc \in {"loop", "add"} /\ pc' \in {"add", "flush"} /\ handle' = handle
      BY <2>6 DEF Seek, AddDone, AtStep
    <3> QED
      BY <2>0, <3>1 DEF Counting
  <2>7. CASE AddByte \/ FlushWriter
    <3>1. /\ pc \in {"add", "flush"} /\ handle' = handle
          /\ pc' \in {"add", "close"} \/ (pc' = "halted" /\ handle["file"] = NULL)
      BY <2>0, <2>1, <2>7 DEF AddByte, FlushWriter, Write, Flush, Target
    <3>2. handle["file"] # NULL
      BY <2>0, <3>1 DEF Counting
    <3> QED
      BY <3>1, <3>2 DEF Counting
  <2>8. CASE CloseFiles
    BY <2>8 DEF CloseFiles, Counting
  <2>9. CASE OpenCopy \/ CopyByte \/ CopyNext \/ CopyDone \/ Delete
    BY <2>1, <2>9 DEF OpenCopy, CopyByte, CopyNext, CopyDone, Delete, AtStep
  <2>10. CASE Stopped \/ UNCHANGED vars
    <3>1. UNCHANGED vars
      BY <2>10 DEF Stopped
    <3> QED
      BY <2>0, <3>1 DEF vars, Counting
  <2> QED
    BY <2>3, <2>4, <2>5, <2>6, <2>7, <2>8, <2>9, <2>10 DEF Next, Step
<1> QED
  BY <1>2, <1>3

\* What the writer writes goes behind the end of the file.
LEMMA Grows ==
  ASSUME Typed, Live, cmd.name = "addline", Grown, ~writeFail => Pending,
         handle["file"] = cmd.src, handle["file"] # NULL, WriteAt("file", wbuf),
         UNCHANGED <<cmd, before>>
  PROVE  /\ Grown'
         /\ writeFail => writeFail'
         /\ ~writeFail' => Appended' = Appended + Len(wbuf)
<1> DEFINE was == Original(cmd.src)
           text == Added(cmd.text)
           is == fs[handle["file"]]
           gets == fs'[handle["file"]]
           at == offset["file"]
           grown == Appended
<1> HIDE DEF is, gets
<1>1. PICK n \in 0 .. Len(wbuf) :
        /\ fs' = [fs EXCEPT ![handle["file"]] = gets]
        /\ is \in AnyContents /\ gets \in AnyContents
        /\ at \in Nat /\ at <= Len(is)
        /\ Len(gets) = IF at + n > Len(is) THEN at + n ELSE Len(is)
        /\ \A k \in 1 .. Len(gets) :
             gets[k] = IF k <= at THEN is[k]
                       ELSE IF k <= at + n THEN wbuf[k - at] ELSE is[k]
        /\ offset' = [offset EXCEPT !["file"] = at + n]
        /\ writeFail' = (writeFail \/ n < Len(wbuf))
  <2>1. "file" \in File /\ wbuf \in AnyContents
    BY DEF File, Typed, ProgramOK
  <2> QED
    BY <2>1, WriteReaches DEF is, gets
<1>2. is = fs[cmd.src] /\ gets = fs'[cmd.src]
  BY DEF is, gets
<1>3. /\ n \in Nat /\ Len(wbuf) \in Nat /\ n <= Len(wbuf) /\ Len(gets) \in Nat
      /\ offset'["file"] = at + n
  <2>1. Len(wbuf) \in Nat /\ Len(gets) \in Nat
    BY <1>1, LenProperties DEF Typed, ProgramOK, AnyContents
  <2>2. offset'["file"] = at + n
    BY <1>1 DEF Typed, ProgramOK, File
  <2> QED
    BY <1>1, <2>1, <2>2
<1>4. /\ Len(is) = at /\ grown >= 0
      /\ \A k \in 1 .. Len(was) : is[k] = was[k]
      /\ ~writeFail => \A k \in 1 .. grown : is[Len(was) + k] = text[k]
  BY <1>2 DEF Grown
<1>5. Len(was) \in Nat
  <2>1. was \in AnyContents
    BY CommandFields, EmptySeq DEF Original, Typed, ProgramOK, Opened, AnyContents
  <2> QED
    BY <2>1, LenProperties DEF AnyContents
<1>6. grown = at - Len(was) /\ Appended' = offset'["file"] - Len(was)
  BY DEF Appended, Original
<1>7. ~writeFail' => ~writeFail /\ n = Len(wbuf)
  <2>1. ~writeFail' => ~writeFail /\ ~(n < Len(wbuf))
    BY <1>1
  <2>2. ~(n < Len(wbuf)) => n = Len(wbuf)
    BY <1>3
  <2> QED
    BY <2>1, <2>2
<1>8. ~writeFail => \A k \in 1 .. Len(wbuf) : wbuf[k] = text[grown + k]
  BY DEF Pending
<1>9. Original(cmd.src)' = was /\ Added(cmd.text)' = text /\ fs[cmd.src]' = gets
  BY <1>2 DEF Original, Added
<1>10. gets # Absent
  BY <1>1, ShellAssumption
<1> HIDE DEF was, text, at, grown
<1>11. Len(gets) = at + n
  BY <1>1, <1>3, <1>4
<1>12. ASSUME NEW k \in 1 .. Len(was) PROVE gets[k] = was[k]
  <2>1. k \in 1 .. Len(gets) /\ k <= at
    BY <1>1, <1>3, <1>4, <1>5, <1>6, <1>11
  <2> QED
    BY <1>1, <1>4, <2>1
<1>13. ASSUME ~writeFail', NEW k \in 1 .. at + n - Len(was)
       PROVE  gets[Len(was) + k] = text[k]
  <2>1. n = Len(wbuf) /\ ~writeFail
    BY <1>7, <1>13
  <2>2. k \in Nat /\ k >= 1 /\ k <= at + n - Len(was) /\ Len(was) + k \in 1 .. Len(gets)
    BY <1>1, <1>3, <1>5, <1>11
  <2>3. CASE k <= grown
    <3>1. Len(was) + k <= at /\ k \in 1 .. grown
      BY <1>1, <1>5, <1>6, <2>2, <2>3
    <3>2. gets[Len(was) + k] = is[Len(was) + k]
      BY <1>1, <2>2, <3>1
    <3> QED
      BY <1>4, <2>1, <3>1, <3>2
  <2>4. CASE k > grown
    <3>1. /\ Len(was) + k - at \in 1 .. Len(wbuf) /\ ~(Len(was) + k <= at)
          /\ Len(was) + k <= at + n /\ grown + (Len(was) + k - at) = k
      BY <1>1, <1>3, <1>5, <1>6, <2>1, <2>2, <2>4
    <3>2. gets[Len(was) + k] = wbuf[Len(was) + k - at]
      BY <1>1, <2>2, <3>1, SMTT(30)
    <3>3. wbuf[Len(was) + k - at] = text[grown + (Len(was) + k - at)]
      BY <1>8, <2>1, <3>1
    <3> QED
      BY <3>1, <3>2, <3>3
  <2> QED
    BY <1>1, <1>5, <1>6, <2>2, <2>3, <2>4
<1>14. Appended' = at + n - Len(was) /\ Appended' >= 0
  BY <1>1, <1>3, <1>4, <1>5, <1>6
<1>15. Grown'
  BY <1>3, <1>9, <1>10, <1>11, <1>12, <1>13, <1>14 DEF Grown
<1>16. ~writeFail' => Appended' = grown + Len(wbuf)
  BY <1>1, <1>3, <1>5, <1>6, <1>7, <1>14
<1>17. writeFail => writeFail'
  BY <1>1
<1> QED
  BY <1>15, <1>16, <1>17 DEF grown

\* The next byte of the text is added to those that wait for it to be written.
LEMMA PendingMoves ==
  ASSUME Typed, Pending, todo # <<>>, Appended \in Int, todo' = Tail(todo), cmd' = cmd,
         \/ wbuf' = Append(wbuf, Head(todo)) /\ Appended' = Appended
         \/ wbuf' = <<Head(todo)>> /\ Appended' = Appended + Len(wbuf)
  PROVE  Pending'
<1> DEFINE text == Added(cmd.text)
           grown == Appended
           b == Head(todo)
<1>1. wbuf \in Seq(Octet) /\ todo \in Seq(Octet) /\ Len(wbuf) \in Nat /\ Len(todo) \in Nat
  BY LenProperties DEF Typed, ProgramOK, AnyContents
<1>2. /\ Len(todo') = Len(todo) - 1 /\ Len(todo) >= 1
      /\ \A k \in 1 .. Len(todo) - 1 : todo'[k] = todo[k + 1]
      /\ b = todo[1] /\ b \in Octet
  BY <1>1, HeadTailProperties
<1>3. /\ grown + Len(wbuf) + Len(todo) = Len(text)
      /\ \A k \in 1 .. Len(wbuf) : wbuf[k] = text[grown + k]
      /\ \A k \in 1 .. Len(todo) : todo[k] = text[grown + Len(wbuf) + k]
  BY DEF Pending
<1>4. text' = text
  BY DEF Added
<1>5. b = text[grown + Len(wbuf) + 1]
  BY <1>1, <1>2, <1>3
<1>6. \A k \in 1 .. Len(todo') : todo'[k] = text[grown + Len(wbuf) + (k + 1)]
  BY <1>1, <1>2, <1>3
<1>7. Appended' + Len(wbuf') = grown + Len(wbuf) + 1
      /\ \A k \in 1 .. Len(wbuf') : wbuf'[k] = text[Appended' + k]
  <2>1. CASE wbuf' = Append(wbuf, b) /\ Appended' = Appended
    <3>1. /\ Len(wbuf') = Len(wbuf) + 1 /\ wbuf'[Len(wbuf) + 1] = b
          /\ \A k \in 1 .. Len(wbuf) : wbuf'[k] = wbuf[k]
      BY <1>1, <1>2, <2>1, AppendProperties
    <3>2. ASSUME NEW k \in 1 .. Len(wbuf')
          PROVE  wbuf'[k] = text[grown + k]
      <4>1. k \in 1 .. Len(wbuf) \/ k = Len(wbuf) + 1
        BY <1>1, <3>1
      <4>2. CASE k \in 1 .. Len(wbuf)
        BY <1>3, <3>1, <4>2
      <4>3. CASE k = Len(wbuf) + 1
        <5>1. grown + k = grown + Len(wbuf) + 1
          BY <1>1, <4>3
        <5> QED
          BY <1>5, <3>1, <4>3, <5>1
      <4> QED
        BY <4>1, <4>2, <4>3
    <3> QED
      BY <1>1, <2>1, <3>1, <3>2
  <2>2. CASE wbuf' = <<b>> /\ Appended' = Appended + Len(wbuf)
    <3>1. Len(wbuf') = 1 /\ wbuf'[1] = b
      BY <2>2
    <3> QED
      BY <1>1, <1>5, <2>2, <3>1
  <2> QED
    BY <2>1, <2>2
<1> HIDE DEF text, grown, b
<1>8. ASSUME NEW k \in 1 .. Len(todo')
      PROVE  todo'[k] = text[Appended' + Len(wbuf') + k]
  <2>1. Appended' + Len(wbuf') + k = grown + Len(wbuf) + (k + 1)
    BY <1>1, <1>2, <1>7 DEF grown
  <2> QED
    BY <1>6, <2>1
<1>9. Appended' + Len(wbuf') + Len(todo') = Len(text)
  BY <1>1, <1>2, <1>3, <1>7 DEF grown
<1>10. Added(cmd.text)' = text
  BY <1>4 DEF text
<1> QED
  BY <1>7, <1>8, <1>9, <1>10 DEF Pending

\* Every step of addline keeps what the file held, and the text on its way.
LEMMA NextAdding ==
  ASSUME Typed, Counting, Adding, [Next]_vars
  PROVE  Adding'
<1>1. cmd' = cmd /\ before' = before /\ (readFail => readFail') /\ (writeFail => writeFail')
  BY NextKeeps
<1>2. CASE cmd.name # "addline" \/ readFail'
  BY <1>1, <1>2 DEF Adding
<1>3. CASE cmd.name = "addline" /\ ~readFail'
  <2>0. /\ ~readFail /\ cmd.name = "addline" /\ cmd'.name = "addline"
        /\ Original(cmd.src)' = Original(cmd.src) /\ Added(cmd.text)' = Added(cmd.text)
    BY <1>1, <1>3 DEF Original, Added
  <2>1. /\ cmd.src \in Path /\ cmd.name \notin Copies /\ pc \notin {"openCopy", "delete"}
        /\ handle["file"] \in {NULL, cmd.src}
    BY <2>0, CommandFields DEF Copies, Typed, ProgramOK, Stage, Opened
  <2>2. /\ offset["file"] \in Nat /\ Len(rbuf) \in Nat /\ count \in Nat
        /\ Original(cmd.src) \in AnyContents /\ Len(Original(cmd.src)) \in Nat
    <3>1. Original(cmd.src) \in AnyContents
      BY <2>1, EmptySeq DEF Original, Typed, Opened, AnyContents
    <3> QED
      BY <3>1, LenProperties DEF Typed, ProgramOK, File, AnyContents
  <2>3. Appended \in Int
    BY <2>2 DEF Appended
  <2>4. ASSUME UNCHANGED <<fs, offset, writeFail>>, Grown PROVE Grown'
    BY <1>1, <2>0, <2>4 DEF Grown, Appended
  <2>5. ASSUME UNCHANGED <<offset, wbuf, todo>>, Pending PROVE Pending'
    BY <1>1, <2>0, <2>5 DEF Pending, Appended
  <2>6. CASE OpenFile \/ Prime \/ CountByte \/ CountNext
    <3>1. pc' \in {"prime", "loop", "next", "halted"}
      BY <2>0, <2>6 DEF OpenFile, Prime, CountByte, CountNext, ReaderNext, Halt, Copies
    <3> QED
      BY <3>1 DEF Adding
  <2>7. CASE Seek
    <3>1. /\ pc = "loop" /\ ended /\ pc' = "add" /\ todo' = Added(cmd.text)
          /\ UNCHANGED <<fs, rbuf, wbuf, handle>>
          /\ offset' = [offset EXCEPT !["file"] = count] \/ offset' = offset
      BY <2>7 DEF Seek, AtStep
    <3>2. /\ handle["file"] # NULL /\ fs[cmd.src] = Original(cmd.src) /\ wbuf = <<>>
          /\ count + Len(rbuf) = offset["file"] /\ offset["file"] = Len(Original(cmd.src))
      BY <2>0, <3>1 DEF Counting
    <3>3. Len(rbuf) = 0 /\ Len(wbuf) = 0
      BY <3>1, <3>2 DEF Typed, Opened
    <3>4. offset'["file"] = Len(Original(cmd.src))
      BY <2>2, <3>1, <3>2, <3>3 DEF Typed, ProgramOK, File
    <3>5. Appended' = 0
      BY <1>1, <2>0, <2>2, <3>4 DEF Appended
    <3>6. Grown'
      <4>1. fs'[cmd'.src] = Original(cmd.src) /\ Original(cmd.src) # Absent
        BY <1>1, <2>2, <3>1, <3>2, ShellAssumption
      <4>2. \A k \in 1 .. Appended' : FALSE
        BY <3>5
      <4>3. Appended' >= 0
        BY <3>5
      <4> QED
        BY <1>1, <2>0, <3>4, <4>1, <4>2, <4>3 DEF Grown
    <3>7. Pending'
      <4>1. cmd.text \in Seq(CHAR16)
        BY CommandFields DEF Typed, ProgramOK
      <4>2. Added(cmd.text) \in AnyContents /\ Len(Added(cmd.text)) \in Nat
        <5>1. Added(cmd.text) \in AnyContents
          BY <4>1, AddedIs
        <5> QED
          BY <5>1, LenProperties DEF AnyContents
      <4>3. Len(wbuf') = 0
        BY <3>1, <3>3
      <4>4. 0 + 0 + Len(todo') = Len(Added(cmd.text))
            /\ \A k \in 1 .. Len(todo') : 0 + 0 + k = k
        BY <3>1, <4>2
      <4>5. \A k \in 1 .. Len(wbuf') : FALSE
        BY <4>3
      <4>6. \A k \in 1 .. Len(todo') : todo'[k] = Added(cmd.text)[Appended' + Len(wbuf') + k]
        BY <3>1, <3>5, <4>3, <4>4
      <4> QED
        BY <2>0, <3>5, <4>3, <4>4, <4>5, <4>6 DEF Pending
    <3> QED
      BY <3>1, <3>6, <3>7 DEF Adding
  <2>8. CASE AddByte
    <3>1. /\ pc = "add" /\ todo # <<>> /\ todo' = Tail(todo) /\ handle' = handle /\ Live
          /\ Write("file", Head(todo), "add")
      BY <2>8 DEF AddByte, Live
    <3>2. handle["file"] = cmd.src /\ handle["file"] # NULL
      BY <2>0, <2>1, <3>1 DEF Counting
    <3>3. Grown /\ (~writeFail => Pending)
      BY <2>0, <3>1 DEF Adding
    <3>4. /\ pc' = "add"
          /\ \/ UNCHANGED <<fs, offset, writeFail>> /\ wbuf' = Append(wbuf, Head(todo))
             \/ WriteAt("file", wbuf) /\ wbuf' = <<Head(todo)>>
      BY <3>1, <3>2 DEF Write
    <3>5. CASE UNCHANGED <<fs, offset, writeFail>> /\ wbuf' = Append(wbuf, Head(todo))
      <4>1. Appended' = Appended
        BY <1>1, <2>0, <3>5 DEF Appended
      <4>2. ~writeFail' => Pending'
        BY <1>1, <2>3, <3>1, <3>3, <3>5, <4>1, PendingMoves
      <4> QED
        BY <2>4, <3>3, <3>4, <3>5, <4>2 DEF Adding
    <3>6. CASE WriteAt("file", wbuf) /\ wbuf' = <<Head(todo)>>
      <4>1. Grown' /\ (~writeFail' => ~writeFail /\ Appended' = Appended + Len(wbuf))
        BY <1>1, <2>0, <3>1, <3>2, <3>3, <3>6, Grows
      <4>2. ~writeFail' => Pending'
        BY <1>1, <2>3, <3>1, <3>3, <3>6, <4>1, PendingMoves
      <4> QED
        BY <3>4, <4>1, <4>2 DEF Adding
    <3> QED
      BY <3>4, <3>5, <3>6
  <2>9. CASE FlushWriter
    <3>1. /\ pc = "flush" /\ UNCHANGED <<handle, todo>> /\ Live /\ Flush("file", "close")
      BY <2>0, <2>1, <2>9 DEF FlushWriter, Live, Target
    <3>2. handle["file"] = cmd.src /\ handle["file"] # NULL
      BY <2>0, <2>1, <3>1 DEF Counting
    <3>3. Grown /\ (~writeFail => Pending) /\ todo = <<>>
      BY <2>0, <3>1 DEF Adding
    <3>4. /\ pc' = "close" /\ wbuf' = <<>>
          /\ UNCHANGED <<fs, offset, wbuf, writeFail>> \/ WriteAt("file", wbuf)
      BY <3>1, <3>2 DEF Flush
    <3>5. CASE UNCHANGED <<fs, offset, wbuf, writeFail>>
      BY <2>4, <2>5, <3>1, <3>3, <3>4, <3>5 DEF Adding
    <3>6. CASE WriteAt("file", wbuf)
      <4>1. Grown' /\ (~writeFail' => ~writeFail /\ Appended' = Appended + Len(wbuf))
        BY <1>1, <2>0, <3>1, <3>2, <3>3, <3>6, Grows
      <4>2. ~writeFail' => Pending'
        <5> SUFFICES ASSUME ~writeFail' PROVE Pending'
          OBVIOUS
        <5>1. Pending /\ Appended' = Appended + Len(wbuf)
          BY <3>3, <4>1
        <5>2. /\ Len(wbuf') = 0 /\ Len(todo') = 0 /\ Len(todo) = 0 /\ Len(wbuf) \in Nat
          BY <3>1, <3>3, <3>4, LenProperties DEF Typed, ProgramOK, AnyContents
        <5>3. Appended' + Len(wbuf') + Len(todo') = Len(Added(cmd.text))
          BY <2>3, <5>1, <5>2 DEF Pending
        <5>4. (\A k \in 1 .. Len(wbuf') : FALSE) /\ (\A k \in 1 .. Len(todo') : FALSE)
          BY <5>2
        <5> QED
          BY <2>0, <5>3, <5>4 DEF Pending
      <4> QED
        BY <3>1, <3>3, <3>4, <4>1, <4>2 DEF Adding
    <3> QED
      BY <3>4, <3>5, <3>6
  <2>10. CASE AddDone \/ CloseFiles
    <3>1. /\ UNCHANGED <<fs, offset, wbuf, todo, writeFail>>
          /\ \/ pc = "add" /\ pc' = "flush" /\ todo = <<>>
             \/ pc = "close" /\ pc' = "done"
      BY <2>10 DEF AddDone, CloseFiles
    <3>2. Grown /\ (~writeFail => Pending) /\ (pc = "close" => todo = <<>> /\ wbuf = <<>>)
      BY <2>0, <3>1 DEF Adding
    <3> QED
      BY <2>4, <2>5, <3>1, <3>2 DEF Adding
  <2>11. CASE OpenCopy \/ CopyByte \/ CopyNext \/ CopyDone \/ Delete
    BY <2>1, <2>11 DEF OpenCopy, CopyByte, CopyNext, CopyDone, Delete, AtStep
  <2>12. CASE Stopped \/ UNCHANGED vars
    <3>1. UNCHANGED <<fs, offset, wbuf, todo, writeFail, pc, readFail>>
      BY <2>12 DEF Stopped, vars
    <3> QED
      BY <1>1, <2>4, <2>5, <3>1 DEF Adding
  <2> QED
    BY <2>6, <2>7, <2>8, <2>9, <2>10, <2>11, <2>12 DEF Next, Step
<1> QED
  BY <1>2, <1>3

-------------------------------------------------------------------------------
(* What a power cut may leave.                                              *)

\* mv: nothing but the source at its path until it is deleted, and of the copy
\* only what it is once it is closed.
SourceOnDisk == pc \notin {"close", "done"} => images[cmd.src] = {before[cmd.src]}
CopyOnDisk == pc = "done" /\ ~noHandle => images[cmd.dst] = {fs[cmd.dst]}

Imaged ==
  cmd.name = "mv" /\ cmd.src # cmd.dst /\ before[cmd.src] # Absent => SourceOnDisk /\ CopyOnDisk

\* A step adds what it leaves at a path, or leaves the volume alone, or closes.
LEMMA NextCached ==
  ASSUME [Next]_vars
  PROVE  \/ UNCHANGED <<fs, images, pc>>
         \/ pc \notin {"close", "done"} /\ pc' # "done" /\ (Cached \/ UNCHANGED <<fs, images>>)
         \/ CloseFiles
<1>1. ASSUME NEW place, ReaderNext(place)
      PROVE  UNCHANGED <<fs, images>> /\ pc' \in {place, "halted"}
  BY <1>1 DEF ReaderNext, Halt
<1>2. ASSUME NEW f, NEW b, NEW place, Write(f, b, place) \/ Flush(f, place)
      PROVE  (Cached \/ UNCHANGED <<fs, images>>) /\ pc' \in {place, "halted"}
  BY <1>2 DEF Write, Flush, WriteAt
<1>3. CASE OpenFile \/ OpenCopy
  BY <1>3 DEF OpenFile, OpenCopy, Open
<1>4. CASE Prime \/ CopyNext \/ CountNext
  BY <1>1, <1>4 DEF Prime, CopyNext, CountNext, AtStep
<1>5. CASE CopyByte \/ AddByte \/ FlushWriter
  <2>1. PICK f, b, place :
          /\ pc \notin {"close", "done"} /\ place \in {"next", "add", "delete", "close"}
          /\ Write(f, b, place) \/ Flush(f, place)
    <3>1. CASE CopyByte
      BY <3>1 DEF CopyByte, AtStep
    <3>2. CASE AddByte
      BY <3>2 DEF AddByte
    <3>3. CASE FlushWriter
      <4>1. (IF cmd.name = "mv" THEN "delete" ELSE "close") \in {"delete", "close"}
        OBVIOUS
      <4>2. pc = "flush" /\ Flush(Target, IF cmd.name = "mv" THEN "delete" ELSE "close")
        BY <3>3 DEF FlushWriter
      <4> QED
        BY <4>1, <4>2
    <3> QED
      BY <1>5, <3>1, <3>2, <3>3
  <2>2. (Cached \/ UNCHANGED <<fs, images>>) /\ pc' \in {place, "halted"}
    BY <1>2, <2>1
  <2> QED
    BY <2>1, <2>2
<1>6. CASE CopyDone \/ CountByte \/ Seek \/ AddDone \/ Delete
  BY <1>6 DEF CopyDone, CountByte, Seek, AddDone, Delete, AtStep
<1>7. CASE Stopped \/ UNCHANGED vars
  BY <1>7 DEF Stopped, vars
<1> QED
  BY <1>3, <1>4, <1>5, <1>6, <1>7 DEF Next, Step

LEMMA NextDisk ==
  ASSUME Typed, Typed', DiskOK, [Next]_vars
  PROVE  DiskOK'
<1>1. CASE UNCHANGED images
  BY <1>1 DEF DiskOK
<1>2. fs \in [Path -> AnyContents \cup {Absent}] /\ fs' \in [Path -> AnyContents \cup {Absent}]
  BY DEF Typed, Opened
<1>3. CASE Cached
  BY <1>2, <1>3 DEF Cached, DiskOK
<1>4. CASE CloseFiles
  BY <1>2, <1>4 DEF CloseFiles, WrittenBack, DiskOK
<1> QED
  BY <1>1, <1>3, <1>4, NextCached

LEMMA NextImaged ==
  ASSUME Typed, Typed', InTransit', Imaged, [Next]_vars
  PROVE  Imaged'
<1>1. cmd' = cmd /\ before' = before /\ (noHandle => noHandle')
  BY NextKeeps
<1> SUFFICES ASSUME cmd.name = "mv", cmd.src # cmd.dst, before[cmd.src] # Absent
             PROVE  SourceOnDisk' /\ CopyOnDisk'
  BY <1>1 DEF Imaged
<1>2. SourceOnDisk /\ CopyOnDisk
  BY DEF Imaged
<1>3. cmd.src \in Path /\ cmd.dst \in Path
  BY CommandFields DEF Typed, ProgramOK, Copies
<1>4. CASE UNCHANGED <<fs, images, pc>>
  BY <1>1, <1>2, <1>4 DEF SourceOnDisk, CopyOnDisk
<1>5. CASE pc \notin {"close", "done"} /\ pc' # "done" /\ (Cached \/ UNCHANGED <<fs, images>>)
  <2>1. CopyOnDisk'
    BY <1>5 DEF CopyOnDisk
  <2>2. ASSUME pc' # "close" PROVE images'[cmd.src] = {before[cmd.src]}
    <3>1. pc # "done"
      BY <1>5
    <3>2. images[cmd.src] = {before[cmd.src]}
      BY <1>2, <1>5, <3>1 DEF SourceOnDisk
    <3>3. fs'[cmd.src] = before[cmd.src]
      BY <1>1, <1>5, <2>2 DEF InTransit, SourceThere, Moving, Copies
    <3>4. Cached => images'[cmd.src] = images[cmd.src] \cup {fs'[cmd.src]}
      BY <1>3 DEF Cached
    <3> QED
      BY <1>5, <3>2, <3>3, <3>4
  <2> QED
    BY <1>1, <1>5, <2>1, <2>2 DEF SourceOnDisk
<1>6. CASE CloseFiles
  <2>1. pc = "close" /\ pc' = "done" /\ WrittenBack /\ UNCHANGED <<fs, noHandle>>
    BY <1>6 DEF CloseFiles
  <2>2. ASSUME ~noHandle PROVE images'[cmd.dst] = {fs[cmd.dst]}
    <3>1. handle["copy"] = cmd.dst /\ "copy" \in File
      BY <2>1, <2>2 DEF Typed, Stage, Copies, File
    <3> QED
      BY <1>3, <2>1, <3>1 DEF WrittenBack
  <2> QED
    BY <1>1, <2>1, <2>2 DEF SourceOnDisk, CopyOnDisk
<1> QED
  BY <1>4, <1>5, <1>6, NextCached

-------------------------------------------------------------------------------
(* The theorems.                                                            *)

IInv == Typed /\ InTransit /\ CopyHolds /\ Counting /\ Adding /\ DiskOK /\ Imaged

LEMMA Invariance == Spec => []IInv
<1>1. Init => IInv
  <2> SUFFICES ASSUME Init PROVE IInv
    OBVIOUS
  <2>1. Typed /\ InTransit
    BY InitTyped, InitInTransit
  <2>2. pc = "open"
    BY DEF Init
  <2>3. images = [p \in Path |-> {fs[p]}] /\ fs = before
    BY DEF Init
  <2>4. cmd.src \in Path /\ fs \in [Path -> AnyContents \cup {Absent}]
    BY <2>1, CommandFields DEF Typed, ProgramOK, Opened
  <2>5. DiskOK /\ Imaged
    BY <2>2, <2>3, <2>4 DEF DiskOK, Imaged, SourceOnDisk, CopyOnDisk
  <2> QED
    BY <2>1, <2>2, <2>5 DEF IInv, CopyHolds, Storing, Counting, Adding
<1>2. IInv /\ [Next]_vars => IInv'
  <2> SUFFICES ASSUME IInv, [Next]_vars PROVE IInv'
    OBVIOUS
  <2>1. Typed /\ InTransit /\ CopyHolds /\ Counting /\ Adding /\ DiskOK /\ Imaged
    BY DEF IInv
  <2>2. Typed' /\ InTransit'
    <3>1. Typed'
      BY <2>1, NextTyped DEF Typed
    <3> QED
      BY <2>1, <3>1, NextInTransit
  <2>3. CopyHolds'
    BY <2>1, NextCopyHolds
  <2>4. Counting' /\ Adding'
    BY <2>1, NextCounting, NextAdding
  <2>5. DiskOK' /\ Imaged'
    BY <2>1, <2>2, NextDisk, NextImaged
  <2> QED
    BY <2>2, <2>3, <2>4, <2>5 DEF IInv
<1> QED
  BY <1>1, <1>2, PTL DEF Spec

\* A file that holds the bytes of another in front starts with it.
LEMMA Starts ==
  ASSUME NEW path \in Path, NEW old \in Path,
         fs[path] \in AnyContents, before[old] \in AnyContents,
         Len(before[old]) <= Len(fs[path]),
         \A k \in 1 .. Len(before[old]) : fs[path][k] = before[old][k]
  PROVE  StartsWith(path, old)
<1> DEFINE is == fs[path]
           was == before[old]
           start == SubSeq(is, 1, Len(was))
<1>1. is \in Seq(Octet) /\ was \in Seq(Octet) /\ Len(was) \in Nat /\ Len(is) \in Nat
  BY LenProperties DEF AnyContents
<1>2. /\ Len(was) <= Len(is) /\ is # Absent
      /\ \A k \in 1 .. Len(was) : is[k] = was[k]
  BY ShellAssumption
<1>3. start = was
  <2> HIDE DEF is, was
  <2>1. start \in Seq(Octet) /\ Len(start) = Len(was)
        /\ \A k \in 1 .. Len(was) : start[k] = is[k]
    BY <1>1, <1>2, FirstOf
  <2> HIDE DEF start
  <2> QED
    BY <1>1, <1>2, <2>1, SeqEqual
<1> QED
  BY <1>1, <1>2, <1>3 DEF StartsWith, Holds

\* A file that holds one sequence and behind it another is their concatenation.
LEMMA Concatenated ==
  ASSUME NEW T, NEW is \in Seq(T), NEW front \in Seq(T), NEW end \in Seq(T),
         Len(is) = Len(front) + Len(end),
         \A k \in 1 .. Len(front) : is[k] = front[k],
         \A k \in 1 .. Len(end) : is[Len(front) + k] = end[k]
  PROVE  is = front \o end
<1>1. /\ front \o end \in Seq(T)
      /\ Len(front \o end) = Len(front) + Len(end)
      /\ \A k \in 1 .. Len(front) + Len(end) :
           (front \o end)[k] = IF k <= Len(front) THEN front[k] ELSE end[k - Len(front)]
  BY ConcatProperties
<1>2. Len(front) \in Nat /\ Len(end) \in Nat
  BY LenProperties
<1>3. ASSUME NEW k \in 1 .. Len(is) PROVE is[k] = (front \o end)[k]
  <2>1. CASE k <= Len(front)
    BY <1>1, <1>2, <2>1
  <2>2. CASE ~(k <= Len(front))
    <3>1. k - Len(front) \in 1 .. Len(end) /\ Len(front) + (k - Len(front)) = k
      BY <1>2, <2>2
    <3>2. is[k] = end[k - Len(front)]
      BY <3>1
    <3> QED
      BY <1>1, <2>2, <3>2
  <2> QED
    BY <2>1, <2>2
<1> QED
  BY <1>1, <1>3, SeqEqual

\* What is at the paths of a command before it and in each state.
LEMMA FilesAre ==
  ASSUME IInv
  PROVE  /\ cmd.src \in Path /\ (cmd.name \in Copies => cmd.dst \in Path)
         /\ \A p \in Path :
              /\ fs[p] = Absent \/ fs[p] \in AnyContents
              /\ before[p] = Absent \/ before[p] \in AnyContents
              /\ Original(p) \in AnyContents /\ Len(Original(p)) \in Nat
<1>1. cmd.src \in Path /\ (cmd.name \in Copies => cmd.dst \in Path)
  BY CommandFields DEF IInv, Typed, ProgramOK
<1>2. /\ fs \in [Path -> AnyContents \cup {Absent}]
      /\ before \in [Path -> AnyContents \cup {Absent}]
  BY DEF IInv, Typed, Opened
<1>3. ASSUME NEW p \in Path PROVE Original(p) \in AnyContents
  BY <1>2, EmptySeq DEF Original, AnyContents
<1> QED
  BY <1>1, <1>2, <1>3, LenProperties DEF AnyContents

\* A copy at its end without a fault: the whole source is in the destination.
LEMMA CopyStored ==
  ASSUME IInv, cmd.name \in Copies, NoFault, pc \in {"close", "done"},
         ~(cmd.name = "mv" /\ cmd.src = cmd.dst)
  PROVE  /\ before[cmd.src] \in AnyContents /\ fs[cmd.dst] \in AnyContents
         /\ Stored /\ Written = Len(before[cmd.src])
<1>1. before[cmd.src] # Absent
  BY DEF IInv, Typed, Stage, NoFault
<1>2. Stored /\ wbuf = <<>> /\ ended
  BY DEF IInv, CopyHolds, Storing
<1>3. before[cmd.src] \in AnyContents /\ fs[cmd.dst] \in AnyContents
  BY <1>1, <1>2, FilesAre DEF Stored
<1>4. Moving
  BY <1>1 DEF Moving, NoFault
<1>5. Taken = Len(before[cmd.src])
  BY <1>2, <1>4 DEF IInv, InTransit, WriterHolds, NoFault
<1>6. Written \in Nat /\ Len(wbuf) = 0
  BY <1>2 DEF IInv, Typed, ProgramOK, Written, File
<1> QED
  BY <1>2, <1>3, <1>5, <1>6 DEF Taken

\* The files hold bytes, and the reader and the writer hold no more than they
\* have room for, whatever the command does (ProgramOK).
THEOREM TypeCorrect == Spec => []TypeOK
<1>1. IInv => TypeOK
  BY DEF IInv, Typed, TypeOK
<1> QED
  BY <1>1, Invariance, PTL

\* cp leaves its source as it was in every state, whatever fails, unless the file
\* is copied to itself and a write fails (CopyKeepsSource).
THEOREM SourceSurvivesCopy == Spec => []CopyKeepsSource
<1>1. IInv => CopyKeepsSource
  BY DEF IInv, InTransit, SourceThere, Moving, Copies, CopyKeepsSource
<1> QED
  BY <1>1, Invariance, PTL

\* mv without a fault deletes the source only when all of it was written to the
\* copy; and a power cut leaves the source at its path, or all of it in the copy,
\* but between the Delete and the Close of the copy, where firmware that caches
\* writes may lose both (MoveKeepsData).
THEOREM MoveLosesNothing == Spec => []MoveKeepsData
<1>1. ASSUME IInv, cmd.name = "mv", cmd.src # cmd.dst, NoFault, before[cmd.src] # Absent,
             pc \in {"close", "done"}
      PROVE  StartsWith(cmd.dst, cmd.src)
  <2>1. pc \in {"close", "done"} /\ cmd.name \in Copies
    BY <1>1 DEF Copies
  <2>2. /\ before[cmd.src] \in AnyContents /\ fs[cmd.dst] \in AnyContents
        /\ Stored /\ Written = Len(before[cmd.src])
    BY <1>1, <2>1, CopyStored
  <2>3. cmd.src \in Path /\ cmd.dst \in Path /\ Len(Original(cmd.dst)) \in Nat
    BY <1>1, <2>1, FilesAre
  <2>4. Len(before[cmd.src]) \in Nat
    BY <2>2, LenProperties DEF AnyContents
  <2>5. Len(before[cmd.src]) <= Len(fs[cmd.dst])
    BY <2>2, <2>3, <2>4 DEF Stored
  <2>6. Len(fs[cmd.dst]) \in Nat
    BY <2>2, LenProperties DEF AnyContents
  <2>7. \A k \in 1 .. Len(before[cmd.src]) : fs[cmd.dst][k] = before[cmd.src][k]
    BY <2>2, <2>4, <2>5, <2>6 DEF Stored
  <2> QED
    BY <2>2, <2>3, <2>5, <2>7, Starts
<1>2. IInv => MoveKeepsData
  <2> SUFFICES ASSUME IInv, cmd.name = "mv", cmd.src # cmd.dst, NoFault, before[cmd.src] # Absent
               PROVE  /\ fs[cmd.src] = before[cmd.src] \/ StartsWith(cmd.dst, cmd.src)
                      /\ pc # "close" => \/ images[cmd.src] = {before[cmd.src]}
                                         \/ \A content \in images[cmd.dst] : Holds(content, cmd.src)
    BY DEF MoveKeepsData
  <2>1. fs[cmd.src] = before[cmd.src] \/ StartsWith(cmd.dst, cmd.src)
    BY <1>1 DEF IInv, InTransit, SourceThere, Moving, Copies
  <2>2. SourceOnDisk /\ CopyOnDisk
    BY DEF IInv, Imaged
  <2>3. CASE pc \notin {"close", "done"}
    BY <2>1, <2>2, <2>3 DEF SourceOnDisk
  <2>4. CASE pc = "done"
    BY <1>1, <2>1, <2>2, <2>4 DEF CopyOnDisk, NoFault, StartsWith
  <2> QED
    BY <2>1, <2>3, <2>4
<1> QED
  BY <1>2, Invariance, PTL

\* A finished cp or mv without a fault has written the source over the start of
\* the destination and kept the rest of a longer destination (CopiesExactly).
THEOREM CopiesAll == Spec => []CopiesExactly
<1>1. IInv => CopiesExactly
  <2> SUFFICES ASSUME IInv, cmd.name \in Copies, pc = "done", NoFault,
                      ~(cmd.name = "mv" /\ cmd.src = cmd.dst)
               PROVE  fs[cmd.dst] = before[cmd.src] \o
                        (IF before[cmd.dst] = Absent THEN <<>>
                         ELSE SubSeq(before[cmd.dst], Len(before[cmd.src]) + 1,
                                     Len(before[cmd.dst])))
    BY DEF CopiesExactly
  <2> DEFINE is == fs[cmd.dst]
             source == before[cmd.src]
             was == Original(cmd.dst)
             rest == SubSeq(was, Len(source) + 1, Len(was))
  <2>1. /\ source \in AnyContents /\ is \in AnyContents
        /\ Stored /\ Written = Len(source)
    BY CopyStored
  <2>2. /\ Len(is) = IF Len(source) > Len(was) THEN Len(source) ELSE Len(was)
        /\ \A k \in 1 .. Len(is) : is[k] = IF k <= Len(source) THEN source[k] ELSE was[k]
    BY <2>1 DEF Stored
  <2>3. /\ was \in Seq(Octet) /\ is \in Seq(Octet) /\ source \in Seq(Octet)
        /\ Len(was) \in Nat /\ Len(is) \in Nat /\ Len(source) \in Nat
    <3>1. was \in AnyContents
      BY FilesAre
    <3> QED
      BY <2>1, <3>1, LenProperties DEF AnyContents
  <2>4. (IF before[cmd.dst] = Absent THEN <<>>
         ELSE SubSeq(before[cmd.dst], Len(before[cmd.src]) + 1, Len(before[cmd.dst]))) = rest
    <3>1. CASE before[cmd.dst] = Absent
      <4>1. was = <<>>
        BY <3>1 DEF Original
      <4>2. Len(was) = 0
        BY <4>1
      <4> HIDE DEF was, source
      <4>3. Len(SubSeq(was, Len(source) + 1, Len(was))) = 0
        <5>1. \A k \in Len(source) + 1 .. Len(was) : was[k] \in Octet
          BY <2>3, <4>2
        <5>2. Len(source) + 1 \in Int /\ Len(was) \in Int /\ ~(Len(source) + 1 <= Len(was))
          BY <2>3, <4>2
        <5> QED
          BY <5>1, <5>2, SubSeqProperties
      <4>4. rest \in Seq(Octet)
        <5>1. \A k \in Len(source) + 1 .. Len(was) : was[k] \in Octet
          BY <2>3, <4>2
        <5>2. Len(source) + 1 \in Int /\ Len(was) \in Int
          BY <2>3
        <5> QED
          BY <5>1, <5>2, SubSeqProperties
      <4>5. rest = <<>>
        BY <4>3, <4>4, EmptySeq
      <4> QED
        BY <3>1, <4>5
    <3>2. CASE before[cmd.dst] # Absent
      BY <3>2 DEF Original
    <3> QED
      BY <3>1, <3>2
  <2> HIDE DEF is, source, was
  <2>5. /\ rest \in Seq(Octet)
        /\ Len(rest) = IF Len(source) + 1 <= Len(was) THEN Len(was) - (Len(source) + 1) + 1 ELSE 0
        /\ \A k \in 1 .. Len(was) - (Len(source) + 1) + 1 : rest[k] = was[Len(source) + 1 + k - 1]
    <3>1. \A k \in Len(source) + 1 .. Len(was) : was[k] \in Octet
      BY <2>3, LenProperties
    <3>2. Len(source) + 1 \in Int /\ Len(was) \in Int
      BY <2>3
    <3> QED
      BY <3>1, <3>2, SubSeqProperties
  <2> HIDE DEF rest
  <2>6. Len(is) = Len(source) + Len(rest)
    BY <2>2, <2>3, <2>5
  <2>7. \A k \in 1 .. Len(source) : is[k] = source[k]
    BY <2>2, <2>3
  <2>8. ASSUME NEW k \in 1 .. Len(rest) PROVE is[Len(source) + k] = rest[k]
    <3>1. Len(source) < Len(was) /\ k \in 1 .. Len(was) - (Len(source) + 1) + 1
          /\ Len(source) + 1 + k - 1 = Len(source) + k
          /\ Len(source) + k \in 1 .. Len(is) /\ ~(Len(source) + k <= Len(source))
      BY <2>2, <2>3, <2>5
    <3> QED
      BY <2>2, <2>5, <3>1
  <2>9. is = source \o rest
    BY <2>3, <2>5, <2>6, <2>7, <2>8, Concatenated
  <2> QED
    BY <2>4, <2>9 DEF is, source
<1> QED
  BY <1>1, Invariance, PTL

\* addline keeps what the file held, in every state and whatever write or
\* SetPosition fails, unless a read failed (AppendKeeps).
THEOREM AppendLosesNothing == Spec => []AppendKeeps
<1>1. IInv => AppendKeeps
  <2> SUFFICES ASSUME IInv, cmd.name = "addline", before[cmd.src] # Absent, ~readFail
               PROVE  StartsWith(cmd.src, cmd.src)
    BY DEF AppendKeeps
  <2> DEFINE was == before[cmd.src]
  <2>1. cmd.src \in Path /\ was \in AnyContents /\ Len(was) \in Nat /\ Original(cmd.src) = was
    <3>1. cmd.src \in Path /\ was \in AnyContents
      BY FilesAre
    <3> QED
      BY <3>1, LenProperties DEF AnyContents, Original
  <2>2. fs[cmd.src] = was \/ Grown
    <3>1. CASE pc \in {"add", "flush", "close", "done"}
      BY <3>1 DEF IInv, Adding
    <3>2. CASE pc = "open" \/ pc = "halted"
      BY <3>2 DEF IInv, Typed, Opened, Counting
    <3>3. CASE pc \in {"prime", "loop", "next"}
      BY <2>1, <3>3 DEF IInv, Counting
    <3>4. pc \in {"open", "openCopy", "prime", "loop", "next", "add", "flush", "delete",
                  "close", "done", "halted"} /\ pc \notin {"openCopy", "delete"}
      BY DEF IInv, Typed, ProgramOK, Stage
    <3> QED
      BY <3>1, <3>2, <3>3, <3>4
  <2>3. CASE fs[cmd.src] = was
    BY <2>1, <2>3, Starts
  <2>4. CASE Grown
    <3>1. /\ fs[cmd.src] # Absent /\ Appended >= 0 /\ Len(fs[cmd.src]) = offset["file"]
          /\ \A k \in 1 .. Len(was) : fs[cmd.src][k] = was[k]
      BY <2>1, <2>4 DEF Grown
    <3>2. offset["file"] \in Nat
      BY DEF IInv, Typed, ProgramOK, File
    <3>3. Len(was) <= Len(fs[cmd.src])
      <4> HIDE DEF was
      <4> QED
        BY <2>1, <3>1, <3>2 DEF Appended
    <3>4. fs[cmd.src] \in AnyContents
      BY <2>1, <3>1, FilesAre
    <3> QED
      BY <2>1, <3>1, <3>3, <3>4, Starts
  <2> QED
    BY <2>2, <2>3, <2>4
<1> QED
  BY <1>1, Invariance, PTL

\* A finished addline without a fault has added its text and CR LF to what the
\* file held (AppendsExactly).
THEOREM AppendsAll == Spec => []AppendsExactly
<1>1. IInv => AppendsExactly
  <2> SUFFICES ASSUME IInv, cmd.name = "addline", pc = "done", NoFault
               PROVE  fs[cmd.src] = Original(cmd.src) \o Added(cmd.text)
    BY DEF AppendsExactly, Original
  <2> DEFINE is == fs[cmd.src]
             was == Original(cmd.src)
             text == Added(cmd.text)
  <2>1. Grown /\ Pending /\ todo = <<>> /\ wbuf = <<>> /\ ~writeFail
    BY DEF IInv, Adding, NoFault
  <2>2. Len(todo) = 0 /\ Len(wbuf) = 0 /\ offset["file"] \in Nat
    BY <2>1 DEF IInv, Typed, ProgramOK, File
  <2>3. /\ is \in Seq(Octet) /\ was \in Seq(Octet) /\ text \in Seq(Octet)
        /\ Len(was) \in Nat /\ Len(text) \in Nat
    <3>1. is \in AnyContents /\ was \in AnyContents
      BY <2>1, FilesAre DEF Grown
    <3>2. text \in AnyContents
      BY AddedIs, CommandFields DEF IInv, Typed, ProgramOK
    <3> QED
      BY <3>1, <3>2, LenProperties DEF AnyContents
  <2>4. /\ Len(is) = offset["file"]
        /\ \A k \in 1 .. Len(was) : is[k] = was[k]
        /\ \A k \in 1 .. Appended : is[Len(was) + k] = text[k]
        /\ Appended = offset["file"] - Len(was)
        /\ Appended + Len(wbuf) + Len(todo) = Len(text)
    BY <2>1 DEF Grown, Pending, Appended
  <2> HIDE DEF is, was, text
  <2>5. Appended = Len(text) /\ Len(is) = Len(was) + Len(text)
    <3>1. /\ Len(is) = offset["file"] /\ Appended = offset["file"] - Len(was)
          /\ Appended + Len(wbuf) + Len(todo) = Len(text)
      BY <2>4
    <3>2. Appended \in Int
      BY <2>2, <2>3, <3>1
    <3>3. Appended = Len(text)
      BY <2>2, <2>3, <3>1, <3>2
    <3> QED
      BY <2>2, <2>3, <3>1, <3>3, SMTT(30)
  <2>6. is = was \o text
    <3>1. /\ \A k \in 1 .. Len(was) : is[k] = was[k]
          /\ \A k \in 1 .. Len(text) : is[Len(was) + k] = text[k]
      BY <2>4, <2>5
    <3> QED
      BY <2>3, <2>5, <3>1, Concatenated
  <2> QED
    BY <2>6 DEF is, was, text
<1> QED
  BY <1>1, Invariance, PTL
===============================================================================
