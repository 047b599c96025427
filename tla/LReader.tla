------------------------------- MODULE LReader --------------------------------
(***************************************************************************)
(* The buffered byte reader of LavoroL (src/src/lreader.hpp) over a file   *)
(* (src/src/lfile.cpp) or a TCP socket (src/src/lsocket.hpp), driven by    *)
(* the loops the program reads with:                                       *)
(*                                                                         *)
(*   take   Next(); while (!AtEnd()) { use Current(); Next(); }            *)
(*          cp, mv, addline, the help, readme and path files, LBitmap      *)
(*   seek   the same, with SetPosition() and Next() in between (LBitmap)   *)
(*   peek   while (!AtEnd()) { Next(); if (Current() != ReaderEof) use it; *)
(*          else break; }        cat, connect and accept                   *)
(*   lines  while (!AtEnd()) ReadLine(), with no Next() first              *)
(*          batch files and the network configuration                      *)
(*                                                                         *)
(* The device below is external: a file returns as many bytes as it is     *)
(* asked for and has, a socket any number of those that arrived; each call *)
(* may fail.  Operators with a name in _Bug are wrong versions of the one  *)
(* that follows them, for checking that the properties notice.             *)
(***************************************************************************)
EXTENDS Integers, Sequences

CONSTANTS
  Byte,              \* the bytes in use
  NL,                \* the byte that ends a line
  ReaderBufferSize,  \* length of buffer (128 in the code)
  Reserve,           \* what a socket read leaves free of it (32 in the code)
  MaxData            \* bound on the length of the data behind the device

ASSUME ReaderAssumption ==
  /\ Byte \subseteq 0 .. 255
  /\ 0 \in Byte
  /\ NL \in Byte \ {0}
  /\ ReaderBufferSize \in Nat
  /\ Reserve \in 1 .. ReaderBufferSize - 1
  /\ MaxData \in Nat

ReaderEof == -1

\* How a client reads: the device, whether it called SetText, and its loop.
Clients == {[device |-> "file",   isText |-> FALSE, loop |-> "take"],
            [device |-> "file",   isText |-> FALSE, loop |-> "seek"],
            [device |-> "file",   isText |-> FALSE, loop |-> "peek"],
            [device |-> "file",   isText |-> FALSE, loop |-> "lines"],
            [device |-> "socket", isText |-> FALSE, loop |-> "peek"],
            [device |-> "socket", isText |-> TRUE,  loop |-> "peek"]}

VARIABLES
  data,    \* the bytes behind the device
  pos,     \* how many of them the device has passed
  r,       \* the reader: its fields buffer, size and current
  client,  \* the client, see above
  pc,      \* where the client is
  seen,    \* the byte Current() returned
  out,     \* what the client got since it started or called SetPosition
  base,    \* history: the device position that out starts at
  failed,  \* history: a read failed with data left
  stuck    \* history: SetPosition was called at the end

vars == <<data, pos, r, client, pc, seen, out, base, failed, stuck>>

Reader == [buffer : [0 .. ReaderBufferSize - 1 -> Byte], size : Int, current : Int]

BoundedData == UNION {[1 .. n -> Byte] : n \in 0 .. MaxData}

\* The buffer is not initialised: it starts with any bytes.
Init ==
  /\ data \in BoundedData
  /\ pos = 0
  /\ \E b \in [0 .. ReaderBufferSize - 1 -> Byte] :
        r = [buffer |-> b, size |-> 0, current |-> 0]
  /\ client \in Clients
  /\ pc = IF client.loop \in {"take", "seek"} THEN "prime" ELSE "loop"
  /\ seen = ReaderEof
  /\ out = <<>>
  /\ base = 0
  /\ failed = FALSE
  /\ stuck = FALSE

-------------------------------------------------------------------------------
(* The methods of LReader, as functions of the reader.                      *)

\* The value ~0U of size marks the end.
AtEnd(s) == s.size = ReaderEof

Close(s) == [s EXCEPT !.size = ReaderEof]

\* Ends a text at a newline.
TextEnd_Bug(s) == client.isText /\ s.buffer[s.current] = NL

\* Looks at the byte after the last one, too, which was never read.
TextEnd(s) == client.isText /\ s.buffer[s.current] = 0

\* Current() when current # size: in a text, a null byte is the end.
Settled(s) == IF TextEnd(s) THEN Close(s) ELSE s

\* The n bytes at the device position are read over the buffer.
Loaded(s, n) ==
  [s EXCEPT
     !.size = n,
     !.current = 0,
     !.buffer = [k \in DOMAIN s.buffer |-> IF k < n THEN data[pos + k + 1] ELSE @[k]]]

\* Takes a read that returns less than it was asked for to be the last.
Filled_Bug(s, n) ==
  IF n < ReaderBufferSize - Reserve THEN Close(s) ELSE Settled(Loaded(s, n))

\* Next() after ReadBuffer() got n bytes; none is the end or a failure.
Filled(s, n) ==
  IF n > 0 THEN Settled(Loaded(s, n))
  ELSE IF client.device = "file" THEN Close([s EXCEPT !.current = 0])
  ELSE Close(s)

Advanced(s) == [s EXCEPT !.current = @ + 1]

\* When Next() reads: also as soon as the last byte is passed.
NextReads(s) ==
  /\ ~AtEnd(s)
  /\ \/ s.current = s.size
     \/ ~TextEnd(Advanced(s)) /\ s.current + 1 = s.size

\* Skips the first byte of a new buffer.
NextByte_Bug(s, n) ==
  IF AtEnd(s) THEN s
  ELSE IF s.current = s.size THEN Filled(s, n)
  ELSE IF TextEnd(Advanced(s)) THEN Close(Advanced(s))
  ELSE IF s.current + 1 = s.size THEN Advanced(Filled(Advanced(s), n))
  ELSE Advanced(s)

\* Next(), where n bytes are read if it reads.
NextByte(s, n) ==
  IF AtEnd(s) THEN s
  ELSE IF s.current = s.size THEN Filled(s, n)
  ELSE IF TextEnd(Advanced(s)) THEN Close(Advanced(s))
  ELSE IF s.current + 1 = s.size THEN Filled(Advanced(s), n)
  ELSE Advanced(s)

CurrentReads(s) == ~AtEnd(s) /\ ~TextEnd(s) /\ s.current = s.size

\* The reader after Current(), where n bytes are read if it reads.
AfterCurrent(s, n) ==
  IF AtEnd(s) THEN s
  ELSE IF TextEnd(s) THEN Close(s)
  ELSE IF s.current = s.size THEN Filled(s, n)
  ELSE s

\* What it returned: buffer[current] even when the read it made has failed.
CurrentByte(before, after) ==
  IF AtEnd(before) \/ TextEnd(before) THEN ReaderEof ELSE after.buffer[after.current]

\* Reset() forgets the buffered bytes, but not the end.
Reset_Bug(s) == [s EXCEPT !.current = 0]

Reset(s) == IF AtEnd(s) THEN s ELSE [s EXCEPT !.size = 0, !.current = 0]

-------------------------------------------------------------------------------
(* The device.                                                              *)

Left == Len(data) - pos

Request_Bug == ReaderBufferSize

Request ==
  IF client.device = "file" THEN ReaderBufferSize - 1 ELSE ReaderBufferSize - Reserve

Reads(n) ==
  \/ n = 0
  \/ client.device = "file" /\ n = IF Request < Left THEN Request ELSE Left
  \/ client.device = "socket" /\ n <= Request /\ n <= Left

\* Counts the bytes asked for.
Device_Bug(n, reads) ==
  /\ n \in 0 .. ReaderBufferSize /\ Reads(n)
  /\ ~reads => n = 0
  /\ pos' = IF n > 0 THEN pos + Request ELSE pos
  /\ failed' = (failed \/ (reads /\ n = 0 /\ Left > 0))

Device(n, reads) ==
  /\ n \in 0 .. ReaderBufferSize /\ Reads(n)
  /\ ~reads => n = 0
  /\ pos' = pos + n
  /\ failed' = (failed \/ (reads /\ n = 0 /\ Left > 0))

-------------------------------------------------------------------------------
(* The clients.                                                             *)

\* The Next() before the loop.
Prime ==
  /\ pc = "prime"
  /\ \E n \in 0 .. ReaderBufferSize :
        /\ Device(n, NextReads(r))
        /\ r' = NextByte(r, n)
  /\ pc' = "loop"
  /\ UNCHANGED <<data, client, seen, out, base, stuck>>

\* take, seek and lines: the first Current() of an iteration ...
Look ==
  /\ pc = "loop" /\ client.loop # "peek" /\ ~AtEnd(r)
  /\ \E n \in 0 .. ReaderBufferSize :
        /\ Device(n, CurrentReads(r))
        /\ r' = AfterCurrent(r, n)
        /\ seen' = CurrentByte(r, AfterCurrent(r, n))
  /\ pc' = "looked"
  /\ UNCHANGED <<data, client, out, base, stuck>>

\* ... and the rest: the byte is used, Next() is called.  ReadLine calls
\* Current() again for a byte that does not end the line.
Use ==
  /\ pc = "looked"
  /\ \E n \in 0 .. ReaderBufferSize :
        /\ Device(n, NextReads(r))
        /\ r' = NextByte(r, n)
  /\ out' = Append(out, IF client.loop = "lines" /\ seen # NL THEN CurrentByte(r, r)
                        ELSE seen)
  /\ pc' = "loop"
  /\ UNCHANGED <<data, client, seen, base, stuck>>

\* peek: Next(), then Current(), which finds a byte in the buffer or the end.
Peek ==
  /\ pc = "loop" /\ client.loop = "peek" /\ ~AtEnd(r)
  /\ \E n \in 0 .. ReaderBufferSize :
        /\ Device(n, NextReads(r))
        /\ r' = NextByte(r, n)
  /\ LET byte == CurrentByte(r', r')
     IN  /\ out' = IF byte = ReaderEof THEN out ELSE Append(out, byte)
         /\ pc' = IF byte = ReaderEof THEN "done" ELSE "loop"
  /\ UNCHANGED <<data, client, seen, base, stuck>>

\* LFile::SetPosition(p) and Next(); the device may refuse to move.
SetPosition ==
  /\ pc = "loop" /\ client.loop = "seek" /\ base = 0
  /\ r' = Reset(r)
  /\ \E p \in 0 .. Len(data) : pos' \in {p, pos}
  /\ base' = pos'
  /\ stuck' = AtEnd(r)
  /\ out' = <<>>
  /\ pc' = "prime"
  /\ UNCHANGED <<data, client, seen, failed>>

Stop ==
  /\ pc = "loop" /\ AtEnd(r)
  /\ pc' = "done"
  /\ UNCHANGED <<data, pos, r, client, seen, out, base, failed, stuck>>

Finished == pc = "done" /\ UNCHANGED vars

Next == Prime \/ Look \/ Use \/ Peek \/ SetPosition \/ Stop \/ Finished

Spec == Init /\ [][Next]_vars

-------------------------------------------------------------------------------
(* Properties.                                                              *)

TypeOK ==
  /\ data \in Seq(Byte)
  /\ pos \in 0 .. Len(data)
  /\ r \in Reader
  /\ client \in Clients
  /\ pc \in {"prime", "loop", "looked", "done"}
  /\ seen \in Byte \cup {ReaderEof}
  /\ out \in Seq(Byte \cup {ReaderEof})
  /\ base \in 0 .. Len(data)
  /\ failed \in BOOLEAN
  /\ stuck \in BOOLEAN

InBuffer ==
  /\ r.current \in 0 .. ReaderBufferSize - 1
  /\ ~AtEnd(r) => r.size \in r.current .. ReaderBufferSize - 1

\* Every access to buffer[current] is inside the buffer, also the one that looks
\* at the byte after the last one read; and the buffer holds the size bytes before
\* the device position, whatever reads, seeks and resets came before.
Window ==
  /\ InBuffer
  /\ ~AtEnd(r) =>
       /\ r.size <= pos - base
       /\ \A k \in 0 .. r.size - 1 : r.buffer[k] = data[pos - r.size + k + 1]

\* Nothing was read yet, and ReadLine takes ReaderEof for a byte.
EmptyLine == client.loop = "lines" /\ pos = 0 /\ Len(out) <= 1

\* A client gets the bytes behind the device in order, none twice, none left
\* out and none that was not read in this place, whatever the sizes of reads.
GetsPrefix ==
  \/ EmptyLine
  \/ /\ Len(out) <= Len(data) - base
     /\ \A k \in 1 .. Len(out) : out[k] = data[base + k]

\* A client that is done got everything, unless a read failed, or it moved the
\* position at the end.  A text ends before a null byte, or where a read ended:
\* then the stale byte behind the bytes that were read can be taken for the end.
GetsAll ==
  pc = "done" /\ ~failed =>
    IF client.isText
    THEN Len(out) = pos \/ data[Len(out) + 1] = 0
    ELSE stuck \/ EmptyLine \/ Len(out) = Len(data) - base
===============================================================================
