----------------------------- MODULE LReaderProofs -----------------------------
(***************************************************************************)
(* Proofs about LReader, for any data, any length of the buffer, any sizes *)
(* of the reads and any of the loops that read: the reader stays in its    *)
(* buffer, and its client gets the bytes of the device in order.           *)
(***************************************************************************)
EXTENDS LReader, SequenceTheorems, TLAPS

-------------------------------------------------------------------------------
(* The reader and its buffer.                                               *)

\* Window, of a reader s whose device is at p.
Fits(s, p) ==
  /\ s \in Reader
  /\ s.current \in 0 .. ReaderBufferSize - 1
  /\ ~AtEnd(s) =>
       /\ s.size \in s.current .. ReaderBufferSize - 1
       /\ s.size <= p - base
       /\ \A k \in 0 .. s.size - 1 : s.buffer[k] = data[p - s.size + k + 1]

Typed == TypeOK /\ Window

\* What the proofs use of the numbers and of a reader's fields.
LEMMA Sizes ==
  /\ ReaderBufferSize \in Nat /\ ReaderBufferSize >= 2
  /\ Reserve \in Nat /\ Reserve >= 1 /\ Reserve < ReaderBufferSize
  /\ ReaderEof \in Int /\ ReaderEof < 0
  /\ Byte \subseteq Nat
BY ReaderAssumption DEF ReaderEof

LEMMA Data ==
  ASSUME TypeOK
  PROVE  /\ Len(data) \in Nat /\ pos \in Nat /\ pos <= Len(data)
         /\ base \in Nat /\ base <= Len(data)
         /\ \A k \in 1 .. Len(data) : data[k] \in Byte
BY LenProperties DEF TypeOK

LEMMA RequestFits ==
  ASSUME TypeOK, NEW n \in 0 .. ReaderBufferSize, Reads(n)
  PROVE  n \in Nat /\ n < ReaderBufferSize /\ pos + n <= Len(data)
<1>1. Request \in Nat /\ Request < ReaderBufferSize
  BY Sizes DEF Request
<1>2. Left \in Nat
  BY Data DEF Left
<1> QED
  BY <1>1, <1>2, Sizes, Data DEF Reads, Left

\* The end, and a reader that fits.
LEMMA CloseFits ==
  ASSUME NEW s \in Reader, NEW p, s.current \in 0 .. ReaderBufferSize - 1
  PROVE  Fits(Close(s), p) /\ AtEnd(Close(s)) /\ Close(s).current = s.current
<1>1. Close(s) \in Reader
  BY Sizes DEF Close, Reader
<1>2. Close(s).size = ReaderEof /\ Close(s).current = s.current
  BY DEF Close, Reader
<1> QED
  BY <1>1, <1>2 DEF Fits, AtEnd

\* A reader that goes back to the first byte of its buffer.
LEMMA AtFirst ==
  ASSUME NEW s \in Reader
  PROVE  /\ [s EXCEPT !.current = 0] \in Reader
         /\ [s EXCEPT !.current = 0].current \in 0 .. ReaderBufferSize - 1
<1>1. s.buffer \in [0 .. ReaderBufferSize - 1 -> Byte] /\ s.size \in Int
  BY DEF Reader
<1>2. [s EXCEPT !.current = 0] = [buffer |-> s.buffer, size |-> s.size, current |-> 0]
  BY DEF Reader
<1>3. 0 \in 0 .. ReaderBufferSize - 1
  BY Sizes
<1> QED
  BY <1>1, <1>2, <1>3 DEF Reader

\* A read over the buffer.
LEMMA LoadedFits ==
  ASSUME TypeOK, NEW s \in Reader, NEW n \in 0 .. ReaderBufferSize, Reads(n), n > 0,
         base <= pos
  PROVE  /\ Fits(Loaded(s, n), pos + n)
         /\ Loaded(s, n).size = n /\ Loaded(s, n).current = 0
<1> DEFINE t == Loaded(s, n)
           b == [k \in DOMAIN s.buffer |-> IF k < n THEN data[pos + k + 1] ELSE s.buffer[k]]
<1>1. s.buffer \in [0 .. ReaderBufferSize - 1 -> Byte]
  BY DEF Reader
<1>2. t.size = n /\ t.current = 0 /\ t.buffer = b /\ t = [buffer |-> b, size |-> n, current |-> 0]
  <2>1. s = [buffer |-> s.buffer, size |-> s.size, current |-> s.current] /\ DOMAIN s.buffer = 0 .. ReaderBufferSize - 1
    BY <1>1 DEF Reader
  <2>2. t = [s EXCEPT !.size = n, !.current = 0, !.buffer = b]
    BY DEF Loaded
  <2> HIDE DEF t, b
  <2> QED
    BY <2>1, <2>2
<1>3. n \in Nat /\ n < ReaderBufferSize /\ pos + n <= Len(data)
  BY RequestFits
<1>4. ASSUME NEW k \in 0 .. ReaderBufferSize - 1 PROVE b[k] \in Byte
  <2>1. CASE k < n
    <3>1. pos + k + 1 \in 1 .. Len(data)
      BY <1>3, <2>1, Data, Sizes
    <3> QED
      BY <1>1, <2>1, <3>1, Data
  <2>2. CASE ~(k < n)
    BY <1>1, <2>2
  <2> QED
    BY <2>1, <2>2
<1>5. b \in [0 .. ReaderBufferSize - 1 -> Byte]
  BY <1>1, <1>4
<1>6. t \in Reader
  BY <1>2, <1>3, <1>5 DEF Reader
<1> DEFINE p == pos + n
<1>7. \A k \in 0 .. n - 1 : b[k] = data[p - n + k + 1]
  <2> SUFFICES ASSUME NEW k \in 0 .. n - 1 PROVE b[k] = data[p - n + k + 1]
    OBVIOUS
  <2>1. k \in 0 .. ReaderBufferSize - 1 /\ k < n /\ p - n + k + 1 = pos + k + 1
    BY <1>3, Sizes, Data
  <2> QED
    BY <1>1, <2>1
<1>8. 0 \in 0 .. ReaderBufferSize - 1 /\ n \in 0 .. ReaderBufferSize - 1 /\ n <= p - base
  BY <1>3, Sizes, Data
<1>a. t.size = n /\ t.current = 0 /\ t.buffer = b
  BY <1>2
<1> HIDE DEF t, b, p
<1>9. Fits(t, p)
  BY <1>6, <1>7, <1>8, <1>a DEF Fits
<1> QED
  BY <1>a, <1>9 DEF t, p

\* What Next() and Current() do when they read.
LEMMA FilledFits ==
  ASSUME TypeOK, NEW s \in Reader, NEW n \in 0 .. ReaderBufferSize, Reads(n), base <= pos,
         s.current \in 0 .. ReaderBufferSize - 1
  PROVE  /\ Fits(Filled(s, n), pos + n)
         /\ ~AtEnd(Filled(s, n)) =>
              n > 0 /\ Filled(s, n).size = n /\ Filled(s, n).current = 0
<1>1. CASE n > 0
  <2> DEFINE t == Loaded(s, n)
  <2>1. Fits(t, pos + n) /\ t.size = n /\ t.current = 0
    BY <1>1, LoadedFits
  <2>2. Filled(s, n) = Close(t) \/ Filled(s, n) = t
    BY <1>1 DEF Filled, Settled
  <2>3. t \in Reader /\ t.current \in 0 .. ReaderBufferSize - 1
    BY <2>1 DEF Fits
  <2> HIDE DEF t
  <2>4. Fits(Close(t), pos + n) /\ AtEnd(Close(t))
    BY <2>3, CloseFits
  <2> QED
    BY <1>1, <2>1, <2>2, <2>4
<1>2. CASE ~(n > 0)
  <2> DEFINE t == [s EXCEPT !.current = 0]
  <2>1. Filled(s, n) = Close(t) \/ Filled(s, n) = Close(s)
    BY <1>2 DEF Filled
  <2>2. t \in Reader /\ t.current \in 0 .. ReaderBufferSize - 1
    BY AtFirst
  <2> HIDE DEF t
  <2> QED
    BY <2>1, <2>2, CloseFits
<1> QED
  BY <1>1, <1>2

\* Next(): the reader fits, and is a byte further when it is not at the end.
LEMMA NextFits ==
  ASSUME Typed, NEW n \in 0 .. ReaderBufferSize, Device(n, NextReads(r))
  PROVE  /\ Fits(NextByte(r, n), pos') /\ pos' \in 0 .. Len(data) /\ pos <= pos'
         /\ AtEnd(r) => NextByte(r, n) = r
         /\ ~AtEnd(NextByte(r, n)) =>
              /\ ~AtEnd(r)
              /\ NextByte(r, n).current < NextByte(r, n).size
              /\ pos' - NextByte(r, n).size + NextByte(r, n).current =
                   pos - r.size + r.current + (IF r.current = r.size THEN 0 ELSE 1)
<1> DEFINE t == NextByte(r, n)
<1>1. /\ Reads(n) /\ pos' = pos + n /\ (~NextReads(r) => n = 0)
      /\ n \in Nat /\ n < ReaderBufferSize /\ pos + n <= Len(data)
  BY RequestFits DEF Device, Typed
<1>2. /\ r \in Reader /\ Fits(r, pos) /\ pos \in Nat /\ base \in Nat /\ base <= Len(data)
      /\ r.size \in Int /\ r.current \in Nat /\ r.current < ReaderBufferSize /\ Len(data) \in Nat
  BY Data, Sizes DEF Typed, TypeOK, Window, InBuffer, Fits, Reader
<1>3. pos' \in 0 .. Len(data) /\ pos <= pos'
  BY <1>1, <1>2
<1>4. CASE AtEnd(r)
  <2>1. t = r
    BY <1>4 DEF NextByte
  <2>2. Fits(r, pos')
    BY <1>2, <1>4 DEF Fits
  <2> QED
    BY <1>3, <1>4, <2>1, <2>2
<1>5. CASE ~AtEnd(r)
  <2>1. /\ r.size \in Nat /\ r.current <= r.size /\ r.size < ReaderBufferSize
        /\ r.size <= pos - base /\ base <= pos
    BY <1>2, <1>5, Sizes, SMTT(30) DEF Fits
  <2>2. CASE r.current = r.size
    <3>1. t = Filled(r, n)
      BY <1>5, <2>2 DEF NextByte
    <3>2. r.current \in 0 .. ReaderBufferSize - 1
      BY <1>2, Sizes
    <3>3. /\ Fits(t, pos + n)
          /\ ~AtEnd(t) => n > 0 /\ t.size = n /\ t.current = 0
      BY <1>1, <1>2, <2>1, <3>1, <3>2, FilledFits DEF Typed
    <3> HIDE DEF t
    <3>4. ~AtEnd(t) => t.current < t.size /\ pos' - t.size + t.current = pos - r.size + r.current + 0
      BY <1>1, <1>2, <2>2, <3>3
    <3> QED
      BY <1>1, <1>3, <1>5, <2>2, <3>3, <3>4 DEF t
  <2>3. CASE r.current # r.size
    <3> DEFINE s == Advanced(r)
    <3>1. s \in Reader /\ s.current = r.current + 1 /\ s.size = r.size /\ s.buffer = r.buffer
      BY <1>2 DEF Advanced, Reader
    <3>2. s.current \in 0 .. ReaderBufferSize - 1 /\ s.current <= s.size
      BY <1>2, <2>1, <2>3, <3>1, Sizes, SMTT(30)
    <3> HIDE DEF s
    <3>3. CASE TextEnd(s)
      <4>1. t = Close(s)
        BY <1>5, <2>3, <3>3 DEF NextByte, s
      <4> QED
        BY <1>3, <1>5, <3>1, <3>2, <4>1, CloseFits
    <3>4. CASE ~TextEnd(s) /\ r.current + 1 = r.size
      <4>1. t = Filled(s, n)
        BY <1>5, <2>3, <3>4 DEF NextByte, s
      <4>2. /\ Fits(t, pos + n)
            /\ ~AtEnd(t) => n > 0 /\ t.size = n /\ t.current = 0
        BY <1>1, <2>1, <3>1, <3>2, <4>1, FilledFits DEF Typed
      <4> HIDE DEF t
      <4>3. ~AtEnd(t) => t.current < t.size /\ pos' - t.size + t.current = pos - r.size + r.current + 1
        <5>1. r.current + 1 = r.size /\ pos' = pos + n
          BY <1>1, <3>4
        <5> SUFFICES ASSUME ~AtEnd(t)
                     PROVE  t.current < t.size /\ pos' - t.size + t.current = pos - r.size + r.current + 1
          OBVIOUS
        <5>2. t.size = n /\ t.current = 0 /\ n > 0
          BY <4>2
        <5> QED
          BY <1>1, <1>2, <2>1, <5>1, <5>2, SMTT(30)
      <4> QED
        BY <1>1, <1>3, <1>5, <2>3, <4>2, <4>3 DEF t
    <3>5. CASE ~TextEnd(s) /\ r.current + 1 # r.size
      <4>1. t = s
        BY <1>5, <2>3, <3>5 DEF NextByte, s
      <4>2. pos' = pos
        BY <1>1, <1>2, <1>5, <2>3, <3>5 DEF NextReads, s
      <4>3. Fits(s, pos)
        <5>1. s.size \in s.current .. ReaderBufferSize - 1
          BY <1>2, <2>1, <3>1, <3>2, Sizes, SMTT(30)
        <5> QED
          BY <1>2, <1>5, <3>1, <3>2, <5>1 DEF Fits, AtEnd
      <4>4. s.current < s.size /\ pos - s.size + s.current = pos - r.size + r.current + 1
        BY <1>2, <2>1, <2>3, <3>1, <3>5, SMTT(30)
      <4> QED
        BY <1>3, <1>5, <2>3, <4>1, <4>2, <4>3, <4>4
    <3> QED
      BY <3>3, <3>4, <3>5
  <2> QED
    BY <2>2, <2>3
<1> QED
  BY <1>4, <1>5

\* Current() goes nowhere but to the first byte of a new buffer.
LEMMA CurrentFits ==
  ASSUME Typed, NEW n \in 0 .. ReaderBufferSize, Device(n, CurrentReads(r))
  PROVE  /\ Fits(AfterCurrent(r, n), pos') /\ pos' \in 0 .. Len(data) /\ pos <= pos'
         /\ AtEnd(r) => AfterCurrent(r, n) = r
         /\ ~AtEnd(AfterCurrent(r, n)) =>
              /\ ~AtEnd(r)
              /\ AfterCurrent(r, n).current < AfterCurrent(r, n).size
              /\ pos' - AfterCurrent(r, n).size + AfterCurrent(r, n).current =
                   pos - r.size + r.current
         /\ r.current # r.size /\ ~client.isText => AfterCurrent(r, n) = r /\ pos' = pos
         /\ CurrentByte(r, AfterCurrent(r, n)) \in Byte \cup {ReaderEof}
<1> DEFINE t == AfterCurrent(r, n)
<1>1. /\ Reads(n) /\ pos' = pos + n /\ (~CurrentReads(r) => n = 0)
      /\ n \in Nat /\ n < ReaderBufferSize /\ pos + n <= Len(data)
  BY RequestFits DEF Device, Typed
<1>2. /\ r \in Reader /\ Fits(r, pos) /\ pos \in Nat /\ base \in Nat /\ base <= Len(data)
      /\ r.size \in Int /\ r.current \in Nat /\ r.current < ReaderBufferSize /\ Len(data) \in Nat
      /\ r.current \in 0 .. ReaderBufferSize - 1
  BY Data, Sizes, SMTT(30) DEF Typed, TypeOK, Window, InBuffer, Fits, Reader
<1>3. pos' \in 0 .. Len(data) /\ pos <= pos'
  BY <1>1, <1>2
<1>4. ASSUME Fits(t, pos')
      PROVE  CurrentByte(r, t) \in Byte \cup {ReaderEof}
  <2>1. t.buffer \in [0 .. ReaderBufferSize - 1 -> Byte] /\ t.current \in 0 .. ReaderBufferSize - 1
    BY <1>4 DEF Fits, Reader
  <2> QED
    BY <2>1 DEF CurrentByte
<1>5. CASE AtEnd(r)
  <2>1. t = r
    BY <1>5 DEF AfterCurrent
  <2>2. Fits(r, pos') /\ pos' = pos
    BY <1>1, <1>2, <1>5 DEF Fits, CurrentReads
  <2> QED
    BY <1>3, <1>4, <1>5, <2>1, <2>2
<1>6. CASE ~AtEnd(r) /\ TextEnd(r)
  <2>1. t = Close(r) /\ client.isText
    BY <1>6 DEF AfterCurrent, TextEnd
  <2>2. Fits(t, pos') /\ AtEnd(t)
    BY <1>2, <2>1, CloseFits
  <2> QED
    BY <1>3, <1>4, <1>6, <2>1, <2>2
<1>7. CASE ~AtEnd(r) /\ ~TextEnd(r)
  <2>1. /\ r.size \in Nat /\ r.current <= r.size /\ r.size < ReaderBufferSize
        /\ r.size <= pos - base /\ base <= pos
    BY <1>2, <1>7, Sizes, SMTT(30) DEF Fits
  <2>2. CASE r.current = r.size
    <3>1. t = Filled(r, n)
      BY <1>7, <2>2 DEF AfterCurrent
    <3>2. /\ Fits(t, pos + n)
          /\ ~AtEnd(t) => n > 0 /\ t.size = n /\ t.current = 0
      BY <1>1, <1>2, <2>1, <3>1, FilledFits DEF Typed
    <3> HIDE DEF t
    <3>3. ~AtEnd(t) => t.current < t.size /\ pos' - t.size + t.current = pos - r.size + r.current
      BY <1>1, <1>2, <2>2, <3>2
    <3> QED
      BY <1>1, <1>3, <1>4, <1>7, <2>2, <3>2, <3>3 DEF t
  <2>3. CASE r.current # r.size
    <3>1. t = r /\ pos' = pos
      BY <1>1, <1>2, <1>7, <2>3 DEF AfterCurrent, CurrentReads
    <3>2. r.current < r.size
      BY <1>2, <2>1, <2>3
    <3>3. Fits(t, pos')
      BY <1>2, <3>1
    <3>4. CurrentByte(r, t) \in Byte \cup {ReaderEof}
      BY <1>4, <3>3
    <3> QED
      BY <1>3, <1>7, <3>1, <3>2, <3>3, <3>4
  <2> QED
    BY <2>2, <2>3
<1> QED
  BY <1>5, <1>6, <1>7

\* A reader that forgets what it has read.
LEMMA ResetFits ==
  ASSUME NEW s \in Reader
  PROVE  /\ Reset(s) \in Reader
         /\ ~AtEnd(s) => Reset(s).size = 0 /\ Reset(s).current = 0
<1> DEFINE t == [s EXCEPT !.size = 0, !.current = 0]
           b == s.buffer
<1>1. b \in [0 .. ReaderBufferSize - 1 -> Byte]
      /\ s = [buffer |-> b, size |-> s.size, current |-> s.current]
  BY DEF Reader
<1>2. t = [buffer |-> b, size |-> 0, current |-> 0]
  <2>1. s = [buffer |-> s.buffer, size |-> s.size, current |-> s.current]
    BY DEF Reader
  <2>2. t = [s EXCEPT !.size = 0, !.current = 0, !.buffer = b]
    BY <2>1
  <2> HIDE DEF t, b
  <2> QED
    BY <2>1, <2>2
<1>3. t \in Reader /\ t.size = 0 /\ t.current = 0
  BY <1>1, <1>2 DEF Reader
<1>4. Reset(s) = IF AtEnd(s) THEN s ELSE t
  BY DEF Reset
<1> HIDE DEF t
<1> QED
  BY <1>3, <1>4

\* A byte that Current() finds without reading.
LEMMA ByteFound ==
  ASSUME NEW s \in Reader, s.current \in 0 .. ReaderBufferSize - 1
  PROVE  CurrentByte(s, s) \in Byte \cup {ReaderEof}
<1>1. s.buffer \in [0 .. ReaderBufferSize - 1 -> Byte]
  BY DEF Reader
<1> QED
  BY <1>1 DEF CurrentByte

\* A reader that fits, in the next state.
LEMMA FitsNow ==
  ASSUME NEW s, s = r', Fits(s, pos'), base' = base, data' = data
  PROVE  r' \in Reader /\ Window'
BY DEF Fits, Window, InBuffer, AtEnd

\* Every step keeps the reader in its buffer.
LEMMA NextTyped ==
  ASSUME Typed, [Next]_vars
  PROVE  Typed'
<1>1. CASE Prime
  <2>1. PICK n \in 0 .. ReaderBufferSize : Device(n, NextReads(r)) /\ r' = NextByte(r, n)
    BY <1>1 DEF Prime
  <2>2. Fits(NextByte(r, n), pos') /\ pos' \in 0 .. Len(data) /\ failed' \in BOOLEAN
    BY <2>1, NextFits DEF Device, Typed, TypeOK
  <2>3. pc' = "loop" /\ UNCHANGED <<data, client, seen, out, base, stuck>>
    BY <1>1 DEF Prime
  <2>4. r' \in Reader /\ Window'
    BY <2>1, <2>2, <2>3, FitsNow
  <2> QED
    BY <2>2, <2>3, <2>4 DEF Typed, TypeOK
<1>2. CASE Look
  <2>1. PICK n \in 0 .. ReaderBufferSize :
          /\ Device(n, CurrentReads(r)) /\ r' = AfterCurrent(r, n)
          /\ seen' = CurrentByte(r, AfterCurrent(r, n))
    BY <1>2 DEF Look
  <2>2. /\ Fits(AfterCurrent(r, n), pos') /\ pos' \in 0 .. Len(data) /\ failed' \in BOOLEAN
        /\ seen' \in Byte \cup {ReaderEof}
    BY <2>1, CurrentFits DEF Device, Typed, TypeOK
  <2>3. pc' = "looked" /\ UNCHANGED <<data, client, out, base, stuck>>
    BY <1>2 DEF Look
  <2>4. r' \in Reader /\ Window'
    BY <2>1, <2>2, <2>3, FitsNow
  <2> QED
    BY <2>2, <2>3, <2>4 DEF Typed, TypeOK
<1>3. CASE Use
  <2>1. PICK n \in 0 .. ReaderBufferSize : Device(n, NextReads(r)) /\ r' = NextByte(r, n)
    BY <1>3 DEF Use
  <2>2. Fits(NextByte(r, n), pos') /\ pos' \in 0 .. Len(data) /\ failed' \in BOOLEAN
    BY <2>1, NextFits DEF Device, Typed, TypeOK
  <2>3. pc' = "loop" /\ UNCHANGED <<data, client, seen, base, stuck>>
    BY <1>3 DEF Use
  <2>4. r' \in Reader /\ Window'
    BY <2>1, <2>2, <2>3, FitsNow
  <2>5. out' \in Seq(Byte \cup {ReaderEof})
    <3>1. CurrentByte(r, r) \in Byte \cup {ReaderEof}
      BY ByteFound DEF Typed, TypeOK, Window, InBuffer
    <3>2. \E e \in Byte \cup {ReaderEof} : out' = Append(out, e)
      BY <1>3, <3>1 DEF Use, Typed, TypeOK
    <3> QED
      BY <3>2, AppendProperties DEF Typed, TypeOK
  <2> QED
    BY <2>2, <2>3, <2>4, <2>5 DEF Typed, TypeOK
<1>4. CASE Peek
  <2>1. PICK n \in 0 .. ReaderBufferSize : Device(n, NextReads(r)) /\ r' = NextByte(r, n)
    BY <1>4 DEF Peek
  <2>2. Fits(NextByte(r, n), pos') /\ pos' \in 0 .. Len(data) /\ failed' \in BOOLEAN
    BY <2>1, NextFits DEF Device, Typed, TypeOK
  <2>3. pc' \in {"loop", "done"} /\ UNCHANGED <<data, client, seen, base, stuck>>
    BY <1>4 DEF Peek
  <2>4. r' \in Reader /\ Window'
    BY <2>1, <2>2, <2>3, FitsNow
  <2>5. out' \in Seq(Byte \cup {ReaderEof})
    <3>1. out' = out \/ \E e \in Byte : out' = Append(out, e)
      <4>1. r'.buffer \in [0 .. ReaderBufferSize - 1 -> Byte] /\ r'.current \in 0 .. ReaderBufferSize - 1
        BY <2>4 DEF Window, InBuffer, Reader
      <4>2. r'.buffer[r'.current] \in Byte
        BY <4>1
      <4> QED
        BY <1>4, <4>2 DEF Peek, CurrentByte
    <3> QED
      BY <3>1, AppendProperties, SMTT(30) DEF Typed, TypeOK
  <2> QED
    BY <2>2, <2>3, <2>4, <2>5 DEF Typed, TypeOK
<1>5. CASE SetPosition
  <2>1. r' = Reset(r) /\ base' = pos' /\ pos' \in 0 .. Len(data)
        /\ stuck' \in BOOLEAN /\ out' = <<>> /\ pc' = "prime"
        /\ UNCHANGED <<data, client, seen, failed>>
    BY <1>5 DEF SetPosition, AtEnd, Typed, TypeOK
  <2>2. r' \in Reader
    BY <2>1, ResetFits DEF Typed, TypeOK
  <2>3. Window'
    <3>1. CASE AtEnd(r)
      <4>1. r' = r
        BY <2>1, <3>1 DEF Reset
      <4> QED
        BY <3>1, <4>1 DEF AtEnd, Window, InBuffer, Typed
    <3>2. CASE ~AtEnd(r)
      <4>1. r'.size = 0 /\ r'.current = 0
        BY <2>1, <3>2, ResetFits DEF Typed, TypeOK
      <4>2. r'.current \in 0 .. ReaderBufferSize - 1 /\ r'.size \in 0 .. ReaderBufferSize - 1
        BY <4>1, Sizes
      <4>3. r'.size <= pos' - base'
        <5>1. Len(data) \in Nat
          BY Data DEF Typed
        <5>2. pos' \in 0 .. Len(data) /\ base' = pos'
          BY <2>1
        <5>3. ASSUME NEW p \in 0 .. Len(data) PROVE 0 <= p - p
          BY <5>1
        <5>4. 0 <= pos' - pos'
          BY <5>2, <5>3
        <5> QED
          BY <4>1, <5>2, <5>4
      <4>4. \A k \in 0 .. r'.size - 1 : FALSE
        BY <4>1
      <4> QED
        BY <4>1, <4>2, <4>3, <4>4 DEF Window, InBuffer, AtEnd
    <3> QED
      BY <3>1, <3>2
  <2>4. out' \in Seq(Byte \cup {ReaderEof})
    BY <2>1, EmptySeq
  <2> QED
    BY <2>1, <2>2, <2>3, <2>4 DEF Typed, TypeOK
<1>6. CASE Stop \/ Finished \/ UNCHANGED vars
  <2>1. pc' \in {pc, "done"} /\ UNCHANGED <<data, pos, r, client, seen, out, base, failed, stuck>>
    BY <1>6 DEF Stop, Finished, vars
  <2> QED
    BY <2>1 DEF Typed, TypeOK, Window, InBuffer, AtEnd
<1> QED
  BY <1>1, <1>2, <1>3, <1>4, <1>5, <1>6 DEF Next

LEMMA InitTyped == Init => Typed
<1> SUFFICES ASSUME Init PROVE Typed
  OBVIOUS
<1>1. data \in Seq(Byte)
  <2>1. ASSUME NEW n \in 0 .. MaxData, NEW d \in [1 .. n -> Byte] PROVE d \in Seq(Byte)
    <3>1. n \in Nat
      BY ReaderAssumption
    <3> QED
      BY <3>1, SeqDef
  <2> QED
    BY <2>1 DEF Init, BoundedData
<1>2. r \in Reader /\ r.size = 0 /\ r.current = 0 /\ pos = 0 /\ base = 0
  BY DEF Init, Reader
<1>3. TypeOK
  <2>1. Len(data) \in Nat
    BY <1>1, LenProperties
  <2>2. pos \in 0 .. Len(data) /\ base \in 0 .. Len(data)
    BY <1>2, <2>1
  <2>3. out \in Seq(Byte \cup {ReaderEof})
    BY EmptySeq DEF Init
  <2>4. pc \in {"prime", "loop"} /\ client \in Clients /\ seen = ReaderEof
        /\ failed = FALSE /\ stuck = FALSE
    BY DEF Init
  <2> QED
    BY <1>1, <1>2, <2>2, <2>3, <2>4 DEF TypeOK
<1>4. Window
  <2>1. 0 \in 0 .. ReaderBufferSize - 1
    BY Sizes
  <2>2. \A k \in 0 .. r.size - 1 : FALSE
    BY <1>2
  <2>3. r.size <= pos - base
    BY <1>2
  <2> QED
    BY <1>2, <2>1, <2>2, <2>3 DEF Window, InBuffer
<1> QED
  BY <1>3, <1>4 DEF Typed

-------------------------------------------------------------------------------
(* What the client gets.                                                    *)

Prefix ==
  /\ Len(out) <= Len(data) - base
  /\ \A k \in 1 .. Len(out) : out[k] = data[base + k]

\* The client has what is in front of the byte the reader is at; with the loop
\* that peeks it has that byte, too, once there is one.
Placed ==
  /\ Prefix \/ (AtEnd(r) /\ EmptyLine)
  /\ client.loop # "seek" => base = 0
  /\ pc = "prime" =>
       /\ client.loop \in {"take", "seek"} /\ out = <<>>
       /\ ~AtEnd(r) => r.size = 0 /\ r.current = 0 /\ pos = base
  /\ pc = "looked" =>
       /\ client.loop # "peek"
       /\ ~AtEnd(r) => seen = data[base + Len(out) + 1]
       /\ AtEnd(r) => client.loop = "lines" /\ pos = 0 /\ out = <<>>
  /\ pc \in {"loop", "looked"} /\ ~AtEnd(r) /\ client.loop # "peek" =>
       /\ Len(out) = (pos - r.size + r.current) - base
       /\ \/ r.current < r.size
          \/ client.loop = "lines" /\ pc = "loop" /\ r.size = 0 /\ r.current = 0 /\ pos = 0
  /\ pc = "loop" /\ ~AtEnd(r) /\ client.loop = "peek" =>
       \/ r.size = 0 /\ r.current = 0 /\ pos = 0 /\ out = <<>>
       \/ r.current < r.size /\ Len(out) = pos - r.size + r.current + 1

\* The next byte of the device is added to what the client has.
LEMMA Extends ==
  ASSUME TypeOK, Prefix, NEW e, out' = Append(out, e), UNCHANGED <<data, base>>,
         Len(out) + 1 <= Len(data) - base, e = data[base + Len(out) + 1],
         e \in Byte \cup {ReaderEof}
  PROVE  Prefix' /\ Len(out') = Len(out) + 1
<1>1. out \in Seq(Byte \cup {ReaderEof}) /\ Len(out) \in Nat /\ Len(data) \in Nat /\ base \in Nat
  BY Data, LenProperties DEF TypeOK
<1>2. /\ Len(out') = Len(out) + 1 /\ out'[Len(out) + 1] = e
      /\ \A k \in 1 .. Len(out) : out'[k] = out[k]
  BY <1>1, AppendProperties
<1>3. ASSUME NEW k \in 1 .. Len(out) + 1 PROVE out'[k] = data[base + k]
  <2>1. CASE k \in 1 .. Len(out)
    BY <1>2, <2>1 DEF Prefix
  <2>2. CASE k = Len(out) + 1
    <3>1. base + Len(out) + 1 = base + k
      BY <1>1, <2>2
    <3> QED
      BY <1>2, <2>2, <3>1
  <2> QED
    BY <1>1, <2>1, <2>2
<1> QED
  BY <1>2, <1>3 DEF Prefix

\* Nothing is got from an empty reader.
LEMMA PrefixEmpty ==
  ASSUME Typed', out' = <<>>
  PROVE  Prefix'
<1>1. Len(out') = 0
  OBVIOUS
<1>2. Len(data') \in Nat /\ base' \in 0 .. Len(data')
  BY LenProperties DEF Typed, TypeOK
<1>3. 0 <= Len(data') - base'
  BY <1>2
<1>4. \A k \in 1 .. Len(out') : FALSE
  BY <1>1
<1> QED
  BY <1>1, <1>3, <1>4 DEF Prefix

\* The byte a reader is at is the one of the device that follows what is passed.
LEMMA ByteIs ==
  ASSUME TypeOK, NEW p \in 0 .. Len(data), NEW s, Fits(s, p), ~AtEnd(s), s.current < s.size
  PROVE  /\ s.buffer[s.current] = data[p - s.size + s.current + 1]
         /\ p - s.size + s.current + 1 <= Len(data)
         /\ s.buffer[s.current] \in Byte /\ s.buffer[s.current] # ReaderEof
         /\ s.size \in Nat /\ s.current \in Nat /\ p \in Nat
<1>1. /\ s.buffer \in [0 .. ReaderBufferSize - 1 -> Byte]
      /\ s.current \in 0 .. ReaderBufferSize - 1
      /\ s.size \in s.current .. ReaderBufferSize - 1
      /\ \A k \in 0 .. s.size - 1 : s.buffer[k] = data[p - s.size + k + 1]
  BY DEF Fits, Reader
<1>2. p \in Nat /\ Len(data) \in Nat /\ p <= Len(data)
  BY Data
<1>3. s.size \in Nat /\ s.current \in Nat /\ s.current \in 0 .. s.size - 1
  BY <1>1, Sizes
<1>4. s.buffer[s.current] \in Byte
  BY <1>1
<1>5. \A b \in Byte : b # ReaderEof
  BY Sizes
<1>6. p - s.size + s.current + 1 <= Len(data)
  BY <1>2, <1>3
<1> QED
  BY <1>1, <1>2, <1>3, <1>4, <1>5, <1>6

\* Every step keeps what the client has in its place.
LEMMA NextPlaced ==
  ASSUME Typed, Placed, [Next]_vars
  PROVE  Placed'
<1>0. Typed' /\ TypeOK
  BY NextTyped DEF Typed
<1>a. /\ Len(out) \in Nat /\ pos \in Nat /\ base \in Nat /\ Len(data) \in Nat
      /\ r.size \in Int /\ r.current \in Nat
      /\ ~AtEnd(r) => r.size \in Nat /\ r.current <= r.size /\ r.size <= pos - base
  <2>1. Len(out) \in Nat /\ pos \in Nat /\ base \in Nat /\ Len(data) \in Nat
    BY Data, LenProperties DEF Typed, TypeOK
  <2>2. r.size \in Int /\ r.current \in 0 .. ReaderBufferSize - 1
        /\ (~AtEnd(r) => r.size \in r.current .. ReaderBufferSize - 1 /\ r.size <= pos - base)
    BY DEF Typed, TypeOK, Window, InBuffer, Reader
  <2> QED
    BY <2>1, <2>2, Sizes
<1>b. client.loop # "peek" => ~client.isText
  BY <1>0 DEF TypeOK, Clients
<1>c. client.loop \in {"take", "seek", "peek", "lines"}
  BY <1>0 DEF TypeOK, Clients
<1>1. CASE Prime
  <2>1. PICK n \in 0 .. ReaderBufferSize : Device(n, NextReads(r)) /\ r' = NextByte(r, n)
    BY <1>1 DEF Prime
  <2>2. pc = "prime" /\ pc' = "loop" /\ UNCHANGED <<data, client, seen, out, base, stuck>>
    BY <1>1 DEF Prime
  <2>3. /\ client.loop \in {"take", "seek"} /\ out = <<>>
        /\ ~AtEnd(r) => r.size = 0 /\ r.current = 0 /\ pos = base
    BY <2>2 DEF Placed
  <2>4. ~AtEnd(r') =>
          /\ ~AtEnd(r) /\ r'.current < r'.size
          /\ pos' - r'.size + r'.current =
               pos - r.size + r.current + (IF r.current = r.size THEN 0 ELSE 1)
    BY <2>1, NextFits
  <2>5. ~AtEnd(r') => Len(out) = (pos' - r'.size + r'.current) - base
    <3> SUFFICES ASSUME ~AtEnd(r') PROVE Len(out) = (pos' - r'.size + r'.current) - base
      OBVIOUS
    <3> DEFINE x == pos' - r'.size + r'.current
    <3>1. Len(out) = 0 /\ x = pos /\ pos = base
      BY <1>a, <2>3, <2>4
    <3> HIDE DEF x
    <3>2. Len(out) = x - base
      BY <1>a, <3>1
    <3> QED
      BY <3>2 DEF x
  <2>6. Prefix'
    BY <1>0, <2>2, <2>3, PrefixEmpty
  <2> QED
    BY <2>2, <2>3, <2>4, <2>5, <2>6 DEF Placed
<1>2. CASE Look
  <2>1. PICK n \in 0 .. ReaderBufferSize :
          /\ Device(n, CurrentReads(r)) /\ r' = AfterCurrent(r, n)
          /\ seen' = CurrentByte(r, AfterCurrent(r, n))
    BY <1>2 DEF Look
  <2>2. pc = "loop" /\ pc' = "looked" /\ ~AtEnd(r) /\ client.loop # "peek" /\ ~client.isText
        /\ UNCHANGED <<data, client, out, base, stuck>>
    BY <1>2, <1>b DEF Look
  <2>3. /\ Prefix
        /\ Len(out) = (pos - r.size + r.current) - base
        /\ \/ r.current < r.size
           \/ client.loop = "lines" /\ r.size = 0 /\ r.current = 0 /\ pos = 0
    BY <2>2 DEF Placed
  <2>4. /\ ~AtEnd(r') => r'.current < r'.size
                         /\ pos' - r'.size + r'.current = pos - r.size + r.current
        /\ r.current # r.size => r' = r /\ pos' = pos
    BY <2>1, <2>2, CurrentFits
  <2>5. Prefix'
    BY <2>2, <2>3 DEF Prefix
  <2>6. ~AtEnd(r') => Len(out') = (pos' - r'.size + r'.current) - base'
    <3> DEFINE x == pos' - r'.size + r'.current
               y == pos - r.size + r.current
    <3>1. (~AtEnd(r') => x = y) /\ Len(out') = y - base'
      BY <2>2, <2>3, <2>4
    <3> HIDE DEF x, y
    <3>2. ~AtEnd(r') => Len(out') = x - base'
      BY <3>1
    <3> QED
      BY <3>2 DEF x
  <2>7. ~AtEnd(r') => seen' = data'[base' + Len(out') + 1]
    <3> SUFFICES ASSUME ~AtEnd(r') PROVE seen' = data'[base' + Len(out') + 1]
      OBVIOUS
    <3>1. seen' = r'.buffer[r'.current]
      BY <2>1, <2>2 DEF CurrentByte, TextEnd
    <3>2. Fits(r', pos') /\ pos' \in 0 .. Len(data)
      BY <2>1, CurrentFits
    <3>3. /\ r'.buffer[r'.current] = data[pos' - r'.size + r'.current + 1]
          /\ r'.size \in Nat /\ r'.current \in Nat /\ pos' \in Nat
      BY <1>0, <2>4, <3>2, ByteIs
    <3>4. base + Len(out) + 1 = pos' - r'.size + r'.current + 1
      <4>1. pos' - r'.size + r'.current \in Int
        BY <3>3
      <4> DEFINE x == pos' - r'.size + r'.current
      <4>2. Len(out) = x - base /\ x \in Int
        BY <2>2, <2>6, <4>1
      <4> HIDE DEF x
      <4>3. base + Len(out) + 1 = x + 1
        BY <1>a, <4>2
      <4> QED
        BY <4>3 DEF x
    <3> QED
      BY <2>2, <3>1, <3>3, <3>4
  <2>8. AtEnd(r') => client.loop = "lines" /\ pos' = 0 /\ out = <<>>
    <3> SUFFICES ASSUME AtEnd(r') PROVE client.loop = "lines" /\ pos' = 0 /\ out = <<>>
      OBVIOUS
    <3>1. ~(r.current < r.size)
      BY <1>a, <2>2, <2>4
    <3>2. client.loop = "lines" /\ r.size = 0 /\ r.current = 0 /\ pos = 0 /\ r.current = r.size
      BY <2>3, <3>1
    <3>3. Len(out) = 0
      BY <1>a, <2>2, <2>3, <3>2
    <3>4. out = <<>>
      BY <1>0, <3>3, EmptySeq DEF TypeOK
    <3>5. pos' = 0
      <4>1. pos' = pos + n /\ n \in Nat
        BY <2>1 DEF Device
      <4>2. n > 0 => r' = Loaded(r, n)
        BY <2>1, <2>2, <3>2 DEF AfterCurrent, TextEnd, Filled, Settled
      <4>3. n > 0 => r'.size = n
        BY <4>2 DEF Loaded, Typed, TypeOK, Reader
      <4>4. r'.size = ReaderEof
        BY DEF AtEnd
      <4> QED
        BY <3>2, <4>1, <4>3, <4>4, Sizes
    <3> QED
      BY <3>2, <3>4, <3>5
  <2> QED
    BY <2>2, <2>3, <2>4, <2>5, <2>6, <2>7, <2>8 DEF Placed
<1>3. CASE Use
  <2>1. PICK n \in 0 .. ReaderBufferSize : Device(n, NextReads(r)) /\ r' = NextByte(r, n)
    BY <1>3 DEF Use
  <2> DEFINE e == IF client.loop = "lines" /\ seen # NL THEN CurrentByte(r, r) ELSE seen
  <2>2. pc = "looked" /\ pc' = "loop" /\ out' = Append(out, e)
        /\ UNCHANGED <<data, client, seen, base, stuck>>
    BY <1>3 DEF Use
  <2>3. client.loop # "peek" /\ ~client.isText
    BY <1>b, <2>2 DEF Placed
  <2>4. /\ ~AtEnd(r') =>
             /\ ~AtEnd(r) /\ r'.current < r'.size
             /\ pos' - r'.size + r'.current =
                  pos - r.size + r.current + (IF r.current = r.size THEN 0 ELSE 1)
        /\ AtEnd(r) => r' = r
    BY <2>1, NextFits
  <2>5. CASE ~AtEnd(r)
    <3>1. /\ Prefix /\ r.current < r.size
          /\ Len(out) = (pos - r.size + r.current) - base
          /\ seen = data[base + Len(out) + 1]
      BY <2>2, <2>3, <2>5 DEF Placed
    <3>2. /\ r.buffer[r.current] = data[pos - r.size + r.current + 1]
          /\ pos - r.size + r.current + 1 <= Len(data)
          /\ r.buffer[r.current] \in Byte
      <4>1. Fits(r, pos) /\ pos \in 0 .. Len(data)
        BY DEF Typed, TypeOK, Window, InBuffer, Fits
      <4> QED
        BY <1>0, <2>5, <3>1, <4>1, ByteIs
    <3>3. pos - r.size + r.current + 1 = base + Len(out) + 1
      BY <1>a, <2>5, <3>1, SMTT(30)
    <3>4. e = seen /\ e = data[base + Len(out) + 1] /\ e \in Byte
      <4>1. CurrentByte(r, r) = r.buffer[r.current]
        BY <2>3, <2>5 DEF CurrentByte, TextEnd
      <4> QED
        BY <3>1, <3>2, <3>3, <4>1
    <3>5. Len(out) + 1 <= Len(data) - base
      BY <1>a, <3>2, <3>3
    <3> HIDE DEF e
    <3>6. Prefix' /\ Len(out') = Len(out) + 1
      BY <1>0, <2>2, <3>1, <3>4, <3>5, Extends
    <3>7. ~AtEnd(r') => Len(out') = (pos' - r'.size + r'.current) - base'
      <4> SUFFICES ASSUME ~AtEnd(r') PROVE Len(out') = (pos' - r'.size + r'.current) - base'
        OBVIOUS
      <4>1. r.current # r.size /\ r.size \in Nat
        BY <1>a, <2>5, <3>1
      <4>2. pos' - r'.size + r'.current = pos - r.size + r.current + 1
        BY <2>4, <4>1
      <4> DEFINE x == pos' - r'.size + r'.current
                 y == pos - r.size + r.current
      <4>3. x = y + 1 /\ y \in Int /\ Len(out) = y - base /\ Len(out') = Len(out) + 1
            /\ base' = base
        BY <1>a, <2>2, <3>1, <3>6, <4>1, <4>2, SMTT(30)
      <4> HIDE DEF x, y
      <4>4. Len(out') = x - base'
        BY <1>a, <4>3
      <4> QED
        BY <4>4 DEF x
    <3> QED
      BY <2>2, <2>3, <2>4, <3>6, <3>7 DEF Placed
  <2>6. CASE AtEnd(r)
    <3>1. r' = r /\ client.loop = "lines" /\ pos = 0 /\ out = <<>>
      BY <2>2, <2>4, <2>6 DEF Placed
    <3>2. pos' = 0
      <4>1. n = 0 /\ pos' = pos + n
        BY <2>1, <2>6 DEF Device, NextReads
      <4> QED
        BY <3>1, <4>1
    <3>3. Len(out') = 1
      BY <2>2, <3>1
    <3>4. EmptyLine'
      BY <2>2, <3>1, <3>2, <3>3 DEF EmptyLine
    <3> QED
      BY <2>2, <2>3, <2>6, <3>1, <3>4 DEF Placed
  <2> QED
    BY <2>5, <2>6
<1>4. CASE Peek
  <2>1. PICK n \in 0 .. ReaderBufferSize : Device(n, NextReads(r)) /\ r' = NextByte(r, n)
    BY <1>4 DEF Peek
  <2> DEFINE e == CurrentByte(r', r')
  <2>2. /\ pc = "loop" /\ client.loop = "peek" /\ ~AtEnd(r)
        /\ out' = IF e = ReaderEof THEN out ELSE Append(out, e)
        /\ pc' = IF e = ReaderEof THEN "done" ELSE "loop"
        /\ UNCHANGED <<data, client, seen, base, stuck>>
    BY <1>4 DEF Peek
  <2>3. /\ Prefix /\ base = 0
        /\ \/ r.size = 0 /\ r.current = 0 /\ pos = 0 /\ out = <<>>
           \/ r.current < r.size /\ Len(out) = pos - r.size + r.current + 1
    BY <2>2 DEF Placed
  <2>4. /\ ~AtEnd(r') =>
             /\ ~AtEnd(r) /\ r'.current < r'.size
             /\ pos' - r'.size + r'.current =
                  pos - r.size + r.current + (IF r.current = r.size THEN 0 ELSE 1)
    BY <2>1, NextFits
  <2>5. CASE e = ReaderEof
    <3>1. Prefix'
      BY <2>2, <2>3, <2>5 DEF Prefix
    <3> QED
      BY <2>2, <2>3, <2>5, <3>1 DEF Placed
  <2>6. CASE e # ReaderEof
    <3>1. ~AtEnd(r') /\ e = r'.buffer[r'.current]
      BY <2>6 DEF CurrentByte
    <3>2. Fits(r', pos') /\ pos' \in 0 .. Len(data)
      BY <2>1, NextFits
    <3>3. /\ r'.buffer[r'.current] = data[pos' - r'.size + r'.current + 1]
          /\ pos' - r'.size + r'.current + 1 <= Len(data)
          /\ r'.buffer[r'.current] \in Byte
          /\ r'.size \in Nat /\ r'.current \in Nat /\ pos' \in Nat
      BY <1>0, <2>4, <3>1, <3>2, ByteIs
    <3>4. pos' - r'.size + r'.current = Len(out)
      <4>1. CASE r.size = 0 /\ r.current = 0 /\ pos = 0 /\ out = <<>>
        <5>1. Len(out) = 0 /\ pos - r.size + r.current = 0
          BY <1>a, <4>1
        <5> QED
          BY <2>4, <3>1, <4>1, <5>1
      <4>2. CASE r.current < r.size /\ Len(out) = pos - r.size + r.current + 1
        <5>1. r.current # r.size
          BY <1>a, <2>2, <4>2
        <5> QED
          BY <2>4, <3>1, <4>2, <5>1
      <4> QED
        BY <2>3, <4>1, <4>2
    <3>5. Len(out) + 1 <= Len(data) - base /\ base + Len(out) + 1 = Len(out) + 1
      BY <1>a, <2>2, <2>3, <3>3, <3>4
    <3>6. e = data[base + Len(out) + 1] /\ e \in Byte /\ out' = Append(out, e)
      BY <2>2, <2>6, <3>1, <3>3, <3>4, <3>5
    <3> HIDE DEF e
    <3>7. Prefix' /\ Len(out') = Len(out) + 1
      <4>1. UNCHANGED <<data, base>> /\ e \in Byte \cup {ReaderEof}
        BY <2>2, <3>6
      <4> QED
        BY <1>0, <2>3, <3>5, <3>6, <4>1, Extends
    <3>8. Len(out') = pos' - r'.size + r'.current + 1
      BY <3>4, <3>7
    <3>9. pc' = "loop" /\ r'.current < r'.size
      BY <2>2, <2>4, <2>6, <3>1
    <3> QED
      BY <2>2, <2>3, <3>7, <3>8, <3>9 DEF Placed
  <2> QED
    BY <2>5, <2>6
<1>5. CASE SetPosition
  <2>1. /\ client.loop = "seek" /\ r' = Reset(r) /\ base' = pos' /\ out' = <<>> /\ pc' = "prime"
        /\ UNCHANGED <<data, client>>
    BY <1>5 DEF SetPosition
  <2>2. Prefix'
    BY <1>0, <2>1, PrefixEmpty
  <2>3. ~AtEnd(r') => r'.size = 0 /\ r'.current = 0
    <3>1. r \in Reader
      BY <1>0 DEF TypeOK
    <3>2. AtEnd(r) => r' = r
      BY <2>1 DEF Reset
    <3> QED
      BY <2>1, <3>1, <3>2, ResetFits
  <2> QED
    BY <2>1, <2>2, <2>3 DEF Placed
<1>6. CASE Stop
  <2>1. pc' = "done" /\ UNCHANGED <<data, pos, r, client, out, base>>
    BY <1>6 DEF Stop
  <2> QED
    BY <2>1 DEF Placed, Prefix, EmptyLine
<1>7. CASE Finished \/ UNCHANGED vars
  <2>1. UNCHANGED <<data, pos, r, client, out, base, pc, seen>>
    BY <1>7 DEF Finished, vars
  <2> QED
    BY <2>1 DEF Placed, Prefix, EmptyLine
<1> QED
  BY <1>1, <1>2, <1>3, <1>4, <1>5, <1>6, <1>7 DEF Next

LEMMA InitPlaced == Init => Placed
<1> SUFFICES ASSUME Init PROVE Placed
  OBVIOUS
<1>1. /\ r.size = 0 /\ r.current = 0 /\ pos = 0 /\ base = 0 /\ out = <<>>
      /\ pc = IF client.loop \in {"take", "seek"} THEN "prime" ELSE "loop"
  BY DEF Init
<1>2. Len(out) = 0
  BY <1>1
<1>3. Len(data) \in Nat
  BY InitTyped, Data DEF Typed
<1>4. Prefix
  BY <1>1, <1>2, <1>3 DEF Prefix
<1>5. client.loop \in {"take", "seek", "peek", "lines"}
  BY DEF Init, Clients
<1>6. 0 = (pos - r.size + r.current) - base
  BY <1>1
<1> QED
  BY <1>1, <1>2, <1>4, <1>5, <1>6 DEF Placed

-------------------------------------------------------------------------------
(* What the client has got at the end.                                      *)

\* A client is done when its reader is at the end, and the reader is at the end
\* when the device is, in a text also in front of a null byte.
Ended ==
  /\ pc = "done" => AtEnd(r)
  /\ pc = "prime" /\ AtEnd(r) => stuck
  /\ AtEnd(r) /\ ~failed =>
       IF client.isText
       THEN Len(out) = pos \/ data[Len(out) + 1] = 0
       ELSE stuck \/ EmptyLine \/ Len(out) = Len(data) - base

\* A read that ends the reader has got nothing, or a text starts with a null byte.
LEMMA FilledEnds ==
  ASSUME TypeOK, NEW s \in Reader, NEW n \in 0 .. ReaderBufferSize, Reads(n), base <= pos,
         AtEnd(Filled(s, n))
  PROVE  n = 0 \/ (client.isText /\ data[pos + 1] = 0)
<1> SUFFICES ASSUME n > 0 PROVE client.isText /\ data[pos + 1] = 0
  OBVIOUS
<1>1. Filled(s, n) = Settled(Loaded(s, n))
  BY DEF Filled
<1>2. Fits(Loaded(s, n), pos + n) /\ Loaded(s, n).size = n /\ Loaded(s, n).current = 0
  BY LoadedFits
<1>3. ~AtEnd(Loaded(s, n))
  BY <1>2, Sizes DEF AtEnd
<1>4. client.isText /\ Loaded(s, n).buffer[0] = 0
  BY <1>1, <1>2, <1>3 DEF Settled, TextEnd
<1>5. Loaded(s, n).buffer[0] = data[(pos + n) - n + 0 + 1]
  <2>1. 0 \in 0 .. n - 1
    OBVIOUS
  <2> QED
    BY <1>2, <1>3, <2>1 DEF Fits
<1>6. (pos + n) - n + 0 + 1 = pos + 1
  BY Data
<1> QED
  BY <1>4, <1>5, <1>6

\* Where Next() finds the end: q bytes are in front of it.
LEMMA NextEnds ==
  ASSUME Typed, NEW n \in 0 .. ReaderBufferSize, Device(n, NextReads(r)), ~AtEnd(r),
         AtEnd(NextByte(r, n)),
         NEW q, q = (pos - r.size + r.current) + (IF r.current = r.size THEN 0 ELSE 1)
  PROVE  /\ client.isText => q = pos' \/ data[q + 1] = 0
         /\ ~client.isText /\ ~failed' => q = Len(data)
<1>1. /\ TypeOK /\ Reads(n) /\ pos' = pos + n /\ (~NextReads(r) => n = 0) /\ n \in Nat
      /\ failed' = (failed \/ (NextReads(r) /\ n = 0 /\ Left > 0))
  BY DEF Device, Typed
<1>2. /\ r \in Reader /\ pos \in Nat /\ base \in Nat /\ Len(data) \in Nat /\ pos <= Len(data)
      /\ r.size \in Nat /\ r.current \in Nat /\ r.current <= r.size /\ r.size <= pos - base
      /\ base <= pos
  <2>1. /\ r.current \in 0 .. ReaderBufferSize - 1
        /\ r.size \in r.current .. ReaderBufferSize - 1 /\ r.size <= pos - base
    BY DEF Typed, Window, InBuffer
  <2>2. pos \in Nat /\ base \in Nat /\ Len(data) \in Nat /\ pos <= Len(data)
    BY <1>1, Data
  <2> QED
    BY <1>1, <2>1, <2>2, Sizes, SMTT(30) DEF TypeOK
<1>3. ASSUME q = pos, NEW s \in Reader, NextByte(r, n) = Filled(s, n), NextReads(r)
      PROVE  /\ client.isText => q = pos' \/ data[q + 1] = 0
             /\ ~client.isText /\ ~failed' => q = Len(data)
  <2>1. n = 0 \/ (client.isText /\ data[pos + 1] = 0)
    BY <1>1, <1>2, <1>3, FilledEnds
  <2>2. n = 0 => pos' = pos
    BY <1>1, <1>2
  <2>3. n = 0 /\ ~failed' => pos = Len(data)
    <3>1. n = 0 /\ ~failed' => ~(Left > 0)
      BY <1>1, <1>3
    <3>2. ~(Left > 0) => pos = Len(data)
      BY <1>2 DEF Left
    <3> QED
      BY <3>1, <3>2
  <2> QED
    BY <1>3, <2>1, <2>2, <2>3
<1>4. CASE r.current = r.size
  <2>1. q = pos
    BY <1>2, <1>4
  <2>2. NextByte(r, n) = Filled(r, n) /\ NextReads(r)
    BY <1>4 DEF NextByte, NextReads
  <2> QED
    BY <1>2, <1>3, <2>1, <2>2
<1>5. CASE r.current # r.size
  <2> DEFINE s == Advanced(r)
  <2>1. s \in Reader /\ s.current = r.current + 1 /\ s.size = r.size /\ s.buffer = r.buffer
    BY <1>2, SMTT(30) DEF Advanced, Reader
  <2>2. q = (pos - r.size + r.current) + 1
    BY <1>5
  <2>3. CASE r.current + 1 = r.size
    <3>1. q = pos
      BY <1>2, <2>2, <2>3, SMTT(30)
    <3>2. CASE TextEnd(s)
      <4>1. ~NextReads(r)
        BY <1>5, <3>2 DEF NextReads
      <4>2. client.isText /\ pos' = pos
        BY <1>1, <1>2, <3>2, <4>1 DEF TextEnd
      <4> QED
        BY <3>1, <4>2
    <3>3. CASE ~TextEnd(s)
      <4>1. NextByte(r, n) = Filled(s, n) /\ NextReads(r)
        BY <1>5, <2>3, <3>3 DEF NextByte, NextReads
      <4> QED
        BY <1>3, <2>1, <3>1, <4>1
    <3> QED
      BY <3>2, <3>3
  <2>4. CASE r.current + 1 # r.size
    <3>1. TextEnd(s)
      <4> SUFFICES ASSUME ~TextEnd(s) PROVE FALSE
        OBVIOUS
      <4>1. NextByte(r, n) = s
        BY <1>5, <2>4 DEF NextByte
      <4> QED
        BY <2>1, <4>1 DEF AtEnd
    <3>2. client.isText /\ r.buffer[r.current + 1] = 0
      BY <2>1, <3>1 DEF TextEnd
    <3>3. r.buffer[r.current + 1] = data[pos - r.size + (r.current + 1) + 1]
      <4>1. r.current + 1 \in 0 .. r.size - 1
        BY <1>2, <1>5, <2>4, SMTT(30)
      <4> QED
        BY <4>1 DEF Typed, Window
    <3>4. pos - r.size + (r.current + 1) + 1 = q + 1
      BY <1>2, <2>2, SMTT(30)
    <3> QED
      BY <3>2, <3>3, <3>4
  <2> QED
    BY <2>3, <2>4
<1> QED
  BY <1>4, <1>5

\* Current() does not take the byte that Next() leaves for the end.
LEMMA NextSettled ==
  ASSUME Typed, NEW n \in 0 .. ReaderBufferSize, Device(n, NextReads(r)), ~AtEnd(r),
         ~AtEnd(NextByte(r, n))
  PROVE  ~TextEnd(NextByte(r, n))
<1>0. TypeOK /\ Reads(n) /\ r \in Reader /\ r.current \in 0 .. ReaderBufferSize - 1
  BY DEF Device, Typed, TypeOK, Window, InBuffer
<1>1. ASSUME NEW s \in Reader PROVE AtEnd(Close(s)) /\ (~AtEnd(Settled(s)) => ~TextEnd(Settled(s)))
  <2>1. AtEnd(Close(s))
    BY <1>1 DEF AtEnd, Close, Reader
  <2> QED
    BY <2>1 DEF Settled
<1>2. ASSUME NEW s \in Reader, ~AtEnd(Filled(s, n)), base <= pos PROVE ~TextEnd(Filled(s, n))
  <2>1. CASE n > 0
    <3>1. Loaded(s, n) \in Reader /\ Filled(s, n) = Settled(Loaded(s, n))
      BY <1>0, <1>2, <2>1, LoadedFits DEF Filled, Fits
    <3> QED
      BY <1>1, <1>2, <3>1
  <2>2. CASE ~(n > 0)
    <3>1. [s EXCEPT !.current = 0] \in Reader
      BY <1>2, AtFirst
    <3>2. Filled(s, n) = Close(s) \/ Filled(s, n) = Close([s EXCEPT !.current = 0])
      BY <2>2 DEF Filled
    <3> QED
      BY <1>1, <1>2, <3>1, <3>2
  <2> QED
    BY <2>1, <2>2
<1>3. base <= pos
  <2>1. r.size \in r.current .. ReaderBufferSize - 1 /\ r.size <= pos - base
    BY DEF Typed, Window, InBuffer
  <2> QED
    BY <1>0, <2>1, Data, Sizes
<1>4. Advanced(r) \in Reader
  BY <1>0, Sizes, SMTT(30) DEF Advanced, Reader
<1>5. NextByte(r, n) = Filled(r, n) \/ NextByte(r, n) = Filled(Advanced(r), n)
      \/ (TextEnd(Advanced(r)) /\ NextByte(r, n) = Close(Advanced(r)))
      \/ (~TextEnd(Advanced(r)) /\ NextByte(r, n) = Advanced(r))
  BY DEF NextByte
<1> HIDE DEF NextByte
<1> QED
  BY <1>0, <1>1, <1>2, <1>3, <1>4, <1>5

\* Every step keeps what a client that is done has got.
LEMMA NextEnded ==
  ASSUME Typed, Placed, Ended, [Next]_vars
  PROVE  Ended'
<1>0. TypeOK /\ Typed' /\ Placed'
  BY NextTyped, NextPlaced DEF Typed
<1>a. /\ Len(out) \in Nat /\ out \in Seq(Byte \cup {ReaderEof}) /\ Len(data) \in Nat /\ base \in Nat
      /\ r.size \in Int /\ r.current \in Nat /\ pos \in Nat
      /\ ~AtEnd(r) => r.size \in Nat
  <2>1. r.current \in 0 .. ReaderBufferSize - 1 /\ r.size \in Int
        /\ (~AtEnd(r) => r.size \in r.current .. ReaderBufferSize - 1)
    BY DEF Typed, TypeOK, Window, InBuffer, Reader
  <2> QED
    BY <1>0, <2>1, Data, LenProperties, Sizes DEF TypeOK
<1>b. client.loop # "peek" => ~client.isText
  BY <1>0 DEF TypeOK, Clients
<1>1. CASE Prime
  <2>1. PICK n \in 0 .. ReaderBufferSize : Device(n, NextReads(r)) /\ r' = NextByte(r, n)
    BY <1>1 DEF Prime
  <2>2. /\ pc = "prime" /\ pc' = "loop" /\ ~client.isText
        /\ UNCHANGED <<data, client, out, base, stuck>>
    BY <1>1, <1>b DEF Prime, Placed
  <2>3. CASE AtEnd(r)
    BY <2>2, <2>3 DEF Ended
  <2>4. CASE ~AtEnd(r)
    <3>1. out = <<>> /\ r.size = 0 /\ r.current = 0 /\ pos = base
      BY <2>2, <2>4 DEF Placed
    <3> DEFINE q == (pos - r.size + r.current) + (IF r.current = r.size THEN 0 ELSE 1)
    <3>2. q = base /\ Len(out) = 0
      BY <1>a, <3>1
    <3>3. AtEnd(r') /\ ~failed' => q = Len(data)
      <4> HIDE DEF q
      <4> QED
        BY <2>1, <2>2, <2>4, NextEnds DEF q
    <3> HIDE DEF q
    <3>4. AtEnd(r') /\ ~failed' => Len(out) = Len(data) - base
      BY <1>a, <3>2, <3>3
    <3> QED
      BY <2>2, <3>4 DEF Ended
  <2> QED
    BY <2>3, <2>4
<1>2. CASE Look
  <2>1. pc' = "looked" /\ client.loop # "peek" /\ UNCHANGED <<data, client, out, base, stuck>>
    BY <1>2 DEF Look
  <2>2. AtEnd(r') => client.loop = "lines" /\ pos' = 0 /\ out' = <<>>
    BY <1>0, <2>1 DEF Placed
  <2>3. AtEnd(r') => EmptyLine'
    <3>1. Len(<<>>) <= 1
      OBVIOUS
    <3> QED
      BY <2>1, <2>2, <3>1 DEF EmptyLine
  <2> QED
    BY <1>b, <2>1, <2>3 DEF Ended
<1>3. CASE Use
  <2>1. PICK n \in 0 .. ReaderBufferSize : Device(n, NextReads(r)) /\ r' = NextByte(r, n)
    BY <1>3 DEF Use
  <2>2. /\ pc = "looked" /\ pc' = "loop" /\ UNCHANGED <<data, client, base, stuck>>
        /\ client.loop # "peek" /\ ~client.isText
    BY <1>3, <1>b DEF Use, Placed
  <2>3. Len(out') = Len(out) + 1
    <3>1. \E e \in Byte \cup {ReaderEof} : out' = Append(out, e)
      <4>1. CurrentByte(r, r) \in Byte \cup {ReaderEof} /\ seen \in Byte \cup {ReaderEof}
        BY ByteFound DEF Typed, TypeOK, Window, InBuffer
      <4> QED
        BY <1>3, <4>1 DEF Use
    <3> QED
      BY <1>a, <3>1, AppendProperties
  <2>4. CASE AtEnd(r)
    <3>1. client.loop = "lines" /\ pos = 0 /\ out = <<>>
      BY <2>2, <2>4 DEF Placed
    <3>2. pos' = 0
      <4>1. n = 0 /\ pos' = pos + n
        BY <2>1, <2>4 DEF Device, NextReads
      <4> QED
        BY <3>1, <4>1
    <3>3. Len(out') = 1
      BY <2>3, <3>1
    <3>4. EmptyLine'
      BY <2>2, <3>1, <3>2, <3>3 DEF EmptyLine
    <3> QED
      BY <2>2, <3>4 DEF Ended
  <2>5. CASE ~AtEnd(r)
    <3>1. r.current < r.size /\ Len(out) = (pos - r.size + r.current) - base
      BY <2>2, <2>5 DEF Placed
    <3> DEFINE q == (pos - r.size + r.current) + (IF r.current = r.size THEN 0 ELSE 1)
    <3>2. q = base + Len(out')
      <4>1. q = (pos - r.size + r.current) + 1
        BY <1>a, <2>5, <3>1
      <4> HIDE DEF q
      <4> QED
        BY <1>a, <2>3, <2>5, <3>1, <4>1, SMTT(30)
    <3>3. AtEnd(r') /\ ~failed' => q = Len(data)
      <4> HIDE DEF q
      <4> QED
        BY <2>1, <2>2, <2>5, NextEnds DEF q
    <3> HIDE DEF q
    <3>4. AtEnd(r') /\ ~failed' => Len(out') = Len(data) - base
      BY <1>a, <2>3, <3>2, <3>3
    <3> QED
      BY <2>2, <3>4 DEF Ended
  <2> QED
    BY <2>4, <2>5
<1>4. CASE Peek
  <2>1. PICK n \in 0 .. ReaderBufferSize : Device(n, NextReads(r)) /\ r' = NextByte(r, n)
    BY <1>4 DEF Peek
  <2> DEFINE e == CurrentByte(r', r')
  <2>2. /\ pc = "loop" /\ client.loop = "peek" /\ ~AtEnd(r)
        /\ out' = IF e = ReaderEof THEN out ELSE Append(out, e)
        /\ pc' = IF e = ReaderEof THEN "done" ELSE "loop"
        /\ UNCHANGED <<data, client, base, stuck>>
    BY <1>4 DEF Peek
  <2>3. AtEnd(r') => e = ReaderEof
    BY DEF CurrentByte
  <2>4. e = ReaderEof => AtEnd(r')
    <3> SUFFICES ASSUME ~AtEnd(r') PROVE e # ReaderEof
      OBVIOUS
    <3>1. ~TextEnd(r')
      <4>1. ~TextEnd(NextByte(r, n))
        BY <2>1, <2>2, NextSettled
      <4>2. client' = client
        BY <2>2
      <4> QED
        BY <2>1, <4>1, <4>2 DEF TextEnd
    <3>2. e = r'.buffer[r'.current]
      BY <3>1 DEF CurrentByte
    <3>3. r'.buffer \in [0 .. ReaderBufferSize - 1 -> Byte] /\ r'.current \in 0 .. ReaderBufferSize - 1
      BY <1>0 DEF Typed, TypeOK, Window, InBuffer, Reader
    <3>4. e \in Byte
      BY <3>2, <3>3
    <3> HIDE DEF e
    <3>5. \A b \in Byte : b # ReaderEof
      BY Sizes
    <3> QED
      BY <3>4, <3>5
  <2>5. ASSUME AtEnd(r'), ~failed'
        PROVE  IF client.isText THEN Len(out) = pos' \/ data[Len(out) + 1] = 0
               ELSE Len(out) = Len(data) - base
    <3> DEFINE q == (pos - r.size + r.current) + (IF r.current = r.size THEN 0 ELSE 1)
    <3>1. q = Len(out) /\ base = 0
      <4>1. base = 0 /\ (\/ r.size = 0 /\ r.current = 0 /\ pos = 0 /\ out = <<>>
                         \/ r.current < r.size /\ Len(out) = pos - r.size + r.current + 1)
        BY <2>2 DEF Placed
      <4>2. CASE r.size = 0 /\ r.current = 0 /\ pos = 0 /\ out = <<>>
        BY <4>1, <4>2
      <4>3. CASE r.current < r.size /\ Len(out) = pos - r.size + r.current + 1
        BY <1>a, <2>2, <4>1, <4>3
      <4> QED
        BY <4>1, <4>2, <4>3
    <3>2. /\ client.isText => q = pos' \/ data[q + 1] = 0
          /\ ~client.isText /\ ~failed' => q = Len(data)
      <4> HIDE DEF q
      <4> QED
        BY <2>1, <2>2, <2>5, NextEnds DEF q
    <3> HIDE DEF q
    <3> QED
      BY <1>a, <2>5, <3>1, <3>2
  <2>6. client' = client /\ data' = data /\ base' = base /\ (AtEnd(r') => out' = out)
    BY <2>2, <2>3
  <2>7. pc' # "prime" /\ (pc' = "done" => AtEnd(r'))
    BY <2>2, <2>4
  <2> QED
    BY <2>5, <2>6, <2>7 DEF Ended
<1>5. CASE SetPosition
  <2>1. /\ client.loop = "seek" /\ r' = Reset(r) /\ stuck' = AtEnd(r) /\ pc' = "prime"
        /\ client' = client
    BY <1>5 DEF SetPosition
  <2>2. AtEnd(r') => AtEnd(r)
    <3>1. ASSUME ~AtEnd(r) PROVE ~AtEnd(r')
      <4>1. r'.size = 0
        BY <1>0, <2>1, <3>1, ResetFits DEF TypeOK
      <4> QED
        BY <4>1, Sizes DEF AtEnd
    <3> QED
      BY <3>1
  <2> QED
    BY <1>b, <2>1, <2>2 DEF Ended
<1>6. CASE Stop \/ Finished \/ UNCHANGED vars
  <2>1. /\ UNCHANGED <<data, pos, r, client, out, base, failed, stuck>>
        /\ pc' = pc \/ (pc' = "done" /\ AtEnd(r))
    BY <1>6 DEF Stop, Finished, vars
  <2> QED
    BY <2>1 DEF Ended, EmptyLine
<1> QED
  BY <1>1, <1>2, <1>3, <1>4, <1>5, <1>6 DEF Next

LEMMA InitEnded == Init => Ended
<1> SUFFICES ASSUME Init PROVE Ended
  OBVIOUS
<1>1. r.size = 0 /\ pc # "done"
  BY DEF Init
<1>2. ~AtEnd(r)
  BY <1>1, Sizes DEF AtEnd
<1> QED
  BY <1>1, <1>2 DEF Ended

-------------------------------------------------------------------------------
(* The theorems.                                                            *)

IInv == Typed /\ Placed /\ Ended

LEMMA Invariance == Spec => []IInv
<1>1. Init => IInv
  BY InitTyped, InitPlaced, InitEnded DEF IInv
<1>2. IInv /\ [Next]_vars => IInv'
  <2> SUFFICES ASSUME IInv, [Next]_vars PROVE IInv'
    OBVIOUS
  <2>1. Typed /\ Placed /\ Ended
    BY DEF IInv
  <2> QED
    BY <2>1, NextTyped, NextPlaced, NextEnded DEF IInv
<1> QED
  BY <1>1, <1>2, PTL DEF Spec

\* The fields of the reader and what the client got keep their types (TypeOK).
THEOREM TypeCorrect == Spec => []TypeOK
<1>1. IInv => TypeOK
  BY DEF IInv, Typed
<1> QED
  BY <1>1, Invariance, PTL

\* Every access to buffer[current] is inside the buffer, and the buffer holds the
\* bytes before the device position, whatever reads, seeks and resets came before
\* (Window).
THEOREM StaysInWindow == Spec => []Window
<1>1. IInv => Window
  BY DEF IInv, Typed
<1> QED
  BY <1>1, Invariance, PTL

\* A client gets the bytes behind the device in order, none twice, none left out
\* and none that was not read in this place, whatever the sizes of the reads
\* (GetsPrefix).
THEOREM DeliversInOrder == Spec => []GetsPrefix
<1>1. IInv => GetsPrefix
  BY DEF IInv, Placed, Prefix, GetsPrefix
<1> QED
  BY <1>1, Invariance, PTL

\* A client that is done got everything, unless a read failed or it moved the
\* position at the end; a text ends before a null byte or where a read ended
\* (GetsAll).
THEOREM DeliversAll == Spec => []GetsAll
<1>1. IInv => GetsAll
  BY DEF IInv, Ended, GetsAll
<1> QED
  BY <1>1, Invariance, PTL
===============================================================================
