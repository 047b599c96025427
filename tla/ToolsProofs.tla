------------------------------ MODULE ToolsProofs -----------------------------
(***************************************************************************)
(* Proofs about parts of the program that share nothing with the others:   *)
(* a command has the arguments that were entered for it (CommandLine), and *)
(* what AntTSP prints is the shortest of the walks that its ants made, for *)
(* any tasks (AntTSP).                                                     *)
(***************************************************************************)
EXTENDS CommandLine, AntTSP, FiniteSetTheorems, SequenceTheorems, WellFoundedInduction, TLAPS

-------------------------------------------------------------------------------
(* Numbers: least ones, induction and recursion up to n.                    *)

\* A set of numbers that is not empty has a least one.
LEMMA Least ==
  ASSUME NEW T \in SUBSET Nat, T # {}
  PROVE  \E x \in T : \A y \in T : x <= y
<1> DEFINE R == OpToRel(<, Nat)
<1>1. IsWellFoundedOn(R, Nat)
  BY NatLessThanWellFounded
<1>2. \A x, y \in T : <<y, x>> \in R <=> y < x
  BY DEF OpToRel
<1> HIDE DEF R
<1>3. PICK x \in T : \A y \in T : ~(<<y, x>> \in R)
  BY <1>1, WFMin
<1>4. \A y \in T : ~(y < x)
  BY <1>2, <1>3, Zenon
<1> QED
  BY <1>4

\* A set that has 0, and with each number the next one, up to n.
LEMMA UpTo ==
  ASSUME NEW n \in Nat, NEW S, 0 \in S,
         \A i \in 1 .. n : i - 1 \in S => i \in S
  PROVE  \A i \in 0 .. n : i \in S
<1> DEFINE T == {i \in 0 .. n : i \notin S}
<1> SUFFICES ASSUME T # {} PROVE FALSE
  OBVIOUS
<1>1. PICK i \in T : \A j \in T : i <= j
  <2>1. T \in SUBSET Nat
    OBVIOUS
  <2> HIDE DEF T
  <2> QED
    BY <2>1, Least
<1>2. i \in 0 .. n /\ i \notin S /\ i # 0
  BY <1>1
<1>3. i - 1 \in 0 .. n /\ i \in 1 .. n /\ i - 1 \notin T
  BY <1>1, <1>2
<1> QED
  BY <1>2, <1>3

\* A function that begins with c and goes on by the functions step[i].
LEMMA Recursion ==
  ASSUME NEW n \in Nat, NEW V, NEW c \in V, NEW step \in [1 .. n -> [V -> V]]
  PROVE  \E f \in [0 .. n -> V] : f[0] = c /\ \A i \in 1 .. n : f[i] = step[i][f[i - 1]]
<1> DEFINE S == {m \in 0 .. n : \E f \in [0 .. m -> V] :
                   f[0] = c /\ \A i \in 1 .. m : f[i] = step[i][f[i - 1]]}
<1>1. 0 \in S
  <2> DEFINE g == [i \in 0 .. 0 |-> c]
  <2>1. g \in [0 .. 0 -> V] /\ g[0] = c /\ \A i \in 1 .. 0 : g[i] = step[i][g[i - 1]]
    OBVIOUS
  <2>2. 0 \in 0 .. n
    OBVIOUS
  <2> HIDE DEF g
  <2> QED
    BY <2>1, <2>2
<1>2. ASSUME NEW m \in 1 .. n, m - 1 \in S PROVE m \in S
  <2>1. PICK f \in [0 .. m - 1 -> V] :
          f[0] = c /\ \A i \in 1 .. m - 1 : f[i] = step[i][f[i - 1]]
    BY <1>2
  <2> DEFINE d == step[m][f[m - 1]]
             g == [i \in 0 .. m |-> IF i = m THEN d ELSE f[i]]
  <2>2. d \in V
    <3>1. m - 1 \in 0 .. m - 1
      OBVIOUS
    <3>2. f[m - 1] \in V
      BY <2>1, <3>1
    <3> QED
      BY <3>2
  <2>3. /\ \A i \in 0 .. m - 1 : i \in 0 .. m /\ i # m
        /\ \A i \in 0 .. m : i # m => i \in 0 .. m - 1
        /\ \A i \in 1 .. m : i - 1 \in 0 .. m - 1
        /\ \A i \in 1 .. m : i # m => i \in 1 .. m - 1
        /\ 0 \in 0 .. m /\ 0 \in 0 .. m - 1 /\ m \in 0 .. m
    OBVIOUS
  <2>4. g \in [0 .. m -> V]
    <3> HIDE DEF d
    <3> QED
      BY <2>1, <2>2, <2>3
  <2>5. g[m] = d /\ \A i \in 0 .. m - 1 : g[i] = f[i]
    <3> HIDE DEF d
    <3> QED
      BY <2>3
  <2>6. ASSUME NEW i \in 1 .. m PROVE g[i] = step[i][g[i - 1]]
    <3>1. g[i - 1] = f[i - 1]
      BY <2>3, <2>5
    <3>2. CASE i = m
      BY <2>5, <3>1, <3>2
    <3>3. CASE i # m
      <4>1. i \in 1 .. m - 1 /\ i \in 0 .. m - 1
        BY <3>3
      <4> QED
        BY <2>1, <2>5, <3>1, <4>1
    <3> QED
      BY <3>2, <3>3
  <2>7. g[0] = c
    BY <2>1, <2>3, <2>5
  <2>8. m \in 0 .. n
    OBVIOUS
  <2> HIDE DEF g
  <2> QED
    BY <2>4, <2>6, <2>7, <2>8
<1>3. n \in S
  <2> HIDE DEF S
  <2>1. \A i \in 0 .. n : i \in S
    BY <1>1, <1>2, UpTo
  <2> QED
    BY <2>1
<1> QED
  BY <1>3

-------------------------------------------------------------------------------
(* The command line: what its steps preserve.                               *)

\* The command line by itself.
LineSpec == InitLine /\ [][LineStep]_line

\* The buffer is as long as it is, and len is a place in it.
LineTyped ==
  /\ szLine \in [Index -> Char \cup {NUL}]
  /\ len \in 0 .. MAX_PATH - 1
  /\ lineAt \in {"prompt", "keys", "command", "lost"}
  /\ entered \in Seq(Char)

\* The buffer begins with what was entered.
Begins ==
  Len(entered) < MAX_PATH /\ \A k \in 0 .. Len(entered) - 1 : szLine[k] = entered[k + 1]

\* What the buffer has while a line is typed, and when a command is carried out:
\* the line and its terminator, or, for an empty line whose terminator went in
\* front of the buffer, anything.
Holds ==
  /\ lineAt = "keys" => len = Len(entered) /\ Begins /\ ~underflow
  /\ lineAt = "command" =>
       IF underflow THEN entered = <<>> ELSE Begins /\ szLine[Len(entered)] = NUL
  /\ lineAt # "prompt" => words = None

\* The inductive invariant.
LineInv == LineTyped /\ Holds /\ ArgumentsAsEntered
-------------------------------------------------------------------------------
(* Strings in the buffer.                                                   *)

\* What the program compares characters with is told apart.
LEMMA Characters ==
  /\ NUL \notin Op /\ NUL # Space /\ Space \in Char /\ Dot \in Char
  /\ Op \subseteq Char /\ DOMAIN Digit = {"0", "1", "2"} /\ DOMAIN Digit \subseteq Char
  /\ Space \notin DOMAIN Digit /\ Dot \notin DOMAIN Digit /\ NUL \notin DOMAIN Digit
BY LineAssumption DEF NUL, Op, Space, Dot, Digit, Char

\* A string ends at its first terminator.
EndsAt(s, k, e) ==
  k \in Nat /\ e \in k .. MAX_PATH - 1 /\ s[e] = NUL /\ \A j \in k .. e - 1 : s[j] # NUL

LEMMA EndIs ==
  ASSUME NEW s, NEW k, NEW e, EndsAt(s, k, e)
  PROVE  End(s, k) = e
<1>0. /\ MAX_PATH \in Nat /\ k \in Nat /\ e \in k .. MAX_PATH - 1 /\ s[e] = NUL
      /\ \A j \in k .. e - 1 : s[j] # NUL
  BY LineAssumption DEF EndsAt
<1> DEFINE P(x) == /\ x = MAX_PATH \/ s[x] = NUL
                   /\ \A j \in k .. x - 1 : s[j] # NUL
           x0 == CHOOSE x \in k .. MAX_PATH : P(x)
<1>1. e \in k .. MAX_PATH /\ P(e)
  BY <1>0
<1>2. x0 \in k .. MAX_PATH /\ P(x0)
  <2> HIDE DEF P
  <2> QED
    BY <1>1
<1>3. End(s, k) = x0
  BY DEF End
<1> HIDE DEF x0
<1>4. ~(x0 < e)
  <2> SUFFICES ASSUME x0 < e PROVE FALSE
    OBVIOUS
  <2>1. x0 \in k .. e - 1 /\ x0 # MAX_PATH
    BY <1>0, <1>2
  <2> QED
    BY <1>0, <1>2, <2>1
<1>5. ~(e < x0)
  <2> SUFFICES ASSUME e < x0 PROVE FALSE
    OBVIOUS
  <2>1. e \in k .. x0 - 1
    BY <1>0, <1>2
  <2> QED
    BY <1>0, <1>2, <2>1
<1> QED
  BY <1>0, <1>2, <1>3, <1>4, <1>5

\* So is what StringAt has.
LEMMA StringIs ==
  ASSUME NEW s, NEW k, NEW e, EndsAt(s, k, e)
  PROVE  StringAt(s, k) = [j \in 1 .. e - k |-> s[k + j - 1]]
<1>1. End(s, k) = e
  BY EndIs
<1>2. ~(k >= MAX_PATH)
  BY LineAssumption DEF EndsAt
<1> QED
  BY <1>1, <1>2 DEF StringAt

\* A line of n characters with its terminator is in the buffer.
InBuffer(s, text) ==
  /\ text \in Seq(Char) /\ Len(text) < MAX_PATH
  /\ \A k \in 0 .. Len(text) - 1 : s[k] = text[k + 1]
  /\ s[Len(text)] = NUL

\* The characters of the line are none of them its terminator.
LEMMA LineInBuffer ==
  ASSUME NEW s, NEW text, InBuffer(s, text)
  PROVE  /\ Len(text) \in Nat /\ Len(text) \in 0 .. MAX_PATH - 1 /\ MAX_PATH \in Nat
         /\ \A k \in 0 .. Len(text) - 1 : s[k] \in Char /\ s[k] # NUL
         /\ \A k \in 0 .. Len(text) - 1 : s[k] = text[k + 1]
         /\ s[Len(text)] = NUL
         /\ \A j \in 1 .. Len(text) : text[j] = s[j - 1]
<1>1. Len(text) \in Nat /\ MAX_PATH \in Nat /\ Len(text) < MAX_PATH
  BY LineAssumption DEF InBuffer
<1>2. \A j \in 1 .. Len(text) : text[j] \in Char
  BY DEF InBuffer
<1>3. \A k \in 0 .. Len(text) - 1 : k + 1 \in 1 .. Len(text)
  BY <1>1
<1>4. \A j \in 1 .. Len(text) : j - 1 \in 0 .. Len(text) - 1 /\ j - 1 + 1 = j
  BY <1>1
<1>5. \A k \in 0 .. Len(text) - 1 : s[k] = text[k + 1]
  BY DEF InBuffer
<1>6. \A j \in 1 .. Len(text) : text[j] = s[j - 1]
  BY <1>4, <1>5
<1>7. \A k \in 0 .. Len(text) - 1 : s[k] \in Char /\ s[k] # NUL
  BY <1>2, <1>3, <1>5, LineAssumption
<1> QED
  BY <1>1, <1>5, <1>6, <1>7 DEF InBuffer
-------------------------------------------------------------------------------
(* Cutting a line.                                                          *)

\* The words of a text with spaces: up to the first one, and on to the next one
\* or the end.
LEMMA WordsAre ==
  ASSUME NEW text \in Seq(Char), NEW every \in BOOLEAN,
         \E k \in DOMAIN text : text[k] = Space
  PROVE  \E a \in 1 .. Len(text), b \in 2 .. Len(text) + 1 :
           /\ a < b /\ text[a] = Space /\ \A j \in 1 .. a - 1 : text[j] # Space
           /\ Words(text, every) = <<SubSeq(text, 1, a - 1), SubSeq(text, a + 1, b - 1)>>
           /\ IF every THEN /\ \A j \in a + 1 .. b - 1 : text[j] # Space
                            /\ b = Len(text) + 1 \/ (b \in 1 .. Len(text) /\ text[b] = Space)
                       ELSE b = Len(text) + 1
<1> DEFINE n == Len(text)
           spaces == {k \in DOMAIN text : text[k] = Space}
           a == CHOOSE k \in spaces : \A j \in spaces : k <= j
           later == spaces \ {a}
           next == CHOOSE k \in later : \A j \in later : k <= j
           b == IF every /\ later # {} THEN next ELSE n + 1
<1>1. n \in Nat /\ spaces = {k \in 1 .. n : text[k] = Space} /\ spaces # {}
  OBVIOUS
<1>2. Words(text, every) = <<SubSeq(text, 1, a - 1), SubSeq(text, a + 1, b - 1)>>
  BY <1>1, Zenon DEF Words
<1> HIDE DEF n, spaces
<1>3. spaces \in SUBSET Nat
  BY <1>1
<1>4. a \in spaces /\ \A j \in spaces : a <= j
  BY <1>1, <1>3, Least
<1> HIDE DEF a
<1>5. later # {} => next \in later /\ \A j \in later : next <= j
  <2>1. later \in SUBSET Nat
    BY <1>3
  <2> HIDE DEF later
  <2> QED
    BY <2>1, Least
<1> HIDE DEF next
<1>6. a \in 1 .. n /\ text[a] = Space /\ \A j \in 1 .. a - 1 : text[j] # Space
  <2>1. \A j \in 1 .. a - 1 : j \notin spaces
    BY <1>1, <1>4
  <2> QED
    BY <1>1, <1>4, <2>1
<1>7. CASE every /\ later # {}
  <2>1. b = next /\ next \in 1 .. n /\ text[next] = Space /\ a < next
    BY <1>1, <1>4, <1>5, <1>7
  <2>2. \A j \in a + 1 .. next - 1 : text[j] # Space
    <3>1. \A j \in a + 1 .. next - 1 : j \notin later /\ j # a /\ j \in 1 .. n
      BY <1>1, <1>5, <1>6, <1>7, <2>1
    <3> QED
      BY <1>1, <3>1
  <2>3. next \in 2 .. n + 1
    BY <1>1, <1>6, <2>1
  <2> QED
    BY <1>2, <1>6, <1>7, <2>1, <2>2, <2>3 DEF n
<1>8. CASE ~(every /\ later # {})
  <2>1. b = n + 1
    BY <1>8, Zenon
  <2>2. every => \A j \in a + 1 .. n : text[j] # Space
    <3>1. \A j \in a + 1 .. n : j \in 1 .. n /\ j # a
      BY <1>1, <1>6
    <3> QED
      BY <1>1, <1>8, <3>1
  <2>3. n + 1 - 1 = n /\ n + 1 \in 2 .. n + 1 /\ a < n + 1
    BY <1>1, <1>6
  <2> HIDE DEF b
  <2>4. every => \A j \in a + 1 .. b - 1 : text[j] # Space
    <3>1. b - 1 = n
      BY <1>1, <2>1
    <3> QED
      BY <2>2, <3>1
  <2>5. b \in 2 .. n + 1 /\ a < b
    BY <2>1, <2>3
  <2> QED
    BY <1>2, <1>6, <2>1, <2>4, <2>5, Zenon DEF n
<1> QED
  BY <1>7, <1>8
\* What follows the name of a command and one character.
LEMMA Behind ==
  ASSUME NEW text \in Seq(Char), Len(text) >= 2
  PROVE  /\ SubSeq(text, 3, Len(text)) \in Seq(Char)
         /\ Len(SubSeq(text, 3, Len(text))) = Len(text) - 2
         /\ \A j \in 1 .. Len(text) - 2 : SubSeq(text, 3, Len(text))[j] = text[j + 2]
<1> DEFINE n == Len(text)
<1>1. n \in Nat /\ n >= 2 /\ text \in Seq(Char) /\ n = Len(text)
  OBVIOUS
<1> HIDE DEF n
<1>2. /\ SubSeq(text, 3, n) \in Seq(Char) /\ Len(SubSeq(text, 3, n)) = n - 2
      /\ \A j \in 1 .. n - 2 : SubSeq(text, 3, n)[j] = text[3 + j - 1]
  BY <1>1, SubSeqProperties
<1>3. \A j \in 1 .. n - 2 : 3 + j - 1 = j + 2
  OBVIOUS
<1> QED
  BY <1>1, <1>2, <1>3

\* The two elements of a pair.
LEMMA Pair ==
  ASSUME NEW x, NEW y, NEW c, c = <<x, y>>
  PROVE  c[1] = x /\ c[2] = y
OBVIOUS

\* The arguments that a command finds are those of the line in the buffer.
LEMMA CutsAsMeant ==
  ASSUME NEW s \in [Index -> Char \cup {NUL}], NEW text, InBuffer(s, text),
         s[0] \in Op, Len(text) >= First,
         NEW meant, meant = SubSeq(text, First + 1, Len(text))
  PROVE  LET cut == IF s[0] \in {"cd", "connect"} THEN <<meant>> ELSE Words(meant, s[0] = "mv")
         IN  /\ StringAt(Terminated(s), First) = cut[1]
             /\ Len(cut) = 2 => Second(Terminated(s)) = cut[2]
<1> DEFINE n == Len(text)
           t == Terminated(s)
           cut == IF s[0] \in {"cd", "connect"} THEN <<meant>> ELSE Words(meant, s[0] = "mv")
<1> SUFFICES StringAt(t, First) = cut[1] /\ (Len(cut) = 2 => Second(t) = cut[2])
  BY Zenon
<1>0. IF s[0] \in {"cd", "connect"} THEN cut = <<meant>> ELSE cut = Words(meant, s[0] = "mv")
  OBVIOUS
<1> HIDE DEF cut
<1>1. /\ n \in Nat /\ n \in 2 .. MAX_PATH - 1 /\ MAX_PATH \in Nat
      /\ \A k \in 0 .. n - 1 : s[k] \in Char /\ s[k] # NUL /\ s[k] = text[k + 1]
      /\ s[n] = NUL /\ \A j \in 1 .. n : text[j] = s[j - 1]
  BY LineInBuffer DEF First
<1>2. /\ meant \in Seq(Char) /\ Len(meant) = n - 2 /\ DOMAIN meant = 1 .. n - 2
      /\ \A j \in 1 .. n - 2 : meant[j] = s[j + 1]
  <2>1. text \in Seq(Char)
    BY DEF InBuffer
  <2>2. /\ SubSeq(text, 3, n) \in Seq(Char) /\ Len(SubSeq(text, 3, n)) = n - 2
        /\ \A j \in 1 .. n - 2 : SubSeq(text, 3, n)[j] = text[j + 2]
    BY <1>1, <2>1, Behind
  <2>3. \A j \in 1 .. n - 2 : j + 2 \in 1 .. n /\ j + 2 - 1 = j + 1
    BY <1>1
  <2>4. \A j \in 1 .. n - 2 : text[j + 2] = s[j + 1]
    BY <1>1, <2>3
  <2> HIDE DEF n
  <2> QED
    BY <1>1, <2>2, <2>4 DEF First, n
<1> HIDE DEF n
<1>sizes. n \in Nat /\ n >= 2 /\ n <= MAX_PATH - 1 /\ MAX_PATH \in Nat
  BY <1>1
<1>meant. meant \in Seq(Char) /\ Len(meant) = n - 2
  BY <1>2
<1>3. Spaces(s) = {k \in 2 .. n - 1 : s[k] = Space}
  <2>1. End(s, 2) = n
    <3>1. \A j \in 2 .. n - 1 : s[j] # NUL
      BY <1>1
    <3>2. EndsAt(s, 2, n)
      BY <1>1, <3>1 DEF EndsAt
    <3> QED
      BY <3>2, EndIs
  <2> QED
    BY <2>1 DEF Spaces, First
<1>4. \A k \in Index : t[k] = IF k \in Cuts(s) THEN NUL ELSE s[k]
  BY DEF Terminated
<1>5. Index = 0 .. MAX_PATH - 1
  BY DEF Index
<1> HIDE DEF t
<1>6. CASE s[0] \in {"cd", "connect"} \/ Spaces(s) = {}
  <2>1. Cuts(s) = {}
    BY <1>6 DEF Cuts
  <2>2. \A k \in 0 .. n : t[k] = s[k]
    BY <1>1, <1>4, <1>5, <2>1
  <2>3. StringAt(t, 2) = [j \in 1 .. n - 2 |-> t[2 + j - 1]]
    <3>1. t[n] = NUL /\ \A j \in 2 .. n - 1 : t[j] # NUL
      <4>1. n \in 0 .. n /\ \A j \in 2 .. n - 1 : j \in 0 .. n /\ j \in 0 .. n - 1
        BY <1>sizes
      <4> QED
        BY <1>1, <2>2, <4>1
    <3>2. EndsAt(t, 2, n)
      BY <1>sizes, <3>1 DEF EndsAt
    <3> QED
      BY <3>2, StringIs
  <2>4. ASSUME NEW j \in 1 .. n - 2 PROVE t[2 + j - 1] = meant[j]
    <3>1. 2 + j - 1 = j + 1 /\ j + 1 \in 0 .. n
      BY <1>sizes
    <3> QED
      BY <1>2, <2>2, <3>1
  <2>5. StringAt(t, 2) = meant
    <3>1. meant = [j \in 1 .. n - 2 |-> meant[j]]
      <4>1. meant = [j \in 1 .. Len(meant) |-> meant[j]]
        BY <1>meant
      <4> QED
        BY <1>meant, <4>1
    <3> QED
      BY <2>3, <2>4, <3>1, Zenon
  <2>6. cut = <<meant>>
    <3>1. CASE s[0] \in {"cd", "connect"}
      BY <1>0, <3>1
    <3>2. CASE s[0] \notin {"cd", "connect"}
      <4>1. {k \in DOMAIN meant : meant[k] = Space} = {}
        <5>1. \A k \in 1 .. n - 2 : k + 1 \in 2 .. n - 1
          BY <1>1
        <5> QED
          BY <1>2, <1>3, <1>6, <3>2, <5>1
      <4>2. Words(meant, s[0] = "mv") = <<meant>>
        BY <4>1 DEF Words
      <4> QED
        BY <1>0, <3>2, <4>2
    <3> QED
      BY <3>1, <3>2
  <2>7. Len(cut) = 1 /\ cut[1] = meant
    BY <2>6
  <2> QED
    BY <2>5, <2>7 DEF First
<1>7. CASE s[0] \notin {"cd", "connect"} /\ Spaces(s) # {}
  <2>1. cut = Words(meant, s[0] = "mv") /\ s[0] \in {"cp", "mv"}
    BY <1>0, <1>7 DEF Op
  <2>2. \E k \in DOMAIN meant : meant[k] = Space
    <3>1. PICK k \in 2 .. n - 1 : s[k] = Space
      BY <1>3, <1>7
    <3>2. k - 1 \in 1 .. n - 2 /\ k - 1 + 1 = k
      BY <1>1
    <3> QED
      BY <1>2, <3>1, <3>2
  <2>3. PICK a \in 1 .. n - 2, b \in 2 .. n - 2 + 1 :
           /\ a < b /\ meant[a] = Space /\ \A j \in 1 .. a - 1 : meant[j] # Space
           /\ cut = <<SubSeq(meant, 1, a - 1), SubSeq(meant, a + 1, b - 1)>>
           /\ IF s[0] = "mv"
              THEN /\ \A j \in a + 1 .. b - 1 : meant[j] # Space
                   /\ b = n - 2 + 1 \/ (b \in 1 .. n - 2 /\ meant[b] = Space)
              ELSE b = n - 2 + 1
    <3> DEFINE every == s[0] = "mv"
               m == Len(meant)
    <3>1. every \in BOOLEAN /\ cut = Words(meant, every) /\ (every <=> s[0] = "mv") /\ m = n - 2
      BY <1>2, <2>1
    <3> HIDE DEF every
    <3>2. PICK a \in 1 .. m, b \in 2 .. m + 1 :
            /\ a < b /\ meant[a] = Space /\ \A j \in 1 .. a - 1 : meant[j] # Space
            /\ Words(meant, every) = <<SubSeq(meant, 1, a - 1), SubSeq(meant, a + 1, b - 1)>>
            /\ IF every THEN /\ \A j \in a + 1 .. b - 1 : meant[j] # Space
                             /\ b = m + 1 \/ (b \in 1 .. m /\ meant[b] = Space)
                        ELSE b = m + 1
      BY <1>meant, <2>2, <3>1, WordsAre, ZenonT(40)
    <3> HIDE DEF m
    <3> QED
      BY <3>1, <3>2
  <2> DEFINE p == a + 1
             q == b + 1
  <2>4. /\ p \in 2 .. n - 1 /\ q \in p + 1 .. n /\ p - 1 = a /\ q - 1 = b
        /\ s[p] = Space /\ \A k \in 2 .. p - 1 : s[k] # Space
        /\ IF s[0] = "mv" THEN /\ \A k \in p + 1 .. q - 1 : s[k] # Space
                               /\ q = n \/ (q \in 2 .. n - 1 /\ s[q] = Space)
           ELSE q = n
    <3>1. ASSUME NEW k \in 2 .. n - 1 PROVE k - 1 \in 1 .. n - 2 /\ s[k] = meant[k - 1]
      <4>1. k - 1 \in 1 .. n - 2 /\ k - 1 + 1 = k
        BY <1>1
      <4>2. meant[k - 1] = s[k - 1 + 1]
        BY <1>2, <4>1
      <4> QED
        BY <4>1, <4>2
    <3>2. a \in Nat /\ b \in Nat /\ p \in 2 .. n - 1 /\ q \in p + 1 .. n
          /\ (b = n - 2 + 1 <=> q = n) /\ (b \in 1 .. n - 2 => q \in 2 .. n - 1)
      BY <1>sizes, <2>3
    <3>3. /\ \A k \in 2 .. p - 1 : k - 1 \in 1 .. a - 1 /\ k \in 2 .. n - 1
          /\ \A k \in p + 1 .. q - 1 : k - 1 \in a + 1 .. b - 1 /\ k \in 2 .. n - 1
      <4>1. a \in Nat /\ b \in Nat /\ p = a + 1 /\ q = b + 1 /\ p <= n - 1 /\ q <= n
        BY <1>sizes, <3>2
      <4> HIDE DEF p, q
      <4>2. \A k \in 2 .. p - 1 : k - 1 \in 1 .. a - 1 /\ k \in 2 .. n - 1
        BY <1>sizes, <4>1
      <4>3. \A k \in p + 1 .. q - 1 : k - 1 \in a + 1 .. b - 1 /\ k \in 2 .. n - 1
        BY <1>sizes, <4>1
      <4> QED
        BY <4>2, <4>3
    <3>4. s[p] = Space /\ \A k \in 2 .. p - 1 : s[k] # Space
      BY <1>2, <2>3, <3>1, <3>3
    <3>5. s[0] = "mv" => \A k \in p + 1 .. q - 1 : s[k] # Space
      BY <2>3, <3>1, <3>3
    <3>6. p - 1 = a /\ q - 1 = b
      BY <3>2
    <3>7. b \in 1 .. n - 2 /\ meant[b] = Space => s[q] = Space
      BY <1>2
    <3> QED
      BY <2>3, <3>2, <3>4, <3>5, <3>6, <3>7
  <2> HIDE DEF p, q
  <2>5. /\ Cuts(s) \subseteq 2 .. n - 1 /\ p \in Cuts(s)
        /\ \A k \in 2 .. p - 1 : k \notin Cuts(s)
        /\ \A k \in p + 1 .. q - 1 : k \notin Cuts(s)
        /\ q # n => q \in Cuts(s)
    <3>1. p \in Spaces(s) /\ \A k \in 2 .. p - 1 : k \notin Spaces(s)
      BY <1>3, <2>4
    <3>2. CASE s[0] = "mv"
      <4>1. Cuts(s) = Spaces(s)
        BY <3>2 DEF Cuts
      <4> QED
        BY <1>3, <2>4, <3>1, <3>2, <4>1
    <3>3. CASE s[0] = "cp"
      <4>1. Cuts(s) = {k \in Spaces(s) : \A j \in Spaces(s) : k <= j}
        BY <3>3 DEF Cuts
      <4>2. \A j \in Spaces(s) : p <= j
        BY <1>1, <1>3, <2>4, <3>1
      <4>3. ASSUME NEW k \in Cuts(s) PROVE k = p
        <5>1. k \in Spaces(s) /\ k <= p
          BY <3>1, <4>1
        <5>2. p <= k
          BY <4>2, <5>1
        <5>3. k \in Nat /\ p \in Nat
          BY <1>3, <2>4, <5>1
        <5> QED
          BY <5>1, <5>2, <5>3
      <4>4. q = n /\ p \in Cuts(s) /\ p \in Nat
        BY <2>4, <3>1, <3>3, <4>1, <4>2
      <4>5. \A k \in 2 .. p - 1 : k # p
        BY <4>4
      <4>6. \A k \in p + 1 .. q - 1 : k # p
        BY <4>4
      <4>7. Cuts(s) \subseteq 2 .. n - 1
        BY <1>3, <4>1
      <4> QED
        BY <4>3, <4>4, <4>5, <4>6, <4>7, Zenon
    <3> QED
      BY <2>1, <3>2, <3>3
  <2>6. /\ t[p] = NUL /\ t[q] = NUL
        /\ \A k \in 0 .. p - 1 : t[k] = s[k] /\ t[k] # NUL
        /\ \A k \in p + 1 .. q - 1 : t[k] = s[k] /\ t[k] # NUL
    <3>1. p \in Index /\ q \in Index /\ (\A k \in 0 .. p - 1 : k \in Index /\ k \in 0 .. n - 1)
          /\ (\A k \in p + 1 .. q - 1 : k \in Index /\ k \in 0 .. n - 1)
      <4>1. /\ n \in Nat /\ MAX_PATH \in Nat /\ n <= MAX_PATH - 1 /\ p \in Nat /\ q \in Nat
            /\ p <= n - 1 /\ q <= n
        BY <1>1, <2>4
      <4>2. p \in Index /\ q \in Index
        BY <1>5, <4>1
      <4>3. \A k \in 0 .. p - 1 : k \in Index /\ k \in 0 .. n - 1
        BY <1>5, <4>1
      <4>4. \A k \in p + 1 .. q - 1 : k \in Index /\ k \in 0 .. n - 1
        BY <1>5, <4>1
      <4> QED
        BY <4>2, <4>3, <4>4
    <3>2. \A k \in 0 .. p - 1 : k \notin Cuts(s)
      BY <1>1, <2>4, <2>5
    <3>3. t[p] = NUL
      BY <1>4, <2>5, <3>1
    <3>4. t[q] = NUL
      BY <1>1, <1>4, <2>5, <3>1
    <3>5. \A k \in 0 .. p - 1 : t[k] = s[k]
      BY <1>4, <3>1, <3>2
    <3>6. \A k \in p + 1 .. q - 1 : t[k] = s[k]
      BY <1>4, <2>5, <3>1
    <3> QED
      BY <1>1, <3>1, <3>3, <3>4, <3>5, <3>6
  <2>7. StringAt(t, 2) = [j \in 1 .. p - 2 |-> t[2 + j - 1]]
    <3>1. p \in 2 .. MAX_PATH - 1 /\ 2 \in Nat /\ \A j \in 2 .. p - 1 : t[j] # NUL
      BY <1>sizes, <2>4, <2>6
    <3>2. EndsAt(t, 2, p)
      BY <2>6, <3>1 DEF EndsAt
    <3> QED
      BY <3>2, StringIs
  <2>8. StringAt(t, 2) = SubSeq(meant, 1, a - 1)
    <3>1. a - 1 = p - 2 /\ a - 1 \in 0 .. n - 2
      BY <1>1, <2>3, <2>4
    <3>2. SubSeq(meant, 1, a - 1) = [j \in 1 .. p - 2 |-> meant[j]]
      <4>1. a - 1 <= Len(meant)
        BY <1>sizes, <1>meant, <3>1
      <4>2. SubSeq(meant, 1, a - 1) = [j \in 1 .. a - 1 |-> meant[j]]
        BY <1>meant, <3>1, <4>1
      <4> QED
        BY <3>1, <4>2
    <3>3. \A j \in 1 .. p - 2 : 2 + j - 1 = j + 1 /\ j + 1 \in 0 .. p - 1 /\ j \in 1 .. n - 2
      BY <1>1, <2>4
    <3>4. \A j \in 1 .. p - 2 : t[2 + j - 1] = meant[j]
      BY <1>2, <2>6, <3>3
    <3> QED
      BY <2>7, <3>2, <3>4
  <2>9. Second(t) = [j \in 1 .. q - (p + 1) |-> t[p + 1 + j - 1]]
    <3>1. StrLen(t) = p
      <4>1. 0 \in Nat /\ p \in 0 .. MAX_PATH - 1
        BY <1>sizes, <2>4
      <4>2. EndsAt(t, 0, p)
        BY <2>6, <4>1 DEF EndsAt
      <4> QED
        BY <4>2, EndIs DEF StrLen
    <3>2. p + 1 \in Nat /\ q \in p + 1 .. MAX_PATH - 1
      BY <1>1, <2>4
    <3>3. StringAt(t, p + 1) = [j \in 1 .. q - (p + 1) |-> t[p + 1 + j - 1]]
      <4> DEFINE k == p + 1
      <4>1. EndsAt(t, k, q)
        BY <2>6, <3>2 DEF EndsAt
      <4> HIDE DEF k
      <4>2. StringAt(t, k) = [j \in 1 .. q - k |-> t[k + j - 1]]
        BY <4>1, StringIs
      <4> QED
        BY <4>2 DEF k
    <3> QED
      BY <3>1, <3>3 DEF Second
  <2>10. Second(t) = SubSeq(meant, a + 1, b - 1)
    <3>1. /\ a + 1 = p /\ b - 1 = q - 2 /\ q - (p + 1) = q - 2 - p + 1
          /\ p \in 1 .. n - 2 + 1 /\ q - 2 \in p - 1 .. n - 2
      BY <1>1, <2>3, <2>4
    <3>2. SubSeq(meant, p, q - 2) = [j \in 1 .. q - (p + 1) |-> meant[p + j - 1]]
      BY <1>sizes, <1>meant, <2>4, <3>1, SMTT(30)
    <3>3. \A j \in 1 .. q - (p + 1) : /\ p + 1 + j - 1 = p + j /\ p + j \in p + 1 .. q - 1
                                      /\ p + j - 1 \in 1 .. n - 2 /\ p + j - 1 + 1 = p + j
      BY <1>1, <2>4
    <3>4. ASSUME NEW j \in 1 .. q - (p + 1) PROVE t[p + 1 + j - 1] = meant[p + j - 1]
      <4>1. t[p + j] = s[p + j]
        BY <2>6, <3>3
      <4>2. meant[p + j - 1] = s[p + j]
        BY <1>2, <3>3
      <4> QED
        BY <3>3, <4>1, <4>2
    <3> QED
      BY <2>9, <3>1, <3>2, <3>4
  <2>11. cut[1] = SubSeq(meant, 1, a - 1) /\ cut[2] = SubSeq(meant, a + 1, b - 1)
    <3>1. cut = <<SubSeq(meant, 1, a - 1), SubSeq(meant, a + 1, b - 1)>>
      BY <2>3
    <3> QED
      BY <3>1, Pair
  <2> QED
    BY <2>8, <2>10, <2>11 DEF First
<1> QED
  BY <1>6, <1>7
-------------------------------------------------------------------------------
(* The numbers of connect.                                                  *)

\* The values of digits.
LEMMA Digits ==
  /\ Digit["0"] = 0 /\ Digit["1"] = 1 /\ Digit["2"] = 2
  /\ \A c \in DOMAIN Digit : Digit[c] \in 0 .. 2
BY DEF Digit

\* The values of two of them.
LEMMA Decimal ==
  ASSUME NEW a \in 0 .. 2, NEW b \in 0 .. 2
  PROVE  10 * a + b \in 0 .. 22
<1>1. a = 0 \/ a = 1 \/ a = 2
  OBVIOUS
<1>2. CASE a = 0
  BY <1>2
<1>3. CASE a = 1
  BY <1>3
<1>4. CASE a = 2
  BY <1>4
<1> QED
  BY <1>1, <1>2, <1>3, <1>4, Zenon

\* Numbers are written with one or two digits.
LEMMA NumeralIs ==
  ASSUME NEW numeral \in Numerals
  PROVE  /\ numeral \in Seq(Char) /\ Len(numeral) \in 1 .. 2 /\ DOMAIN numeral = 1 .. Len(numeral)
         /\ \A j \in 1 .. Len(numeral) : numeral[j] \in DOMAIN Digit
<1>1. PICK n \in 1 .. 2 : numeral \in [1 .. n -> DOMAIN Digit]
  BY DEF Numerals
<1>2. numeral \in [1 .. n -> Char]
  BY <1>1, Characters
<1>3. numeral \in Seq(Char) /\ Len(numeral) = n
  BY <1>2
<1> QED
  BY <1>1, <1>3

\* A number ends where a character is no digit.
LEMMA NumberEndIs ==
  ASSUME NEW s, NEW k \in Nat, NEW e \in k .. MAX_PATH - 1, s[e] \notin DOMAIN Digit,
         \A j \in k .. e - 1 : s[j] \in DOMAIN Digit
  PROVE  NumberEnd(s, k) = e
<1>0. MAX_PATH \in Nat
  BY LineAssumption
<1> DEFINE P(x) == /\ x = MAX_PATH \/ s[x] \notin DOMAIN Digit
                   /\ \A j \in k .. x - 1 : s[j] \in DOMAIN Digit
           x0 == CHOOSE x \in k .. MAX_PATH : P(x)
<1>1. e \in k .. MAX_PATH /\ P(e)
  BY <1>0
<1>2. x0 \in k .. MAX_PATH /\ P(x0)
  <2> HIDE DEF P
  <2> QED
    BY <1>1
<1>3. NumberEnd(s, k) = x0
  BY DEF NumberEnd
<1> HIDE DEF x0
<1>4. ~(x0 < e)
  <2> SUFFICES ASSUME x0 < e PROVE FALSE
    OBVIOUS
  <2>1. x0 \in k .. e - 1 /\ x0 # MAX_PATH
    BY <1>0, <1>2
  <2> QED
    BY <1>2, <2>1
<1>5. ~(e < x0)
  <2> SUFFICES ASSUME e < x0 PROVE FALSE
    OBVIOUS
  <2>1. e \in k .. x0 - 1
    BY <1>0, <1>2
  <2> QED
    BY <1>2, <2>1
<1> QED
  BY <1>0, <1>2, <1>3, <1>4, <1>5

\* The value of a number of two digits at most.
LEMMA NumberIs ==
  ASSUME NEW s, NEW k \in Nat, NEW numeral \in Numerals, k + Len(numeral) < MAX_PATH,
         \A j \in 1 .. Len(numeral) : s[k + j - 1] = numeral[j],
         s[k + Len(numeral)] \notin DOMAIN Digit
  PROVE  /\ NumberEnd(s, k) = k + Len(numeral)
         /\ Number(s, k) = ValueOf(numeral) /\ ValueOf(numeral) \in 0 .. 22
<1> DEFINE n == Len(numeral)
<1>1. n \in 1 .. 2 /\ MAX_PATH \in Nat /\ k + n < MAX_PATH
      /\ \A j \in 1 .. n : numeral[j] \in DOMAIN Digit /\ s[k + j - 1] = numeral[j]
      /\ s[k + n] \notin DOMAIN Digit
  BY NumeralIs, LineAssumption
<1> HIDE DEF n
<1>2. NumberEnd(s, k) = k + n
  <2>1. k + n \in k .. MAX_PATH - 1
    BY <1>1
  <2>2. ASSUME NEW j \in k .. k + n - 1 PROVE s[j] \in DOMAIN Digit
    <3>1. j - k + 1 \in 1 .. n /\ k + (j - k + 1) - 1 = j
      BY <1>1
    <3> QED
      BY <1>1, <3>1
  <2> QED
    BY <1>1, <2>1, <2>2, NumberEndIs
<1> DEFINE S(v) == [i \in 0 .. n |-> IF i = 0 THEN 0 ELSE 10 * v[i - 1] + Digit[s[k + i - 1]]]
           value == CHOOSE v : v = S(v)
           a == Digit[s[k]]
           b == Digit[s[k + 1]]
           w == [i \in 0 .. n |-> IF i = 0 THEN 0 ELSE IF i = 1 THEN a ELSE 10 * a + b]
<1>3. a \in 0 .. 2 /\ (n = 2 => b \in 0 .. 2)
      /\ numeral[1] = s[k] /\ (n = 2 => numeral[2] = s[k + 1])
  <2>1. 1 \in 1 .. n /\ k + 1 - 1 = k /\ (n = 2 => 2 \in 1 .. n) /\ k + 2 - 1 = k + 1
    BY <1>1
  <2>2. s[k] = numeral[1] /\ s[k] \in DOMAIN Digit
    BY <1>1, <2>1
  <2>3. n = 2 => s[k + 1] = numeral[2] /\ s[k + 1] \in DOMAIN Digit
    BY <1>1, <2>1
  <2> QED
    BY <2>2, <2>3, Digits
<1>4. Number(s, k) = value[n]
  <2> DEFINE m == NumberEnd(s, k) - k
             u == CHOOSE v : v = [i \in 0 .. m |->
                                    IF i = 0 THEN 0 ELSE 10 * v[i - 1] + Digit[s[k + i - 1]]]
  <2>1. Number(s, k) = u[m]
    BY Zenon DEF Number
  <2>2. m = n
    BY <1>1, <1>2
  <2> HIDE DEF m
  <2>3. u = value
    BY <2>2, Zenon
  <2> QED
    BY <2>1, <2>2, <2>3, Zenon
<1>5. \E v : v = S(v)
  <2>1. \A i \in 0 .. n : w[i] = IF i = 0 THEN 0 ELSE 10 * w[i - 1] + Digit[s[k + i - 1]]
    <3>1. CASE n = 1
      <4>1. w[0] = 0 /\ w[1] = a /\ 0 .. n = {0, 1} /\ k + 1 - 1 = k
        BY <3>1
      <4>2. w[1] = 10 * w[1 - 1] + Digit[s[k + 1 - 1]]
        BY <1>3, <4>1
      <4> HIDE DEF w
      <4> QED
        BY <4>1, <4>2
    <3>2. CASE n = 2
      <4>1. w[0] = 0 /\ w[1] = a /\ w[2] = 10 * a + b /\ 0 .. n = {0, 1, 2} /\ k + 1 - 1 = k /\ k + 2 - 1 = k + 1
        BY <3>2
      <4>2. w[1] = 10 * w[1 - 1] + Digit[s[k + 1 - 1]]
        BY <1>3, <4>1
      <4>3. w[2] = 10 * w[2 - 1] + Digit[s[k + 2 - 1]]
        BY <1>3, <4>1
      <4> HIDE DEF w
      <4> QED
        BY <4>1, <4>2, <4>3
    <3>3. n = 1 \/ n = 2
      BY <1>1
    <3> HIDE DEF w
    <3> QED
      BY <3>1, <3>2, <3>3, Zenon
  <2>2. w = [i \in 0 .. n |-> w[i]]
    OBVIOUS
  <2> HIDE DEF w
  <2>3. w = S(w)
    BY <2>1, <2>2
  <2> QED
    BY <2>3
<1>6. value = S(value)
  <2> HIDE DEF S
  <2> QED
    BY <1>5
<1> HIDE DEF value
<1>7. \A i \in 0 .. n : value[i] = IF i = 0 THEN 0 ELSE 10 * value[i - 1] + Digit[s[k + i - 1]]
  BY <1>6, Zenon
<1>8. value[1] = a
  <2>1. 0 \in 0 .. n /\ 1 \in 0 .. n /\ 1 - 1 = 0 /\ k + 1 - 1 = k
    BY <1>1
  <2>2. value[0] = 0 /\ value[1] = 10 * value[1 - 1] + Digit[s[k + 1 - 1]]
    BY <1>7, <2>1
  <2> QED
    BY <1>3, <2>1, <2>2
<1>9. n = 2 => value[2] = 10 * a + b
  <2> SUFFICES ASSUME n = 2 PROVE value[2] = 10 * a + b
    OBVIOUS
  <2>1. 2 \in 0 .. n /\ 2 - 1 = 1 /\ k + 2 - 1 = k + 1
    BY <1>1
  <2>2. value[2] = 10 * value[2 - 1] + Digit[s[k + 2 - 1]]
    BY <1>7, <2>1
  <2> QED
    BY <1>8, <2>1, <2>2
<1>10. ValueOf(numeral) = IF n = 1 THEN a ELSE 10 * a + b
  <2>1. Digit[numeral[1]] = a /\ (n = 2 => Digit[numeral[2]] = b)
    BY <1>3
  <2> HIDE DEF a, b
  <2> QED
    BY <1>1, <2>1 DEF ValueOf, n
<1> HIDE DEF a, b
<1>11. Number(s, k) = ValueOf(numeral) /\ ValueOf(numeral) \in 0 .. 22
  <2>1. CASE n = 1
    BY <1>3, <1>4, <1>8, <1>10, <2>1
  <2>2. CASE n = 2
    <3>1. a \in 0 .. 2 /\ b \in 0 .. 2
      BY <1>3, <2>2
    <3>2. 10 * a + b \in 0 .. 22
      BY <3>1, Decimal
    <3>3. ValueOf(numeral) = 10 * a + b /\ value[n] = 10 * a + b
      BY <1>9, <1>10, <2>2
    <3> QED
      BY <1>4, <3>2, <3>3, Zenon
  <2> QED
    BY <1>1, <2>1, <2>2
<1> QED
  BY <1>2, <1>11 DEF n
-------------------------------------------------------------------------------
(* Where connect finds its numbers.                                         *)

\* The elements of three sequences in one.
Joins(r, x, y, z) ==
  /\ r \in Seq(Char) /\ Len(r) = Len(x) + Len(y) + Len(z)
  /\ \A j \in 1 .. Len(x) : r[j] = x[j]
  /\ \A j \in 1 .. Len(y) : r[Len(x) + j] = y[j]
  /\ \A j \in 1 .. Len(z) : r[Len(x) + Len(y) + j] = z[j]

LEMMA Joined ==
  ASSUME NEW x \in Seq(Char), NEW y \in Seq(Char), NEW z \in Seq(Char)
  PROVE  Joins(x \o y \o z, x, y, z)
<1> DEFINE l == Len(x)
           m == Len(y)
           n == Len(z)
           t == x \o y
           r == t \o z
<1>1. l \in Nat /\ m \in Nat /\ n \in Nat
  OBVIOUS
<1>2. t \in Seq(Char) /\ Len(t) = l + m /\ \A j \in 1 .. l + m : t[j] = IF j <= l THEN x[j] ELSE y[j - l]
  BY ConcatProperties
<1> HIDE DEF t
<1>3. r \in Seq(Char) /\ Len(r) = l + m + n
      /\ \A j \in 1 .. l + m + n : r[j] = IF j <= l + m THEN t[j] ELSE z[j - (l + m)]
  <2>1. r \in Seq(Char) /\ Len(r) = Len(t) + Len(z)
        /\ \A j \in 1 .. Len(t) + Len(z) : r[j] = IF j <= Len(t) THEN t[j] ELSE z[j - Len(t)]
    <3> HIDE DEF n, l, m
    <3> QED
      BY <1>2, ConcatProperties
  <2> HIDE DEF r
  <2> QED
    BY <1>2, <2>1
<1> HIDE DEF r, l, m, n
<1>4. ASSUME NEW j \in 1 .. l PROVE r[j] = x[j]
  <2>1. j \in 1 .. l + m + n /\ j <= l + m /\ j \in 1 .. l + m /\ j <= l
    BY <1>1
  <2> QED
    BY <1>2, <1>3, <2>1
<1>5. ASSUME NEW j \in 1 .. m PROVE r[l + j] = y[j]
  <2>1. l + j \in 1 .. l + m + n /\ l + j <= l + m /\ l + j \in 1 .. l + m /\ ~(l + j <= l) /\ (l + j) - l = j
    BY <1>1
  <2>2. r[l + j] = t[l + j]
    BY <1>3, <2>1
  <2>3. t[l + j] = y[(l + j) - l]
    <3>1. PICK k \in 1 .. l + m : k = l + j /\ ~(k <= l)
      BY <2>1
    <3>2. t[k] = y[k - l]
      BY <1>2, <3>1
    <3> QED
      BY <3>1, <3>2, Zenon
  <2> QED
    BY <2>1, <2>2, <2>3
<1>6. ASSUME NEW j \in 1 .. n PROVE r[l + m + j] = z[j]
  <2>1. l + m + j \in 1 .. l + m + n /\ ~(l + m + j <= l + m) /\ (l + m + j) - (l + m) = j
    BY <1>1
  <2>2. r[l + m + j] = z[(l + m + j) - (l + m)]
    <3>1. PICK k \in 1 .. l + m + n : k = l + m + j /\ ~(k <= l + m)
      BY <2>1
    <3>2. r[k] = z[k - (l + m)]
      BY <1>3, <3>1
    <3> QED
      BY <3>1, <3>2, Zenon
  <2> QED
    BY <2>1, <2>2
<1> QED
  BY <1>3, <1>4, <1>5, <1>6 DEF r, t, l, m, n, Joins

\* The text of the address as ConnectLine puts it together, number by number.
TextOf(address) ==
  LET text[i \in 0 .. Octets] ==
        IF i = 0 THEN <<>> ELSE text[i - 1] \o (IF i = 1 THEN <<>> ELSE <<Dot>>) \o address[i]
  IN  text

Between(i) == IF i = 1 THEN <<>> ELSE <<Dot>>
PortText(port) == IF port = <<>> THEN <<>> ELSE <<Space>> \o port

\* The separators, and the name of the command.
LEMMA Pieces ==
  /\ <<>> \in Seq(Char) /\ Len(<<>>) = 0
  /\ <<Dot>> \in Seq(Char) /\ Len(<<Dot>>) = 1 /\ <<Dot>>[1] = Dot
  /\ <<Space>> \in Seq(Char) /\ Len(<<Space>>) = 1 /\ <<Space>>[1] = Space
  /\ <<"connect", Space>> \in Seq(Char) /\ Len(<<"connect", Space>>) = 2
BY Characters DEF Op

\* TextOf exists: the texts of its numbers one after the other.
LEMMA TextIs ==
  ASSUME NEW address \in [1 .. Octets -> Numerals], NEW T, T = TextOf(address)
  PROVE  /\ T[0] = <<>>
         /\ \A i \in 1 .. Octets : T[i] = T[i - 1] \o Between(i) \o address[i]
         /\ \A i \in 0 .. Octets : T[i] \in Seq(Char)
<1> DEFINE V == Seq(Char)
           S(v) == [i \in 0 .. Octets |-> IF i = 0 THEN <<>> ELSE v[i - 1] \o Between(i) \o address[i]]
           step == [i \in 1 .. Octets |-> [t \in V |-> t \o Between(i) \o address[i]]]
<1>1. Octets \in Nat
  BY LineAssumption
<1>2. \A i \in 1 .. Octets : Between(i) \in V /\ address[i] \in V
  BY Pieces, NumeralIs DEF Between
<1>3. \A i \in 1 .. Octets, t \in V : t \o Between(i) \o address[i] \in V
  <2>1. \A x \in V, y \in V, z \in V : x \o y \o z \in V
    BY Joined DEF Joins
  <2> HIDE DEF V
  <2> QED
    BY <1>2, <2>1
<1>4. <<>> \in V
  OBVIOUS
<1> HIDE DEF V
<1>5. \E v : v = S(v)
  <2>1. step \in [1 .. Octets -> [V -> V]]
    BY <1>3
  <2>2. PICK f \in [0 .. Octets -> V] : f[0] = <<>> /\ \A i \in 1 .. Octets : f[i] = step[i][f[i - 1]]
    <3> HIDE DEF step
    <3> QED
      BY <1>1, <1>4, <2>1, Recursion, SMTT(30)
  <2>3. \A i \in 1 .. Octets : f[i] = f[i - 1] \o Between(i) \o address[i]
    <3>1. \A i \in 1 .. Octets : i - 1 \in 0 .. Octets
      BY <1>1
    <3> QED
      BY <2>2, <3>1
  <2>4. \A i \in 0 .. Octets : i # 0 => i \in 1 .. Octets
    BY <1>1
  <2>5. f = [i \in 0 .. Octets |-> f[i]]
    BY <2>2
  <2>6. f = S(f)
    BY <2>2, <2>3, <2>4, <2>5
  <2> QED
    BY <2>6
<1>6. T = CHOOSE v : v = S(v)
  BY Zenon DEF TextOf, Between
<1>7. T = S(T)
  <2> HIDE DEF S
  <2> QED
    BY <1>5, <1>6
<1>8. T[0] = <<>>
  <2>1. 0 \in 0 .. Octets
    BY <1>1
  <2> QED
    BY <1>7, <2>1
<1>9. ASSUME NEW i \in 1 .. Octets PROVE T[i] = T[i - 1] \o Between(i) \o address[i]
  <2>1. i \in 0 .. Octets /\ i # 0
    BY <1>1
  <2> QED
    BY <1>7, <2>1
<1>10. \A i \in 0 .. Octets : T[i] \in V
  <2> DEFINE W == {i \in 0 .. Octets : T[i] \in V}
  <2>1. 0 \in W
    BY <1>1, <1>4, <1>8
  <2>2. ASSUME NEW i \in 1 .. Octets, i - 1 \in W PROVE i \in W
    <3>1. i \in 0 .. Octets
      BY <1>1
    <3> QED
      BY <1>3, <1>9, <2>2, <3>1
  <2>3. \A i \in 0 .. Octets : i \in W
    <3> HIDE DEF W
    <3> QED
      BY <1>1, <2>1, <2>2, UpTo
  <2> QED
    BY <2>3
<1> QED
  BY <1>8, <1>9, <1>10 DEF V

\* Where a number begins behind szLine[2], counted from 0.
Begin(T, i) == Len(T[i - 1]) + Len(Between(i))

\* Each number is in its text, and a dot in front of it but the first.
Numbered(address, T, i) ==
  /\ Len(T[i - 1]) \in Nat /\ Len(T[i]) \in Nat /\ Begin(T, i) \in Nat
  /\ Len(T[i]) = Begin(T, i) + Len(address[i])
  /\ Begin(T, i) = Len(T[i - 1]) + (IF i = 1 THEN 0 ELSE 1)
  /\ \A j \in 1 .. Len(T[i - 1]) : T[i][j] = T[i - 1][j]
  /\ \A j \in 1 .. Len(address[i]) : T[i][Begin(T, i) + j] = address[i][j]
  /\ i # 1 => T[i][Len(T[i - 1]) + 1] = Dot

LEMMA NumberInText ==
  ASSUME NEW address \in [1 .. Octets -> Numerals], NEW T, T = TextOf(address), NEW i \in 1 .. Octets
  PROVE  Numbered(address, T, i)
<1> DEFINE x == T[i - 1]
           y == Between(i)
           z == address[i]
<1>1. Octets \in Nat /\ i - 1 \in 0 .. Octets
  BY LineAssumption
<1>2. x \in Seq(Char) /\ y \in Seq(Char) /\ z \in Seq(Char) /\ T[i] = x \o y \o z
  BY <1>1, TextIs, Pieces, NumeralIs DEF Between
<1>3. Begin(T, i) = Len(x) + Len(y)
  BY DEF Begin
<1>4. IF i = 1 THEN Len(y) = 0 ELSE Len(y) = 1 /\ y[1] = Dot
  BY Pieces, Zenon DEF Between
<1> HIDE DEF x, y, z
<1>5. Len(x) \in Nat /\ Len(y) \in Nat /\ Len(z) \in Nat
  BY <1>2
<1>6. /\ Len(T[i]) = Len(x) + Len(y) + Len(z)
      /\ \A j \in 1 .. Len(x) : T[i][j] = x[j]
      /\ \A j \in 1 .. Len(y) : T[i][Len(x) + j] = y[j]
      /\ \A j \in 1 .. Len(z) : T[i][Len(x) + Len(y) + j] = z[j]
  <2>1. Joins(T[i], x, y, z)
    BY <1>2, Joined
  <2> QED
    BY <2>1 DEF Joins
<1>7. i # 1 => T[i][Len(x) + 1] = Dot
  <2> SUFFICES ASSUME i # 1 PROVE T[i][Len(x) + 1] = Dot
    OBVIOUS
  <2>1. 1 \in 1 .. Len(y) /\ y[1] = Dot
    BY <1>4
  <2> QED
    BY <1>6, <2>1
<1>8. \A j \in 1 .. Len(z) : T[i][Begin(T, i) + j] = z[j]
  BY <1>3, <1>6
<1>9. Begin(T, i) \in Nat /\ Len(T[i]) = Begin(T, i) + Len(z) /\ Len(T[i]) \in Nat
      /\ Begin(T, i) = Len(x) + (IF i = 1 THEN 0 ELSE 1)
  <2>1. Begin(T, i) \in Nat /\ Len(T[i]) = Begin(T, i) + Len(z) /\ Len(T[i]) \in Nat
    BY <1>3, <1>5, <1>6
  <2>2. Len(y) = IF i = 1 THEN 0 ELSE 1
    BY <1>4
  <2> QED
    BY <1>3, <2>1, <2>2, Zenon
<1> QED
  BY <1>5, <1>6, <1>7, <1>8, <1>9 DEF x, y, z, Numbered

\* The text of the first numbers begins the text of all.
LEMMA TextBegins ==
  ASSUME NEW address \in [1 .. Octets -> Numerals], NEW T, T = TextOf(address), NEW i \in 0 .. Octets
  PROVE  /\ Len(T[i]) \in Nat /\ Len(T[Octets]) \in Nat /\ Len(T[i]) <= Len(T[Octets])
         /\ \A j \in 1 .. Len(T[i]) : T[Octets][j] = T[i][j]
<1> DEFINE n == Octets
           Q(k) == Len(T[k]) <= Len(T[n]) /\ \A j \in 1 .. Len(T[k]) : T[n][j] = T[k][j]
           S == {d \in 0 .. n : Q(n - d)}
<1>1. n \in Nat
  BY LineAssumption
<1>2. \A k \in 0 .. n : Len(T[k]) \in Nat
  BY TextIs
<1>3. \A k \in 1 .. n : Len(T[k - 1]) <= Len(T[k]) /\ \A j \in 1 .. Len(T[k - 1]) : T[k][j] = T[k - 1][j]
  <2> TAKE k \in 1 .. n
  <2>1. /\ Len(T[k - 1]) \in Nat /\ Len(address[k]) \in Nat
        /\ Begin(T, k) = Len(T[k - 1]) + (IF k = 1 THEN 0 ELSE 1)
        /\ Len(T[k]) = Begin(T, k) + Len(address[k])
        /\ \A j \in 1 .. Len(T[k - 1]) : T[k][j] = T[k - 1][j]
    <3> HIDE DEF Q, S
    <3>1. address[k] \in Numerals
      OBVIOUS
    <3>2. Len(address[k]) \in Nat
      BY <3>1, NumeralIs
    <3>3. k \in 1 .. Octets
      BY DEF n
    <3> HIDE DEF n
    <3>4. Numbered(address, T, k)
      BY <3>3, NumberInText
    <3> QED
      BY <3>2, <3>4 DEF Numbered
  <2>2. CASE k = 1
    BY <2>1, <2>2
  <2>3. CASE k # 1
    BY <2>1, <2>3
  <2> QED
    BY <2>2, <2>3
<1> HIDE DEF n
<1>4. 0 \in S
  <2>1. 0 \in 0 .. n /\ n - 0 = n /\ n \in 0 .. n
    BY <1>1
  <2>2. Q(n)
    BY <1>2, <2>1
  <2> HIDE DEF Q
  <2> QED
    BY <2>1, <2>2
<1>5. ASSUME NEW d \in 1 .. n, d - 1 \in S PROVE d \in S
  <2>1. PICK k \in 1 .. n : k = n - (d - 1) /\ k - 1 = n - d /\ k - 1 \in 0 .. n /\ k \in 0 .. n
    BY <1>1
  <2>2. Q(k)
    <3> HIDE DEF Q
    <3> QED
      BY <1>5, <2>1
  <2>3. Len(T[k - 1]) \in Nat /\ Len(T[k]) \in Nat /\ Len(T[n]) \in Nat
    <3>1. n \in 0 .. n
      BY <1>1
    <3> QED
      BY <1>2, <2>1, <3>1
  <2>4. Q(k - 1)
    <3>1. Len(T[k - 1]) <= Len(T[k])
      BY <1>3
    <3>2. \A j \in 1 .. Len(T[k - 1]) : j \in 1 .. Len(T[k]) /\ T[k][j] = T[k - 1][j]
      <4>1. \A j \in 1 .. Len(T[k - 1]) : T[k][j] = T[k - 1][j]
        BY <1>3
      <4>2. \A j \in 1 .. Len(T[k - 1]) : j \in 1 .. Len(T[k])
        BY <2>3, <3>1
      <4> QED
        BY <4>1, <4>2, Zenon
    <3>3. Len(T[k - 1]) <= Len(T[n])
      BY <2>2, <2>3, <3>1, SMTT(30)
    <3> QED
      BY <2>2, <3>2, <3>3, Zenon
  <2>5. d \in 0 .. n
    BY <1>1
  <2> HIDE DEF Q
  <2> QED
    BY <2>1, <2>4, <2>5
<1>6. \A d \in 0 .. n : d \in S
  <2> HIDE DEF S
  <2> QED
    BY <1>1, <1>4, <1>5, UpTo
<1>7. Q(i)
  <2>1. n - i \in 0 .. n /\ n - (n - i) = i
    BY <1>1 DEF n
  <2> HIDE DEF Q
  <2> QED
    BY <1>6, <2>1
<1>8. n \in 0 .. n
  BY <1>1
<1> QED
  BY <1>2, <1>7, <1>8 DEF n

\* A line with connect: the text of the address behind the name, and the port.
LEMMA LineIs ==
  ASSUME NEW address \in [1 .. Octets -> Numerals], NEW port \in Numerals \cup {<<>>},
         NEW T, T = TextOf(address), NEW text, text = ConnectLine(address, port)
  PROVE  LET m == Len(T[Octets])
         IN  /\ m \in Nat
             /\ Len(text) = IF port = <<>> THEN 2 + m ELSE 2 + m + 1 + Len(port)
             /\ \A j \in 1 .. m : text[2 + j] = T[Octets][j]
             /\ port # <<>> => /\ text[2 + m + 1] = Space
                               /\ \A j \in 1 .. Len(port) : text[2 + m + 1 + j] = port[j]
<1> DEFINE m == Len(T[Octets])
           name == <<"connect", Space>>
           t == T[Octets]
           tail == PortText(port)
<1>1. text = name \o t \o tail
  BY Zenon DEF ConnectLine, TextOf, PortText
<1>2. name \in Seq(Char) /\ Len(name) = 2
  BY Pieces
<1>3. t \in Seq(Char) /\ m = Len(t) /\ m \in Nat
  <2>1. Octets \in 0 .. Octets
    BY LineAssumption
  <2>2. t \in Seq(Char)
    BY <2>1, TextIs
  <2> QED
    BY <2>2
<1>4. port \in Seq(Char) /\ Len(port) \in Nat
  <2>1. CASE port = <<>>
    BY <2>1
  <2>2. CASE port \in Numerals
    BY <2>2, NumeralIs
  <2> QED
    BY <2>1, <2>2
<1>5. /\ tail \in Seq(Char) /\ Len(tail) = IF port = <<>> THEN 0 ELSE 1 + Len(port)
      /\ port # <<>> => tail[1] = Space /\ \A j \in 1 .. Len(port) : tail[1 + j] = port[j]
  <2>1. CASE port = <<>>
    BY <2>1 DEF PortText
  <2>2. CASE port # <<>>
    <3> DEFINE sp == <<Space>>
               p == Len(port)
    <3>1. sp \in Seq(Char) /\ Len(sp) = 1 /\ sp[1] = Space
      BY Pieces
    <3>2. tail = sp \o port
      BY <2>2 DEF PortText
    <3> HIDE DEF sp, tail
    <3>3. /\ tail \in Seq(Char) /\ Len(tail) = Len(sp) + Len(port)
          /\ \A j \in 1 .. Len(sp) + Len(port) : tail[j] = IF j <= Len(sp) THEN sp[j] ELSE port[j - Len(sp)]
      BY <1>4, <3>1, <3>2, ConcatProperties
    <3>4. p \in Nat /\ \A j \in 1 .. 1 + p : tail[j] = IF j <= 1 THEN sp[j] ELSE port[j - 1]
      BY <1>4, <3>1, <3>3
    <3> HIDE DEF p
    <3>5. 1 \in 1 .. 1 + p /\ \A j \in 1 .. p : 1 + j \in 1 .. 1 + p /\ ~(1 + j <= 1) /\ (1 + j) - 1 = j
      BY <3>4
    <3>6. tail[1] = Space
      BY <3>1, <3>4, <3>5
    <3>7. \A j \in 1 .. p : tail[1 + j] = port[j]
      BY <3>4, <3>5
    <3> QED
      BY <2>2, <3>1, <3>3, <3>6, <3>7 DEF p
  <2> QED
    BY <2>1, <2>2
<1> HIDE DEF name, t, tail, m
<1>6. /\ Len(text) = 2 + m + Len(tail)
      /\ \A j \in 1 .. m : text[2 + j] = t[j]
      /\ \A j \in 1 .. Len(tail) : text[2 + m + j] = tail[j]
  <2>1. /\ Len(text) = Len(name) + Len(t) + Len(tail)
        /\ \A j \in 1 .. Len(t) : text[Len(name) + j] = t[j]
        /\ \A j \in 1 .. Len(tail) : text[Len(name) + Len(t) + j] = tail[j]
    <3> DEFINE r == name \o t \o tail
    <3>1. Joins(r, name, t, tail)
      BY <1>2, <1>3, <1>5, Joined
    <3> QED
      BY <1>1, <3>1 DEF Joins
  <2> QED
    BY <1>2, <1>3, <2>1
<1>7. Len(text) = IF port = <<>> THEN 2 + m ELSE 2 + m + 1 + Len(port)
  <2>1. CASE port = <<>>
    BY <1>3, <1>5, <1>6, <2>1
  <2>2. CASE port # <<>>
    <3>1. Len(tail) = 1 + Len(port) /\ Len(text) = 2 + m + Len(tail)
      BY <1>5, <1>6, <2>2
    <3>2. Len(text) = 2 + m + 1 + Len(port)
      BY <1>3, <1>4, <3>1
    <3> QED
      BY <2>2, <3>2, Zenon
  <2> QED
    BY <2>1, <2>2
<1>8. port # <<>> => /\ text[2 + m + 1] = Space
                     /\ \A j \in 1 .. Len(port) : text[2 + m + 1 + j] = port[j]
  <2> SUFFICES ASSUME port # <<>>
               PROVE  /\ text[2 + m + 1] = Space
                      /\ \A j \in 1 .. Len(port) : text[2 + m + 1 + j] = port[j]
    OBVIOUS
  <2> DEFINE p == Len(port)
  <2>1. p \in Nat /\ Len(tail) = 1 + p
    BY <1>4, <1>5
  <2> HIDE DEF p
  <2>2. 1 \in 1 .. 1 + p /\ \A j \in 1 .. p : 1 + j \in 1 .. 1 + p /\ 2 + m + (1 + j) = 2 + m + 1 + j
    BY <1>3, <2>1
  <2>3. text[2 + m + 1] = tail[1] /\ tail[1] = Space
    BY <1>5, <1>6, <2>1, <2>2
  <2>4. \A j \in 1 .. p : text[2 + m + (1 + j)] = tail[1 + j]
    BY <1>6, <2>1, <2>2
  <2>5. \A j \in 1 .. p : tail[1 + j] = port[j]
    BY <1>5 DEF p
  <2>6. \A j \in 1 .. p : text[2 + m + 1 + j] = port[j]
    BY <2>2, <2>4, <2>5
  <2> QED
    BY <2>3, <2>6 DEF p
<1> QED
  BY <1>3, <1>6, <1>7, <1>8 DEF m, t

\* NumberAt, as a recursive function, has one value.
LEMMA NumbersBegin ==
  ASSUME NEW s, NEW at, at = NumberAt(s), NEW f, f[0] = 2,
         \A i \in 1 .. Octets :
           NumberEnd(s, f[i - 1]) < MAX_PATH /\ f[i] = NumberEnd(s, f[i - 1]) + 1
  PROVE  \A i \in 0 .. Octets : at[i] = f[i]
<1> DEFINE F(x) == LET e == NumberEnd(s, x) IN IF e < MAX_PATH THEN e + 1 ELSE MAX_PATH
           S(v) == [i \in 0 .. Octets |-> IF i = 0 THEN 2 ELSE F(v[i - 1])]
<1>1. Octets \in Nat
  BY LineAssumption
<1>2. \A i \in 1 .. Octets : f[i] = F(f[i - 1])
  OBVIOUS
<1>3. at = CHOOSE v : v = [i \in 0 .. Octets |-> IF i = 0 THEN First ELSE F(v[i - 1])]
  BY Zenon DEF NumberAt
<1>4. at = CHOOSE v : v = S(v)
  BY <1>3, Zenon DEF First
<1> HIDE DEF F
<1>5. \A i \in 0 .. Octets : f[i] = IF i = 0 THEN 2 ELSE F(f[i - 1])
  <2>1. \A i \in 0 .. Octets : i # 0 => i \in 1 .. Octets
    BY <1>1
  <2> QED
    BY <1>2, <2>1
<1>6. \E v : v = S(v)
  <2> DEFINE g == [i \in 0 .. Octets |-> f[i]]
  <2>1. \A i \in 0 .. Octets : i # 0 => i - 1 \in 0 .. Octets
    BY <1>1
  <2>2. \A i \in 0 .. Octets : g[i] = IF i = 0 THEN 2 ELSE F(g[i - 1])
    BY <1>5, <2>1
  <2>3. g = [i \in 0 .. Octets |-> g[i]]
    OBVIOUS
  <2> HIDE DEF g
  <2>4. g = S(g)
    BY <2>2, <2>3
  <2> QED
    BY <2>4
<1>7. at = S(at)
  <2> HIDE DEF S
  <2> QED
    BY <1>4, <1>6
<1> DEFINE W == {i \in 0 .. Octets : at[i] = f[i]}
<1>8. 0 \in W
  <2>1. 0 \in 0 .. Octets
    BY <1>1
  <2> QED
    BY <1>7, <2>1
<1>9. ASSUME NEW i \in 1 .. Octets, i - 1 \in W PROVE i \in W
  <2>1. i \in 0 .. Octets /\ i # 0
    BY <1>1
  <2>2. at[i] = F(at[i - 1])
    BY <1>7, <2>1
  <2> QED
    BY <1>2, <1>9, <2>1, <2>2
<1>10. \A i \in 0 .. Octets : i \in W
  <2> HIDE DEF W
  <2> QED
    BY <1>1, <1>8, <1>9, UpTo
<1> QED
  BY <1>10

\* connect reads the numbers of the line that is in the buffer.
LEMMA ConnectReads ==
  ASSUME NEW s, NEW address \in [1 .. Octets -> Numerals], NEW port \in Numerals \cup {<<>>},
         InBuffer(s, ConnectLine(address, port)),
         NEW at, at = NumberAt(s)
  PROVE  /\ \A i \in 1 .. Octets : Number(s, at[i - 1]) = ValueOf(address[i]) /\ ValueOf(address[i]) \in 0 .. 22
         /\ port # <<>> => /\ NumberEnd(s, at[Octets]) > at[Octets]
                           /\ Number(s, at[Octets]) = ValueOf(port)
<1> DEFINE text == ConnectLine(address, port)
           T == TextOf(address)
           n == Octets
           m == Len(T[n])
<1>1. n \in Nat /\ n \in 0 .. n /\ MAX_PATH \in Nat
  BY LineAssumption
<1>2. /\ m \in Nat
      /\ Len(text) = IF port = <<>> THEN 2 + m ELSE 2 + m + 1 + Len(port)
      /\ \A j \in 1 .. m : text[2 + j] = T[n][j]
      /\ port # <<>> => /\ text[2 + m + 1] = Space
                        /\ \A j \in 1 .. Len(port) : text[2 + m + 1 + j] = port[j]
  BY LineIs, SMTT(30)
<1>3. /\ Len(text) \in Nat /\ Len(text) < MAX_PATH /\ s[Len(text)] = NUL
      /\ \A k \in 0 .. Len(text) - 1 : s[k] = text[k + 1]
  BY LineInBuffer
<1>4. \A i \in 1 .. n : Numbered(address, T, i)
  BY NumberInText
<1>5. \A i \in 0 .. n : /\ Len(T[i]) \in Nat /\ Len(T[i]) <= m
                        /\ \A j \in 1 .. Len(T[i]) : T[n][j] = T[i][j]
  BY TextBegins
<1>6. \A i \in 1 .. n : address[i] \in Numerals /\ Len(address[i]) \in 1 .. 2
  BY NumeralIs
<1>7. T[0] = <<>>
  BY TextIs
<1> HIDE DEF T, text, n, m
<1>8. 2 + m <= Len(text) /\ \A j \in 1 .. m : s[1 + j] = T[n][j]
  <2>1. 2 + m <= Len(text)
    <3>1. CASE port = <<>>
      BY <1>2, <3>1
    <3>2. CASE port # <<>>
      <4>1. port \in Numerals
        BY <3>2
      <4>2. Len(port) \in Nat
        BY <4>1, NumeralIs
      <4>3. Len(text) = 2 + m + 1 + Len(port)
        BY <1>2, <3>2
      <4> QED
        BY <1>2, <4>2, <4>3
    <3> QED
      BY <3>1, <3>2
  <2>2. ASSUME NEW j \in 1 .. m PROVE s[1 + j] = T[n][j]
    <3>1. 1 + j \in 0 .. Len(text) - 1 /\ 1 + j + 1 = 2 + j
      BY <1>2, <1>3, <2>1
    <3>2. s[1 + j] = text[1 + j + 1]
      BY <1>3, <3>1
    <3> QED
      BY <1>2, <3>1, <3>2
  <2> QED
    BY <2>1, <2>2
\* Behind the numbers so far there is no digit.
<1>9. ASSUME NEW i \in 1 .. n PROVE s[2 + Len(T[i])] \notin DOMAIN Digit
  <2>1. Len(T[i]) \in Nat /\ Len(T[i]) <= m
    <3>1. i \in 0 .. n
      BY <1>1
    <3> QED
      BY <1>5, <3>1
  <2>2. CASE i = n
    <3>1. Len(T[i]) = m
      BY <2>2 DEF m
    <3>2. CASE port = <<>>
      BY <1>2, <1>3, <3>1, <3>2, Characters
    <3>3. CASE port # <<>>
      <4>1. port \in Numerals
        BY <3>3
      <4>2. Len(port) \in Nat
        BY <4>1, NumeralIs
      <4>3. 2 + m \in 0 .. Len(text) - 1
        BY <1>2, <3>3, <4>2
      <4>4. s[2 + m] = Space
        BY <1>2, <1>3, <3>3, <4>3
      <4> QED
        BY <3>1, <4>4, Characters
    <3> QED
      BY <3>2, <3>3
  <2>3. CASE i # n
    <3>1. PICK k \in 1 .. n : k = i + 1 /\ k - 1 = i /\ k # 1 /\ k \in 0 .. n
      BY <1>1, <2>3
    <3>2. /\ T[k][Len(T[i]) + 1] = Dot /\ Len(T[k]) = Begin(T, k) + Len(address[k])
          /\ Begin(T, k) = Len(T[i]) + 1
      <4>1. Numbered(address, T, k)
        BY <1>4
      <4> QED
        BY <3>1, <4>1 DEF Numbered
    <3>3. Len(address[k]) \in Nat /\ Len(T[k]) \in Nat /\ Len(T[k]) <= m
      BY <1>5, <1>6, <3>1
    <3>4. PICK j \in 1 .. Len(T[k]) : j = Len(T[i]) + 1 /\ j \in 1 .. m /\ 1 + j = 2 + Len(T[i])
      <4>1. Len(T[k]) = Len(T[i]) + 1 + Len(address[k])
        BY <3>2
      <4>2. Len(T[i]) + 1 \in 1 .. Len(T[k])
        <5>1. \A x, y \in Nat : x + 1 \in 1 .. x + 1 + y
          OBVIOUS
        <5> QED
          BY <2>1, <3>3, <4>1, <5>1, Zenon
      <4>3. Len(T[i]) + 1 \in 1 .. m /\ 1 + (Len(T[i]) + 1) = 2 + Len(T[i])
        BY <1>2, <2>1, <3>3, <4>2
      <4> QED
        BY <4>2, <4>3, Zenon
    <3>5. s[1 + j] = T[n][j] /\ T[n][j] = T[k][j]
      BY <1>5, <1>8, <3>1, <3>4
    <3>6. s[1 + j] = Dot
      BY <3>2, <3>4, <3>5
    <3> QED
      BY <3>4, <3>6, Characters
  <2> QED
    BY <2>2, <2>3
\* The numbers of the address, each where it begins.
<1>10. ASSUME NEW i \in 1 .. n
       PROVE  /\ 2 + Begin(T, i) \in Nat
              /\ NumberEnd(s, 2 + Begin(T, i)) = 2 + Len(T[i]) /\ 2 + Len(T[i]) < MAX_PATH
              /\ Number(s, 2 + Begin(T, i)) = ValueOf(address[i]) /\ ValueOf(address[i]) \in 0 .. 22
  <2> DEFINE b == Begin(T, i)
             k == 2 + b
             d == address[i]
  <2>1. /\ b \in Nat /\ Len(T[i]) \in Nat /\ Len(T[i]) = b + Len(d)
        /\ \A j \in 1 .. Len(d) : T[i][b + j] = d[j]
    <3>1. Numbered(address, T, i)
      BY <1>4
    <3> QED
      BY <3>1 DEF Numbered
  <2>2. i \in 0 .. n /\ d \in Numerals /\ Len(d) \in Nat
    BY <1>1, <1>6
  <2>3. Len(T[i]) <= m /\ \A j \in 1 .. Len(T[i]) : T[n][j] = T[i][j]
    BY <1>5, <2>2
  <2> HIDE DEF b, d
  <2>4. k \in Nat /\ k + Len(d) = 2 + Len(T[i]) /\ k + Len(d) < MAX_PATH
    BY <1>1, <1>2, <1>3, <1>8, <2>1, <2>2, <2>3
  <2>5. ASSUME NEW j \in 1 .. Len(d) PROVE s[k + j - 1] = d[j]
    <3>1. PICK h \in 1 .. Len(T[i]) : h = b + j /\ h \in 1 .. m /\ k + j - 1 = 1 + h
      <4>1. b + j \in 1 .. Len(T[i])
        BY <2>1, <2>2
      <4>2. b + j \in 1 .. m
        BY <1>2, <2>1, <2>3, <4>1
      <4>3. k + j - 1 = 1 + (b + j)
        BY <2>1, <2>2
      <4> QED
        BY <4>1, <4>2, <4>3, Zenon
    <3>2. s[1 + h] = T[n][h] /\ T[n][h] = T[i][h]
      BY <1>8, <2>3, <3>1
    <3> QED
      BY <2>1, <3>1, <3>2
  <2>6. s[k + Len(d)] \notin DOMAIN Digit
    BY <1>9, <2>4
  <2> HIDE DEF k
  <2>7. NumberEnd(s, k) = k + Len(d) /\ Number(s, k) = ValueOf(d) /\ ValueOf(d) \in 0 .. 22
    <3>1. k \in Nat /\ k + Len(d) < MAX_PATH /\ d \in Numerals
      BY <2>2, <2>4
    <3> QED
      BY <2>5, <2>6, <3>1, NumberIs, ZenonT(40)
  <2> QED
    BY <2>4, <2>7 DEF k, b, d
<1> DEFINE f == [i \in 0 .. Octets |-> IF i = 0 THEN 2 ELSE 2 + Len(T[i]) + 1]
<1>11. /\ f[0] = 2 /\ f[n] = 2 + m + 1
       /\ \A i \in 1 .. Octets : f[i - 1] = 2 + Begin(T, i) /\ f[i] = 2 + Len(T[i]) + 1
  <2>1. n = Octets /\ n # 0 /\ 0 \in 0 .. Octets
    BY LineAssumption DEF n
  <2>2. f[n] = 2 + m + 1
    BY <1>1, <2>1 DEF m
  <2>3. ASSUME NEW i \in 1 .. Octets PROVE f[i - 1] = 2 + Begin(T, i) /\ f[i] = 2 + Len(T[i]) + 1
    <3>1. i \in 1 .. n /\ i \in 0 .. Octets /\ i - 1 \in 0 .. Octets /\ i # 0 /\ (i = 1 <=> i - 1 = 0)
      BY <1>1, <2>1
    <3>2. Len(T[i - 1]) \in Nat /\ Begin(T, i) = Len(T[i - 1]) + (IF i = 1 THEN 0 ELSE 1)
      <4>1. Numbered(address, T, i)
        BY <1>4, <3>1
      <4> QED
        BY <4>1 DEF Numbered
    <3>3. f[i] = 2 + Len(T[i]) + 1
      BY <3>1
    <3>4. CASE i = 1
      <4>1. f[i - 1] = 2 /\ i - 1 = 0
        BY <3>1, <3>4
      <4>2. Len(T[i - 1]) = 0
        BY <1>7, <4>1
      <4> QED
        BY <3>2, <3>3, <3>4, <4>1, <4>2
    <3>5. CASE i # 1
      <4>1. f[i - 1] = 2 + Len(T[i - 1]) + 1
        BY <3>1, <3>5
      <4>2. Begin(T, i) = Len(T[i - 1]) + 1
        BY <3>2, <3>5
      <4> HIDE DEF f
      <4>3. 2 + Len(T[i - 1]) + 1 = 2 + Begin(T, i)
        <5>1. \A x \in Nat : 2 + x + 1 = 2 + (x + 1)
          OBVIOUS
        <5> QED
          BY <3>2, <4>2, <5>1, Zenon
      <4> QED
        BY <3>3, <4>1, <4>3, Zenon
    <3> QED
      BY <3>4, <3>5
  <2> QED
    BY <2>1, <2>2, <2>3
<1> HIDE DEF f
<1>12. \A i \in 0 .. Octets : at[i] = f[i]
  <2>1. ASSUME NEW i \in 1 .. Octets
        PROVE  NumberEnd(s, f[i - 1]) < MAX_PATH /\ f[i] = NumberEnd(s, f[i - 1]) + 1
    <3>1. i \in 1 .. n
      BY DEF n
    <3> QED
      BY <1>10, <1>11, <3>1
  <2>2. f[0] = 2
    BY <1>11
  <2> QED
    BY <2>1, <2>2, NumbersBegin
<1>13. ASSUME NEW i \in 1 .. Octets
       PROVE  Number(s, at[i - 1]) = ValueOf(address[i]) /\ ValueOf(address[i]) \in 0 .. 22
  <2>1. i \in 1 .. n /\ i - 1 \in 0 .. Octets
    BY <1>1 DEF n
  <2>2. at[i - 1] = 2 + Begin(T, i)
    BY <1>11, <1>12, <2>1
  <2> QED
    BY <1>10, <2>1, <2>2
<1>14. ASSUME port # <<>>
       PROVE  NumberEnd(s, at[Octets]) > at[Octets] /\ Number(s, at[Octets]) = ValueOf(port)
  <2> DEFINE k == 2 + m + 1
  <2>1. at[Octets] = k
    BY <1>1, <1>11, <1>12 DEF n
  <2>2. port \in Numerals /\ Len(port) \in 1 .. 2
    <3>1. port \in Numerals
      BY <1>14
    <3> QED
      BY <3>1, NumeralIs
  <2>3. k \in Nat /\ k + Len(port) = Len(text) /\ k + Len(port) < MAX_PATH
    BY <1>2, <1>3, <1>14, <2>2
  <2>4. ASSUME NEW j \in 1 .. Len(port) PROVE s[k + j - 1] = port[j]
    <3>1. PICK h \in 0 .. Len(text) - 1 : h = k + j - 1 /\ h + 1 = 2 + m + 1 + j
      BY <1>2, <2>2, <2>3
    <3>2. s[h] = text[h + 1]
      BY <1>3
    <3>3. text[2 + m + 1 + j] = port[j]
      BY <1>2, <1>14
    <3> QED
      BY <3>1, <3>2, <3>3
  <2>5. s[k + Len(port)] \notin DOMAIN Digit
    BY <1>3, <2>3, Characters
  <2> HIDE DEF k
  <2>6. NumberEnd(s, k) = k + Len(port) /\ Number(s, k) = ValueOf(port)
    BY <2>2, <2>3, <2>4, <2>5, NumberIs
  <2>7. NumberEnd(s, k) > k
    <3>1. PICK l \in 1 .. 2 : l = Len(port)
      BY <2>2
    <3>2. k + l > k
      BY <2>3
    <3> QED
      BY <2>6, <3>1, <3>2
  <2> QED
    BY <2>1, <2>6, <2>7
<1> QED
  BY <1>13, <1>14
-------------------------------------------------------------------------------
(* The steps.                                                               *)

\* A command without arguments has nothing to be compared.
LEMMA NoneAsEntered ==
  /\ words = None => ArgumentsAsEntered
  /\ words' = None => ArgumentsAsEntered'
<1>1. None.op = NUL /\ None.op # "connect"
  BY DEF None, NUL
<1>2. ASSUME words = None PROVE ArgumentsAsEntered
  <2>1. words.op = NUL /\ words.op # "connect"
    BY <1>1, <1>2
  <2> QED
    BY <2>1, Zenon DEF ArgumentsAsEntered, ConnectsAsEntered
<1>3. ASSUME words' = None PROVE ArgumentsAsEntered'
  <2>1. words'.op = NUL /\ words'.op # "connect"
    BY <1>1, <1>3
  <2> QED
    BY <2>1, Zenon DEF ArgumentsAsEntered, ConnectsAsEntered
<1> QED
  BY <1>2, <1>3

\* The size of the buffer.
LEMMA LineSizes == MAX_PATH \in Nat /\ MAX_PATH > 2 /\ Index = 0 .. MAX_PATH - 1 /\ 0 \in Index
BY LineAssumption DEF Index

\* Memory may be full of anything before the first line.
LEMMA InitHolds == InitLine => LineInv
<1> SUFFICES ASSUME InitLine PROVE LineInv
  OBVIOUS
<1>1. PICK c \in Fresh : szLine = [k \in Index |-> c]
  BY DEF InitLine
<1>2. c \in Char \cup {NUL}
  BY LineAssumption
<1>3. szLine \in [Index -> Char \cup {NUL}]
  BY <1>1, <1>2
<1>4. len \in 0 .. MAX_PATH - 1 /\ lineAt = "prompt" /\ entered \in Seq(Char) /\ words = None
  BY LineSizes DEF InitLine
<1> QED
  BY <1>3, <1>4, NoneAsEntered DEF LineInv, LineTyped, Holds

\* Prompt: the line is empty, whatever the buffer has.
LEMMA PromptStep ==
  ASSUME LineInv, Prompt
  PROVE  LineInv'
<1>1. /\ szLine' = szLine /\ len' = 0 /\ entered' = <<>> /\ words' = None /\ lineAt' = "keys"
      /\ ~underflow'
  BY DEF Prompt
<1>2. LineTyped'
  BY <1>1, LineSizes DEF LineInv, LineTyped
<1>3. Holds'
  BY <1>1, LineSizes DEF Holds, Begins
<1> QED
  BY <1>1, <1>2, <1>3, NoneAsEntered DEF LineInv

\* While a line is typed.
LEMMA Typing ==
  ASSUME LineInv, lineAt = "keys"
  PROVE  /\ szLine \in [Index -> Char \cup {NUL}] /\ entered \in Seq(Char)
         /\ len = Len(entered) /\ len \in Nat /\ len < MAX_PATH
         /\ \A k \in 0 .. len - 1 : szLine[k] = entered[k + 1]
         /\ words = None /\ ~underflow
<1>1. szLine \in [Index -> Char \cup {NUL}] /\ entered \in Seq(Char)
  BY DEF LineInv, LineTyped
<1>2. len = Len(entered) /\ Begins /\ words = None /\ ~underflow
  BY DEF LineInv, Holds
<1> QED
  BY <1>1, <1>2 DEF Begins

\* Key: the line and the buffer get the same character.
LEMMA KeyStep ==
  ASSUME LineInv, NEW c \in Keys, Key(c)
  PROVE  LineInv'
<1>1. /\ lineAt = "keys" /\ lineAt' = "keys" /\ len < MAX_PATH - 1 /\ len' = len + 1
      /\ szLine' = [szLine EXCEPT ![len] = c, ![len + 1] = NUL]
      /\ entered' = Append(entered, c) /\ words' = words /\ underflow' = underflow
  BY DEF Key
<1>2. /\ szLine \in [Index -> Char \cup {NUL}] /\ entered \in Seq(Char) /\ len = Len(entered) /\ len \in Nat
      /\ \A k \in 0 .. len - 1 : szLine[k] = entered[k + 1]
  BY <1>1, Typing
<1>3. words = None /\ ~underflow'
  BY <1>1, Typing
<1>4. c \in Char
  BY LineAssumption DEF Keys, Char
<1>5. len \in Index /\ len + 1 \in Index
  BY <1>1, <1>2, LineSizes
<1>6. szLine' \in [Index -> Char \cup {NUL}]
  BY <1>1, <1>2, <1>4, <1>5
<1>7. /\ entered' \in Seq(Char) /\ Len(entered') = len + 1
      /\ entered'[len + 1] = c /\ \A k \in 1 .. len : entered'[k] = entered[k]
  BY <1>1, <1>2, <1>4
<1>8. ASSUME NEW k \in 0 .. len PROVE szLine'[k] = entered'[k + 1]
  <2>1. k \in Index /\ k # len + 1
    BY <1>2, <1>5, LineSizes
  <2>2. CASE k = len
    BY <1>1, <1>2, <1>5, <1>7, <2>1, <2>2
  <2>3. CASE k # len
    <3>1. k \in 0 .. len - 1 /\ k + 1 \in 1 .. len
      BY <1>2, <2>3
    <3>2. szLine'[k] = szLine[k]
      BY <1>1, <1>2, <2>1, <2>3
    <3> QED
      BY <1>2, <1>7, <3>1, <3>2
  <2> QED
    BY <2>2, <2>3
<1>9. LineTyped'
  <2>1. len' \in 0 .. MAX_PATH - 1
    BY <1>1, <1>2, LineSizes
  <2> QED
    BY <1>1, <1>6, <1>7, <2>1 DEF LineTyped
<1>10. Holds'
  <2>1. (len + 1) - 1 = len /\ len + 1 < MAX_PATH
    BY <1>1, <1>2, LineSizes
  <2> QED
    BY <1>1, <1>3, <1>7, <1>8, <2>1 DEF Holds, Begins
<1> QED
  BY <1>1, <1>3, <1>9, <1>10, NoneAsEntered DEF LineInv

\* Backspace: the buffer keeps the character, the line does not.
LEMMA BackspaceStep ==
  ASSUME LineInv, Backspace
  PROVE  LineInv'
<1>1. /\ lineAt = "keys" /\ lineAt' = "keys" /\ len > 0 /\ len' = len - 1 /\ szLine' = szLine
      /\ entered' = SubSeq(entered, 1, Len(entered) - 1) /\ words' = words
      /\ underflow' = underflow
  BY DEF Backspace
<1>2. /\ szLine \in [Index -> Char \cup {NUL}] /\ entered \in Seq(Char) /\ len = Len(entered) /\ len \in Nat
      /\ len < MAX_PATH /\ \A k \in 0 .. len - 1 : szLine[k] = entered[k + 1]
  BY <1>1, Typing
<1>3. words = None /\ ~underflow'
  BY <1>1, Typing
<1>4. /\ entered' \in Seq(Char) /\ Len(entered') = len - 1
      /\ \A k \in 1 .. len - 1 : entered'[k] = entered[k]
  BY <1>1, <1>2
<1>5. \A k \in 0 .. (len - 1) - 1 : k \in 0 .. len - 1 /\ k + 1 \in 1 .. len - 1
  BY <1>2
<1>6. LineTyped'
  BY <1>1, <1>2, <1>4, LineSizes DEF LineTyped
<1>7. Holds'
  <2>1. \A k \in 0 .. (len - 1) - 1 : szLine[k] = entered'[k + 1]
    BY <1>2, <1>4, <1>5
  <2>2. len - 1 < MAX_PATH
    BY <1>2, LineSizes
  <2> QED
    BY <1>1, <1>3, <1>4, <2>1, <2>2 DEF Holds, Begins
<1> QED
  BY <1>1, <1>3, <1>6, <1>7, NoneAsEntered DEF LineInv

\* Enter: the terminator goes behind the line.
LEMMA EnterStep ==
  ASSUME LineInv, Enter
  PROVE  LineInv'
<1>1. /\ lineAt = "keys" /\ lineAt' = "command" /\ len' = len /\ entered' = entered /\ words' = words
      /\ szLine' = [szLine EXCEPT ![len] = NUL]
      /\ underflow' = underflow
  BY DEF Enter
<1>2. /\ szLine \in [Index -> Char \cup {NUL}] /\ entered \in Seq(Char) /\ len = Len(entered) /\ len \in Nat
      /\ len < MAX_PATH /\ \A k \in 0 .. len - 1 : szLine[k] = entered[k + 1]
  BY <1>1, Typing
<1>3. words = None /\ ~underflow'
  BY <1>1, Typing
<1>4. len \in Index /\ \A k \in 0 .. len - 1 : k \in Index /\ k # len
  BY <1>2, LineSizes
<1>5. szLine'[len] = NUL /\ \A k \in 0 .. len - 1 : szLine'[k] = entered[k + 1]
  BY <1>1, <1>2, <1>4
<1>6. LineTyped'
  BY <1>1, <1>2, <1>4, LineSizes DEF LineTyped
<1>7. Holds'
  <2>1. Begins' /\ szLine'[Len(entered')] = NUL
    BY <1>1, <1>2, <1>5 DEF Begins
  <2> QED
    BY <1>1, <1>3, <2>1, Zenon DEF Holds
<1> QED
  BY <1>1, <1>3, <1>6, <1>7, NoneAsEntered DEF LineInv

\* ReadLine: the terminator goes over the CR, or behind the line.
LEMMA ReadLineStep ==
  ASSUME LineInv, NEW text \in FileLines, ReadLine(text)
  PROVE  LineInv'
<1>1. entered' = WithoutCR(text) /\ words' = None /\ len' = len
  BY DEF ReadLine
<1>2. text \in Seq(Char) /\ Len(text) \in Nat
  BY LineAssumption
<1>3. szLine \in [Index -> Char \cup {NUL}] /\ len \in 0 .. MAX_PATH - 1
  BY DEF LineInv, LineTyped
<1>4. /\ entered' \in Seq(Char) /\ Len(entered') \in Nat /\ Len(entered') <= Len(text)
      /\ \A j \in 1 .. Len(entered') : entered'[j] = text[j]
  <2>1. CASE text # <<>> /\ text[Len(text)] = CR
    <3>1. entered' = SubSeq(text, 1, Len(text) - 1)
      BY <1>1, <2>1 DEF WithoutCR
    <3>2. Len(text) > 0
      BY <1>2, <2>1
    <3> QED
      BY <1>2, <3>1, <3>2
  <2>2. CASE ~(text # <<>> /\ text[Len(text)] = CR)
    <3>1. entered' = text
      BY <1>1, <2>2 DEF WithoutCR
    <3> QED
      BY <1>2, <3>1
  <2> QED
    BY <2>1, <2>2
<1> DEFINE stored == [k \in Index |-> IF k < Len(text) THEN text[k + 1] ELSE szLine[k]]
<1>5. stored \in [Index -> Char \cup {NUL}]
  <2>1. \A k \in Index : k < Len(text) => k + 1 \in 1 .. Len(text)
    BY <1>2, LineSizes
  <2>2. \A k \in Index : stored[k] \in Char \cup {NUL}
    BY <1>2, <1>3, <2>1
  <2> QED
    BY <2>2
<1>6. CASE /\ Len(text) < MAX_PATH /\ szLine' = [stored EXCEPT ![Len(entered')] = NUL]
           /\ lineAt' = "command" /\ underflow' = FALSE
  <2> DEFINE n == Len(entered')
  <2>1. n \in Index /\ n < MAX_PATH /\ \A k \in 0 .. n - 1 : /\ k \in Index /\ k # n /\ k < Len(text)
                                                             /\ k + 1 \in 1 .. n
    BY <1>2, <1>4, <1>6, LineSizes
  <2>2. szLine' \in [Index -> Char \cup {NUL}] /\ szLine'[n] = NUL
        /\ \A k \in 0 .. n - 1 : szLine'[k] = stored[k]
    <3> HIDE DEF stored
    <3> QED
      BY <1>5, <1>6, <2>1
  <2>3. \A k \in 0 .. n - 1 : szLine'[k] = entered'[k + 1]
    <3>1. \A k \in 0 .. n - 1 : stored[k] = text[k + 1] /\ text[k + 1] = entered'[k + 1]
      BY <1>4, <2>1
    <3> HIDE DEF stored
    <3> QED
      BY <2>2, <3>1
  <2>4. LineTyped'
    BY <1>1, <1>3, <1>4, <1>6, <2>2, LineSizes DEF LineTyped
  <2>5. Holds'
    BY <1>1, <1>6, <2>1, <2>2, <2>3 DEF Holds, Begins
  <2> QED
    BY <1>1, <2>4, <2>5, NoneAsEntered DEF LineInv
<1>7. CASE text = <<>> /\ lineAt' = "command" /\ underflow' = TRUE /\ szLine' = szLine
  <2>1. entered' = <<>>
    BY <1>1, <1>7 DEF WithoutCR
  <2>2. LineTyped' /\ Holds'
    BY <1>1, <1>3, <1>7, <2>1, LineSizes DEF LineTyped, Holds
  <2> QED
    BY <1>1, <2>2, NoneAsEntered DEF LineInv
<1>8. CASE szLine' = stored /\ lineAt' = "lost"
  <2>1. LineTyped'
    <3> HIDE DEF stored
    <3> QED
      BY <1>1, <1>3, <1>4, <1>5, <1>8, LineSizes DEF LineTyped
  <2>2. Holds'
    BY <1>1, <1>8 DEF Holds
  <2> QED
    BY <1>1, <2>1, <2>2, NoneAsEntered DEF LineInv
<1> QED
  <2> HIDE DEF stored
  <2>1. \/ /\ Len(text) < MAX_PATH /\ szLine' = [stored EXCEPT ![Len(entered')] = NUL]
           /\ lineAt' = "command" /\ underflow' = FALSE
        \/ text = <<>> /\ lineAt' = "command" /\ underflow' = TRUE /\ szLine' = szLine
        \/ szLine' = stored /\ lineAt' = "lost"
    BY Zenon DEF ReadLine, stored
  <2> QED
    BY <1>6, <1>7, <1>8, <2>1

\* Command: the arguments are cut from the line that the buffer begins with.
LEMMA CommandStep ==
  ASSUME LineInv, Command
  PROVE  LineInv'
<1>1. /\ lineAt = "command" /\ lineAt' = "prompt" /\ len' = len /\ entered' = entered
      /\ underflow' = underflow
      /\ szLine' = IF szLine[0] \in Op THEN Terminated(szLine) ELSE szLine
      /\ words' = IF szLine[0] \in Op
                  THEN [op |-> szLine[0], first |-> StringAt(szLine', First),
                        second |-> Second(szLine')]
                  ELSE None
      /\ szLine[0] = "connect" => Connect(szLine)
  BY DEF Command
<1>2. szLine \in [Index -> Char \cup {NUL}] /\ entered \in Seq(Char)
  BY DEF LineInv, LineTyped
<1>3. IF underflow THEN entered = <<>> ELSE InBuffer(szLine, entered)
  BY <1>1, <1>2 DEF LineInv, Holds, Begins, InBuffer
<1>4. LineTyped'
  <2>1. Terminated(szLine) \in [Index -> Char \cup {NUL}]
    BY <1>2 DEF Terminated
  <2>2. szLine' \in [Index -> Char \cup {NUL}]
    BY <1>1, <1>2, <2>1
  <2> QED
    BY <1>1, <2>2 DEF LineInv, LineTyped
<1>5. Holds'
  BY <1>1 DEF Holds
<1>6. CASE szLine[0] \notin Op
  BY <1>1, <1>4, <1>5, <1>6, NoneAsEntered DEF LineInv
<1>7. CASE szLine[0] \in Op
  <2>1. /\ words'.op = szLine[0] /\ szLine' = Terminated(szLine)
        /\ words'.first = StringAt(Terminated(szLine), First)
        /\ words'.second = Second(Terminated(szLine))
    BY <1>1, <1>7
  <2>2. ~underflow => entered # <<>> /\ szLine[0] = entered[1]
    <3> SUFFICES ASSUME ~underflow PROVE entered # <<>> /\ szLine[0] = entered[1]
      OBVIOUS
    <3>1. InBuffer(szLine, entered)
      BY <1>3
    <3>2. /\ Len(entered) \in Nat /\ szLine[Len(entered)] = NUL
          /\ \A k \in 0 .. Len(entered) - 1 : szLine[k] = entered[k + 1]
      BY <3>1, LineInBuffer
    <3>3. Len(entered) # 0
      BY <1>7, <3>2, Characters
    <3>4. 0 \in 0 .. Len(entered) - 1
      BY <3>2, <3>3
    <3> QED
      BY <3>2, <3>3, <3>4
  <2>3. Len(entered) >= First => InBuffer(szLine, entered)
    <3>1. Len(<<>>) = 0
      OBVIOUS
    <3> QED
      BY <1>3, <3>1 DEF First
  <2>4. ASSUME Len(entered) >= First
        PROVE  LET meant == SubSeq(entered, First + 1, Len(entered))
                   cut == IF szLine[0] \in {"cd", "connect"} THEN <<meant>>
                          ELSE Words(meant, szLine[0] = "mv")
               IN  words'.first = cut[1] /\ (Len(cut) = 2 => words'.second = cut[2])
    <3> DEFINE meant == SubSeq(entered, First + 1, Len(entered))
    <3>1. LET cut == IF szLine[0] \in {"cd", "connect"} THEN <<meant>> ELSE Words(meant, szLine[0] = "mv")
          IN  /\ StringAt(Terminated(szLine), First) = cut[1]
              /\ Len(cut) = 2 => Second(Terminated(szLine)) = cut[2]
      BY <1>2, <1>7, <2>3, <2>4, CutsAsMeant
    <3> QED
      BY <2>1, <3>1, Zenon
  <2>5. ASSUME szLine[0] = "connect",
               NEW address \in [1 .. Octets -> Numerals], NEW port \in Numerals \cup {<<>>},
               entered = ConnectLine(address, port)
        PROVE  /\ RemoteAddress' = [i \in 1 .. Octets |-> ValueOf(address[i])]
               /\ port # <<>> => RemotePort' = ValueOf(port)
    <3> DEFINE at == NumberAt(szLine)
               T == TextOf(address)
    <3>1. InBuffer(szLine, ConnectLine(address, port))
      <4>1. Len(entered) >= 2
        <5> DEFINE m == Len(T[Octets])
        <5>1. m \in Nat /\ Len(entered) = IF port = <<>> THEN 2 + m ELSE 2 + m + 1 + Len(port)
          BY <2>5, LineIs
        <5> HIDE DEF m
        <5>2. CASE port = <<>>
          BY <5>1, <5>2
        <5>3. CASE port # <<>>
          <6>1. port \in Numerals
            BY <5>3
          <6>2. Len(port) \in Nat
            BY <6>1, NumeralIs
          <6> QED
            BY <5>1, <5>3, <6>2
        <5> QED
          BY <5>2, <5>3
      <4> QED
        BY <2>3, <2>5, <4>1 DEF First
    <3>2. /\ RemoteAddress' = [i \in 1 .. Octets |-> Number(szLine, at[i - 1]) % 256]
          /\ RemotePort' = IF NumberEnd(szLine, at[Octets]) > at[Octets]
                           THEN Number(szLine, at[Octets]) ELSE RemotePort
      BY <1>1, <2>5, Zenon DEF Connect
    <3> HIDE DEF at
    <3>3. /\ \A i \in 1 .. Octets : /\ Number(szLine, at[i - 1]) = ValueOf(address[i])
                                    /\ ValueOf(address[i]) \in 0 .. 22
          /\ port # <<>> => /\ NumberEnd(szLine, at[Octets]) > at[Octets]
                            /\ Number(szLine, at[Octets]) = ValueOf(port)
      BY <3>1, ConnectReads DEF at
    <3>4. \A i \in 1 .. Octets : Number(szLine, at[i - 1]) % 256 = ValueOf(address[i])
      <4>1. \A v \in 0 .. 22 : v % 256 = v
        OBVIOUS
      <4> TAKE i \in 1 .. Octets
      <4>2. Number(szLine, at[i - 1]) = ValueOf(address[i]) /\ ValueOf(address[i]) \in 0 .. 22
        BY <3>3, Zenon
      <4> QED
        BY <4>1, <4>2
    <3> QED
      BY <3>2, <3>3, <3>4
  <2>6. ArgumentsAsEntered'
    BY <1>1, <2>1, <2>2, <2>4, <2>5 DEF ArgumentsAsEntered, ConnectsAsEntered
  <2> QED
    BY <1>4, <1>5, <2>6 DEF LineInv
<1> QED
  BY <1>6, <1>7

\* A step of something else.
LEMMA LineStutters ==
  ASSUME LineInv, UNCHANGED line
  PROVE  LineInv'
BY DEF line, LineInv, LineTyped, Holds, Begins, ArgumentsAsEntered, ConnectsAsEntered

\* Whatever keys are pressed and lines are read, in whatever order, a command has
\* the arguments that were entered for it: the buffer that Input, ReadLine and the
\* command before have all written to begins with the line and its terminator.
THEOREM HasItsArguments == LineSpec => []ArgumentsAsEntered
<1>1. LineInv /\ [LineStep]_line => LineInv'
  BY PromptStep, KeyStep, BackspaceStep, EnterStep, ReadLineStep, CommandStep, LineStutters DEF LineStep
<1>2. LineInv => ArgumentsAsEntered
  BY DEF LineInv
<1> QED
  BY InitHolds, <1>1, <1>2, PTL DEF LineSpec

-------------------------------------------------------------------------------
(* AntTSP: what its steps preserve.                                         *)

\* The program by itself.
AntsSpec == InitAnts /\ [][AntsStep]_ants

\* The cities of a walk.
Been(k) == {path[k][j] : j \in DOMAIN path[k]}

\* What is read, and the walks while there are any.
AntsTyped ==
  /\ IF antsAt = "prompt" THEN task = NoTask ELSE task \in Tasks
  /\ antsAt \in {"prompt", "reuse", "walk", "score", "done", "fault"}
  /\ sol \in Nat
  /\ ant \in 0 .. task.m
  /\ antsAt \in {"reuse", "walk", "score"} =>
       /\ start \in [Ants -> Cities]
       /\ path \in [Ants -> Seq(Cities)]
       /\ b_can \in [Ants -> SUBSET Cities]
       /\ t_len \in [Ants -> Nat]

\* Each ant has been where it cannot go: at the end of a round, where it starts
\* the next one, it can go anywhere else again.
Covered ==
  antsAt \in {"reuse", "walk", "score"} =>
    \A k \in Ants : Cities \ b_can[k] \subseteq Been(k)

\* Every step of a walk takes a city from those the ant can go to and adds its
\* distance, of which task.n are shorter than NoTour.
Walked ==
  antsAt \in {"walk", "score"} =>
    \A k \in Ants :
      /\ path[k] # <<>>
      /\ Len(path[k]) + Cardinality(b_can[k]) = task.n
      /\ t_len[k] = Length(path[k])
      /\ task.n * t_len[k] <= (Len(path[k]) - 1) * (NoTour - 1)

\* What was scored are walks, and best is one of them.
Scored ==
  /\ scored \subseteq Seq(Cities)
  /\ antsAt \in {"prompt", "fault"} => scored = {} /\ best = <<>>

\* The inductive invariant of the ants.
AntsInv == AntsTyped /\ Covered /\ Walked /\ Scored /\ KeepsShortest

-------------------------------------------------------------------------------
(* The length of a walk.                                                    *)

\* f[k] is the distance from the first to the k-th city of a walk.
Follows(f, walk, n) ==
  \A k \in 1 .. n :
    f[k] = IF k = 1 THEN 0 ELSE f[k - 1] + task.len[<<walk[k - 1], walk[k]>>]

Adds(f, walk, n) == f \in [1 .. n -> Nat] /\ Follows(f, walk, n)

\* AntAssumption, for the task that was typed.
LEMMA Distance ==
  ASSUME task \in Tasks
  PROVE  /\ task.n \in Nat /\ task.m \in Nat
         /\ \A c, d \in Cities : task.len[<<c, d>>] \in Nat /\ task.n * task.len[<<c, d>>] < NoTour
BY AntAssumption DEF Cities

\* There are n cities, and finitely many in any set of them.
LEMMA CitiesCounted ==
  ASSUME task \in Tasks
  PROVE  IsFiniteSet(Cities) /\ Cardinality(Cities) = task.n
<1> DEFINE n == task.n
<1>1. n \in Nat
  BY Distance
<1>2. Cities = 0 .. n - 1
  BY DEF Cities
<1> HIDE DEF n
<1>3. /\ 0 \in Int /\ n - 1 \in Int
      /\ (IF 0 > n - 1 THEN 0 ELSE n - 1 - 0 + 1) = n
  BY <1>1
<1>4. IsFiniteSet(0 .. n - 1) /\ Cardinality(0 .. n - 1) = IF 0 > n - 1 THEN 0 ELSE n - 1 - 0 + 1
  BY <1>3, FS_Interval
<1> QED
  BY <1>2, <1>3, <1>4 DEF n

LEMMA SomeCities ==
  ASSUME task \in Tasks, NEW S \in SUBSET Cities
  PROVE  IsFiniteSet(S) /\ Cardinality(S) \in Nat
<1>1. IsFiniteSet(S)
  BY CitiesCounted, FS_Subset
<1> QED
  BY <1>1, FS_CardinalityType

\* Every walk has such an f.
LEMMA SumExists ==
  ASSUME task \in Tasks, NEW walk \in Seq(Cities)
  PROVE  \A n \in 1 .. Len(walk) : \E f : Adds(f, walk, n)
<1> DEFINE T == {n \in 1 .. Len(walk) : ~ \E f : Adds(f, walk, n)}
<1> SUFFICES ASSUME T # {} PROVE FALSE
  OBVIOUS
<1>1. Len(walk) \in Nat /\ \A k \in 1 .. Len(walk) : walk[k] \in Cities
  OBVIOUS
<1>2. PICK n \in T : \A j \in T : n <= j
  <2>1. T \in SUBSET Nat
    OBVIOUS
  <2> HIDE DEF T
  <2> QED
    BY <2>1, Least
<1>3. CASE n = 1
  <2>1. Adds([k \in 1 .. 1 |-> 0], walk, 1)
    BY DEF Adds, Follows
  <2> QED
    BY <1>3, <2>1
<1>4. CASE n > 1
  <2>1. n - 1 \in 1 .. Len(walk) /\ n - 1 \notin T
    BY <1>1, <1>2, <1>4
  <2>2. PICK f : Adds(f, walk, n - 1)
    BY <2>1
  <2> DEFINE d == task.len[<<walk[n - 1], walk[n]>>]
             g == [k \in 1 .. n |-> IF k = n THEN f[n - 1] + d ELSE f[k]]
  <2>3. d \in Nat
    BY <1>1, <2>1, Distance
  <2>4. f[n - 1] \in Nat /\ \A k \in 1 .. n - 1 : f[k] \in Nat
    BY <1>1, <1>4, <2>1, <2>2 DEF Adds, Follows
  <2>5. g \in [1 .. n -> Nat]
    <3> HIDE DEF d
    <3> QED
      BY <1>1, <2>1, <2>3, <2>4, SMTT(30)
  <2>6. ASSUME NEW k \in 1 .. n
        PROVE  g[k] = IF k = 1 THEN 0 ELSE g[k - 1] + task.len[<<walk[k - 1], walk[k]>>]
    <3>1. CASE k = n
      BY <1>1, <1>4, <2>1, <3>1
    <3>2. CASE k # n
      <4>1. k \in 1 .. n - 1 /\ (k # 1 => k - 1 \in 1 .. n - 1 /\ k - 1 # n /\ k - 1 \in 1 .. n)
        BY <1>1, <2>1, <3>2
      <4>2. g[k] = f[k] /\ (k # 1 => g[k - 1] = f[k - 1])
        BY <3>2, <4>1
      <4> QED
        BY <2>2, <4>1, <4>2 DEF Adds, Follows
    <3> QED
      BY <3>1, <3>2
  <2>7. Adds(g, walk, n)
    <3> HIDE DEF g
    <3> QED
      BY <2>5, <2>6 DEF Adds, Follows
  <2> QED
    BY <2>7
<1> QED
  BY <1>1, <1>2, <1>3, <1>4

\* There is one such f only.
LEMMA OneSum ==
  ASSUME NEW walk, NEW n \in Nat, NEW f, NEW g, Follows(f, walk, n), Follows(g, walk, n)
  PROVE  \A k \in 1 .. n : f[k] = g[k]
<1> DEFINE T == {k \in 1 .. n : f[k] # g[k]}
<1> SUFFICES ASSUME T # {} PROVE FALSE
  OBVIOUS
<1>1. PICK k \in T : \A j \in T : k <= j
  <2>1. T \in SUBSET Nat
    OBVIOUS
  <2> HIDE DEF T
  <2> QED
    BY <2>1, Least
<1>2. k # 1 => k - 1 \in 1 .. n /\ f[k - 1] = g[k - 1]
  <2>1. k # 1 => k - 1 \in 1 .. n /\ k - 1 \notin T
    BY <1>1
  <2> QED
    BY <2>1
<1>3. k \in 1 .. n /\ f[k] # g[k]
  BY <1>1
<1> DEFINE d == task.len[<<walk[k - 1], walk[k]>>]
<1>4. f[k] = (IF k = 1 THEN 0 ELSE f[k - 1] + d) /\ g[k] = (IF k = 1 THEN 0 ELSE g[k - 1] + d)
  BY <1>3, Zenon DEF Follows
<1> HIDE DEF d
<1> QED
  BY <1>2, <1>3, <1>4

\* Length is the last of these sums.
LEMMA LengthIs ==
  ASSUME task \in Tasks, NEW walk \in Seq(Cities), walk # <<>>,
         NEW f, Adds(f, walk, Len(walk))
  PROVE  Length(walk) = f[Len(walk)]
<1> DEFINE S(h) == [k \in DOMAIN walk |-> IF k = 1 THEN 0
                                          ELSE h[k - 1] + task.len[<<walk[k - 1], walk[k]>>]]
           total == CHOOSE h : h = S(h)
<1>1. Len(walk) \in Nat /\ Len(walk) \in 1 .. Len(walk) /\ DOMAIN walk = 1 .. Len(walk)
  BY EmptySeq
<1>2. f = S(f)
  BY <1>1 DEF Adds, Follows
<1>3. total = S(total)
  <2> HIDE DEF S
  <2> QED
    BY <1>2
<1>4. Follows(total, walk, Len(walk))
  <2> HIDE DEF total
  <2> QED
    BY <1>1, <1>3 DEF Follows
<1>5. total[Len(walk)] = f[Len(walk)]
  <2> HIDE DEF total
  <2> QED
    BY <1>1, <1>4, OneSum DEF Adds
<1>6. Length(walk) = total[Len(walk)]
  BY DEF Length
<1> QED
  BY <1>5, <1>6

\* The length of a walk is a number, ...
LEMMA LengthNat ==
  ASSUME task \in Tasks, NEW walk \in Seq(Cities)
  PROVE  Length(walk) \in Nat
<1> CASE walk = <<>>
  BY DEF Length
<1> CASE walk # <<>>
  <2>1. Len(walk) \in Nat /\ Len(walk) \in 1 .. Len(walk)
    BY EmptySeq
  <2>2. PICK f : Adds(f, walk, Len(walk))
    BY <2>1, SumExists
  <2> QED
    BY <2>1, <2>2, LengthIs DEF Adds
<1> QED
  OBVIOUS

\* ... 0 where it starts, ...
LEMMA LengthOne ==
  ASSUME task \in Tasks, NEW c \in Cities
  PROVE  Length(<<c>>) = 0
<1> DEFINE walk == <<c>>
           f == [k \in 1 .. 1 |-> 0]
<1>1. walk \in Seq(Cities) /\ walk # <<>> /\ Len(walk) = 1 /\ f[1] = 0
  OBVIOUS
<1>2. Adds(f, walk, 1)
  BY DEF Adds, Follows
<1> HIDE DEF walk, f
<1>3. Length(walk) = 0
  BY <1>1, <1>2, LengthIs
<1> QED
  BY <1>3 DEF walk

\* ... and grows by the distance of each step.
LEMMA LengthAppend ==
  ASSUME task \in Tasks, NEW walk \in Seq(Cities), walk # <<>>, NEW c \in Cities
  PROVE  Length(Append(walk, c)) = Length(walk) + task.len[<<walk[Len(walk)], c>>]
<1> DEFINE longer == Append(walk, c)
           n == Len(walk)
<1>1. /\ n \in Nat /\ n \in 1 .. n /\ n > 0
      /\ longer \in Seq(Cities) /\ longer # <<>> /\ Len(longer) = n + 1
      /\ \A k \in 1 .. n : longer[k] = walk[k]
      /\ longer[n + 1] = c
  BY EmptySeq
<1> HIDE DEF longer, n
<1>2. PICK f : Adds(f, longer, n + 1)
  BY <1>1, SumExists
<1>3. f[n + 1] = f[n] + task.len[<<walk[n], c>>]
  BY <1>1, <1>2 DEF Adds, Follows
<1>4. PICK g : Adds(g, walk, n)
  BY <1>1, SumExists DEF n
<1>5. Follows(f, walk, n)
  <2>1. \A k \in 1 .. n : k \in 1 .. n + 1 /\ (k # 1 => k - 1 \in 1 .. n)
    BY <1>1
  <2> QED
    BY <1>1, <1>2, <2>1 DEF Adds, Follows
<1>6. f[n] = g[n]
  BY <1>1, <1>4, <1>5, OneSum DEF Adds
<1> QED
  BY <1>1, <1>2, <1>3, <1>4, <1>6, LengthIs DEF n, longer

-------------------------------------------------------------------------------
(* The steps of the program.                                                *)

\* The length of a walk depends on the task only.
LEMMA SameLength ==
  ASSUME task' = task, NEW walk
  PROVE  Length(walk)' = Length(walk)
BY DEF Length

\* A step that leaves what is kept alone.
LEMMA KeptAlone ==
  ASSUME AntsInv, UNCHANGED <<task, sol, best, scored>>, antsAt' \notin {"prompt", "fault"}
  PROVE  Scored' /\ KeepsShortest'
<1>1. Scored'
  BY DEF AntsInv, Scored, Cities
<1>2. Length(best)' = Length(best)
  BY SameLength
<1>3. \A walk \in scored : Length(walk)' = Length(walk)
  BY SameLength
<1> QED
  BY <1>1, <1>2, <1>3 DEF AntsInv, KeepsShortest, Cities

\* A step that leaves the walks alone.
LEMMA WalksAlone ==
  ASSUME AntsInv, UNCHANGED <<task, start, path, b_can, t_len>>, sol' \in Nat,
         antsAt \in {"walk", "score"}, antsAt' \in {"reuse", "walk", "score"},
         ant' \in 0 .. task.m
  PROVE  AntsTyped' /\ Covered' /\ Walked'
<1>1. AntsTyped'
  BY DEF AntsInv, AntsTyped, Ants, Cities
<1>2. Covered'
  BY DEF AntsInv, Covered, Been, Ants, Cities
<1>3. \A k \in Ants : Length(path[k])' = Length(path[k])
  BY DEF Length
<1>4. Walked'
  BY <1>3 DEF AntsInv, Walked, Ants
<1> QED
  BY <1>1, <1>2, <1>4

\* AntsInput: nothing was scored yet.
LEMMA InputKeeps == ASSUME AntsInv, AntsInput PROVE AntsInv'
<1>1. antsAt = "prompt" /\ task' \in Tasks /\ task'.m \in Nat /\ task'.n \in Nat
  BY AntAssumption DEF AntsInput
<1>2. scored' = {} /\ best' = <<>> /\ sol' = NoTour /\ ant' = 0
  <2>1. ant = 0 /\ ant' = ant
    BY <1>1, AntAssumption DEF AntsInv, AntsTyped, AntsInput, NoTask
  <2> QED
    BY <1>1, <2>1 DEF AntsInv, Scored, KeepsShortest, AntsInput
<1>3. AntsTyped' /\ Covered' /\ antsAt' \in {"fault", "reuse"}
  <2>1. CASE task'.n = 0 /\ task'.m > 0
    BY <1>1, <1>2, <2>1, AntAssumption DEF AntsInput, AntsTyped, Covered
  <2>2. CASE ~(task'.n = 0 /\ task'.m > 0)
    <3>1. path' \in [Ants' -> Seq(Cities')] /\ b_can' \in [Ants' -> SUBSET Cities']
          /\ t_len' \in [Ants' -> Nat] /\ start' \in [Ants' -> Cities'] /\ antsAt' = "reuse"
      <4>1. start' \in [Ants' -> Cities'] /\ antsAt' = "reuse"
        BY <2>2 DEF AntsInput
      <4>2. path' \in [Ants' -> Seq(Cities')]
        <5>1. <<>> \in Seq(Cities')
          OBVIOUS
        <5>2. path' = [k \in Ants' |-> <<>>]
          BY <2>2 DEF AntsInput
        <5> QED
          BY <5>1, <5>2, Zenon
      <4>3. b_can' \in [Ants' -> SUBSET Cities']
        BY <2>2 DEF AntsInput
      <4>4. t_len' \in [Ants' -> Nat]
        BY <2>2 DEF AntsInput
      <4> QED
        BY <4>1, <4>2, <4>3, <4>4
    <3>2. \A k \in Ants' : Cities' \ b_can'[k] = {}
      BY <2>2 DEF AntsInput
    <3> QED
      BY <1>1, <1>2, <3>1, <3>2, AntAssumption DEF AntsTyped, Covered
  <2> QED
    BY <2>1, <2>2
<1> QED
  BY <1>2, <1>3 DEF AntsInv, Walked, Scored, KeepsShortest

\* Reuse: by Covered, an ant can go anywhere but where it starts.
LEMMA ReuseKeeps == ASSUME AntsInv, Reuse PROVE AntsInv'
<1>1. antsAt = "reuse" /\ task \in Tasks /\ task' = task /\ UNCHANGED <<start, sol, best, scored>>
      /\ antsAt' \in {"walk", "done"}
  BY DEF AntsInv, AntsTyped, Reuse
<1>2. Scored' /\ KeepsShortest'
  BY <1>1, KeptAlone
<1>3. CASE NC < task.nc
  <2>1. antsAt' = "walk" /\ ant' = 0
        /\ b_can' = [k \in Ants |-> Reused(k)] /\ path' = [k \in Ants |-> <<start[k]>>]
        /\ t_len' = [k \in Ants |-> 0] /\ Ants' = Ants /\ Cities' = Cities
    BY <1>1, <1>3 DEF Reuse, NewLength, Ants, Cities
  <2>2. ASSUME NEW k \in Ants PROVE start[k] \in Cities /\ Reused(k) = Cities \ {start[k]}
    <3>1. start[k] \in Cities /\ path[k] \in Seq(Cities) /\ b_can[k] \in SUBSET Cities
      BY <1>1 DEF AntsInv, AntsTyped
    <3>2. Been(k) \subseteq Cities /\ Cities \ b_can[k] \subseteq Been(k)
      BY <1>1, <3>1 DEF AntsInv, Covered, Been
    <3> QED
      BY <3>1, <3>2 DEF Reused, Been
  <2>3. AntsTyped'
    <3>1. path' \in [Ants -> Seq(Cities)] /\ b_can' \in [Ants -> SUBSET Cities]
          /\ t_len' \in [Ants -> Nat]
      BY <2>1, <2>2
    <3> QED
      BY <1>1, <2>1, <3>1, Distance DEF AntsInv, AntsTyped
  <2>4. Covered'
    <3>1. ASSUME NEW k \in Ants PROVE Cities \ b_can'[k] \subseteq Been(k)'
      <4>1. 1 \in DOMAIN path'[k] /\ path'[k][1] = start[k]
        BY <2>1
      <4> QED
        BY <2>1, <2>2, <4>1 DEF Been
    <3> QED
      BY <2>1, <3>1 DEF Covered
  <2>5. Walked'
    <3>1. ASSUME NEW k \in Ants
          PROVE  /\ path'[k] # <<>> /\ Len(path'[k]) + Cardinality(b_can'[k]) = task.n
                 /\ t_len'[k] = Length(path[k])'
                 /\ task.n * t_len'[k] <= (Len(path'[k]) - 1) * (NoTour - 1)
      <4>1. path'[k] = <<start[k]>> /\ b_can'[k] = Cities \ {start[k]} /\ t_len'[k] = 0
        BY <2>1, <2>2
      <4>2. IsFiniteSet(Cities) /\ Cardinality(Cities) = task.n
        BY <1>1, CitiesCounted
      <4>3. Cardinality(Cities \ {start[k]}) = task.n - 1
        BY <2>2, <4>2, FS_RemoveElement
      <4>4. Length(<<start[k]>>)' = 0
        BY <1>1, <2>2, LengthOne, SameLength
      <4>5. Length(path[k])' = Length(<<start[k]>>)'
        BY <4>1 DEF Length
      <4> QED
        BY <1>1, <4>1, <4>3, <4>4, <4>5, Distance, AntAssumption
    <3> QED
      BY <1>1, <2>1, <3>1 DEF Walked
  <2> QED
    BY <1>2, <2>3, <2>4, <2>5 DEF AntsInv
<1>4. CASE ~(NC < task.nc)
  <2>1. antsAt' = "done" /\ ant' = ant
    BY <1>4 DEF Reuse
  <2>2. AntsTyped' /\ Covered' /\ Walked'
    BY <1>1, <2>1 DEF AntsInv, AntsTyped, Covered, Walked
  <2> QED
    BY <1>2, <2>2 DEF AntsInv
<1> QED
  BY <1>3, <1>4

\* The turn of an ant.
LEMMA Turns ==
  ASSUME AntsInv, antsAt \in {"walk", "score"}, ant < task.m, ant' = ant + 1, task' = task
  PROVE  /\ task \in Tasks /\ ant \in Ants /\ ant' \in 0 .. task.m
         /\ Ants' = Ants /\ Cities' = Cities
<1>1. task \in Tasks /\ ant \in 0 .. task.m
  BY DEF AntsInv, AntsTyped
<1>2. task.m \in Nat
  BY <1>1, Distance
<1>3. ant \in 0 .. task.m - 1 /\ ant + 1 \in 0 .. task.m
  BY <1>1, <1>2
<1> QED
  BY <1>1, <1>3 DEF Ants, Cities

\* Walk: the ant that moves has been in one city more.
LEMMA WalkKeeps == ASSUME AntsInv, Walk PROVE AntsInv'
<1>1. /\ antsAt = "walk" /\ antsAt' = antsAt /\ UNCHANGED <<task, start, sol, best, scored>>
      /\ task \in Tasks /\ ant \in Ants /\ ant' = ant + 1 /\ ant' \in 0 .. task.m
      /\ Ants' = Ants /\ Cities' = Cities
  <2>1. antsAt = "walk" /\ antsAt' = antsAt /\ UNCHANGED <<task, start, sol, best, scored>>
        /\ ant < task.m /\ ant' = ant + 1
    BY DEF Walk
  <2> QED
    BY <2>1, Turns
<1>2. Scored' /\ KeepsShortest'
  BY <1>1, KeptAlone
<1> DEFINE p == path[ant]
           s == p[Len(p)]
<1>3. PICK t \in b_can[ant] :
        /\ t_len' = [t_len EXCEPT ![ant] = @ + task.len[<<s, t>>]]
        /\ path' = [path EXCEPT ![ant] = Append(p, t)]
        /\ b_can' = [b_can EXCEPT ![ant] = @ \ {t}]
  BY DEF Walk
<1> DEFINE q == Append(p, t)
           d == task.len[<<s, t>>]
<1>4. /\ path \in [Ants -> Seq(Cities)] /\ b_can \in [Ants -> SUBSET Cities]
      /\ t_len \in [Ants -> Nat]
  BY <1>1 DEF AntsInv, AntsTyped
<1>5. /\ p \in Seq(Cities) /\ b_can[ant] \in SUBSET Cities /\ t_len[ant] \in Nat /\ t \in Cities
      /\ p # <<>> /\ Len(p) + Cardinality(b_can[ant]) = task.n
      /\ t_len[ant] = Length(p)
      /\ task.n * t_len[ant] <= (Len(p) - 1) * (NoTour - 1)
  BY <1>1, <1>3, <1>4 DEF AntsInv, Walked
<1>6. Len(p) \in Nat /\ s \in Cities /\ DOMAIN p = 1 .. Len(p)
  <2> HIDE DEF p
  <2> QED
    BY <1>5, EmptySeq
<1>7. /\ q \in Seq(Cities) /\ q # <<>> /\ Len(q) = Len(p) + 1 /\ DOMAIN q = 1 .. Len(p) + 1
      /\ \A j \in 1 .. Len(p) : q[j] = p[j]
      /\ q[Len(p) + 1] = t
  <2> HIDE DEF p
  <2> QED
    BY <1>5
<1>8. /\ path'[ant] = q /\ b_can'[ant] = b_can[ant] \ {t}
      /\ t_len'[ant] = t_len[ant] + d
      /\ \A k \in Ants \ {ant} : path'[k] = path[k] /\ b_can'[k] = b_can[k] /\ t_len'[k] = t_len[k]
  <2> HIDE DEF q, d
  <2> QED
    BY <1>1, <1>3, <1>4 DEF q, d
<1>9. Length(q) = Length(p) + d
  BY <1>1, <1>5, LengthAppend
<1> HIDE DEF p, s, q
<1>10. d \in Nat /\ task.n * d \in Nat /\ task.n * d <= NoTour - 1 /\ task.n \in Nat /\ NoTour \in Nat
  <2>1. d \in Nat /\ task.n * d < NoTour /\ task.n \in Nat /\ NoTour \in Nat
    BY <1>1, <1>5, <1>6, Distance, AntAssumption
  <2> HIDE DEF d
  <2>2. task.n * d \in Nat
    BY <2>1
  <2> QED
    BY <2>1, <2>2
<1> HIDE DEF d
<1>11. AntsTyped'
  <2>1. path' \in [Ants -> Seq(Cities)]
    BY <1>3, <1>4, <1>7 DEF q
  <2>2. b_can' \in [Ants -> SUBSET Cities]
    BY <1>3, <1>4
  <2>3. t_len' \in [Ants -> Nat]
    <3> DEFINE x == t_len[ant] + d
    <3>1. t_len' = [t_len EXCEPT ![ant] = x]
      BY <1>3 DEF d
    <3>2. x \in Nat
      BY <1>5, <1>10, SMTT(30)
    <3> HIDE DEF x
    <3> QED
      BY <1>4, <3>1, <3>2
  <2> QED
    BY <1>1, <2>1, <2>2, <2>3 DEF AntsInv, AntsTyped
<1>12. Covered'
  <2>1. ASSUME NEW k \in Ants PROVE Cities \ b_can'[k] \subseteq Been(k)'
    <3>1. Cities \ b_can[k] \subseteq Been(k)
      BY <1>1 DEF AntsInv, Covered
    <3>2. CASE k = ant
      <4>1. Been(k) = {p[j] : j \in DOMAIN p} /\ Been(k)' = {q[j] : j \in DOMAIN q}
        BY <1>8, <3>2 DEF Been, p
      <4>2. \A j \in DOMAIN p : j \in DOMAIN q /\ q[j] = p[j]
        BY <1>6, <1>7
      <4>3. Len(p) + 1 \in DOMAIN q
        BY <1>6, <1>7
      <4>4. Been(k) \subseteq Been(k)' /\ t \in Been(k)'
        BY <1>7, <4>1, <4>2, <4>3
      <4> QED
        BY <1>8, <3>1, <3>2, <4>4
    <3>3. CASE k # ant
      BY <1>8, <3>1, <3>3 DEF Been
    <3> QED
      BY <3>2, <3>3
  <2> QED
    BY <1>1, <2>1 DEF Covered
<1>13. Walked'
  <2>1. ASSUME NEW k \in Ants
        PROVE  /\ path'[k] # <<>> /\ Len(path'[k]) + Cardinality(b_can'[k]) = task.n
               /\ t_len'[k] = Length(path[k])'
               /\ task.n * t_len'[k] <= (Len(path'[k]) - 1) * (NoTour - 1)
    <3>1. CASE k = ant
      <4>1. path'[k] = q /\ b_can'[k] = b_can[ant] \ {t} /\ t_len'[k] = t_len[ant] + d
        BY <1>8, <3>1
      <4>2. Cardinality(b_can[ant] \ {t}) = Cardinality(b_can[ant]) - 1
            /\ Cardinality(b_can[ant]) \in Nat
        BY <1>1, <1>3, <1>5, SomeCities, FS_RemoveElement
      <4>3. Len(q) + Cardinality(b_can[ant] \ {t}) = task.n
        BY <1>5, <1>6, <1>7, <1>10, <4>2
      <4>4. Length(path[k])' = Length(q)
        BY <1>1, <4>1 DEF Length
      <4>5. task.n * (t_len[ant] + d) <= (Len(q) - 1) * (NoTour - 1)
        <5> DEFINE N == NoTour - 1
                   l == Len(p)
                   n == task.n
                   x == t_len[ant]
        <5>1. n \in Nat /\ x \in Nat /\ d \in Nat /\ N \in Int /\ l \in Nat
              /\ n * x <= (l - 1) * N /\ n * d <= N /\ Len(q) = l + 1
          BY <1>5, <1>6, <1>7, <1>10
        <5> SUFFICES n * (x + d) <= (Len(q) - 1) * N
          OBVIOUS
        <5> HIDE DEF N, l, n, x
        <5>2. n * (x + d) = n * x + n * d /\ (l + 1 - 1) * N = (l - 1) * N + N
          BY <5>1
        <5>3. n * x \in Int /\ n * d \in Int /\ (l - 1) * N \in Int
          BY <5>1
        <5> QED
          BY <5>1, <5>2, <5>3
      <4> QED
        BY <1>5, <1>7, <1>9, <4>1, <4>3, <4>4, <4>5
    <3>2. CASE k # ant
      <4>1. path'[k] = path[k] /\ b_can'[k] = b_can[k] /\ t_len'[k] = t_len[k]
        BY <1>8, <3>2
      <4>2. Length(path[k])' = Length(path[k])
        BY <1>1, <4>1 DEF Length
      <4> QED
        BY <1>1, <4>1, <4>2 DEF AntsInv, Walked
    <3> QED
      BY <3>1, <3>2
  <2> QED
    BY <1>1, <2>1 DEF Walked
<1> QED
  BY <1>2, <1>11, <1>12, <1>13 DEF AntsInv

\* A walk that is as long as there are cities went through all of them, and is
\* shorter than NoTour.
LEMMA WholeWalk ==
  ASSUME AntsInv, antsAt \in {"walk", "score"}, NEW k \in Ants, Len(path[k]) = task.n
  PROVE  /\ path[k] \in Seq(Cities) /\ path[k] # <<>>
         /\ {path[k][j] : j \in DOMAIN path[k]} = Cities
         /\ t_len[k] \in Nat /\ t_len[k] = Length(path[k]) /\ t_len[k] < NoTour
<1>1. /\ task \in Tasks /\ path[k] \in Seq(Cities) /\ b_can[k] \in SUBSET Cities
      /\ t_len[k] \in Nat /\ path[k] # <<>>
      /\ Len(path[k]) + Cardinality(b_can[k]) = task.n
      /\ t_len[k] = Length(path[k])
      /\ task.n * t_len[k] <= (Len(path[k]) - 1) * (NoTour - 1)
      /\ Cities \ b_can[k] \subseteq Been(k)
  BY DEF AntsInv, AntsTyped, Covered, Walked
<1>2. task.n \in Nat /\ task.n > 0
  BY <1>1, EmptySeq, Distance
<1>3. IsFiniteSet(b_can[k])
  BY <1>1, SomeCities
<1>4. b_can[k] = {}
  <2>1. Cardinality(b_can[k]) = 0
    BY <1>1, <1>2, <1>3, FS_CardinalityType
  <2> QED
    BY <1>3, <2>1, FS_EmptySet
<1>5. Been(k) = Cities
  BY <1>1, <1>4 DEF Been
<1>6. t_len[k] < NoTour
  <2> DEFINE n == task.n
             l == t_len[k]
  <2>1. n \in Nat /\ n > 0 /\ l \in Nat /\ NoTour \in Nat
    BY <1>1, <1>2, AntAssumption
  <2>2. n * l <= (n - 1) * (NoTour - 1)
    BY <1>1
  <2> HIDE DEF n, l
  <2>3. SUFFICES ASSUME l >= NoTour PROVE FALSE
    BY <2>1 DEF l
  <2>4. n * l >= n * NoTour
    BY <2>1, <2>3
  <2>5. (n - 1) * (NoTour - 1) = n * NoTour - n - NoTour + 1
    BY <2>1
  <2>6. n * l \in Int /\ n * NoTour \in Int
    BY <2>1
  <2>7. n + NoTour <= 1
    BY <2>1, <2>2, <2>4, <2>5, <2>6
  <2>8. n = 1 /\ NoTour = 0
    BY <2>1, <2>7
  <2>9. 0 \in Cities /\ task.n * task.len[<<0, 0>>] < 0
    <3>1. 0 \in Cities
      BY <1>2 DEF Cities
    <3> QED
      BY <1>1, <2>8, <3>1, Distance
  <2>10. task.len[<<0, 0>>] \in Nat
    BY <1>1, <2>9, Distance
  <2> QED
    BY <1>2, <2>9, <2>10
<1> QED
  BY <1>1, <1>5, <1>6 DEF Been

\* Score: only whole walks are kept, the shorter one of two.
LEMMA ScoreKeeps == ASSUME AntsInv, Score PROVE AntsInv'
<1>1. /\ antsAt = "score" /\ antsAt' = antsAt /\ UNCHANGED <<task, start, path, b_can, t_len>>
      /\ task \in Tasks /\ ant \in Ants /\ ant' \in 0 .. task.m
      /\ Ants' = Ants /\ Cities' = Cities
  <2>1. antsAt = "score" /\ antsAt' = antsAt /\ UNCHANGED <<task, start, path, b_can, t_len>>
        /\ ant < task.m /\ ant' = ant + 1
    BY DEF Score
  <2> QED
    BY <2>1, Turns
<1>2. \A walk : Length(walk)' = Length(walk)
  BY <1>1, SameLength
<1>3. CASE Len(path[ant]) # task.n
  <2>1. UNCHANGED <<sol, best, scored>>
    BY <1>3 DEF Score
  <2> QED
    <3>1. sol' \in Nat
      BY <2>1 DEF AntsInv, AntsTyped
    <3> QED
      BY <1>1, <2>1, <3>1, KeptAlone, WalksAlone DEF AntsInv
<1>4. CASE Len(path[ant]) = task.n
  <2> DEFINE p == path[ant]
             l == t_len[ant]
  <2>1. /\ p \in Seq(Cities) /\ p # <<>> /\ Len(p) = task.n
        /\ {p[j] : j \in DOMAIN p} = Cities
        /\ l \in Nat /\ l = Length(p) /\ l < NoTour
    BY <1>1, <1>4, WholeWalk
  <2>2. /\ scored' = scored \cup {p}
        /\ IF l < sol THEN sol' = l /\ best' = p ELSE UNCHANGED <<sol, best>>
    BY <1>4 DEF Score
  <2>3. sol \in Nat /\ scored \subseteq Seq(Cities)
    BY DEF AntsInv, AntsTyped, Scored
  <2> HIDE DEF p, l
  <2>4. best' # <<>> /\ Len(best') = task.n /\ {best'[k] : k \in DOMAIN best'} = Cities
        /\ sol' = Length(best')
    <3>1. CASE l < sol
      BY <2>1, <2>2, <3>1
    <3>2. CASE ~(l < sol)
      <4>1. best # <<>> /\ best' = best /\ sol' = sol
        BY <2>1, <2>2, <2>3, <3>2 DEF AntsInv, KeepsShortest
      <4> QED
        BY <4>1 DEF AntsInv, KeepsShortest
    <3> QED
      BY <3>1, <3>2
  <2>5. \A walk \in scored' : sol' <= Length(walk)
    <3>1. sol' \in Nat /\ sol' <= sol /\ sol' <= l
      BY <2>1, <2>2, <2>3
    <3>2. \A walk \in scored : sol <= Length(walk)
      BY DEF AntsInv, KeepsShortest
    <3>3. ASSUME NEW walk \in scored PROVE sol' <= Length(walk)
      <4>1. Length(walk) \in Nat
        BY <1>1, <2>3, LengthNat
      <4> QED
        BY <2>3, <3>1, <3>2, <4>1
    <3> QED
      BY <2>1, <2>2, <3>1, <3>3
  <2>6. AntsTyped' /\ Covered' /\ Walked'
    <3>1. sol' \in Nat
      BY <2>1, <2>2, <2>3
    <3> QED
      BY <1>1, <3>1, WalksAlone
  <2>7. Scored'
    BY <1>1, <2>1, <2>2, <2>3 DEF Scored
  <2>8. KeepsShortest'
    BY <1>1, <1>2, <2>4, <2>5 DEF KeepsShortest
  <2> QED
    BY <2>6, <2>7, <2>8 DEF AntsInv
<1> QED
  BY <1>3, <1>4

\* The ends of the loops over the ants, and an ant that stays.
LEMMA LoopKeeps == ASSUME AntsInv, Stay \/ Turn \/ Round PROVE AntsInv'
<1>1. /\ antsAt \in {"walk", "score"} /\ antsAt' \in {"reuse", "walk", "score"}
      /\ UNCHANGED <<task, start, path, b_can, t_len, sol, best, scored>>
      /\ task.m \in Nat /\ sol \in Nat
  BY AntAssumption DEF AntsInv, AntsTyped, Stay, Turn, Round
<1>2. ant' \in 0 .. task.m
  BY <1>1 DEF AntsInv, AntsTyped, Stay, Turn, Round
<1> QED
  BY <1>1, <1>2, KeptAlone, WalksAlone DEF AntsInv

\* AntsInv is inductive.
LEMMA AntsInvariant == AntsSpec => []AntsInv
<1>1. InitAnts => AntsInv
  BY AntAssumption
     DEF InitAnts, AntsInv, AntsTyped, Covered, Walked, Scored, KeepsShortest, NoTask
<1>2. AntsInv /\ [AntsStep]_ants => AntsInv'
  <2> SUFFICES ASSUME AntsInv, [AntsStep]_ants PROVE AntsInv'
    OBVIOUS
  <2>1. CASE AntsInput
    BY <2>1, InputKeeps
  <2>2. CASE Reuse
    BY <2>2, ReuseKeeps
  <2>3. CASE Walk
    BY <2>3, WalkKeeps
  <2>4. CASE Stay \/ Turn \/ Round
    BY <2>4, LoopKeeps
  <2>5. CASE Score
    BY <2>5, ScoreKeeps
  <2>6. CASE UNCHANGED ants
    <3>1. /\ UNCHANGED <<task, start, path, b_can, t_len, ant, sol, best, antsAt, scored>>
          /\ Ants' = Ants /\ Cities' = Cities
      BY <2>6 DEF ants, Ants, Cities
    <3>2. AntsTyped' /\ Covered' /\ Scored'
      BY <3>1 DEF AntsInv, AntsTyped, Covered, Scored, Been
    <3>3. \A k \in Ants : Length(path[k])' = Length(path[k])
      BY <3>1 DEF Length
    <3>4. Walked'
      BY <3>1, <3>3 DEF AntsInv, Walked
    <3>5. Length(best)' = Length(best) /\ \A walk : Length(walk)' = Length(walk)
      BY <3>1 DEF Length
    <3>6. KeepsShortest'
      BY <3>1, <3>5 DEF AntsInv, KeepsShortest
    <3> QED
      BY <3>2, <3>4, <3>6 DEF AntsInv
  <2> QED
    BY <2>1, <2>2, <2>3, <2>4, <2>5, <2>6 DEF AntsStep
<1> QED
  BY <1>1, <1>2, PTL DEF AntsSpec

\* What AntTSP keeps and prints is a walk through every city with its length, and
\* no ant has made a shorter one, for any number of cities, ants and rounds and any
\* distances.
THEOREM KeepsTheShortest == AntsSpec => []KeepsShortest
<1>1. AntsInv => KeepsShortest
  BY DEF AntsInv
<1> QED
  BY <1>1, AntsInvariant, PTL
===============================================================================
