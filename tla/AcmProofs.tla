------------------------------- MODULE AcmProofs ------------------------------
(***************************************************************************)
(* Proofs about the programs of packages/ACM.  Box, for any rectangles:    *)
(* the search misses no way of putting them on the faces, and the table of *)
(* edges is that of a box.  Pyramids, for any lines: what F remembers is   *)
(* the number of walks, whatever the tables have from other lines.         *)
(***************************************************************************)
EXTENDS Box, Pyramids, FiniteSetTheorems, SequenceTheorems, WellFoundedInduction, TLAPS

\* The program by itself.
BoxSpec == InitBox /\ [][BoxStep]_box

\* The ways of putting the rectangles on the faces, as p has them at the end.
Order == {q \in [1 .. 6 -> Face] : \A m, n \in 1 .. 6 : q[m] = q[n] => m = n}

\* Side and Check for any of them.
SideOf(q, f, s, turned) == a[q[f + 1]][((s + turned[f]) % 2) + 1]

CheckOf(q, turned) ==
  \A f, g \in Face :
    LET edge == Table[f + 1][g + 1]
    IN  edge # NoEdge => SideOf(q, f, edge[1], turned) = SideOf(q, g, edge[2], turned)

FitsIn(q) == \E turned \in [Face -> 0 .. 1] : CheckOf(q, turned)

BoxTyped ==
  /\ a \in [Face -> Int \X Int]
  /\ e \in [Face -> 0 .. 1]
  /\ p \in Seq(Face) /\ Len(p) \in 0 .. 6
  /\ i \in 0 .. 6
  /\ boxAt \in {"prompt", "search", "done"}

\* The rectangles on faces are those of p, each on one face.
Placed ==
  /\ \A m, n \in 1 .. Len(p) : p[m] = p[n] => m = n
  /\ \A k \in Face : e[k] # 0 <=> \E m \in 1 .. Len(p) : p[m] = k

\* What the search has been through: what comes before p and i.
Tried(q) ==
  \E n \in 1 .. 6 :
    /\ n <= Len(p) + 1
    /\ \A m \in 1 .. n - 1 : q[m] = p[m]
    /\ q[n] < IF n <= Len(p) THEN p[n] ELSE i

\* None of it fits, and the answer is that of all ways.
Searched ==
  /\ boxAt = "search" => \A q \in Order : Tried(q) => ~FitsIn(q)
  /\ boxAt = "done" => (possible <=> \E q \in Order : FitsIn(q))

\* The inductive invariant.
BoxInv == BoxTyped /\ (boxAt = "search" => Placed) /\ Searched

-------------------------------------------------------------------------------
(* The search.                                                              *)

\* As long as a face has no rectangle.
LEMMA Shorter ==
  ASSUME NEW l \in 0 .. 6, l < 6
  PROVE  /\ l \in Nat /\ l \in 0 .. 5 /\ l + 1 \in 1 .. 6
         /\ \A m \in 1 .. l : m \in 1 .. 6 /\ m # l + 1
OBVIOUS

\* FitsIn depends on the rectangles only.
LEMMA SameRectangles ==
  ASSUME a' = a, NEW q
  PROVE  FitsIn(q)' <=> FitsIn(q)
BY DEF FitsIn, CheckOf, SideOf

\* What p has at the end is one of the ways, and Check checks it.
LEMMA OrderOfP ==
  ASSUME BoxTyped, Placed, Len(p) = 6
  PROVE  /\ p \in Order
         /\ FitsIn(p) <=> \E turned \in [Face -> 0 .. 1] : Check(turned)
<1>1. p \in [1 .. 6 -> Face]
  <2>1. p \in Seq(Face)
    BY DEF BoxTyped
  <2>2. p \in [1 .. Len(p) -> Face]
    BY <2>1
  <2> QED
    BY <2>2
<1>2. p \in Order
  BY <1>1 DEF Placed, Order
<1> QED
  BY <1>2 DEF FitsIn, CheckOf, SideOf, Check, Side

\* An order that begins with p has the next rectangle from those on no face.
LEMMA NextIsFree ==
  ASSUME BoxTyped, Placed, NEW q \in Order, Len(p) < 6,
         \A m \in 1 .. Len(p) : q[m] = p[m]
  PROVE  q[Len(p) + 1] \in Face /\ e[q[Len(p) + 1]] = 0
<1>1. Len(p) \in Nat /\ Len(p) + 1 \in 1 .. 6 /\ \A m \in 1 .. Len(p) : m \in 1 .. 6 /\ m # Len(p) + 1
  <2>1. Len(p) \in 0 .. 6
    BY DEF BoxTyped
  <2> QED
    BY <2>1, Shorter
<1>2. q[Len(p) + 1] \in Face
  BY <1>1 DEF Order
<1>3. \A m \in 1 .. Len(p) : q[m] # q[Len(p) + 1]
  BY <1>1 DEF Order
<1>4. ~(e[q[Len(p) + 1]] # 0)
  BY <1>2, <1>3 DEF Placed
<1> QED
  BY <1>2, <1>4

\* Nothing was tried yet.
LEMMA InitBoxed == InitBox => BoxInv
<1> SUFFICES ASSUME InitBox PROVE BoxInv
  OBVIOUS
<1>1. BoxTyped
  BY DEF InitBox, BoxTyped
<1>2. boxAt = "prompt"
  BY DEF InitBox
<1> QED
  BY <1>1, <1>2 DEF BoxInv, Searched

\* The search begins before the first order.
LEMMA InputStep ==
  ASSUME BoxInv, BoxInput
  PROVE  BoxInv'
<1>1. PICK input \in Rectangles : a' = [k \in Face |-> input[k + 1]]
  BY DEF BoxInput
<1>2. e' = [k \in Face |-> 0] /\ p' = <<>> /\ i' = 0 /\ boxAt' = "search"
  BY DEF BoxInput
<1>3. a' \in [Face -> Int \X Int]
  <2>1. \A k \in Face : k + 1 \in 1 .. 6
    BY DEF Face
  <2>2. \A k \in Face : input[k + 1] \in Int \X Int
    BY <2>1, BoxAssumption
  <2> QED
    BY <1>1, <2>2
<1>4. p' \in Seq(Face) /\ Len(p') = 0
  BY <1>2
<1>5. BoxTyped'
  BY <1>2, <1>3, <1>4 DEF BoxTyped
<1>6. Placed'
  BY <1>2, <1>4 DEF Placed
<1>7. \A q \in Order : ~Tried(q)'
  <2> SUFFICES ASSUME NEW q \in Order, Tried(q)' PROVE FALSE
    OBVIOUS
  <2>1. PICK n \in 1 .. 6 : n <= Len(p') + 1 /\ q[n] < IF n <= Len(p') THEN p'[n] ELSE i'
    BY DEF Tried
  <2>2. n = 1 /\ q[1] < 0
    BY <1>2, <1>4, <2>1
  <2>3. q[1] \in 0 .. 5
    BY DEF Order, Face
  <2> QED
    BY <2>2, <2>3
<1> QED
  BY <1>2, <1>5, <1>6, <1>7 DEF BoxInv, Searched

\* Place skips only rectangles that are on a face.
LEMMA PlaceStep ==
  ASSUME BoxInv, Place
  PROVE  BoxInv'
<1>1. PICK k \in Face : /\ k >= i /\ e[k] = 0 /\ \A j \in i .. k - 1 : e[j] # 0
                        /\ p' = Append(p, k) /\ e' = [e EXCEPT ![k] = 1]
  BY DEF Place
<1>2. /\ boxAt = "search" /\ boxAt' = "search" /\ Len(p) < 6 /\ i' = 0 /\ a' = a
      /\ BoxTyped /\ Placed /\ \A q \in Order : Tried(q) => ~FitsIn(q)
  BY DEF Place, BoxInv, Searched
<1> DEFINE l == Len(p)
<1>3. /\ l \in 0 .. 5 /\ p' \in Seq(Face) /\ Len(p') = l + 1
      /\ p'[l + 1] = k /\ \A m \in 1 .. l : p'[m] = p[m]
  <2>1. p \in Seq(Face) /\ l \in 0 .. 5
    <3>1. p \in Seq(Face) /\ Len(p) \in 0 .. 6
      BY <1>2 DEF BoxTyped
    <3> QED
      BY <1>2, <3>1, Shorter
  <2>2. p' \in Seq(Face) /\ Len(p') = l + 1 /\ p'[l + 1] = k /\ \A m \in 1 .. l : p'[m] = p[m]
    BY <1>1, <2>1
  <2> HIDE DEF l
  <2> QED
    BY <2>1, <2>2
<1>4. k \in 0 .. 5 /\ i \in 0 .. 6 /\ \A m \in 1 .. l : p[m] # k
  <2>1. \A m \in 1 .. l : p[m] # k
    BY <1>1, <1>2 DEF Placed
  <2> QED
    BY <1>2, <2>1 DEF BoxTyped, Face
<1>5. BoxTyped'
  <2>1. l + 1 \in 0 .. 6
    BY <1>3
  <2> HIDE DEF l
  <2>2. e' \in [Face -> 0 .. 1]
    BY <1>1, <1>2 DEF BoxTyped
  <2> QED
    BY <1>2, <1>3, <2>1, <2>2 DEF BoxTyped
<1>6. Placed'
  <2>1. \A m \in 1 .. l + 1 : m = l + 1 \/ m \in 1 .. l
    BY <1>3
  <2>2. ASSUME NEW m \in 1 .. l + 1, NEW n \in 1 .. l + 1, p'[m] = p'[n] PROVE m = n
    BY <1>2, <1>3, <1>4, <2>1, <2>2 DEF Placed
  <2>3. ASSUME NEW j \in Face PROVE e'[j] # 0 <=> \E m \in 1 .. l + 1 : p'[m] = j
    <3>1. CASE j = k
      <4>1. e'[j] = 1
        BY <1>1, <1>2, <3>1 DEF BoxTyped
      <4>2. l + 1 \in 1 .. l + 1
        BY <1>3
      <4> QED
        BY <1>3, <3>1, <4>1, <4>2
    <3>2. CASE j # k
      <4>1. e'[j] = e[j]
        BY <1>1, <1>2, <3>2 DEF BoxTyped
      <4>2. e[j] # 0 <=> \E m \in 1 .. l : p[m] = j
        BY <1>2 DEF Placed
      <4>3. \A m \in 1 .. l : m \in 1 .. l + 1
        BY <1>3
      <4> QED
        BY <1>3, <2>1, <3>2, <4>1, <4>2, <4>3
    <3> QED
      BY <3>1, <3>2
  <2> HIDE DEF l
  <2> QED
    BY <1>3, <2>2, <2>3 DEF Placed
<1>7. ASSUME NEW q \in Order, Tried(q)' PROVE ~FitsIn(q)
  <2>1. PICK n \in 1 .. 6 : /\ n <= Len(p') + 1 /\ \A m \in 1 .. n - 1 : q[m] = p'[m]
                            /\ q[n] < IF n <= Len(p') THEN p'[n] ELSE i'
    BY <1>7 DEF Tried
  <2>2. q[n] \in 0 .. 5
    BY DEF Order, Face
  <2>3. n <= l + 1 /\ q[n] < p'[n] /\ \A m \in 1 .. n - 1 : m \in 1 .. l
    BY <1>2, <1>3, <2>1, <2>2
  <2>4. \A m \in 1 .. n - 1 : q[m] = p[m]
    BY <1>3, <2>1, <2>3
  <2>5. CASE n <= l
    <3>1. n \in 1 .. l
      BY <1>3, <2>5
    <3>2. q[n] < p[n]
      BY <1>3, <2>3, <3>1
    <3>3. Tried(q)
      BY <1>3, <2>4, <2>5, <3>2 DEF Tried
    <3> QED
      BY <1>2, <3>3
  <2>6. CASE n = l + 1
    <3>1. q[l + 1] < k /\ \A m \in 1 .. l : q[m] = p[m]
      BY <1>3, <2>3, <2>4, <2>6
    <3>2. q[l + 1] \in Face /\ e[q[l + 1]] = 0
      BY <1>2, <3>1, NextIsFree
    <3>3. q[n] < i
      <4>1. q[n] \notin i .. k - 1
        BY <1>1, <2>6, <3>2
      <4> QED
        BY <1>4, <2>2, <2>6, <3>1, <4>1
    <3>4. Tried(q)
      BY <1>3, <2>4, <2>6, <3>3 DEF Tried
    <3> QED
      BY <1>2, <3>4
  <2> QED
    BY <1>3, <2>3, <2>5, <2>6
<1>8. Searched'
  BY <1>2, <1>7, SameRectangles DEF Searched
<1> QED
  BY <1>5, <1>6, <1>8 DEF BoxInv

\* The rectangles fit as p has them.
LEMMA FitsStep ==
  ASSUME BoxInv, Fits
  PROVE  BoxInv'
<1>1. /\ boxAt = "search" /\ boxAt' = "done" /\ Len(p) = 6 /\ possible' = TRUE
      /\ a' = a /\ e' = e /\ p' = p /\ i' = i
      /\ \E turned \in [Face -> 0 .. 1] : Check(turned)
  BY DEF Fits
<1>2. BoxTyped /\ Placed
  BY <1>1 DEF BoxInv
<1>3. p \in Order /\ FitsIn(p)
  BY <1>1, <1>2, OrderOfP
<1>4. FitsIn(p)'
  <2>1. \A q : FitsIn(q)' <=> FitsIn(q)
    BY <1>1, SameRectangles
  <2> QED
    BY <1>1, <1>3 DEF FitsIn, CheckOf, SideOf
<1>5. BoxTyped'
  BY <1>1, <1>2 DEF BoxTyped
<1>6. Searched'
  BY <1>1, <1>3, <1>4 DEF Searched
<1> QED
  BY <1>1, <1>5, <1>6 DEF BoxInv

\* What box has nothing more to try in: an order that begins with p was tried.
LEMMA NothingMore ==
  ASSUME BoxTyped, Placed, \A q \in Order : Tried(q) => ~FitsIn(q), Exhausted,
         NEW q \in Order, \A m \in 1 .. Len(p) : q[m] = p[m]
  PROVE  ~FitsIn(q)
<1>1. p \in Seq(Face) /\ Len(p) \in 0 .. 6 /\ i \in 0 .. 6
  BY DEF BoxTyped
<1>2. CASE Len(p) = 6
  <2>1. p \in Order /\ ~FitsIn(p)
    BY <1>2, OrderOfP DEF Exhausted
  <2>2. q = p
    BY <1>2, <2>1 DEF Order
  <2> QED
    BY <2>1, <2>2
<1>3. CASE Len(p) < 6
  <2> DEFINE l == Len(p)
  <2>1. q[l + 1] \in Face /\ e[q[l + 1]] = 0
    BY <1>3, NextIsFree
  <2>2. ~(q[l + 1] >= i)
    <3>1. \A k \in Face : k >= i => e[k] # 0
      <4>1. Len(p) # 6
        <5> DEFINE m == Len(p)
        <5> HIDE DEF m
        <5>1. m < 6 => m # 6
          OBVIOUS
        <5> QED
          BY <1>3, <5>1 DEF m
      <4> QED
        BY <4>1, Zenon DEF Exhausted
    <3> QED
      BY <2>1, <3>1
  <2>3. q[l + 1] < i
    BY <1>1, <2>1, <2>2 DEF Face
  <2>4. l + 1 \in 1 .. 6 /\ (l + 1) - 1 = l /\ ~(l + 1 <= l)
    BY <1>1, <1>3
  <2>5. Tried(q)
    BY <1>1, <2>3, <2>4 DEF Tried
  <2> QED
    BY <2>5
<1>4. Len(p) = 6 \/ Len(p) < 6
  BY <1>1
<1> QED
  BY <1>2, <1>3, <1>4

\* Return leaves behind the orders that begin with p.
LEMMA ReturnStep ==
  ASSUME BoxInv, Return
  PROVE  BoxInv'
<1>1. /\ boxAt = "search" /\ a' = a /\ Exhausted
      /\ BoxTyped /\ Placed /\ \A q \in Order : Tried(q) => ~FitsIn(q)
  BY DEF Return, BoxInv, Searched
<1>2. p \in Seq(Face) /\ Len(p) \in 0 .. 6 /\ i \in 0 .. 6
  BY <1>1 DEF BoxTyped
<1>3. CASE p = <<>>
  <2>1. boxAt' = "done" /\ possible' = FALSE /\ e' = e /\ p' = p /\ i' = i
    BY <1>3 DEF Return
  <2>2. \A q \in Order : ~FitsIn(q)
    <3> TAKE q \in Order
    <3>1. \A m \in 1 .. Len(p) : q[m] = p[m]
      BY <1>3
    <3> QED
      BY <1>1, <3>1, NothingMore
  <2>3. \A q \in Order : ~FitsIn(q)'
    BY <1>1, <2>2, SameRectangles
  <2>4. BoxTyped'
    BY <1>1, <2>1 DEF BoxTyped
  <2>5. Searched'
    BY <2>1, <2>3 DEF Searched
  <2> QED
    BY <2>1, <2>4, <2>5 DEF BoxInv
<1>4. CASE p # <<>>
  <2> DEFINE l == Len(p)
             k == p[l]
  <2>1. /\ boxAt' = boxAt /\ e' = [e EXCEPT ![k] = 0] /\ i' = k + 1
        /\ p' = SubSeq(p, 1, l - 1)
    BY <1>4 DEF Return
  <2>2. l \in 1 .. 6 /\ k \in Face
    BY <1>2, <1>4
  <2>3. p' \in Seq(Face) /\ Len(p') = l - 1 /\ \A m \in 1 .. l - 1 : p'[m] = p[m]
    <3>1. l - 1 \in 0 .. l /\ \A m \in 1 .. l - 1 : m \in 1 .. l
      BY <2>2
    <3>2. \A m \in 1 .. l : p[m] \in Face
      BY <1>2
    <3>3. SubSeq(p, 1, l - 1) = [m \in 1 .. l - 1 |-> p[m]]
      BY <1>2, <2>2, <3>1
    <3> DEFINE r == [m \in 1 .. l - 1 |-> p[m]]
    <3>4. r \in Seq(Face) /\ Len(r) = l - 1
      BY <3>1, <3>2, <2>2
    <3> QED
      BY <2>1, <3>3, <3>4
  <2>4. \A m \in 1 .. l : m = l \/ m \in 1 .. l - 1
    BY <2>2
  <2>5. \A m \in 1 .. l - 1 : m \in 1 .. l /\ m # l
    BY <2>2
  <2>6. \A m \in 1 .. l - 1 : p[m] # k
    BY <1>1, <2>2, <2>5 DEF Placed
  <2> HIDE DEF k
  <2>7. i' \in 0 .. 6 /\ l - 1 \in 0 .. 6
    <3>1. k \in 0 .. 5
      BY <2>2 DEF Face
    <3> HIDE DEF l
    <3> QED
      BY <2>1, <2>2, <3>1
  <2>8. BoxTyped'
    BY <1>1, <2>1, <2>2, <2>3, <2>7 DEF BoxTyped
  <2>9. Placed'
    <3>1. \A m, n \in 1 .. l - 1 : p'[m] = p'[n] => m = n
      BY <1>1, <2>3, <2>5 DEF Placed
    <3>2. ASSUME NEW j \in Face PROVE e'[j] # 0 <=> \E m \in 1 .. l - 1 : p'[m] = j
      <4>1. CASE j = k
        BY <1>1, <2>1, <2>3, <2>6, <4>1 DEF BoxTyped
      <4>2. CASE j # k
        <5>1. e'[j] = e[j]
          BY <1>1, <2>1, <4>2 DEF BoxTyped
        <5>2. e[j] # 0 <=> \E m \in 1 .. l : p[m] = j
          BY <1>1 DEF Placed
        <5>3. p[l] # j
          BY <4>2 DEF k
        <5> QED
          BY <2>3, <2>4, <2>5, <5>1, <5>2, <5>3
      <4> QED
        BY <4>1, <4>2
    <3> HIDE DEF l
    <3> QED
      BY <2>3, <3>1, <3>2 DEF Placed
  <2>10. ASSUME NEW q \in Order, Tried(q)' PROVE ~FitsIn(q)
    <3>1. PICK n \in 1 .. 6 : /\ n <= Len(p') + 1 /\ \A m \in 1 .. n - 1 : q[m] = p'[m]
                              /\ q[n] < IF n <= Len(p') THEN p'[n] ELSE i'
      BY <2>10 DEF Tried
    <3>2. n \in 1 .. l /\ \A m \in 1 .. n - 1 : m \in 1 .. l - 1
      BY <2>2, <2>3, <3>1
    <3>3. \A m \in 1 .. n - 1 : q[m] = p[m]
      BY <2>3, <3>1, <3>2
    <3>4. q[n] \in 0 .. 5
      BY DEF Order, Face
    <3>5. CASE q[n] < p[n]
      <4>1. Tried(q)
        BY <2>2, <3>2, <3>3, <3>5 DEF Tried
      <4> QED
        BY <1>1, <4>1
    <3>6. CASE n = l /\ q[n] = k
      <4>1. \A m \in 1 .. l : q[m] = p[m]
        BY <2>4, <3>3, <3>6 DEF k
      <4> QED
        BY <1>1, <4>1, NothingMore
    <3>7. q[n] < p[n] \/ (n = l /\ q[n] = k)
      <4>1. CASE n <= l - 1
        <5>1. n \in 1 .. l - 1
          BY <2>2, <4>1
        <5> QED
          BY <2>3, <3>1, <4>1, <5>1
      <4>2. CASE n = l
        <5>1. q[n] < k + 1
          BY <2>1, <2>2, <2>3, <3>1, <4>2
        <5>2. k \in 0 .. 5 /\ p[n] = k
          BY <2>2, <4>2 DEF k, Face
        <5> QED
          BY <3>4, <4>2, <5>1, <5>2
      <4> QED
        BY <2>2, <3>2, <4>1, <4>2
    <3> QED
      BY <3>5, <3>6, <3>7
  <2>11. Searched'
    BY <1>1, <2>1, <2>10, SameRectangles DEF Searched
  <2> QED
    BY <2>8, <2>9, <2>11 DEF BoxInv
<1> QED
  BY <1>3, <1>4

\* A step of others.
LEMMA BoxStutters ==
  ASSUME BoxInv, UNCHANGED box
  PROVE  BoxInv'
<1>1. a' = a /\ e' = e /\ p' = p /\ i' = i /\ boxAt' = boxAt /\ possible' = possible
  BY DEF box
<1>2. BoxTyped' <=> BoxTyped
  BY <1>1 DEF BoxTyped
<1>3. Placed' <=> Placed
  BY <1>1 DEF Placed
<1>4. \A q : Tried(q)' <=> Tried(q)
  BY <1>1 DEF Tried
<1>5. \A q : FitsIn(q)' <=> FitsIn(q)
  BY <1>1, SameRectangles
<1>6. Searched' <=> Searched
  BY <1>1, <1>4, <1>5 DEF Searched
<1> QED
  BY <1>1, <1>2, <1>3, <1>6 DEF BoxInv

\* The invariant holds, for any rectangles.
LEMMA BoxInvariant == BoxSpec => []BoxInv
<1>1. BoxInv /\ [BoxStep]_box => BoxInv'
  BY InputStep, PlaceStep, FitsStep, ReturnStep, BoxStutters DEF BoxStep
<1> QED
  BY InitBoxed, <1>1, PTL DEF BoxSpec

-------------------------------------------------------------------------------
(* The counts.                                                             *)

\* Which of three pairs of lengths the face m - 1 has.
Class == <<1, 2, 3, 3, 2, 1>>

Pairs(x, y, z) == <<<<x, y>>, <<y, z>>, <<x, z>>>>

Same(u, v) == u = v \/ u = <<v[2], v[1]>>

\* The pairs that are the same as pair k of pairs L, the places of some pairs,
\* and the rectangles with pair k.
Alike(L, k) == {j \in 1 .. 3 : Same(L[j], L[k])}

Of(J) == {m \in 1 .. 6 : Class[m] \in J}

With(L, k) == {f \in Face : Same(a[f], L[k])}

\* The order q gives each face a rectangle with its pair of L.
Fills(q, L) == \A m \in 1 .. 6 : Same(a[q[m]], L[Class[m]])

\* The two places of each pair.
LEMMA Classes ==
  /\ \A m \in 1 .. 6 : Class[m] \in 1 .. 3
  /\ Of({}) = {} /\ Of({1}) = {1, 6} /\ Of({2}) = {2, 5} /\ Of({3}) = {3, 4}
<1>1. \A m \in 1 .. 6 : m = 1 \/ m = 2 \/ m = 3 \/ m = 4 \/ m = 5 \/ m = 6
  OBVIOUS
<1>2. /\ Class[1] = 1 /\ Class[2] = 2 /\ Class[3] = 3
      /\ Class[4] = 3 /\ Class[5] = 2 /\ Class[6] = 1
  BY DEF Class
<1>3. \A m \in 1 .. 6 : Class[m] \in 1 .. 3
  BY <1>1, <1>2
<1> QED
  BY <1>1, <1>2, <1>3 DEF Of

\* Each pair has two places.
LEMMA TwoEach ==
  ASSUME NEW J \in SUBSET (1 .. 3)
  PROVE  IsFiniteSet(Of(J)) /\ Cardinality(Of(J)) = 2 * Cardinality(J)
<1> DEFINE T(D) == /\ IsFiniteSet(D) /\ Cardinality(D) \in Nat
                   /\ IsFiniteSet(Of(D)) /\ Cardinality(Of(D)) = 2 * Cardinality(D)
<1>1. T({})
  <2>1. IsFiniteSet({}) /\ Cardinality({}) = 0
    BY FS_EmptySet
  <2> QED
    BY <2>1, Classes
<1>2. ASSUME NEW D \in SUBSET (1 .. 3), NEW j \in 1 .. 3, j \notin D, T(D) PROVE T(D \cup {j})
  <2>1. PICK m, n \in 1 .. 6 : m # n /\ Of({j}) = {m, n}
    <3>1. j = 1 \/ j = 2 \/ j = 3
      OBVIOUS
    <3> HIDE DEF T
    <3>2. j = 1 => \E m, n \in 1 .. 6 : m # n /\ Of({j}) = {m, n}
      <4>1. 1 \in 1 .. 6 /\ 6 \in 1 .. 6 /\ 1 # 6
        OBVIOUS
      <4> QED
        BY <4>1, Classes, Zenon
    <3>3. j = 2 => \E m, n \in 1 .. 6 : m # n /\ Of({j}) = {m, n}
      <4>1. 2 \in 1 .. 6 /\ 5 \in 1 .. 6 /\ 2 # 5
        OBVIOUS
      <4> QED
        BY <4>1, Classes, Zenon
    <3>4. j = 3 => \E m, n \in 1 .. 6 : m # n /\ Of({j}) = {m, n}
      <4>1. 3 \in 1 .. 6 /\ 4 \in 1 .. 6 /\ 3 # 4
        OBVIOUS
      <4> QED
        BY <4>1, Classes, Zenon
    <3> QED
      BY <3>1, <3>2, <3>3, <3>4
  <2>2. Class[m] = j /\ Class[n] = j
    BY <2>1 DEF Of
  <2>3. m \notin Of(D) /\ n \notin Of(D)
    BY <1>2, <2>2 DEF Of
  <2>4. Of(D \cup {j}) = (Of(D) \cup {m}) \cup {n}
    <3>1. Of(D \cup {j}) = Of(D) \cup Of({j})
      BY DEF Of
    <3> QED
      BY <2>1, <3>1
  <2>5. IsFiniteSet(Of(D) \cup {m}) /\ Cardinality(Of(D) \cup {m}) = Cardinality(Of(D)) + 1
    BY <1>2, <2>3, FS_AddElement
  <2>6. /\ IsFiniteSet((Of(D) \cup {m}) \cup {n})
        /\ Cardinality((Of(D) \cup {m}) \cup {n}) = Cardinality(Of(D) \cup {m}) + 1
    <3>1. n \notin Of(D) \cup {m}
      BY <2>1, <2>3
    <3> QED
      BY <2>5, <3>1, FS_AddElement
  <2>7. IsFiniteSet(D \cup {j}) /\ Cardinality(D \cup {j}) = Cardinality(D) + 1
    BY <1>2, FS_AddElement
  <2>8. /\ IsFiniteSet(Of(D \cup {j}))
        /\ Cardinality(Of(D \cup {j})) = (Cardinality(Of(D)) + 1) + 1
    BY <2>4, <2>5, <2>6
  <2>9. /\ Cardinality(D \cup {j}) \in Nat
        /\ (Cardinality(Of(D)) + 1) + 1 = 2 * Cardinality(D \cup {j})
    BY <1>2, <2>7
  <2> QED
    BY <2>7, <2>8, <2>9
<1> HIDE DEF T
<1>3. T({1}) /\ T({2}) /\ T({3})
  <2>1. T({} \cup {1}) /\ T({} \cup {2}) /\ T({} \cup {3})
    BY <1>1, <1>2
  <2>2. {} \cup {1} = {1} /\ {} \cup {2} = {2} /\ {} \cup {3} = {3}
    OBVIOUS
  <2> QED
    BY <2>1, <2>2
<1>4. T({1, 2}) /\ T({1, 3}) /\ T({2, 3})
  <2>1. T({1} \cup {2}) /\ T({1} \cup {3}) /\ T({2} \cup {3})
    BY <1>2, <1>3
  <2>2. {1} \cup {2} = {1, 2} /\ {1} \cup {3} = {1, 3} /\ {2} \cup {3} = {2, 3}
    OBVIOUS
  <2> QED
    BY <2>1, <2>2
<1>5. T({1, 2, 3})
  <2>1. T({1, 2} \cup {3})
    BY <1>2, <1>4
  <2>2. {1, 2} \cup {3} = {1, 2, 3}
    OBVIOUS
  <2> QED
    BY <2>1, <2>2
<1>6. \/ J = {} \/ J = {1} \/ J = {2} \/ J = {3}
      \/ J = {1, 2} \/ J = {1, 3} \/ J = {2, 3} \/ J = {1, 2, 3}
  <2>1. \A j \in J : j = 1 \/ j = 2 \/ j = 3
    OBVIOUS
  <2> QED
    BY <2>1
<1>7. T(J)
  BY <1>1, <1>3, <1>4, <1>5, <1>6
<1> QED
  BY <1>7 DEF T

\* The faces, and the places of p.
LEMMA SixFaces ==
  /\ IsFiniteSet(Face) /\ Cardinality(Face) = 6
  /\ IsFiniteSet(1 .. 6) /\ Cardinality(1 .. 6) = 6
<1>1. \A l, h \in Int : /\ IsFiniteSet(l .. h)
                        /\ Cardinality(l .. h) = IF l > h THEN 0 ELSE h - l + 1
  BY FS_Interval
<1>2. IsFiniteSet(0 .. 5) /\ Cardinality(0 .. 5) = IF 0 > 5 THEN 0 ELSE 5 - 0 + 1
  <2>1. 0 \in Int /\ 5 \in Int
    OBVIOUS
  <2> QED
    BY <1>1, <2>1, Zenon
<1>3. IsFiniteSet(1 .. 6) /\ Cardinality(1 .. 6) = IF 1 > 6 THEN 0 ELSE 6 - 1 + 1
  <2>1. 1 \in Int /\ 6 \in Int
    OBVIOUS
  <2> QED
    BY <1>1, <2>1, Zenon
<1>4. (IF 0 > 5 THEN 0 ELSE 5 - 0 + 1) = 6 /\ (IF 1 > 6 THEN 0 ELSE 6 - 1 + 1) = 6
  OBVIOUS
<1> QED
  BY <1>2, <1>3, <1>4 DEF Face

\* The order of the sides of a rectangle does not matter.
LEMMA SameProperties ==
  ASSUME NEW u \in Int \X Int, NEW v \in Int \X Int, NEW w \in Int \X Int
  PROVE  /\ Same(u, u)
         /\ Same(u, v) => Same(v, u)
         /\ Same(u, v) /\ Same(v, w) => Same(u, w)
<1>1. u = <<u[1], u[2]>> /\ v = <<v[1], v[2]>> /\ w = <<w[1], w[2]>>
  OBVIOUS
<1>2. /\ Same(u, v) <=> (u[1] = v[1] /\ u[2] = v[2]) \/ (u[1] = v[2] /\ u[2] = v[1])
      /\ Same(v, u) <=> (u[1] = v[1] /\ u[2] = v[2]) \/ (u[1] = v[2] /\ u[2] = v[1])
      /\ Same(v, w) <=> (v[1] = w[1] /\ v[2] = w[2]) \/ (v[1] = w[2] /\ v[2] = w[1])
      /\ Same(u, w) <=> (u[1] = w[1] /\ u[2] = w[2]) \/ (u[1] = w[2] /\ u[2] = w[1])
  BY <1>1 DEF Same
<1>3. Same(u, u)
  BY DEF Same
<1> QED
  BY <1>2, <1>3

\* Some order fills the faces when there are as many rectangles of each pair as
\* faces.
LEMMA Counted ==
  ASSUME a \in [Face -> Int \X Int],
         NEW L, \A k \in 1 .. 3 : L[k] \in Int \X Int
  PROVE  (\E q \in Order : Fills(q, L)) <=>
           \A k \in 1 .. 3 : Cardinality(With(L, k)) = 2 * Cardinality(Alike(L, k))
<1> DEFINE M(k) == Of(Alike(L, k))
           W(k) == With(L, k)
<1>1. \A k \in 1 .. 3 : IsFiniteSet(M(k)) /\ Cardinality(M(k)) = 2 * Cardinality(Alike(L, k))
  <2>1. \A k \in 1 .. 3 : Alike(L, k) \in SUBSET (1 .. 3)
    BY DEF Alike
  <2> QED
    BY <2>1, TwoEach
<1>2. \A k \in 1 .. 3 : IsFiniteSet(W(k))
  <2>1. IsFiniteSet(Face)
    BY SixFaces
  <2>2. \A k \in 1 .. 3 : W(k) \in SUBSET Face
    BY DEF With
  <2> QED
    BY <2>1, <2>2, FS_Subset
<1>3. ASSUME NEW q \in Order, Fills(q, L), NEW k \in 1 .. 3
      PROVE  Cardinality(W(k)) = Cardinality(M(k))
  <2>1. q \in [1 .. 6 -> Face] /\ \A m, n \in 1 .. 6 : q[m] = q[n] => m = n
    BY DEF Order
  <2>2. q \in Surjection(1 .. 6, Face)
    <3>1. q \in Injection(1 .. 6, Face)
      BY <2>1 DEF Injection, IsInjective
    <3>2. IsFiniteSet(Face) /\ Cardinality(Face) = 6
      BY SixFaces
    <3>3. Cardinality(1 .. 6) = 6
      BY SixFaces
    <3> QED
      BY <3>1, <3>2, <3>3, FS_Injection
  <2>3. \A m \in 1 .. 6 : q[m] \in W(k) <=> m \in M(k)
    <3> TAKE m \in 1 .. 6
    <3>1. a[q[m]] \in Int \X Int /\ Class[m] \in 1 .. 3
      BY <2>1, Classes
    <3>2. Same(a[q[m]], L[Class[m]])
      BY <1>3 DEF Fills
    <3>3. Same(a[q[m]], L[k]) <=> Same(L[Class[m]], L[k])
      BY <3>1, <3>2, SameProperties
    <3> QED
      BY <2>1, <3>1, <3>3 DEF With, Of, Alike
  <2> DEFINE r == [m \in M(k) |-> q[m]]
  <2>4. \A m \in M(k) : m \in 1 .. 6
    BY DEF Of
  <2>5. r \in Bijection(M(k), W(k))
    <3>1. r \in [M(k) -> W(k)]
      BY <2>3, <2>4
    <3>2. \A m, n \in M(k) : r[m] = r[n] => m = n
      BY <2>1, <2>4
    <3>3. \A f \in W(k) : \E m \in M(k) : r[m] = f
      <4> TAKE f \in W(k)
      <4>1. f \in Face
        BY DEF With
      <4>2. PICK m \in 1 .. 6 : q[m] = f
        BY <2>2, <4>1 DEF Surjection
      <4>3. m \in M(k)
        BY <2>3, <4>2
      <4> QED
        BY <4>2, <4>3
    <3> HIDE DEF r, M, W
    <3> QED
      BY <3>1, <3>2, <3>3 DEF Bijection, Injection, IsInjective, Surjection
  <2> HIDE DEF r, M, W
  <2>6. ExistsBijection(M(k), W(k))
    BY <2>5 DEF ExistsBijection
  <2> QED
    BY <1>1, <2>6, FS_Bijection
<1>4. ASSUME \A k \in 1 .. 3 : Cardinality(W(k)) = Cardinality(M(k))
      PROVE  \E q \in Order : Fills(q, L)
  <2> DEFINE B(D, T) == CHOOSE b \in Bijection(D, T) : TRUE
             c(m) == Class[m]
             q == [m \in 1 .. 6 |-> B(M(c(m)), W(c(m)))[m]]
  <2>1. \A k \in 1 .. 3 : B(M(k), W(k)) \in Bijection(M(k), W(k))
    <3> TAKE k \in 1 .. 3
    <3> HIDE DEF M, W
    <3>1. Bijection(M(k), W(k)) # {}
      BY <1>1, <1>2, <1>4, FS_SameCardinalityBij DEF ExistsBijection
    <3> QED
      BY <3>1
  <2>2. \A m \in 1 .. 6 : c(m) \in 1 .. 3
    BY Classes
  <2>3. \A m \in 1 .. 6 : m \in M(c(m))
    <3> TAKE m \in 1 .. 6
    <3>1. Same(L[c(m)], L[c(m)])
      BY <2>2, SameProperties
    <3> QED
      BY <2>2, <3>1 DEF Of, Alike
  <2>4. \A m \in 1 .. 6 : q[m] \in W(c(m))
    <3> TAKE m \in 1 .. 6
    <3>1. B(M(c(m)), W(c(m))) \in [M(c(m)) -> W(c(m))]
      BY <2>1, <2>2 DEF Bijection, Surjection
    <3> HIDE DEF M, W, B, c
    <3> QED
      BY <2>3, <3>1
  <2>5. \A f : \A k \in 1 .. 3 : f \in W(k) => f \in Face /\ Same(a[f], L[k])
    BY DEF With
  <2>6. ASSUME NEW m \in 1 .. 6, NEW n \in 1 .. 6, q[m] = q[n] PROVE m = n
    <3>1. Same(L[c(m)], L[c(n)])
      <4>1. q[m] \in Face /\ Same(a[q[m]], L[c(m)]) /\ Same(a[q[m]], L[c(n)])
        BY <2>2, <2>4, <2>5, <2>6
      <4>2. a[q[m]] \in Int \X Int /\ L[c(m)] \in Int \X Int /\ L[c(n)] \in Int \X Int
        <5> HIDE DEF q, c
        <5> QED
          BY <2>2, <4>1
      <4> HIDE DEF q, c
      <4> QED
        BY <4>1, <4>2, SameProperties
    <3>2. ASSUME NEW u \in Int \X Int PROVE Same(u, L[c(m)]) <=> Same(u, L[c(n)])
      <4>1. L[c(m)] \in Int \X Int /\ L[c(n)] \in Int \X Int
        <5> HIDE DEF c
        <5> QED
          BY <2>2
      <4> HIDE DEF c
      <4> QED
        BY <3>1, <4>1, SameProperties
    <3>3. W(c(m)) = W(c(n))
      <4> HIDE DEF c
      <4> QED
        BY <3>2 DEF With
    <3>4. M(c(m)) = M(c(n))
      <4>1. Alike(L, c(m)) = Alike(L, c(n))
        <5> HIDE DEF c
        <5> QED
          BY <3>2 DEF Alike
      <4> QED
        BY <4>1
    <3> DEFINE b == B(M(c(m)), W(c(m)))
    <3>5. b \in Bijection(M(c(m)), W(c(m)))
      <4> HIDE DEF B, M, W, c
      <4> QED
        BY <2>1, <2>2
    <3>6. q[m] = b[m] /\ q[n] = b[n]
      <4> HIDE DEF B, M, W, c
      <4> QED
        BY <3>3, <3>4
    <3>7. m \in M(c(m)) /\ n \in M(c(m))
      <4> HIDE DEF B, M, W, c
      <4> QED
        BY <2>3, <3>4
    <3> HIDE DEF b, B, M, W, c, q
    <3> QED
      BY <2>6, <3>5, <3>6, <3>7 DEF Bijection, Injection, IsInjective
  <2>7. q \in [1 .. 6 -> Face]
    <3>1. \A m \in 1 .. 6 : q[m] \in Face
      <4> HIDE DEF q, W
      <4> QED
        BY <2>2, <2>4, <2>5
    <3> HIDE DEF B, M, W, c
    <3> QED
      BY <3>1
  <2>8. q \in Order
    <3> HIDE DEF q
    <3> QED
      BY <2>6, <2>7 DEF Order
  <2>9. Fills(q, L)
    <3> HIDE DEF q, W
    <3> QED
      BY <2>2, <2>4, <2>5 DEF Fills
  <2> HIDE DEF q
  <2> QED
    BY <2>8, <2>9
<1> QED
  BY <1>1, <1>3, <1>4

-------------------------------------------------------------------------------
(* The table.                                                              *)

\* The edge that two faces share, in the table.
Edge(f, g) == Table[f + 1][g + 1]

Agree(q, turned, f, g) ==
  Edge(f, g) # NoEdge =>
    SideOf(q, f, Edge(f, g)[1], turned) = SideOf(q, g, Edge(f, g)[2], turned)

\* The faces by name.
LEMMA OfFaces ==
  /\ 0 \in Face /\ 1 \in Face /\ 2 \in Face /\ 3 \in Face /\ 4 \in Face /\ 5 \in Face
  /\ \A k \in Face : k = 0 \/ k = 1 \/ k = 2 \/ k = 3 \/ k = 4 \/ k = 5
BY DEF Face

\* The table, row by row: the edges of face 0.
LEMMA Row0 ==
  ASSUME NEW q, NEW turned
  PROVE  (\A g \in Face : Agree(q, turned, 0, g)) <=>
           /\ SideOf(q, 0, 1, turned) = SideOf(q, 1, 0, turned)
           /\ SideOf(q, 0, 0, turned) = SideOf(q, 2, 0, turned)
           /\ SideOf(q, 0, 0, turned) = SideOf(q, 3, 0, turned)
           /\ SideOf(q, 0, 1, turned) = SideOf(q, 4, 1, turned)
<1>1. Edge(0, 0) = NoEdge /\ Edge(0, 5) = NoEdge
  BY DEF Edge, Table
<1>2. /\ Edge(0, 1) = <<1, 0>> /\ Edge(0, 2) = <<0, 0>>
      /\ Edge(0, 3) = <<0, 0>> /\ Edge(0, 4) = <<1, 1>>
  BY DEF Edge, Table
<1>3. <<0, 0>> # NoEdge /\ <<0, 1>> # NoEdge /\ <<1, 0>> # NoEdge /\ <<1, 1>> # NoEdge
  BY DEF NoEdge
<1> QED
  BY <1>1, <1>2, <1>3, OfFaces DEF Agree

\* The edges of face 1.
LEMMA Row1 ==
  ASSUME NEW q, NEW turned
  PROVE  (\A g \in Face : Agree(q, turned, 1, g)) <=>
           /\ SideOf(q, 1, 0, turned) = SideOf(q, 0, 1, turned)
           /\ SideOf(q, 1, 1, turned) = SideOf(q, 2, 1, turned)
           /\ SideOf(q, 1, 1, turned) = SideOf(q, 3, 1, turned)
           /\ SideOf(q, 1, 0, turned) = SideOf(q, 5, 0, turned)
<1>1. Edge(1, 1) = NoEdge /\ Edge(1, 4) = NoEdge
  BY DEF Edge, Table
<1>2. /\ Edge(1, 0) = <<0, 1>> /\ Edge(1, 2) = <<1, 1>>
      /\ Edge(1, 3) = <<1, 1>> /\ Edge(1, 5) = <<0, 0>>
  BY DEF Edge, Table
<1>3. <<0, 0>> # NoEdge /\ <<0, 1>> # NoEdge /\ <<1, 0>> # NoEdge /\ <<1, 1>> # NoEdge
  BY DEF NoEdge
<1> QED
  BY <1>1, <1>2, <1>3, OfFaces DEF Agree

\* The edges of face 2.
LEMMA Row2 ==
  ASSUME NEW q, NEW turned
  PROVE  (\A g \in Face : Agree(q, turned, 2, g)) <=>
           /\ SideOf(q, 2, 0, turned) = SideOf(q, 0, 0, turned)
           /\ SideOf(q, 2, 1, turned) = SideOf(q, 1, 1, turned)
           /\ SideOf(q, 2, 1, turned) = SideOf(q, 4, 0, turned)
           /\ SideOf(q, 2, 0, turned) = SideOf(q, 5, 1, turned)
<1>1. Edge(2, 2) = NoEdge /\ Edge(2, 3) = NoEdge
  BY DEF Edge, Table
<1>2. /\ Edge(2, 0) = <<0, 0>> /\ Edge(2, 1) = <<1, 1>>
      /\ Edge(2, 4) = <<1, 0>> /\ Edge(2, 5) = <<0, 1>>
  BY DEF Edge, Table
<1>3. <<0, 0>> # NoEdge /\ <<0, 1>> # NoEdge /\ <<1, 0>> # NoEdge /\ <<1, 1>> # NoEdge
  BY DEF NoEdge
<1> QED
  BY <1>1, <1>2, <1>3, OfFaces DEF Agree

\* The edges of face 3.
LEMMA Row3 ==
  ASSUME NEW q, NEW turned
  PROVE  (\A g \in Face : Agree(q, turned, 3, g)) <=>
           /\ SideOf(q, 3, 0, turned) = SideOf(q, 0, 0, turned)
           /\ SideOf(q, 3, 1, turned) = SideOf(q, 1, 1, turned)
           /\ SideOf(q, 3, 1, turned) = SideOf(q, 4, 0, turned)
           /\ SideOf(q, 3, 0, turned) = SideOf(q, 5, 1, turned)
<1>1. Edge(3, 2) = NoEdge /\ Edge(3, 3) = NoEdge
  BY DEF Edge, Table
<1>2. /\ Edge(3, 0) = <<0, 0>> /\ Edge(3, 1) = <<1, 1>>
      /\ Edge(3, 4) = <<1, 0>> /\ Edge(3, 5) = <<0, 1>>
  BY DEF Edge, Table
<1>3. <<0, 0>> # NoEdge /\ <<0, 1>> # NoEdge /\ <<1, 0>> # NoEdge /\ <<1, 1>> # NoEdge
  BY DEF NoEdge
<1> QED
  BY <1>1, <1>2, <1>3, OfFaces DEF Agree

\* The edges of face 4.
LEMMA Row4 ==
  ASSUME NEW q, NEW turned
  PROVE  (\A g \in Face : Agree(q, turned, 4, g)) <=>
           /\ SideOf(q, 4, 1, turned) = SideOf(q, 0, 1, turned)
           /\ SideOf(q, 4, 0, turned) = SideOf(q, 2, 1, turned)
           /\ SideOf(q, 4, 0, turned) = SideOf(q, 3, 1, turned)
           /\ SideOf(q, 4, 1, turned) = SideOf(q, 5, 0, turned)
<1>1. Edge(4, 1) = NoEdge /\ Edge(4, 4) = NoEdge
  BY DEF Edge, Table
<1>2. /\ Edge(4, 0) = <<1, 1>> /\ Edge(4, 2) = <<0, 1>>
      /\ Edge(4, 3) = <<0, 1>> /\ Edge(4, 5) = <<1, 0>>
  BY DEF Edge, Table
<1>3. <<0, 0>> # NoEdge /\ <<0, 1>> # NoEdge /\ <<1, 0>> # NoEdge /\ <<1, 1>> # NoEdge
  BY DEF NoEdge
<1> QED
  BY <1>1, <1>2, <1>3, OfFaces DEF Agree

\* The edges of face 5.
LEMMA Row5 ==
  ASSUME NEW q, NEW turned
  PROVE  (\A g \in Face : Agree(q, turned, 5, g)) <=>
           /\ SideOf(q, 5, 0, turned) = SideOf(q, 1, 0, turned)
           /\ SideOf(q, 5, 1, turned) = SideOf(q, 2, 0, turned)
           /\ SideOf(q, 5, 1, turned) = SideOf(q, 3, 0, turned)
           /\ SideOf(q, 5, 0, turned) = SideOf(q, 4, 1, turned)
<1>1. Edge(5, 0) = NoEdge /\ Edge(5, 5) = NoEdge
  BY DEF Edge, Table
<1>2. /\ Edge(5, 1) = <<0, 0>> /\ Edge(5, 2) = <<1, 0>>
      /\ Edge(5, 3) = <<1, 0>> /\ Edge(5, 4) = <<0, 1>>
  BY DEF Edge, Table
<1>3. <<0, 0>> # NoEdge /\ <<0, 1>> # NoEdge /\ <<1, 0>> # NoEdge /\ <<1, 1>> # NoEdge
  BY DEF NoEdge
<1> QED
  BY <1>1, <1>2, <1>3, OfFaces DEF Agree

\* All of it: an edge is an edge of two faces.
Edges(q, turned) ==
  LET D(f, s) == SideOf(q, f, s, turned)
  IN  /\ D(0, 0) = D(2, 0) /\ D(0, 0) = D(3, 0) /\ D(0, 1) = D(1, 0) /\ D(0, 1) = D(4, 1)
      /\ D(1, 1) = D(2, 1) /\ D(1, 1) = D(3, 1) /\ D(1, 0) = D(5, 0)
      /\ D(2, 0) = D(5, 1) /\ D(2, 1) = D(4, 0) /\ D(3, 0) = D(5, 1) /\ D(3, 1) = D(4, 0)
      /\ D(4, 1) = D(5, 0)

LEMMA TableOfEdges ==
  ASSUME NEW q, NEW turned
  PROVE  CheckOf(q, turned) <=> Edges(q, turned)
<1>1. CheckOf(q, turned) <=> \A f \in Face : \A g \in Face : Agree(q, turned, f, g)
  BY DEF CheckOf, Agree, Edge
<1>2. (\A f \in Face : \A g \in Face : Agree(q, turned, f, g)) <=>
        /\ \A g \in Face : Agree(q, turned, 0, g)
        /\ \A g \in Face : Agree(q, turned, 1, g)
        /\ \A g \in Face : Agree(q, turned, 2, g)
        /\ \A g \in Face : Agree(q, turned, 3, g)
        /\ \A g \in Face : Agree(q, turned, 4, g)
        /\ \A g \in Face : Agree(q, turned, 5, g)
  BY OfFaces
<1> QED
  BY <1>1, <1>2, Row0, Row1, Row2, Row3, Row4, Row5 DEF Edges

\* Turning a rectangle swaps its sides.
LEMMA Turn ==
  ASSUME a \in [Face -> Int \X Int], NEW q \in Order,
         NEW turned \in [Face -> 0 .. 1], NEW f \in Face
  PROVE  /\ a[q[f + 1]] \in Int \X Int /\ q[f + 1] \in Face
         /\ turned[f] = 0 => /\ SideOf(q, f, 0, turned) = a[q[f + 1]][1]
                             /\ SideOf(q, f, 1, turned) = a[q[f + 1]][2]
         /\ turned[f] = 1 => /\ SideOf(q, f, 0, turned) = a[q[f + 1]][2]
                             /\ SideOf(q, f, 1, turned) = a[q[f + 1]][1]
<1>1. f + 1 \in 1 .. 6
  BY DEF Face
<1>2. q[f + 1] \in Face
  BY <1>1 DEF Order
<1>3. /\ ((0 + 0) % 2) + 1 = 1 /\ ((1 + 0) % 2) + 1 = 2
      /\ ((0 + 1) % 2) + 1 = 2 /\ ((1 + 1) % 2) + 1 = 1
  OBVIOUS
<1> QED
  BY <1>2, <1>3 DEF SideOf

Lengths == {a[k][1] : k \in Face} \cup {a[k][2] : k \in Face}

\* The rectangles fit when they are two of x by y, two of y by z, two of x by z.
LEMMA FitsWhenFilled ==
  ASSUME a \in [Face -> Int \X Int], NEW q \in Order
  PROVE  FitsIn(q) <=> \E x, y, z \in Lengths : Fills(q, Pairs(x, y, z))
<1>1. ASSUME NEW turned \in [Face -> 0 .. 1], CheckOf(q, turned)
      PROVE  \E x, y, z \in Lengths : Fills(q, Pairs(x, y, z))
  <2> DEFINE D(f, s) == SideOf(q, f, s, turned)
             x == D(0, 0)
             y == D(0, 1)
             z == D(1, 1)
             L == Pairs(x, y, z)
  <2>1. \A f \in Face : /\ D(f, 0) \in Lengths /\ D(f, 1) \in Lengths
                        /\ \/ a[q[f + 1]] = <<D(f, 0), D(f, 1)>>
                           \/ a[q[f + 1]] = <<D(f, 1), D(f, 0)>>
    <3> TAKE f \in Face
    <3>1. turned[f] = 0 \/ turned[f] = 1
      OBVIOUS
    <3>2. a[q[f + 1]] = <<a[q[f + 1]][1], a[q[f + 1]][2]>>
      BY Turn
    <3> QED
      BY <3>1, <3>2, Turn DEF Lengths
  <2>2. Edges(q, turned)
    BY <1>1, TableOfEdges
  <2>3. \A f \in Face : Same(a[q[f + 1]], L[Class[f + 1]])
    <3> TAKE f \in Face
    <3>1. L[1] = <<x, y>> /\ L[2] = <<y, z>> /\ L[3] = <<x, z>>
      BY DEF Pairs
    <3> HIDE DEF L
    <3>2. /\ Class[0 + 1] = 1 /\ Class[1 + 1] = 2 /\ Class[2 + 1] = 3
          /\ Class[3 + 1] = 3 /\ Class[4 + 1] = 2 /\ Class[5 + 1] = 1
      BY DEF Class
    <3>3. /\ D(0, 0) = x /\ D(0, 1) = y /\ D(1, 0) = y /\ D(1, 1) = z
          /\ D(2, 0) = x /\ D(2, 1) = z /\ D(3, 0) = x /\ D(3, 1) = z
          /\ D(4, 0) = z /\ D(4, 1) = y /\ D(5, 0) = y /\ D(5, 1) = x
      BY <2>2 DEF Edges
    <3>4. \A u, v : <<u, v>>[1] = u /\ <<u, v>>[2] = v
      OBVIOUS
    <3> HIDE DEF D, x, y, z
    <3>5. CASE f = 0
      <4>1. a[q[0 + 1]] = <<x, y>> \/ a[q[0 + 1]] = <<y, x>>
        BY <2>1, <3>3, OfFaces
      <4>2. L[Class[0 + 1]] = <<x, y>>
        BY <3>1, <3>2
      <4> QED
        BY <3>4, <3>5, <4>1, <4>2 DEF Same
    <3>6. CASE f = 1
      <4>1. a[q[1 + 1]] = <<y, z>> \/ a[q[1 + 1]] = <<z, y>>
        BY <2>1, <3>3, OfFaces
      <4>2. L[Class[1 + 1]] = <<y, z>>
        BY <3>1, <3>2
      <4> QED
        BY <3>4, <3>6, <4>1, <4>2 DEF Same
    <3>7. CASE f = 2
      <4>1. a[q[2 + 1]] = <<x, z>> \/ a[q[2 + 1]] = <<z, x>>
        BY <2>1, <3>3, OfFaces
      <4>2. L[Class[2 + 1]] = <<x, z>>
        BY <3>1, <3>2
      <4> QED
        BY <3>4, <3>7, <4>1, <4>2 DEF Same
    <3>8. CASE f = 3
      <4>1. a[q[3 + 1]] = <<x, z>> \/ a[q[3 + 1]] = <<z, x>>
        BY <2>1, <3>3, OfFaces
      <4>2. L[Class[3 + 1]] = <<x, z>>
        BY <3>1, <3>2
      <4> QED
        BY <3>4, <3>8, <4>1, <4>2 DEF Same
    <3>9. CASE f = 4
      <4>1. a[q[4 + 1]] = <<z, y>> \/ a[q[4 + 1]] = <<y, z>>
        BY <2>1, <3>3, OfFaces
      <4>2. L[Class[4 + 1]] = <<y, z>>
        BY <3>1, <3>2
      <4> QED
        BY <3>4, <3>9, <4>1, <4>2 DEF Same
    <3>10. CASE f = 5
      <4>1. a[q[5 + 1]] = <<y, x>> \/ a[q[5 + 1]] = <<x, y>>
        BY <2>1, <3>3, OfFaces
      <4>2. L[Class[5 + 1]] = <<x, y>>
        BY <3>1, <3>2
      <4> QED
        BY <3>4, <3>10, <4>1, <4>2 DEF Same
    <3> QED
      BY <3>5, <3>6, <3>7, <3>8, <3>9, <3>10, OfFaces
  <2>4. Fills(q, L)
    <3> HIDE DEF L
    <3>1. \A m \in 1 .. 6 : m - 1 \in Face /\ (m - 1) + 1 = m
      BY DEF Face
    <3> QED
      BY <2>3, <3>1 DEF Fills
  <2>5. x \in Lengths /\ y \in Lengths /\ z \in Lengths
    BY <2>1, OfFaces
  <2> QED
    BY <2>4, <2>5
<1>2. ASSUME NEW x, NEW y, NEW z, Fills(q, Pairs(x, y, z))
      PROVE  \E turned \in [Face -> 0 .. 1] : CheckOf(q, turned)
  <2> DEFINE want == <<<<x, y>>, <<y, z>>, <<x, z>>, <<x, z>>, <<z, y>>, <<y, x>>>>
             turned == [f \in Face |-> IF a[q[f + 1]] = want[f + 1] THEN 0 ELSE 1]
             D(f, s) == SideOf(q, f, s, turned)
  <2>1. /\ want[0 + 1] = <<x, y>> /\ want[1 + 1] = <<y, z>> /\ want[2 + 1] = <<x, z>>
        /\ want[3 + 1] = <<x, z>> /\ want[4 + 1] = <<z, y>> /\ want[5 + 1] = <<y, x>>
    OBVIOUS
  <2> HIDE DEF want
  <2>2. \A f \in Face : Same(a[q[f + 1]], want[f + 1])
    <3> TAKE f \in Face
    <3> DEFINE L == Pairs(x, y, z)
    <3>1. Same(a[q[f + 1]], L[Class[f + 1]])
      <4>1. f + 1 \in 1 .. 6
        BY DEF Face
      <4> QED
        BY <1>2, <4>1 DEF Fills
    <3>2. L[1] = <<x, y>> /\ L[2] = <<y, z>> /\ L[3] = <<x, z>>
      BY DEF Pairs
    <3> HIDE DEF L
    <3>3. /\ Class[0 + 1] = 1 /\ Class[1 + 1] = 2 /\ Class[2 + 1] = 3
          /\ Class[3 + 1] = 3 /\ Class[4 + 1] = 2 /\ Class[5 + 1] = 1
      BY DEF Class
    <3>4. \A u, v : <<u, v>>[1] = u /\ <<u, v>>[2] = v
      OBVIOUS
    <3>5. CASE f = 0
      BY <2>1, <3>1, <3>2, <3>3, <3>4, <3>5 DEF Same
    <3>6. CASE f = 1
      BY <2>1, <3>1, <3>2, <3>3, <3>4, <3>6 DEF Same
    <3>7. CASE f = 2
      BY <2>1, <3>1, <3>2, <3>3, <3>4, <3>7 DEF Same
    <3>8. CASE f = 3
      BY <2>1, <3>1, <3>2, <3>3, <3>4, <3>8 DEF Same
    <3>9. CASE f = 4
      BY <2>1, <3>1, <3>2, <3>3, <3>4, <3>9 DEF Same
    <3>10. CASE f = 5
      BY <2>1, <3>1, <3>2, <3>3, <3>4, <3>10 DEF Same
    <3> QED
      BY <3>5, <3>6, <3>7, <3>8, <3>9, <3>10, OfFaces
  <2>3. turned \in [Face -> 0 .. 1]
    OBVIOUS
  <2>4. \A f \in Face : D(f, 0) = want[f + 1][1] /\ D(f, 1) = want[f + 1][2]
    <3> TAKE f \in Face
    <3>1. turned[f] = IF a[q[f + 1]] = want[f + 1] THEN 0 ELSE 1
      OBVIOUS
    <3>2. a[q[f + 1]] = want[f + 1] \/ a[q[f + 1]] = <<want[f + 1][2], want[f + 1][1]>>
      BY <2>2 DEF Same
    <3>3. \A u, v : <<u, v>>[1] = u /\ <<u, v>>[2] = v
      OBVIOUS
    <3> HIDE DEF turned
    <3>4. CASE a[q[f + 1]] = want[f + 1]
      BY <2>3, <3>1, <3>4, Turn
    <3>5. CASE a[q[f + 1]] # want[f + 1]
      BY <2>3, <3>1, <3>2, <3>3, <3>5, Turn
    <3> QED
      BY <3>4, <3>5
  <2>5. /\ D(0, 0) = x /\ D(0, 1) = y /\ D(1, 0) = y /\ D(1, 1) = z
        /\ D(2, 0) = x /\ D(2, 1) = z /\ D(3, 0) = x /\ D(3, 1) = z
        /\ D(4, 0) = z /\ D(4, 1) = y /\ D(5, 0) = y /\ D(5, 1) = x
    <3>1. \A u, v : <<u, v>>[1] = u /\ <<u, v>>[2] = v
      OBVIOUS
    <3> HIDE DEF D, turned
    <3> QED
      BY <2>1, <2>4, <3>1, OfFaces
  <2> HIDE DEF turned
  <2>6. Edges(q, turned)
    BY <2>5 DEF Edges
  <2> QED
    BY <2>3, <2>6, TableOfEdges
<1> QED
  BY <1>1, <1>2 DEF FitsIn

\* IsBox counts the rectangles with each of the three pairs.
LEMMA BoxCounts ==
  ASSUME NEW x, NEW y, NEW z
  PROVE  IsBox(x, y, z) <=>
           \A k \in 1 .. 3 :
             Cardinality(With(Pairs(x, y, z), k)) = 2 * Cardinality(Alike(Pairs(x, y, z), k))
<1> DEFINE L == Pairs(x, y, z)
           same(u, v) == u = v \/ u = <<v[2], v[1]>>
<1>1. \A k \in 1 .. 3 : Faces(L[k][1], L[k][2]) = Cardinality(With(L, k))
  <2> TAKE k \in 1 .. 3
  <2>1. L[k] = <<L[k][1], L[k][2]>>
    <3>1. L[1] = <<x, y>> /\ L[2] = <<y, z>> /\ L[3] = <<x, z>>
      BY DEF Pairs
    <3>2. \A u, v : <<u, v>>[1] = u /\ <<u, v>>[2] = v
      OBVIOUS
    <3> HIDE DEF L
    <3>3. k = 1 \/ k = 2 \/ k = 3
      OBVIOUS
    <3> QED
      BY <3>1, <3>2, <3>3
  <2> HIDE DEF L
  <2> QED
    BY <2>1 DEF Faces, With, Same
<1>2. \A k \in 1 .. 3 : {j \in 1 .. 3 : same(L[j], L[k])} = Alike(L, k)
  BY DEF Alike, Same
<1>3. IsBox(x, y, z) <=>
        \A k \in 1 .. 3 : Faces(L[k][1], L[k][2]) =
                            2 * Cardinality({j \in 1 .. 3 : same(L[j], L[k])})
  BY DEF IsBox, Pairs
<1> HIDE DEF L, same
<1> QED
  BY <1>1, <1>2, <1>3 DEF L

\* The program says that six rectangles are the faces of a box exactly when they
\* are, for any rectangles and whatever their order and the order of their sides.
THEOREM DecidesBoxes == BoxSpec => []BoxDecides
<1>1. BoxInv => BoxDecides
  <2> SUFFICES ASSUME BoxInv, boxAt = "done"
               PROVE  possible <=> \E x, y, z \in Lengths : IsBox(x, y, z)
    BY DEF BoxDecides, Lengths
  <2>1. a \in [Face -> Int \X Int]
    BY DEF BoxInv, BoxTyped
  <2>2. possible <=> \E q \in Order : FitsIn(q)
    BY DEF BoxInv, Searched
  <2>3. \A q \in Order : FitsIn(q) <=> \E x, y, z \in Lengths : Fills(q, Pairs(x, y, z))
    BY <2>1, FitsWhenFilled
  <2>4. \A x, y, z \in Lengths :
          (\E q \in Order : Fills(q, Pairs(x, y, z))) <=> IsBox(x, y, z)
    <3> TAKE x, y, z \in Lengths
    <3> DEFINE L == Pairs(x, y, z)
    <3>1. x \in Int /\ y \in Int /\ z \in Int
      <4>1. \A k \in Face : a[k][1] \in Int /\ a[k][2] \in Int
        BY <2>1
      <4> QED
        BY <4>1 DEF Lengths
    <3>2. \A k \in 1 .. 3 : L[k] \in Int \X Int
      <4>1. L[1] = <<x, y>> /\ L[2] = <<y, z>> /\ L[3] = <<x, z>>
        BY DEF Pairs
      <4> HIDE DEF L
      <4>2. \A k \in 1 .. 3 : k = 1 \/ k = 2 \/ k = 3
        OBVIOUS
      <4> QED
        BY <3>1, <4>1, <4>2
    <3> HIDE DEF L
    <3>3. (\E q \in Order : Fills(q, L)) <=>
            \A k \in 1 .. 3 : Cardinality(With(L, k)) = 2 * Cardinality(Alike(L, k))
      BY <2>1, <3>2, Counted
    <3> QED
      BY <3>3, BoxCounts DEF L
  <2> QED
    BY <2>2, <2>3, <2>4
<1> QED
  BY BoxInvariant, <1>1, PTL

-------------------------------------------------------------------------------
(* Pyramids.                                                                *)

-------------------------------------------------------------------------------
(* The walks.                                                               *)

\* A set of numbers that is not empty has a least one.
LEMMA Least ==
  ASSUME NEW T \in SUBSET Nat, T # {}
  PROVE  \E x \in T : \A y \in T : x <= y
<1> DEFINE Q == OpToRel(<, Nat)
<1>1. IsWellFoundedOn(Q, Nat)
  BY NatLessThanWellFounded
<1>2. \A x, y \in T : <<y, x>> \in Q <=> y < x
  BY DEF OpToRel
<1> HIDE DEF Q
<1>3. PICK x \in T : \A y \in T : ~(<<y, x>> \in Q)
  BY <1>1, WFMin
<1>4. \A y \in T : ~(y < x)
  BY <1>2, <1>3, Zenon
<1> QED
  BY <1>4

\* A walk whose depths are given as any numbers.
Steps(d, l, r) == \A k \in l + 1 .. r : d[k] = d[k - 1] + 1 \/ d[k] = d[k - 1] - 1

Labels(s, d, l, r) ==
  \A j, k \in l .. r : j < k /\ SamePlace(d, j, k) => s[j + 1] = s[k + 1]

IsWalk(s, l, r, d) ==
  /\ d \in [l .. r -> Nat]
  /\ l <= r /\ d[l] = 0 /\ d[r] = 0
  /\ Steps(d, l, r)
  /\ Labels(s, d, l, r)

\* One cannot be further down than one has gone, ...
LEMMA DownBound ==
  ASSUME NEW l \in Int, NEW r \in Int, NEW d \in [l .. r -> Nat], d[l] = 0, Steps(d, l, r),
         NEW k \in l .. r
  PROVE  d[k] <= k - l
<1> DEFINE T == {j \in Nat : l + j <= r /\ d[l + j] > j}
<1>1. ASSUME T # {} PROVE FALSE
  <2>1. PICK j \in T : \A m \in T : j <= m
    <3>1. T \in SUBSET Nat
      OBVIOUS
    <3> HIDE DEF T
    <3> QED
      BY <1>1, <3>1, Least
  <2>2. j \in Nat /\ l + j <= r /\ d[l + j] > j
    OBVIOUS
  <2>3. j # 0
    BY <2>2
  <2>4. j - 1 \in Nat /\ l + (j - 1) <= r /\ l + j \in l + 1 .. r /\ (l + j) - 1 = l + (j - 1)
    BY <2>2, <2>3
  <2>5. d[l + j] = d[(l + j) - 1] + 1 \/ d[l + j] = d[(l + j) - 1] - 1
    BY <2>4 DEF Steps
  <2>6. d[l + (j - 1)] \in Nat /\ d[l + j] \in Nat
    BY <2>4
  <2>7. d[l + (j - 1)] > j - 1
    BY <2>2, <2>4, <2>5, <2>6
  <2>8. j - 1 \in T
    BY <2>4, <2>7
  <2>9. j <= j - 1
    BY <2>1, <2>8
  <2> QED
    BY <2>2, <2>9
<1>2. k - l \in Nat /\ l + (k - l) = k /\ k <= r /\ d[k] \in Nat
  OBVIOUS
<1>3. ~(d[k] > k - l)
  BY <1>1, <1>2
<1> QED
  BY <1>2, <1>3

\* ... and than one still has to come up.
LEMMA UpBound ==
  ASSUME NEW l \in Int, NEW r \in Int, NEW d \in [l .. r -> Nat], d[r] = 0, Steps(d, l, r),
         NEW k \in l .. r
  PROVE  d[k] <= r - k
<1> DEFINE T == {j \in Nat : r - j >= l /\ d[r - j] > j}
<1>1. ASSUME T # {} PROVE FALSE
  <2>1. PICK j \in T : \A m \in T : j <= m
    <3>1. T \in SUBSET Nat
      OBVIOUS
    <3> HIDE DEF T
    <3> QED
      BY <1>1, <3>1, Least
  <2>2. j \in Nat /\ r - j >= l /\ d[r - j] > j
    OBVIOUS
  <2>3. j # 0
    BY <2>2
  <2>4. /\ j - 1 \in Nat /\ r - (j - 1) >= l
        /\ r - (j - 1) \in l + 1 .. r /\ (r - (j - 1)) - 1 = r - j
    BY <2>2, <2>3
  <2>5. d[r - (j - 1)] = d[(r - (j - 1)) - 1] + 1 \/ d[r - (j - 1)] = d[(r - (j - 1)) - 1] - 1
    BY <2>4 DEF Steps
  <2>6. d[r - (j - 1)] \in Nat /\ d[r - j] \in Nat
    BY <2>2, <2>4
  <2>7. d[r - (j - 1)] > j - 1
    BY <2>2, <2>4, <2>5, <2>6
  <2>8. j - 1 \in T
    BY <2>4, <2>7
  <2>9. j <= j - 1
    BY <2>1, <2>8
  <2> QED
    BY <2>2, <2>9
<1>2. r - k \in Nat /\ r - (r - k) = k /\ k >= l /\ d[k] \in Nat
  OBVIOUS
<1>3. ~(d[k] > r - k)
  BY <1>1, <1>2
<1> QED
  BY <1>2, <1>3

\* Half a number.
LEMMA Half ==
  ASSUME NEW n \in Nat, NEW x \in Nat
  PROVE  x \in 0 .. n \div 2 <=> 2 * x <= n
OBVIOUS

\* So the bound of Walks leaves out no walk.
LEMMA WalksAreAll ==
  ASSUME NEW s, NEW l \in Int, NEW r \in Int, NEW d
  PROVE  d \in Walks(s, l, r) <=> IsWalk(s, l, r, d)
<1>1. ASSUME d \in Walks(s, l, r) PROVE IsWalk(s, l, r, d)
  <2>1. d \in [l .. r -> 0 .. (r - l) \div 2] /\ l <= r
    BY <1>1 DEF Walks
  <2>2. d \in [l .. r -> Nat]
    <3>1. 0 .. (r - l) \div 2 \subseteq Nat
      OBVIOUS
    <3> QED
      BY <2>1, <3>1
  <2> QED
    BY <1>1, <2>2 DEF Walks, IsWalk, Steps, Labels
<1>2. ASSUME IsWalk(s, l, r, d) PROVE d \in Walks(s, l, r)
  <2>1. d \in [l .. r -> Nat] /\ l <= r /\ r - l \in Nat
    BY <1>2 DEF IsWalk
  <2>2. \A k \in l .. r : d[k] \in 0 .. (r - l) \div 2
    <3> TAKE k \in l .. r
    <3>1. d[k] <= k - l
      BY <1>2, <2>1, DownBound DEF IsWalk
    <3>2. d[k] <= r - k
      BY <1>2, <2>1, UpBound DEF IsWalk
    <3>3. d[k] \in Nat
      BY <2>1
    <3>4. 2 * d[k] <= r - l
      BY <3>1, <3>2, <3>3
    <3> QED
      BY <2>1, <3>3, <3>4, Half
  <2>3. d \in [l .. r -> 0 .. (r - l) \div 2]
    BY <2>1, <2>2
  <2> QED
    BY <1>2, <2>3 DEF Walks, IsWalk, Steps, Labels
<1> QED
  BY <1>1, <1>2

\* There are finitely many: a walk is a set of places and depths.
LEMMA WalksFinite ==
  ASSUME NEW s, NEW l \in Int, NEW r \in Int
  PROVE  IsFiniteSet(Walks(s, l, r))
<1> DEFINE Q == (l .. r) \X (0 .. (r - l) \div 2)
           g == [d \in Walks(s, l, r) |-> {<<k, d[k]>> : k \in l .. r}]
<1>1. IsFiniteSet(SUBSET Q)
  <2>1. (r - l) \div 2 \in Int
    OBVIOUS
  <2>2. IsFiniteSet(l .. r) /\ IsFiniteSet(0 .. (r - l) \div 2)
    BY <2>1, FS_Interval
  <2>3. IsFiniteSet(Q)
    BY <2>2, FS_Product
  <2> HIDE DEF Q
  <2> QED
    BY <2>3, FS_SUBSET
<1>2. \A d \in Walks(s, l, r) : d \in [l .. r -> 0 .. (r - l) \div 2]
  BY DEF Walks
<1>3. g \in [Walks(s, l, r) -> SUBSET Q]
  <2>1. ASSUME NEW d \in Walks(s, l, r) PROVE {<<k, d[k]>> : k \in l .. r} \in SUBSET Q
    <3>1. \A k \in l .. r : <<k, d[k]>> \in Q
      BY <1>2
    <3> QED
      BY <3>1
  <2> QED
    BY <2>1
<1>4. ASSUME NEW c \in Walks(s, l, r), NEW d \in Walks(s, l, r), g[c] = g[d] PROVE c = d
  <2>1. \A k \in l .. r : c[k] = d[k]
    <3> TAKE k \in l .. r
    <3>1. <<k, c[k]>> \in g[d]
      BY <1>4
    <3>2. PICK j \in l .. r : <<k, c[k]>> = <<j, d[j]>>
      BY <3>1
    <3> QED
      BY <3>2
  <2>2. c = [k \in l .. r |-> c[k]] /\ d = [k \in l .. r |-> d[k]]
    BY <1>2
  <2> QED
    BY <2>1, <2>2
<1> HIDE DEF g, Q
<1>5. g \in Injection(Walks(s, l, r), SUBSET Q)
  BY <1>3, <1>4 DEF Injection, IsInjective
<1> QED
  BY <1>1, <1>5, FS_Injection

\* The walks whose first subtree ends before k, and those where it ends there.
Before(s, l, r, k) == {d \in Walks(s, l, r) : \E m \in l + 1 .. k - 1 : d[m] = 0}

FirstAt(s, l, r, k) ==
  {d \in Walks(s, l, r) : d[k] = 0 /\ \A m \in l + 1 .. k - 1 : d[m] # 0}

\* A node without subtrees is one tree.
LEMMA OneNode ==
  ASSUME NEW s, NEW l \in Int
  PROVE  Cardinality(Walks(s, l, l)) = 1
<1> DEFINE c == [k \in l .. l |-> 0]
<1>1. \A k \in l .. l : k = l
  OBVIOUS
<1>2. IsWalk(s, l, l, c)
  <2>1. c \in [l .. l -> Nat] /\ c[l] = 0
    OBVIOUS
  <2>2. Steps(c, l, l)
    BY DEF Steps
  <2>3. Labels(s, c, l, l)
    <3>1. \A j, k \in l .. l : ~(j < k)
      BY <1>1
    <3> QED
      BY <3>1 DEF Labels
  <2> QED
    BY <2>1, <2>2, <2>3 DEF IsWalk
<1>3. \A d \in Walks(s, l, l) : d = c
  <2> TAKE d \in Walks(s, l, l)
  <2>1. d \in [l .. l -> Nat] /\ d[l] = 0
    BY WalksAreAll DEF IsWalk
  <2>2. d = [k \in l .. l |-> d[k]]
    BY <2>1
  <2> QED
    BY <1>1, <2>1, <2>2
<1>4. c \in Walks(s, l, l)
  BY <1>2, WalksAreAll
<1> HIDE DEF c
<1>5. Walks(s, l, l) = {c}
  BY <1>3, <1>4
<1> QED
  BY <1>5, FS_Singleton

\* No walk is back before it has gone anywhere, ...
LEMMA NoneBefore ==
  ASSUME NEW s, NEW l \in Int, NEW r \in Int
  PROVE  Before(s, l, r, l + 1) = {}
BY DEF Before

\* ... and each one is at its end.
LEMMA AllBefore ==
  ASSUME NEW s, NEW l \in Int, NEW r \in Int, NEW k \in Int, l # r, k > r
  PROVE  Before(s, l, r, k) = Walks(s, l, r)
<1>1. ASSUME NEW d \in Walks(s, l, r) PROVE \E m \in l + 1 .. k - 1 : d[m] = 0
  <2>1. l <= r /\ d[r] = 0
    BY DEF Walks
  <2>2. r \in l + 1 .. k - 1
    BY <2>1
  <2> QED
    BY <2>1, <2>2
<1> QED
  BY <1>1 DEF Before

\* From k to k + 1.
LEMMA OneMore ==
  ASSUME NEW s, NEW l \in Int, NEW r \in Int, NEW k \in Int, l < k
  PROVE  /\ Before(s, l, r, k + 1) = Before(s, l, r, k) \cup FirstAt(s, l, r, k)
         /\ Before(s, l, r, k) \cap FirstAt(s, l, r, k) = {}
<1>1. \A m : m \in l + 1 .. (k + 1) - 1 <=> m \in l + 1 .. k - 1 \/ m = k
  OBVIOUS
<1>2. \A d : (\E m \in l + 1 .. (k + 1) - 1 : d[m] = 0) <=> (\E m \in l + 1 .. k - 1 : d[m] = 0) \/ d[k] = 0
  BY <1>1, Zenon
<1> QED
  BY <1>2 DEF Before, FirstAt

\* The first subtree ends where the walk is at its node again.
LEMMA OtherNode ==
  ASSUME NEW s, NEW l \in Int, NEW r \in Int, NEW k \in Int, l < k, k <= r,
         s[k + 1] # s[l + 1]
  PROVE  Before(s, l, r, k + 1) = Before(s, l, r, k)
<1>1. ASSUME NEW d \in FirstAt(s, l, r, k) PROVE FALSE
  <2>1. IsWalk(s, l, r, d) /\ d[k] = 0
    BY WalksAreAll DEF FirstAt
  <2>2. \A m \in l .. k : d[m] >= d[l]
    <3>1. d \in [l .. r -> Nat] /\ d[l] = 0
      BY <2>1 DEF IsWalk
    <3>2. \A m \in l .. k : m \in l .. r
      OBVIOUS
    <3> QED
      BY <3>1, <3>2
  <2>3. SamePlace(d, l, k)
    BY <2>1, <2>2 DEF SamePlace, IsWalk
  <2>4. l \in l .. r /\ k \in l .. r
    OBVIOUS
  <2> QED
    BY <2>1, <2>3, <2>4 DEF IsWalk, Labels
<1>2. FirstAt(s, l, r, k) = {}
  BY <1>1
<1> QED
  BY <1>2, OneMore

-------------------------------------------------------------------------------
(* A walk whose first subtree ends at k is a walk around that subtree and one *)
(* around the rest.                                                         *)

Sub(d, l, k) == [m \in l + 1 .. k - 1 |-> d[m] - 1]
Rest(d, k, r) == [m \in k .. r |-> d[m]]
Joined(c, d, l, k, r) ==
  [m \in l .. r |-> IF m = l THEN 0 ELSE IF m < k THEN c[m] + 1 ELSE d[m]]

\* The walk around the first subtree is one down all the way.
LEMMA SubWalk ==
  ASSUME NEW s, NEW l \in Int, NEW r \in Int, NEW k \in Int, l < k, k <= r,
         NEW d \in FirstAt(s, l, r, k)
  PROVE  /\ l + 1 <= k - 1
         /\ Sub(d, l, k) \in Walks(s, l + 1, k - 1)
<1>1. IsWalk(s, l, r, d) /\ d[k] = 0
  BY WalksAreAll DEF FirstAt
<1>2. d \in [l .. r -> Nat] /\ d[l] = 0 /\ Steps(d, l, r) /\ Labels(s, d, l, r)
  BY <1>1 DEF IsWalk
<1>3. l + 1 \in l + 1 .. r /\ k \in l + 1 .. r /\ (l + 1) - 1 = l
  OBVIOUS
<1>4. d[l + 1] = 1
  <2>1. d[l + 1] = d[(l + 1) - 1] + 1 \/ d[l + 1] = d[(l + 1) - 1] - 1
    BY <1>2, <1>3 DEF Steps
  <2>2. d[l + 1] \in Nat
    BY <1>2
  <2> QED
    BY <1>2, <1>3, <2>1, <2>2
<1>5. l + 1 <= k - 1
  BY <1>1, <1>4
<1>6. \A m \in l + 1 .. k - 1 : m \in l .. r /\ d[m] \in Nat /\ d[m] # 0 /\ d[m] - 1 \in Nat
  <2>1. \A m \in l + 1 .. k - 1 : m \in l .. r /\ d[m] # 0
    BY DEF FirstAt
  <2>2. \A m \in l + 1 .. k - 1 : d[m] \in Nat
    BY <1>2, <2>1
  <2> QED
    BY <2>1, <2>2
<1>7. d[k - 1] = 1
  <2>1. d[k] = d[k - 1] + 1 \/ d[k] = d[k - 1] - 1
    BY <1>2, <1>3 DEF Steps
  <2>2. k - 1 \in l + 1 .. k - 1
    BY <1>5
  <2> QED
    BY <1>1, <1>6, <2>1, <2>2
<1> DEFINE c == Sub(d, l, k)
<1>8. \A m \in l + 1 .. k - 1 : c[m] = d[m] - 1
  BY DEF Sub
<1>9. c \in [l + 1 .. k - 1 -> Nat]
  BY <1>6 DEF Sub
<1>10. c[l + 1] = 0 /\ c[k - 1] = 0
  BY <1>4, <1>5, <1>7, <1>8
<1> HIDE DEF c
<1>11. Steps(c, l + 1, k - 1)
  <2> SUFFICES ASSUME NEW m \in (l + 1) + 1 .. k - 1
               PROVE  c[m] = c[m - 1] + 1 \/ c[m] = c[m - 1] - 1
    BY DEF Steps
  <2>1. m \in l + 1 .. r /\ m \in l + 1 .. k - 1 /\ m - 1 \in l + 1 .. k - 1
    OBVIOUS
  <2>2. d[m] = d[m - 1] + 1 \/ d[m] = d[m - 1] - 1
    BY <1>2, <2>1 DEF Steps
  <2> QED
    BY <1>6, <1>8, <2>1, <2>2
<1>12. Labels(s, c, l + 1, k - 1)
  <2> SUFFICES ASSUME NEW j \in l + 1 .. k - 1, NEW m \in l + 1 .. k - 1, j < m, SamePlace(c, j, m)
               PROVE  s[j + 1] = s[m + 1]
    BY DEF Labels
  <2>1. d[j] = d[m]
    BY <1>6, <1>8 DEF SamePlace
  <2>2. \A n \in j .. m : d[n] >= d[j]
    <3> TAKE n \in j .. m
    <3>1. n \in l + 1 .. k - 1 /\ c[n] >= c[j]
      BY DEF SamePlace
    <3> QED
      BY <1>6, <1>8, <3>1
  <2>3. SamePlace(d, j, m) /\ j \in l .. r /\ m \in l .. r
    BY <1>6, <2>1, <2>2 DEF SamePlace
  <2> QED
    BY <1>2, <2>3 DEF Labels
<1>13. IsWalk(s, l + 1, k - 1, c)
  BY <1>5, <1>9, <1>10, <1>11, <1>12 DEF IsWalk
<1> QED
  BY <1>5, <1>13, WalksAreAll DEF c

\* The walk around the rest goes on from k.
LEMMA RestWalk ==
  ASSUME NEW s, NEW l \in Int, NEW r \in Int, NEW k \in Int, l < k, k <= r,
         NEW d \in FirstAt(s, l, r, k)
  PROVE  Rest(d, k, r) \in Walks(s, k, r)
<1>1. IsWalk(s, l, r, d) /\ d[k] = 0
  BY WalksAreAll DEF FirstAt
<1>2. d \in [l .. r -> Nat] /\ d[r] = 0 /\ Steps(d, l, r) /\ Labels(s, d, l, r)
  BY <1>1 DEF IsWalk
<1> DEFINE c == Rest(d, k, r)
<1>3. \A m \in k .. r : m \in l .. r /\ c[m] = d[m] /\ d[m] \in Nat
  BY <1>2 DEF Rest
<1>4. c \in [k .. r -> Nat]
  BY <1>2 DEF Rest
<1>5. c[k] = 0 /\ c[r] = 0
  BY <1>1, <1>2, <1>3
<1> HIDE DEF c
<1>6. Steps(c, k, r)
  <2> SUFFICES ASSUME NEW m \in k + 1 .. r
               PROVE  c[m] = c[m - 1] + 1 \/ c[m] = c[m - 1] - 1
    BY DEF Steps
  <2>1. m \in l + 1 .. r /\ m \in k .. r /\ m - 1 \in k .. r
    OBVIOUS
  <2>2. d[m] = d[m - 1] + 1 \/ d[m] = d[m - 1] - 1
    BY <1>2, <2>1 DEF Steps
  <2> QED
    BY <1>3, <2>1, <2>2
<1>7. Labels(s, c, k, r)
  <2> SUFFICES ASSUME NEW j \in k .. r, NEW m \in k .. r, j < m, SamePlace(c, j, m)
               PROVE  s[j + 1] = s[m + 1]
    BY DEF Labels
  <2>1. d[j] = d[m]
    BY <1>3 DEF SamePlace
  <2>2. \A n \in j .. m : d[n] >= d[j]
    <3> TAKE n \in j .. m
    <3>1. n \in k .. r /\ c[n] >= c[j]
      BY DEF SamePlace
    <3> QED
      BY <1>3, <3>1
  <2>3. SamePlace(d, j, m) /\ j \in l .. r /\ m \in l .. r
    BY <1>3, <2>1, <2>2 DEF SamePlace
  <2> QED
    BY <1>2, <2>3 DEF Labels
<1>8. IsWalk(s, k, r, c)
  BY <1>4, <1>5, <1>6, <1>7 DEF IsWalk
<1> QED
  BY <1>8, WalksAreAll DEF c

\* A walk around a first subtree and one around a rest make one around the whole.
LEMMA JoinedWalk ==
  ASSUME NEW s, NEW l \in Int, NEW r \in Int, NEW k \in Int, l < k, k <= r,
         s[k + 1] = s[l + 1],
         NEW c \in Walks(s, l + 1, k - 1), NEW d \in Walks(s, k, r)
  PROVE  /\ Joined(c, d, l, k, r) \in FirstAt(s, l, r, k)
         /\ Sub(Joined(c, d, l, k, r), l, k) = c
         /\ Rest(Joined(c, d, l, k, r), k, r) = d
<1>1. IsWalk(s, l + 1, k - 1, c) /\ IsWalk(s, k, r, d)
  BY WalksAreAll
<1>2. /\ c \in [l + 1 .. k - 1 -> Nat] /\ l + 1 <= k - 1 /\ c[l + 1] = 0 /\ c[k - 1] = 0
      /\ Steps(c, l + 1, k - 1) /\ Labels(s, c, l + 1, k - 1)
  BY <1>1 DEF IsWalk
<1>3. /\ d \in [k .. r -> Nat] /\ d[k] = 0 /\ d[r] = 0
      /\ Steps(d, k, r) /\ Labels(s, d, k, r)
  BY <1>1 DEF IsWalk
<1> DEFINE b == Joined(c, d, l, k, r)
<1>4. /\ b[l] = 0
      /\ \A m \in l + 1 .. k - 1 : b[m] = c[m] + 1 /\ c[m] \in Nat /\ m \in l .. r
      /\ \A m \in k .. r : b[m] = d[m] /\ d[m] \in Nat /\ m \in l .. r
  BY <1>2, <1>3 DEF Joined
<1>5. \A m \in l .. r : m = l \/ m \in l + 1 .. k - 1 \/ m \in k .. r
  OBVIOUS
<1>6. b \in [l .. r -> Nat]
  <2>1. \A m \in l .. r : b[m] \in Nat
    BY <1>4, <1>5
  <2> QED
    BY <2>1 DEF Joined
<1>7. DOMAIN b = l .. r
  BY DEF Joined
<1>8. Sub(b, l, k) = c
  <2>1. \A m \in l + 1 .. k - 1 : b[m] - 1 = c[m]
    BY <1>4
  <2>2. c = [m \in l + 1 .. k - 1 |-> c[m]]
    BY <1>2
  <2> HIDE DEF b
  <2> QED
    BY <2>1, <2>2 DEF Sub
<1>9. Rest(b, k, r) = d
  <2>1. \A m \in k .. r : b[m] = d[m]
    BY <1>4
  <2>2. d = [m \in k .. r |-> d[m]]
    BY <1>3
  <2> HIDE DEF b
  <2> QED
    BY <2>1, <2>2 DEF Rest
<1> HIDE DEF b
<1>10. k \in k .. r /\ r \in k .. r /\ b[k] = 0 /\ b[r] = 0
  BY <1>3, <1>4
<1>11. \A m \in l + 1 .. k - 1 : b[m] # 0
  BY <1>4
<1>12. Steps(b, l, r)
  <2> SUFFICES ASSUME NEW m \in l + 1 .. r
               PROVE  b[m] = b[m - 1] + 1 \/ b[m] = b[m - 1] - 1
    BY DEF Steps
  <2>1. CASE m = l + 1
    <3>1. m \in l + 1 .. k - 1 /\ m - 1 = l
      BY <1>2, <2>1
    <3> QED
      BY <1>2, <1>4, <2>1, <3>1
  <2>2. CASE m \in (l + 1) + 1 .. k - 1
    <3>1. m \in l + 1 .. k - 1 /\ m - 1 \in l + 1 .. k - 1
      BY <2>2
    <3>2. c[m] = c[m - 1] + 1 \/ c[m] = c[m - 1] - 1
      BY <1>2, <2>2 DEF Steps
    <3> QED
      BY <1>4, <3>1, <3>2
  <2>3. CASE m = k
    <3>1. k - 1 \in l + 1 .. k - 1
      BY <1>2
    <3>2. b[k - 1] = 1
      BY <1>2, <1>4, <3>1
    <3> QED
      BY <1>10, <2>3, <3>2
  <2>4. CASE m \in k + 1 .. r
    <3>1. m \in k .. r /\ m - 1 \in k .. r
      BY <2>4
    <3>2. d[m] = d[m - 1] + 1 \/ d[m] = d[m - 1] - 1
      BY <1>3, <2>4 DEF Steps
    <3> QED
      BY <1>4, <3>1, <3>2
  <2>5. m = l + 1 \/ m \in (l + 1) + 1 .. k - 1 \/ m = k \/ m \in k + 1 .. r
    OBVIOUS
  <2> QED
    BY <2>1, <2>2, <2>3, <2>4, <2>5
<1>13. Labels(s, b, l, r)
  <2> SUFFICES ASSUME NEW j \in l .. r, NEW m \in l .. r, j < m, SamePlace(b, j, m)
               PROVE  s[j + 1] = s[m + 1]
    BY DEF Labels
  <2>1. b[j] = b[m] /\ \A n \in j .. m : b[n] >= b[j]
    BY DEF SamePlace
  <2>2. CASE j \in l + 1 .. k - 1 /\ m \in l + 1 .. k - 1
    <3>1. c[j] = c[m]
      BY <1>4, <2>1, <2>2
    <3>2. \A n \in j .. m : c[n] >= c[j]
      <4> TAKE n \in j .. m
      <4>1. n \in l + 1 .. k - 1
        BY <2>2
      <4> QED
        BY <1>4, <2>1, <2>2, <4>1
    <3>3. SamePlace(c, j, m)
      BY <3>1, <3>2 DEF SamePlace
    <3> QED
      BY <1>2, <2>2, <3>3 DEF Labels
  <2>3. CASE j \in k .. r
    <3>1. m \in k .. r
      BY <2>3
    <3>2. d[j] = d[m]
      BY <1>4, <2>1, <2>3, <3>1
    <3>3. \A n \in j .. m : d[n] >= d[j]
      <4> TAKE n \in j .. m
      <4>1. n \in k .. r
        BY <2>3
      <4> QED
        BY <1>4, <2>1, <2>3, <4>1
    <3>4. SamePlace(d, j, m)
      BY <3>2, <3>3 DEF SamePlace
    <3> QED
      BY <1>3, <2>3, <3>1, <3>4 DEF Labels
  <2>4. CASE j = l
    <3>1. m \notin l + 1 .. k - 1
      BY <1>4, <1>11, <2>1, <2>4
    <3>2. m \in k .. r
      BY <2>4, <3>1
    <3>3. CASE m = k
      BY <2>4, <3>3
    <3>4. CASE k < m
      <4>1. d[k] = d[m]
        BY <1>3, <1>4, <2>1, <2>4, <3>2
      <4>2. \A n \in k .. m : d[n] >= d[k]
        <5> TAKE n \in k .. m
        <5>1. n \in k .. r
          OBVIOUS
        <5> QED
          BY <1>3, <1>4, <5>1
      <4>3. s[k + 1] = s[m + 1]
        <5>1. SamePlace(d, k, m)
          BY <4>1, <4>2 DEF SamePlace
        <5> QED
          BY <1>3, <1>10, <3>2, <3>4, <5>1 DEF Labels
      <4> QED
        BY <2>4, <4>3
    <3> QED
      BY <3>2, <3>3, <3>4
  <2>5. CASE j \in l + 1 .. k - 1 /\ m \in k .. r
    <3>1. k \in j .. m
      BY <2>5
    <3>2. b[k] >= b[j]
      BY <2>1, <3>1
    <3>3. b[j] = c[j] + 1 /\ c[j] \in Nat
      BY <1>4, <2>5
    <3> QED
      BY <1>10, <3>2, <3>3
  <2>6. m # l
    OBVIOUS
  <2> QED
    BY <1>5, <2>2, <2>3, <2>4, <2>5, <2>6
<1>14. b \in FirstAt(s, l, r, k)
  <2>1. IsWalk(s, l, r, b)
    BY <1>4, <1>6, <1>10, <1>12, <1>13 DEF IsWalk
  <2>2. b \in Walks(s, l, r)
    BY <2>1, WalksAreAll
  <2> QED
    BY <1>10, <1>11, <2>2 DEF FirstAt
<1> QED
  BY <1>8, <1>9, <1>14 DEF b

\* So they are as many as there are pairs of walks.
LEMMA FirstSubtree ==
  ASSUME NEW s, NEW l \in Int, NEW r \in Int, NEW k \in Int, l < k, k <= r,
         s[k + 1] = s[l + 1]
  PROVE  /\ IsFiniteSet(FirstAt(s, l, r, k))
         /\ Cardinality(FirstAt(s, l, r, k)) =
              Cardinality(Walks(s, l + 1, k - 1)) * Cardinality(Walks(s, k, r))
<1> DEFINE A == FirstAt(s, l, r, k)
           B == Walks(s, l + 1, k - 1) \X Walks(s, k, r)
           g == [d \in A |-> <<Sub(d, l, k), Rest(d, k, r)>>]
<1>1. g \in [A -> B]
  <2>1. \A d \in A : <<Sub(d, l, k), Rest(d, k, r)>> \in B
    BY SubWalk, RestWalk
  <2> QED
    BY <2>1
<1>2. ASSUME NEW c \in A, NEW d \in A, g[c] = g[d] PROVE c = d
  <2>1. Sub(c, l, k) = Sub(d, l, k) /\ Rest(c, k, r) = Rest(d, k, r)
    BY <1>2
  <2>2. \A b \in A : b \in [l .. r -> Nat] /\ b[l] = 0
    BY WalksAreAll DEF FirstAt, IsWalk
  <2>3. \A m \in l .. r : c[m] = d[m]
    <3> TAKE m \in l .. r
    <3>1. CASE m = l
      BY <2>2, <3>1
    <3>2. CASE m \in l + 1 .. k - 1
      <4>1. c[m] - 1 = d[m] - 1
        BY <2>1, <3>2 DEF Sub
      <4>2. c[m] \in Nat /\ d[m] \in Nat
        BY <2>2
      <4> QED
        BY <4>1, <4>2
    <3>3. CASE m \in k .. r
      BY <2>1, <3>3 DEF Rest
    <3> QED
      BY <3>1, <3>2, <3>3
  <2>4. c = [m \in l .. r |-> c[m]] /\ d = [m \in l .. r |-> d[m]]
    BY <2>2
  <2> QED
    BY <2>3, <2>4
<1>3. ASSUME NEW x \in B PROVE \E d \in A : g[d] = x
  <2>1. PICK c \in Walks(s, l + 1, k - 1), d \in Walks(s, k, r) : x = <<c, d>>
    OBVIOUS
  <2>2. Joined(c, d, l, k, r) \in A /\ g[Joined(c, d, l, k, r)] = <<c, d>>
    BY JoinedWalk
  <2> QED
    BY <2>1, <2>2
<1>4. IsFiniteSet(A)
  <2>1. A \in SUBSET Walks(s, l, r)
    BY DEF FirstAt
  <2> HIDE DEF A
  <2> QED
    BY <2>1, WalksFinite, FS_Subset
<1>5. Cardinality(B) = Cardinality(Walks(s, l + 1, k - 1)) * Cardinality(Walks(s, k, r))
  <2>1. IsFiniteSet(Walks(s, l + 1, k - 1)) /\ IsFiniteSet(Walks(s, k, r))
    BY WalksFinite
  <2> QED
    BY <2>1, FS_Product
<1> HIDE DEF g, A, B
<1>6. g \in Bijection(A, B)
  <2>1. g \in Injection(A, B)
    BY <1>1, <1>2 DEF Injection, IsInjective
  <2>2. g \in Surjection(A, B)
    BY <1>1, <1>3 DEF Surjection
  <2> QED
    BY <2>1, <2>2 DEF Bijection
<1>7. Cardinality(B) = Cardinality(A)
  <2>1. ExistsBijection(A, B)
    BY <1>6 DEF ExistsBijection
  <2> QED
    BY <1>4, <2>1, FS_Bijection
<1> QED
  BY <1>4, <1>5, <1>7 DEF A

\* The step of the sum.
LEMMA SumStep ==
  ASSUME NEW s, NEW l \in Int, NEW r \in Int, NEW k \in Int, l < k, k <= r,
         s[k + 1] = s[l + 1]
  PROVE  Cardinality(Before(s, l, r, k + 1)) =
           Cardinality(Before(s, l, r, k))
             + Cardinality(Walks(s, l + 1, k - 1)) * Cardinality(Walks(s, k, r))
<1>1. IsFiniteSet(Before(s, l, r, k))
  <2>1. Before(s, l, r, k) \in SUBSET Walks(s, l, r)
    BY DEF Before
  <2> QED
    BY <2>1, WalksFinite, FS_Subset
<1>2. IsFiniteSet(FirstAt(s, l, r, k))
  BY FirstSubtree
<1>3. Cardinality(Before(s, l, r, k + 1)) =
        Cardinality(Before(s, l, r, k)) + Cardinality(FirstAt(s, l, r, k)) - Cardinality({})
  BY <1>1, <1>2, OneMore, FS_Union
<1>4. Cardinality({}) = 0
  BY FS_EmptySet
<1>5. Cardinality(Before(s, l, r, k)) \in Nat /\ Cardinality(FirstAt(s, l, r, k)) \in Nat
  BY <1>1, <1>2, FS_CardinalityType
<1> QED
  BY <1>3, <1>4, <1>5, FirstSubtree

\* The results.
Number == 0 .. Modulus - 1

\* What is left of a number, and how often the modulus is in it.
LEMMA Divided ==
  ASSUME NEW x \in Nat
  PROVE  x % Modulus \in Number /\ \E q \in Nat : x = Modulus * q + (x % Modulus)
<1>1. Modulus \in Nat /\ Modulus > 0
  BY PyramidsAssumption
<1>2. x = Modulus * (x \div Modulus) + (x % Modulus) /\ x \div Modulus \in Nat /\ x % Modulus \in Number
  BY <1>1, SMT DEF Number
<1> QED
  BY <1>2

\* It is left only once.
LEMMA LeftOnce ==
  ASSUME NEW u \in Nat, NEW v \in Nat, NEW b \in Number, NEW c \in Number,
         Modulus * u + b = Modulus * v + c
  PROVE  b = c
<1>1. Modulus \in Nat /\ b \in Nat /\ c \in Nat /\ b < Modulus /\ c < Modulus
  BY PyramidsAssumption DEF Number
<1>2. ASSUME NEW x \in Nat, NEW y \in Nat, x < y PROVE Modulus * x + Modulus <= Modulus * y
  <2>1. PICK d \in Nat : y = x + 1 + d
    <3>1. y - x - 1 \in Nat /\ y = x + 1 + (y - x - 1)
      BY <1>2
    <3> QED
      BY <3>1
  <2>2. Modulus * y = Modulus * x + Modulus + Modulus * d
    BY <1>1, <2>1
  <2>3. Modulus * d \in Nat /\ Modulus * x \in Nat
    BY <1>1
  <2> QED
    BY <1>1, <2>2, <2>3
<1>3. Modulus * u \in Nat /\ Modulus * v \in Nat
  BY <1>1
<1>4. ~(u < v)
  BY <1>1, <1>2, <1>3
<1>5. ~(v < u)
  BY <1>1, <1>2, <1>3
<1>6. u = v
  BY <1>4, <1>5
<1> QED
  BY <1>1, <1>3, <1>6

\* The sum may be taken of what is left of its operands.
LEMMA SumOfRests ==
  ASSUME NEW x \in Nat, NEW y \in Nat, NEW z \in Nat
  PROVE  ((x % Modulus) + (y % Modulus) * (z % Modulus)) % Modulus = (x + y * z) % Modulus
<1>1. PICK u \in Nat : x = Modulus * u + (x % Modulus)
  BY Divided
<1>2. PICK v \in Nat : y = Modulus * v + (y % Modulus)
  BY Divided
<1>3. PICK w \in Nat : z = Modulus * w + (z % Modulus)
  BY Divided
<1> DEFINE b == x % Modulus
           c == y % Modulus
           d == z % Modulus
           q == Modulus * v * w + v * d + c * w
<1>4. b \in Nat /\ c \in Nat /\ d \in Nat /\ Modulus \in Nat
  <2>1. x % Modulus \in Number /\ y % Modulus \in Number /\ z % Modulus \in Number
    BY Divided
  <2> QED
    BY <2>1, PyramidsAssumption DEF Number
<1> HIDE DEF b, c, d
<1>5. x = Modulus * u + b /\ y = Modulus * v + c /\ z = Modulus * w + d
  BY <1>1, <1>2, <1>3 DEF b, c, d
<1>6. y * z = Modulus * q + c * d
  BY <1>4, <1>5
<1>7. q \in Nat /\ c * d \in Nat
  BY <1>4
<1> HIDE DEF q
<1>8. x + y * z = Modulus * (u + q) + (b + c * d)
  BY <1>4, <1>5, <1>6, <1>7
<1>9. PICK m \in Nat : b + c * d = Modulus * m + ((b + c * d) % Modulus)
  <2> DEFINE t == b + c * d
  <2>1. t \in Nat
    BY <1>4, <1>7
  <2> HIDE DEF t
  <2>2. \E m \in Nat : t = Modulus * m + (t % Modulus)
    BY <2>1, Divided
  <2> QED
    BY <2>2 DEF t
<1>10. PICK n \in Nat : x + y * z = Modulus * n + ((x + y * z) % Modulus)
  <2>1. x + y * z \in Nat
    BY <1>4, <1>5, <1>6, <1>7
  <2> QED
    BY <2>1, Divided
<1>11. (b + c * d) % Modulus \in Number /\ (x + y * z) % Modulus \in Number
  <2>1. b + c * d \in Nat /\ x + y * z \in Nat
    BY <1>4, <1>5, <1>6, <1>7
  <2> QED
    BY <2>1, Divided
<1>12. Modulus * (u + q + m) + ((b + c * d) % Modulus) = Modulus * n + ((x + y * z) % Modulus)
  <2>1. (b + c * d) % Modulus \in Nat
    BY <1>11 DEF Number
  <2> DEFINE h == (b + c * d) % Modulus
  <2>2. x + y * z = Modulus * (u + q) + (Modulus * m + h)
    BY <1>8, <1>9
  <2>3. h \in Nat
    BY <2>1
  <2> HIDE DEF h
  <2>4. Modulus * (u + q) + (Modulus * m + h) = Modulus * (u + q + m) + h
    BY <1>4, <1>7, <2>3
  <2> QED
    BY <1>10, <2>2, <2>4 DEF h
<1>13. (b + c * d) % Modulus = (x + y * z) % Modulus
  <2>1. u + q + m \in Nat
    BY <1>7
  <2> QED
    BY <1>11, <1>12, <2>1, LeftOnce
<1> QED
  BY <1>13 DEF b, c, d

\* The program by itself.
PyramidsSpec == InitPyramids /\ [][PyramidsStep]_pyramids

Frame ==
  [l : Position, r : Position, k : Nat, sum : [Operands -> Number \cup {NoValue}], for : Operands]

PyramidsTyped ==
  /\ S \in Seq(STRING) /\ Len(S) < Room
  /\ P \in [Position -> [Position -> Nat]]
  /\ R \in [Position -> [Position -> Number]]
  /\ MarkNum \in Nat
  /\ calls \in Seq(Frame)
  /\ answer \in Number

\* The result of F(l, r) for the line s.
Count(s, l, r) == Cardinality(Walks(s, l, r)) % Modulus

\* The node of the call f is there again.
Again(s, f) == f.k <= f.r /\ s[f.k + 1] = s[f.l + 1]

\* The call f is where the marks marks and the results t say that it is, and the
\* operands it has are right.
CallRight(s, marks, t, mark, f) ==
  /\ f.l # f.r /\ f.l <= f.r + 1 /\ f.r < Len(s)
  /\ f.l < f.k /\ (f.k <= f.r + 1 \/ f.k = f.l + 1)
  /\ marks[f.l][f.r] = mark
  /\ t[f.l][f.r] = Cardinality(Before(s, f.l, f.r, f.k)) % Modulus
  /\ f.sum["before"] \in {NoValue, t[f.l][f.r]}
  /\ f.sum["first"] \in {NoValue, Count(s, f.l + 1, f.k - 1)}
  /\ f.sum["rest"] \in {NoValue, Count(s, f.k, f.r)}
  /\ Again(s, f) \/ \A o \in Operands : f.sum[o] = NoValue

\* The operand o of the sum of f is F(l, r).
Asks(s, f, o, l, r) ==
  /\ Again(s, f)
  /\ \/ o = "first" /\ l = f.l + 1 /\ r = f.k - 1
     \/ o = "rest" /\ l = f.k /\ r = f.r

\* Each call of c is for an operand of the one before, and shorter than all
\* before; the first is for the line.
Nested(s, mark, c) ==
  /\ \A n \in 1 .. Len(c) : n > 1 => Asks(s, c[n - 1], c[n].for, c[n].l, c[n].r)
  /\ \A m, n \in 1 .. Len(c) : m < n => c[n].r - c[n].l < c[m].r - c[m].l
  /\ c # <<>> => mark > 0 /\ s # <<>> /\ c[1].l = 0 /\ c[1].r = Len(s) - 1

Computes(c, l, r) == \E n \in 1 .. Len(c) : c[n].l = l /\ c[n].r = r

\* A result that is marked is right, or being computed by a call of c.
Remembered(s, marks, t, mark, c) ==
  \A l, r \in Position :
    /\ marks[l][r] <= mark
    /\ marks[l][r] = mark /\ mark > 0 =>
         t[l][r] = Count(s, l, r) \/ Computes(c, l, r)

Sound(s, marks, t, mark, c) ==
  /\ \A n \in 1 .. Len(c) : CallRight(s, marks, t, mark, c[n])
  /\ Nested(s, mark, c)
  /\ Remembered(s, marks, t, mark, c)

\* The inductive invariant.
PyramidsInv == PyramidsTyped /\ Sound(S, P, R, MarkNum, calls) /\ CountsTrees

-------------------------------------------------------------------------------
(* The calls.                                                               *)

\* Places and results are numbers.
LEMMA Positions ==
  /\ Position \subseteq Nat /\ 0 \in Position /\ \A n \in Nat : n < Room => n \in Position
  /\ \A x : x \in Number => x \in Nat /\ x # NoValue
  /\ 0 \in Number /\ 1 \in Number /\ 1 % Modulus = 1 /\ 0 % Modulus = 0
<1>1. Room \in Nat /\ Room > 0 /\ Modulus \in Nat /\ Modulus > 1
  BY PyramidsAssumption
<1>2. 1 % Modulus = 1 /\ 0 % Modulus = 0
  BY <1>1
<1> QED
  BY <1>1, <1>2 DEF Position, Number, NoValue

\* Walks can be counted.
LEMMA Cardinals ==
  ASSUME NEW s, NEW l \in Int, NEW r \in Int, NEW k
  PROVE  Cardinality(Walks(s, l, r)) \in Nat /\ Cardinality(Before(s, l, r, k)) \in Nat
<1>1. Before(s, l, r, k) \in SUBSET Walks(s, l, r)
  BY DEF Before
<1> QED
  BY <1>1, WalksFinite, FS_Subset, FS_CardinalityType

\* A count is a result; a node without subtrees counts one.
LEMMA Counts ==
  ASSUME NEW s, NEW l \in Int, NEW r \in Int
  PROVE  /\ Count(s, l, r) \in Number
         /\ l = r => Count(s, l, r) = 1
<1>1. Count(s, l, r) \in Number
  BY Cardinals, Divided DEF Count
<1>2. ASSUME l = r PROVE Count(s, l, r) = 1
  BY <1>2, OneNode, Positions DEF Count
<1> QED
  BY <1>1, <1>2

\* A call, and the last one.
LEMMA Fields ==
  ASSUME NEW c \in Seq(Frame), NEW n \in 1 .. Len(c)
  PROVE  /\ c[n] \in Frame
         /\ c[n].l \in Position /\ c[n].r \in Position /\ c[n].k \in Nat
         /\ c[n].l \in Nat /\ c[n].r \in Nat
         /\ c[n].sum \in [Operands -> Number \cup {NoValue}] /\ c[n].for \in Operands
         /\ Len(c) \in Nat /\ Len(c) \in 1 .. Len(c) /\ c # <<>>
<1>1. c[n] \in Frame
  OBVIOUS
<1>2. Len(c) \in Nat /\ Len(c) \in 1 .. Len(c) /\ c # <<>>
  OBVIOUS
<1> QED
  BY <1>1, <1>2, Positions DEF Frame

\* The last call of c is one of them.
LEMMA LastCall ==
  ASSUME NEW c \in Seq(Frame), c # <<>>
  PROVE  Len(c) \in 1 .. Len(c)
OBVIOUS

\* Another last call.
LEMMA LastReplaced ==
  ASSUME NEW c \in Seq(Frame), c # <<>>, NEW g \in Frame, NEW b, b = [c EXCEPT ![Len(c)] = g]
  PROVE  /\ b \in Seq(Frame) /\ Len(b) = Len(c) /\ b # <<>>
         /\ b[Len(c)] = g /\ \A n \in 1 .. Len(c) : n # Len(c) => b[n] = c[n]
<1>1. Len(c) \in 1 .. Len(c) /\ Len(c) # 0
  BY LastCall
<1>2. b \in Seq(Frame) /\ Len(b) = Len(c) /\ b[Len(c)] = g /\ \A n \in 1 .. Len(c) : n # Len(c) => b[n] = c[n]
  BY <1>1
<1>3. b # <<>>
  BY <1>1, <1>2
<1> QED
  BY <1>2, <1>3

\* An operand is given to the last call of c.
LEMMA GivenTo ==
  ASSUME NEW c \in Seq(Frame), c # <<>>, NEW o \in Operands, NEW v \in Number, NEW b,
         b = WithOperand(c, o, v)
  PROVE  /\ b \in Seq(Frame) /\ Len(b) = Len(c) /\ b # <<>>
         /\ \A n \in 1 .. Len(c) :
              /\ b[n].l = c[n].l /\ b[n].r = c[n].r /\ b[n].k = c[n].k /\ b[n].for = c[n].for
              /\ n # Len(c) => b[n] = c[n]
         /\ \A q \in Operands : b[Len(c)].sum[q] = IF q = o THEN v ELSE c[Len(c)].sum[q]
<1> DEFINE f == c[Len(c)]
           h == [f.sum EXCEPT ![o] = v]
           g == [f EXCEPT !.sum = h]
<1>1. f \in Frame /\ f.sum \in [Operands -> Number \cup {NoValue}]
  BY LastCall, Fields
<1>2. b = [c EXCEPT ![Len(c)] = g]
  BY DEF WithOperand
<1>3. h \in [Operands -> Number \cup {NoValue}] /\ \A q \in Operands : h[q] = IF q = o THEN v ELSE f.sum[q]
  BY <1>1
<1> HIDE DEF f, h
<1>4. g \in Frame /\ g.l = f.l /\ g.r = f.r /\ g.k = f.k /\ g.for = f.for /\ g.sum = h
  BY <1>1, <1>3 DEF Frame
<1> HIDE DEF g
<1>5. /\ b \in Seq(Frame) /\ Len(b) = Len(c) /\ b # <<>>
      /\ b[Len(c)] = g /\ \A n \in 1 .. Len(c) : n # Len(c) => b[n] = c[n]
  BY <1>2, <1>4, LastReplaced
<1>6. \A n \in 1 .. Len(c) : b[n].l = c[n].l /\ b[n].r = c[n].r /\ b[n].k = c[n].k /\ b[n].for = c[n].for
  BY <1>4, <1>5 DEF f
<1> QED
  BY <1>3, <1>4, <1>5, <1>6 DEF f

\* A call stays right with its operand, which is right.
LEMMA OperandRight ==
  ASSUME NEW s, NEW marks, NEW t, NEW mark, NEW f, NEW g, NEW o \in Operands, NEW v,
         CallRight(s, marks, t, mark, f), Again(s, f),
         g.l = f.l, g.r = f.r, g.k = f.k,
         \A q \in Operands : g.sum[q] = IF q = o THEN v ELSE f.sum[q],
         \/ o = "before" /\ v = t[f.l][f.r]
         \/ o = "first" /\ v = Count(s, f.l + 1, f.k - 1)
         \/ o = "rest" /\ v = Count(s, f.k, f.r)
  PROVE  CallRight(s, marks, t, mark, g)
<1>1. "before" \in Operands /\ "first" \in Operands /\ "rest" \in Operands
  BY DEF Operands
<1>2. /\ f.sum["before"] \in {NoValue, t[f.l][f.r]}
      /\ f.sum["first"] \in {NoValue, Count(s, f.l + 1, f.k - 1)}
      /\ f.sum["rest"] \in {NoValue, Count(s, f.k, f.r)}
  BY DEF CallRight
<1>3. /\ g.sum["before"] \in {NoValue, t[f.l][f.r]}
      /\ g.sum["first"] \in {NoValue, Count(s, f.l + 1, f.k - 1)}
      /\ g.sum["rest"] \in {NoValue, Count(s, f.k, f.r)}
  BY <1>1, <1>2
<1> QED
  BY <1>3 DEF CallRight, Again

\* So does the stack.
LEMMA GivenSound ==
  ASSUME NEW s, NEW marks, NEW t, NEW mark, NEW c \in Seq(Frame), c # <<>>,
         Sound(s, marks, t, mark, c),
         NEW o \in Operands, NEW v \in Number,
         \/ o = "before" /\ v = t[c[Len(c)].l][c[Len(c)].r] /\ Again(s, c[Len(c)])
         \/ \E l, r : Asks(s, c[Len(c)], o, l, r) /\ v = Count(s, l, r),
         NEW b, b = WithOperand(c, o, v)
  PROVE  b \in Seq(Frame) /\ b # <<>> /\ Sound(s, marks, t, mark, b)
<1>1. /\ b \in Seq(Frame) /\ Len(b) = Len(c) /\ b # <<>>
      /\ \A n \in 1 .. Len(c) :
           /\ b[n].l = c[n].l /\ b[n].r = c[n].r /\ b[n].k = c[n].k /\ b[n].for = c[n].for
           /\ n # Len(c) => b[n] = c[n]
      /\ \A q \in Operands : b[Len(c)].sum[q] = IF q = o THEN v ELSE c[Len(c)].sum[q]
  BY GivenTo
<1>2. Len(c) \in 1 .. Len(c) /\ Len(c) \in Nat
  BY LastCall
<1>3. \A n \in 1 .. Len(b) : CallRight(s, marks, t, mark, b[n])
  <2>1. ASSUME NEW n \in 1 .. Len(c), n # Len(c) PROVE CallRight(s, marks, t, mark, b[n])
    BY <1>1, <2>1 DEF Sound
  <2>2. CallRight(s, marks, t, mark, b[Len(c)])
    <3> DEFINE f == c[Len(c)]
               g == b[Len(c)]
    <3>1. CallRight(s, marks, t, mark, f)
      BY <1>2 DEF Sound
    <3>2. g.l = f.l /\ g.r = f.r /\ g.k = f.k
      BY <1>1, <1>2
    <3>3. \A q \in Operands : g.sum[q] = IF q = o THEN v ELSE f.sum[q]
      BY <1>1
    <3>4. \/ o = "before" /\ v = t[f.l][f.r]
          \/ o = "first" /\ v = Count(s, f.l + 1, f.k - 1)
          \/ o = "rest" /\ v = Count(s, f.k, f.r)
      BY DEF Asks
    <3>6. Again(s, f)
      BY DEF Asks
    <3> HIDE DEF f, g
    <3>5. CallRight(s, marks, t, mark, g)
      BY <3>1, <3>2, <3>3, <3>4, <3>6, OperandRight
    <3> QED
      BY <3>5 DEF g
  <2> QED
    BY <1>1, <2>1, <2>2
<1>4. Nested(s, mark, b)
  <2>1. ASSUME NEW n \in 1 .. Len(c), n > 1 PROVE Asks(s, b[n - 1], b[n].for, b[n].l, b[n].r)
    <3>1. n - 1 \in 1 .. Len(c)
      BY <2>1
    <3>2. Asks(s, c[n - 1], c[n].for, c[n].l, c[n].r)
      BY <2>1 DEF Sound, Nested
    <3> QED
      BY <1>1, <3>1, <3>2 DEF Asks, Again
  <2>2. \A m, n \in 1 .. Len(c) : m < n => b[n].r - b[n].l < b[m].r - b[m].l
    BY <1>1 DEF Sound, Nested
  <2>3. mark > 0 /\ s # <<>> /\ b[1].l = 0 /\ b[1].r = Len(s) - 1
    <3>1. 1 \in 1 .. Len(c)
      BY <1>2
    <3> QED
      BY <1>1, <3>1 DEF Sound, Nested
  <2> QED
    BY <1>1, <2>1, <2>2, <2>3 DEF Nested
<1>5. Remembered(s, marks, t, mark, b)
  <2>1. \A l, r : Computes(c, l, r) => Computes(b, l, r)
    BY <1>1 DEF Computes
  <2> QED
    BY <2>1 DEF Sound, Remembered
<1> QED
  BY <1>1, <1>3, <1>4, <1>5 DEF Sound

\* A result that is given is right for whom it is given to.
LEMMA Given ==
  ASSUME PyramidsTyped, NEW c \in Seq(Frame), Sound(S, P, R, MarkNum, c),
         NEW o \in Operands, NEW v \in Number,
         Give(v, o, c), UNCHANGED <<S, P, R, MarkNum>>,
         c = <<>> => v = Count(S, 0, Len(S) - 1),
         c # <<>> =>
           \/ o = "before" /\ v = R[c[Len(c)].l][c[Len(c)].r] /\ Again(S, c[Len(c)])
           \/ \E l, r : Asks(S, c[Len(c)], o, l, r) /\ v = Count(S, l, r)
  PROVE  PyramidsInv'
<1>1. CASE c = <<>>
  <2>1. answer' = v /\ calls' = c
    BY <1>1 DEF Give
  <2>2. PyramidsTyped'
    BY <2>1 DEF PyramidsTyped
  <2>3. Sound(S, P, R, MarkNum, calls)'
    BY <2>1
  <2>4. CountsTrees'
    BY <1>1, <2>1 DEF CountsTrees, Count
  <2> QED
    BY <2>2, <2>3, <2>4 DEF PyramidsInv
<1>2. CASE c # <<>>
  <2>1. answer' = answer /\ calls' = WithOperand(c, o, v)
    BY <1>2 DEF Give
  <2>2. calls' \in Seq(Frame) /\ calls' # <<>> /\ Sound(S, P, R, MarkNum, calls')
    BY <1>2, <2>1, GivenSound
  <2>3. PyramidsTyped'
    BY <2>1, <2>2 DEF PyramidsTyped
  <2>4. CountsTrees'
    BY <2>2 DEF CountsTrees
  <2> QED
    BY <2>2, <2>3, <2>4 DEF PyramidsInv
<1> QED
  BY <1>1, <1>2

\* The table t with v at l, r; q is such a table.
Put(t, l, r, v) == [t EXCEPT ![l][r] = v]

Updated(t, q, l, r, v) ==
  \A m, n \in Position : q[m][n] = IF m = l /\ n = r THEN v ELSE t[m][n]

\* What a table has after an assignment to it.
LEMMA TableUpdated ==
  ASSUME NEW T, NEW t \in [Position -> [Position -> T]], NEW l \in Position, NEW r \in Position,
         NEW v \in T, NEW q, q = Put(t, l, r, v)
  PROVE  q \in [Position -> [Position -> T]] /\ Updated(t, q, l, r, v)
<1> DEFINE row == [t[l] EXCEPT ![r] = v]
<1>1. q = [t EXCEPT ![l] = row]
  BY DEF Put
<1>2. row \in [Position -> T] /\ \A n \in Position : row[n] = IF n = r THEN v ELSE t[l][n]
  OBVIOUS
<1> HIDE DEF row
<1>3. q \in [Position -> [Position -> T]] /\ \A m \in Position : q[m] = IF m = l THEN row ELSE t[m]
  BY <1>1, <1>2
<1> QED
  BY <1>2, <1>3 DEF Updated

\* What is asked for is a shorter part of the line.
LEMMA AskedFor ==
  ASSUME NEW s \in Seq(STRING), Len(s) < Room, NEW marks, NEW t, NEW mark,
         NEW f \in Frame, CallRight(s, marks, t, mark, f),
         NEW o, NEW l, NEW r, Asks(s, f, o, l, r)
  PROVE  /\ l \in Position /\ r \in Position /\ l \in Nat /\ r \in Nat
         /\ l <= r + 1 /\ r < Len(s)
         /\ r - l < f.r - f.l
         /\ o \in Operands
<1>1. f.l \in Nat /\ f.r \in Nat /\ f.k \in Nat /\ Len(s) \in Nat /\ Room \in Nat
  <2>1. f.l \in Position /\ f.r \in Position /\ f.k \in Nat
    BY DEF Frame
  <2>2. Len(s) \in Nat
    OBVIOUS
  <2> QED
    BY <2>1, <2>2, Positions, PyramidsAssumption
<1>2. f.l < f.k /\ f.k <= f.r /\ f.r < Len(s)
  BY <1>1 DEF CallRight, Asks, Again
<1>3. \/ o = "first" /\ l = f.l + 1 /\ r = f.k - 1
      \/ o = "rest" /\ l = f.k /\ r = f.r
  BY DEF Asks
<1>4. o \in Operands
  BY <1>3 DEF Operands
<1>5. l \in Nat /\ r \in Nat /\ l <= r + 1 /\ r < Len(s) /\ r - l < f.r - f.l /\ l < Room /\ r < Room
  <2> DEFINE x == f.l
             y == f.r
             z == f.k
             m == Len(s)
  <2>1. x \in Nat /\ y \in Nat /\ z \in Nat /\ m \in Nat /\ Room \in Nat /\ m < Room
    BY <1>1
  <2>2. x < z /\ z <= y /\ y < m
    BY <1>2
  <2>3. (l = x + 1 /\ r = z - 1) \/ (l = z /\ r = y)
    BY <1>3
  <2> HIDE DEF x, y, z, m
  <2>4. l \in Nat /\ r \in Nat /\ l <= r + 1 /\ r < m /\ r - l < y - x /\ l < Room /\ r < Room
    BY <2>1, <2>2, <2>3
  <2> QED
    BY <2>4 DEF x, y, m
<1> QED
  BY <1>4, <1>5, Positions

\* A call begins with the first place behind l.
LEMMA Pushed ==
  ASSUME NEW s \in Seq(STRING), s # <<>>, Len(s) < Room,
         NEW marks, NEW t, NEW mark \in Nat, mark > 0, NEW c \in Seq(Frame),
         Sound(s, marks, t, mark, c),
         NEW l \in Position, NEW r \in Position, NEW o \in Operands,
         l # r, l <= r + 1, r < Len(s), marks[l][r] # mark,
         c = <<>> => l = 0 /\ r = Len(s) - 1,
         c # <<>> => Asks(s, c[Len(c)], o, l, r),
         NEW f \in Frame, f.l = l, f.r = r, f.k = l + 1, f.sum = Nothing, f.for = o,
         NEW q, Updated(marks, q, l, r, mark), NEW u, Updated(t, u, l, r, 0)
  PROVE  /\ Append(c, f) \in Seq(Frame) /\ Append(c, f) # <<>>
         /\ Sound(s, q, u, mark, Append(c, f))
<1> DEFINE b == Append(c, f)
<1>1. l \in Nat /\ r \in Nat /\ Len(c) \in Nat /\ Len(s) \in Nat
  BY Positions
<1>2. Nothing \in [Operands -> Number \cup {NoValue}] /\ \A x \in Operands : Nothing[x] = NoValue
  BY DEF Nothing
<1>3. f \in Frame
  OBVIOUS
<1>4. f.l = l /\ f.r = r /\ f.k = l + 1 /\ f.sum = Nothing /\ f.for = o
  OBVIOUS
<1>5. /\ b \in Seq(Frame) /\ Len(b) = Len(c) + 1 /\ b[Len(c) + 1] = f /\ b # <<>>
      /\ \A n \in 1 .. Len(c) : b[n] = c[n]
  BY <1>3, AppendProperties
<1> HIDE DEF b
<1>6. \A n \in 1 .. Len(b) : n \in 1 .. Len(c) \/ n = Len(c) + 1
  BY <1>1, <1>5
<1>7. ASSUME NEW n \in 1 .. Len(c)
      PROVE  /\ c[n].l \in Position /\ c[n].r \in Position
             /\ CallRight(s, marks, t, mark, c[n]) /\ marks[c[n].l][c[n].r] = mark
  <2>1. CallRight(s, marks, t, mark, c[n])
    BY DEF Sound
  <2> QED
    BY <2>1, Fields DEF CallRight
<1>8. ASSUME NEW n \in 1 .. Len(c) PROVE CallRight(s, q, u, mark, c[n])
  <2>1. ~(c[n].l = l /\ c[n].r = r)
    BY <1>7
  <2>2. q[c[n].l][c[n].r] = marks[c[n].l][c[n].r] /\ u[c[n].l][c[n].r] = t[c[n].l][c[n].r]
    BY <1>7, <2>1 DEF Updated
  <2> QED
    BY <1>7, <2>2 DEF CallRight
<1>9. CallRight(s, q, u, mark, f)
  <2>1. q[l][r] = mark /\ u[l][r] = 0
    BY DEF Updated
  <2>2. Before(s, l, r, l + 1) = {}
    BY <1>1, NoneBefore
  <2>3. Cardinality(Before(s, l, r, l + 1)) % Modulus = 0
    BY <2>2, FS_EmptySet, Positions
  <2>4. "before" \in Operands /\ "first" \in Operands /\ "rest" \in Operands
    BY DEF Operands
  <2>5. \A x \in Operands : f.sum[x] = NoValue
    BY <1>2, <1>4
  <2>6. l < l + 1
    BY <1>1
  <2> QED
    BY <1>4, <2>1, <2>3, <2>4, <2>5, <2>6 DEF CallRight
<1>10. \A n \in 1 .. Len(b) : CallRight(s, q, u, mark, b[n])
  BY <1>5, <1>6, <1>8, <1>9
<1>11. Nested(s, mark, b)
  <2>1. ASSUME c # <<>>
        PROVE  /\ Len(c) \in 1 .. Len(c)
               /\ r - l < c[Len(c)].r - c[Len(c)].l
               /\ 1 \in 1 .. Len(c)
    <3>1. Len(c) \in 1 .. Len(c) /\ 1 \in 1 .. Len(c)
      BY <2>1, LastCall
    <3>2. c[Len(c)] \in Frame /\ CallRight(s, marks, t, mark, c[Len(c)])
      BY <1>7, <3>1, Fields
    <3> QED
      BY <2>1, <3>1, <3>2, AskedFor
  <2>2. ASSUME NEW n \in 1 .. Len(b), n > 1 PROVE Asks(s, b[n - 1], b[n].for, b[n].l, b[n].r)
    <3>1. CASE n \in 1 .. Len(c)
      <4>1. n - 1 \in 1 .. Len(c)
        BY <2>2, <3>1
      <4>2. Asks(s, c[n - 1], c[n].for, c[n].l, c[n].r)
        BY <2>2, <3>1 DEF Sound, Nested
      <4> QED
        BY <1>5, <3>1, <4>1, <4>2
    <3>2. CASE n = Len(c) + 1
      <4>1. n - 1 = Len(c) /\ c # <<>>
        BY <1>1, <2>2, <3>2
      <4>2. b[n - 1] = c[Len(c)] /\ b[n] = f
        BY <1>5, <2>1, <3>2, <4>1
      <4> QED
        BY <1>4, <4>1, <4>2
    <3> QED
      BY <1>6, <3>1, <3>2
  <2>3. ASSUME NEW m \in 1 .. Len(b), NEW n \in 1 .. Len(b), m < n
        PROVE  b[n].r - b[n].l < b[m].r - b[m].l
    <3>1. m \in 1 .. Len(c) /\ c # <<>>
      BY <1>1, <1>5, <2>3
    <3>2. CASE n \in 1 .. Len(c)
      <4>1. c[n].r - c[n].l < c[m].r - c[m].l
        BY <2>3, <3>1, <3>2 DEF Sound, Nested
      <4> QED
        BY <1>5, <3>1, <3>2, <4>1
    <3>3. CASE n = Len(c) + 1
      <4>1. c[Len(c)].l \in Nat /\ c[Len(c)].r \in Nat /\ c[m].l \in Nat /\ c[m].r \in Nat
        BY <2>1, <3>1, Fields
      <4>2. m = Len(c) \/ c[Len(c)].r - c[Len(c)].l < c[m].r - c[m].l
        <5>1. m = Len(c) \/ m < Len(c)
          BY <3>1
        <5> QED
          BY <2>1, <3>1, <5>1 DEF Sound, Nested
      <4>3. r - l < c[m].r - c[m].l
        <5>1. r - l < c[Len(c)].r - c[Len(c)].l
          BY <2>1, <3>1
        <5>2. CASE m = Len(c)
          BY <5>1, <5>2
        <5>3. CASE c[Len(c)].r - c[Len(c)].l < c[m].r - c[m].l
          <6> DEFINE x == r - l
                     y == c[Len(c)].r - c[Len(c)].l
                     z == c[m].r - c[m].l
          <6>1. x \in Int /\ y \in Int /\ z \in Int
            <7>1. x \in Int
              BY <1>1
            <7>2. y \in Int
              BY <4>1
            <7>3. z \in Int
              BY <4>1
            <7> QED
              BY <7>1, <7>2, <7>3
          <6>2. x < y /\ y < z
            BY <5>1, <5>3
          <6> HIDE DEF x, y, z
          <6>3. x < z
            BY <6>1, <6>2
          <6> QED
            BY <6>3 DEF x, z
        <5> QED
          BY <4>2, <5>2, <5>3
      <4>4. b[n].r = r /\ b[n].l = l /\ b[m] = c[m]
        BY <1>4, <1>5, <3>1, <3>3
      <4> QED
        BY <4>3, <4>4
    <3> QED
      BY <1>6, <3>2, <3>3
  <2>4. b[1].l = 0 /\ b[1].r = Len(s) - 1
    <3>1. CASE c = <<>>
      <4>1. Len(c) = 0
        BY <3>1
      <4> QED
        BY <1>4, <1>5, <3>1, <4>1
    <3>2. CASE c # <<>>
      BY <1>5, <2>1, <3>2 DEF Sound, Nested
    <3> QED
      BY <3>1, <3>2
  <2> QED
    BY <2>2, <2>3, <2>4 DEF Nested
<1>12. Remembered(s, q, u, mark, b)
  <2> SUFFICES ASSUME NEW x \in Position, NEW y \in Position
               PROVE  /\ q[x][y] <= mark
                      /\ q[x][y] = mark /\ mark > 0 => u[x][y] = Count(s, x, y) \/ Computes(b, x, y)
    BY DEF Remembered
  <2>1. CASE x = l /\ y = r
    <3>1. Len(c) + 1 \in 1 .. Len(b)
      BY <1>1, <1>5
    <3>2. Computes(b, l, r)
      BY <1>4, <1>5, <3>1 DEF Computes
    <3>3. q[l][r] = mark
      BY DEF Updated
    <3> QED
      BY <2>1, <3>2, <3>3
  <2>2. CASE ~(x = l /\ y = r)
    <3>1. q[x][y] = marks[x][y] /\ u[x][y] = t[x][y]
      BY <2>2 DEF Updated
    <3>2. Computes(c, x, y) => Computes(b, x, y)
      <4>1. \A n \in 1 .. Len(c) : n \in 1 .. Len(b)
        BY <1>1, <1>5
      <4> QED
        BY <1>5, <4>1 DEF Computes
    <3> QED
      BY <3>1, <3>2 DEF Sound, Remembered
  <2> QED
    BY <2>1, <2>2
<1>13. Sound(s, q, u, mark, b)
  BY <1>10, <1>11, <1>12 DEF Sound
<1> QED
  BY <1>5, <1>13 DEF b

\* c with the last call g.
Replaced(c, g) == [c EXCEPT ![Len(c)] = g]

\* The loop of the last call goes on with the next place: its result is that for
\* the next place, and the other calls are as they were.
LEMMA Advanced ==
  ASSUME NEW s, NEW marks, NEW t, NEW mark, NEW c \in Seq(Frame), c # <<>>,
         Sound(s, marks, t, mark, c),
         NEW f, f = c[Len(c)], f.k <= f.r,
         NEW v, v = Cardinality(Before(s, f.l, f.r, f.k + 1)) % Modulus,
         NEW u, Updated(t, u, f.l, f.r, v),
         NEW g \in Frame, g.l = f.l, g.r = f.r, g.k = f.k + 1, g.for = f.for,
         \A o \in Operands : g.sum[o] = NoValue,
         NEW b, b = Replaced(c, g)
  PROVE  b \in Seq(Frame) /\ b # <<>> /\ Sound(s, marks, u, mark, b)
<1>1. Len(c) \in 1 .. Len(c) /\ Len(c) \in Nat
  BY LastCall
<1>2. /\ b \in Seq(Frame) /\ Len(b) = Len(c) /\ b # <<>>
      /\ b[Len(c)] = g /\ \A n \in 1 .. Len(c) : n # Len(c) => b[n] = c[n]
  BY LastReplaced DEF Replaced
<1>4. \A n \in 1 .. Len(c) : b[n].l = c[n].l /\ b[n].r = c[n].r /\ b[n].for = c[n].for
  BY <1>2
<1>5. f.l \in Position /\ f.r \in Position /\ f.l \in Nat /\ f.r \in Nat /\ f.k \in Nat
  BY <1>1, Fields
<1>6. CallRight(s, marks, t, mark, f)
  BY <1>1 DEF Sound
<1>7. CallRight(s, marks, u, mark, g)
  <2>1. g.l = f.l /\ g.r = f.r /\ g.k = f.k + 1
    OBVIOUS
  <2>2. u[f.l][f.r] = Cardinality(Before(s, f.l, f.r, f.k + 1)) % Modulus
    BY <1>5 DEF Updated
  <2>3. f.k <= f.r
    OBVIOUS
  <2>4. f.l < f.k + 1 /\ f.k + 1 <= f.r + 1
    BY <1>5, <1>6, <2>3 DEF CallRight
  <2>5. "before" \in Operands /\ "first" \in Operands /\ "rest" \in Operands
    BY DEF Operands
  <2> QED
    BY <1>6, <2>1, <2>2, <2>4, <2>5 DEF CallRight
<1>8. ASSUME NEW n \in 1 .. Len(c), n # Len(c) PROVE CallRight(s, marks, u, mark, b[n])
  <2>1. c[n].l \in Position /\ c[n].r \in Position
    BY Fields
  <2>2. f.r - f.l < c[n].r - c[n].l
    <3>1. n < Len(c)
      BY <1>1, <1>8
    <3> QED
      BY <1>1, <3>1 DEF Sound, Nested
  <2>3. ~(c[n].l = f.l /\ c[n].r = f.r)
    BY <1>5, <2>2
  <2>4. u[c[n].l][c[n].r] = t[c[n].l][c[n].r]
    BY <2>1, <2>3 DEF Updated
  <2>5. CallRight(s, marks, t, mark, c[n])
    BY DEF Sound
  <2>6. CallRight(s, marks, u, mark, c[n])
    BY <2>4, <2>5 DEF CallRight
  <2> QED
    BY <1>2, <1>8, <2>6
<1>9. \A n \in 1 .. Len(b) : CallRight(s, marks, u, mark, b[n])
  BY <1>2, <1>7, <1>8
<1>10. Nested(s, mark, b)
  <2>1. ASSUME NEW n \in 1 .. Len(c), n > 1 PROVE Asks(s, b[n - 1], b[n].for, b[n].l, b[n].r)
    <3>1. n - 1 \in 1 .. Len(c) /\ n - 1 # Len(c)
      BY <1>1, <2>1
    <3>2. Asks(s, c[n - 1], c[n].for, c[n].l, c[n].r)
      BY <2>1 DEF Sound, Nested
    <3>3. b[n - 1] = c[n - 1]
      BY <1>2, <3>1
    <3> QED
      BY <1>4, <3>2, <3>3
  <2>2. \A m, n \in 1 .. Len(c) : m < n => b[n].r - b[n].l < b[m].r - b[m].l
    BY <1>4 DEF Sound, Nested
  <2>3. mark > 0 /\ s # <<>> /\ b[1].l = 0 /\ b[1].r = Len(s) - 1
    <3>1. 1 \in 1 .. Len(c)
      BY <1>1
    <3> QED
      BY <1>4, <3>1 DEF Sound, Nested
  <2> QED
    BY <1>2, <2>1, <2>2, <2>3 DEF Nested
<1>11. Remembered(s, marks, u, mark, b)
  <2> SUFFICES ASSUME NEW x \in Position, NEW y \in Position
               PROVE  /\ marks[x][y] <= mark
                      /\ marks[x][y] = mark /\ mark > 0 => u[x][y] = Count(s, x, y) \/ Computes(b, x, y)
    BY DEF Remembered
  <2>1. Computes(c, x, y) => Computes(b, x, y)
    BY <1>2, <1>4 DEF Computes
  <2>2. /\ marks[x][y] <= mark
        /\ marks[x][y] = mark /\ mark > 0 => t[x][y] = Count(s, x, y) \/ Computes(c, x, y)
    BY DEF Sound, Remembered
  <2>3. CASE x = f.l /\ y = f.r
    <3>1. Computes(c, x, y)
      BY <1>1, <2>3 DEF Computes
    <3> QED
      BY <2>1, <2>2, <3>1
  <2>4. CASE ~(x = f.l /\ y = f.r)
    <3>1. u[x][y] = t[x][y]
      BY <2>4 DEF Updated
    <3> QED
      BY <2>1, <2>2, <3>1
  <2> QED
    BY <2>3, <2>4
<1> QED
  BY <1>2, <1>9, <1>10, <1>11 DEF Sound

\* The parts of the type invariant that the proofs use.
LEMMA TypedParts ==
  ASSUME PyramidsTyped
  PROVE  /\ S \in Seq(STRING) /\ Len(S) \in Nat /\ Len(S) < Room
         /\ P \in [Position -> [Position -> Nat]] /\ R \in [Position -> [Position -> Number]]
         /\ MarkNum \in Nat /\ calls \in Seq(Frame) /\ answer \in Number
BY DEF PyramidsTyped

\* A call of F for an operand that the last call of c asks for.
LEMMA Called ==
  ASSUME PyramidsInv, calls # <<>>, NEW o, NEW l, NEW r,
         Asks(S, Call, o, l, r), F(l, r, o, calls, MarkNum), UNCHANGED <<S, MarkNum>>
  PROVE  PyramidsInv'
<1>1. /\ PyramidsTyped /\ Sound(S, P, R, MarkNum, calls)
      /\ S \in Seq(STRING) /\ Len(S) < Room /\ calls \in Seq(Frame) /\ MarkNum \in Nat
  BY TypedParts DEF PyramidsInv
<1>2. Len(calls) \in 1 .. Len(calls) /\ Call \in Frame /\ CallRight(S, P, R, MarkNum, Call)
  BY <1>1, LastCall, Fields DEF Sound, Call
<1>3. MarkNum > 0 /\ S # <<>>
  BY <1>1 DEF Sound, Nested
<1>4. /\ l \in Position /\ r \in Position /\ l \in Nat /\ r \in Nat
      /\ l <= r + 1 /\ r < Len(S) /\ r - l < Call.r - Call.l /\ o \in Operands
  BY <1>1, <1>2, AskedFor
<1>5. ASSUME NEW v \in Number, Give(v, o, calls), UNCHANGED <<P, R>>, v = Count(S, l, r)
      PROVE  PyramidsInv'
  <2>1. \E x, y : Asks(S, calls[Len(calls)], o, x, y) /\ v = Count(S, x, y)
    BY <1>5 DEF Call
  <2> QED
    BY <1>1, <1>4, <1>5, <2>1, Given
<1>6. CASE l = r /\ Give(1, o, calls) /\ UNCHANGED <<P, R>>
  <2>1. 1 \in Number /\ Count(S, l, r) = 1
    BY <1>4, <1>6, Counts, Positions
  <2> QED
    BY <1>5, <1>6, <2>1
<1>7. CASE l # r /\ P[l][r] = MarkNum /\ Give(R[l][r], o, calls) /\ UNCHANGED <<P, R>>
  <2>1. R[l][r] \in Number
    BY <1>1, <1>4, TypedParts
  <2>2. ~Computes(calls, l, r)
    <3> SUFFICES ASSUME NEW n \in 1 .. Len(calls), calls[n].l = l, calls[n].r = r PROVE FALSE
      BY DEF Computes
    <3>1. Call.l \in Nat /\ Call.r \in Nat
      BY <1>1, <1>2, Fields DEF Call
    <3>2. n = Len(calls) \/ n < Len(calls)
      BY <1>2
    <3>3. CASE n = Len(calls)
      BY <1>4, <3>1, <3>3 DEF Call
    <3>4. CASE n < Len(calls)
      <4>1. Call.r - Call.l < calls[n].r - calls[n].l
        BY <1>1, <1>2, <3>4 DEF Sound, Nested, Call
      <4> QED
        BY <1>4, <3>1, <4>1
    <3> QED
      BY <3>2, <3>3, <3>4
  <2>3. R[l][r] = Count(S, l, r)
    BY <1>1, <1>3, <1>4, <1>7, <2>2 DEF Sound, Remembered
  <2> QED
    BY <1>5, <1>7, <2>1, <2>3
<1>8. CASE /\ l # r /\ P[l][r] # MarkNum
           /\ P' = [P EXCEPT ![l][r] = MarkNum]
           /\ R' = [R EXCEPT ![l][r] = 0]
           /\ calls' = Append(calls, [l |-> l, r |-> r, k |-> l + 1, sum |-> Nothing, for |-> o])
           /\ UNCHANGED answer
  <2> DEFINE f == [l |-> l, r |-> r, k |-> l + 1, sum |-> Nothing, for |-> o]
  <2>1. /\ f \in Frame
        /\ f.l = l /\ f.r = r /\ f.k = l + 1 /\ f.sum = Nothing /\ f.for = o
    <3>1. Nothing \in [Operands -> Number \cup {NoValue}]
      BY DEF Nothing
    <3> QED
      BY <1>4, <3>1 DEF Frame
  <2>2. calls' = Append(calls, f)
    BY <1>8
  <2> HIDE DEF f
  <2>3. P' \in [Position -> [Position -> Nat]] /\ Updated(P, P', l, r, MarkNum)
    <3>1. P' = Put(P, l, r, MarkNum)
      BY <1>8 DEF Put
    <3> QED
      BY <1>1, <1>4, <3>1, TypedParts, TableUpdated
  <2>4. R' \in [Position -> [Position -> Number]] /\ Updated(R, R', l, r, 0)
    <3>1. R' = Put(R, l, r, 0)
      BY <1>8 DEF Put
    <3>2. 0 \in Number
      BY Positions
    <3> QED
      BY <1>1, <1>4, <3>1, <3>2, TypedParts, TableUpdated
  <2>5. Asks(S, calls[Len(calls)], o, l, r)
    BY DEF Call
  <2>6. calls' \in Seq(Frame) /\ calls' # <<>> /\ Sound(S, P', R', MarkNum, calls')
    <3>1. l # r /\ P[l][r] # MarkNum
      BY <1>8
    <3>2. /\ Append(calls, f) \in Seq(Frame) /\ Append(calls, f) # <<>>
          /\ Sound(S, P', R', MarkNum, Append(calls, f))
      BY <1>1, <1>3, <1>4, <2>1, <2>3, <2>4, <2>5, <3>1, Pushed
    <3> QED
      BY <2>2, <3>2
  <2>7. PyramidsTyped'
    BY <1>1, <1>8, <2>3, <2>4, <2>6 DEF PyramidsTyped
  <2>8. CountsTrees'
    BY <2>6 DEF CountsTrees
  <2> QED
    BY <2>6, <2>7, <2>8 DEF PyramidsInv
<1> QED
  BY <1>6, <1>7, <1>8 DEF F

\* A line: the tables know nothing of it.
LEMMA AskStep ==
  ASSUME PyramidsInv, Ask
  PROVE  PyramidsInv'
<1>1. PICK text \in Texts : S' = text /\ F(0, Len(text) - 1, "before", <<>>, NewMark)
  BY DEF Ask
<1>2. MarkNum' = NewMark
  BY DEF Ask
<1>3. PyramidsTyped /\ Sound(S, P, R, MarkNum, calls)
  BY DEF PyramidsInv
<1>4. /\ text \in Seq(STRING) /\ text # <<>> /\ Len(text) < Room
      /\ Len(text) \in Nat /\ Len(text) > 0
  <2>1. text \in Seq(STRING) /\ text # <<>> /\ Len(text) < Room
    BY PyramidsAssumption
  <2>2. Len(text) \in Nat /\ Len(text) # 0
    BY <2>1
  <2> QED
    BY <2>1, <2>2
<1> DEFINE r == Len(text) - 1
<1>5. r \in Nat /\ r \in Position /\ 0 \in Position /\ r < Len(text) /\ 0 <= r + 1
  <2>1. r \in Nat /\ r < Room /\ r < Len(text) /\ 0 <= r + 1
    BY <1>4, PyramidsAssumption
  <2> QED
    BY <2>1, Positions
<1>6. NewMark \in Nat /\ NewMark > 0 /\ MarkNum \in Nat /\ MarkNum < NewMark
  BY <1>3, TypedParts DEF NewMark
<1>7. \A x, y \in Position : P[x][y] \in Nat /\ P[x][y] <= NewMark /\ P[x][y] # NewMark
  <2> TAKE x \in Position, y \in Position
  <2>1. P[x][y] \in Nat
    BY <1>3, TypedParts
  <2>2. P[x][y] <= MarkNum
    BY <1>3 DEF Sound, Remembered
  <2> QED
    BY <1>6, <2>1, <2>2
<1>8. Sound(text, P, R, NewMark, <<>>)
  <2>1. Nested(text, NewMark, <<>>)
    BY DEF Nested
  <2>2. Remembered(text, P, R, NewMark, <<>>)
    BY <1>7 DEF Remembered
  <2> QED
    BY <2>1, <2>2 DEF Sound
<1> HIDE DEF r
<1>9. CASE 0 = r /\ Give(1, "before", <<>>) /\ UNCHANGED <<P, R>>
  <2>1. answer' = 1 /\ calls' = <<>>
    BY <1>9 DEF Give
  <2>2. 1 \in Number /\ Count(text, 0, r) = 1
    BY <1>9, Counts, Positions
  <2>3. PyramidsTyped'
    BY <1>1, <1>2, <1>3, <1>4, <1>6, <1>9, <2>1, <2>2 DEF PyramidsTyped
  <2>4. Sound(S, P, R, MarkNum, calls)'
    BY <1>1, <1>2, <1>8, <1>9, <2>1
  <2>5. CountsTrees'
    BY <1>1, <2>1, <2>2 DEF CountsTrees, Count, r
  <2> QED
    BY <2>3, <2>4, <2>5 DEF PyramidsInv
<1>10. CASE P[0][r] = NewMark
  BY <1>5, <1>7, <1>10
<1>11. CASE /\ 0 # r /\ P[0][r] # NewMark
            /\ P' = [P EXCEPT ![0][r] = NewMark]
            /\ R' = [R EXCEPT ![0][r] = 0]
            /\ calls' = Append(<<>>, [l |-> 0, r |-> r, k |-> 0 + 1, sum |-> Nothing, for |-> "before"])
            /\ UNCHANGED answer
  <2> DEFINE f == [l |-> 0, r |-> r, k |-> 0 + 1, sum |-> Nothing, for |-> "before"]
  <2>1. /\ f \in Frame
        /\ f.l = 0 /\ f.r = r /\ f.k = 0 + 1 /\ f.sum = Nothing /\ f.for = "before"
        /\ "before" \in Operands
    <3>1. Nothing \in [Operands -> Number \cup {NoValue}] /\ "before" \in Operands
      BY DEF Nothing, Operands
    <3> QED
      BY <1>5, <3>1 DEF Frame
  <2>2. calls' = Append(<<>>, f)
    BY <1>11
  <2> HIDE DEF f
  <2>3. P' \in [Position -> [Position -> Nat]] /\ Updated(P, P', 0, r, NewMark)
    <3>1. P' = Put(P, 0, r, NewMark)
      BY <1>11 DEF Put
    <3> QED
      BY <1>3, <1>5, <1>6, <3>1, TypedParts, TableUpdated
  <2>4. R' \in [Position -> [Position -> Number]] /\ Updated(R, R', 0, r, 0)
    <3>1. R' = Put(R, 0, r, 0)
      BY <1>11 DEF Put
    <3>2. 0 \in Number
      BY Positions
    <3> QED
      BY <1>3, <1>5, <3>1, <3>2, TypedParts, TableUpdated
  <2>5. calls' \in Seq(Frame) /\ calls' # <<>> /\ Sound(text, P', R', NewMark, calls')
    <3>1. 0 # r /\ P[0][r] # NewMark /\ <<>> \in Seq(Frame) /\ r = Len(text) - 1
      BY <1>11 DEF r
    <3> DEFINE c == <<>>
    <3>2. c \in Seq(Frame) /\ c = <<>> /\ Sound(text, P, R, NewMark, c)
      BY <1>8, <3>1
    <3> HIDE DEF c
    <3>3. Append(c, f) \in Seq(Frame) /\ Append(c, f) # <<>> /\ Sound(text, P', R', NewMark, Append(c, f))
      BY <1>4, <1>5, <1>6, <2>1, <2>3, <2>4, <3>1, <3>2, Pushed
    <3> QED
      BY <2>2, <3>2, <3>3
  <2>6. PyramidsTyped'
    BY <1>1, <1>2, <1>3, <1>4, <1>6, <1>11, <2>3, <2>4, <2>5 DEF PyramidsTyped
  <2>7. CountsTrees'
    BY <2>5 DEF CountsTrees
  <2> QED
    BY <1>1, <1>2, <2>5, <2>6, <2>7 DEF PyramidsInv
<1> QED
  BY <1>1, <1>9, <1>10, <1>11 DEF F, r

\* An operand.
LEMMA EvaluateStep ==
  ASSUME PyramidsInv, Evaluate
  PROVE  PyramidsInv'
<1>1. /\ PyramidsTyped /\ Sound(S, P, R, MarkNum, calls) /\ calls \in Seq(Frame)
      /\ R \in [Position -> [Position -> Number]]
  BY TypedParts DEF PyramidsInv
<1>2. calls # <<>> /\ Again(S, Call) /\ UNCHANGED <<S, MarkNum>>
  BY DEF Evaluate, NodeAgain, Again
<1>3. CASE Give(R[Call.l][Call.r], "before", calls) /\ UNCHANGED <<P, R>>
  <2>1. R[Call.l][Call.r] \in Number /\ "before" \in Operands
    <3>1. Call.l \in Position /\ Call.r \in Position
      BY <1>1, <1>2, LastCall, Fields DEF Call
    <3> QED
      BY <1>1, <3>1 DEF Operands
  <2>2. R[Call.l][Call.r] = R[calls[Len(calls)].l][calls[Len(calls)].r] /\ Again(S, calls[Len(calls)])
    BY <1>2 DEF Call
  <2> QED
    BY <1>1, <1>2, <1>3, <2>1, <2>2, Given
<1>4. CASE F(Call.l + 1, Call.k - 1, "first", calls, MarkNum)
  <2>1. Asks(S, Call, "first", Call.l + 1, Call.k - 1)
    BY <1>2 DEF Asks
  <2> QED
    BY <1>2, <1>4, <2>1, Called
<1>5. CASE F(Call.k, Call.r, "rest", calls, MarkNum)
  <2>1. Asks(S, Call, "rest", Call.k, Call.r)
    BY <1>2 DEF Asks
  <2> QED
    BY <1>2, <1>5, <2>1, Called
<1> QED
  BY <1>3, <1>4, <1>5 DEF Evaluate

\* The sum.
LEMMA AddStep ==
  ASSUME PyramidsInv, Add
  PROVE  PyramidsInv'
<1>1. /\ PyramidsTyped /\ Sound(S, P, R, MarkNum, calls) /\ calls \in Seq(Frame)
      /\ R \in [Position -> [Position -> Number]]
  BY TypedParts DEF PyramidsInv
<1> DEFINE f == Call
           sum == f.sum
           v == (sum["before"] + sum["first"] * sum["rest"]) % Modulus
           g == [f EXCEPT !.k = @ + 1, !.sum = Nothing]
<1>2. /\ calls # <<>> /\ f.k <= f.r /\ S[f.k + 1] = S[f.l + 1]
      /\ \A o \in Operands : sum[o] # NoValue
      /\ R' = Put(R, f.l, f.r, v)
      /\ UNCHANGED <<S, P, MarkNum, answer>>
  BY DEF Add, NodeAgain, Put
<1>3. calls' = [calls EXCEPT ![Len(calls)].k = @ + 1, ![Len(calls)].sum = Nothing]
  BY DEF Add
<1>4. Len(calls) \in 1 .. Len(calls) /\ f \in Frame
  BY <1>1, <1>2, LastCall, Fields DEF Call
<1>5. calls' = Replaced(calls, g)
  BY <1>1, <1>3, <1>4 DEF Call, Replaced
<1>6. /\ f.l \in Position /\ f.r \in Position /\ f.k \in Nat /\ f.l \in Nat /\ f.r \in Nat
      /\ f.for \in Operands
  BY <1>1, <1>4, Fields DEF Call
<1>7. Nothing \in [Operands -> Number \cup {NoValue}] /\ \A o \in Operands : Nothing[o] = NoValue
  BY DEF Nothing
<1>8. /\ g \in Frame /\ g.l = f.l /\ g.r = f.r /\ g.k = f.k + 1 /\ g.for = f.for
      /\ \A o \in Operands : g.sum[o] = NoValue
  <2>1. f.k + 1 \in Nat
    BY <1>6
  <2> HIDE DEF f
  <2> QED
    BY <1>4, <1>7, <2>1 DEF Frame
<1> HIDE DEF g
<1>9. v = Cardinality(Before(S, f.l, f.r, f.k + 1)) % Modulus
  <2>1. CallRight(S, P, R, MarkNum, f)
    BY <1>1, <1>4 DEF Sound, Call
  <2>2. f.l < f.k /\ R[f.l][f.r] = Cardinality(Before(S, f.l, f.r, f.k)) % Modulus
    BY <2>1 DEF CallRight
  <2>3. "before" \in Operands /\ "first" \in Operands /\ "rest" \in Operands
    BY DEF Operands
  <2>4. /\ sum["before"] = Cardinality(Before(S, f.l, f.r, f.k)) % Modulus
        /\ sum["first"] = Cardinality(Walks(S, f.l + 1, f.k - 1)) % Modulus
        /\ sum["rest"] = Cardinality(Walks(S, f.k, f.r)) % Modulus
    BY <1>2, <2>1, <2>2, <2>3 DEF CallRight, Count
  <2> DEFINE x == Cardinality(Before(S, f.l, f.r, f.k))
             y == Cardinality(Walks(S, f.l + 1, f.k - 1))
             z == Cardinality(Walks(S, f.k, f.r))
  <2>5. f.l \in Int /\ f.r \in Int /\ f.k \in Int /\ f.l + 1 \in Int /\ f.k - 1 \in Int
    BY <1>6
  <2>6. x \in Nat /\ y \in Nat /\ z \in Nat
    BY <2>5, Cardinals
  <2>7. Cardinality(Before(S, f.l, f.r, f.k + 1)) = x + y * z
    BY <1>2, <2>2, <2>5, SumStep
  <2> HIDE DEF x, y, z
  <2>8. v = ((x % Modulus) + (y % Modulus) * (z % Modulus)) % Modulus
    BY <2>4 DEF x, y, z
  <2> QED
    BY <2>6, <2>7, <2>8, SumOfRests
<1>10. v \in Number
  <2>1. f.l \in Int /\ f.r \in Int
    BY <1>6
  <2>2. Cardinality(Before(S, f.l, f.r, f.k + 1)) \in Nat
    BY <2>1, Cardinals
  <2> HIDE DEF v
  <2> QED
    BY <1>9, <2>2, Divided
<1> HIDE DEF v
<1>11. R' \in [Position -> [Position -> Number]] /\ Updated(R, R', f.l, f.r, v)
  <2> DEFINE l == f.l
             r == f.r
  <2>1. R' = Put(R, l, r, v) /\ l \in Position /\ r \in Position
    BY <1>2, <1>6
  <2> HIDE DEF l, r
  <2>2. R' \in [Position -> [Position -> Number]] /\ Updated(R, R', l, r, v)
    BY <1>1, <1>10, <2>1, TableUpdated
  <2> QED
    BY <2>2 DEF l, r
<1>12. calls' \in Seq(Frame) /\ calls' # <<>> /\ Sound(S, P, R', MarkNum, calls')
  <2>1. f = calls[Len(calls)] /\ f.k <= f.r /\ calls # <<>>
    BY <1>2 DEF Call
  <2> HIDE DEF f, sum
  <2> QED
    BY <1>1, <1>5, <1>8, <1>9, <1>11, <2>1, Advanced
<1>13. PyramidsTyped'
  BY <1>1, <1>2, <1>11, <1>12 DEF PyramidsTyped
<1>14. CountsTrees'
  BY <1>12 DEF CountsTrees
<1> QED
  BY <1>2, <1>12, <1>13, <1>14 DEF PyramidsInv

\* A place that is another node.
LEMMA SkipStep ==
  ASSUME PyramidsInv, Skip
  PROVE  PyramidsInv'
<1>1. /\ PyramidsTyped /\ Sound(S, P, R, MarkNum, calls) /\ calls \in Seq(Frame)
      /\ R \in [Position -> [Position -> Number]]
  BY TypedParts DEF PyramidsInv
<1> DEFINE f == Call
           g == [f EXCEPT !.k = @ + 1]
<1>2. /\ calls # <<>> /\ f.k <= f.r /\ S[f.k + 1] # S[f.l + 1]
      /\ UNCHANGED <<S, P, R, MarkNum, answer>>
  BY DEF Skip, NodeAgain
<1>3. calls' = [calls EXCEPT ![Len(calls)].k = @ + 1]
  BY DEF Skip
<1>4. Len(calls) \in 1 .. Len(calls) /\ f \in Frame
  BY <1>1, <1>2, LastCall, Fields DEF Call
<1>5. calls' = Replaced(calls, g)
  BY <1>1, <1>3, <1>4 DEF Call, Replaced
<1>6. /\ f.l \in Position /\ f.r \in Position /\ f.k \in Nat /\ f.l \in Nat /\ f.r \in Nat
      /\ f.for \in Operands
  BY <1>1, <1>4, Fields DEF Call
<1>7. CallRight(S, P, R, MarkNum, f)
  BY <1>1, <1>4 DEF Sound, Call
<1>8. \A o \in Operands : f.sum[o] = NoValue
  BY <1>2, <1>7 DEF CallRight, Again
<1>9. /\ g \in Frame /\ g.l = f.l /\ g.r = f.r /\ g.k = f.k + 1 /\ g.for = f.for
      /\ \A o \in Operands : g.sum[o] = NoValue
  <2>1. f.k + 1 \in Nat
    BY <1>6
  <2> HIDE DEF f
  <2> QED
    BY <1>4, <1>8, <2>1 DEF Frame
<1> HIDE DEF g
<1>10. R[f.l][f.r] = Cardinality(Before(S, f.l, f.r, f.k + 1)) % Modulus
  <2>1. f.l < f.k /\ R[f.l][f.r] = Cardinality(Before(S, f.l, f.r, f.k)) % Modulus
    BY <1>7 DEF CallRight
  <2>2. f.l \in Int /\ f.r \in Int /\ f.k \in Int
    BY <1>6
  <2>3. Before(S, f.l, f.r, f.k + 1) = Before(S, f.l, f.r, f.k)
    BY <1>2, <2>1, <2>2, OtherNode
  <2> QED
    BY <2>1, <2>3
<1>11. Updated(R, R, f.l, f.r, Cardinality(Before(S, f.l, f.r, f.k + 1)) % Modulus)
  BY <1>10 DEF Updated
<1>12. calls' \in Seq(Frame) /\ calls' # <<>> /\ Sound(S, P, R, MarkNum, calls')
  <2>1. f = calls[Len(calls)] /\ f.k <= f.r /\ calls # <<>>
    BY <1>2 DEF Call
  <2> DEFINE v == Cardinality(Before(S, f.l, f.r, f.k + 1)) % Modulus
  <2>2. v = Cardinality(Before(S, f.l, f.r, f.k + 1)) % Modulus /\ Updated(R, R, f.l, f.r, v)
    BY <1>11
  <2> HIDE DEF f, v
  <2> QED
    BY <1>1, <1>5, <1>9, <2>1, <2>2, Advanced
<1>13. PyramidsTyped'
  BY <1>1, <1>2, <1>12 DEF PyramidsTyped
<1>14. CountsTrees'
  BY <1>12 DEF CountsTrees
<1> QED
  BY <1>2, <1>12, <1>13, <1>14 DEF PyramidsInv

\* The result.
LEMMA GiveBackStep ==
  ASSUME PyramidsInv, GiveBack
  PROVE  PyramidsInv'
<1>1. /\ PyramidsTyped /\ Sound(S, P, R, MarkNum, calls) /\ calls \in Seq(Frame)
      /\ R \in [Position -> [Position -> Number]]
  BY TypedParts DEF PyramidsInv
<1> DEFINE f == Call
           c == Callers
<1>2. /\ calls # <<>> /\ f.k > f.r
      /\ Give(R[f.l][f.r], f.for, c)
      /\ UNCHANGED <<S, P, R, MarkNum>>
  BY DEF GiveBack
<1>3. Len(calls) \in 1 .. Len(calls) /\ Len(calls) \in Nat /\ f \in Frame
  BY <1>1, <1>2, LastCall, Fields DEF Call
<1>4. /\ f.l \in Position /\ f.r \in Position /\ f.k \in Nat /\ f.l \in Nat /\ f.r \in Nat
      /\ f.for \in Operands
  BY <1>1, <1>3, Fields DEF Call
<1>5. c \in Seq(Frame) /\ Len(c) = Len(calls) - 1 /\ \A n \in 1 .. Len(c) : c[n] = calls[n]
  <2> DEFINE m == Len(calls) - 1
  <2>1. m \in Nat /\ m <= Len(calls)
    BY <1>3
  <2>2. c = [n \in 1 .. m |-> calls[n]]
    <3>1. c = [n \in 1 .. (1 + m - 1) |-> calls[1 + n - 1]]
      BY DEF Callers
    <3> QED
      BY <2>1, <3>1
  <2>3. \A n \in 1 .. m : calls[n] \in Frame
    BY <1>1, <1>3, <2>1
  <2> HIDE DEF m, c
  <2>4. c \in Seq(Frame) /\ Len(c) = m /\ \A n \in 1 .. m : c[n] = calls[n]
    BY <2>1, <2>2, <2>3
  <2> QED
    BY <2>4 DEF m
<1>6. CallRight(S, P, R, MarkNum, f)
  BY <1>1, <1>3 DEF Sound, Call
<1>7. R[f.l][f.r] = Count(S, f.l, f.r)
  <2>1. f.l # f.r /\ R[f.l][f.r] = Cardinality(Before(S, f.l, f.r, f.k)) % Modulus
    BY <1>6 DEF CallRight
  <2>2. f.l \in Int /\ f.r \in Int /\ f.k \in Int
    BY <1>4
  <2>3. Before(S, f.l, f.r, f.k) = Walks(S, f.l, f.r)
    BY <1>2, <2>1, <2>2, AllBefore
  <2> QED
    BY <2>1, <2>3 DEF Count
<1>8. R[f.l][f.r] \in Number
  BY <1>1, <1>4
<1>9. \A n \in 1 .. Len(c) : n \in 1 .. Len(calls)
  BY <1>3, <1>5
<1>10. c # <<>> => Len(c) \in 1 .. Len(c) /\ 1 \in 1 .. Len(c)
  BY <1>5, LastCall
<1> HIDE DEF c
<1>11. Sound(S, P, R, MarkNum, c)
  <2>1. \A n \in 1 .. Len(c) : CallRight(S, P, R, MarkNum, c[n])
    BY <1>1, <1>5, <1>9 DEF Sound
  <2>2. Nested(S, MarkNum, c)
    <3>1. ASSUME NEW n \in 1 .. Len(c), n > 1 PROVE Asks(S, c[n - 1], c[n].for, c[n].l, c[n].r)
      <4>1. n - 1 \in 1 .. Len(c)
        BY <3>1
      <4>2. Asks(S, calls[n - 1], calls[n].for, calls[n].l, calls[n].r)
        BY <1>1, <1>9, <3>1 DEF Sound, Nested
      <4> QED
        BY <1>5, <4>1, <4>2
    <3>2. \A m, n \in 1 .. Len(c) : m < n => c[n].r - c[n].l < c[m].r - c[m].l
      BY <1>1, <1>5, <1>9 DEF Sound, Nested
    <3>3. c # <<>> => MarkNum > 0 /\ S # <<>> /\ c[1].l = 0 /\ c[1].r = Len(S) - 1
      BY <1>1, <1>2, <1>5, <1>10 DEF Sound, Nested
    <3> QED
      BY <3>1, <3>2, <3>3 DEF Nested
  <2>3. Remembered(S, P, R, MarkNum, c)
    <3> SUFFICES ASSUME NEW x \in Position, NEW y \in Position
                 PROVE  /\ P[x][y] <= MarkNum
                        /\ P[x][y] = MarkNum /\ MarkNum > 0 => R[x][y] = Count(S, x, y) \/ Computes(c, x, y)
      BY DEF Remembered
    <3>1. /\ P[x][y] <= MarkNum
          /\ P[x][y] = MarkNum /\ MarkNum > 0 => R[x][y] = Count(S, x, y) \/ Computes(calls, x, y)
      BY <1>1 DEF Sound, Remembered
    <3>2. ASSUME Computes(calls, x, y) PROVE R[x][y] = Count(S, x, y) \/ Computes(c, x, y)
      <4>1. PICK n \in 1 .. Len(calls) : calls[n].l = x /\ calls[n].r = y
        BY <3>2 DEF Computes
      <4>2. CASE n = Len(calls)
        BY <1>7, <4>1, <4>2 DEF Call
      <4>3. CASE n # Len(calls)
        <5>1. n \in 1 .. Len(c)
          BY <1>3, <1>5, <4>3
        <5> QED
          BY <1>5, <4>1, <5>1 DEF Computes
      <4> QED
        BY <4>2, <4>3
    <3> QED
      BY <3>1, <3>2
  <2> QED
    BY <2>1, <2>2, <2>3 DEF Sound
<1>12. c = <<>> => R[f.l][f.r] = Count(S, 0, Len(S) - 1)
  <2> SUFFICES ASSUME c = <<>> PROVE f.l = 0 /\ f.r = Len(S) - 1
    BY <1>7
  <2>1. Len(c) = 0
    OBVIOUS
  <2>2. Len(calls) = 1
    BY <1>3, <1>5, <2>1
  <2> QED
    BY <1>1, <1>2, <2>2 DEF Sound, Nested, Call
<1>13. c # <<>> => \E l, r : Asks(S, c[Len(c)], f.for, l, r) /\ R[f.l][f.r] = Count(S, l, r)
  <2> SUFFICES ASSUME c # <<>> PROVE Asks(S, c[Len(c)], f.for, f.l, f.r)
    BY <1>7
  <2>1. Len(c) \in 1 .. Len(c) /\ Len(calls) > 1 /\ Len(calls) - 1 = Len(c)
    BY <1>3, <1>5, <1>10
  <2>2. Asks(S, calls[Len(calls) - 1], f.for, f.l, f.r)
    BY <1>1, <1>3, <2>1 DEF Sound, Nested, Call
  <2> QED
    BY <1>5, <2>1, <2>2
<1> HIDE DEF f
<1>14. QED
  BY <1>1, <1>2, <1>4, <1>5, <1>8, <1>11, <1>12, <1>13, Given

\* Other programs at work leave Pyramids alone.
LEMMA PyramidsStutters ==
  ASSUME PyramidsInv, UNCHANGED pyramids
  PROVE  PyramidsInv'
<1>1. UNCHANGED <<S, P, R, MarkNum, calls, answer>>
  BY DEF pyramids
<1>2. PyramidsTyped'
  BY <1>1 DEF PyramidsInv, PyramidsTyped
<1>3. Sound(S, P, R, MarkNum, calls)'
  BY <1>1 DEF PyramidsInv
<1>4. CountsTrees'
  BY <1>1 DEF PyramidsInv, CountsTrees
<1> QED
  BY <1>2, <1>3, <1>4 DEF PyramidsInv

\* Nothing is answered yet, and no result is marked.
LEMMA InitCounts == InitPyramids => PyramidsInv
<1> SUFFICES ASSUME InitPyramids PROVE PyramidsInv
  OBVIOUS
<1>1. /\ S = <<>> /\ MarkNum = 0 /\ calls = <<>> /\ answer = 0
      /\ P = [l \in Position |-> [r \in Position |-> 0]]
      /\ R = [l \in Position |-> [r \in Position |-> 0]]
  BY DEF InitPyramids
<1>2. PyramidsTyped
  <2>1. Len(S) = 0 /\ 0 < Room /\ S \in Seq(STRING) /\ calls \in Seq(Frame)
    BY <1>1, PyramidsAssumption
  <2> QED
    BY <1>1, <2>1, Positions DEF PyramidsTyped
<1>3. Sound(S, P, R, MarkNum, calls)
  <2>1. Nested(S, MarkNum, calls)
    BY <1>1 DEF Nested
  <2>2. Remembered(S, P, R, MarkNum, calls)
    BY <1>1 DEF Remembered
  <2> QED
    BY <1>1, <2>1, <2>2 DEF Sound
<1>4. CountsTrees
  BY <1>1 DEF CountsTrees
<1> QED
  BY <1>2, <1>3, <1>4 DEF PyramidsInv

\* The invariant is inductive.
LEMMA PyramidsInvariant == PyramidsSpec => []PyramidsInv
<1>1. PyramidsInv /\ [PyramidsStep]_pyramids => PyramidsInv'
  BY AskStep, EvaluateStep, AddStep, SkipStep, GiveBackStep, PyramidsStutters DEF PyramidsStep
<1> QED
  BY InitCounts, <1>1, PTL DEF PyramidsSpec

\* Each line is answered with the number of trees whose walk it is.
THEOREM CountsAllTrees == PyramidsSpec => []CountsTrees
<1>1. PyramidsInv => CountsTrees
  BY DEF PyramidsInv
<1> QED
  BY PyramidsInvariant, <1>1, PTL
===============================================================================
