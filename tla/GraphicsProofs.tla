---------------------------- MODULE GraphicsProofs -----------------------------
(***************************************************************************)
(* Proofs about Fonts, for any pictures, lists of characters, glyphs,      *)
(* sizes and screens: LoadBitmap leaves out no ink and takes no character  *)
(* for two, and DrawText puts no glyph over another; and about Viewer, for *)
(* pictures and viewers of any sizes: the picture is shown whole, in the   *)
(* middle of the viewer.                                                   *)
(***************************************************************************)
EXTENDS Fonts, Viewer, SequenceTheorems, NaturalsInduction, WellFoundedInduction, TLAPS

\* The three parts, each by itself.
CuttingSpec == InitCutting /\ [][CuttingStep]_cutting
DrawingSpec == InitDrawing /\ [][DrawingStep]_drawing
ViewerSpec == InitViewer /\ [][ViewerStep]_viewing

-------------------------------------------------------------------------------
(* The columns of a picture.                                                *)

\* A set of numbers that is not empty has a least one, ...
LEMMA Least ==
  ASSUME NEW T \in SUBSET Nat, T # {}
  PROVE  \E x \in T : \A y \in T : x <= y
<1> DEFINE R == OpToRel(<, Nat)
<1>1. IsWellFoundedOn(R, Nat)
  BY NatLessThanWellFounded
<1>2. \A x, y \in T : <<y, x>> \in R <=> y < x
  BY DEF OpToRel
<1> HIDE DEF R
<1>3. PICK x \in T : \A y \in T : ~(<<y, x>> \in R)
  BY <1>1, WFMin
<1>4. \A y \in T : ~(y < x)
  BY <1>2, <1>3, Zenon
<1> QED
  BY <1>4

\* ... and a greatest one, if there is a bound.
LEMMA Greatest ==
  ASSUME NEW n \in Nat, NEW T \in SUBSET (0 .. n), T # {}
  PROVE  \E x \in T : \A y \in T : x >= y
<1> DEFINE U == {n - x : x \in T}
<1>1. U \in SUBSET Nat /\ U # {}
  <2>1. \A x \in T : n - x \in Nat
    OBVIOUS
  <2>2. PICK x \in T : TRUE
    OBVIOUS
  <2>3. n - x \in U
    OBVIOUS
  <2> QED
    BY <2>1, <2>3
<1>2. \E u \in U : \A v \in U : u <= v
  <2> HIDE DEF U
  <2> QED
    BY <1>1, Least
<1>3. PICK x \in T : \A y \in T : n - x <= n - y
  BY <1>2
<1> QED
  BY <1>3

\* A picture, and its first column with ink and the one behind the last.
Picture ==
  /\ ink \in Inks /\ CharSet \in ListLengths

LEMMA InkColumns ==
  ASSUME Picture
  PROVE  /\ DOMAIN ink \subseteq Nat
         /\ minWidth \in DOMAIN ink /\ minWidth \in Nat /\ ink[minWidth]
         /\ maxWidth \in Nat /\ minWidth < maxWidth
         /\ maxWidth - 1 \in DOMAIN ink /\ ink[maxWidth - 1]
         /\ \A x \in DOMAIN ink : ink[x] => minWidth <= x /\ x < maxWidth
         /\ \A x \in minWidth .. maxWidth - 1 : x \in DOMAIN ink /\ ink[x] \in BOOLEAN
         /\ minCharWidth \in Nat
         /\ CharSet \in Nat \ {0}
<1>1. HasInk(ink) /\ \E last \in DOMAIN ink : last >= 0 /\ ink \in [0 .. last -> BOOLEAN]
  BY FontAssumption DEF Picture
<1>2. PICK last \in DOMAIN ink : last >= 0 /\ ink \in [0 .. last -> BOOLEAN]
  BY <1>1
<1>3. DOMAIN ink = 0 .. last /\ last \in Nat
  BY <1>2
<1> DEFINE T == {x \in DOMAIN ink : ink[x]}
<1>4. T # {} /\ T \in SUBSET (0 .. last) /\ T \in SUBSET Nat
  BY <1>1, <1>3 DEF HasInk
<1>5. \E x \in T : \A y \in T : x <= y
  <2> HIDE DEF T
  <2> QED
    BY <1>4, Least
<1>6. \E x \in T : \A y \in T : x >= y
  <2> HIDE DEF T
  <2> QED
    BY <1>3, <1>4, Greatest
<1>7. minWidth \in DOMAIN ink /\ ink[minWidth] /\ \A y \in DOMAIN ink : ink[y] => minWidth <= y
  <2>1. \E x \in DOMAIN ink : ink[x] /\ \A y \in DOMAIN ink : ink[y] => x <= y
    BY <1>5
  <2> QED
    BY <2>1 DEF minWidth
<1> DEFINE greatest == CHOOSE x \in DOMAIN ink : ink[x] /\ \A y \in DOMAIN ink : ink[y] => x >= y
<1>8. greatest \in DOMAIN ink /\ ink[greatest] /\ \A y \in DOMAIN ink : ink[y] => greatest >= y
  <2>1. \E x \in DOMAIN ink : ink[x] /\ \A y \in DOMAIN ink : ink[y] => x >= y
    BY <1>6
  <2> QED
    BY <2>1
<1>9. maxWidth = 1 + greatest
  BY DEF maxWidth
<1> HIDE DEF greatest
<1>10. maxWidth \in Nat /\ maxWidth - 1 = greatest /\ minWidth \in Nat /\ minWidth < maxWidth /\ maxWidth - 1 <= last
  BY <1>3, <1>7, <1>8, <1>9
<1>11. CharSet \in Nat \ {0}
  BY FontAssumption DEF Picture
<1>12. minCharWidth \in Nat
  <2>1. maxWidth - minWidth \in Nat
    BY <1>10
  <2>2. (maxWidth - minWidth) \div CharSet \in Nat
    BY <1>11, <2>1, Z3
  <2> HIDE DEF greatest
  <2> QED
    BY <2>2, Z3 DEF minCharWidth
<1>13. \A x \in minWidth .. maxWidth - 1 : x \in DOMAIN ink /\ ink[x] \in BOOLEAN
  BY <1>2, <1>3, <1>10
<1>14. \A x \in DOMAIN ink : ink[x] => minWidth <= x /\ x < maxWidth
  BY <1>3, <1>7, <1>8, <1>9, <1>10
<1> QED
  BY <1>3, <1>7, <1>8, <1>10, <1>11, <1>12, <1>13, <1>14

-------------------------------------------------------------------------------
(* LoadBitmap.                                                              *)

\* A glyph from column s to the one before t.
Glyph(s, t) ==
  /\ s < t /\ s \in DOMAIN ink /\ ink[s]
  /\ \A x \in s .. t - 1 : ~ink[x] => x - s <= minCharWidth
  /\ \A x \in s .. s + minCharWidth : x \in DOMAIN ink /\ ink[x] => x < t

InGlyph(x) == \E k \in 1 .. Len(cut) : x \in cut[k][1] .. cut[k][2] - 1

\* The glyphs that are cut.
InOrder ==
  /\ cut \in Seq(Nat \X Nat)
  /\ \A k \in 1 .. Len(cut) : Glyph(cut[k][1], cut[k][2])
  /\ \A k \in 2 .. Len(cut) : cut[k - 1][2] < cut[k][1]

\* The glyph that is being cut starts behind the others; ink in front of column
\* j is in one of them.
Scanned ==
  /\ j \in minWidth .. maxWidth
  /\ InOrder /\ Len(cut) < CharSet
  /\ \A k \in 1 .. Len(cut) : cut[k][2] < j
  /\ startscan # -1 =>
       /\ startscan \in minWidth .. j - 1 /\ ink[startscan]
       /\ \A x \in startscan .. j - 1 : ~ink[x] => x - startscan <= minCharWidth
       /\ \A k \in 1 .. Len(cut) : cut[k][2] < startscan
  /\ \A x \in DOMAIN ink : ink[x] /\ x < j => InGlyph(x) \/ (startscan # -1 /\ startscan <= x)

\* Ink is left over only when every character has its glyph.
AllCut ==
  /\ InOrder /\ Len(cut) <= CharSet
  /\ \A x \in DOMAIN ink :
       ink[x] => InGlyph(x) \/ (Len(cut) = CharSet /\ x >= cut[CharSet][2])

CutInv ==
  /\ fontAt \in {"prompt", "glyph", "cut"}
  /\ fontAt = "prompt" => cut = <<>> /\ startscan = -1
  /\ fontAt \in {"glyph", "cut"} => Picture
  /\ fontAt = "glyph" => Scanned
  /\ fontAt = "cut" => AllCut

\* A glyph behind the others.
LEMMA Appended ==
  ASSUME NEW t \in Nat, NEW s \in Nat, InOrder, Glyph(s, t),
         \A k \in 1 .. Len(cut) : cut[k][2] < s,
         cut' = Append(cut, <<s, t>>), UNCHANGED <<ink, CharSet>>
  PROVE  /\ InOrder' /\ (\A k \in 1 .. Len(cut') : cut'[k][2] <= t) /\ Len(cut') = Len(cut) + 1 /\ Len(cut) \in Nat
         /\ cut'[Len(cut')] = <<s, t>>
         /\ \A x \in s .. t - 1 : InGlyph(x)'
         /\ \A x : InGlyph(x) => InGlyph(x)'
<1>1. /\ cut \in Seq(Nat \X Nat) /\ Len(cut) \in Nat /\ <<s, t>> \in Nat \X Nat
      /\ \A k \in 1 .. Len(cut) : cut[k] \in Nat \X Nat
  BY DEF InOrder
<1>2. /\ cut' \in Seq(Nat \X Nat) /\ Len(cut') = Len(cut) + 1
      /\ cut'[Len(cut) + 1] = <<s, t>>
      /\ \A k \in 1 .. Len(cut) : cut'[k] = cut[k]
  BY <1>1, AppendProperties
<1>3. \A a, b : Glyph(a, b)' = Glyph(a, b)
  BY DEF Glyph, minCharWidth, maxWidth, minWidth
<1>8. s < t
  BY DEF Glyph
<1>4. ASSUME NEW k \in 1 .. Len(cut')
      PROVE  Glyph(cut[k][1], cut[k][2])' /\ cut'[k][2] <= t
  <2>1. CASE k = Len(cut) + 1
    <3>1. cut'[k] = <<s, t>>
      BY <1>2, <2>1
    <3> QED
      BY <1>3, <3>1
  <2>2. CASE k # Len(cut) + 1
    <3>1. k \in 1 .. Len(cut)
      BY <1>1, <1>2, <2>2
    <3>2. Glyph(cut[k][1], cut[k][2]) /\ cut[k][2] \in Nat /\ cut[k][2] < s
      BY <1>1, <3>1 DEF InOrder
    <3>3. cut'[k] = cut[k]
      BY <1>2, <3>1
    <3>4. Glyph(cut[k][1], cut[k][2])'
      BY <1>3, <3>2, <3>3
    <3> QED
      BY <1>8, <3>2, <3>3, <3>4
  <2> QED
    BY <2>1, <2>2
<1>5. ASSUME NEW k \in 2 .. Len(cut')
      PROVE  cut'[k - 1][2] < cut'[k][1]
  <2>1. CASE k = Len(cut) + 1
    <3>1. k - 1 = Len(cut) /\ k - 1 \in 1 .. Len(cut)
      BY <1>1, <2>1
    <3> QED
      BY <1>2, <2>1, <3>1, SMTT(30)
  <2>2. CASE k # Len(cut) + 1
    <3>1. k \in 2 .. Len(cut) /\ k \in 1 .. Len(cut) /\ k - 1 \in 1 .. Len(cut)
      BY <1>1, <1>2, <2>2, SMTT(30)
    <3> QED
      BY <1>2, <3>1 DEF InOrder
  <2> QED
    BY <2>1, <2>2
<1>6. \A x \in s .. t - 1 : InGlyph(x)'
  <2>1. Len(cut) + 1 \in 1 .. Len(cut')
    BY <1>1, <1>2
  <2> QED
    BY <1>2, <2>1 DEF InGlyph
<1>7. \A x : InGlyph(x) => InGlyph(x)'
  <2>1. \A k \in 1 .. Len(cut) : k \in 1 .. Len(cut')
    BY <1>1, <1>2
  <2> QED
    BY <1>2, <2>1 DEF InGlyph
<1> QED
  BY <1>1, <1>2, <1>4, <1>5, <1>6, <1>7, <1>8 DEF InOrder

LEMMA ColumnsOf ==
  Picture => /\ minWidth \in Nat /\ maxWidth \in Nat /\ minWidth < maxWidth /\ CharSet \in Nat \ {0}
             /\ \A x \in DOMAIN ink : ink[x] => minWidth <= x
             /\ DOMAIN ink \subseteq Nat
BY InkColumns

LEMMA Loads ==
  ASSUME CutInv, LoadBitmap
  PROVE  CutInv'
<1>1. fontAt' = "glyph" /\ cut' = <<>> /\ startscan' = -1 /\ j' = minWidth' /\ Picture'
  BY DEF LoadBitmap, CutInv, Picture
<1>2. (/\ minWidth \in Nat /\ maxWidth \in Nat /\ minWidth < maxWidth /\ CharSet \in Nat \ {0}
       /\ \A x \in DOMAIN ink : ink[x] => minWidth <= x
       /\ DOMAIN ink \subseteq Nat)'
  BY <1>1, ColumnsOf, PTL
<1>3. Len(cut') = 0 /\ cut' \in Seq(Nat \X Nat)
  BY <1>1
<1>4. InOrder'
  BY <1>3 DEF InOrder
<1>5. Scanned'
  BY <1>1, <1>2, <1>3, <1>4 DEF Scanned
<1> QED
  BY <1>1, <1>5 DEF CutInv

LEMMA Scans ==
  ASSUME CutInv, Column
  PROVE  CutInv'
<1>1. fontAt = "glyph" /\ j < maxWidth /\ j' = j + 1 /\ UNCHANGED <<ink, CharSet>> /\ Picture /\ Scanned
  BY DEF Column, CutInv
<1>2. /\ minWidth' = minWidth /\ maxWidth' = maxWidth /\ minCharWidth' = minCharWidth /\ Picture'
  BY <1>1 DEF minWidth, maxWidth, minCharWidth, Picture
<1>3. /\ DOMAIN ink \subseteq Nat
      /\ minWidth \in Nat /\ maxWidth \in Nat /\ minCharWidth \in Nat /\ CharSet \in Nat \ {0}
      /\ maxWidth - 1 \in DOMAIN ink /\ ink[maxWidth - 1]
      /\ \A x \in DOMAIN ink : ink[x] => minWidth <= x /\ x < maxWidth
      /\ \A x \in minWidth .. maxWidth - 1 : x \in DOMAIN ink /\ ink[x] \in BOOLEAN
  BY <1>1, InkColumns
<1>4. j \in Nat /\ j >= minWidth /\ j \in DOMAIN ink /\ cut \in Seq(Nat \X Nat) /\ Len(cut) \in Nat
      /\ \A k \in 1 .. Len(cut) : cut[k][1] \in Nat /\ cut[k][2] \in Nat
  BY <1>1, <1>3, SMTT(30) DEF Scanned, InOrder
<1> DEFINE start == IF ink[j] /\ startscan = -1 THEN j ELSE startscan
<1>5. CASE EndsAt(start)
  <2>1. ~ink[j] /\ startscan # -1 /\ start = startscan /\ j - startscan > minCharWidth
    BY <1>5 DEF EndsAt
  <2>2. cut' = Append(cut, <<startscan, j>>) /\ startscan' = -1
        /\ fontAt' = (IF j + 1 < maxWidth /\ Len(cut') < CharSet THEN "glyph" ELSE "cut")
    BY <1>5, <2>1 DEF Column, Cut
  <2>3. startscan \in minWidth .. j - 1 /\ startscan \in Nat /\ ink[startscan] /\ startscan \in DOMAIN ink
        /\ \A k \in 1 .. Len(cut) : cut[k][2] < startscan
    BY <1>1, <1>3, <1>4, <2>1, SMTT(30) DEF Scanned
  <2>4. Glyph(startscan, j)
    <3>1. \A x \in startscan .. j - 1 : ~ink[x] => x - startscan <= minCharWidth
      BY <1>1, <2>1 DEF Scanned
    <3>2. \A x \in startscan .. startscan + minCharWidth : x < j
      BY <1>3, <1>4, <2>1, <2>3, SMTT(30)
    <3> QED
      BY <1>4, <2>3, <3>1, <3>2 DEF Glyph
  <2>5. j + 1 < maxWidth
    BY <1>1, <1>3, <1>4, <2>1
  <2>6. /\ InOrder' /\ (\A k \in 1 .. Len(cut') : cut'[k][2] <= j) /\ Len(cut') = Len(cut) + 1
        /\ cut'[Len(cut')] = <<startscan, j>>
        /\ \A x \in startscan .. j - 1 : InGlyph(x)'
        /\ \A x : InGlyph(x) => InGlyph(x)'
    BY <1>1, <1>4, <2>2, <2>3, <2>4, Appended DEF Scanned
  <2>7. ASSUME NEW x \in DOMAIN ink, ink[x], x < j + 1
        PROVE  InGlyph(x)'
    <3>1. x < j /\ x \in Nat
      BY <1>3, <1>4, <2>1, <2>7, SMTT(30)
    <3>2. InGlyph(x) \/ startscan <= x
      BY <1>1, <2>7, <3>1 DEF Scanned
    <3> QED
      BY <1>4, <2>3, <2>6, <3>1, <3>2
  <2>8. CASE Len(cut') < CharSet
    <3>1. fontAt' = "glyph"
      BY <2>2, <2>5, <2>8
    <3>2. \A k \in 1 .. Len(cut') : cut'[k][2] < j'
      <4>1. \A k \in 1 .. Len(cut') : cut'[k][2] \in Nat
        BY <2>6 DEF InOrder
      <4> QED
        BY <1>1, <1>4, <2>6, <4>1
    <3>3. Scanned'
      BY <1>1, <1>2, <1>3, <1>4, <2>2, <2>5, <2>6, <2>7, <2>8, <3>2, SMTT(30) DEF Scanned
    <3> QED
      BY <1>2, <3>1, <3>3 DEF CutInv
  <2>9. CASE ~(Len(cut') < CharSet)
    <3>1. fontAt' = "cut"
      BY <2>2, <2>9
    <3>2. Len(cut') = CharSet
      BY <1>1, <1>3, <1>4, <2>6, <2>9, SMTT(30) DEF Scanned
    <3>3. AllCut'
      <4>1. ASSUME NEW x \in DOMAIN ink', ink'[x], ~InGlyph(x)'
            PROVE  x >= cut'[CharSet'][2]
        BY <1>1, <1>3, <1>4, <2>6, <2>7, <3>2, <4>1, SMTT(30)
      <4> QED
        BY <1>1, <1>2, <2>6, <3>2, <4>1 DEF AllCut
    <3> QED
      BY <1>2, <3>1, <3>3 DEF CutInv
  <2> QED
    BY <2>8, <2>9
<1>6. CASE ~EndsAt(start)
  <2>1. startscan' = start /\ UNCHANGED <<cut, fontAt>>
    BY <1>6 DEF Column
  <2>2. ink[j] \in BOOLEAN
    BY <1>1, <1>3, <1>4
  <2>3. start # -1 =>
          /\ start \in minWidth .. j /\ ink[start]
          /\ \A x \in start .. j : ~ink[x] => x - start <= minCharWidth
          /\ \A k \in 1 .. Len(cut) : cut[k][2] < start
    <3>1. CASE ink[j] /\ startscan = -1
      BY <1>1, <1>3, <1>4, <3>1 DEF Scanned, InOrder
    <3>2. CASE ~(ink[j] /\ startscan = -1)
      <4>1. start = startscan
        BY <3>2
      <4>2. startscan # -1 => ink[j] \/ j - startscan <= minCharWidth
        <5>1. startscan # -1 => startscan \in minWidth .. j - 1
          BY <1>1 DEF Scanned
        <5> QED
          BY <1>3, <1>4, <1>6, <4>1, <5>1, SMTT(30) DEF EndsAt
      <4>3. startscan # -1 =>
              /\ startscan \in minWidth .. j - 1 /\ ink[startscan]
              /\ \A x \in startscan .. j - 1 : ~ink[x] => x - startscan <= minCharWidth
              /\ \A k \in 1 .. Len(cut) : cut[k][2] < startscan
        BY <1>1 DEF Scanned
      <4>4. startscan # -1 => \A x \in startscan .. j : x = j \/ x \in startscan .. j - 1
        BY <1>3, <1>4, <4>3
      <4>5. startscan # -1 => startscan \in minWidth .. j
        BY <1>3, <1>4, <4>3
      <4> HIDE DEF start
      <4> QED
        BY <4>1, <4>2, <4>3, <4>4, <4>5
    <3> QED
      BY <3>1, <3>2
  <2>4. InOrder' /\ \A k \in 1 .. Len(cut') : cut'[k][2] < j'
    <3>1. \A a, b : Glyph(a, b)' = Glyph(a, b)
      BY <1>1, <1>2 DEF Glyph
    <3>2. InOrder /\ \A k \in 1 .. Len(cut) : cut[k][2] < j
      BY <1>1 DEF Scanned
    <3> QED
      BY <1>1, <1>4, <2>1, <3>1, <3>2, SMTT(30) DEF InOrder
  <2>5. ASSUME NEW x \in DOMAIN ink, ink[x], x < j + 1
        PROVE  InGlyph(x)' \/ (start # -1 /\ start <= x)
    <3>1. CASE x = j
      BY <1>1, <1>4, <2>5, <3>1 DEF Scanned
    <3>2. CASE x # j
      <4>1. x < j /\ x \in Nat
        BY <1>3, <1>4, <2>5, <3>2
      <4>2. InGlyph(x) \/ (startscan # -1 /\ startscan <= x)
        BY <1>1, <2>5, <4>1 DEF Scanned
      <4> QED
        BY <2>1, <4>2 DEF InGlyph
    <3> QED
      BY <3>1, <3>2
  <2>6. Scanned'
    <3> HIDE DEF start
    <3> QED
      BY <1>1, <1>2, <1>3, <1>4, <2>1, <2>3, <2>4, <2>5 DEF Scanned
  <2> QED
    BY <1>1, <1>2, <2>1, <2>6 DEF CutInv
<1> QED
  BY <1>5, <1>6

LEMMA Ends ==
  ASSUME CutInv, RightEnd
  PROVE  CutInv'
<1>1. fontAt = "glyph" /\ fontAt' = "cut" /\ j = maxWidth /\ UNCHANGED <<ink, CharSet, j>> /\ Picture /\ Scanned
  BY DEF RightEnd, CutInv
<1>2. minWidth' = minWidth /\ maxWidth' = maxWidth /\ minCharWidth' = minCharWidth /\ Picture'
  BY <1>1 DEF minWidth, maxWidth, minCharWidth, Picture
<1>3. /\ DOMAIN ink \subseteq Nat
      /\ minWidth \in Nat /\ maxWidth \in Nat /\ minCharWidth \in Nat /\ CharSet \in Nat \ {0}
      /\ \A x \in DOMAIN ink : ink[x] => minWidth <= x /\ x < maxWidth
      /\ \A x \in minWidth .. maxWidth - 1 : x \in DOMAIN ink
  BY <1>1, InkColumns
<1>4. InOrder /\ Len(cut) \in Nat /\ Len(cut) < CharSet
      /\ \A k \in 1 .. Len(cut) : cut[k][1] \in Nat /\ cut[k][2] \in Nat
  <2>1. InOrder /\ Len(cut) < CharSet
    BY <1>1 DEF Scanned
  <2>2. cut \in Seq(Nat \X Nat)
    BY <2>1 DEF InOrder
  <2> QED
    BY <2>1, <2>2
<1>5. CASE startscan # -1
  <2>1. cut' = Append(cut, <<startscan, j>>)
    BY <1>5 DEF RightEnd, Cut
  <2>2. startscan \in minWidth .. j - 1 /\ startscan \in Nat /\ startscan \in DOMAIN ink /\ ink[startscan]
        /\ \A k \in 1 .. Len(cut) : cut[k][2] < startscan
    BY <1>1, <1>3, <1>5 DEF Scanned
  <2>3. Glyph(startscan, j)
    BY <1>1, <1>3, <1>5, <2>2 DEF Scanned, Glyph
  <2>4. /\ InOrder' /\ Len(cut') = Len(cut) + 1
        /\ \A x \in startscan .. j - 1 : InGlyph(x)'
        /\ \A x : InGlyph(x) => InGlyph(x)'
    <3>1. j \in Nat
      BY <1>1, <1>3
    <3> QED
      BY <1>1, <1>2, <1>4, <2>1, <2>2, <2>3, <3>1, Appended
  <2>5. ASSUME NEW x \in DOMAIN ink, ink[x]
        PROVE  InGlyph(x)'
    <3>1. x \in Nat /\ x < j
      BY <1>1, <1>3, <2>5
    <3>2. InGlyph(x) \/ startscan <= x
      BY <1>1, <2>5, <3>1 DEF Scanned
    <3> QED
      BY <1>1, <1>3, <2>2, <2>4, <3>1, <3>2
  <2>6. AllCut'
    BY <1>1, <1>2, <1>3, <1>4, <2>4, <2>5 DEF AllCut
  <2> QED
    BY <1>1, <1>2, <2>6 DEF CutInv
<1>6. CASE startscan = -1
  <2>1. UNCHANGED cut
    BY <1>6 DEF RightEnd
  <2>2. \A x \in DOMAIN ink : ink[x] => InGlyph(x)'
    <3>1. \A x \in DOMAIN ink : ink[x] => InGlyph(x)
      BY <1>1, <1>3, <1>6 DEF Scanned
    <3> QED
      BY <2>1, <3>1 DEF InGlyph
  <2>3. InOrder'
    <3>1. \A a, b : Glyph(a, b)' = Glyph(a, b)
      BY <1>1, <1>2 DEF Glyph
    <3> QED
      BY <1>1, <1>2, <1>3, <1>4, <2>1, <3>1 DEF InOrder
  <2>4. AllCut'
    BY <1>1, <1>2, <1>3, <1>4, <2>1, <2>2, <2>3 DEF AllCut
  <2> QED
    BY <1>1, <1>2, <2>4 DEF CutInv
<1> QED
  BY <1>5, <1>6

LEMMA CutInvariant == CuttingSpec => []CutInv
<1>1. InitCutting => CutInv
  BY DEF InitCutting, CutInv
<1>2. CutInv /\ [CuttingStep]_cutting => CutInv'
  <2> SUFFICES ASSUME CutInv, [CuttingStep]_cutting PROVE CutInv'
    OBVIOUS
  <2>1. CASE CuttingStep
    BY <2>1, Loads, Scans, Ends DEF CuttingStep
  <2>2. CASE UNCHANGED cutting
    <3>1. UNCHANGED <<ink, CharSet, j, startscan, cut, fontAt>>
      BY <2>2 DEF cutting
    <3>2. /\ minWidth' = minWidth /\ maxWidth' = maxWidth /\ minCharWidth' = minCharWidth
          /\ Picture' = Picture
      BY <3>1 DEF minWidth, maxWidth, minCharWidth, Picture
    <3>3. \A a, b : Glyph(a, b)' = Glyph(a, b)
      BY <3>1, <3>2 DEF Glyph
    <3>4. InOrder' = InOrder /\ \A x : InGlyph(x)' = InGlyph(x)
      BY <3>1, <3>3 DEF InOrder, InGlyph
    <3>5. Scanned' = Scanned /\ AllCut' = AllCut
      BY <3>1, <3>2, <3>4 DEF Scanned, AllCut
    <3> QED
      BY <3>1, <3>2, <3>5 DEF CutInv
  <2> QED
    BY <2>1, <2>2
<1> QED
  BY <1>1, <1>2, PTL DEF CuttingSpec

\* The glyphs have all the ink, a character is not cut in two at a gap close to
\* its start, and two are in one glyph only when the first is narrow.
THEOREM CutsApart == CuttingSpec => []GlyphsCutApart
<1>1. CutInv => GlyphsCutApart
  <2> SUFFICES ASSUME CutInv, fontAt = "cut" PROVE GlyphsCutApart
    BY DEF GlyphsCutApart
  <2>1. AllCut /\ InOrder /\ cut \in Seq(Nat \X Nat)
    BY DEF CutInv, AllCut, InOrder
  <2>2. DOMAIN cut = 1 .. Len(cut) /\ Len(cut) \in Nat
    BY <2>1, LenProperties
  <2>3. \A k \in DOMAIN cut : Glyph(cut[k][1], cut[k][2]) /\ (k > 1 => cut[k - 1][2] < cut[k][1])
    BY <2>1, <2>2, SMTT(30) DEF InOrder
  <2> QED
    BY <2>1, <2>2, <2>3 DEF GlyphsCutApart, Glyph, AllCut, InGlyph
<1> QED
  BY CutInvariant, <1>1, PTL

-------------------------------------------------------------------------------
(* DrawText.                                                                *)

\* A glyph is no higher than the size of the text.
LEMMA ScaledSizes ==
  ASSUME FontSize \in Nat, NEW c \in Chars
  PROVE  /\ Scaled(CharBitmap(c).w) \in Nat
         /\ Scaled(CharBitmap(c).h) \in Nat /\ Scaled(CharBitmap(c).h) <= FontSize
<1> DEFINE Heights == {Glyphs[d].h : d \in DOMAIN Glyphs}
<1>1. \E h \in Heights : \A d \in DOMAIN Glyphs : Glyphs[d].h <= h
  <2>1. PICK t \in DOMAIN Glyphs : \A d \in DOMAIN Glyphs : Glyphs[d].h <= Glyphs[t].h
    BY FontAssumption
  <2>2. Glyphs[t].h \in Heights
    OBVIOUS
  <2> QED
    BY <2>1, <2>2
<1>2. CharHeight \in Heights /\ \A d \in DOMAIN Glyphs : Glyphs[d].h <= CharHeight
  BY <1>1 DEF CharHeight
<1>3. \A d \in DOMAIN Glyphs : Glyphs[d].w \in Nat \ {0} /\ Glyphs[d].h \in Nat \ {0}
  BY FontAssumption
<1>4. CharHeight \in Nat \ {0}
  BY <1>2, <1>3
<1> HIDE DEF Heights
<1> DEFINE w == CharBitmap(c).w
           h == CharBitmap(c).h
<1>5. w \in Nat /\ h \in Nat /\ h <= CharHeight
  <2>1. CASE c \in DOMAIN Glyphs
    BY <1>2, <1>3, <2>1 DEF CharBitmap
  <2>2. CASE c \notin DOMAIN Glyphs
    <3>1. CharBitmap(c) = [w |-> CharHeight \div 2, h |-> CharHeight]
      BY <2>2 DEF CharBitmap
    <3>2. CharHeight \div 2 \in Nat
      BY <1>4, Z3
    <3> QED
      BY <1>4, <3>1, <3>2
  <2> QED
    BY <2>1, <2>2
<1> HIDE DEF w, h
<1> DEFINE percent == FontRatio
<1>6. percent \in Nat /\ percent * CharHeight <= FontSize * 100
  <2>1. \A m \in Nat, n \in Nat \ {0} : m \div n \in Nat /\ (m \div n) * n <= m
    BY Z3
  <2>2. FontSize * 100 \in Nat
    OBVIOUS
  <2> QED
    BY <1>4, <2>1, <2>2 DEF FontRatio
<1>7. \A m \in Nat : Scaled(m) = (m * percent + 99) \div 100
  BY <1>6, Z3 DEF Scaled
<1> HIDE DEF percent
<1>8. \A m \in Nat : m * percent \in Nat
  BY <1>6, Z3
<1>9. h * percent <= FontSize * 100
  <2>1. h * percent <= CharHeight * percent
    <3>1. \A a, b, r \in Nat : a <= b => a * r <= b * r
      BY Z3
    <3> QED
      BY <1>4, <1>5, <1>6, <3>1
  <2>2. CharHeight * percent = percent * CharHeight
    BY <1>4, <1>6, Z3
  <2> QED
    BY <1>4, <1>5, <1>6, <1>8, <2>1, <2>2
<1>10. \A m \in Nat : (m + 99) \div 100 \in Nat /\ (m <= FontSize * 100 => (m + 99) \div 100 <= FontSize)
  BY Z3
<1>11. Scaled(w) \in Nat /\ Scaled(h) \in Nat /\ Scaled(h) <= FontSize
  BY <1>5, <1>7, <1>8, <1>9, <1>10
<1> QED
  BY <1>11 DEF w, h

\* A CR behind the glyph b.
Returned(b) == \E q \in b.at .. Len(text) : text[q] = "CR"

Placed == [x : Nat, y : Nat, w : Nat, h : 0 .. FontSize, at : 1 .. Len(text)]

\* The glyph b is above the line of currentY, or it is in it and ends before
\* currentX, unless a CR went back over it.
Passed(b) ==
  \/ b.y + FontSize <= currentY
  \/ b.y = currentY /\ (b.x + b.w <= currentX \/ Returned(b))

\* Of two glyphs the first ends where the second starts or above it.
Apart(b, c) ==
  Overlap(b, c) => \E q \in b.at .. c.at : text[q] = "CR" /\ b.y = c.y

DrawInv ==
  /\ FontSize \in Nat /\ screenW \in Nat /\ currentX \in Nat /\ currentY \in Nat
  /\ text \in Seq(Chars)
  /\ boxes \in Seq(Placed)
  /\ FontSize = 0 => boxes = <<>>
  /\ \A k \in 1 .. Len(boxes) : boxes[k].x > 0 => boxes[k].x + boxes[k].w < screenW
  /\ \A k \in 1 .. Len(boxes) : Passed(boxes[k])
  /\ \A k, l \in 1 .. Len(boxes) : k < l => Apart(boxes[k], boxes[l])

LEMMA Starts ==
  ASSUME DrawInv, DrawText
  PROVE  DrawInv'
<1>1. boxes = <<>> /\ UNCHANGED <<text, currentX, currentY, boxes>>
  BY DEF DrawInv, DrawText
<1>2. FontSize' \in Nat /\ screenW' \in Nat
  BY FontAssumption DEF DrawText
<1>3. Len(boxes') = 0 /\ boxes' \in Seq(Placed')
  BY <1>1
<1> QED
  BY <1>1, <1>2, <1>3 DEF DrawInv

\* A character behind the text leaves the glyphs what they are.
LEMMA Longer ==
  ASSUME DrawInv, NEW c \in Chars, text' = Append(text, c), UNCHANGED FontSize
  PROVE  /\ text' \in Seq(Chars) /\ Len(text') = Len(text) + 1 /\ Len(text) \in Nat /\ text'[Len(text')] = c
         /\ boxes \in Seq(Placed')
         /\ \A b \in Placed : b \in Placed' /\ (Returned(b) => Returned(b)')
         /\ \A b \in Placed : c = "CR" => Returned(b)'
         /\ \A b, d \in Placed : Apart(b, d) => Apart(b, d)'
<1>1. text \in Seq(Chars) /\ Len(text) \in Nat
  BY DEF DrawInv
<1>2. /\ text' \in Seq(Chars) /\ Len(text') = Len(text) + 1 /\ text'[Len(text) + 1] = c
      /\ \A q \in 1 .. Len(text) : text'[q] = text[q]
  BY <1>1, AppendProperties
<1>3. \A b \in Placed : b.at \in 1 .. Len(text)
  BY DEF Placed
<1>4. \A b \in Placed : b \in Placed'
  <2>1. \A n \in 1 .. Len(text) : n \in 1 .. Len(text')
    BY <1>1, <1>2
  <2> QED
    BY <2>1 DEF Placed
<1>5. ASSUME NEW b \in Placed
      PROVE  (Returned(b) => Returned(b)') /\ (c = "CR" => Returned(b)')
  <2>1. b.at \in Nat /\ b.at >= 1 /\ b.at <= Len(text)
    BY <1>1, <1>3
  <2>2. \A q \in b.at .. Len(text) : q \in 1 .. Len(text) /\ q \in b.at .. Len(text')
    BY <1>1, <1>2, <2>1
  <2>3. Len(text) + 1 \in b.at .. Len(text')
    BY <1>1, <1>2, <2>1
  <2> QED
    BY <1>2, <2>2, <2>3 DEF Returned
<1>6. ASSUME NEW b \in Placed, NEW d \in Placed, Apart(b, d)
      PROVE  Apart(b, d)'
  <2>1. \A q \in b.at .. d.at : q \in 1 .. Len(text)
    BY <1>1, <1>3
  <2> QED
    BY <1>2, <1>6, <2>1 DEF Apart, Overlap
<1>7. boxes \in Seq(Placed')
  <2>1. boxes \in Seq(Placed)
    BY DEF DrawInv
  <2>2. Len(boxes) \in Nat /\ \A k \in 1 .. Len(boxes) : boxes[k] \in Placed'
    BY <1>4, <2>1, ElementOfSeq
  <2>3. boxes = [k \in 1 .. Len(boxes) |-> boxes[k]]
    BY <2>1
  <2> HIDE DEF Placed
  <2> QED
    BY <2>2, <2>3, SeqDef
<1> QED
  BY <1>1, <1>2, <1>4, <1>5, <1>6, <1>7

LEMMA Blanks ==
  ASSUME DrawInv, NEW c \in Blank, DrawBlank(c)
  PROVE  DrawInv'
<1>1. /\ FontSize # 0 /\ text' = Append(text, c) /\ UNCHANGED <<FontSize, screenW, boxes>>
      /\ FontSize \in Nat /\ currentX \in Nat /\ currentY \in Nat /\ screenW \in Nat /\ boxes \in Seq(Placed)
  BY DEF DrawBlank, DrawInv
<1>2. c \in Chars
  BY DEF Chars
<1>3. /\ text' \in Seq(Chars) /\ boxes \in Seq(Placed')
      /\ \A b \in Placed : Returned(b) => Returned(b)'
      /\ \A b \in Placed : c = "CR" => Returned(b)'
      /\ \A b, d \in Placed : Apart(b, d) => Apart(b, d)'
  BY <1>1, <1>2, Longer
<1>4. FontSize \div 2 \in Nat
  BY <1>1, Z3
<1>5. /\ currentX' \in Nat /\ currentY' \in Nat
      /\ c # "CR" => currentX' >= currentX
      /\ IF c = "LF" THEN currentY' = currentY + FontSize ELSE currentY' = currentY
  <2>1. c \in {"CR", "LF", "TAB", "SP"}
    BY DEF Blank
  <2>2. currentY' = IF c = "LF" THEN currentY + FontSize ELSE currentY
    BY DEF DrawBlank, Newline
  <2>3. CASE c = "CR"
    BY <1>1, <2>2, <2>3 DEF DrawBlank
  <2>4. CASE c = "LF"
    BY <1>1, <2>2, <2>4 DEF DrawBlank
  <2>5. CASE c = "TAB"
    <3>1. currentX' = currentX + 4 * (FontSize \div 2)
      BY <2>5 DEF DrawBlank
    <3> QED
      BY <1>1, <1>4, <2>2, <2>5, <3>1
  <2>6. CASE c = "SP"
    <3>1. currentX' = currentX + FontSize \div 2
      BY <2>6 DEF DrawBlank
    <3> QED
      BY <1>1, <1>4, <2>2, <2>6, <3>1
  <2> QED
    BY <2>1, <2>3, <2>4, <2>5, <2>6
<1>6. \A k \in 1 .. Len(boxes) : boxes[k] \in Placed
  BY <1>1, ElementOfSeq
<1>7. ASSUME NEW k \in 1 .. Len(boxes)
      PROVE  Passed(boxes[k])'
  <2>1. /\ boxes[k] \in Placed
        /\ \/ boxes[k].y + FontSize <= currentY
           \/ boxes[k].y = currentY /\ (boxes[k].x + boxes[k].w <= currentX \/ Returned(boxes[k]))
    BY <1>6 DEF DrawInv, Passed
  <2>2. boxes[k].x \in Nat /\ boxes[k].y \in Nat /\ boxes[k].w \in Nat
    BY <2>1 DEF Placed
  <2>3. Returned(boxes[k])'
        <=> \E q \in boxes[k].at .. Len(text') : text'[q] = "CR"
    BY <1>1 DEF Returned
  <2>4. (Returned(boxes[k]) => Returned(boxes[k])') /\ (c = "CR" => Returned(boxes[k])')
    BY <1>1, <1>3, <2>1, <2>3 DEF Returned
  <2>5. Passed(boxes[k])'
      <=> \/ boxes[k].y + FontSize <= currentY'
          \/ boxes[k].y = currentY' /\ (boxes[k].x + boxes[k].w <= currentX' \/ Returned(boxes[k])')
    BY <1>1 DEF Passed
  <2>6. CASE c = "LF"
    BY <1>1, <1>5, <2>1, <2>2, <2>5, <2>6, SMTT(30)
  <2>7. CASE c # "LF"
    <3>1. currentY' = currentY /\ (currentX' >= currentX \/ Returned(boxes[k])')
      BY <1>5, <2>4, <2>7
    <3> QED
      BY <1>1, <1>5, <2>1, <2>2, <2>4, <2>5, <3>1
  <2> QED
    BY <2>6, <2>7
<1>8. ASSUME NEW k \in 1 .. Len(boxes), NEW l \in 1 .. Len(boxes), k < l
      PROVE  Apart(boxes[k], boxes[l])'
  <2>1. PICK b \in Placed, d \in Placed : b = boxes[k] /\ d = boxes[l]
    BY <1>6
  <2>2. Apart(b, d)
    BY <1>8, <2>1 DEF DrawInv
  <2>3. Apart(b, d)'
    BY <1>3, <2>2
  <2>4. b = boxes'[k] /\ d = boxes'[l]
    BY <1>1, <2>1
  <2> QED
    BY <2>3, <2>4 DEF Apart, Overlap
<1> QED
  BY <1>1, <1>3, <1>5, <1>7, <1>8 DEF DrawInv

LEMMA Draws ==
  ASSUME DrawInv, NEW c \in Chars, DrawGlyph(c)
  PROVE  DrawInv'
<1> DEFINE w == Scaled(CharBitmap(c).w)
           h == Scaled(CharBitmap(c).h)
           fits == currentX + w < screenW
           x == IF fits THEN currentX ELSE 0
           y == IF fits THEN currentY ELSE Newline
           new == [x |-> x, y |-> y, w |-> w, h |-> h, at |-> Len(text) + 1]
<1>1. /\ FontSize # 0 /\ text' = Append(text, c) /\ UNCHANGED <<FontSize, screenW>>
      /\ FontSize \in Nat /\ currentX \in Nat /\ currentY \in Nat /\ screenW \in Nat /\ boxes \in Seq(Placed)
  BY DEF DrawGlyph, DrawInv
<1>2. currentX' = x + w /\ currentY' = y /\ boxes' = Append(boxes, new)
  BY DEF DrawGlyph
<1>3. /\ text' \in Seq(Chars) /\ Len(text') = Len(text) + 1 /\ Len(text) \in Nat /\ boxes \in Seq(Placed')
      /\ \A b \in Placed : b \in Placed' /\ (Returned(b) => Returned(b)')
      /\ \A b, d \in Placed : Apart(b, d) => Apart(b, d)'
  BY <1>1, Longer
<1>4. w \in Nat /\ h \in Nat /\ h <= FontSize
  BY <1>1, ScaledSizes
<1>5. x \in Nat /\ y \in Nat /\ (x > 0 => x + w < screenW)
      /\ ((x = currentX /\ y = currentY) \/ y = currentY + FontSize)
  <2> HIDE DEF w
  <2> QED
    BY <1>1, <1>4 DEF Newline
<1> HIDE DEF w, h, fits, x, y
<1>6. new \in Placed'
  <2>1. Len(text) + 1 \in 1 .. Len(text')
    BY <1>3
  <2>2. h \in 0 .. FontSize'
    BY <1>1, <1>4
  <2> QED
    BY <1>4, <1>5, <2>1, <2>2 DEF Placed
<1>7. new.x = x /\ new.y = y /\ new.w = w /\ new.h = h /\ new.at = Len(text) + 1
  OBVIOUS
<1> HIDE DEF new
<1>8. /\ boxes' \in Seq(Placed') /\ Len(boxes') = Len(boxes) + 1 /\ Len(boxes) \in Nat
      /\ boxes'[Len(boxes) + 1] = new
      /\ \A k \in 1 .. Len(boxes) : boxes'[k] = boxes[k]
  BY <1>2, <1>3, <1>6, AppendProperties
<1>9. \A k \in 1 .. Len(boxes') : k = Len(boxes) + 1 \/ k \in 1 .. Len(boxes)
  BY <1>8
<1>10. \A k \in 1 .. Len(boxes) : boxes[k] \in Placed
  BY <1>1, ElementOfSeq
<1>11. ASSUME NEW k \in 1 .. Len(boxes)
       PROVE  /\ boxes[k].x \in Nat /\ boxes[k].y \in Nat /\ boxes[k].w \in Nat
              /\ boxes[k].h \in Nat /\ boxes[k].h <= FontSize /\ boxes[k].at \in 1 .. Len(text)
  <2>1. boxes[k] \in Placed
    BY <1>10
  <2>2. /\ boxes[k].x \in Nat /\ boxes[k].y \in Nat /\ boxes[k].w \in Nat
        /\ boxes[k].h \in 0 .. FontSize /\ boxes[k].at \in 1 .. Len(text)
    BY <2>1 DEF Placed
  <2> QED
    BY <1>1, <2>2
\* The new glyph is in the line of currentY, where the others have passed, or below it.
<1>12. ASSUME NEW k \in 1 .. Len(boxes)
       PROVE  \/ boxes[k].y + FontSize <= y
              \/ boxes[k].y = y /\ (boxes[k].x + boxes[k].w <= x \/ Returned(boxes[k]))
  <2>1. \/ boxes[k].y + FontSize <= currentY
        \/ boxes[k].y = currentY /\ (boxes[k].x + boxes[k].w <= currentX \/ Returned(boxes[k]))
    BY DEF DrawInv, Passed
  <2>2. boxes[k].x \in Nat /\ boxes[k].y \in Nat /\ boxes[k].w \in Nat
    BY <1>11
  <2>3. CASE x = currentX /\ y = currentY
    BY <2>1, <2>3
  <2>4. CASE y = currentY + FontSize
    BY <1>1, <2>1, <2>2, <2>4, SMTT(30)
  <2> QED
    BY <1>5, <2>3, <2>4
<1>13. \A k \in 1 .. Len(boxes') : boxes'[k].x > 0 => boxes'[k].x + boxes'[k].w < screenW'
  BY <1>1, <1>5, <1>7, <1>8, <1>9 DEF DrawInv
<1>14. ASSUME NEW k \in 1 .. Len(boxes')
       PROVE  Passed(boxes[k])'
  <2>1. CASE k = Len(boxes) + 1
    <3>1. Passed(boxes[k])'
        <=> \/ new.y + FontSize <= currentY'
            \/ new.y = currentY' /\ (new.x + new.w <= currentX' \/ Returned(boxes[k])')
      BY <1>1, <1>8, <2>1 DEF Passed
    <3> QED
      BY <1>2, <1>4, <1>5, <1>7, <3>1
  <2>2. CASE k \in 1 .. Len(boxes)
    <3>1. Returned(boxes[k]) => Returned(boxes[k])'
      BY <1>3, <1>8, <1>10, <2>2 DEF Returned
    <3>2. Passed(boxes[k])'
        <=> \/ boxes[k].y + FontSize <= currentY'
            \/ boxes[k].y = currentY' /\ (boxes[k].x + boxes[k].w <= currentX' \/ Returned(boxes[k])')
      BY <1>1, <1>8, <2>2 DEF Passed
    <3> QED
      BY <1>2, <1>4, <1>5, <1>11, <1>12, <2>2, <3>1, <3>2, SMTT(30)
  <2> QED
    BY <1>9, <2>1, <2>2
<1>15. ASSUME NEW k \in 1 .. Len(boxes'), NEW l \in 1 .. Len(boxes'), k < l
       PROVE  Apart(boxes[k], boxes[l])'
  <2>1. CASE l \in 1 .. Len(boxes)
    <3>1. k \in 1 .. Len(boxes) /\ Apart(boxes[k], boxes[l])
      BY <1>8, <1>9, <1>15, <2>1 DEF DrawInv
    <3>2. boxes'[k] = boxes[k] /\ boxes'[l] = boxes[l]
      BY <1>8, <2>1, <3>1
    <3>3. boxes[k].at \in 1 .. Len(text) /\ boxes[l].at \in 1 .. Len(text)
      BY <1>11, <2>1, <3>1
    <3>4. \A q \in boxes[k].at .. boxes[l].at : q \in 1 .. Len(text)
      BY <1>3, <3>3, SMTT(30)
    <3>5. \A q \in 1 .. Len(text) : text'[q] = text[q]
      BY <1>1, AppendProperties DEF DrawInv
    <3> QED
      BY <3>1, <3>2, <3>4, <3>5 DEF Apart, Overlap
  <2>2. CASE l = Len(boxes) + 1
    <3>1. k \in 1 .. Len(boxes) /\ boxes'[k] = boxes[k] /\ boxes'[l] = new
      BY <1>8, <1>9, <1>15, <2>2
    <3>2. ASSUME Overlap(boxes[k], new)
          PROVE  boxes[k].y = y /\ Returned(boxes[k])
      <4>1. x < boxes[k].x + boxes[k].w /\ y < boxes[k].y + boxes[k].h
        BY <1>7, <3>2 DEF Overlap
      <4>2. /\ boxes[k].x \in Nat /\ boxes[k].y \in Nat /\ boxes[k].w \in Nat
            /\ boxes[k].h \in Nat /\ boxes[k].h <= FontSize
        BY <1>11, <3>1
      <4>3. \/ boxes[k].y + FontSize <= y
            \/ boxes[k].y = y /\ (boxes[k].x + boxes[k].w <= x \/ Returned(boxes[k]))
        BY <1>12, <3>1
      <4>4. ~(boxes[k].y + FontSize <= y)
        BY <1>1, <1>5, <4>1, <4>2, SMTT(30)
      <4>5. ~(boxes[k].x + boxes[k].w <= x)
        BY <1>5, <4>1, <4>2, SMTT(30)
      <4> QED
        BY <4>3, <4>4, <4>5
    <3>3. ASSUME Returned(boxes[k])
          PROVE  \E q \in boxes[k].at .. new.at : text'[q] = "CR"
      <4>1. PICK q \in boxes[k].at .. Len(text) : text[q] = "CR"
        BY <3>3 DEF Returned
      <4>2. q \in 1 .. Len(text) /\ q \in boxes[k].at .. new.at
        BY <1>3, <1>7, <1>11, <3>1, SMTT(30)
      <4>3. text'[q] = text[q]
        BY <1>1, <4>2, AppendProperties DEF DrawInv
      <4> QED
        BY <4>1, <4>2, <4>3
    <3>4. Apart(boxes[k], boxes[l])'
        <=> (Overlap(boxes[k], new) => \E q \in boxes[k].at .. new.at : text'[q] = "CR" /\ boxes[k].y = new.y)
      BY <3>1 DEF Apart, Overlap
    <3> QED
      BY <1>7, <3>2, <3>3, <3>4
  <2> QED
    BY <1>9, <2>1, <2>2
<1>16. FontSize' # 0 /\ FontSize' \in Nat /\ screenW' \in Nat /\ currentX' \in Nat /\ currentY' \in Nat
  BY <1>1, <1>2, <1>4, <1>5
<1>17. \A k \in 1 .. Len(boxes') : Passed(boxes[k])'
  BY <1>14
<1>18. \A k, l \in 1 .. Len(boxes') : k < l => Apart(boxes[k], boxes[l])'
  BY <1>15
<1> QED
  BY <1>3, <1>8, <1>13, <1>16, <1>17, <1>18 DEF DrawInv

LEMMA DrawInvariant == DrawingSpec => []DrawInv
<1>1. InitDrawing => DrawInv
  BY DEF InitDrawing, DrawInv
<1>2. DrawInv /\ [DrawingStep]_drawing => DrawInv'
  <2> SUFFICES ASSUME DrawInv, [DrawingStep]_drawing PROVE DrawInv'
    OBVIOUS
  <2>1. CASE DrawText
    BY <2>1, Starts
  <2>2. ASSUME NEW c \in Chars, DrawBlank(c) PROVE DrawInv'
    <3>1. c \in Blank
      BY <2>2 DEF DrawBlank
    <3> QED
      BY <2>2, <3>1, Blanks
  <2>3. ASSUME NEW c \in Chars, DrawGlyph(c) PROVE DrawInv'
    BY <2>3, Draws
  <2>4. CASE UNCHANGED drawing
    BY <2>4 DEF drawing, DrawInv, Placed, Passed, Returned, Apart, Overlap
  <2> QED
    BY <2>1, <2>2, <2>3, <2>4 DEF DrawingStep
<1> QED
  BY <1>1, <1>2, PTL DEF DrawingSpec

\* No glyph is drawn over another unless a CR went back over the line, nor
\* behind the right border when it fits on the screen.
THEOREM DrawsApart == DrawingSpec => []GlyphsDrawnApart
<1>1. DrawInv => GlyphsDrawnApart
  <2> SUFFICES ASSUME DrawInv PROVE GlyphsDrawnApart
    OBVIOUS
  <2>1. DOMAIN boxes = 1 .. Len(boxes)
    BY LenProperties DEF DrawInv
  <2> QED
    BY <2>1 DEF DrawInv, GlyphsDrawnApart, Apart
<1> QED
  BY DrawInvariant, <1>1, PTL

-------------------------------------------------------------------------------
(* Products and quotients.                                                  *)

\* Products and quotients of numbers.
LEMMA Products ==
  /\ \A m, n \in Nat : m * n \in Nat /\ m * n = n * m
  /\ \A m, n, k \in Nat : m <= n => m * k <= n * k
  /\ \A m, n, k \in Nat : (m + n) * k = m * k + n * k
  /\ \A m \in Nat, n \in Nat \ {0} : m \div n \in Nat /\ m % n \in 0 .. n - 1 /\ m = (m \div n) * n + (m % n)
<1>1. \A m, n \in Nat : m * n \in Nat /\ m * n = n * m
  BY Z3
<1>2. \A m, n, k \in Nat : m <= n => m * k <= n * k
  BY Z3
<1>3. \A m, n, k \in Nat : (m + n) * k = m * k + n * k
  BY Z3
<1>4. \A m \in Nat, n \in Nat \ {0} : m \div n \in Nat /\ m % n \in 0 .. n - 1 /\ m = (m \div n) * n + (m % n)
  BY Z3
<1> QED
  BY <1>1, <1>2, <1>3, <1>4

\* A number is a row and a column in one way only.
LEMMA OnePlace ==
  ASSUME NEW w \in Nat \ {0}, NEW x \in 0 .. w - 1, NEW y \in Nat,
         NEW col \in 0 .. w - 1, NEW i \in Nat, y * w + x = i * w + col
  PROVE  y = i /\ x = col
<1>1. ASSUME NEW m \in Nat, NEW n \in Nat, m < n, NEW u \in 0 .. w - 1, NEW v \in 0 .. w - 1
      PROVE  m * w + u < n * w + v
  <2>1. (m + 1) * w <= n * w
    BY <1>1, Products
  <2>2. (m + 1) * w = m * w + 1 * w /\ 1 * w = w
    BY Products
  <2>3. m * w \in Nat /\ n * w \in Nat
    BY Products
  <2> QED
    BY <2>1, <2>2, <2>3
<1>2. y * w \in Nat /\ i * w \in Nat
  BY Products
<1>3. ~(y < i) /\ ~(i < y)
  BY <1>1, <1>2
<1>4. y = i
  BY <1>3
<1>5. y * w = i * w
  BY <1>4
<1> QED
  BY <1>2, <1>4, <1>5

\* A pixel has its place in the buffer.
LEMMA InBuffer ==
  ASSUME NEW w \in Nat \ {0}, NEW h \in Nat, NEW x \in 0 .. w - 1, NEW y \in 0 .. h - 1
  PROVE  y * w + x \in 0 .. w * h - 1
<1>1. (y + 1) * w <= h * w /\ (y + 1) * w = y * w + w
  <2>1. y \in Nat /\ y + 1 \in Nat /\ y + 1 <= h /\ 1 * w = w
    OBVIOUS
  <2> QED
    BY <2>1, Products
<1>2. y * w \in Nat /\ h * w = w * h /\ h * w \in Nat
  <2>1. y \in Nat
    OBVIOUS
  <2> QED
    BY <2>1, Products
<1> QED
  BY <1>1, <1>2

\* And a place is that of a pixel.
LEMMA OfPlace ==
  ASSUME NEW w \in Nat \ {0}, NEW h \in Nat, NEW q \in 0 .. w * h - 1
  PROVE  q % w \in 0 .. w - 1 /\ q \div w \in 0 .. h - 1 /\ q = (q \div w) * w + (q % w)
<1>1. q \in Nat /\ w * h \in Nat
  BY Products
<1>2. q \div w \in Nat /\ q % w \in 0 .. w - 1 /\ q = (q \div w) * w + (q % w)
  BY <1>1, Products
<1> DEFINE i == q \div w
<1>3. i < h
  <2> SUFFICES ASSUME h <= i PROVE FALSE
    BY <1>2
  <2>1. h * w <= i * w
    BY <1>2, Products
  <2>2. w * h = h * w /\ i * w \in Nat
    BY <1>2, Products
  <2> HIDE DEF i
  <2> QED
    BY <1>1, <1>2, <2>1, <2>2 DEF i
<1> QED
  BY <1>2, <1>3

\* The column and the row of a place.
LEMMA ColumnRow ==
  ASSUME NEW w \in Nat \ {0}, NEW x \in 0 .. w - 1, NEW y \in Nat
  PROVE  (y * w + x) % w = x /\ (y * w + x) \div w = y
<1> DEFINE q == y * w + x
<1>1. q \in Nat
  BY Products
<1>2. q \div w \in Nat /\ q % w \in 0 .. w - 1 /\ q = (q \div w) * w + (q % w)
  BY <1>1, Products
<1> QED
  BY <1>2, OnePlace

-------------------------------------------------------------------------------
(* Ratios.                                                                  *)

\* A percentage is rounded up.
LEMMA RoundedUp ==
  ASSUME NEW n \in Nat, NEW r \in Nat
  PROVE  /\ n * r \in Nat /\ Percent(n, r) \in Nat
         /\ n * r <= 100 * Percent(n, r) /\ 100 * Percent(n, r) <= n * r + 99
<1>1. n * r \in Nat
  BY Products
<1>2. \A m \in Nat : (m + 100 - 1) \div 100 \in Nat /\ m <= 100 * ((m + 100 - 1) \div 100)
                       /\ 100 * ((m + 100 - 1) \div 100) <= m + 99
  BY Z3
<1> QED
  BY <1>1, <1>2 DEF Percent

\* At the ratio Fitting gives, or at a lower one, a length fits.
LEMMA FittingIs ==
  ASSUME NEW n \in Nat \ {0}, NEW room \in Nat \ {0}
  PROVE  /\ Fitting(n, room) \in 0 .. 100
         /\ \A r \in 1 .. Fitting(n, room) : Percent(n, r) \in 1 .. room
<1> DEFINE f == (room * 100) \div n
<1>1. CASE n > room
  <2>1. room * 100 \in Nat
    OBVIOUS
  <2>2. f \in Nat /\ f * n <= room * 100
    <3>1. f \in Nat /\ (room * 100) % n \in 0 .. n - 1 /\ room * 100 = f * n + ((room * 100) % n)
      BY <2>1, Products
    <3>2. f * n \in Nat
      BY <3>1, Products
    <3> DEFINE m == (room * 100) % n
               k == f * n
    <3> HIDE DEF f, m, k
    <3>3. m \in Nat /\ k \in Nat /\ room * 100 = k + m
      BY <3>1, <3>2 DEF m, k
    <3>4. k <= room * 100
      BY <3>3
    <3> QED
      BY <3>1, <3>4 DEF k
  <2> HIDE DEF f
  <2>3. f <= 100
    <3> SUFFICES ASSUME 100 <= f PROVE f = 100
      BY <2>2
    <3>1. 100 * n <= f * n
      BY <2>2, Products
    <3>2. 100 * n > room * 100
      BY <1>1
    <3> QED
      BY <2>2, <3>1, <3>2, Products
  <2>4. ASSUME NEW r \in 1 .. f PROVE Percent(n, r) \in 1 .. room
    <3>1. r \in Nat /\ r * n <= f * n /\ 1 * n <= r * n /\ 1 * n = n
      BY <2>2, <2>4, Products
    <3>2. r * n = n * r
      BY <3>1, Products
    <3>3. \A m, p \in Nat : m <= 100 * p /\ 100 * p <= m + 99 /\ m <= room * 100 /\ m >= n => p \in 1 .. room
      OBVIOUS
    <3>4. n * r <= room * 100 /\ n * r >= n
      <4> DEFINE m == n * r
                 k == f * n
      <4>1. k \in Nat /\ m \in Nat /\ m <= k /\ k <= room * 100 /\ n <= m
        BY <2>2, <3>1, <3>2, Products
      <4> HIDE DEF m, k
      <4>2. m <= room * 100 /\ m >= n
        BY <4>1
      <4> QED
        BY <4>2 DEF m
    <3> QED
      BY <3>1, <3>3, <3>4, RoundedUp
  <2>5. Fitting(n, room) = f
    BY <1>1 DEF Fitting, f
  <2> QED
    BY <2>2, <2>3, <2>4, <2>5
<1>2. CASE n <= room
  <2>1. Fitting(n, room) = 100
    BY <1>2 DEF Fitting
  <2>2. ASSUME NEW r \in 1 .. 100 PROVE Percent(n, r) \in 1 .. room
    <3>1. r * n <= 100 * n /\ 1 * n <= r * n /\ 1 * n = n
      BY Products
    <3>2. r * n = n * r
      BY Products
    <3>3. \A m, p \in Nat : m <= 100 * p /\ 100 * p <= m + 99 /\ m <= 100 * n /\ m >= n => p \in 1 .. room
      BY <1>2
    <3>4. r \in Nat /\ n * r <= 100 * n /\ n * r >= n
      BY <3>1, <3>2
    <3> QED
      BY <3>3, <3>4, RoundedUp
  <2> QED
    BY <2>1, <2>2
<1> QED
  BY <1>1, <1>2

\* No pixel is scaled further than one column behind the last, or none when r is
\* no percent of a picture.
LEMMA Within ==
  ASSUME NEW n \in Nat \ {0}, NEW r \in Nat, NEW col \in 0 .. n - 1
  PROVE  Percent(col, r) \in 0 .. Percent(n, r)
<1>1. col \in Nat /\ col * r <= n * r
  BY Products
<1>2. \A m, k, p, l \in Nat :
        m <= k /\ 100 * p <= m + 99 /\ k <= 100 * l => p \in 0 .. l
  OBVIOUS
<1> QED
  BY <1>1, <1>2, RoundedUp

\* Scaled down, a picture has no hole.
LEMMA Onto ==
  ASSUME NEW n \in Nat \ {0}, NEW r \in 1 .. 100, NEW x \in 0 .. Percent(n, r) - 1
  PROVE  \E col \in 0 .. n - 1 : Percent(col, r) = x
<1> DEFINE col == (x * 100) \div r
<1>1. x \in Nat /\ x * 100 \in Nat /\ r \in Nat \ {0} /\ r \in Nat
  <2>1. Percent(n, r) \in Nat
    <3>1. n \in Nat /\ r \in Nat
      OBVIOUS
    <3> QED
      BY <3>1, RoundedUp
  <2> QED
    BY <2>1
<1>2. col \in Nat /\ col * r \in Nat /\ col * r <= x * 100 /\ x * 100 < col * r + r
  <2>1. col \in Nat /\ (x * 100) % r \in 0 .. r - 1 /\ x * 100 = col * r + ((x * 100) % r)
    BY <1>1, Products
  <2>2. col * r \in Nat
    BY <1>1, <2>1, Products
  <2> DEFINE m == (x * 100) % r
             k == col * r
             u == x * 100
  <2> HIDE DEF col, m, k, u
  <2>3. u \in Nat /\ k \in Nat /\ m \in 0 .. r - 1 /\ u = k + m
    BY <1>1, <2>1, <2>2 DEF m, k, u
  <2>4. k <= u /\ u < k + r
    BY <1>1, <2>3
  <2> QED
    BY <2>1, <2>2, <2>4 DEF k, u
<1> HIDE DEF col
<1>3. Percent(col, r) = x
  <2>1. /\ Percent(col, r) \in Nat
        /\ col * r <= 100 * Percent(col, r) /\ 100 * Percent(col, r) <= col * r + 99
    BY <1>1, <1>2, RoundedUp
  <2> DEFINE m == col * r
             p == Percent(col, r)
  <2> HIDE DEF m, p
  <2>2. /\ m \in Nat /\ p \in Nat /\ m <= 100 * p /\ 100 * p <= m + 99
        /\ m <= x * 100 /\ x * 100 < m + r /\ r <= 100 /\ x \in Nat
    BY <1>1, <1>2, <2>1 DEF m, p
  <2>3. p = x
    BY <2>2
  <2> QED
    BY <2>3 DEF p
<1>4. col < n
  <2> SUFFICES ASSUME n <= col PROVE FALSE
    BY <1>2
  <2>1. n * r <= col * r
    BY <1>1, <1>2, Products
  <2>2. n * r \in Nat /\ Percent(n, r) \in Nat /\ 100 * Percent(n, r) <= n * r + 99
    BY <1>1, RoundedUp
  <2> DEFINE m == col * r
             k == n * r
             p == Percent(n, r)
  <2> HIDE DEF m, k, p
  <2>3. m \in Nat /\ k \in Nat /\ p \in Nat /\ k <= m /\ m <= x * 100 /\ 100 * p <= k + 99 /\ x <= p - 1 /\ x \in Nat
    BY <1>1, <1>2, <2>1, <2>2 DEF m, k, p
  <2> QED
    BY <2>3
<1> QED
  BY <1>2, <1>3, <1>4

-------------------------------------------------------------------------------
(* Screens.                                                                 *)

\* A pixel of a picture, or one of the other colors.
Color == Int \X Int

\* A screen of w by h pixels.
IsScreen(s, w, h) == s \in [W : {w}, H : {h}, Buffer : [0 .. w * h - 1 -> Color]]

\* A new screen and a filled one.
LEMMA NewScreen ==
  ASSUME NEW w \in Nat, NEW h \in Nat
  PROVE  /\ IsScreen(LScreen(w, h), w, h)
         /\ \A s, color : color \in Color /\ IsScreen(s, w, h) =>
              /\ IsScreen(Filled(s, color), w, h)
              /\ \A k \in 0 .. w * h - 1 : Filled(s, color).Buffer[k] = color
<1>1. Black \in Color
  BY DEF Black, Color
<1>2. IsScreen(LScreen(w, h), w, h)
  BY <1>1 DEF IsScreen, LScreen
<1> QED
  BY <1>2 DEF IsScreen, Filled

\* The pixels of s that are set at place k of t.
Here(t, s, X, Y, k) ==
  {q \in DOMAIN s.Buffer : PlaceOf(t, X[q % s.W], Y[q \div s.W]) = k}

\* Each pixel of t is one of those of s that are set there, or what it was.
LEMMA WrittenIs ==
  ASSUME NEW v \in Nat, NEW u \in Nat, NEW t, IsScreen(t, v, u),
         NEW w \in Nat, NEW h \in Nat, NEW s, IsScreen(s, w, h), NEW X, NEW Y
  PROVE  /\ IsScreen(Written(t, s, X, Y), v, u)
         /\ \A k \in 0 .. v * u - 1 :
              IF Here(t, s, X, Y, k) = {} THEN Written(t, s, X, Y).Buffer[k] = t.Buffer[k]
              ELSE \E q \in Here(t, s, X, Y, k) : Written(t, s, X, Y).Buffer[k] = s.Buffer[q]
<1> DEFINE H(k) == Here(t, s, X, Y, k)
           last(k) == CHOOSE q \in H(k) : \A r \in H(k) : r <= q
           b == [k \in 0 .. v * u - 1 |-> IF H(k) = {} THEN t.Buffer[k] ELSE s.Buffer[last(k)]]
<1>1. /\ t = [W |-> v, H |-> u, Buffer |-> t.Buffer] /\ t.Buffer \in [0 .. v * u - 1 -> Color]
      /\ s = [W |-> w, H |-> h, Buffer |-> s.Buffer] /\ s.Buffer \in [0 .. w * h - 1 -> Color]
  BY DEF IsScreen
<1>2. ASSUME NEW k, H(k) # {} PROVE last(k) \in H(k)
  <2>1. H(k) \in SUBSET (0 .. w * h)
    BY <1>1 DEF Here
  <2>2. w * h \in Nat
    BY Products
  <2> HIDE DEF H
  <2>3. PICK x \in H(k) : \A y \in H(k) : x >= y
    BY <1>2, <2>1, <2>2, Greatest
  <2>4. \A y \in H(k) : y <= x
    BY <2>1, <2>3
  <2> QED
    BY <2>4
<1>3. \A k : H(k) # {} => s.Buffer[last(k)] \in Color
  <2>1. \A k : H(k) \in SUBSET (0 .. w * h - 1)
    BY <1>1 DEF Here
  <2> HIDE DEF H, last
  <2> QED
    BY <1>1, <1>2, <2>1
<1>4. Written(t, s, X, Y) = [t EXCEPT !.Buffer = b]
  BY <1>1 DEF Written, Here
<1>5. b \in [0 .. v * u - 1 -> Color]
  <2> HIDE DEF H, last
  <2> QED
    BY <1>1, <1>3
<1>6. IsScreen(Written(t, s, X, Y), v, u) /\ Written(t, s, X, Y).Buffer = b
  <2> HIDE DEF b
  <2> QED
    BY <1>1, <1>4, <1>5 DEF IsScreen
<1>7. ASSUME NEW k \in 0 .. v * u - 1
      PROVE  IF H(k) = {} THEN b[k] = t.Buffer[k] ELSE \E q \in H(k) : b[k] = s.Buffer[q]
  <2> HIDE DEF H, last
  <2> QED
    BY <1>2
<1> HIDE DEF b
<1> QED
  BY <1>6, <1>7

-------------------------------------------------------------------------------
(* Loading.                                                                 *)

\* A pixel is read as it is in the file where the rows up to it are not padded.
LEMMA PixelIs ==
  ASSUME NEW w \in Nat \ {0}, NEW h \in Nat \ {0}, NEW col \in 0 .. w - 1, NEW i \in 0 .. h - 1
  PROVE  /\ PixelRead((h - 1 - i) * w + col, w, h) \in Color
         /\ (3 * w) % 4 = 0 \/ i = h - 1 => PixelRead((h - 1 - i) * w + col, w, h) = <<col, i>>
<1> DEFINE m == h - 1 - i
           n == m * w + col
           rowBytes == 4 * ((3 * w + 3) \div 4)
           b == InFile(3 * n, w, h)
<1>1. m \in Nat /\ n \in Nat /\ m * w \in Nat /\ h - 1 - m = i /\ 3 * n \in Nat
  <2>1. m \in Nat /\ h - 1 - m = i
    OBVIOUS
  <2> HIDE DEF m
  <2>2. m * w \in Nat
    BY <2>1, Products
  <2> QED
    BY <2>1, <2>2
<1>2. rowBytes \in Nat \ {0} /\ rowBytes >= 3 * w /\ ((3 * w) % 4 = 0 => rowBytes = 3 * w)
  BY Z3
<1>3. b = <<((3 * n) % rowBytes) \div 3, h - 1 - ((3 * n) \div rowBytes), ((3 * n) % rowBytes) % 3>>
  BY DEF InFile
<1> HIDE DEF rowBytes, m, n
<1>4. PixelRead(n, w, h) \in Color
  <2> DEFINE x == (3 * n) % rowBytes
             y == (3 * n) \div rowBytes
  <2>1. x \in Nat /\ y \in Nat
    BY <1>1, <1>2, Products
  <2> HIDE DEF x, y
  <2>2. x \div 3 \in Nat
    BY <2>1, Z3
  <2>3. b[1] \in Int /\ b[2] \in Int
    <3>1. b = <<x \div 3, h - 1 - y, x % 3>>
      BY <1>3 DEF x, y
    <3> QED
      BY <2>1, <2>2, <3>1
  <2>4. Mixed \in Color
    BY DEF Mixed, Color
  <2> HIDE DEF b
  <2>5. PixelRead(n, w, h) = IF b[3] = 0 /\ b[1] < w THEN <<b[1], b[2]>> ELSE Mixed
    BY DEF PixelRead, b
  <2> QED
    BY <2>3, <2>4, <2>5 DEF Color
<1>5. ASSUME (3 * w) % 4 = 0 \/ i = h - 1 PROVE PixelRead(n, w, h) = <<col, i>>
  <2>1. 3 * n = m * rowBytes + 3 * col
    <3>1. CASE (3 * w) % 4 = 0
      <4>1. rowBytes = 3 * w
        BY <1>2, <3>1
      <4>2. m * (3 * w) = 3 * (m * w)
        BY <1>1, Z3
      <4> QED
        BY <1>1, <4>1, <4>2 DEF n
    <3>2. CASE i = h - 1
      <4>1. m = 0
        BY <3>2 DEF m
      <4>2. 0 * w = 0 /\ 0 * rowBytes = 0
        BY <1>2, Z3
      <4> QED
        BY <4>1, <4>2 DEF n
    <3> QED
      BY <1>5, <3>1, <3>2
  <2>2. 3 * col \in 0 .. rowBytes - 1
    BY <1>2
  <2>3. (3 * n) % rowBytes = 3 * col /\ (3 * n) \div rowBytes = m
    BY <1>1, <1>2, <2>1, <2>2, ColumnRow
  <2>4. (3 * col) \div 3 = col /\ (3 * col) % 3 = 0
    BY Z3
  <2>5. b = <<col, i, 0>>
    BY <1>1, <1>3, <2>3, <2>4
  <2> HIDE DEF b
  <2>6. PixelRead(n, w, h) = IF b[3] = 0 /\ b[1] < w THEN <<b[1], b[2]>> ELSE Mixed
    BY DEF PixelRead, b
  <2> QED
    BY <2>5, <2>6
<1> QED
  BY <1>4, <1>5 DEF m, n

-------------------------------------------------------------------------------
(* The viewer.                                                              *)

\* The picture as it was loaded, and the viewer.
Loaded ==
  /\ bitmap.W \in Nat \ {0} /\ bitmap.H \in Nat \ {0} /\ IsScreen(bitmap, bitmap.W, bitmap.H)
  /\ viewer.W \in Nat \ {0} /\ viewer.H \in Nat \ {0} /\ IsScreen(viewer, viewer.W, viewer.H)
  /\ \A col \in 0 .. bitmap.W - 1, i \in 0 .. bitmap.H - 1 :
       Unpadded \/ i = bitmap.H - 1 => bitmap.Buffer[i * bitmap.W + col] = <<col, i>>

\* The scaled picture: no hole, and each pixel one of those that are scaled to it.
ScaledToFit ==
  /\ ratio = Ratio
  /\ image.W = Percent(bitmap.W, ratio) /\ image.H = Percent(bitmap.H, ratio)
  /\ IsScreen(image, image.W, image.H)
  /\ ratio > 0 => \A x \in 0 .. image.W - 1, y \in 0 .. image.H - 1 :
       Unpadded => image.Buffer[y * image.W + x] \in Shows(x, y)

\* The inductive invariant.
ViewerInv ==
  /\ viewerAt \in {"prompt", "loaded", "scaled", "drawn"}
  /\ viewerAt # "prompt" => Loaded
  /\ viewerAt \in {"scaled", "drawn"} => ScaledToFit
  /\ PictureShown

\* A pixel on a screen is got from its place.
LEMMA Got ==
  ASSUME NEW s, s.W \in Nat \ {0}, s.H \in Nat \ {0},
         NEW x \in 0 .. s.W - 1, NEW y \in 0 .. s.H - 1
  PROVE  GetBuffer(s, x, y) = s.Buffer[y * s.W + x] /\ y * s.W + x \in 0 .. s.W * s.H - 1
<1>1. y * s.W + x \in 0 .. s.W * s.H - 1
  BY InBuffer
<1>2. s.W * s.H \in Nat
  BY Products
<1>3. y * s.W + x < s.W * s.H
  <2> DEFINE k == y * s.W + x
             n == s.W * s.H
  <2>1. k \in 0 .. n - 1 /\ n \in Nat
    BY <1>1, <1>2
  <2> HIDE DEF k, n
  <2>2. k < n
    BY <2>1
  <2> QED
    BY <2>2 DEF k, n
<1> QED
  BY <1>1, <1>3 DEF GetBuffer, PlaceOf

\* The ratio is a percentage at which the picture fits.
LEMMA RatioFits ==
  ASSUME Loaded
  PROVE  /\ Ratio \in 0 .. 100
         /\ Ratio > 0 => /\ Percent(bitmap.W, Ratio) \in 1 .. viewer.W
                         /\ Percent(bitmap.H, Ratio) \in 1 .. viewer.H
<1> DEFINE w == Fitting(bitmap.W, viewer.W)
           h == Fitting(bitmap.H, viewer.H)
<1>1. /\ w \in 0 .. 100 /\ \A r \in 1 .. w : Percent(bitmap.W, r) \in 1 .. viewer.W
      /\ h \in 0 .. 100 /\ \A r \in 1 .. h : Percent(bitmap.H, r) \in 1 .. viewer.H
  BY FittingIs DEF Loaded
<1>2. Ratio = IF w < h THEN w ELSE h
  BY DEF Ratio
<1> HIDE DEF w, h
<1>3. Ratio \in 0 .. 100 /\ (Ratio > 0 => Ratio \in 1 .. w /\ Ratio \in 1 .. h)
  BY <1>1, <1>2
<1> QED
  BY <1>1, <1>3

\* The invariant holds before a picture is loaded, ...
LEMMA InitViewed == InitViewer => ViewerInv
<1> SUFFICES ASSUME InitViewer PROVE ViewerInv
  OBVIOUS
<1>1. viewerAt = "prompt"
  BY DEF InitViewer
<1> QED
  BY <1>1 DEF ViewerInv, PictureShown

\* ... the rows are read as the invariant says, bottom up, ...
LEMMA LoadStep ==
  ASSUME ViewerInv, Load
  PROVE  ViewerInv'
<1>1. PICK s \in Sizes, v \in ViewerSizes :
        /\ bitmap' = [LScreen(s[1], s[2]) EXCEPT !.Buffer =
             [k \in DOMAIN @ |->
                PixelRead((s[2] - 1 - (k \div s[1])) * s[1] + (k % s[1]), s[1], s[2])]]
        /\ viewer' = LScreen(v[1], v[2])
  BY DEF Load
<1> DEFINE w == s[1]
           h == s[2]
           b == [k \in 0 .. w * h - 1 |-> PixelRead((h - 1 - (k \div w)) * w + (k % w), w, h)]
<1>2. w \in Nat \ {0} /\ h \in Nat \ {0} /\ v[1] \in Nat \ {0} /\ v[2] \in Nat \ {0}
  BY ViewerAssumption
<1>3. bitmap' = [W |-> w, H |-> h, Buffer |-> b]
  BY <1>1 DEF LScreen
<1> HIDE DEF w, h
<1>4. ASSUME NEW col \in 0 .. w - 1, NEW i \in 0 .. h - 1
      PROVE  /\ i * w + col \in 0 .. w * h - 1
             /\ b[i * w + col] = PixelRead((h - 1 - i) * w + col, w, h)
  <2>1. i * w + col \in 0 .. w * h - 1
    BY <1>2, InBuffer
  <2>2. (i * w + col) % w = col /\ (i * w + col) \div w = i
    BY <1>2, ColumnRow
  <2> DEFINE q == i * w + col
  <2>3. b[q] = PixelRead((h - 1 - (q \div w)) * w + (q % w), w, h)
    <3> HIDE DEF q
    <3>1. q \in 0 .. w * h - 1
      BY <2>1 DEF q
    <3> QED
      BY <3>1
  <2> QED
    BY <2>1, <2>2, <2>3
<1>5. b \in [0 .. w * h - 1 -> Color]
  <2>1. ASSUME NEW k \in 0 .. w * h - 1 PROVE b[k] \in Color
    <3>1. k % w \in 0 .. w - 1 /\ k \div w \in 0 .. h - 1 /\ k = (k \div w) * w + (k % w)
      BY <1>2, OfPlace
    <3>2. PixelRead((h - 1 - (k \div w)) * w + (k % w), w, h) \in Color
      BY <1>2, <3>1, PixelIs
    <3> QED
      BY <3>2
  <2> QED
    BY <2>1
<1>6. /\ bitmap'.W = w /\ bitmap'.H = h /\ bitmap'.Buffer = b /\ IsScreen(bitmap', w, h)
  <2> HIDE DEF b
  <2> QED
    BY <1>3, <1>5 DEF IsScreen
<1>7. viewer'.W = v[1] /\ viewer'.H = v[2] /\ IsScreen(viewer', v[1], v[2])
  BY <1>1, <1>2, NewScreen DEF LScreen
<1>8. Unpadded' <=> (3 * w) % 4 = 0
  BY <1>6 DEF Unpadded
<1>9. ASSUME NEW col \in 0 .. w - 1, NEW i \in 0 .. h - 1, Unpadded' \/ i = h - 1
      PROVE  bitmap'.Buffer[i * w + col] = <<col, i>>
  <2>1. b[i * w + col] = PixelRead((h - 1 - i) * w + col, w, h)
    BY <1>4
  <2>2. PixelRead((h - 1 - i) * w + col, w, h) = <<col, i>>
    BY <1>2, <1>8, <1>9, PixelIs
  <2> HIDE DEF b
  <2> QED
    BY <1>6, <2>1, <2>2
<1> HIDE DEF b
<1>10. Loaded'
  BY <1>2, <1>6, <1>7, <1>9 DEF Loaded
<1>11. viewerAt' = "loaded"
  BY DEF Load
<1> QED
  BY <1>10, <1>11 DEF ViewerInv, PictureShown

\* ... every pixel of the scaled picture is one that is scaled to it, ...
LEMMA ScaleStep ==
  ASSUME ViewerInv, ScaleDown
  PROVE  ViewerInv'
<1>1. /\ viewerAt = "loaded" /\ viewerAt' = "scaled" /\ ratio' = Ratio
      /\ image' = Scale(bitmap, Ratio) /\ bitmap' = bitmap /\ viewer' = viewer
  BY DEF ScaleDown
<1>2. Loaded
  BY <1>1 DEF ViewerInv
<1> DEFINE w == bitmap.W
           h == bitmap.H
           r == Ratio
           v == Percent(w, r)
           u == Percent(h, r)
           t == LScreen(v, u)
           X == [col \in Columns(bitmap) |-> Percent(col, r)]
           Y == [i \in Rows(bitmap) |-> Percent(i, r)]
<1>3. w \in Nat \ {0} /\ h \in Nat \ {0} /\ r \in 0 .. 100 /\ r \in Nat /\ IsScreen(bitmap, w, h)
  <2>1. r \in 0 .. 100
    BY <1>2, RatioFits
  <2> QED
    BY <1>2, <2>1 DEF Loaded
<1>4. image' = Written(t, bitmap, X, Y)
  BY <1>1 DEF Scale
<1>5. \A col \in 0 .. w - 1 : X[col] = Percent(col, r)
  BY DEF Columns
<1>6. \A i \in 0 .. h - 1 : Y[i] = Percent(i, r)
  BY DEF Rows
<1> HIDE DEF X, Y, r
<1>7. v \in Nat /\ u \in Nat
  BY <1>3, RoundedUp
<1>8. IsScreen(t, v, u) /\ t.W = v
  BY <1>7, NewScreen DEF LScreen
<1> HIDE DEF v, u, t
<1>9. /\ IsScreen(image', v, u)
      /\ \A k \in 0 .. v * u - 1 :
           Here(t, bitmap, X, Y, k) # {} =>
             \E q \in Here(t, bitmap, X, Y, k) : image'.Buffer[k] = bitmap.Buffer[q]
  BY <1>3, <1>4, <1>7, <1>8, WrittenIs
<1>10. image'.W = v /\ image'.H = u
  BY <1>9 DEF IsScreen
<1>11. DOMAIN bitmap.Buffer = 0 .. w * h - 1
  BY <1>3 DEF IsScreen
<1>12. ASSUME r > 0, Unpadded, NEW x \in 0 .. v - 1, NEW y \in 0 .. u - 1
       PROVE  image'.Buffer[y * v + x] \in Shows(x, y)'
  <2> DEFINE k == y * v + x
  <2>1. r \in 1 .. 100 /\ v \in Nat \ {0} /\ y \in Nat
    BY <1>3, <1>7, <1>12
  <2>2. k \in 0 .. v * u - 1
    BY <1>7, <2>1, InBuffer
  <2> HIDE DEF k
  <2>3. Here(t, bitmap, X, Y, k) # {}
    <3>1. PICK col \in 0 .. w - 1 : Percent(col, r) = x
      <4>1. x \in 0 .. Percent(w, r) - 1
        BY DEF v
      <4>2. w \in Nat \ {0} /\ r \in 1 .. 100
        BY <1>3, <2>1
      <4> HIDE DEF w, h
      <4> QED
        BY <4>1, <4>2, Onto
    <3>2. PICK i \in 0 .. h - 1 : Percent(i, r) = y
      <4>1. y \in 0 .. Percent(h, r) - 1
        BY DEF u
      <4>2. h \in Nat \ {0} /\ r \in 1 .. 100
        BY <1>3, <2>1
      <4> HIDE DEF w, h
      <4> QED
        BY <4>1, <4>2, Onto
    <3>3. /\ i * w + col \in 0 .. w * h - 1
          /\ (i * w + col) % w = col /\ (i * w + col) \div w = i
      <4>1. i \in Nat
        OBVIOUS
      <4> QED
        BY <1>3, <4>1, InBuffer, ColumnRow
    <3>4. PlaceOf(t, X[col], Y[i]) = k
      BY <1>5, <1>6, <1>8, <3>1, <3>2 DEF PlaceOf, k
    <3>5. i * w + col \in Here(t, bitmap, X, Y, k)
      BY <1>11, <3>3, <3>4 DEF Here
    <3> QED
      BY <3>5
  <2>4. PICK q \in Here(t, bitmap, X, Y, k) : image'.Buffer[k] = bitmap.Buffer[q]
    BY <1>9, <2>2, <2>3
  <2> DEFINE col == q % w
             i == q \div w
  <2>5. q \in 0 .. w * h - 1 /\ PlaceOf(t, X[col], Y[i]) = k
    BY <1>11, <2>4 DEF Here
  <2>6. col \in 0 .. w - 1 /\ i \in 0 .. h - 1 /\ q = i * w + col
    BY <1>3, <2>5, OfPlace
  <2> HIDE DEF i, col
  <2> DEFINE c == Percent(col, r)
             d == Percent(i, r)
  <2>7. d * v + c = y * v + x
    BY <1>5, <1>6, <1>8, <2>5, <2>6 DEF PlaceOf, k
  <2>8. c \in 0 .. v /\ d \in Nat
    <3>1. i \in Nat
      BY <2>6
    <3> QED
      BY <1>3, <2>6, <3>1, Within, RoundedUp DEF v
  <2>9. image'.Buffer[k] = <<col, i>>
    BY <1>2, <1>12, <2>4, <2>6 DEF Loaded
  <2> HIDE DEF c, d
  <2>10. (c = x /\ d = y) \/ (x = 0 /\ c = v /\ d = y - 1)
    <3>1. CASE c < v
      <4>1. c \in 0 .. v - 1
        BY <2>1, <2>8, <3>1
      <4> QED
        BY <2>1, <2>7, <2>8, <4>1, OnePlace
    <3>2. CASE c = v
      <4>1. (d + 1) * v + 0 = d * v + v /\ d * v \in Nat
        <5>1. (d + 1) * v = d * v + 1 * v /\ 1 * v = v /\ d * v \in Nat
          BY <2>1, <2>8, Products
        <5> QED
          BY <2>1, <5>1
      <4>2. (d + 1) * v + 0 = y * v + x
        BY <2>7, <3>2, <4>1
      <4>3. d + 1 = y /\ 0 = x
        <5> DEFINE e == d + 1
        <5>1. e \in Nat /\ 0 \in 0 .. v - 1
          BY <2>1, <2>8
        <5>2. e * v + 0 = y * v + x
          BY <4>2
        <5> HIDE DEF e
        <5>3. e = y /\ 0 = x
          BY <2>1, <5>1, <5>2, OnePlace
        <5> QED
          BY <5>3 DEF e
      <4> QED
        BY <2>8, <3>2, <4>3
    <3> QED
      BY <2>1, <2>8, <3>1, <3>2
  <2>11. <<col, i>> \in Shows(x, y)'
    <3>1. Shows(x, y)' =
            {f \in (0 .. w - 1) \X (0 .. h - 1) :
               \/ Percent(f[1], r) = x /\ Percent(f[2], r) = y
               \/ x = 0 /\ Percent(f[1], r) = v /\ Percent(f[2], r) = y - 1}
      BY <1>1, <1>10 DEF Shows, r
    <3> QED
      BY <2>6, <2>10, <3>1 DEF c, d
  <2> QED
    BY <2>9, <2>11 DEF k
<1>13. Ratio' = Ratio /\ (Unpadded' <=> Unpadded)
  BY <1>1 DEF Ratio, Unpadded
<1>14. ScaledToFit'
  <2>1. ratio' = r /\ bitmap'.W = w /\ bitmap'.H = h
    BY <1>1 DEF r
  <2>2. r' = r
    BY <1>13 DEF r
  <2> QED
    BY <1>9, <1>10, <1>12, <1>13, <2>1, <2>2 DEF ScaledToFit, r, v, u
<1>15. Loaded'
  BY <1>1, <1>2, <1>13 DEF Loaded
<1> QED
  BY <1>1, <1>14, <1>15 DEF ViewerInv, PictureShown

\* ... each of them is drawn in its place, in the middle of the viewer, ...
LEMMA DrawStep ==
  ASSUME ViewerInv, DrawImage
  PROVE  ViewerInv'
<1> DEFINE left == (viewer.W - image.W) \div 2
           top == (viewer.H - image.H) \div 2
           w == image.W
           h == image.H
           v == viewer.W
           u == viewer.H
           t == Filled(viewer, Background)
           X == [col \in Columns(image) |-> left + col]
           Y == [i \in Rows(image) |-> top + i]
<1>1. /\ viewerAt = "scaled" /\ viewerAt' = "drawn"
      /\ viewer' = Written(t, image, X, Y)
      /\ bitmap' = bitmap /\ ratio' = ratio /\ image' = image
  BY DEF DrawImage, Drawn
<1>2. Loaded /\ ScaledToFit
  BY <1>1 DEF ViewerInv
<1>3. /\ v \in Nat \ {0} /\ u \in Nat \ {0} /\ IsScreen(viewer, v, u)
      /\ w \in Nat /\ h \in Nat /\ IsScreen(image, w, h)
  <2>1. ratio \in Nat
    BY <1>2, RatioFits DEF ScaledToFit
  <2>2. w \in Nat /\ h \in Nat
    <3>1. bitmap.W \in Nat /\ bitmap.H \in Nat
      BY <1>2 DEF Loaded
    <3>2. Percent(bitmap.W, ratio) \in Nat /\ Percent(bitmap.H, ratio) \in Nat
      BY <2>1, <3>1, RoundedUp
    <3> QED
      BY <1>2, <3>2 DEF ScaledToFit
  <2> QED
    BY <1>2, <2>2 DEF Loaded, ScaledToFit
<1>4. IsScreen(t, v, u) /\ t.W = v /\ \A k \in 0 .. v * u - 1 : t.Buffer[k] = Background
  <2>1. Background \in Color
    BY DEF Background, Color
  <2>2. IsScreen(t, v, u) /\ \A k \in 0 .. v * u - 1 : t.Buffer[k] = Background
    BY <1>3, <2>1, NewScreen
  <2> QED
    BY <2>2 DEF IsScreen
<1>5. \A col \in 0 .. w - 1 : X[col] = left + col
  BY DEF Columns
<1>6. \A i \in 0 .. h - 1 : Y[i] = top + i
  BY DEF Rows
<1> HIDE DEF t, X, Y
<1>7. /\ IsScreen(viewer', v, u)
      /\ \A k \in 0 .. v * u - 1 :
           IF Here(t, image, X, Y, k) = {} THEN viewer'.Buffer[k] = Background
           ELSE \E q \in Here(t, image, X, Y, k) : viewer'.Buffer[k] = image.Buffer[q]
  BY <1>1, <1>3, <1>4, WrittenIs
<1>8. viewer'.W = v /\ viewer'.H = u
  BY <1>7 DEF IsScreen
<1>9. Ratio' = Ratio /\ (Unpadded' <=> Unpadded)
  BY <1>1, <1>8 DEF Ratio, Unpadded
<1>10. Loaded'
  BY <1>1, <1>2, <1>7, <1>8, <1>9 DEF Loaded
<1>11. \A x, y : Shows(x, y)' = Shows(x, y)
  BY <1>1 DEF Shows
<1>12. ScaledToFit'
  BY <1>1, <1>2, <1>9, <1>11 DEF ScaledToFit
<1>13. ASSUME ratio > 0 PROVE PictureShown'
  <2>1. w \in 1 .. v /\ h \in 1 .. u
    BY <1>2, <1>13, RatioFits DEF ScaledToFit
  <2>2. left \in Nat /\ top \in Nat /\ left + w <= v /\ top + h <= u
    BY <1>3, <2>1, Z3
  <2> HIDE DEF left, top
  <2>3. DOMAIN image.Buffer = 0 .. w * h - 1 /\ w \in Nat \ {0} /\ h \in Nat \ {0}
    BY <1>3, <2>1 DEF IsScreen
  <2>4. ASSUME NEW x \in 0 .. v - 1, NEW y \in 0 .. u - 1
        PROVE  LET pixel == GetBuffer(viewer', x, y)
               IN  IF x - left \in 0 .. w - 1 /\ y - top \in 0 .. h - 1
                   THEN Unpadded => pixel \in Shows(x - left, y - top)
                   ELSE pixel = Background
    <3> DEFINE k == y * v + x
               H == Here(t, image, X, Y, k)
               m == (y - top) * w + (x - left)
    <3>1. GetBuffer(viewer', x, y) = viewer'.Buffer[k] /\ k \in 0 .. v * u - 1
      BY <1>3, <1>8, Got
    <3>2. ASSUME NEW q \in H
          PROVE  x - left \in 0 .. w - 1 /\ y - top \in 0 .. h - 1 /\ q = m
      <4> DEFINE col == q % w
                 i == q \div w
      <4>1. q \in 0 .. w * h - 1 /\ PlaceOf(t, X[col], Y[i]) = k
        BY <2>3 DEF Here
      <4>2. col \in 0 .. w - 1 /\ i \in 0 .. h - 1 /\ q = i * w + col
        BY <2>3, <4>1, OfPlace
      <4> HIDE DEF i, col
      <4>3. (top + i) * v + (left + col) = y * v + x
        BY <1>4, <1>5, <1>6, <4>1, <4>2 DEF PlaceOf
      <4>4. top + i \in Nat /\ left + col \in 0 .. v - 1 /\ y \in Nat
        <5>1. \A l, n \in Nat : \A c \in 0 .. n - 1 : l + n <= v => l + c \in 0 .. v - 1
          BY <1>3
        <5>2. w \in Nat /\ i \in Nat
          BY <2>3, <4>2
        <5>3. left + col \in 0 .. v - 1
          BY <2>2, <4>2, <5>1, <5>2
        <5>4. top + i \in Nat
          BY <2>2, <5>2
        <5> QED
          BY <5>3, <5>4
      <4>5. top + i = y /\ left + col = x
        BY <1>3, <4>3, <4>4, OnePlace
      <4>6. y - top = i /\ x - left = col
        BY <2>2, <4>2, <4>5
      <4> QED
        BY <4>2, <4>6
    <3>3. ASSUME x - left \in 0 .. w - 1, y - top \in 0 .. h - 1 PROVE m \in H
      <4>1. /\ m \in 0 .. w * h - 1 /\ m % w = x - left /\ m \div w = y - top
        <5>1. y - top \in Nat
          BY <3>3
        <5> QED
          BY <2>3, <3>3, <5>1, InBuffer, ColumnRow
      <4>2. X[x - left] = x /\ Y[y - top] = y
        BY <1>5, <1>6, <2>2, <3>3
      <4>3. PlaceOf(t, X[m % w], Y[m \div w]) = k
        BY <1>4, <4>1, <4>2 DEF PlaceOf
      <4> HIDE DEF m, k
      <4> QED
        BY <2>3, <4>1, <4>3 DEF Here
    <3>4. CASE x - left \in 0 .. w - 1 /\ y - top \in 0 .. h - 1
      <4>1. PICK q \in H : viewer'.Buffer[k] = image.Buffer[q]
        <5> HIDE DEF k, m
        <5> QED
          BY <1>7, <3>1, <3>3, <3>4
      <4>2. viewer'.Buffer[k] = image.Buffer[m]
        BY <3>2, <4>1
      <4>3. Unpadded => image.Buffer[m] \in Shows(x - left, y - top)
        BY <1>2, <1>13, <3>4 DEF ScaledToFit
      <4> QED
        BY <3>1, <3>4, <4>2, <4>3
    <3>5. CASE ~(x - left \in 0 .. w - 1 /\ y - top \in 0 .. h - 1)
      <4>1. H = {}
        BY <3>2, <3>5
      <4>2. viewer'.Buffer[k] = Background
        <5> HIDE DEF k, m
        <5> QED
          BY <1>7, <3>1, <4>1
      <4> QED
        BY <3>1, <3>5, <4>2
    <3> QED
      BY <3>4, <3>5
  <2>5. ASSUME NEW x \in 0 .. bitmap.W - 1
        PROVE  GetBuffer(bitmap, x, bitmap.H - 1) = <<x, bitmap.H - 1>>
    <3>1. bitmap.W \in Nat \ {0} /\ bitmap.H \in Nat \ {0} /\ bitmap.H - 1 \in 0 .. bitmap.H - 1
      BY <1>2 DEF Loaded
    <3>2. GetBuffer(bitmap, x, bitmap.H - 1) = bitmap.Buffer[(bitmap.H - 1) * bitmap.W + x]
      BY <3>1, Got
    <3> QED
      BY <1>2, <3>1, <3>2 DEF Loaded
  <2>6. left' = left /\ top' = top /\ image'.W = w /\ image'.H = h
    BY <1>1, <1>8 DEF left, top
  <2> QED
    BY <1>1, <1>8, <1>9, <1>11, <2>1, <2>4, <2>5, <2>6 DEF PictureShown, left, top
<1>14. PictureShown'
  <2>1. CASE ratio > 0
    BY <1>13, <2>1
  <2>2. CASE ~(ratio > 0)
    BY <1>1, <2>2 DEF PictureShown
  <2> QED
    BY <2>1, <2>2
<1> QED
  BY <1>1, <1>10, <1>12, <1>14 DEF ViewerInv

\* ... and what none of the steps changes stays.
LEMMA ViewerStutters ==
  ASSUME ViewerInv, UNCHANGED viewing
  PROVE  ViewerInv'
<1>1. bitmap' = bitmap /\ ratio' = ratio /\ image' = image /\ viewer' = viewer /\ viewerAt' = viewerAt
  BY DEF viewing
<1>2. Ratio' = Ratio /\ (Unpadded' <=> Unpadded) /\ \A x, y : Shows(x, y)' = Shows(x, y)
  BY <1>1 DEF Ratio, Unpadded, Shows
<1>3. (Loaded' <=> Loaded) /\ (ScaledToFit' <=> ScaledToFit)
  BY <1>1, <1>2 DEF Loaded, ScaledToFit
<1>4. PictureShown' <=> PictureShown
  BY <1>1, <1>2 DEF PictureShown
<1> QED
  BY <1>1, <1>3, <1>4 DEF ViewerInv

\* The invariant, of every behaviour.
LEMMA ViewerInvariant == ViewerSpec => []ViewerInv
<1>1. ViewerInv /\ [ViewerStep]_viewing => ViewerInv'
  BY LoadStep, ScaleStep, DrawStep, ViewerStutters DEF ViewerStep
<1> QED
  BY InitViewed, <1>1, PTL DEF ViewerSpec

\* main.cpp, page 2 of ScreenMode: whatever the sizes of the picture and of the
\* viewer, Scale and Draw show the whole picture, in the middle, without a
\* hole and with nothing but the background around it; a padded file only as
\* far as its first row, and no picture over a hundred times too large.
THEOREM ShowsThePicture == ViewerSpec => []PictureShown
<1>1. ViewerInv => PictureShown
  BY DEF ViewerInv
<1> QED
  BY ViewerInvariant, <1>1, PTL
===============================================================================
