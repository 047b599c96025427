--------------------------------- MODULE Box ----------------------------------
(***************************************************************************)
(* The program Box (src/src/packages/ACM/Box.cpp): are six rectangles the  *)
(* faces of a box?  A backtracking search gives each face a rectangle;     *)
(* when all have one, every way of turning the rectangles is tried against *)
(* a table of the edges that two faces share.                              *)
(*                                                                         *)
(* Operators with a name in _Bug are wrong versions of the one that        *)
(* follows; nothing uses them.                                             *)
(***************************************************************************)
EXTENDS Integers, Sequences, FiniteSets

CONSTANT Rectangles \* the inputs: sequences of six pairs of sides

ASSUME BoxAssumption ==
  \A input \in Rectangles :
    /\ DOMAIN input = 1 .. 6
    /\ \A k \in 1 .. 6 : input[k] \in Int \X Int

Face == 0 .. 5

VARIABLES
  a,       \* the two sides of each rectangle
  e,       \* whether a rectangle is on a face
  p,       \* the rectangles of the faces 0, 1, ... that have one
  i,       \* the loop of the innermost call of box: the next rectangle to try
  boxAt,   \* prompt, search, or done
  possible \* the answer

box == <<a, e, p, i, boxAt, possible>>

InitBox ==
  /\ a = [k \in Face |-> <<0, 0>>]
  /\ e = [k \in Face |-> 0]
  /\ p = <<>>
  /\ i = 0
  /\ boxAt = "prompt"
  /\ possible = FALSE

-------------------------------------------------------------------------------
\* The faces share no edge.
NoEdge == <<-1, -1>>

\* One entry is wrong.
Table_Bug ==
  << <<NoEdge,   <<1, 0>>, <<0, 0>>, <<0, 0>>, <<1, 0>>, NoEdge  >>,
     <<<<0, 1>>, NoEdge,   <<1, 1>>, <<1, 1>>, NoEdge,   <<0, 0>>>>,
     <<<<0, 0>>, <<1, 1>>, NoEdge,   NoEdge,   <<1, 0>>, <<0, 1>>>>,
     <<<<0, 0>>, <<1, 1>>, NoEdge,   NoEdge,   <<1, 0>>, <<0, 1>>>>,
     <<<<1, 1>>, NoEdge,   <<0, 1>>, <<0, 1>>, NoEdge,   <<1, 0>>>>,
     <<NoEdge,   <<0, 0>>, <<1, 0>>, <<1, 0>>, <<0, 1>>, NoEdge  >> >>

\* f: which side of each face is the edge that the two share, if they do.
Table ==
  << <<NoEdge,   <<1, 0>>, <<0, 0>>, <<0, 0>>, <<1, 1>>, NoEdge  >>,
     <<<<0, 1>>, NoEdge,   <<1, 1>>, <<1, 1>>, NoEdge,   <<0, 0>>>>,
     <<<<0, 0>>, <<1, 1>>, NoEdge,   NoEdge,   <<1, 0>>, <<0, 1>>>>,
     <<<<0, 0>>, <<1, 1>>, NoEdge,   NoEdge,   <<1, 0>>, <<0, 1>>>>,
     <<<<1, 1>>, NoEdge,   <<0, 1>>, <<0, 1>>, NoEdge,   <<1, 0>>>>,
     <<NoEdge,   <<0, 0>>, <<1, 0>>, <<1, 0>>, <<0, 1>>, NoEdge  >> >>

\* Side s (0 or 1) of the rectangle on face f, when it may be turned.
Side(f, s, turned) == a[p[f + 1]][((s + turned[f]) % 2) + 1]

\* check(m), where turned holds the bits of m.
Check(turned) ==
  \A f, g \in Face :
    LET edge == Table[f + 1][g + 1]
    IN  edge # NoEdge => Side(f, edge[1], turned) = Side(g, edge[2], turned)

-------------------------------------------------------------------------------
\* Box_Main reads the rectangles and calls box(0, e, q).
BoxInput ==
  /\ boxAt = "prompt"
  /\ \E input \in Rectangles : a' = [k \in Face |-> input[k + 1]]
  /\ e' = [k \in Face |-> 0]
  /\ p' = <<>>
  /\ i' = 0
  /\ boxAt' = "search"
  /\ UNCHANGED possible

\* The next rectangle that is on no face is put on the next one.
Place ==
  /\ boxAt = "search" /\ Len(p) < 6
  /\ \E k \in Face :
       /\ k >= i /\ e[k] = 0
       /\ \A j \in i .. k - 1 : e[j] # 0
       /\ p' = Append(p, k)
       /\ e' = [e EXCEPT ![k] = 1]
  /\ i' = 0
  /\ UNCHANGED <<a, boxAt, possible>>

\* All faces have a rectangle, and they fit: every call returns 1.
Fits ==
  /\ boxAt = "search" /\ Len(p) = 6
  /\ \E turned \in [Face -> 0 .. 1] : Check(turned)
  /\ boxAt' = "done" /\ possible' = TRUE
  /\ UNCHANGED <<a, e, p, i>>

\* box has nothing more to try and returns 0.
Exhausted ==
  IF Len(p) = 6 THEN \A turned \in [Face -> 0 .. 1] : ~Check(turned)
  ELSE \A k \in Face : k >= i => e[k] # 0

\* Forgets to take the rectangle off the face.
Return_Bug ==
  /\ boxAt = "search" /\ Exhausted
  /\ IF p = <<>>
     THEN boxAt' = "done" /\ possible' = FALSE /\ UNCHANGED <<p, i>>
     ELSE /\ i' = p[Len(p)] + 1
          /\ p' = SubSeq(p, 1, Len(p) - 1)
          /\ UNCHANGED <<boxAt, possible>>
  /\ UNCHANGED <<a, e>>

\* The caller takes the rectangle off the face and goes on with the next one.
Return ==
  /\ boxAt = "search" /\ Exhausted
  /\ IF p = <<>>
     THEN boxAt' = "done" /\ possible' = FALSE /\ UNCHANGED <<e, p, i>>
     ELSE /\ e' = [e EXCEPT ![p[Len(p)]] = 0]
          /\ i' = p[Len(p)] + 1
          /\ p' = SubSeq(p, 1, Len(p) - 1)
          /\ UNCHANGED <<boxAt, possible>>
  /\ UNCHANGED a

BoxStep == BoxInput \/ Place \/ Fits \/ Return

BoxEnds == boxAt = "done"

-------------------------------------------------------------------------------
(* Properties.                                                              *)

\* How many of six rectangles have the sides x and y.
Faces(x, y) == Cardinality({k \in Face : a[k] \in {<<x, y>>, <<y, x>>}})

\* Two faces x by y, two y by z and two x by z, which may be the same.
IsBox(x, y, z) ==
  LET pairs == <<<<x, y>>, <<y, z>>, <<x, z>>>>
      same(u, v) == u = v \/ u = <<v[2], v[1]>>
  IN  \A k \in 1 .. 3 :
        Faces(pairs[k][1], pairs[k][2]) =
          2 * Cardinality({j \in 1 .. 3 : same(pairs[j], pairs[k])})

\* The program says that the rectangles are a box when there are three lengths
\* that they are the faces of, whatever their order and the order of their sides.
BoxDecides ==
  boxAt = "done" =>
    LET sides == {a[k][1] : k \in Face} \cup {a[k][2] : k \in Face}
    IN  possible <=> \E x, y, z \in sides : IsBox(x, y, z)
===============================================================================
