------------------------------- MODULE Screens --------------------------------
(***************************************************************************)
(* The screens of src/src/lscreen.hpp: a width, a height and a buffer of   *)
(* pixels row by row.  GetBuffer and SetBuffer compare only the place in   *)
(* the buffer with its length: a column behind the last one is the first   *)
(* of the next row.  Masks are left out.                                   *)
(*                                                                         *)
(* Operators with a name in _Bug are wrong versions of the one that        *)
(* follows; nothing uses them.                                             *)
(***************************************************************************)
EXTENDS Integers

\* What a pixel is at first, and what is got from outside.  Pixels are pairs.
Black == <<-1, -1>>
Outside == <<-2, -1>>

LScreen(w, h) == [W |-> w, H |-> h, Buffer |-> [k \in 0 .. w * h - 1 |-> Black]]

PlaceOf(s, x, y) == y * s.W + x

GetBuffer(s, x, y) ==
  IF PlaceOf(s, x, y) < s.W * s.H THEN s.Buffer[PlaceOf(s, x, y)] ELSE Outside

Filled(s, color) == [s EXCEPT !.Buffer = [k \in DOMAIN @ |-> color]]

\* A length of ratio percent, rounded down.
Percent_Bug(n, ratio) == (n * ratio) \div 100

\* A length of ratio percent, rounded up.
Percent(n, ratio) == (n * ratio + 100 - 1) \div 100

\* What SetBuffer leaves in t for all pixels of s, in their order, where pixel
\* x, y of s is set at column X[x] and row Y[y]: of two pixels the later one.
Written(t, s, X, Y) ==
  [t EXCEPT !.Buffer =
     [k \in DOMAIN @ |->
        LET here == {q \in DOMAIN s.Buffer : PlaceOf(t, X[q % s.W], Y[q \div s.W]) = k}
        IN  IF here = {} THEN @[k]
            ELSE s.Buffer[CHOOSE q \in here : \A r \in here : r <= q]]]

Columns(s) == 0 .. s.W - 1
Rows(s) == 0 .. s.H - 1

Scale(s, ratio) ==
  Written(LScreen(Percent(s.W, ratio), Percent(s.H, ratio)), s,
          [j \in Columns(s) |-> Percent(j, ratio)],
          [i \in Rows(s) |-> Percent(i, ratio)])

Drawn(t, s, x, y) ==
  Written(t, s, [j \in Columns(s) |-> x + j], [i \in Rows(s) |-> y + i])
===============================================================================
