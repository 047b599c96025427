--------------------------------- MODULE Fonts --------------------------------
(***************************************************************************)
(* The fonts of src/src/lfont.hpp.  LoadBitmap cuts a picture of a row of  *)
(* characters into one glyph for each character of its list, at columns    *)
(* without ink; DrawText puts the glyphs of a text on a screen, from left  *)
(* to right and line by line.                                              *)
(*                                                                         *)
(* A picture is the columns it has ink in, a glyph its width and height.   *)
(* Operators with a name in _Bug are wrong versions of the one that        *)
(* follows; nothing uses them.                                             *)
(***************************************************************************)
EXTENDS Integers, Sequences

CONSTANTS
  Inks,         \* pictures: for each column from 0, whether it has ink
  ListLengths,  \* lengths of the lists of characters
  Glyphs,       \* the glyphs of the font DrawText uses, by character
  FontSizes,    \* the sizes texts are drawn in
  ScreenWidths, \* widths of screens
  MaxText       \* bound on the length of texts

HasInk(picture) == \E j \in DOMAIN picture : picture[j]

ASSUME FontAssumption ==
  /\ \A picture \in Inks :
       /\ HasInk(picture)
       /\ \E last \in DOMAIN picture : last >= 0 /\ picture \in [0 .. last -> BOOLEAN]
  /\ ListLengths \subseteq Nat \ {0}
  /\ \A c \in DOMAIN Glyphs : Glyphs[c].w \in Nat \ {0} /\ Glyphs[c].h \in Nat \ {0}
  /\ \E tallest \in DOMAIN Glyphs : \A c \in DOMAIN Glyphs : Glyphs[c].h <= Glyphs[tallest].h
  /\ FontSizes \subseteq Nat /\ ScreenWidths \subseteq Nat /\ MaxText \in Nat

VARIABLES
  ink,       \* the picture
  CharSet,   \* the length of the list of characters
  j,         \* the column LoadBitmap looks at
  startscan, \* where the glyph it cuts starts, or -1
  cut,       \* the glyphs it has cut: the first column and the one behind the last
  fontAt     \* prompt, glyph, cut

cutting == <<ink, CharSet, j, startscan, cut, fontAt>>

InitCutting ==
  /\ ink = <<>> /\ CharSet = 0
  /\ j = 0 /\ startscan = -1 /\ cut = <<>>
  /\ fontAt = "prompt"

-------------------------------------------------------------------------------
(* LoadBitmap.                                                              *)

\* The first column with ink, and the one behind the last.
minWidth == CHOOSE x \in DOMAIN ink : ink[x] /\ \A y \in DOMAIN ink : ink[y] => x <= y
maxWidth == 1 + CHOOSE x \in DOMAIN ink : ink[x] /\ \A y \in DOMAIN ink : ink[y] => x >= y

\* A third of the width of a character: a gap at most so far into a character
\* is part of it.
minCharWidth == ((maxWidth - minWidth) \div CharSet) \div 3

LoadBitmap ==
  /\ fontAt = "prompt"
  /\ ink' \in Inks /\ CharSet' \in ListLengths
  /\ j' = minWidth'
  /\ fontAt' = "glyph"
  /\ UNCHANGED <<startscan, cut>>

\* Cuts a character off at its first gap.
EndsAt_Bug(start) == start # -1 /\ ~ink[j]

\* A column without ink is behind the character that starts at start.
EndsAt(start) == start # -1 /\ j - start > minCharWidth /\ ~ink[j]

\* The glyph that ends before j; its character is the next one of the list.
Cut(start) == cut' = Append(cut, <<start, j>>) /\ startscan' = -1

\* The inner loop looks at a column.
Column ==
  /\ fontAt = "glyph" /\ j < maxWidth
  /\ LET start == IF ink[j] /\ startscan = -1 THEN j ELSE startscan
     IN  IF EndsAt(start)
         THEN /\ Cut(start)
              /\ fontAt' = IF j + 1 < maxWidth /\ Len(cut') < CharSet THEN "glyph" ELSE "cut"
         ELSE startscan' = start /\ UNCHANGED <<cut, fontAt>>
  /\ j' = j + 1
  /\ UNCHANGED <<ink, CharSet>>

\* It has come to the right end.
RightEnd ==
  /\ fontAt = "glyph" /\ j = maxWidth
  /\ IF startscan # -1 THEN Cut(startscan) ELSE UNCHANGED <<cut, startscan>>
  /\ fontAt' = "cut"
  /\ UNCHANGED <<ink, CharSet, j>>

CuttingStep == LoadBitmap \/ Column \/ RightEnd

CuttingEnds == fontAt = "cut"

-------------------------------------------------------------------------------
(* DrawText.                                                                *)

VARIABLES
  FontSize, \* the size of the text
  screenW,  \* the width of the screen
  text,     \* the characters that were drawn
  currentX, \* where the next one goes
  currentY,
  boxes     \* history: the glyphs on the screen, with their places in the text

drawing == <<FontSize, screenW, text, currentX, currentY, boxes>>

InitDrawing ==
  /\ FontSize = 0 /\ screenW = 0
  /\ text = <<>> /\ currentX = 0 /\ currentY = 0
  /\ boxes = <<>>

\* The characters that have no glyph, and one that the font does not have.
Blank == {"CR", "LF", "TAB", "SP"}
Unknown == "unknown"
Chars == DOMAIN Glyphs \cup Blank \cup {Unknown}

CharHeight ==
  CHOOSE h \in {Glyphs[c].h : c \in DOMAIN Glyphs} : \A c \in DOMAIN Glyphs : Glyphs[c].h <= h

\* The picture of a character, also of one that the font does not have.
CharBitmap(c) ==
  IF c \in DOMAIN Glyphs THEN Glyphs[c] ELSE [w |-> CharHeight \div 2, h |-> CharHeight]

\* Rounds up.
FontRatio_Bug == (FontSize * 100 + CharHeight - 1) \div CharHeight

FontRatio == (FontSize * 100) \div CharHeight

Scaled(n) == (n * FontRatio + 100 - 1) \div 100

Newline == currentY + FontSize

DrawText ==
  /\ FontSize = 0
  /\ FontSize' \in FontSizes /\ screenW' \in ScreenWidths
  /\ UNCHANGED <<text, currentX, currentY, boxes>>

DrawBlank(c) ==
  /\ FontSize # 0 /\ Len(text) < MaxText /\ c \in Blank
  /\ currentX' = CASE c = "CR" -> 0
                   [] c = "LF" -> currentX
                   [] c = "TAB" -> currentX + 4 * (FontSize \div 2)
                   [] c = "SP" -> currentX + FontSize \div 2
  /\ currentY' = IF c = "LF" THEN Newline ELSE currentY
  /\ text' = Append(text, c)
  /\ UNCHANGED <<FontSize, screenW, boxes>>

\* A glyph that does not fit in front of the right border goes to the next line.
DrawGlyph(c) ==
  /\ FontSize # 0 /\ Len(text) < MaxText /\ c \notin Blank
  /\ LET w == Scaled(CharBitmap(c).w)
         h == Scaled(CharBitmap(c).h)
         fits == currentX + w < screenW
         x == IF fits THEN currentX ELSE 0
         y == IF fits THEN currentY ELSE Newline
     IN  /\ currentX' = x + w
         /\ currentY' = y
         /\ boxes' = Append(boxes, [x |-> x, y |-> y, w |-> w, h |-> h, at |-> Len(text) + 1])
  /\ text' = Append(text, c)
  /\ UNCHANGED <<FontSize, screenW>>

DrawingStep == DrawText \/ \E c \in Chars : DrawBlank(c) \/ DrawGlyph(c)

DrawingEnds == Len(text) = MaxText

-------------------------------------------------------------------------------
(* Properties.                                                              *)

\* Every column with ink is in one glyph, the glyphs are in the order of their
\* characters, and ink is left over only when every character has its glyph.  A
\* glyph has no gap that is further from its start than minCharWidth, so that
\* two characters are in one glyph only when the first is narrower than that; ink
\* that is no further from its start is in it, so that the two strokes of a
\* quotation mark are not taken for two characters.
GlyphsCutApart ==
  fontAt = "cut" =>
    /\ \A k \in DOMAIN cut :
         /\ cut[k][1] < cut[k][2] /\ ink[cut[k][1]]
         /\ k > 1 => cut[k - 1][2] < cut[k][1]
         /\ \A x \in cut[k][1] .. cut[k][2] - 1 : ~ink[x] => x - cut[k][1] <= minCharWidth
         /\ \A x \in cut[k][1] .. cut[k][1] + minCharWidth :
              x \in DOMAIN ink /\ ink[x] => x < cut[k][2]
    /\ Len(cut) <= CharSet
    /\ \A x \in DOMAIN ink :
         ink[x] => \/ \E k \in DOMAIN cut : x \in cut[k][1] .. cut[k][2] - 1
                   \/ Len(cut) = CharSet /\ x >= cut[CharSet][2]

Overlap(b, c) ==
  /\ b.x < c.x + c.w /\ c.x < b.x + b.w
  /\ b.y < c.y + c.h /\ c.y < b.y + b.h

\* No glyph is drawn over another, nor behind the right border when it fits on
\* the screen at all; only a CR without a line feed goes back over its line.
GlyphsDrawnApart ==
  /\ \A k \in DOMAIN boxes :
       boxes[k].x > 0 => boxes[k].x + boxes[k].w < screenW
  /\ \A k, l \in DOMAIN boxes :
       k < l /\ Overlap(boxes[k], boxes[l]) =>
         \E q \in boxes[k].at .. boxes[l].at : text[q] = "CR" /\ boxes[k].y = boxes[l].y
===============================================================================
