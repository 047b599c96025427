-------------------------------- MODULE Viewer --------------------------------
(***************************************************************************)
(* The viewer's way of showing a .bmp file (src/main.cpp, page 2 of        *)
(* ScreenMode): the file is loaded (src/src/lbitmap.hpp), scaled down to   *)
(* the viewer if it is larger, and drawn in its middle.                    *)
(*                                                                         *)
(* A pixel is told apart from the others by where it is in the picture.    *)
(* Files have 24 bits a pixel and their last row first, as those of the    *)
(* repository; the code does not check it.                                 *)
(*                                                                         *)
(* Operators with a name in _Bug are wrong versions of the one that        *)
(* follows; nothing uses them.                                             *)
(***************************************************************************)
EXTENDS Screens

CONSTANTS
  Sizes,      \* widths and heights of pictures
  ViewerSizes \* widths and heights of the viewer

ASSUME ViewerAssumption ==
  Sizes \subseteq (Nat \ {0}) \X (Nat \ {0}) /\ ViewerSizes \subseteq (Nat \ {0}) \X (Nat \ {0})

VARIABLES
  bitmap,  \* the picture as it was loaded
  ratio,   \* percent of its size
  image,   \* the scaled picture
  viewer,  \* the viewer
  viewerAt \* prompt, loaded, ratio, scaled, drawn

viewing == <<bitmap, ratio, image, viewer, viewerAt>>

NoScreen == LScreen(0, 0)

InitViewer ==
  /\ bitmap = NoScreen /\ image = NoScreen /\ viewer = NoScreen
  /\ ratio = 100
  /\ viewerAt = "prompt"

Background == <<-3, -1>>

\* The place of a byte behind BitmapOffset in a picture of w by h pixels: its
\* column, row and color.  The file has the rows bottom up, each filled up to a
\* multiple of four bytes.
InFile(b, w, h) ==
  LET rowBytes == 4 * ((3 * w + 3) \div 4)
  IN  <<(b % rowBytes) \div 3, h - 1 - (b \div rowBytes), (b % rowBytes) % 3>>

\* The colors of a loaded pixel come from different pixels, or from no pixel.
Mixed == <<-4, -1>>

\* The n-th pixel is read from the three bytes behind those before it.
PixelRead(n, w, h) ==
  LET b == InFile(3 * n, w, h)
  IN  IF b[3] = 0 /\ b[1] < w THEN <<b[1], b[2]>> ELSE Mixed

\* LBitmap(FileName): pixels are read from left to right and bottom up.
Load ==
  /\ viewerAt = "prompt"
  /\ \E s \in Sizes, v \in ViewerSizes :
       /\ bitmap' = [LScreen(s[1], s[2]) EXCEPT !.Buffer =
            [k \in DOMAIN @ |->
               PixelRead((s[2] - 1 - (k \div s[1])) * s[1] + (k % s[1]), s[1], s[2])]]
       /\ viewer' = LScreen(v[1], v[2])
  /\ viewerAt' = "loaded"
  /\ UNCHANGED <<ratio, image>>

\* The ratio at which a length fits.
Fitting(length, room) == IF length > room THEN (room * 100) \div length ELSE 100

\* Only the width is made to fit.
Ratio_Bug == Fitting(bitmap.W, viewer.W)

Ratio ==
  LET w == Fitting(bitmap.W, viewer.W)
      h == Fitting(bitmap.H, viewer.H)
  IN  IF w < h THEN w ELSE h

ScaleDown ==
  /\ viewerAt = "loaded"
  /\ ratio' = Ratio
  /\ image' = Scale(bitmap, Ratio)
  /\ viewerAt' = "scaled"
  /\ UNCHANGED <<bitmap, viewer>>

DrawImage ==
  /\ viewerAt = "scaled"
  /\ viewer' = Drawn(Filled(viewer, Background), image,
                     (viewer.W - image.W) \div 2, (viewer.H - image.H) \div 2)
  /\ viewerAt' = "drawn"
  /\ UNCHANGED <<bitmap, ratio, image>>

ViewerStep == Load \/ ScaleDown \/ DrawImage

ViewerEnds == viewerAt = "drawn"

-------------------------------------------------------------------------------
(* Properties.                                                              *)

\* The rows of the file have no bytes that belong to no pixel.
Unpadded == (3 * bitmap.W) % 4 = 0

\* The pixels of the picture that are scaled to column x and row y, and, for the
\* first column, those of the last column of the row above: rounded up, they
\* can be scaled to the column behind the last one.
Shows(x, y) ==
  {f \in (0 .. bitmap.W - 1) \X (0 .. bitmap.H - 1) :
     \/ Percent(f[1], ratio) = x /\ Percent(f[2], ratio) = y
     \/ x = 0 /\ Percent(f[1], ratio) = image.W /\ Percent(f[2], ratio) = y - 1}

\* The whole picture is in the viewer, in its middle, with nothing but the
\* background around it and no hole in it: every pixel is one that belongs
\* there, or for the first column next to it.  Of a file whose rows are padded
\* only the row that was read first is as it should be, and of a picture over a
\* hundred times as large as the viewer nothing is shown.
PictureShown ==
  viewerAt = "drawn" /\ ratio > 0 =>
    LET left == (viewer.W - image.W) \div 2
        top == (viewer.H - image.H) \div 2
        inside(x, y) == x \in 0 .. image.W - 1 /\ y \in 0 .. image.H - 1
    IN  /\ image.W \in 1 .. viewer.W /\ image.H \in 1 .. viewer.H
        /\ \A x \in 0 .. viewer.W - 1, y \in 0 .. viewer.H - 1 :
             LET pixel == GetBuffer(viewer, x, y)
             IN  IF inside(x - left, y - top)
                 THEN Unpadded => pixel \in Shows(x - left, y - top)
                 ELSE pixel = Background
        /\ \A x \in 0 .. bitmap.W - 1 :
             GetBuffer(bitmap, x, bitmap.H - 1) = <<x, bitmap.H - 1>>
===============================================================================
