CONSTANTS
  MAX_PATH = 8
  Letters = {"x"}
  Octets = 2
  Fresh = {"nul", "x"}
  FileLines <- MCFileLines
  MaxLines = 2
  Rectangles <- MCRectangles
  Texts <- MCTexts
  MaxTexts = 2
  Room = 8
  Modulus = 3
  Tasks <- MCTasks
  NoTour = 1000
  Sizes <- MCSizes
  ViewerSizes <- MCViewerSizes
  Inks <- MCInks
  ListLengths = {1, 2, 3, 4}
  Glyphs <- MCGlyphs
  FontSizes = {3, 4, 5}
  ScreenWidths = {5, 8}
  MaxText = 4
SPECIFICATION Spec
INVARIANTS
  ArgumentsAsEntered
  BoxDecides
  CountsTrees
  KeepsShortest
  PictureShown
  GlyphsCutApart
  GlyphsDrawnApart
PROPERTY AntsComeBack
