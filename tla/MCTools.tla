-------------------------------- MODULE MCTools -------------------------------
(***************************************************************************)
(* The parts of the program that share nothing, for TLC: the command line, *)
(* the programs Box, Pyramids and AntTSP, the viewer and the fonts.  A     *)
(* behaviour is one of them at work, so that their states add up.          *)
(***************************************************************************)
EXTENDS CommandLine, Box, Pyramids, AntTSP, Viewer, Fonts

VARIABLE job \* the part at work

vars == <<job, line, box, pyramids, ants, viewing, cutting, drawing>>

MCFileLines ==
  {<<>>, <<CR>>, <<"cp", Space, "x", Space, "1">>, <<"mv", Space, "x", Space, "2", CR>>,
   <<"cd", Space, "x", "1", "x", "2", "x", "1">>,
   <<"connect", Space, "1", Dot, "2", Space, "1">>, <<"connect", Space, "1", "2", Dot, "0", CR>>,
   <<"connect", Space, "2", Dot, "1">>}

\* Boxes of one, two and three lengths, turned and mixed, and six rectangles that
\* are no box for one side, for one pair too many, or for all of them.
MCRectangles ==
  {<<<<1, 2>>, <<3, 1>>, <<3, 2>>, <<2, 1>>, <<1, 3>>, <<2, 3>>>>,
   <<<<1, 2>>, <<1, 2>>, <<2, 2>>, <<2, 1>>, <<2, 1>>, <<2, 2>>>>,
   <<<<1, 1>>, <<1, 1>>, <<1, 1>>, <<1, 1>>, <<1, 1>>, <<1, 1>>>>,
   <<<<1, 2>>, <<1, 3>>, <<2, 3>>, <<1, 2>>, <<1, 3>>, <<1, 3>>>>,
   <<<<1, 2>>, <<1, 2>>, <<2, 2>>, <<2, 1>>, <<1, 1>>, <<2, 2>>>>,
   <<<<1, 2>>, <<1, 2>>, <<2, 1>>, <<2, 1>>, <<1, 2>>, <<2, 1>>>>}

\* All lines of two letters up to four, three of five and two of seven.
MCTexts ==
  UNION {[1 .. n -> {"A", "B"}] : n \in 1 .. 4}
    \cup {<<"A", "A", "A", "A", "A">>, <<"A", "B", "A", "B", "A">>, <<"A", "B", "B", "B", "A">>}
    \cup {<<"A", "B", "A", "B", "A", "B", "A">>, <<"A", "A", "A", "A", "A", "A", "A">>}

\* The trees of n nodes that are labelled with characters, as a label and a
\* sequence of subtrees, and the labels on the walk around a tree, which comes
\* back to a node after each of its subtrees.
RECURSIVE Trees(_, _), Forests(_, _), Tour(_)

Trees(n, labels) == {<<c, f>> : c \in labels, f \in Forests(n - 1, labels)}

Forests(n, labels) ==
  IF n = 0 THEN {<<>>}
  ELSE UNION {{<<t>> \o f : t \in Trees(k, labels), f \in Forests(n - k, labels)} : k \in 1 .. n}

Tour(t) ==
  IF t[2] = <<>> THEN <<t[1]>>
  ELSE <<t[1]>> \o Tour(t[2][1]) \o Tour(<<t[1], Tail(t[2])>>)

TreesOf(s) ==
  IF Len(s) % 2 = 0 THEN {}
  ELSE {t \in Trees((Len(s) + 1) \div 2, {s[k] : k \in DOMAIN s}) : Tour(t) = s}

\* The walks of Pyramids are as many as these trees.
ASSUME WalksAreTrees ==
  \A s \in MCTexts \cup [1 .. 5 -> {"A", "B"}] \cup {[k \in 1 .. 7 |-> "A"]} :
    Cardinality(Walks(s, 0, Len(s) - 1)) = Cardinality(TreesOf(s))

\* Distances that differ with the direction.
Distances(n) ==
  [cd \in (0 .. n - 1) \X (0 .. n - 1) |->
     IF cd[1] = cd[2] THEN 0 ELSE 1 + ((3 * cd[1] + 5 * cd[2]) % 4)]

MCTasks ==
  {[n |-> n, m |-> m, nc |-> 2, len |-> Distances(n)] : n \in 0 .. 3, m \in 0 .. 2}
    \cup {[n |-> 2, m |-> 1, nc |-> 0, len |-> Distances(2)]}

MCSizes == {1, 3, 4, 5, 8} \X (1 .. 5)
MCViewerSizes == (1 .. 6) \X (1 .. 4)

MCInks == {picture \in [0 .. 8 -> BOOLEAN] : HasInk(picture)}
MCGlyphs == [A |-> [w |-> 3, h |-> 7], l |-> [w |-> 1, h |-> 5]]

-------------------------------------------------------------------------------
Init ==
  /\ job \in {"line", "box", "pyramids", "ants", "viewer", "cutting", "drawing"}
  /\ InitLine /\ (job # "line" => szLine = [k \in Index |-> NUL])
  /\ InitBox /\ InitPyramids /\ InitAnts /\ InitViewer /\ InitCutting /\ InitDrawing

TakeLine ==
  /\ job = "line" /\ LineStep
  /\ UNCHANGED <<job, box, pyramids, ants, viewing, cutting, drawing>>

RunBox ==
  /\ job = "box" /\ BoxStep
  /\ UNCHANGED <<job, line, pyramids, ants, viewing, cutting, drawing>>

RunPyramids ==
  /\ job = "pyramids" /\ PyramidsStep
  /\ UNCHANGED <<job, line, box, ants, viewing, cutting, drawing>>

RunAnts ==
  /\ job = "ants" /\ AntsStep
  /\ UNCHANGED <<job, line, box, pyramids, viewing, cutting, drawing>>

View ==
  /\ job = "viewer" /\ ViewerStep
  /\ UNCHANGED <<job, line, box, pyramids, ants, cutting, drawing>>

CutFont ==
  /\ job = "cutting" /\ CuttingStep
  /\ UNCHANGED <<job, line, box, pyramids, ants, viewing, drawing>>

Draw ==
  /\ job = "drawing" /\ DrawingStep
  /\ UNCHANGED <<job, line, box, pyramids, ants, viewing, cutting>>

Ended ==
  CASE job = "line" -> LineEnds
    [] job = "box" -> BoxEnds
    [] job = "pyramids" -> PyramidsEnds
    [] job = "ants" -> AntsEnd
    [] job = "viewer" -> ViewerEnds
    [] job = "cutting" -> CuttingEnds
    [] job = "drawing" -> DrawingEnds

Next ==
  \/ TakeLine \/ RunBox \/ RunPyramids \/ RunAnts \/ View \/ CutFont \/ Draw
  \/ Ended /\ UNCHANGED vars

\* Nothing runs beside a program.
Spec == Init /\ [][Next]_vars /\ WF_vars(RunAnts)
===============================================================================
