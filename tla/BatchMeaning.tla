------------------------------ MODULE BatchMeaning -----------------------------
(***************************************************************************)
(* What a line of the console means, nested batch files included, as a     *)
(* recursion over the lines of a file; and that the calls of ConsoleMode,  *)
(* a stack, carry out what a line means.                                   *)
(***************************************************************************)
EXTENDS Desktop

Lines == BatchLines \cup Typed

\* Lines to be carried out from a path, with room for a depth of calls.
Calls == Seq(Lines) \X Seq(Name) \X Nat

\* The path l gives when the current one is path.
Goal(l, path) == IF l.absolute THEN l.names ELSE path \o l.names

Nothing(path) == [does |-> <<>>, path |-> path]

\* What carrying out lines from path should do, as a recursion over the lines
\* instead of a stack: the entries carried out and the path they end in.  The
\* lines after end and quit are not carried out, a nested batch file is carried
\* out where its command stands.
Meaning[call \in Calls] ==
  LET lines == call[1]
      path == call[2]
      depth == call[3]
  IN
  IF lines = <<>> \/ depth = 0 THEN Nothing(path)
  ELSE
    LET l == lines[1]
        inner ==
          CASE l.op = "cd" -> Nothing(Goal(l, path))
            [] l.op = "batch" -> Meaning[<<Content(Goal(l, path)), path, depth - 1>>]
            [] OTHER -> Nothing(path)
        after ==
          IF l.op \in {"quit", "end"} THEN Nothing(path)
          ELSE Meaning[<<Tail(lines), inner.path, depth>>]
    IN  [does |-> <<[line |-> l, path |-> path]>> \o inner.does \o after.does,
         path |-> after.path]

\* What the line the user typed means; it is the first of the log.
Whole == Meaning[<<<<log[1].line>>, log[1].path, MaxDepth>>]

\* As long as nothing failed, the console has carried out a beginning of what
\* the line the user typed means, in order and each in the folder that the lines
\* before it left, and all of it when it asks for the next line.
BatchInOrder ==
  log # <<>> /\ ~ioFail =>
    /\ Len(log) <= Len(Whole.does)
    /\ log = SubSeq(Whole.does, 1, Len(log))
    /\ In("line") /\ batches = <<>> => log = Whole.does /\ szCurrentPath = Whole.path
===============================================================================
