------------------------------- MODULE MCDesktop ------------------------------
(* Instances of Desktop.                                                     *)
EXTENDS Desktop, BatchMeaning, TLC

CONSTANTS a, b, c, f, g, long

Folder(name) == [name |-> name, folder |-> TRUE]
File(name) == [name |-> name, folder |-> FALSE]

\* Volume 0 holds the assets and batch files.  Volume 1 has a folder with a name
\* that is too long (a) and, in b, an empty folder (c) and one with more entries
\* than the arrays hold; its root is longer than b, and b longer than c.  Volume 2
\* is empty: behind its list are the numbers of the volumes.
MCListing ==
  << 0, <<>> >> :> <<Folder(a), File(f), File(g)>>
  @@ << 0, <<a>> >> :> <<File(f), File(g)>>
  @@ << 1, <<>> >> :> <<Folder(a), File(f), Folder(b)>>
  @@ << 1, <<a>> >> :> <<File(f), File(long)>>
  @@ << 1, <<b>> >> :> <<Folder(b), Folder(c)>>
  @@ << 1, <<b, b>> >> :> <<File(f), File(g), File(a), File(b)>>
  @@ << 1, <<b, c>> >> :> <<>>
  @@ << 2, <<>> >> :> <<>>

Cmd(op, absolute, names) == [op |-> op, absolute |-> absolute, names |-> names]

\* \f goes to \a, reads that folder as a batch file, runs the f there, which
\* looks around, comes back and ends early, then g, which quits; \a\g calls itself.
MCBatches ==
  <<f>> :> <<Cmd("cd", FALSE, <<a>>), Cmd("batch", TRUE, <<a>>), Cmd("batch", FALSE, <<f>>),
             Cmd("cd", TRUE, <<>>), Cmd("batch", FALSE, <<g>>), Line("ls")>>
  @@ <<a, f>> :> <<Cmd("cat", FALSE, <<g>>), Line("graphics"), Cmd("cd", TRUE, <<>>),
                   Line("end"), Line("ls")>>
  @@ <<g>> :> <<Line("quit"), Line("other")>>
  @@ <<a, g>> :> <<Cmd("batch", TRUE, <<a, g>>)>>

MCTyped ==
  {Cmd("cd", TRUE, <<>>), Cmd("cd", FALSE, <<a>>), Line("ls"), Cmd("cat", FALSE, <<f>>),
   Cmd("batch", FALSE, <<f>>), Cmd("batch", TRUE, <<a, g>>),
   Line("quit"), Line("end"), Line("graphics"), Line("other")}
===============================================================================
