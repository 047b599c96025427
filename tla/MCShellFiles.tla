----------------------------- MODULE MCShellFiles -----------------------------
(***************************************************************************)
(* ShellFiles for TLC: two paths, files of up to four of two bytes, reads *)
(* of two bytes and a writer of three, so that reads and flushes fall on   *)
(* different places and a line with CR LF overflows the writer.            *)
(***************************************************************************)
EXTENDS ShellFiles

MCLines == {<<>>, <<353, 98>>}
===============================================================================
