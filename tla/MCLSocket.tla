------------------------------ MODULE MCLSocket -------------------------------
(***************************************************************************)
(* LSocket for TLC.  TCPEventStatus grows by at most one with every        *)
(* operation that leaves it up, of which a command has at most a few.      *)
(***************************************************************************)
EXTENDS LSocket
===============================================================================
