------------------------------ MODULE MCLReader -------------------------------
(***************************************************************************)
(* LReader for TLC.  The bytes are null, newline and a letter; the buffer  *)
(* has four of them, so that data of up to five takes one to five reads.   *)
(***************************************************************************)
EXTENDS LReader

MCByte == {0, 10, 97}
===============================================================================
