-------------------------------- MODULE MCLTask --------------------------------
(***************************************************************************)
(* Instances of LTask and LTaskQueue for TLC.                              *)
(***************************************************************************)
EXTENDS LTaskQueue
===============================================================================
