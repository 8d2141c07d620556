--------------------------- MODULE MCConnectionSetup ---------------------------
(***************************************************************************)
(* Instance of ConnectionSetup for TLC: an information read beside the     *)
(* descriptor write, so that a command can be at and behind the head, and   *)
(* a second link on which the leftovers of the first are met.              *)
(***************************************************************************)
EXTENDS ConnectionSetup
===============================================================================
