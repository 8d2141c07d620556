------------------------- MODULE MCFirmwareChooser -------------------------
(* Two products whose servers have one file name in common and one image    *)
(* that does not fit, and two list coroutines: enough for a list, an image  *)
(* and an answer of one product to meet a session with the other.           *)
EXTENDS FirmwareChooser

MCListed == [p \in Products |-> IF p = "robot" THEN {"f", "g"} ELSE {"f"}]
MCTooBig == {<<"robot", "g">>}
=============================================================================
