---------------------------- MODULE MCFirmwareUpdate ----------------------------
(***************************************************************************)
(* Instances of FirmwareUpdate for TLC: an image of two chunks, so that a   *)
(* rewind, a repetition and an overtaking of pages can be told apart, and   *)
(* retry limits large enough for a retry to succeed and small enough to be *)
(* used up by MaxFaults faults.  FlashPages leaves room for the chunks a   *)
(* rewound image is written past its end.                                  *)
(***************************************************************************)
EXTENDS FirmwareUpdate
===============================================================================
