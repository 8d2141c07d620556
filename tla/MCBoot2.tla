-------------------------------- MODULE MCBoot2 --------------------------------
(* Instance of Boot2.  Two places and an image of two chunks, so that a copy   *)
(* can stop half-way; tables with every active index, with a len that covers   *)
(* the image and with the shipped 0; a window of two polls, or of one; two     *)
(* resets, so that a copy can be cut short and the repeated one too.           *)
EXTENDS Boot2

MCPlaces == {"slot0", "slot1"}
MCAddress == [i \in {0, 1} |-> IF i = 0 THEN "slot0" ELSE "slot1"]
===============================================================================
