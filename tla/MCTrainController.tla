--------------------------- MODULE MCTrainController ---------------------------
(* Instances of TrainController for TLC: two devices whose names contain     *)
(* "lego_train_" (trains, or another controller) and as many connection      *)
(* objects, so that an old link may end while a new one is set up; or one of *)
(* each, with a thread of the host held while a link ends.                   *)
EXTENDS TrainController
===============================================================================
