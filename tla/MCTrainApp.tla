------------------------------ MODULE MCTrainApp ------------------------------
(* Instance of TrainApp with the  one connection object of the m0s1p build.  *)
(* Commands are answered in the order the priorities give, but that the work *)
(* queue or the transmit thread is late once.  Two waits stand for           *)
(* ADV_1S_DURATION: the count passes through a value below the limit and     *)
(* reaches it.                                                               *)
EXTENDS TrainApp
===============================================================================
