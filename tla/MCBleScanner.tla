---------------------------- MODULE MCBleScanner ----------------------------
(* Two devices, one of which changes its name between two adverts (a robot  *)
(* that enters its bootloader), and a name that contains another one; four  *)
(* scans, so that a scan, its failure and two later scans overlap.          *)
EXTENDS BleScanner

MCDevices == {[address |-> 1, name |-> "lego_train_1"],
              [address |-> 1, name |-> "robot_bl702_1"],
              [address |-> 2, name |-> "lego_train_12"]}
MCContains(a, b) == a = b \/ (a = "lego_train_12" /\ b = "lego_train_1")
=============================================================================
