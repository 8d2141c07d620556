--------------------------- MODULE PartitionRegister ---------------------------
(***************************************************************************)
(* What the pair of partition tables promises its callers: one register    *)
(* that survives power loss and that an operation changes in one step or   *)
(* not at all.                                                             *)
(***************************************************************************)
EXTENDS PartitionStuff

CONSTANT CallerEntries   \* entries a caller of pt_table_update_entry passes

VARIABLE current         \* the contents every reader sees

Init == current \in Stuff

SwitchFirmware == current' = IapSwitched(current)

UpdateEntry(e) ==
  /\ CanUpdate(current, e)
  /\ current' = EntryUpdated(current, e)

Next == SwitchFirmware \/ \E e \in CallerEntries : UpdateEntry(e)

Spec == Init /\ [][Next]_current
===============================================================================
