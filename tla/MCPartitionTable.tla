---------------------------- MODULE MCPartitionTable ----------------------------
(***************************************************************************)
(* Instance of PartitionTable for TLC: two factory entries in a table of   *)
(* three, every age tie and order at the first power-up, and callers that  *)
(* replace an entry, append one, and meet a full table.                    *)
(***************************************************************************)
EXTENDS PartitionTable

MCFactoryStuff ==
  [age: 0 .. 2,
   entries: { << [type |-> 0, active_index |-> i, age |-> 0],
                 [type |-> 1, active_index |-> 0, age |-> 0] >> : i \in {0, 3} }]

MCCallerEntries ==
  { [type |-> 0, active_index |-> 1, age |-> 1],
    [type |-> 2, active_index |-> 0, age |-> 0],
    [type |-> 3, active_index |-> 0, age |-> 0] }
===============================================================================
