---------------------------- MODULE PartitionStuff ----------------------------
(***************************************************************************)
(* The contents of a partition table (pt_table_stuff_config) and the two   *)
(* functions that compute the next contents: the firmware switch of        *)
(* pt_table_set_iap_para and the entry update of pt_table_update_entry.    *)
(* Addresses, names and lengths of an entry are never changed by the code  *)
(* and are left out; what a table says is its age and, for each entry, its *)
(* type, its active index and its age.                                     *)
(***************************************************************************)
EXTENDS Integers, Sequences

CONSTANTS
  EntryTypes,    \* values of the type field of an entry
  PT_ENTRY_MAX,  \* capacity of the entry array (16 in partition.h)
  AgeModulus     \* ages are unsigned words: 2^32 in partition.h

ASSUME StuffAssumption ==
  /\ PT_ENTRY_MAX \in Nat
  /\ AgeModulus \in Nat \ {0}

Ages == 0 .. AgeModulus - 1

(* active_index: bit 0 selects the address, a value of 2 or more asks the  *)
(* bootloader to copy the image to the other address first.                *)
ActiveIndexes == 0 .. 3

Entry == [type: EntryTypes, active_index: ActiveIndexes, age: Ages]

Stuff == [age: Ages, entries: Seq(Entry)]

Incremented(n) == (n + 1) % AgeModulus

(* Mutant: the flag bit is not masked off. *)
OtherIndex_Unmasked(i) == 1 - i

(* !(active_index & 0x01) *)
OtherIndex(i) == 1 - (i % 2)

Switched(e) == [e EXCEPT !.active_index = OtherIndex(e.active_index)]

(* The table pt_table_set_iap_para writes: one age on, entry 0 switched.    *)
IapSwitched(s) ==
  [age |-> Incremented(s.age),
   entries |-> [s.entries EXCEPT ![1] = Switched(s.entries[1])]]

HasEntry(s, type) == \E i \in DOMAIN s.entries : s.entries[i].type = type

(* Position of the first entry of a type: the loop both lookups run.       *)
FirstEntry(s, type) ==
  CHOOSE i \in DOMAIN s.entries :
    /\ s.entries[i].type = type
    /\ \A j \in DOMAIN s.entries : s.entries[j].type = type => i <= j

(* pt_table_update_entry gives up (PT_ERROR_ENTRY_UPDATE_FAIL) only when it *)
(* would have to append to a full table.                                   *)
CanUpdate(s, e) == HasEntry(s, e.type) \/ Len(s.entries) < PT_ENTRY_MAX

(* The table pt_table_update_entry writes: entry replaced or appended.     *)
EntryUpdated(s, e) ==
  [age |-> Incremented(s.age),
   entries |-> IF HasEntry(s, e.type)
                 THEN [s.entries EXCEPT ![FirstEntry(s, e.type)] = e]
                 ELSE Append(s.entries, e)]
===============================================================================
