----------------------------- MODULE PartitionTable -----------------------------
(***************************************************************************)
(* The two copies of the partition table in flash (partition.c) and the    *)
(* bootloader operations that replace one copy: erase the sector, then     *)
(* program it.  Power may fail, and the flash driver may report an error,  *)
(* at either step.                                                         *)
(***************************************************************************)
EXTENDS PartitionStuff

CONSTANTS
  CallerEntries,  \* entries the boot sequence passes to pt_table_update_entry
  FactoryStuff,   \* tables that may be found in flash at the first power-up
  MaxAge,         \* bound on the age of a factory table
  Endurance       \* bound on the number of table rewrites (flash endurance)

ASSUME TableAssumption ==
  /\ CallerEntries \subseteq Entry
  /\ FactoryStuff \subseteq Stuff
  /\ \A s \in FactoryStuff : /\ s.age <= MaxAge
                              /\ Len(s.entries) \in 1 .. PT_ENTRY_MAX
  /\ MaxAge \in Nat
  /\ Endurance \in Nat
  /\ MaxAge + Endurance < AgeModulus

VARIABLES
  table,     \* the two flash sectors at BFLB_PT_TABLE0/1_ADDRESS
  op,        \* the rewrite under way in the bootloader task
  iap,       \* p_iap_param
  inLoader,  \* bflb_eflash_loader_main is running
  wear       \* table rewrites begun so far

ptVars == << table, op, iap, inLoader, wear >>

TableIds == {0, 1}
PT_TABLE_ID_INVALID == 2

(***************************************************************************)
(* A sector: the outcome of the three checks pt_table_valid makes (magic   *)
(* code, CRC of the header, CRC of the entries) and what it says.          *)
(***************************************************************************)
Sector == [magic: BOOLEAN, hcrc: BOOLEAN, ecrc: BOOLEAN,
           age: Ages, entries: Seq(Entry)]

Programmed(s) == [magic |-> TRUE, hcrc |-> TRUE, ecrc |-> TRUE,
                  age |-> s.age, entries |-> s.entries]

Blank == [magic |-> FALSE, hcrc |-> FALSE, ecrc |-> FALSE,
          age |-> 0, entries |-> << >>]

(* What is left of sector contents when an erase or a program operation    *)
(* stops half way: everything, the header only, part of the header, or     *)
(* nothing.                                                                *)
Interrupted(s) ==
  { s,
    [s EXCEPT !.ecrc = FALSE, !.entries = << >>],
    [s EXCEPT !.hcrc = FALSE, !.ecrc = FALSE, !.entries = << >>],
    Blank }

Contents(s) == [age |-> s.age, entries |-> s.entries]

(* Mutant: the CRC of the entries is not checked. *)
pt_table_valid_HeaderOnly(s) ==
  /\ s.magic
  /\ Len(s.entries) <= PT_ENTRY_MAX
  /\ s.hcrc

pt_table_valid(s) ==
  /\ s.magic
  /\ Len(s.entries) <= PT_ENTRY_MAX
  /\ s.hcrc
  /\ s.ecrc

pt_table_get_active_partition_need_lock(t) ==
  IF pt_table_valid(t[0]) /\ pt_table_valid(t[1])
    THEN IF t[0].age >= t[1].age THEN 0 ELSE 1
    ELSE IF pt_table_valid(t[0]) THEN 0
    ELSE IF pt_table_valid(t[1]) THEN 1
    ELSE PT_TABLE_ID_INVALID

Active == pt_table_get_active_partition_need_lock(table)

-------------------------------------------------------------------------------
NoOp == [step |-> "idle", target |-> 0, by |-> "none",
         stuff |-> [age |-> 0, entries |-> << >>]]

Rewrite(t, s, caller) ==
  [step |-> "erase", target |-> t, by |-> caller, stuff |-> s]

(* RAM is zeroed by the startup code at every reset. *)
ZeroIap == [inactive_table_index |-> 0, inactive_index |-> 0]

Init ==
  /\ table \in [TableIds -> {Blank} \union {Programmed(s) : s \in FactoryStuff}]
  /\ \E t \in TableIds : pt_table_valid(table[t])
  /\ op = NoOp
  /\ iap = ZeroIap
  /\ inLoader = FALSE
  /\ wear = 0

(* Mutant: a tie of the ages goes to the other table. *)
IapSource_StrictAge(t) ==
  IF pt_table_valid(t[0]) /\ pt_table_valid(t[1])
    THEN IF t[0].age > t[1].age THEN 0 ELSE 1
    ELSE IF pt_table_valid(t[1]) THEN 1
    ELSE IF pt_table_valid(t[0]) THEN 0
    ELSE PT_TABLE_ID_INVALID

(* The table pt_table_get_iap_para reads the parameters from: its own copy  *)
(* of the selection, written in another order than the one above.          *)
IapSource(t) ==
  IF pt_table_valid(t[0]) /\ pt_table_valid(t[1])
    THEN IF t[0].age >= t[1].age THEN 0 ELSE 1
    ELSE IF pt_table_valid(t[1]) THEN 1
    ELSE IF pt_table_valid(t[0]) THEN 0
    ELSE PT_TABLE_ID_INVALID

(* bflb_eflash_loader_main starts a session: pt_table_get_iap_para; without *)
(* a valid table the session is refused.  The slot is the address that     *)
(* entry 0 does not select.                                                *)
LoaderEnter ==
  /\ op.step = "idle"
  /\ ~ inLoader
  /\ LET src == IapSource(table)
     IN  /\ src # PT_TABLE_ID_INVALID
         /\ iap' = [inactive_table_index |-> 1 - src,
                    inactive_index |-> OtherIndex(table[src].entries[1].active_index)]
  /\ inLoader' = TRUE
  /\ UNCHANGED << table, op, wear >>

(* The session ends without a reset (timeouts or three failed commands).   *)
LoaderReturn ==
  /\ op.step = "idle"
  /\ inLoader
  /\ inLoader' = FALSE
  /\ UNCHANGED << table, op, iap, wear >>

(* The reset command calls pt_table_set_iap_para, which reads the table    *)
(* other than inactive_table_index without validating it.                  *)
pt_table_set_iap_para ==
  /\ op.step = "idle"
  /\ inLoader
  /\ wear < Endurance
  /\ LET t == iap.inactive_table_index
     IN  op' = Rewrite(t, IapSwitched(Contents(table[1 - t])), "iap")
  /\ wear' = wear + 1
  /\ UNCHANGED << table, iap, inLoader >>

(* Mutant: the entry is stored in place, in the active table. *)
pt_table_update_entry_InPlace(e) ==
  /\ op.step = "idle"
  /\ ~ inLoader
  /\ wear < Endurance
  /\ Active # PT_TABLE_ID_INVALID
  /\ CanUpdate(Contents(table[Active]), e)
  /\ op' = Rewrite(Active, EntryUpdated(Contents(table[Active]), e), "boot")
  /\ wear' = wear + 1
  /\ UNCHANGED << table, iap, inLoader >>

(* The boot sequence stores an entry in the table that is not active.      *)
pt_table_update_entry(e) ==
  /\ op.step = "idle"
  /\ ~ inLoader
  /\ wear < Endurance
  /\ Active # PT_TABLE_ID_INVALID
  /\ CanUpdate(Contents(table[Active]), e)
  /\ op' = Rewrite(1 - Active, EntryUpdated(Contents(table[Active]), e), "boot")
  /\ wear' = wear + 1
  /\ UNCHANGED << table, iap, inLoader >>

(* A finished rewrite: the reset command ignores the result and resets the *)
(* chip, the boot sequence goes on in the bootloader.                      *)
OpDone ==
  /\ op' = NoOp
  /\ inLoader' = FALSE
  /\ IF op.by = "iap" THEN iap' = ZeroIap ELSE UNCHANGED iap
  /\ UNCHANGED wear

EraseTable ==
  /\ op.step = "erase"
  /\ table' = [table EXCEPT ![op.target] = Blank]
  /\ op' = [op EXCEPT !.step = "write"]
  /\ UNCHANGED << iap, inLoader, wear >>

(* gp_pt_table_flash_erase reports an error: no write is attempted. *)
EraseTableError ==
  /\ op.step = "erase"
  /\ \E s \in Interrupted(table[op.target]) :
       table' = [table EXCEPT ![op.target] = s]
  /\ OpDone

WriteTable ==
  /\ op.step = "write"
  /\ table' = [table EXCEPT ![op.target] = Programmed(op.stuff)]
  /\ OpDone

WriteTableError ==
  /\ op.step = "write"
  /\ \E s \in Interrupted(Programmed(op.stuff)) :
       table' = [table EXCEPT ![op.target] = s]
  /\ OpDone

(* Power fails: RAM is lost, a sector being changed is left as it is. *)
PowerLoss ==
  /\ CASE op.step = "idle"  -> UNCHANGED table
       [] op.step = "erase" -> \E s \in Interrupted(table[op.target]) :
                                 table' = [table EXCEPT ![op.target] = s]
       [] op.step = "write" -> \E s \in Interrupted(Programmed(op.stuff)) :
                                 table' = [table EXCEPT ![op.target] = s]
  /\ op' = NoOp
  /\ iap' = ZeroIap
  /\ inLoader' = FALSE
  /\ UNCHANGED wear

Next ==
  \/ LoaderEnter
  \/ LoaderReturn
  \/ pt_table_set_iap_para
  \/ \E e \in CallerEntries : pt_table_update_entry(e)
  \/ EraseTable
  \/ EraseTableError
  \/ WriteTable
  \/ WriteTableError
  \/ PowerLoss

Spec == Init /\ [][Next]_ptVars

-------------------------------------------------------------------------------
(* Type invariant: sectors, the rewrite under way and the IAP parameters   *)
(* hold values the C types allow.                                          *)
TypeOK ==
  /\ table \in [TableIds -> Sector]
  /\ op \in [step: {"idle", "erase", "write"}, target: TableIds,
             by: {"none", "iap", "boot"}, stuff: Stuff]
  /\ iap \in [inactive_table_index: TableIds, inactive_index: {0, 1}]
  /\ inLoader \in BOOLEAN
  /\ wear \in 0 .. Endurance

(* Whatever step of pt_table_set_iap_para or pt_table_update_entry power   *)
(* fails in, and whatever errors the flash driver reports, one of the two  *)
(* tables still passes pt_table_valid: boot2 never ends in "No valid PT".  *)
SomeTableValid == \E t \in TableIds : pt_table_valid(table[t])

(* Throughout a loader session the parameters read at its start describe   *)
(* the flash: pt_table_get_iap_para chose the table boot2 would choose,    *)
(* names the other one for replacement and the address not in use.         *)
LoaderAgreesWithBoot ==
  inLoader /\ op.step = "idle" =>
    /\ Active # PT_TABLE_ID_INVALID
    /\ iap.inactive_table_index = 1 - Active
    /\ iap.inactive_index = OtherIndex(table[Active].entries[1].active_index)

(* What a reader of the table pair sees. *)
CurrentContents ==
  IF Active = PT_TABLE_ID_INVALID THEN Contents(Blank) ELSE Contents(table[Active])

Register == INSTANCE PartitionRegister WITH current <- CurrentContents

(* The table pair implements one register that is switched or updated      *)
(* atomically: power loss or a flash error in the middle of a rewrite      *)
(* leaves the old contents or the new ones, never older or damaged ones.   *)
ImplementsRegister == Register!Spec
===============================================================================
