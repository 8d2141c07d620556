-------------------------- MODULE PartitionTableProofs --------------------------
(***************************************************************************)
(* Proofs about PartitionTable for every entry set, table capacity, age    *)
(* width and number of rewrites that TableAssumption allows.               *)
(***************************************************************************)
EXTENDS PartitionTable, TLAPS

(* The register step a rewrite under way is going to perform.              *)
Prepares(s, c) ==
  \/ s = IapSwitched(c)
  \/ \E e \in CallerEntries : CanUpdate(c, e) /\ s = EntryUpdated(c, e)

(* Every valid table has an entry and no age has reached the word limit.   *)
TablesSound ==
  \A t \in TableIds : pt_table_valid(table[t]) =>
    /\ Len(table[t].entries) >= 1
    /\ table[t].age <= MaxAge + wear

(* A rewrite replaces the table that is not active by a newer one computed *)
(* from the active one.                                                    *)
OpSound ==
  op.step # "idle" =>
    /\ Active = 1 - op.target
    /\ op.stuff.age = table[1 - op.target].age + 1
    /\ op.stuff.age <= MaxAge + wear
    /\ Len(op.stuff.entries) \in 1 .. PT_ENTRY_MAX
    /\ Prepares(op.stuff, Contents(table[1 - op.target]))

IInv == TypeOK /\ SomeTableValid /\ TablesSound /\ OpSound /\ LoaderAgreesWithBoot

-------------------------------------------------------------------------------
(* Word arithmetic: no wrap-around below the bound on rewrites.            *)
LEMMA IncrementedBelowLimit ==
  ASSUME NEW n \in Nat, n + 1 < AgeModulus
  PROVE  Incremented(n) = n + 1
BY StuffAssumption, SMT DEF Incremented

(* The other table of a table is a table.                                  *)
LEMMA OtherIndexType ==
  ASSUME NEW i \in ActiveIndexes
  PROVE  OtherIndex(i) \in {0, 1}
BY SMT DEF OtherIndex, ActiveIndexes

(* Incremented never leaves the word.                                      *)
LEMMA IncrementedType ==
  ASSUME NEW n \in Ages
  PROVE  Incremented(n) \in Ages
BY StuffAssumption, SMT DEF Incremented, Ages

(* Replacing an element keeps a sequence's length and type.                *)
LEMMA ReplaceInSeq ==
  ASSUME NEW S, NEW q \in Seq(S), NEW e \in S, NEW i
  PROVE  /\ [q EXCEPT ![i] = e] \in Seq(S)
         /\ Len([q EXCEPT ![i] = e]) = Len(q)
<1>1. CASE i \in 1 .. Len(q)
  BY <1>1
<1>2. CASE i \notin 1 .. Len(q)
  <2>1. q = [j \in 1 .. Len(q) |-> q[j]]
    OBVIOUS
  <2>2. [q EXCEPT ![i] = e] = q
    BY <1>2, <2>1, Zenon
  <2> QED BY <2>2
<1> QED BY <1>1, <1>2

(* The firmware switch keeps the shape of a table.                         *)
LEMMA IapSwitchedShape ==
  ASSUME NEW s \in Stuff, Len(s.entries) >= 1
  PROVE  /\ IapSwitched(s) \in Stuff
         /\ Len(IapSwitched(s).entries) = Len(s.entries)
<1> DEFINE e == Switched(s.entries[1])
<1>1. s.entries \in Seq(Entry) /\ s.age \in Ages
  BY DEF Stuff
<1>2. 1 \in 1 .. Len(s.entries) /\ s.entries[1] \in Entry
  BY <1>1
<1>3. e \in Entry
  BY <1>2, OtherIndexType DEF Entry, ActiveIndexes, Switched
<1>4. /\ [s.entries EXCEPT ![1] = e] \in Seq(Entry)
      /\ Len([s.entries EXCEPT ![1] = e]) = Len(s.entries)
  <2> HIDE DEF e
  <2> QED BY <1>1, <1>3, ReplaceInSeq
<1>5. IapSwitched(s) = [age |-> Incremented(s.age), entries |-> [s.entries EXCEPT ![1] = e]]
  BY DEF IapSwitched
<1>6. IapSwitched(s).entries = [s.entries EXCEPT ![1] = e]
  BY <1>5
<1> QED
  BY <1>1, <1>4, <1>5, <1>6, IncrementedType DEF Stuff

(* So does the entry update, which never exceeds the capacity.             *)
LEMMA EntryUpdatedShape ==
  ASSUME NEW s \in Stuff, NEW e \in Entry, CanUpdate(s, e),
         Len(s.entries) \in 1 .. PT_ENTRY_MAX
  PROVE  /\ EntryUpdated(s, e) \in Stuff
         /\ Len(EntryUpdated(s, e).entries) \in 1 .. PT_ENTRY_MAX
<1>1. s.entries \in Seq(Entry) /\ s.age \in Ages
  BY DEF Stuff
<1> DEFINE es == IF HasEntry(s, e.type)
                   THEN [s.entries EXCEPT ![FirstEntry(s, e.type)] = e]
                   ELSE Append(s.entries, e)
<1>2. es \in Seq(Entry) /\ Len(es) \in 1 .. PT_ENTRY_MAX
  <2>1. CASE HasEntry(s, e.type)
    <3> DEFINE i == FirstEntry(s, e.type)
    <3>1. /\ [s.entries EXCEPT ![i] = e] \in Seq(Entry)
          /\ Len([s.entries EXCEPT ![i] = e]) = Len(s.entries)
      <4> HIDE DEF i
      <4> QED BY <1>1, ReplaceInSeq
    <3> QED BY <2>1, <3>1
  <2>2. CASE ~ HasEntry(s, e.type)
    <3>1. Len(s.entries) < PT_ENTRY_MAX
      BY <2>2 DEF CanUpdate
    <3> QED BY <2>2, <3>1, <1>1, StuffAssumption
  <2> QED BY <2>1, <2>2
<1>3. EntryUpdated(s, e) = [age |-> Incremented(s.age), entries |-> es]
  BY DEF EntryUpdated
<1>4. EntryUpdated(s, e).entries = es
  BY <1>3
<1> QED
  BY <1>1, <1>2, <1>3, <1>4, IncrementedType DEF Stuff
-------------------------------------------------------------------------------
(* The pair of sectors. *)

(* An erased sector is not a valid table.                                  *)
LEMMA BlankInvalid == ~ pt_table_valid(Blank) /\ Blank \in Sector
<1>1. 0 \in Ages
  BY StuffAssumption DEF Ages
<1>2. << >> \in Seq(Entry)
  OBVIOUS
<1> QED
  BY <1>1, <1>2 DEF pt_table_valid, Blank, Sector

(* An interrupted operation leaves the sector as it was or invalid.        *)
LEMMA InterruptedSector ==
  ASSUME NEW s \in Sector, NEW r \in Interrupted(s)
  PROVE  r \in Sector /\ (r = s \/ ~ pt_table_valid(r))
<1>1. << >> \in Seq(Entry)
  OBVIOUS
<1> QED
  BY <1>1, BlankInvalid DEF Interrupted, pt_table_valid, Sector

(* Programming leaves a sector.                                            *)
LEMMA ProgrammedSector ==
  ASSUME NEW s \in Stuff
  PROVE  /\ Programmed(s) \in Sector
         /\ pt_table_valid(Programmed(s)) <=> Len(s.entries) <= PT_ENTRY_MAX
         /\ Contents(Programmed(s)) = s
BY DEF Programmed, Sector, Stuff, Contents, pt_table_valid

(* What the valid tables say is well typed.                                *)
LEMMA ContentsType ==
  ASSUME NEW s \in Sector
  PROVE  Contents(s) \in Stuff /\ Contents(s).age = s.age /\ Contents(s).entries = s.entries
BY DEF Contents, Sector, Stuff

Act(t) == pt_table_get_active_partition_need_lock(t)

(* The active table is a valid one.                                        *)
LEMMA ActiveValid ==
  ASSUME NEW T, \E t \in TableIds : pt_table_valid(T[t])
  PROVE  Act(T) \in TableIds /\ pt_table_valid(T[Act(T)])
BY DEF Act, pt_table_get_active_partition_need_lock, TableIds, PT_TABLE_ID_INVALID

(* Losing the table that is not active does not change the choice.         *)
LEMMA ActiveAfterLoss ==
  ASSUME NEW T \in [TableIds -> Sector], NEW t \in TableIds,
         \E u \in TableIds : pt_table_valid(T[u]),
         Act(T) = 1 - t,
         NEW r, ~ pt_table_valid(r) \/ r = T[t]
  PROVE  LET U == [T EXCEPT ![t] = r]
         IN  /\ Act(U) = 1 - t
             /\ U[1 - t] = T[1 - t]
             /\ pt_table_valid(U[1 - t])
<1> DEFINE U == [T EXCEPT ![t] = r]
<1>1. pt_table_valid(T[1 - t])
  BY ActiveValid
<1>2. U[1 - t] = T[1 - t] /\ U[t] = r
  BY DEF TableIds
<1>3. Act(U) = 1 - t
  <2>1. CASE r = T[t]
    BY <2>1, <1>2 DEF Act, pt_table_get_active_partition_need_lock, TableIds, PT_TABLE_ID_INVALID
  <2>2. CASE ~ pt_table_valid(r)
    BY <2>2, <1>1, <1>2 DEF Act, pt_table_get_active_partition_need_lock, TableIds, PT_TABLE_ID_INVALID
  <2> QED BY <2>1, <2>2
<1> QED BY <1>1, <1>2, <1>3

(* Programming a newer table beside the active one makes it the active one. *)
LEMMA ActiveAfterWrite ==
  ASSUME NEW T \in [TableIds -> Sector], NEW t \in TableIds,
         pt_table_valid(T[1 - t]),
         NEW r \in Sector, pt_table_valid(r), r.age > T[1 - t].age
  PROVE  Act([T EXCEPT ![t] = r]) = t
BY DEF Act, pt_table_get_active_partition_need_lock, TableIds, PT_TABLE_ID_INVALID, Sector, Ages

(* The loader's selection is the boot sequence's selection.                *)
LEMMA SameSource == ASSUME NEW T PROVE IapSource(T) = Act(T)
BY DEF IapSource, Act, pt_table_get_active_partition_need_lock
-------------------------------------------------------------------------------
(* The inductive invariant. *)

(* The inductive invariant holds initially.                                *)
LEMMA InitInv == Init => IInv
<1> SUFFICES ASSUME Init PROVE IInv
  OBVIOUS
<1>1. ASSUME NEW s \in FactoryStuff
      PROVE  /\ Programmed(s) \in Sector
             /\ Programmed(s).age <= MaxAge
             /\ Len(Programmed(s).entries) >= 1
  <2>1. s \in Stuff /\ s.age <= MaxAge /\ Len(s.entries) \in 1 .. PT_ENTRY_MAX
    BY TableAssumption
  <2>2. Programmed(s) \in Sector
    BY <2>1, ProgrammedSector
  <2> QED BY <2>1, <2>2 DEF Programmed
<1>2. table \in [TableIds -> Sector]
  BY <1>1, BlankInvalid DEF Init
<1>3. op \in [step: {"idle", "erase", "write"}, target: TableIds,
             by: {"none", "iap", "boot"}, stuff: Stuff]
  <2>1. 0 \in Ages /\ << >> \in Seq(Entry)
    BY StuffAssumption DEF Ages
  <2> QED BY <2>1 DEF Init, NoOp, TableIds, Stuff
<1>4. TypeOK
  <2>1. iap \in [inactive_table_index: TableIds, inactive_index: {0, 1}]
    BY DEF Init, ZeroIap, TableIds
  <2>2. inLoader = FALSE /\ wear = 0 /\ Endurance \in Nat
    BY TableAssumption DEF Init
  <2>3. inLoader \in BOOLEAN
    BY <2>2, Zenon
  <2>4. wear \in 0 .. Endurance
    BY <2>2
  <2> QED BY <1>2, <1>3, <2>1, <2>3, <2>4, Zenon DEF TypeOK
<1>5. TablesSound
  BY <1>1, BlankInvalid, TableAssumption DEF Init, TablesSound
<1>6. OpSound /\ LoaderAgreesWithBoot
  BY DEF Init, OpSound, LoaderAgreesWithBoot, NoOp
<1> QED
  BY <1>4, <1>5, <1>6 DEF Init, IInv, SomeTableValid

(* What the end of a rewrite must establish: sectors of the right type,    *)
(* one of them valid, none with a strange valid table.                     *)
LEMMA OpDoneInv ==
  ASSUME IInv, table' \in [TableIds -> Sector], SomeTableValid', OpDone,
         \A t \in TableIds : pt_table_valid(table'[t]) =>
           Len(table'[t].entries) >= 1 /\ table'[t].age <= MaxAge + wear
  PROVE  IInv'
<1> USE DEF OpDone
<1>1. NoOp \in [step: {"idle", "erase", "write"}, target: TableIds,
               by: {"none", "iap", "boot"}, stuff: Stuff]
  <2>1. 0 \in Ages /\ << >> \in Seq(Entry)
    BY StuffAssumption DEF Ages
  <2> QED BY <2>1 DEF NoOp, TableIds, Stuff
<1>2. TypeOK'
  BY <1>1 DEF IInv, TypeOK, ZeroIap, TableIds
<1>3. TablesSound'
  BY DEF TablesSound
<1>4. OpSound' /\ LoaderAgreesWithBoot'
  BY DEF OpSound, LoaderAgreesWithBoot, NoOp
<1> QED
  BY <1>2, <1>3, <1>4 DEF IInv

(* The target sector is left in some interrupted state of its old contents. *)
LEMMA EraseInterrupted ==
  ASSUME IInv, op.step = "erase", NEW s \in Interrupted(table[op.target]),
         table' = [table EXCEPT ![op.target] = s]
  PROVE  /\ table' \in [TableIds -> Sector]
         /\ SomeTableValid'
         /\ \A t \in TableIds : pt_table_valid(table'[t]) =>
              Len(table'[t].entries) >= 1 /\ table'[t].age <= MaxAge + wear
         /\ Active' = Active /\ table'[Active] = table[Active]
<1>1. /\ op.target \in TableIds /\ table \in [TableIds -> Sector]
      /\ Active = 1 - op.target /\ 1 - op.target \in TableIds
      /\ Active = Act(table)
  BY DEF IInv, TypeOK, OpSound, TableIds, Active, Act
<1>2. s \in Sector /\ (s = table[op.target] \/ ~ pt_table_valid(s))
  BY <1>1, InterruptedSector
<1>3. /\ Act(table') = 1 - op.target
      /\ table'[1 - op.target] = table[1 - op.target]
      /\ pt_table_valid(table'[1 - op.target])
  BY <1>1, <1>2, ActiveAfterLoss DEF IInv, SomeTableValid
<1>4. table'[op.target] = s
  BY <1>1
<1>5. table' \in [TableIds -> Sector]
  BY <1>1, <1>2
<1>6. ASSUME NEW t \in TableIds, pt_table_valid(table'[t])
      PROVE  Len(table'[t].entries) >= 1 /\ table'[t].age <= MaxAge + wear
  <2>1. table'[t] = table[t]
    BY <1>1, <1>2, <1>3, <1>4, <1>6 DEF TableIds
  <2> QED BY <1>6, <2>1 DEF IInv, TablesSound
<1> QED
  BY <1>1, <1>3, <1>5, <1>6 DEF SomeTableValid, Active, Act

(* The target sector is left in some interrupted state of the new table:   *)
(* either the new table is active or nothing a reader sees has changed.    *)
LEMMA WriteInterrupted ==
  ASSUME IInv, op.step = "write", NEW s \in Interrupted(Programmed(op.stuff)),
         table' = [table EXCEPT ![op.target] = s]
  PROVE  /\ table' \in [TableIds -> Sector]
         /\ SomeTableValid'
         /\ \A t \in TableIds : pt_table_valid(table'[t]) =>
              Len(table'[t].entries) >= 1 /\ table'[t].age <= MaxAge + wear
         /\ \/ Active' = Active /\ table'[Active] = table[Active]
            \/ Active' = op.target /\ table'[op.target] = Programmed(op.stuff)
<1> DEFINE u == 1 - op.target
<1>1. /\ op.target \in TableIds /\ table \in [TableIds -> Sector]
      /\ Active = u /\ u \in TableIds /\ Active = Act(table)
      /\ op.stuff \in Stuff /\ Len(op.stuff.entries) \in 1 .. PT_ENTRY_MAX
      /\ op.stuff.age = table[u].age + 1 /\ op.stuff.age <= MaxAge + wear
  BY DEF IInv, TypeOK, OpSound, TableIds, Active, Act
<1>2. pt_table_valid(table[u])
  BY <1>1, ActiveValid DEF IInv, SomeTableValid
<1>3. Programmed(op.stuff) \in Sector /\ pt_table_valid(Programmed(op.stuff))
  BY <1>1, ProgrammedSector
<1>4. s \in Sector /\ (s = Programmed(op.stuff) \/ ~ pt_table_valid(s))
  BY <1>3, InterruptedSector
<1>5. /\ table' \in [TableIds -> Sector]
      /\ table'[op.target] = s /\ table'[u] = table[u]
  BY <1>1, <1>4 DEF TableIds
<1>6. SomeTableValid'
  BY <1>1, <1>2, <1>5 DEF SomeTableValid
<1>7. \/ Act(table') = u
      \/ Act(table') = op.target /\ s = Programmed(op.stuff)
  <2>1. CASE s = Programmed(op.stuff)
    <3>1. s.age > table[u].age
      BY <2>1, <1>1 DEF Programmed, Sector, Ages
    <3> QED BY <3>1, <2>1, <1>1, <1>2, <1>3, ActiveAfterWrite
  <2>2. CASE ~ pt_table_valid(s)
    BY <2>2, <1>1, ActiveAfterLoss DEF IInv, SomeTableValid
  <2> QED BY <1>4, <2>1, <2>2
<1>8. ASSUME NEW t \in TableIds, pt_table_valid(table'[t])
      PROVE  Len(table'[t].entries) >= 1 /\ table'[t].age <= MaxAge + wear
  <2>1. CASE t = op.target
    <3>1. table'[t] = Programmed(op.stuff)
      BY <2>1, <1>4, <1>5, <1>8
    <3> QED BY <3>1, <1>1 DEF Programmed
  <2>2. CASE t = u
    BY <2>2, <1>2, <1>5, <1>8 DEF IInv, TablesSound
  <2> QED BY <2>1, <2>2, <1>1 DEF TableIds
<1> QED
  BY <1>1, <1>5, <1>6, <1>7, <1>8 DEF Active, Act
-------------------------------------------------------------------------------
(* One lemma per action that starts or ends a rewrite. *)

(* Entering the loader keeps the invariant.                                *)
LEMMA LoaderEnterInv == IInv /\ LoaderEnter => IInv'
<1> SUFFICES ASSUME IInv, LoaderEnter PROVE IInv'
  OBVIOUS
<1> DEFINE a == Act(table)
<1>1. a \in TableIds /\ pt_table_valid(table[a]) /\ IapSource(table) = a /\ Active = a
  BY ActiveValid, SameSource DEF IInv, SomeTableValid, Active, Act
<1>2. table[a] \in Sector /\ Len(table[a].entries) >= 1
  BY <1>1 DEF IInv, TypeOK, TablesSound
<1>3. table[a].entries[1].active_index \in ActiveIndexes
  <2>1. table[a].entries \in Seq(Entry)
    BY <1>2 DEF Sector
  <2>2. table[a].entries[1] \in Entry
    BY <1>2, <2>1
  <2> QED BY <2>2 DEF Entry
<1>4. iap' = [inactive_table_index |-> 1 - a,
              inactive_index |-> OtherIndex(table[a].entries[1].active_index)]
  BY <1>1 DEF LoaderEnter
<1>5. iap' \in [inactive_table_index: TableIds, inactive_index: {0, 1}]
  BY <1>1, <1>3, <1>4, OtherIndexType DEF TableIds
<1>6. UNCHANGED << table, op, wear >> /\ inLoader' = TRUE /\ op.step = "idle"
  BY DEF LoaderEnter
<1>7. TypeOK'
  BY <1>5, <1>6 DEF IInv, TypeOK
<1>8. SomeTableValid' /\ TablesSound' /\ OpSound' /\ Active' = a
  BY <1>1, <1>6 DEF IInv, SomeTableValid, TablesSound, OpSound, Active, Act
<1>9. LoaderAgreesWithBoot'
  BY <1>1, <1>4, <1>6, <1>8 DEF LoaderAgreesWithBoot, TableIds, PT_TABLE_ID_INVALID
<1> QED
  BY <1>7, <1>8, <1>9 DEF IInv

(* The new table, computed from the active one, is newer and fits.         *)
LEMMA BeginRewrite ==
  ASSUME IInv, op.step = "idle", wear < Endurance,
         NEW s \in Stuff, NEW caller \in {"iap", "boot"},
         s.age = Incremented(table[Active].age),
         Len(s.entries) \in 1 .. PT_ENTRY_MAX,
         Prepares(s, Contents(table[Active])),
         op' = Rewrite(1 - Active, s, caller), wear' = wear + 1,
         UNCHANGED << table, iap, inLoader >>
  PROVE  IInv'
<1> DEFINE a == Act(table)
<1>1. a \in TableIds /\ pt_table_valid(table[a]) /\ Active = a
  BY ActiveValid DEF IInv, SomeTableValid, Active, Act
<1>2. table[a] \in Sector /\ table[a].age <= MaxAge + wear /\ wear \in 0 .. Endurance
  BY <1>1 DEF IInv, TypeOK, TablesSound
<1>3. s.age = table[a].age + 1 /\ s.age <= MaxAge + wear'
  <2>1. table[a].age \in Nat /\ table[a].age + 1 < AgeModulus
    BY <1>2, TableAssumption, StuffAssumption DEF Sector, Ages
  <2>2. Incremented(table[a].age) = table[a].age + 1
    BY <2>1, IncrementedBelowLimit
  <2> QED BY <2>1, <2>2, <1>1, <1>2, TableAssumption
<1>4. 1 - a \in TableIds /\ 1 - (1 - a) = a
  BY <1>1 DEF TableIds
<1>5. /\ op'.step = "erase" /\ op'.target = 1 - a /\ op'.stuff = s
      /\ op' \in [step: {"idle", "erase", "write"}, target: TableIds,
                  by: {"none", "iap", "boot"}, stuff: Stuff]
  BY <1>1, <1>4 DEF Rewrite
<1>6. TypeOK'
  BY <1>2, <1>5, TableAssumption DEF IInv, TypeOK
<1>7. SomeTableValid' /\ Active' = a
  BY <1>1 DEF IInv, SomeTableValid, Active, Act
<1>8. TablesSound'
  <2> SUFFICES ASSUME NEW t \in TableIds, pt_table_valid(table[t])
               PROVE  Len(table[t].entries) >= 1 /\ table[t].age <= MaxAge + (wear + 1)
    BY DEF TablesSound
  <2>1. Len(table[t].entries) >= 1 /\ table[t].age <= MaxAge + wear /\ table[t].age \in Int
    BY DEF IInv, TablesSound, TypeOK, Sector, Ages
  <2> QED BY <2>1, <1>2, TableAssumption
<1>9. OpSound'
  BY <1>1, <1>3, <1>4, <1>5, <1>7 DEF OpSound
<1>10. LoaderAgreesWithBoot'
  BY <1>5 DEF LoaderAgreesWithBoot
<1> QED
  BY <1>6, <1>7, <1>8, <1>9, <1>10 DEF IInv

(* pt_table_set_iap_para keeps the invariant.                              *)
LEMMA SetIapInv == IInv /\ pt_table_set_iap_para => IInv'
<1> SUFFICES ASSUME IInv, pt_table_set_iap_para PROVE IInv'
  OBVIOUS
<1> DEFINE c == Contents(table[Active])
<1>1. /\ Active \in TableIds /\ pt_table_valid(table[Active])
      /\ iap.inactive_table_index = 1 - Active
  BY ActiveValid DEF IInv, LoaderAgreesWithBoot, pt_table_set_iap_para, SomeTableValid, Active, Act
<1>2. table[Active] \in Sector /\ Len(table[Active].entries) \in 1 .. PT_ENTRY_MAX
  BY <1>1, StuffAssumption DEF IInv, TypeOK, TablesSound, pt_table_valid, Sector
<1>3. c \in Stuff /\ Len(c.entries) \in 1 .. PT_ENTRY_MAX /\ c.age = table[Active].age
  BY <1>2, ContentsType
<1>4. IapSwitched(c) \in Stuff /\ Len(IapSwitched(c).entries) \in 1 .. PT_ENTRY_MAX
  BY <1>3, IapSwitchedShape
<1>5. op' = Rewrite(1 - Active, IapSwitched(c), "iap")
  BY <1>1 DEF pt_table_set_iap_para, TableIds
<1>6. IapSwitched(c).age = Incremented(table[Active].age)
  BY <1>3 DEF IapSwitched
<1>7. Prepares(IapSwitched(c), c)
  BY DEF Prepares
<1> QED
  BY <1>4, <1>5, <1>6, <1>7, BeginRewrite DEF pt_table_set_iap_para

(* Preparing a new table keeps the invariant.                              *)
LEMMA UpdateEntryInv ==
  ASSUME NEW e \in CallerEntries, IInv, pt_table_update_entry(e)
  PROVE  IInv'
<1> DEFINE c == Contents(table[Active])
<1>1. Active \in TableIds /\ pt_table_valid(table[Active]) /\ CanUpdate(c, e)
  BY ActiveValid DEF IInv, pt_table_update_entry, SomeTableValid, Active, Act
<1>2. table[Active] \in Sector /\ Len(table[Active].entries) \in 1 .. PT_ENTRY_MAX
  BY <1>1, StuffAssumption DEF IInv, TypeOK, TablesSound, pt_table_valid, Sector
<1>3. c \in Stuff /\ Len(c.entries) \in 1 .. PT_ENTRY_MAX /\ c.age = table[Active].age
  BY <1>2, ContentsType
<1>4. EntryUpdated(c, e) \in Stuff /\ Len(EntryUpdated(c, e).entries) \in 1 .. PT_ENTRY_MAX
  <2>1. e \in Entry
    BY TableAssumption
  <2> QED BY <2>1, <1>1, <1>3, EntryUpdatedShape
<1>5. op' = Rewrite(1 - Active, EntryUpdated(c, e), "boot")
  BY DEF pt_table_update_entry
<1>6. EntryUpdated(c, e).age = Incremented(table[Active].age)
  BY <1>3 DEF EntryUpdated
<1>7. Prepares(EntryUpdated(c, e), c)
  BY <1>1 DEF Prepares
<1> QED
  BY <1>4, <1>5, <1>6, <1>7, BeginRewrite DEF pt_table_update_entry

(* Erasing the inactive table keeps the invariant.                         *)
LEMMA EraseTableInv == IInv /\ EraseTable => IInv'
<1> SUFFICES ASSUME IInv, EraseTable PROVE IInv'
  OBVIOUS
<1>1. Blank \in Interrupted(table[op.target])
  BY DEF Interrupted
<1>2. /\ op.step = "erase" /\ table' = [table EXCEPT ![op.target] = Blank]
      /\ op' = [op EXCEPT !.step = "write"] /\ UNCHANGED << iap, inLoader, wear >>
  BY DEF EraseTable
<1>3. /\ table' \in [TableIds -> Sector]
      /\ SomeTableValid'
      /\ \A t \in TableIds : pt_table_valid(table'[t]) =>
           Len(table'[t].entries) >= 1 /\ table'[t].age <= MaxAge + wear
      /\ Active' = Active /\ table'[Active] = table[Active]
  BY <1>1, <1>2, EraseInterrupted
<1>4. /\ op'.step = "write" /\ op'.target = op.target /\ op'.stuff = op.stuff
      /\ op' \in [step: {"idle", "erase", "write"}, target: TableIds,
                  by: {"none", "iap", "boot"}, stuff: Stuff]
  BY <1>2 DEF IInv, TypeOK
<1>5. TypeOK' /\ TablesSound'
  BY <1>2, <1>3, <1>4 DEF IInv, TypeOK, TablesSound
<1>6. Active = 1 - op.target /\ OpSound
  BY <1>2 DEF IInv, OpSound
<1>7. OpSound' /\ LoaderAgreesWithBoot'
  BY <1>2, <1>3, <1>4, <1>6 DEF OpSound, LoaderAgreesWithBoot
<1> QED
  BY <1>3, <1>5, <1>7 DEF IInv
-------------------------------------------------------------------------------
(* A power loss at any point keeps the invariant.                          *)
LEMMA PowerLossInv == IInv /\ PowerLoss => IInv'
<1> SUFFICES ASSUME IInv, PowerLoss PROVE IInv'
  OBVIOUS
<1>1. op.step \in {"idle", "erase", "write"}
  BY DEF IInv, TypeOK
<1>2. op' = NoOp /\ iap' = ZeroIap /\ inLoader' = FALSE /\ wear' = wear
  BY DEF PowerLoss
<1>3. /\ table' \in [TableIds -> Sector]
      /\ SomeTableValid'
      /\ \A t \in TableIds : pt_table_valid(table'[t]) =>
           Len(table'[t].entries) >= 1 /\ table'[t].age <= MaxAge + wear
  <2>1. CASE op.step = "idle"
    BY <2>1 DEF PowerLoss, IInv, TypeOK, SomeTableValid, TablesSound
  <2>2. CASE op.step = "erase"
    BY <2>2, EraseInterrupted DEF PowerLoss
  <2>3. CASE op.step = "write"
    BY <2>3, WriteInterrupted DEF PowerLoss
  <2> QED BY <1>1, <2>1, <2>2, <2>3
<1>4. NoOp \in [step: {"idle", "erase", "write"}, target: TableIds,
               by: {"none", "iap", "boot"}, stuff: Stuff]
  <2>1. 0 \in Ages /\ << >> \in Seq(Entry)
    BY StuffAssumption DEF Ages
  <2> QED BY <2>1 DEF NoOp, TableIds, Stuff
<1>5. TypeOK'
  BY <1>2, <1>3, <1>4 DEF IInv, TypeOK, ZeroIap, TableIds
<1>6. TablesSound' /\ OpSound' /\ LoaderAgreesWithBoot'
  BY <1>2, <1>3 DEF TablesSound, OpSound, LoaderAgreesWithBoot, NoOp
<1> QED
  BY <1>3, <1>5, <1>6 DEF IInv

(* Every step keeps the invariant.                                         *)
LEMMA NextInv == IInv /\ [Next]_ptVars => IInv'
<1> SUFFICES ASSUME IInv, [Next]_ptVars PROVE IInv'
  OBVIOUS
<1>1. CASE LoaderEnter
  BY <1>1, LoaderEnterInv
<1>2. CASE LoaderReturn
  BY <1>2 DEF LoaderReturn, IInv, TypeOK, SomeTableValid, TablesSound, OpSound,
              LoaderAgreesWithBoot, Active
<1>3. CASE pt_table_set_iap_para
  BY <1>3, SetIapInv
<1>4. CASE \E e \in CallerEntries : pt_table_update_entry(e)
  BY <1>4, UpdateEntryInv
<1>5. CASE EraseTable
  BY <1>5, EraseTableInv
<1>6. CASE EraseTableError
  BY <1>6, EraseInterrupted, OpDoneInv DEF EraseTableError
<1>7. CASE WriteTable
  <2>1. Programmed(op.stuff) \in Interrupted(Programmed(op.stuff))
    BY DEF Interrupted
  <2> QED BY <1>7, <2>1, WriteInterrupted, OpDoneInv DEF WriteTable
<1>8. CASE WriteTableError
  BY <1>8, WriteInterrupted, OpDoneInv DEF WriteTableError
<1>9. CASE PowerLoss
  BY <1>9, PowerLossInv
<1>10. CASE UNCHANGED ptVars
  BY <1>10 DEF ptVars, IInv, TypeOK, SomeTableValid, TablesSound, OpSound,
               LoaderAgreesWithBoot, Active
<1> QED
  BY <1>1, <1>2, <1>3, <1>4, <1>5, <1>6, <1>7, <1>8, <1>9, <1>10 DEF Next

(* The inductive invariant holds throughout every behaviour of the table   *)
(* pair: pt_table_set_iap_para and pt_table_update_entry always work on    *)
(* the table that is not active.                                           *)
THEOREM Invariance == Spec => []IInv
BY InitInv, NextInv, PTL DEF Spec

(* Type correctness of the table pair, the rewrite and p_iap_param.        *)
THEOREM TypeCorrect == Spec => []TypeOK
<1>1. IInv => TypeOK
  BY DEF IInv
<1> QED BY <1>1, Invariance, PTL

(* Power loss and flash errors during pt_table_set_iap_para or             *)
(* pt_table_update_entry never leave the device without a valid table.     *)
THEOREM NeverWithoutTable == Spec => []SomeTableValid
<1>1. IInv => SomeTableValid
  BY DEF IInv
<1> QED BY <1>1, Invariance, PTL

(* pt_table_get_iap_para and the boot sequence agree on the active table   *)
(* throughout a loader session.                                            *)
THEOREM LoaderAgreement == Spec => []LoaderAgreesWithBoot
<1>1. IInv => LoaderAgreesWithBoot
  BY DEF IInv
<1> QED BY <1>1, Invariance, PTL
-------------------------------------------------------------------------------
(* Refinement: the table pair is an atomic register. *)

(* The current contents are those of the active table.                     *)
LEMMA CurrentIsActive ==
  ASSUME IInv
  PROVE  /\ Active \in TableIds
         /\ CurrentContents = Contents(table[Active])
         /\ CurrentContents \in Stuff
<1>1. Active \in TableIds
  BY ActiveValid DEF IInv, SomeTableValid, Active, Act
<1>2. CurrentContents = Contents(table[Active])
  BY <1>1 DEF CurrentContents, TableIds, PT_TABLE_ID_INVALID
<1> QED
  BY <1>1, <1>2, ContentsType DEF IInv, TypeOK

(* The operators of the abstract specification are those of this one.      *)
LEMMA SameOperators ==
  ASSUME NEW c, NEW e
  PROVE  /\ Register!IapSwitched(c) = IapSwitched(c)
         /\ Register!CanUpdate(c, e) <=> CanUpdate(c, e)
         /\ Register!EntryUpdated(c, e) = EntryUpdated(c, e)
<1>1. Register!IapSwitched(c) = IapSwitched(c)
  BY DEF Register!IapSwitched, IapSwitched, Register!Incremented, Incremented,
         Register!Switched, Switched, Register!OtherIndex, OtherIndex
<1>2. Register!HasEntry(c, e.type) <=> HasEntry(c, e.type)
  BY Zenon DEF Register!HasEntry, HasEntry
<1>3. Register!FirstEntry(c, e.type) = FirstEntry(c, e.type)
  BY Zenon DEF Register!FirstEntry, FirstEntry
<1>4. Register!CanUpdate(c, e) <=> CanUpdate(c, e)
  BY <1>2, Zenon DEF Register!CanUpdate, CanUpdate
<1>5. Register!EntryUpdated(c, e) = EntryUpdated(c, e)
  BY <1>2, <1>3 DEF Register!EntryUpdated, EntryUpdated,
                    Register!Incremented, Incremented
<1> QED
  BY <1>1, <1>4, <1>5

(* Every step is a step of the register or leaves it alone.                *)
LEMMA RegisterStep == IInv /\ IInv' /\ [Next]_ptVars => [Register!Next]_CurrentContents
<1> SUFFICES ASSUME IInv, IInv', [Next]_ptVars
             PROVE  Register!Next \/ CurrentContents' = CurrentContents
  BY DEF Register!Next
<1> DEFINE Same == Active' = Active /\ table'[Active] = table[Active]
<1>1. Same => CurrentContents' = CurrentContents
  BY CurrentIsActive DEF IInv, CurrentContents, Active
<1>2. UNCHANGED table => CurrentContents' = CurrentContents
  BY DEF CurrentContents, Active
<1>3. ASSUME op.step = "write",
             Active' = op.target, table'[op.target] = Programmed(op.stuff)
      PROVE  Register!Next
  <2>1. Active = 1 - op.target /\ op.stuff \in Stuff
    BY <1>3 DEF IInv, OpSound, TypeOK
  <2>2. CurrentContents = Contents(table[Active])
    BY CurrentIsActive
  <2>3. CurrentContents' = op.stuff
    <3>1. Active' \in TableIds
      BY <1>3 DEF IInv, TypeOK
    <3>2. CurrentContents' = Contents(table'[Active'])
      BY <3>1 DEF CurrentContents, TableIds, PT_TABLE_ID_INVALID
    <3> QED BY <3>2, <1>3, <2>1, ProgrammedSector
  <2>4. Prepares(op.stuff, CurrentContents)
    BY <1>3, <2>1, <2>2 DEF IInv, OpSound
  <2> QED
    BY <2>3, <2>4, SameOperators, Zenon
    DEF Prepares, Register!Next, Register!SwitchFirmware, Register!UpdateEntry
<1>4. CASE \/ LoaderEnter \/ LoaderReturn \/ pt_table_set_iap_para
           \/ \E e \in CallerEntries : pt_table_update_entry(e)
           \/ UNCHANGED ptVars
  BY <1>2, <1>4 DEF LoaderEnter, LoaderReturn, pt_table_set_iap_para,
                    pt_table_update_entry, ptVars
<1>5. CASE EraseTable
  <2>1. Blank \in Interrupted(table[op.target])
    BY DEF Interrupted
  <2> QED BY <1>1, <1>5, <2>1, EraseInterrupted DEF EraseTable
<1>6. CASE EraseTableError
  BY <1>1, <1>6, EraseInterrupted DEF EraseTableError
<1>7. CASE WriteTable
  <2>1. Programmed(op.stuff) \in Interrupted(Programmed(op.stuff))
    BY DEF Interrupted
  <2> QED BY <1>1, <1>3, <1>7, <2>1, WriteInterrupted DEF WriteTable
<1>8. CASE WriteTableError
  BY <1>1, <1>3, <1>8, WriteInterrupted DEF WriteTableError
<1>9. CASE PowerLoss
  <2>1. CASE op.step = "idle"
    BY <1>2, <1>9, <2>1 DEF PowerLoss
  <2>2. CASE op.step = "erase"
    BY <1>1, <1>9, <2>2, EraseInterrupted DEF PowerLoss
  <2>3. CASE op.step = "write"
    BY <1>1, <1>3, <1>9, <2>3, WriteInterrupted DEF PowerLoss
  <2>4. op.step \in {"idle", "erase", "write"}
    BY DEF IInv, TypeOK
  <2> QED BY <2>1, <2>2, <2>3, <2>4
<1> QED
  BY <1>4, <1>5, <1>6, <1>7, <1>8, <1>9 DEF Next

(* Readers of the two flash sectors see one register that changes          *)
(* atomically, whatever is interrupted: pt_table_set_iap_para either       *)
(* switches the firmware or leaves the previous table in force.            *)
THEOREM Refinement == Spec => ImplementsRegister
<1>1. Init => Register!Init
  <2> SUFFICES ASSUME Init PROVE CurrentContents \in Register!Stuff
    BY DEF Register!Init
  <2>1. CurrentContents \in Stuff
    BY InitInv, CurrentIsActive
  <2> QED
    BY <2>1 DEF Stuff, Entry, Ages, ActiveIndexes,
                Register!Stuff, Register!Entry, Register!Ages, Register!ActiveIndexes
<1>2. IInv /\ IInv' /\ [Next]_ptVars => [Register!Next]_CurrentContents
  BY RegisterStep
<1> QED
  BY <1>1, <1>2, Invariance, PTL DEF Spec, ImplementsRegister, Register!Spec
===============================================================================
