------------------------- MODULE TrainControllerProofs -------------------------
(***************************************************************************)
(* Proofs about TrainController for any number of connection objects,      *)
(* devices, finds, held threads and failing scans: the types, that the     *)
(* search comes to a halt only when a scan fails to start, and that the    *)
(* references of the connection objects are accounted for.                 *)
(***************************************************************************)
EXTENDS TrainController, WellFoundedInduction, TLAPS

Closing == {"confirmed: bt_conn_disconnect", "restart: bt_conn_disconnect"}
AfterSearch == {"ble_app_process", "bt_le_adv_update_data"}
Steps == {Blocks[i] : i \in 1 .. Len(Blocks)}

(* Where the task can be.  Once the device is found it does not come back  *)
(* to the search, and it waits without a timeout only while the scan is    *)
(* on, its end is about to be reported, or its start has failed.           *)
Control ==
  /\ pc \in AfterSearch => is_found_dev
  /\ is_found_dev /\ undefined = {} =>
       pc \in AfterSearch \union Closing \union {"restart", "scan", "bt_le_scan_start"}
  /\ pc \in Closing => closing # NULL
  /\ pc = "confirmed: bt_conn_disconnect" => is_found_dev
  /\ pc = "bt_le_scan_start" => explicit
  /\ pc = "wait" /\ timeout = "portMAX_DELAY" =>
       explicit \/ finding # NoPeer \/ status # {} \/ scan_err

(* The conditions of the accounting; once one is gone it does not return.  *)
Regular == holds = 0 /\ scan_errs = 0 /\ ~ OverReleased /\ undefined = {}

(* No end of a connection is being handled.                                *)
Clean == rx = NULL /\ \A s \in Slots : ~ conns[s].cleanup /\ conns[s].work = "none"

(* A device is reported to the task when nothing else is under way; if the *)
(* task does not act on it at once, the scan is on again when it does, and *)
(* bt_conn_create_le refuses.                                              *)
Serial ==
  /\ finding # NoPeer => rx = NULL
  /\ Regular =>
       /\ pc = "wait" /\ "FOUND_ADDRESS" \in status => explicit \/ (Clean /\ finding = NoPeer)
       /\ pc = "FOUND_ADDRESS" => explicit \/ (Clean /\ finding = NoPeer)
       /\ pc \in Steps /\ ~ is_found_dev => "FOUND_ADDRESS" \notin status
       /\ pc = "bt_conn_create_le" =>
            "FOUND_ADDRESS" \notin status /\ finding = NoPeer /\ ~ explicit

(* The object of a slot: its count, and which of its fields go together.   *)
ByState(s) == conns[s].state # "DISCONNECTED" \/ conns[s].cleanup \/ conns[s].work # "none"
Counted(s) ==
  conns[s].ref = owned[s] + (IF ByState(s) THEN 1 ELSE 0) + (IF rx = s THEN 1 ELSE 0)
Settled(s) ==
  /\ conns[s].state # "DISCONNECTED" => ~ conns[s].cleanup /\ conns[s].work = "none"
  /\ conns[s].work # "none" => ~ conns[s].cleanup
  /\ conns[s].link # "none" => conns[s].state \in {"CONNECTED", "DISCONNECT"}
  /\ conns[s].link = "up" => conns[s].state = "CONNECTED"
  /\ rx = s => conns[s].state = "DISCONNECTED"

Accounted ==
  /\ holds = 0 => held = {}
  /\ Regular => \A s \in Slots : Counted(s) /\ Settled(s)

IInv == TypeOK /\ Control /\ Serial /\ Accounted
-------------------------------------------------------------------------------
(* Facts about the operators of the model.                                 *)

(* The list of blocks, written out.                                        *)
LEMMA BlockList ==
  /\ Len(Blocks) = 7
  /\ Blocks[1] = "FOUND_ADDRESS" /\ Blocks[2] = "CONNECTED" /\ Blocks[3] = "DISCOVERED_CHAR"
  /\ Blocks[4] = "DISCOVERED_DES" /\ Blocks[5] = "SUBSCRIBED"
  /\ Blocks[6] = "DEVICE_CONFIRMED" /\ Blocks[7] = "restart"
  /\ Steps = {"FOUND_ADDRESS", "CONNECTED", "DISCOVERED_CHAR", "DISCOVERED_DES",
              "SUBSCRIBED", "DEVICE_CONFIRMED", "restart"}
<1>1. /\ Len(Blocks) = 7
      /\ Blocks[1] = "FOUND_ADDRESS" /\ Blocks[2] = "CONNECTED" /\ Blocks[3] = "DISCOVERED_CHAR"
      /\ Blocks[4] = "DISCOVERED_DES" /\ Blocks[5] = "SUBSCRIBED"
      /\ Blocks[6] = "DEVICE_CONFIRMED" /\ Blocks[7] = "restart"
  BY DEF Blocks
<1>2. 1 .. 7 = {1, 2, 3, 4, 5, 6, 7}
  OBVIOUS
<1> QED BY <1>1, <1>2 DEF Steps

(* A set of numbers up to 7 that holds 7 has a least element.              *)
LEMMA LeastBlock ==
  ASSUME NEW S, S \subseteq 1 .. 7, 7 \in S
  PROVE  \E i \in S : \A j \in S : i <= j
<1>1. CASE 1 \in S
  BY <1>1
<1>2. CASE 1 \notin S /\ 2 \in S
  BY <1>2
<1>3. CASE 1 \notin S /\ 2 \notin S /\ 3 \in S
  BY <1>3
<1>4. CASE 1 \notin S /\ 2 \notin S /\ 3 \notin S /\ 4 \in S
  BY <1>4
<1>5. CASE 1 \notin S /\ 2 \notin S /\ 3 \notin S /\ 4 \notin S /\ 5 \in S
  BY <1>5
<1>6. CASE 1 \notin S /\ 2 \notin S /\ 3 \notin S /\ 4 \notin S /\ 5 \notin S /\ 6 \in S
  BY <1>6
<1>7. CASE 1 \notin S /\ 2 \notin S /\ 3 \notin S /\ 4 \notin S /\ 5 \notin S /\ 6 \notin S
  BY <1>7
<1> QED BY <1>1, <1>2, <1>3, <1>4, <1>5, <1>6, <1>7

(* The next block is one whose bit is set, or the last; the first block is *)
(* only reached from the wait.                                             *)
LEMMA NextBlockFacts ==
  ASSUME NEW block \in (Steps \ {"restart"}) \union {"wait"}, NEW bits
  PROVE  /\ NextBlock(block, bits) \in Steps
         /\ NextBlock(block, bits) \in bits \union {"restart"}
         /\ block # "wait" => NextBlock(block, bits) # "FOUND_ADDRESS"
<1> DEFINE Here(i) == IF i = 0 THEN block = "wait" ELSE Blocks[i] = block
           at == CHOOSE i \in 0 .. Len(Blocks) : Here(i)
           rest == {i \in at + 1 .. Len(Blocks) : Blocks[i] \in bits \union {"restart"}}
           first == CHOOSE i \in rest : \A j \in rest : i <= j
<1>1. \E i \in 0 .. Len(Blocks) : Here(i)
  <2>1. block = "wait" \/ block \in {Blocks[1], Blocks[2], Blocks[3], Blocks[4], Blocks[5], Blocks[6]}
    BY BlockList
  <2>2. ASSUME block = "wait" PROVE Here(0)
    BY <2>2
  <2>3. ASSUME NEW i \in 1 .. 6, block = Blocks[i] PROVE Here(i)
    BY <2>3
  <2> HIDE DEF Here
  <2>4. Len(Blocks) = 7
    BY BlockList
  <2> QED BY <2>1, <2>2, <2>3, <2>4
<1>2. at \in 0 .. 7 /\ Here(at)
  <2> HIDE DEF Here
  <2> QED BY <1>1, BlockList
<1>3. at \in 0 .. 6 /\ (at = 0 => block = "wait")
  BY <1>2, BlockList
<1>4. rest \subseteq 1 .. 7 /\ 7 \in rest /\ \A i \in rest : i > at /\ Blocks[i] \in bits \union {"restart"}
  <2> HIDE DEF at
  <2> QED BY <1>3, BlockList
<1>5. first \in rest
  <2>1. \E i \in rest : \A j \in rest : i <= j
    <3> HIDE DEF rest
    <3> QED BY <1>4, LeastBlock
  <2> HIDE DEF rest
  <2> QED BY <2>1
<1>6. NextBlock(block, bits) = Blocks[first]
  BY DEF NextBlock
<1> HIDE DEF first, rest, at
<1>7. first \in 1 .. 7 /\ first > at /\ Blocks[first] \in bits \union {"restart"}
  BY <1>4, <1>5
<1>8. Blocks[first] \in Steps
  BY <1>7, BlockList DEF Steps
<1>9. ASSUME block # "wait" PROVE Blocks[first] # "FOUND_ADDRESS"
  <2>1. at \in 1 .. 6
    BY <1>3, <1>9
  <2>2. first \in 2 .. 7
    BY <1>7, <2>1
  <2> QED BY <2>2, BlockList
<1> QED BY <1>6, <1>7, <1>8, <1>9

(* The first free object is one, if there is any.                          *)
LEMMA FirstFreeIsFree ==
  ASSUME FreeSlots # {}
  PROVE  FirstFree \in FreeSlots
<1> DEFINE Less == {ss \in Nat \X Nat : ss[1] < ss[2]}
<1>1. FreeSlots \subseteq Nat
  BY ConnAssumption DEF FreeSlots, Slots
<1>2. IsWellFoundedOn(Less, Nat)
  BY NatLessThanWellFounded, Zenon DEF OpToRel
<1>3. PICK s \in FreeSlots : \A t \in FreeSlots : ~ (<< t, s >> \in Less)
  <2> HIDE DEF Less
  <2> QED BY <1>1, <1>2, WFMin
<1>4. \A t \in FreeSlots : s <= t
  <2>1. ASSUME NEW x \in Nat, NEW y \in Nat, x < y PROVE << x, y >> \in Less
    <3>1. << x, y >> \in Nat \X Nat /\ << x, y >>[1] < << x, y >>[2]
      BY <2>1
    <3> QED BY <3>1
  <2> HIDE DEF Less
  <2> TAKE t \in FreeSlots
  <2>2. s \in Nat /\ t \in Nat
    BY <1>1
  <2>3. ~ (t < s)
    BY <1>3, <2>1, <2>2, Zenon
  <2> QED BY <2>2, <2>3
<1> QED BY <1>4, Zenon DEF FirstFree

(* What a change of state does to the object, and to no other.             *)
LEMMA SetState ==
  ASSUME NEW cs \in [Slots -> Conn], NEW s \in Slots, NEW st \in States
  PROVE  LET new == bt_conn_set_state(cs, s, st)
         IN  /\ new \in [Slots -> Conn]
             /\ \A t \in Slots : t # s => new[t] = cs[t]
             /\ new[s].state = st /\ new[s].work = cs[s].work /\ new[s].link = cs[s].link
             /\ new[s].ref = cs[s].ref
                  + (IF cs[s].state = "DISCONNECTED" /\ st # "DISCONNECTED" THEN 1 ELSE 0)
                  - (IF st = "DISCONNECTED" /\ cs[s].state \in {"CONNECT_SCAN", "CONNECT"}
                       THEN 1 ELSE 0)
             /\ new[s].cleanup <=>
                  cs[s].cleanup \/ (st = "DISCONNECTED" /\ cs[s].state \in {"CONNECTED", "DISCONNECT"})
<1> DEFINE c == cs[s]
           taken == IF c.state = "DISCONNECTED" THEN 1 ELSE 0
           given == IF st = "DISCONNECTED" /\ c.state \in {"CONNECT_SCAN", "CONNECT"} THEN 1 ELSE 0
           wasUp == st = "DISCONNECTED" /\ c.state \in {"CONNECTED", "DISCONNECT"}
           new == bt_conn_set_state(cs, s, st)
<1>1. c \in Conn
  OBVIOUS
<1>2. CASE c.state = st
  <2>1. new = cs
    BY <1>2 DEF bt_conn_set_state
  <2> QED BY <1>1, <1>2, <2>1 DEF Conn
<1>3. CASE c.state # st
  <2>1. new = [cs EXCEPT ![s] = [c EXCEPT !.state = st, !.ref = @ + taken - given,
                                           !.cleanup = @ \/ wasUp]]
    BY <1>3 DEF bt_conn_set_state
  <2>2. taken \in {0, 1} /\ given \in {0, 1} /\ wasUp \in BOOLEAN
    OBVIOUS
  <2>3. taken = (IF c.state = "DISCONNECTED" /\ st # "DISCONNECTED" THEN 1 ELSE 0)
    BY <1>3
  <2> HIDE DEF taken, given, wasUp, new
  <2>4. [c EXCEPT !.state = st, !.ref = @ + taken - given, !.cleanup = @ \/ wasUp] \in Conn
    <3>1. ASSUME NEW r \in Int, NEW b \in BOOLEAN
          PROVE  [c EXCEPT !.state = st, !.ref = r, !.cleanup = b] \in Conn
      BY <1>1 DEF Conn
    <3>2. c.ref + taken - given \in Int /\ (c.cleanup \/ wasUp) \in BOOLEAN
      BY <1>1, <2>2 DEF Conn
    <3> QED BY <3>1, <3>2
  <2>5. /\ new \in [Slots -> Conn]
        /\ \A t \in Slots : t # s => new[t] = cs[t]
        /\ new[s].state = st /\ new[s].work = cs[s].work /\ new[s].link = cs[s].link
        /\ new[s].ref = c.ref + taken - given
        /\ new[s].cleanup <=> c.cleanup \/ wasUp
    BY <1>1, <2>1, <2>4 DEF Conn
  <2> QED BY <2>3, <2>5 DEF given, wasUp, new
<1> QED BY <1>2, <1>3
(* A reference more changes the count of one object ...                    *)
LEMMA Ref ==
  ASSUME NEW cs \in [Slots -> Conn], NEW s \in Slots
  PROVE  LET new == bt_conn_ref(cs, s)
         IN  /\ new \in [Slots -> Conn]
             /\ \A t \in Slots : t # s => new[t] = cs[t]
             /\ new[s].ref = cs[s].ref + 1 /\ new[s].state = cs[s].state
             /\ new[s].work = cs[s].work /\ new[s].link = cs[s].link
             /\ new[s].cleanup <=> cs[s].cleanup
<1>1. cs[s] \in Conn /\ cs[s].ref \in Int
  BY DEF Conn
<1>2. [cs[s] EXCEPT !.ref = cs[s].ref + 1] \in Conn
  BY <1>1 DEF Conn
<1> QED BY <1>1, <1>2 DEF bt_conn_ref, Conn

(* ... and so does one less.                                               *)
LEMMA Unref ==
  ASSUME NEW cs \in [Slots -> Conn], NEW s \in Slots
  PROVE  LET new == bt_conn_unref(cs, s)
         IN  /\ new \in [Slots -> Conn]
             /\ \A t \in Slots : t # s => new[t] = cs[t]
             /\ new[s].ref = cs[s].ref - 1 /\ new[s].state = cs[s].state
             /\ new[s].work = cs[s].work /\ new[s].link = cs[s].link
             /\ new[s].cleanup <=> cs[s].cleanup
<1>1. cs[s] \in Conn /\ cs[s].ref \in Int
  BY DEF Conn
<1>2. [cs[s] EXCEPT !.ref = cs[s].ref - 1] \in Conn
  BY <1>1 DEF Conn
<1> QED BY <1>1, <1>2 DEF bt_conn_unref, Conn

(* A new object: one reference, and no work but the report that is already *)
(* being made.                                                             *)
LEMMA AddLe ==
  ASSUME conns \in [Slots -> Conn], NEW s \in Slots, NEW p \in Peers \union {NoPeer}
  PROVE  LET new == bt_conn_add_le(s, p)
         IN  /\ new \in [Slots -> Conn]
             /\ \A t \in Slots : t # s => new[t] = conns[t]
             /\ new[s].ref = 1 /\ new[s].state = "DISCONNECTED" /\ ~ new[s].cleanup
             /\ new[s].work \in {"none", conns[s].work} /\ new[s].link = "none"
<1>1. conns[s] \in Conn /\ conns[s].work \in {"none", "submitted", "reporting"}
  BY DEF Conn
<1>2. NewConn \in Conn /\ NewConn.state = "DISCONNECTED" /\ NewConn.cleanup = FALSE
      /\ NewConn.link = "none"
  BY DEF Conn, States, NewConn
<1> DEFINE left == IF conns[s].work = "reporting" THEN "reporting" ELSE "none"
           r == [NewConn EXCEPT !.ref = 1, !.peer = p, !.work = left]
<1>3. /\ r \in Conn /\ r.ref = 1 /\ r.state = "DISCONNECTED" /\ ~ r.cleanup
      /\ r.work = left /\ r.link = "none"
  <2>1. ASSUME NEW c \in Conn, NEW w \in {"none", "submitted", "reporting"}
        PROVE  [c EXCEPT !.ref = 1, !.peer = p, !.work = w] \in Conn
    <3>1. [c EXCEPT !.ref = 1] \in Conn
      BY DEF Conn
    <3>2. ASSUME NEW d \in Conn PROVE [d EXCEPT !.peer = p] \in Conn
      BY DEF Conn
    <3>3. ASSUME NEW d \in Conn PROVE [d EXCEPT !.work = w] \in Conn
      BY DEF Conn
    <3>4. [c EXCEPT !.ref = 1, !.peer = p, !.work = w]
            = [[[c EXCEPT !.ref = 1] EXCEPT !.peer = p] EXCEPT !.work = w]
      OBVIOUS
    <3> QED BY <3>1, <3>2, <3>3, <3>4
  <2>2. r \in Conn
    BY <1>1, <1>2, <2>1
  <2>3. r.ref = 1 /\ r.state = "DISCONNECTED" /\ r.work = left /\ r.link = "none"
    BY <1>1, <1>2 DEF Conn
  <2>4. ~ r.cleanup
    BY <1>1, <1>2 DEF Conn
  <2> QED BY <2>2, <2>3, <2>4
<1>4. bt_conn_add_le(s, p) = [conns EXCEPT ![s] = r]
  BY DEF bt_conn_add_le
<1> HIDE DEF r
<1> QED BY <1>3, <1>4

-------------------------------------------------------------------------------
(* The type invariant in groups.                                           *)
TaskTypes ==
  /\ pc \in Steps \union Calls \union {"wait", "scan", "ble_app_process"}
  /\ status \subseteq Bits /\ find_status \subseteq Bits
  /\ timeout \in {"portMAX_DELAY", "20 s"} /\ adv_buf \in {0, 1, 3}
FlagTypes ==
  /\ is_found_dev \in BOOLEAN /\ explicit \in BOOLEAN /\ scan_err \in BOOLEAN
  /\ wr_hdl \in BOOLEAN /\ ccc_hdl \in BOOLEAN
SlotTypes ==
  /\ ble_bl_conn \in Slots \union {NULL} /\ closing \in Slots \union {NULL}
  /\ subscription \in Slots \union {NULL}
  /\ requests \subseteq [slot: Slots, kind: Kinds]
ScanTypes ==
  /\ dev_addr \in Peers \union {NoPeer} /\ finding \in Peers \union {NoPeer}
  /\ finds \in 0 .. MaxFinds /\ scan_errs \in 0 .. MaxScanErrs
  /\ undefined \subseteq {"bt_gatt_write", "bt_conn_disconnect", "bt_conn_unref"}

(* TypeOK is the conjunction of the groups, in this state and the next.    *)
LEMMA Groups ==
  /\ TypeOK <=> ConnTypeOK /\ TaskTypes /\ FlagTypes /\ SlotTypes /\ ScanTypes
  /\ TypeOK' <=> ConnTypeOK' /\ TaskTypes' /\ FlagTypes' /\ SlotTypes' /\ ScanTypes'
  BY DEF TypeOK, TaskTypes, FlagTypes, SlotTypes, ScanTypes, Steps

(* The positions of the task, told apart.                                  *)
LEMMA Positions ==
  /\ Calls \intersect Steps = {} /\ "wait" \notin Steps \union Calls
  /\ "scan" \notin Steps \union Calls /\ "ble_app_process" \notin Steps \union Calls
  BY BlockList DEF Calls

(* Every step keeps the task's own variables in their types.               *)
LEMMA TaskTyped ==
  ASSUME TaskTypes, FlagTypes, [Next]_vars
  PROVE  TaskTypes'
<1>1. CASE Notified
  <2>1. pc' \in Steps
    BY <1>1, NextBlockFacts DEF Notified
  <2> QED BY <1>1, <2>1 DEF Notified, TaskTypes
<1>2. CASE FoundAddress
  <2>1. \A bits : NextBlock("FOUND_ADDRESS", bits) \in Steps
    BY NextBlockFacts, BlockList
  <2>2. pc' \in Steps \union Calls
    BY <1>2, <2>1 DEF FoundAddress, bt_conn_create_le, Calls
  <2> QED BY <1>2, <2>2 DEF FoundAddress, TaskTypes
<1>3. CASE BlockConnected \/ BlockDiscoveredChar \/ BlockDiscoveredDes \/ BlockSubscribed
  <2>1. \A block \in {"CONNECTED", "DISCOVERED_CHAR", "DISCOVERED_DES", "SUBSCRIBED"} :
          \A bits : NextBlock(block, bits) \in Steps
    BY NextBlockFacts, BlockList
  <2>2. pc' \in Steps
    BY <1>3, <2>1 DEF BlockConnected, BlockDiscoveredChar, BlockDiscoveredDes, BlockSubscribed
  <2>3. timeout' \in {timeout, "portMAX_DELAY"}
    BY <1>3 DEF BlockConnected, BlockDiscoveredChar, BlockDiscoveredDes, BlockSubscribed, GiveUp
  <2> QED BY <1>3, <2>2, <2>3 DEF BlockConnected, BlockDiscoveredChar, BlockDiscoveredDes,
                                  BlockSubscribed, TaskTypes
<1>4. CASE \/ BlockDeviceConfirmed \/ Restart \/ DisconnectReturns
           \/ ScanStart \/ ScanStarted \/ CallReturns
  <2>1. \A bits : NextBlock("FOUND_ADDRESS", bits) \in Steps
    BY NextBlockFacts, BlockList
  <2>2. EndOfBody \in {"ble_app_process", "wait"}
    BY DEF EndOfBody
  <2>3. "restart" \in Steps
    BY BlockList
  <2>4. pc' \in Steps \union Calls \union {"wait", "scan", "ble_app_process"}
    BY <1>4, <2>1, <2>2, <2>3
       DEF BlockDeviceConfirmed, Restart, CloseConn, DisconnectReturns, ScanStart, ScanStarted,
           CallReturns, Calls, TaskTypes
  <2> QED BY <1>4, <2>4 DEF BlockDeviceConfirmed, Restart, DisconnectReturns, ScanStart,
                            ScanStarted, CallReturns, TaskTypes
<1>5. CASE ble_app_process
  <2>1. adv_buf' \in {0, 1, 3}
    BY <1>5 DEF ble_app_process, NextCommand, TaskTypes
  <2> QED BY <1>5, <2>1 DEF ble_app_process, TaskTypes, Calls
<1>6. CASE TimedOut
  BY <1>6, BlockList DEF TimedOut, TaskTypes
<1>7. CASE UNCHANGED appVars /\ status' \subseteq status \union Bits
  BY <1>7 DEF appVars, taskVars, TaskTypes
<1>8. CASE Receive \/ Cleanup \/ Work \/ Environment \/ ReleaseThread \/ bt_press
  <2>1. UNCHANGED appVars
    BY <1>8 DEF Receive, Cleanup, Work, Environment, ReleaseThread, bt_press, device_found,
       device_found_notify, DisconnComplete, ClearRef, HostStep, check_pending_conn,
       bl_connected, ConnectFails, Answered, RequestsFail, bl_disconnected
  <2>2. status' \subseteq status \union Bits
    <3>1. CASE Receive
      BY <3>1 DEF Receive, device_found, device_found_notify, DisconnComplete, ClearRef, HostStep,
         check_pending_conn, bl_connected, ConnectFails, Answered, Discovered, Bits
    <3>2. CASE Work
      BY <3>2 DEF Work, RequestsFail, bl_disconnected, Discovered, Bits
    <3>3. CASE Cleanup \/ Environment \/ ReleaseThread \/ bt_press
      BY <3>3 DEF Cleanup, Environment, ReleaseThread, HostStep, bt_press, Bits
    <3> QED BY <1>8, <3>1, <3>2, <3>3
  <2> QED BY <1>7, <2>1, <2>2
<1>9. CASE UNCHANGED vars
  BY <1>9 DEF vars, taskVars, TaskTypes
<1> QED BY <1>1, <1>2, <1>3, <1>4, <1>5, <1>6, <1>8, <1>9 DEF Next, Task
(* The flags of the application, the scan and the handles.                 *)
LEMMA FlagsTyped ==
  ASSUME FlagTypes, [Next]_vars
  PROVE  FlagTypes'
<1> USE DEF FlagTypes
<1>1. CASE Notified \/ FoundAddress
  BY <1>1, Zenon DEF Notified, FoundAddress, gattVars, scanVars
<1>2. CASE BlockConnected \/ BlockDiscoveredChar \/ BlockDiscoveredDes \/ BlockSubscribed
  BY <1>2, Zenon DEF BlockConnected, BlockDiscoveredChar, BlockDiscoveredDes, BlockSubscribed, scanVars
<1>3. CASE BlockDeviceConfirmed \/ Restart \/ DisconnectReturns
  BY <1>3, Zenon DEF BlockDeviceConfirmed, Restart, DisconnectReturns, gattVars, scanVars
<1>4. CASE ScanStart \/ ScanStarted \/ CallReturns \/ ble_app_process \/ TimedOut
  BY <1>4, Zenon DEF ScanStart, ScanStarted, CallReturns, ble_app_process, TimedOut, gattVars, scanVars
<1>5. CASE Receive
  <2>1. ASSUME NEW r, Answered(r) PROVE FlagTypes'
    BY <2>1, Zenon DEF Answered, appVars, scanVars
  <2>2. ASSUME NEW q, device_found(q) PROVE FlagTypes'
    BY <2>2, Zenon DEF device_found, appVars, gattVars
  <2>3. CASE device_found_notify \/ DisconnComplete \/ ClearRef
    BY <2>3, Zenon DEF device_found_notify, DisconnComplete, ClearRef, HostStep, appVars,
       gattVars, scanVars
  <2>4. ASSUME NEW s, check_pending_conn(s) \/ bl_connected(s) \/ ConnectFails(s) PROVE FlagTypes'
    BY <2>4, Zenon DEF check_pending_conn, bl_connected, ConnectFails, appVars, gattVars, scanVars
  <2> QED BY <1>5, <2>1, <2>2, <2>3, <2>4, Zenon DEF Receive
<1>6. CASE Cleanup \/ Work \/ Environment \/ ReleaseThread \/ bt_press
  BY <1>6, Zenon DEF Cleanup, Work, RequestsFail, bl_disconnected, Environment, ReleaseThread,
     bt_press, HostStep, appVars, gattVars, scanVars
<1>7. CASE UNCHANGED vars
  BY <1>7, Zenon DEF vars, gattVars, scanVars
<1> QED BY <1>1, <1>2, <1>3, <1>4, <1>5, <1>6, <1>7, Zenon DEF Next, Task

(* Requests are sent for the connection that the application has.          *)
LEMMA SentTyped ==
  ASSUME SlotTypes, NEW kind \in Kinds, CanSend, Send(kind)
  PROVE  requests' \subseteq [slot: Slots, kind: Kinds] /\ ble_bl_conn \in Slots
  BY DEF SlotTypes, CanSend, Send

(* The variables that name a slot.                                         *)
LEMMA SlotsTyped ==
  ASSUME SlotTypes, [Next]_vars
  PROVE  SlotTypes'
<1>1. CASE \/ Notified \/ FoundAddress \/ ScanStart \/ ScanStarted \/ CallReturns
           \/ ble_app_process \/ TimedOut
  BY <1>1 DEF Notified, FoundAddress, ScanStart, ScanStarted, CallReturns, ble_app_process,
     TimedOut, gattVars, SlotTypes
<1>2. CASE BlockConnected \/ BlockDiscoveredChar \/ BlockDiscoveredDes \/ BlockSubscribed
  <2>1. UNCHANGED requests \/ (CanSend /\ \E kind \in Kinds : Send(kind))
    BY <1>2 DEF BlockConnected, BlockDiscoveredChar, BlockDiscoveredDes, BlockSubscribed, GiveUp, Kinds
  <2>2. requests' \subseteq [slot: Slots, kind: Kinds]
    BY <2>1, SentTyped DEF SlotTypes
  <2>3. UNCHANGED << ble_bl_conn, closing >> /\ subscription' \in {subscription, ble_bl_conn}
    BY <1>2 DEF BlockConnected, BlockDiscoveredChar, BlockDiscoveredDes, BlockSubscribed
  <2> QED BY <2>2, <2>3 DEF SlotTypes
<1>3. CASE BlockDeviceConfirmed \/ Restart \/ DisconnectReturns
  <2>1. UNCHANGED << ble_bl_conn, gattVars >> /\ closing' \in {closing, ble_bl_conn, NULL}
    BY <1>3 DEF BlockDeviceConfirmed, Restart, DisconnectReturns
  <2> QED BY <2>1 DEF SlotTypes, gattVars
<1>4. CASE Receive
  <2>1. UNCHANGED << closing, subscription >> /\ requests' \subseteq requests
    BY <1>4 DEF Receive, device_found, device_found_notify, DisconnComplete, ClearRef, HostStep,
       check_pending_conn, bl_connected, ConnectFails, Answered, appVars, gattVars
  <2>2. ble_bl_conn' \in Slots \union {ble_bl_conn}
    BY <1>4 DEF Receive, device_found, device_found_notify, DisconnComplete, ClearRef, HostStep,
       check_pending_conn, bl_connected, ConnectFails, Answered
  <2> QED BY <2>1, <2>2 DEF SlotTypes
<1>5. CASE Cleanup \/ Work \/ Environment \/ ReleaseThread \/ bt_press
  <2>1. UNCHANGED closing /\ requests' \subseteq requests
        /\ subscription' \in {subscription, NULL} /\ ble_bl_conn' \in {ble_bl_conn, NULL}
    BY <1>5 DEF Cleanup, Work, RequestsFail, bl_disconnected, Environment, ReleaseThread,
       bt_press, HostStep, appVars, gattVars
  <2> QED BY <2>1 DEF SlotTypes
<1>6. CASE UNCHANGED vars
  BY <1>6 DEF vars, gattVars, SlotTypes
<1> QED BY <1>1, <1>2, <1>3, <1>4, <1>5, <1>6 DEF Next, Task

(* The scan and the record of undefined calls.                             *)
LEMMA ScanTyped ==
  ASSUME ScanTypes, [Next]_vars
  PROVE  ScanTypes'
<1>1. CASE Task \/ TimedOut
  <2>1. UNCHANGED << dev_addr, finding, finds >>
    BY <1>1 DEF Task, TimedOut, Notified, FoundAddress, BlockConnected, BlockDiscoveredChar,
       BlockDiscoveredDes, BlockSubscribed, BlockDeviceConfirmed, Restart, DisconnectReturns,
       ScanStart, ScanStarted, CallReturns, ble_app_process, scanVars
  <2>2. undefined' \in {undefined, {}, {"bt_gatt_write"}, {"bt_conn_disconnect"}, {"bt_conn_unref"}}
    BY <1>1 DEF Task, TimedOut, Notified, FoundAddress, BlockConnected, BlockDiscoveredChar,
       BlockDiscoveredDes, BlockSubscribed, BlockDeviceConfirmed, Restart, DisconnectReturns,
       ScanStart, ScanStarted, CallReturns, ble_app_process, UsesConn
  <2>3. UNCHANGED scan_errs \/ (scan_errs < MaxScanErrs /\ scan_errs' = scan_errs + 1)
    BY <1>1 DEF Task, TimedOut, Notified, FoundAddress, BlockConnected, BlockDiscoveredChar,
       BlockDiscoveredDes, BlockSubscribed, BlockDeviceConfirmed, Restart, DisconnectReturns,
       ScanStart, ScanStarted, CallReturns, ble_app_process, scanVars
  <2>4. scan_errs' \in 0 .. MaxScanErrs
    BY <2>3, ControllerAssumption DEF ScanTypes
  <2> QED BY <2>1, <2>2, <2>4 DEF ScanTypes
<1>2. ASSUME NEW q \in Peers, device_found(q) PROVE ScanTypes'
  BY <1>2, ControllerAssumption DEF device_found, appVars, ScanTypes
<1>3. CASE device_found_notify
  BY <1>3 DEF device_found_notify, appVars, ScanTypes
<1>4. CASE UNCHANGED << scanVars, undefined >>
  BY <1>4 DEF scanVars, ScanTypes
<1>5. CASE DisconnComplete \/ ClearRef \/ Cleanup \/ Environment \/ ReleaseThread \/ bt_press \/ Work
  <2>1. UNCHANGED << scanVars, undefined >>
    BY <1>5 DEF DisconnComplete, ClearRef, Cleanup, Environment, ReleaseThread, HostStep, bt_press,
       Work, RequestsFail, bl_disconnected, appVars
  <2> QED BY <1>4, <2>1
<1>6. ASSUME NEW s, check_pending_conn(s) \/ bl_connected(s) \/ ConnectFails(s) \/ Answered(s)
      PROVE  ScanTypes'
  <2>1. UNCHANGED << scanVars, undefined >>
    BY <1>6 DEF check_pending_conn, bl_connected, ConnectFails, Answered, appVars
  <2> QED BY <1>4, <2>1
<1>7. CASE UNCHANGED vars
  BY <1>4, <1>7 DEF vars
<1> QED BY <1>1, <1>2, <1>3, <1>5, <1>6, <1>7 DEF Next, Receive
-------------------------------------------------------------------------------
(* The connection objects.                                                 *)

(* An object that was released too often stays so.                         *)
StaysOver == OverReleased => OverReleased'

(* So does a scan that failed to start: failures are only counted up.      *)
ErrsStay == scan_errs' = 0 => scan_errs = 0

(* Only ScanStarted touches the count, and it adds to it.                  *)
LEMMA ErrsKept ==
  ASSUME ScanTypes, [Next]_vars
  PROVE  ErrsStay
<1>1. CASE Task \/ TimedOut
  <2>1. UNCHANGED scan_errs \/ scan_errs' = scan_errs + 1
    BY <1>1 DEF Task, TimedOut, Notified, FoundAddress, BlockConnected, BlockDiscoveredChar,
       BlockDiscoveredDes, BlockSubscribed, BlockDeviceConfirmed, Restart, DisconnectReturns,
       ScanStart, ScanStarted, CallReturns, ble_app_process, scanVars
  <2> QED BY <2>1 DEF ScanTypes, ErrsStay
<1>2. CASE Receive
  BY <1>2 DEF Receive, device_found, device_found_notify, DisconnComplete, ClearRef, HostStep,
     check_pending_conn, bl_connected, ConnectFails, Answered, scanVars, ErrsStay
<1>3. CASE Cleanup \/ Work \/ Environment \/ ReleaseThread \/ bt_press
  BY <1>3 DEF Cleanup, Work, RequestsFail, bl_disconnected, Environment, ReleaseThread, HostStep,
     bt_press, scanVars, ErrsStay
<1>4. CASE UNCHANGED vars
  BY <1>4 DEF vars, scanVars, ErrsStay
<1> QED BY <1>1, <1>2, <1>3, <1>4 DEF Next

(* What each step on the objects is shown to do.                           *)
ConnSound == ConnTypeOK' /\ StaysOver /\ Accounted'

(* The conditions of the accounting only get lost.                         *)
LEMMA RegularBack ==
  ASSUME StaysOver, ErrsStay, holds' = 0 => holds = 0, undefined' = {} => undefined = {}, Regular'
  PROVE  Regular
  BY DEF StaysOver, ErrsStay, Regular

(* In a regular state: the object of a slot.                               *)
LEMMA SlotFacts ==
  ASSUME ConnTypeOK, Accounted, Regular, NEW s \in Slots
  PROVE  /\ conns[s] \in Conn /\ owned[s] \in Nat /\ s # NULL /\ held = {}
         /\ Counted(s) /\ Settled(s)
<1>1. conns[s] \in Conn /\ owned[s] \in Int /\ Counted(s) /\ Settled(s) /\ held = {}
  BY DEF ConnTypeOK, Accounted, Regular
<1>2. ~ (owned[s] < 0)
  BY DEF Regular, OverReleased
<1>3. s # NULL
  BY ConnAssumption DEF Slots, NULL
<1> QED BY <1>1, <1>2, <1>3

(* A step that does not change an object.                                  *)
LEMMA SlotKept ==
  ASSUME NEW s \in Slots, Counted(s), Settled(s),
         conns'[s] = conns[s], owned'[s] = owned[s], (rx' = s) <=> (rx = s)
  PROVE  Counted(s)' /\ Settled(s)'
  BY DEF Counted, Settled, ByState

(* A step that changes the object of one slot only.                        *)
LEMMA OneSlot ==
  ASSUME ConnTypeOK, Accounted, NEW s \in Slots,
         \A t \in Slots : t # s => /\ conns'[t] = conns[t] /\ owned'[t] = owned[t]
                                   /\ (rx' = t) <=> (rx = t),
         owned[s] < 0 => owned'[s] < 0,
         UNCHANGED << held, holds >>, undefined' = {} => undefined = {}, ErrsStay,
         Regular /\ Regular' => Counted(s)' /\ Settled(s)'
  PROVE  StaysOver /\ Accounted'
<1>1. StaysOver
  BY DEF StaysOver, OverReleased
<1>2. ASSUME Regular', NEW t \in Slots PROVE Counted(t)' /\ Settled(t)'
  <2>1. Regular
    BY <1>1, <1>2, RegularBack
  <2>2. CASE t = s
    BY <1>2, <2>1, <2>2
  <2>3. CASE t # s
    BY <2>1, <2>3, SlotFacts, SlotKept
  <2> QED BY <2>2, <2>3
<1>3. holds' = 0 => held' = {}
  BY DEF Accounted
<1> QED BY <1>1, <1>2, <1>3 DEF Accounted

(* bt_conn_create_le: when it is not refused, no end of a connection is    *)
(* being handled.                                                          *)
LEMMA Created ==
  ASSUME ConnTypeOK, ScanTypes, Serial, Accounted, undefined = {}, pc = "FOUND_ADDRESS",
         NEW s \in Slots, bt_conn_create_le(s), UNCHANGED << rx, held, holds, undefined >>, ErrsStay
  PROVE  ConnSound
<1> DEFINE known == bt_conn_lookup_addr_le(dev_addr)
           cs == IF known = {} THEN bt_conn_add_le(s, dev_addr) ELSE bt_conn_ref(conns, s)
<1>1. conns \in [Slots -> Conn] /\ owned \in [Slots -> Int] /\ dev_addr \in Peers \union {NoPeer}
  BY DEF ConnTypeOK, ScanTypes
<1>2. cs \in [Slots -> Conn] /\ \A t \in Slots : t # s => cs[t] = conns[t]
  <2>1. CASE known = {}
    BY <1>1, <2>1, AddLe
  <2>2. CASE known # {}
    <3>1. cs = bt_conn_ref(conns, s)
      BY <2>2
    <3> HIDE DEF cs
    <3> QED BY <1>1, <3>1, Ref
  <2> QED BY <2>1, <2>2
<1>3. Regular => /\ cs[s].ref = owned[s] + 1 + (IF cs[s].state = "DISCONNECTED" THEN 0 ELSE 1)
                 /\ ~ cs[s].cleanup /\ cs[s].work = "none" /\ rx # s
                 /\ cs[s].link # "none" => cs[s].state \in {"CONNECTED", "DISCONNECT"}
                 /\ cs[s].link = "up" => cs[s].state = "CONNECTED"
  <2> SUFFICES ASSUME Regular
               PROVE  /\ cs[s].ref = owned[s] + 1 + (IF cs[s].state = "DISCONNECTED" THEN 0 ELSE 1)
                      /\ ~ cs[s].cleanup /\ cs[s].work = "none" /\ rx # s
                      /\ cs[s].link # "none" => cs[s].state \in {"CONNECTED", "DISCONNECT"}
                      /\ cs[s].link = "up" => cs[s].state = "CONNECTED"
    OBVIOUS
  <2>1. /\ conns[s] \in Conn /\ owned[s] \in Nat /\ s # NULL
        /\ Counted(s) /\ Settled(s)
    BY SlotFacts
  <2>2. ~ explicit /\ Clean
    BY DEF bt_conn_create_le, CreateRefused, Serial
  <2>3. CASE known = {}
    <3>1. FreeSlots # {} /\ s = FirstFree
      BY <2>3 DEF bt_conn_create_le, CreateRefused
    <3>2. conns[s].ref = 0
      BY <3>1, FirstFreeIsFree DEF FreeSlots
    <3>3. owned[s] = 0
      BY <2>1, <3>2 DEF Counted
    <3>4. cs[s].ref = 1 /\ cs[s].state = "DISCONNECTED" /\ ~ cs[s].cleanup
          /\ cs[s].work \in {"none", conns[s].work} /\ cs[s].link = "none"
      BY <1>1, <2>3, AddLe
    <3> QED BY <2>1, <2>2, <3>3, <3>4 DEF Clean
  <2>4. CASE known # {}
    <3>1. cs = bt_conn_ref(conns, s)
      BY <2>4
    <3>2. /\ cs[s].ref = conns[s].ref + 1 /\ cs[s].state = conns[s].state
          /\ cs[s].work = conns[s].work /\ cs[s].link = conns[s].link
          /\ cs[s].cleanup <=> conns[s].cleanup
      BY <1>1, <3>1, Ref
    <3>3. rx # s /\ ~ conns[s].cleanup /\ conns[s].work = "none"
      BY <2>1, <2>2 DEF Clean
    <3> QED BY <2>1, <3>2, <3>3 DEF Counted, ByState, Settled
  <2> QED BY <2>3, <2>4
<1>4. owned' = [owned EXCEPT ![s] = IF owned[s] < 0 THEN owned[s] ELSE owned[s] + 1]
  BY DEF bt_conn_create_le
<1>5. owned' \in [Slots -> Int] /\ \A t \in Slots : t # s => owned'[t] = owned[t]
  BY <1>1, <1>4
<1>6. IF cs[s].state = "DISCONNECTED" THEN conns' = bt_conn_set_state(cs, s, "CONNECT_SCAN")
                                      ELSE conns' = cs
  BY DEF bt_conn_create_le
<1> HIDE DEF cs, known
<1>7. "CONNECT_SCAN" \in States
  BY DEF States
<1>8. conns' \in [Slots -> Conn] /\ \A t \in Slots : t # s => conns'[t] = conns[t]
  BY <1>2, <1>6, <1>7, SetState
<1>9. ASSUME Regular, Regular' PROVE Counted(s)' /\ Settled(s)'
  <2>1. owned'[s] = owned[s] + 1
    BY <1>1, <1>4, <1>9, SlotFacts
  <2>2. /\ conns'[s].ref = owned[s] + 2 /\ conns'[s].state # "DISCONNECTED"
        /\ ~ conns'[s].cleanup /\ conns'[s].work = "none"
        /\ conns'[s].link # "none" => conns'[s].state \in {"CONNECTED", "DISCONNECT"}
        /\ conns'[s].link = "up" => conns'[s].state = "CONNECTED"
    <3>1. CASE cs[s].state = "DISCONNECTED"
      <4>1. owned[s] \in Nat
        BY <1>9, SlotFacts
      <4> QED BY <1>2, <1>3, <1>6, <1>7, <1>9, <3>1, <4>1, SetState
    <3>2. CASE cs[s].state # "DISCONNECTED"
      <4>1. owned[s] \in Nat
        BY <1>9, SlotFacts
      <4> QED BY <1>3, <1>6, <1>9, <3>2, <4>1
    <3> QED BY <3>1, <3>2
  <2>3. rx' # s
    BY <1>3, <1>9
  <2>4. owned[s] \in Nat
    BY <1>9, SlotFacts
  <2> QED BY <2>1, <2>2, <2>3, <2>4 DEF Counted, ByState, Settled
<1>10. owned[s] < 0 => owned'[s] < 0
  BY <1>1, <1>4
<1>11. StaysOver /\ Accounted'
  BY <1>5, <1>8, <1>9, <1>10, OneSlot
<1>12. ConnTypeOK'
  BY <1>5, <1>8 DEF ConnTypeOK
<1> QED BY <1>11, <1>12 DEF ConnSound
(* bt_conn_disconnect without a command, and bt_conn_unref.                *)
LEMMA ClosedAtOnce ==
  ASSUME ConnTypeOK, Accounted, NEW s \in Slots, conns[s].state # "CONNECTED",
         owned' = [owned EXCEPT ![s] = @ - 1],
         conns' = bt_conn_unref(IF conns[s].state = "CONNECT_SCAN"
                                  THEN bt_conn_set_state(conns, s, "DISCONNECTED") ELSE conns, s),
         UNCHANGED << rx, held, holds >>, undefined' = {} => undefined = {}, ErrsStay
  PROVE  ConnSound
<1> DEFINE cs == IF conns[s].state = "CONNECT_SCAN"
                   THEN bt_conn_set_state(conns, s, "DISCONNECTED") ELSE conns
<1>1. conns \in [Slots -> Conn] /\ owned \in [Slots -> Int]
  BY DEF ConnTypeOK
<1>2. "DISCONNECTED" \in States
  BY DEF States
<1>3. cs \in [Slots -> Conn] /\ \A t \in Slots : t # s => cs[t] = conns[t]
  BY <1>1, <1>2, SetState
<1>4. /\ cs[s].link = conns[s].link /\ cs[s].work = conns[s].work
      /\ cs[s].cleanup <=> conns[s].cleanup
      /\ IF conns[s].state = "CONNECT_SCAN"
           THEN cs[s].state = "DISCONNECTED" /\ cs[s].ref = conns[s].ref - 1
           ELSE cs[s].state = conns[s].state /\ cs[s].ref = conns[s].ref
  <2>1. CASE conns[s].state = "CONNECT_SCAN"
    <3>1. conns[s].ref \in Int
      BY <1>1 DEF Conn
    <3> QED BY <1>1, <1>2, <2>1, <3>1, SetState
  <2>2. CASE conns[s].state # "CONNECT_SCAN"
    BY <2>2
  <2> QED BY <2>1, <2>2
<1>5. conns' = bt_conn_unref(cs, s)
  OBVIOUS
<1> HIDE DEF cs
<1>6. conns' \in [Slots -> Conn] /\ \A t \in Slots : t # s => conns'[t] = conns[t]
  BY <1>3, <1>5, Unref
<1>7. /\ conns'[s].link = cs[s].link /\ conns'[s].work = cs[s].work
      /\ conns'[s].cleanup <=> cs[s].cleanup
      /\ conns'[s].state = cs[s].state /\ conns'[s].ref = cs[s].ref - 1
  BY <1>3, <1>5, Unref
<1>8. owned' \in [Slots -> Int] /\ owned'[s] = owned[s] - 1 /\ owned[s] \in Int
      /\ \A t \in Slots : t # s => owned'[t] = owned[t]
  BY <1>1
<1>9. ASSUME Regular, Regular' PROVE Counted(s)' /\ Settled(s)'
  <2>1. conns[s] \in Conn /\ Counted(s) /\ Settled(s) /\ conns[s].ref \in Int
    BY <1>9, SlotFacts DEF Conn
  <2>2. CASE conns[s].state = "CONNECT_SCAN"
    BY <1>4, <1>7, <1>8, <2>1, <2>2 DEF Counted, Settled, ByState
  <2>3. CASE conns[s].state # "CONNECT_SCAN"
    BY <1>4, <1>7, <1>8, <2>1, <2>3 DEF Counted, Settled, ByState
  <2> QED BY <2>2, <2>3
<1>10. StaysOver /\ Accounted'
  BY <1>6, <1>8, <1>9, OneSlot
<1>11. ConnTypeOK'
  BY <1>6, <1>8 DEF ConnTypeOK
<1> QED BY <1>10, <1>11 DEF ConnSound

(* The receive thread moves an object on: an attempt begins or ends.       *)
LEMMA MovedOn ==
  ASSUME ConnTypeOK, Accounted, NEW s \in Slots,
         \/ conns[s].state = "CONNECT_SCAN" /\ conns' = bt_conn_set_state(conns, s, "CONNECT")
         \/ conns[s].state = "CONNECT"
            /\ conns' = bt_conn_set_state([conns EXCEPT ![s].link = "up"], s, "CONNECTED")
         \/ conns[s].state = "CONNECT" /\ conns' = bt_conn_set_state(conns, s, "DISCONNECTED"),
         UNCHANGED << rx, owned, held, holds, undefined >>, ErrsStay
  PROVE  ConnSound
<1> DEFINE up == [conns EXCEPT ![s].link = "up"]
<1>1. conns \in [Slots -> Conn] /\ owned \in [Slots -> Int] /\ conns[s] \in Conn
      /\ conns[s].ref \in Int /\ owned[s] \in Int
  BY DEF ConnTypeOK, Conn
<1>2. {"CONNECT", "CONNECTED", "DISCONNECTED"} \subseteq States
  BY DEF States
<1>3. /\ up \in [Slots -> Conn] /\ \A t \in Slots : t # s => up[t] = conns[t]
      /\ up[s].state = conns[s].state /\ up[s].link = "up" /\ up[s].work = conns[s].work
      /\ up[s].ref = conns[s].ref /\ up[s].cleanup = conns[s].cleanup
  <2>1. [conns[s] EXCEPT !.link = "up"] \in Conn
    BY <1>1 DEF Conn
  <2>2. up = [conns EXCEPT ![s] = [conns[s] EXCEPT !.link = "up"]]
    OBVIOUS
  <2> QED BY <1>1, <2>1, <2>2 DEF Conn
<1> HIDE DEF up
<1>4. conns' \in [Slots -> Conn] /\ \A t \in Slots : t # s => conns'[t] = conns[t]
  <2>1. CASE conns' = bt_conn_set_state(up, s, "CONNECTED")
    BY <1>2, <1>3, <2>1, SetState
  <2>2. CASE conns' = bt_conn_set_state(conns, s, "CONNECT")
    BY <1>1, <1>2, <2>2, SetState
  <2>3. CASE conns' = bt_conn_set_state(conns, s, "DISCONNECTED")
    BY <1>1, <1>2, <2>3, SetState
  <2> QED BY <2>1, <2>2, <2>3 DEF up
<1>5. ASSUME Regular, Regular' PROVE Counted(s)' /\ Settled(s)'
  <2>1. Counted(s) /\ Settled(s)
    BY <1>5, SlotFacts
  <2>2. CASE conns[s].state = "CONNECT_SCAN" /\ conns' = bt_conn_set_state(conns, s, "CONNECT")
    <3>1. /\ conns'[s].state = "CONNECT" /\ conns'[s].ref = conns[s].ref
          /\ conns'[s].work = conns[s].work /\ conns'[s].link = conns[s].link
          /\ conns'[s].cleanup <=> conns[s].cleanup
      BY <1>1, <1>2, <2>2, SetState
    <3> QED BY <1>1, <2>1, <2>2, <3>1 DEF Counted, Settled, ByState
  <2>3. CASE conns[s].state = "CONNECT" /\ conns' = bt_conn_set_state(up, s, "CONNECTED")
    <3>1. /\ conns'[s].state = "CONNECTED" /\ conns'[s].ref = conns[s].ref
          /\ conns'[s].work = conns[s].work /\ conns'[s].link = "up"
          /\ conns'[s].cleanup <=> conns[s].cleanup
      BY <1>1, <1>2, <1>3, <2>3, SetState
    <3> QED BY <1>1, <2>1, <2>3, <3>1 DEF Counted, Settled, ByState
  <2>4. CASE conns[s].state = "CONNECT" /\ conns' = bt_conn_set_state(conns, s, "DISCONNECTED")
    <3>1. /\ conns'[s].state = "DISCONNECTED" /\ conns'[s].ref = conns[s].ref - 1
          /\ conns'[s].work = conns[s].work /\ conns'[s].link = conns[s].link
          /\ conns'[s].cleanup <=> conns[s].cleanup
      <4>1. "DISCONNECTED" \in States
        BY <1>2
      <4> QED BY <1>1, <2>4, <4>1, SetState
    <3> QED BY <1>1, <2>1, <2>4, <3>1 DEF Counted, Settled, ByState
  <2> QED BY <2>2, <2>3, <2>4 DEF up
<1>6. StaysOver /\ Accounted'
  BY <1>4, <1>5, OneSlot
<1>7. ConnTypeOK'
  BY <1>4 DEF ConnTypeOK
<1> QED BY <1>6, <1>7 DEF ConnSound
(* One field of one object is changed.                                     *)
WithLink(cs, s, l) == [cs EXCEPT ![s].link = l]
WithWork(cs, s, w) == [cs EXCEPT ![s].work = w]

(* A change of the controller's view of the link.                          *)
LEMMA SetLink ==
  ASSUME NEW cs \in [Slots -> Conn], NEW s \in Slots, NEW l \in {"none", "up", "down"}
  PROVE  LET new == WithLink(cs, s, l)
         IN  /\ new \in [Slots -> Conn]
             /\ \A t \in Slots : t # s => new[t] = cs[t]
             /\ new[s].ref = cs[s].ref /\ new[s].state = cs[s].state
             /\ new[s].work = cs[s].work /\ new[s].link = l
             /\ new[s].cleanup <=> cs[s].cleanup
<1>1. cs[s] \in Conn
  OBVIOUS
<1>2. [cs[s] EXCEPT !.link = l] \in Conn
  BY <1>1 DEF Conn
<1> QED BY <1>1, <1>2 DEF Conn, WithLink

(* A change of the work queue's entry.                                     *)
LEMMA SetWork ==
  ASSUME NEW cs \in [Slots -> Conn], NEW s \in Slots, NEW w \in {"none", "submitted", "reporting"}
  PROVE  LET new == WithWork(cs, s, w)
         IN  /\ new \in [Slots -> Conn]
             /\ \A t \in Slots : t # s => new[t] = cs[t]
             /\ new[s].ref = cs[s].ref /\ new[s].state = cs[s].state
             /\ new[s].work = w /\ new[s].link = cs[s].link
             /\ new[s].cleanup <=> cs[s].cleanup
<1>1. cs[s] \in Conn
  OBVIOUS
<1>2. [cs[s] EXCEPT !.work = w] \in Conn
  BY <1>1 DEF Conn
<1> QED BY <1>1, <1>2 DEF Conn, WithWork

(* The end of a link is found: the receive thread takes a reference.       *)
LEMMA EndFound ==
  ASSUME ConnTypeOK, Accounted, NEW s \in Slots, hci_disconn_complete(s), UNCHANGED undefined,
         ErrsStay
  PROVE  ConnSound
<1> DEFINE down == WithLink(conns, s, "none")
           counted == bt_conn_ref(down, s)
<1>1. conns \in [Slots -> Conn] /\ owned \in [Slots -> Int] /\ rx = NULL /\ rx \notin Slots
      /\ conns[s].ref \in Int /\ owned[s] \in Int
  BY ConnAssumption DEF ConnTypeOK, hci_disconn_complete, NULL, Slots, Conn
<1>2. /\ down \in [Slots -> Conn] /\ \A t \in Slots : t # s => down[t] = conns[t]
      /\ down[s].ref = conns[s].ref /\ down[s].state = conns[s].state
      /\ down[s].work = conns[s].work /\ down[s].link = "none"
      /\ down[s].cleanup <=> conns[s].cleanup
  BY <1>1, SetLink
<1> HIDE DEF down
<1>3. /\ counted \in [Slots -> Conn] /\ \A t \in Slots : t # s => counted[t] = conns[t]
      /\ counted[s].ref = conns[s].ref + 1 /\ counted[s].state = conns[s].state
      /\ counted[s].work = conns[s].work /\ counted[s].link = "none"
      /\ counted[s].cleanup <=> conns[s].cleanup
  BY <1>2, Ref
<1>4. IF conns[s].ref # 0 /\ conns[s].state \in {"CONNECTED", "DISCONNECT"}
        THEN conns' = bt_conn_set_state(counted, s, "DISCONNECTED") /\ rx' = s
        ELSE conns' = down /\ rx' = rx
  BY DEF hci_disconn_complete, down, WithLink
<1> HIDE DEF counted
<1>5. "DISCONNECTED" \in States
  BY DEF States
<1>6. conns' \in [Slots -> Conn] /\ \A t \in Slots : t # s => conns'[t] = conns[t]
  BY <1>2, <1>3, <1>4, <1>5, SetState
<1>7. \A t \in Slots : t # s => ((rx' = t) <=> (rx = t))
  BY <1>1, <1>4
<1>8. UNCHANGED << owned, held, holds >> /\ conns[s].link = "down"
  BY DEF hci_disconn_complete
<1>9. ASSUME Regular, Regular' PROVE Counted(s)' /\ Settled(s)'
  <2>1. Counted(s) /\ Settled(s) /\ owned[s] \in Nat
    BY <1>9, SlotFacts
  <2>2. conns[s].state \in {"CONNECTED", "DISCONNECT"} /\ conns[s].ref # 0
    BY <1>1, <1>8, <2>1 DEF Counted, Settled, ByState
  <2>3. conns' = bt_conn_set_state(counted, s, "DISCONNECTED") /\ rx' = s
    BY <1>4, <2>2
  <2>4. /\ conns'[s].state = "DISCONNECTED" /\ conns'[s].ref = conns[s].ref + 1
        /\ conns'[s].work = conns[s].work /\ conns'[s].link = "none" /\ conns'[s].cleanup
    BY <1>1, <1>3, <1>5, <2>2, <2>3, SetState
  <2> QED BY <1>1, <1>8, <2>1, <2>2, <2>3, <2>4 DEF Counted, Settled, ByState
<1>10. StaysOver /\ Accounted'
  BY <1>6, <1>7, <1>8, <1>9, OneSlot
<1>11. ConnTypeOK'
  BY <1>1, <1>4, <1>6, <1>8 DEF ConnTypeOK
<1> QED BY <1>10, <1>11 DEF ConnSound

(* atomic_clear: by then the work queue has reported the end, so that the  *)
(* application's references are all there is to clear.                     *)
LEMMA RefCleared ==
  ASSUME ConnTypeOK, Accounted, RxMayRun, clear_ref, UNCHANGED undefined, ErrsStay
  PROVE  ConnSound
<1>0. PICK s \in Slots : s = rx
  BY DEF ConnTypeOK, clear_ref
<1>1. s \in Slots /\ conns \in [Slots -> Conn] /\ owned \in [Slots -> Int] /\ s # NULL
      /\ conns[s] \in Conn /\ owned[s] \in Int
  BY <1>0 DEF ConnTypeOK, clear_ref
<1>2. conns' = [conns EXCEPT ![s].ref = 0] /\ rx' = NULL /\ UNCHANGED << held, holds >>
      /\ owned' = [owned EXCEPT ![s] = IF owned[s] > 0 THEN 0 ELSE owned[s]]
  BY <1>0 DEF clear_ref
<1>3. [conns[s] EXCEPT !.ref = 0] \in Conn
  BY <1>1 DEF Conn
<1>4. conns' \in [Slots -> Conn] /\ \A t \in Slots : t # s => conns'[t] = conns[t]
  BY <1>1, <1>2, <1>3
<1>5. /\ conns'[s].ref = 0 /\ conns'[s].state = conns[s].state
      /\ conns'[s].work = conns[s].work /\ conns'[s].link = conns[s].link
      /\ conns'[s].cleanup <=> conns[s].cleanup
  BY <1>1, <1>2 DEF Conn
<1>6. owned' \in [Slots -> Int] /\ \A t \in Slots : t # s => owned'[t] = owned[t]
  BY <1>1, <1>2
<1>7. owned[s] < 0 => owned'[s] < 0
  BY <1>1, <1>2
<1>8. ASSUME Regular, Regular' PROVE Counted(s)' /\ Settled(s)'
  <2>1. Counted(s) /\ Settled(s) /\ owned[s] \in Nat /\ held = {} /\ conns[s].ref \in Int
    BY <1>1, <1>8, SlotFacts DEF Conn
  <2>2. conns[s].work = "none"
    BY <1>1, <2>1 DEF RxMayRun, TxMayRun, WorkReady
  <2>3. conns[s].state = "DISCONNECTED"
    BY <1>0, <2>1 DEF Settled
  <2>4. conns[s].ref # 0
    BY <1>0, <1>1, <2>1 DEF Counted
  <2>5. ~ conns[s].cleanup
    BY <1>1, <2>1, <2>3, <2>4 DEF RxMayRun, TxReady, Dirty
  <2>6. owned'[s] = 0 /\ rx' # s
    BY <1>1, <1>2, <2>1
  <2> QED BY <1>5, <2>1, <2>2, <2>3, <2>5, <2>6 DEF Counted, Settled, ByState
<1>9. \A t \in Slots : t # s => ((rx' = t) <=> (rx = t))
  BY <1>0, <1>1, <1>2 DEF NULL, Slots
<1>10. StaysOver /\ Accounted'
  BY <1>1, <1>2, <1>4, <1>6, <1>7, <1>8, <1>9, OneSlot
<1>11. ConnTypeOK'
  BY <1>2, <1>4, <1>6 DEF ConnTypeOK
<1> QED BY <1>10, <1>11 DEF ConnSound
(* The transmit thread and the work queue hand the object on; the last     *)
(* step gives the reference of the state back.                             *)
LEMMA HandedOn ==
  ASSUME ConnTypeOK, Accounted, NEW s \in Slots,
         conn_cleanup(s) \/ l2cap_disconnected(s) \/ notify_disconnected(s), UNCHANGED undefined,
         ErrsStay
  PROVE  ConnSound
<1>1. conns \in [Slots -> Conn] /\ owned \in [Slots -> Int] /\ conns[s] \in Conn
      /\ conns[s].ref \in Int /\ owned[s] \in Int
  BY DEF ConnTypeOK, Conn
<1>2. UNCHANGED << rx, owned, held, holds >>
  BY DEF conn_cleanup, l2cap_disconnected, notify_disconnected
<1>3. CASE conn_cleanup(s)
  <2>1. [conns[s] EXCEPT !.cleanup = FALSE, !.work = "submitted"] \in Conn
    BY <1>1 DEF Conn
  <2>2. conns' = [conns EXCEPT ![s] = [conns[s] EXCEPT !.cleanup = FALSE, !.work = "submitted"]]
    BY <1>3 DEF conn_cleanup
  <2>3. conns' \in [Slots -> Conn] /\ \A t \in Slots : t # s => conns'[t] = conns[t]
    BY <1>1, <2>1, <2>2
  <2>4. /\ conns'[s].ref = conns[s].ref /\ conns'[s].state = conns[s].state
        /\ conns'[s].work = "submitted" /\ conns'[s].link = conns[s].link /\ ~ conns'[s].cleanup
    BY <1>1, <2>2 DEF Conn
  <2>5. conns[s].cleanup /\ conns[s].state = "DISCONNECTED"
    BY <1>3 DEF conn_cleanup, Dirty
  <2>6. ASSUME Regular, Regular' PROVE Counted(s)' /\ Settled(s)'
    <3>1. Counted(s) /\ Settled(s)
      BY <2>6, SlotFacts
    <3> QED BY <1>1, <1>2, <2>4, <2>5, <3>1 DEF Counted, Settled, ByState
  <2>7. StaysOver /\ Accounted'
    BY <1>2, <2>3, <2>6, OneSlot
  <2> QED BY <1>2, <2>3, <2>7 DEF ConnTypeOK, ConnSound
<1>4. CASE l2cap_disconnected(s)
  <2>1. PICK w \in {"none", "reporting"} :
          /\ conns' = WithWork(conns, s, w)
          /\ w = "none" => conns[s].state # "DISCONNECTED"
    BY <1>4 DEF l2cap_disconnected, WithWork
  <2>2. /\ conns' \in [Slots -> Conn] /\ \A t \in Slots : t # s => conns'[t] = conns[t]
        /\ conns'[s].ref = conns[s].ref /\ conns'[s].state = conns[s].state
        /\ conns'[s].work = w /\ conns'[s].link = conns[s].link
        /\ conns'[s].cleanup <=> conns[s].cleanup
    <3>1. w \in {"none", "submitted", "reporting"}
      BY <2>1
    <3> QED BY <1>1, <2>1, <3>1, SetWork
  <2>3. ASSUME Regular, Regular' PROVE Counted(s)' /\ Settled(s)'
    <3>1. Counted(s) /\ Settled(s) /\ conns[s].work = "submitted"
      BY <1>4, <2>3, SlotFacts DEF l2cap_disconnected
    <3>2. conns[s].state = "DISCONNECTED" /\ w = "reporting"
      BY <2>1, <3>1 DEF Settled
    <3> QED BY <1>1, <1>2, <2>2, <3>1, <3>2 DEF Counted, Settled, ByState
  <2>4. StaysOver /\ Accounted'
    BY <1>2, <2>2, <2>3, OneSlot
  <2> QED BY <1>2, <2>2, <2>4 DEF ConnTypeOK, ConnSound
<1>5. CASE notify_disconnected(s)
  <2>1. [conns[s] EXCEPT !.work = "none", !.ref = conns[s].ref - 1] \in Conn
    <3>1. ASSUME NEW c \in Conn PROVE [c EXCEPT !.work = "none"] \in Conn
      BY DEF Conn
    <3>2. ASSUME NEW c \in Conn, NEW i \in Int PROVE [c EXCEPT !.ref = i] \in Conn
      BY DEF Conn
    <3>3. [conns[s] EXCEPT !.work = "none", !.ref = conns[s].ref - 1]
            = [[conns[s] EXCEPT !.work = "none"] EXCEPT !.ref = conns[s].ref - 1]
      BY <1>1
    <3>4. conns[s].ref - 1 \in Int
      BY <1>1
    <3> QED BY <1>1, <3>1, <3>2, <3>3, <3>4, Zenon
  <2>2. conns' = [conns EXCEPT ![s] = [conns[s] EXCEPT !.work = "none", !.ref = conns[s].ref - 1]]
    BY <1>5 DEF notify_disconnected
  <2>3. conns' \in [Slots -> Conn] /\ \A t \in Slots : t # s => conns'[t] = conns[t]
    BY <1>1, <2>1, <2>2
  <2>4. /\ conns'[s].ref = conns[s].ref - 1 /\ conns'[s].state = conns[s].state
        /\ conns'[s].work = "none" /\ conns'[s].link = conns[s].link
        /\ conns'[s].cleanup <=> conns[s].cleanup
    BY <1>1, <2>2 DEF Conn
  <2>5. conns[s].work = "reporting"
    BY <1>5 DEF notify_disconnected
  <2>6. ASSUME Regular, Regular' PROVE Counted(s)' /\ Settled(s)'
    <3>1. Counted(s) /\ Settled(s)
      BY <2>6, SlotFacts
    <3> QED BY <1>1, <1>2, <2>4, <2>5, <3>1 DEF Counted, Settled, ByState
  <2>7. StaysOver /\ Accounted'
    BY <1>2, <2>3, <2>6, OneSlot
  <2> QED BY <1>2, <2>3, <2>7 DEF ConnTypeOK, ConnSound
<1> QED BY <1>3, <1>4, <1>5

(* The controller loses a link; a thread is held or goes on.               *)
LEMMA Outside ==
  ASSUME ConnTypeOK, Accounted, UNCHANGED undefined, ErrsStay,
         \/ \E s \in Slots : LinkLost(s)
         \/ \E t \in Threads : Hold(t) \/ Release(t)
  PROVE  ConnSound
<1>1. ASSUME NEW s \in Slots, LinkLost(s) PROVE ConnSound
  <2>1. conns \in [Slots -> Conn] /\ owned \in [Slots -> Int]
        /\ UNCHANGED << rx, owned, held, holds >>
    BY <1>1 DEF ConnTypeOK, LinkLost
  <2>2. /\ conns' \in [Slots -> Conn] /\ \A t \in Slots : t # s => conns'[t] = conns[t]
        /\ conns'[s].ref = conns[s].ref /\ conns'[s].state = conns[s].state
        /\ conns'[s].work = conns[s].work /\ conns'[s].link = "down"
        /\ conns'[s].cleanup <=> conns[s].cleanup
    <3>1. conns' = WithLink(conns, s, "down")
      BY <1>1 DEF LinkLost, WithLink
    <3> QED BY <2>1, <3>1, SetLink
  <2>3. ASSUME Regular, Regular' PROVE Counted(s)' /\ Settled(s)'
    <3>1. Counted(s) /\ Settled(s) /\ conns[s].link = "up"
      BY <1>1, <2>3, SlotFacts DEF LinkLost
    <3> QED BY <2>1, <2>2, <3>1 DEF Counted, Settled, ByState
  <2>4. StaysOver /\ Accounted'
    BY <2>1, <2>2, <2>3, OneSlot
  <2> QED BY <2>1, <2>2, <2>4 DEF ConnTypeOK, ConnSound
<1>2. ASSUME NEW t \in Threads, Hold(t) \/ Release(t) PROVE ConnSound
  <2>1. UNCHANGED << conns, rx, owned >>
    BY <1>2 DEF Hold, Release
  <2>2. held' \subseteq Threads /\ holds' \in 0 .. MaxHolds
        /\ (holds' = 0 => holds = 0 /\ held' \subseteq held)
    BY <1>2, ConnAssumption DEF Hold, Release, ConnTypeOK
  <2>3. StaysOver
    BY <2>1 DEF StaysOver, OverReleased
  <2>4. Accounted'
    <3>1. ASSUME Regular', NEW s \in Slots PROVE Counted(s)' /\ Settled(s)'
      <4>1. Regular
        BY <2>2, <2>3, <3>1, RegularBack
      <4> QED BY <2>1, <4>1, SlotFacts, SlotKept
    <3>2. holds' = 0 => held' = {}
      BY <2>2 DEF Accounted
    <3> QED BY <3>1, <3>2 DEF Accounted
  <2> QED BY <2>1, <2>2, <2>3, <2>4 DEF ConnTypeOK, ConnSound
<1> QED BY <1>1, <1>2

(* Steps that leave the objects alone.                                     *)
LEMMA NotTouched ==
  ASSUME ConnTypeOK, Accounted, UNCHANGED connVars, undefined' = {} => undefined = {}, ErrsStay
  PROVE  ConnSound
<1>1. UNCHANGED << conns, rx, owned, held, holds >>
  BY DEF connVars
<1>2. StaysOver
  BY <1>1 DEF StaysOver, OverReleased
<1>3. ASSUME Regular', NEW s \in Slots PROVE Counted(s)' /\ Settled(s)'
  <2>1. Regular
    BY <1>1, <1>2, <1>3, RegularBack
  <2> QED BY <1>1, <2>1, SlotFacts, SlotKept
<1>4. Accounted'
  BY <1>1, <1>3 DEF Accounted
<1> QED BY <1>1, <1>2, <1>4 DEF ConnTypeOK, ConnSound

(* bt_conn_disconnect with a command: the object that is being closed may  *)
(* be another one than the application has by the time it releases it.     *)
LEMMA Returned ==
  ASSUME ConnTypeOK, SlotTypes, Control, Accounted, undefined = {}, DisconnectReturns, ErrsStay
  PROVE  ConnSound
<1> DEFINE low == WithLink(conns, closing, "down")
           cs == IF conns[closing].link # "up" THEN conns
                 ELSE bt_conn_set_state(low, closing, "DISCONNECT")
<1>1. conns \in [Slots -> Conn] /\ owned \in [Slots -> Int] /\ closing \in Slots
      /\ UNCHANGED << rx, held, holds >> /\ ble_bl_conn \in Slots \union {NULL}
  BY DEF ConnTypeOK, SlotTypes, Control, Closing, DisconnectReturns
<1>2. "DISCONNECT" \in States
  BY DEF States
<1>3. /\ low \in [Slots -> Conn] /\ \A t \in Slots : t # closing => low[t] = conns[t]
      /\ low[closing].ref = conns[closing].ref /\ low[closing].state = conns[closing].state
      /\ low[closing].work = conns[closing].work /\ low[closing].link = "down"
      /\ low[closing].cleanup <=> conns[closing].cleanup
  BY <1>1, SetLink
<1> HIDE DEF low
<1>4. cs \in [Slots -> Conn] /\ \A t \in Slots : t # closing => cs[t] = conns[t]
  BY <1>1, <1>2, <1>3, SetState
<1>5. ASSUME Regular
      PROVE  /\ cs[closing].ref = conns[closing].ref /\ cs[closing].work = conns[closing].work
             /\ cs[closing].cleanup <=> conns[closing].cleanup
             /\ cs[closing].state # "DISCONNECTED" <=> conns[closing].state # "DISCONNECTED"
             /\ cs[closing].link # "none" => cs[closing].state \in {"CONNECTED", "DISCONNECT"}
             /\ cs[closing].link = "up" => cs[closing].state = "CONNECTED"
  <2>1. Settled(closing) /\ conns[closing].ref \in Int
    BY <1>1, <1>5, SlotFacts DEF Conn
  <2>2. CASE conns[closing].link # "up"
    BY <2>1, <2>2 DEF Settled
  <2>3. CASE conns[closing].link = "up"
    <3>1. cs = bt_conn_set_state(low, closing, "DISCONNECT") /\ low[closing].state = "CONNECTED"
      BY <1>3, <2>1, <2>3 DEF Settled
    <3> HIDE DEF cs
    <3>2. /\ cs[closing].ref = low[closing].ref + 0 - 0 /\ cs[closing].work = low[closing].work
          /\ cs[closing].cleanup <=> low[closing].cleanup
          /\ cs[closing].state = "DISCONNECT" /\ cs[closing].link = "down"
      BY <1>1, <1>2, <1>3, <3>1, SetState
    <3> QED BY <1>3, <2>1, <2>3, <3>2 DEF Settled
  <2> QED BY <2>2, <2>3
<1>6. IF ble_bl_conn = NULL THEN conns' = cs /\ UNCHANGED owned
      ELSE conns' = bt_conn_unref(cs, ble_bl_conn) /\ owned' = [owned EXCEPT ![ble_bl_conn] = @ - 1]
  BY DEF DisconnectReturns, low, WithLink
<1> HIDE DEF cs
<1>7. conns' \in [Slots -> Conn] /\ owned' \in [Slots -> Int]
  BY <1>1, <1>4, <1>6, Unref
<1>8. \A t \in Slots : owned[t] < 0 => owned'[t] < 0
  BY <1>1, <1>6
<1>9. StaysOver
  BY <1>8 DEF StaysOver, OverReleased
<1>10. ASSUME Regular', NEW t \in Slots PROVE Counted(t)' /\ Settled(t)'
  <2>1. Regular
    BY <1>1, <1>9, <1>10, RegularBack
  <2>2. ble_bl_conn \in Slots
    BY <1>1, <1>10 DEF DisconnectReturns, UsesConn, Regular
  <2>3. Counted(t) /\ Settled(t) /\ owned[t] \in Nat /\ conns[t].ref \in Int
    BY <2>1, SlotFacts DEF Conn
  <2>4. /\ cs[t].ref = conns[t].ref /\ cs[t].work = conns[t].work
        /\ cs[t].cleanup <=> conns[t].cleanup
        /\ cs[t].state # "DISCONNECTED" <=> conns[t].state # "DISCONNECTED"
        /\ cs[t].link # "none" => cs[t].state \in {"CONNECTED", "DISCONNECT"}
        /\ cs[t].link = "up" => cs[t].state = "CONNECTED"
    <3>1. CASE t = closing
      BY <1>5, <2>1, <3>1
    <3>2. CASE t # closing
      BY <1>4, <2>3, <3>2 DEF Settled
    <3> QED BY <3>1, <3>2
  <2>5. conns' = bt_conn_unref(cs, ble_bl_conn) /\ owned' = [owned EXCEPT ![ble_bl_conn] = @ - 1]
    BY <1>6, <2>2, ConnAssumption DEF NULL, Slots
  <2>6. CASE t = ble_bl_conn
    <3>1. /\ conns'[t].ref = cs[t].ref - 1 /\ conns'[t].state = cs[t].state
          /\ conns'[t].work = cs[t].work /\ conns'[t].link = cs[t].link
          /\ conns'[t].cleanup <=> cs[t].cleanup
      BY <1>4, <2>5, <2>6, Unref
    <3>2. owned'[t] = owned[t] - 1
      BY <1>1, <2>5, <2>6
    <3> QED BY <1>1, <2>3, <2>4, <3>1, <3>2 DEF Counted, Settled, ByState
  <2>7. CASE t # ble_bl_conn
    <3>1. conns'[t] = cs[t]
      BY <1>4, <2>2, <2>5, <2>7, Unref
    <3>2. owned'[t] = owned[t]
      BY <1>1, <2>5, <2>7
    <3> QED BY <1>1, <2>3, <2>4, <3>1, <3>2 DEF Counted, Settled, ByState
  <2> QED BY <2>6, <2>7
<1>11. Accounted'
  BY <1>1, <1>10 DEF Accounted
<1> QED BY <1>1, <1>7, <1>9, <1>11 DEF ConnTypeOK, ConnSound
(* CloseConn, at once or with a command.                                   *)
LEMMA Closed ==
  ASSUME ConnTypeOK, Accounted, ble_bl_conn \in Slots, NEW call, NEW next, CloseConn(call, next),
         UNCHANGED << rx, held, holds >>, undefined' = {} => undefined = {}, ErrsStay
  PROVE  ConnSound
<1>1. CASE conns[ble_bl_conn].state = "CONNECTED"
  <2>1. UNCHANGED connVars
    BY <1>1 DEF CloseConn, connVars
  <2> QED BY <2>1, NotTouched
<1>2. CASE conns[ble_bl_conn].state # "CONNECTED"
  BY <1>2, ClosedAtOnce DEF CloseConn
<1> QED BY <1>1, <1>2

(* Every step keeps the objects' types and their accounting.               *)
LEMMA ObjectsStep ==
  ASSUME IInv, [Next]_vars
  PROVE  ConnSound
<1>1. /\ ConnTypeOK /\ TaskTypes /\ SlotTypes /\ ScanTypes /\ Control /\ Serial /\ Accounted
      /\ ErrsStay
  BY Groups, ErrsKept DEF IInv
<1>2. CASE UNCHANGED << connVars, undefined >>
  BY <1>1, <1>2, NotTouched
<1>3. CASE Task
  <2>1. undefined = {}
    BY <1>3 DEF Task
  <2>2. CASE \/ Notified \/ BlockConnected \/ BlockDiscoveredChar \/ BlockDiscoveredDes
             \/ BlockSubscribed \/ ScanStart \/ ScanStarted \/ CallReturns \/ ble_app_process
    <3>1. UNCHANGED connVars
      BY <2>2 DEF Notified, BlockConnected, BlockDiscoveredChar, BlockDiscoveredDes,
         BlockSubscribed, ScanStart, ScanStarted, CallReturns, ble_app_process
    <3> QED BY <1>1, <2>1, <3>1, NotTouched
  <2>3. CASE FoundAddress
    <3>1. UNCHANGED << rx, held, holds, undefined >> /\ pc = "FOUND_ADDRESS"
      BY <2>3 DEF FoundAddress
    <3>2. CASE UNCHANGED << conns, owned >>
      BY <1>2, <3>1, <3>2 DEF connVars
    <3>3. ASSUME NEW s \in Slots, bt_conn_create_le(s) PROVE ConnSound
      BY <1>1, <2>1, <3>1, <3>3, Created
    <3> QED BY <2>3, <3>2, <3>3 DEF FoundAddress
  <2>4. CASE BlockDeviceConfirmed \/ Restart
    <3>1. UNCHANGED << rx, held, holds >>
      BY <2>4 DEF BlockDeviceConfirmed, Restart
    <3>2. CASE UNCHANGED << conns, owned >>
      <4>1. UNCHANGED connVars
        BY <3>1, <3>2 DEF connVars
      <4> QED BY <1>1, <2>1, <4>1, NotTouched
    <3>3. ASSUME ble_bl_conn # NULL, NEW call, NEW next, CloseConn(call, next) PROVE ConnSound
      <4>1. ble_bl_conn \in Slots
        BY <1>1, <3>3 DEF SlotTypes
      <4> QED BY <1>1, <2>1, <3>1, <3>3, <4>1, Closed
    <3> QED BY <2>4, <3>2, <3>3 DEF BlockDeviceConfirmed, Restart
  <2>5. CASE DisconnectReturns
    BY <1>1, <2>1, <2>5, Returned
  <2> QED BY <1>3, <2>2, <2>3, <2>4, <2>5 DEF Task
<1>4. CASE TimedOut \/ bt_press \/ device_found_notify
  BY <1>2, <1>4 DEF TimedOut, bt_press, device_found_notify, appVars
<1>5. ASSUME NEW q, device_found(q) \/ Answered(q) PROVE ConnSound
  BY <1>2, <1>5 DEF device_found, Answered, appVars
<1>6. ASSUME NEW s \in Slots, check_pending_conn(s) \/ bl_connected(s) \/ ConnectFails(s)
      PROVE  ConnSound
  BY <1>1, <1>6, MovedOn DEF check_pending_conn, bl_connected, ConnectFails, appVars
<1>7. CASE DisconnComplete
  BY <1>1, <1>7, EndFound DEF DisconnComplete, HostStep, appVars
<1>8. CASE ClearRef
  BY <1>1, <1>8, RefCleared DEF ClearRef, HostStep, appVars
<1>9. CASE Cleanup \/ Work
  BY <1>1, <1>9, HandedOn DEF Cleanup, Work, RequestsFail, bl_disconnected, HostStep, appVars
<1>10. CASE Environment \/ ReleaseThread
  BY <1>1, <1>10, Outside DEF Environment, ReleaseThread, HostStep, appVars
<1>11. CASE UNCHANGED vars
  BY <1>2, <1>11 DEF vars
<1> QED BY <1>3, <1>4, <1>5, <1>6, <1>7, <1>8, <1>9, <1>10, <1>11 DEF Next, Receive

-------------------------------------------------------------------------------
(* What a step of another thread is to the task.                           *)
Aside ==
  /\ UNCHANGED appVars
  /\ pc \in Calls \union AfterSearch \union {"wait"}
  /\ Waiting \/ pc \in AfterSearch \/ \E s \in Slots : notify_disconnected(s)
  /\ status \subseteq status' /\ scan_err' = scan_err
  /\ \/ /\ explicit' = explicit /\ finding' = finding
        /\ "FOUND_ADDRESS" \in status' => "FOUND_ADDRESS" \in status
     \/ \E p \in Peers : device_found(p)
     \/ device_found_notify
  /\ rx' = rx \/ rx' = NULL \/ finding = NoPeer

(* The other threads run while the task waits, or go on with a report, and *)
(* leave its variables alone.                                              *)
LEMMA OtherThreads ==
  ASSUME Receive \/ Cleanup \/ Work \/ Environment \/ ReleaseThread \/ bt_press
  PROVE  Aside
<1>1. CASE device_found_notify
  BY <1>1 DEF device_found_notify, TxMayRun, WorkMayRun, Waiting, AfterSearch, connVars, Aside
<1>2. ASSUME NEW q \in Peers, device_found(q) PROVE Aside
  BY <1>2 DEF device_found, RxMayRun, TxMayRun, WorkMayRun, Waiting, AfterSearch, connVars, Aside
<1>3. ASSUME NEW s \in Slots, check_pending_conn(s) \/ bl_connected(s) \/ ConnectFails(s) PROVE Aside
  BY <1>3 DEF check_pending_conn, bl_connected, ConnectFails, RxMayRun, TxMayRun, WorkMayRun,
     Waiting, AfterSearch, scanVars, Aside
<1>4. ASSUME NEW r, Answered(r) PROVE Aside
  BY <1>4 DEF Answered, Discovered, RxMayRun, TxMayRun, WorkMayRun, Waiting, AfterSearch,
     connVars, scanVars, Aside
<1>5. CASE DisconnComplete \/ ClearRef
  BY <1>5 DEF DisconnComplete, ClearRef, HostStep, RxMayRun, TxMayRun, WorkMayRun, Waiting,
     AfterSearch, scanVars, Aside
<1>6. CASE Cleanup \/ Environment \/ ReleaseThread
  BY <1>6 DEF Cleanup, Environment, ReleaseThread, HostStep, TxMayRun, WorkMayRun, scanVars,
     Waiting, AfterSearch, conn_cleanup, LinkLost, Hold, Release, Aside
<1>7. ASSUME NEW s \in Slots, RequestsFail(s) \/ bl_disconnected(s) PROVE Aside
  BY <1>7 DEF RequestsFail, bl_disconnected, l2cap_disconnected, notify_disconnected, Discovered,
     WorkMayRun, HandlerMayGoOn, Waiting, AfterSearch, scanVars, Aside
<1>8. CASE bt_press
  BY <1>8 DEF bt_press, connVars, scanVars, AfterSearch, Calls, Aside
<1> QED BY <1>1, <1>2, <1>3, <1>4, <1>5, <1>6, <1>7, <1>8 DEF Receive, Work

(* A step inside the search, away from the waits that Control is about.    *)
LEMMA InSearch ==
  ASSUME ~ is_found_dev', pc' \in Steps \union {"bt_conn_create_le"}
  PROVE  Control'
<1>1. pc' \notin AfterSearch \union Closing \union {"bt_le_scan_start", "wait"}
  BY BlockList DEF AfterSearch, Closing
<1> QED BY <1>1 DEF Control, Closing

(* While the task is in a block of the search the device is not found.     *)
LEMMA Searching ==
  ASSUME Control, undefined = {}, pc \in (Steps \ {"restart"}) \union {"wait", "bt_conn_create_le"}
  PROVE  ~ is_found_dev
  BY BlockList DEF Control, AfterSearch, Closing

(* Every step keeps Control.                                               *)
LEMMA ControlStep ==
  ASSUME TypeOK, Control, [Next]_vars
  PROVE  Control'
<1>1. CASE Task /\ (Notified \/ FoundAddress \/ BlockConnected \/ BlockDiscoveredChar
                    \/ BlockDiscoveredDes \/ BlockSubscribed)
  <2>1. pc \in (Steps \ {"restart"}) \union {"wait"} /\ UNCHANGED is_found_dev
    BY <1>1, BlockList DEF Notified, FoundAddress, BlockConnected, BlockDiscoveredChar,
       BlockDiscoveredDes, BlockSubscribed
  <2>2. ~ is_found_dev'
    BY <1>1, <2>1, Searching DEF Task
  <2>3. \E bits : pc' = NextBlock(pc, bits) \/ pc' = "bt_conn_create_le"
    BY <1>1 DEF Notified, FoundAddress, bt_conn_create_le, BlockConnected, BlockDiscoveredChar,
       BlockDiscoveredDes, BlockSubscribed
  <2>4. pc' \in Steps \union {"bt_conn_create_le"}
    BY <2>1, <2>3, NextBlockFacts
  <2> QED BY <2>2, <2>4, InSearch
<1>2. CASE Task /\ BlockDeviceConfirmed
  <2>1. is_found_dev' /\ closing' = ble_bl_conn
        /\ (ble_bl_conn = NULL => undefined' # {} /\ pc' = "DEVICE_CONFIRMED")
        /\ (ble_bl_conn # NULL => pc' \in {"confirmed: bt_conn_disconnect", "restart"})
    BY <1>2 DEF BlockDeviceConfirmed, UsesConn, CloseConn
  <2> QED BY <2>1 DEF Control, AfterSearch, Closing
<1>3. CASE Task /\ Restart
  <2>1. UNCHANGED << is_found_dev, timeout, undefined >> /\ undefined = {}
    BY <1>3 DEF Task, Restart
  <2>2. \/ timeout = "20 s" /\ pc' = EndOfBody
        \/ pc' = "scan"
        \/ pc' = "restart: bt_conn_disconnect" /\ closing' = ble_bl_conn /\ ble_bl_conn # NULL
    BY <1>3 DEF Restart, CloseConn
  <2> QED BY <2>1, <2>2 DEF Control, EndOfBody, AfterSearch, Closing
<1>4. CASE Task /\ DisconnectReturns
  <2>1. UNCHANGED << is_found_dev >> /\ pc' \in {"scan", "restart"}
    BY <1>4 DEF DisconnectReturns
  <2> QED BY <2>1 DEF Control, AfterSearch, Closing
<1>5. CASE Task /\ ScanStart
  <2>1. UNCHANGED << is_found_dev >> /\ pc' \in {EndOfBody, "bt_le_scan_start"} /\ explicit'
    BY <1>5 DEF ScanStart
  <2> QED BY <2>1 DEF Control, EndOfBody, AfterSearch, Closing
<1>6. CASE Task /\ CallReturns
  <2>1. UNCHANGED << is_found_dev, explicit, finding, timeout, undefined, status >> /\ undefined = {}
    BY <1>6 DEF Task, CallReturns, scanVars
  <2>2. CASE pc = "bt_conn_create_le"
    <3>1. ~ is_found_dev'
      BY <2>1, <2>2, Searching
    <3>2. pc' = NextBlock("FOUND_ADDRESS", find_status)
      BY <1>6, <2>2 DEF CallReturns
    <3>3. pc' \in Steps
      BY <3>2, NextBlockFacts, BlockList
    <3> QED BY <3>1, <3>3, InSearch
  <2>3. CASE pc = "bt_le_adv_update_data"
    <3>1. pc' = "ble_app_process" /\ is_found_dev
      BY <1>6, <2>3 DEF CallReturns, Control, EndOfBody, AfterSearch
    <3> QED BY <2>1, <3>1 DEF Control, AfterSearch, Closing
  <2> QED BY <1>6, <2>2, <2>3 DEF CallReturns
<1>7. CASE Task /\ ble_app_process
  <2>1. is_found_dev' /\ pc' \in AfterSearch
    BY <1>7 DEF ble_app_process, Control, AfterSearch
  <2> QED BY <2>1 DEF Control, AfterSearch, Closing
<1>8. CASE TimedOut /\ undefined = {}
  <2>1. pc' = "restart" /\ UNCHANGED << is_found_dev >> /\ pc = "wait"
    BY <1>8 DEF TimedOut
  <2>2. ~ is_found_dev'
    BY <1>8, <2>1, Searching
  <2> QED BY <2>1, <2>2, InSearch, BlockList
<1>9. CASE Aside
  <2>1. UNCHANGED << pc, is_found_dev, closing, timeout, undefined, scan_err >>
        /\ status \subseteq status'
    BY <1>9 DEF Aside, appVars, taskVars
  <2>2. CASE explicit' = explicit /\ finding' = finding
    BY <2>1, <2>2 DEF Control
  <2>3. ASSUME NEW p \in Peers, device_found(p) PROVE Control'
    <3>1. pc # "bt_le_scan_start" /\ finding' # NoPeer
      BY <2>3, ConnAssumption DEF device_found
    <3> QED BY <2>1, <3>1 DEF Control
  <2>4. CASE device_found_notify
    <3>1. status' # {} /\ UNCHANGED explicit
      BY <2>4 DEF device_found_notify
    <3> QED BY <2>1, <3>1 DEF Control
  <2> QED BY <1>9, <2>2, <2>3, <2>4 DEF Aside
<1>10. CASE Task /\ ScanStarted
  <2>1. UNCHANGED << is_found_dev, timeout >> /\ pc' = EndOfBody
    BY <1>10 DEF ScanStarted
  <2>2. explicit' \/ scan_err'
    <3>1. explicit
      BY <1>10, Zenon DEF ScanStarted, Control
    <3> QED BY <1>10, <3>1, Zenon DEF ScanStarted
  <2> QED BY <2>1, <2>2 DEF Control, EndOfBody, AfterSearch, Closing
<1>11. CASE UNCHANGED vars
  BY <1>11 DEF vars, taskVars, scanVars, Control
<1> QED BY <1>1, <1>2, <1>3, <1>4, <1>5, <1>6, <1>7, <1>8, <1>9, <1>10, <1>11, OtherThreads DEF Next, Task

(* What Serial says of a regular state, once more, part by part.           *)
Reported == pc = "wait" /\ "FOUND_ADDRESS" \in status => explicit \/ (Clean /\ finding = NoPeer)
Taken == pc = "FOUND_ADDRESS" => explicit \/ (Clean /\ finding = NoPeer)
Unseen == pc \in Steps /\ ~ is_found_dev => "FOUND_ADDRESS" \notin status
Creating ==
  pc = "bt_conn_create_le" => "FOUND_ADDRESS" \notin status /\ finding = NoPeer /\ ~ explicit

(* Serial in these terms, now and after the step.                          *)
LEMMA SerialParts ==
  /\ Serial <=> /\ finding # NoPeer => rx = NULL
                /\ Regular => Reported /\ Taken /\ Unseen /\ Creating
  /\ Serial' <=> /\ finding' # NoPeer => rx' = NULL
                 /\ Regular' => Reported' /\ Taken' /\ Unseen' /\ Creating'
  BY DEF Serial, Reported, Taken, Unseen, Creating

(* The task's own steps do not touch what the receive thread is handling.  *)
LEMMA TaskKeepsRx ==
  ASSUME Task \/ TimedOut
  PROVE  UNCHANGED << rx, finding >>
  BY DEF Task, TimedOut, Notified, FoundAddress, BlockConnected, BlockDiscoveredChar,
     BlockDiscoveredDes, BlockSubscribed, BlockDeviceConfirmed, Restart, DisconnectReturns,
     ScanStart, ScanStarted, CallReturns, ble_app_process, connVars, scanVars

(* When the receive thread reports a device, nothing else is under way.    *)
LEMMA ReportedClean ==
  ASSUME ConnTypeOK, Accounted, Serial, Regular, device_found_notify
  PROVE  Clean' /\ finding' = NoPeer
<1>1. rx = NULL /\ UNCHANGED connVars /\ finding' = NoPeer /\ ~ WorkReady /\ ~ TxReady
  BY DEF device_found_notify, Serial, TxMayRun
<1>2. ASSUME NEW s \in Slots PROVE ~ conns[s].cleanup /\ conns[s].work = "none"
  <2>1. /\ conns[s] \in Conn /\ owned[s] \in Nat /\ held = {} /\ Counted(s) /\ Settled(s)
        /\ rx # s /\ conns[s].ref \in Int
    BY <1>1, SlotFacts DEF Conn
  <2>2. conns[s].work = "none"
    BY <1>1, <2>1 DEF WorkReady
  <2>3. conns[s].cleanup => conns[s].state = "DISCONNECTED" /\ conns[s].ref # 0
    BY <2>1 DEF Counted, Settled, ByState
  <2>4. ~ conns[s].cleanup
    BY <1>1, <2>1, <2>3 DEF TxReady, Dirty
  <2> QED BY <2>2, <2>4
<1> QED BY <1>1, <1>2 DEF Clean, connVars

(* Every step keeps Serial.                                                *)
LEMMA SerialStep ==
  ASSUME IInv, [Next]_vars, Regular' => Regular
  PROVE  Serial'
<1>1. /\ ConnTypeOK /\ TaskTypes /\ Control /\ Serial /\ Accounted
      /\ finding # NoPeer => rx = NULL
      /\ Regular => Reported /\ Taken /\ Unseen /\ Creating
  BY Groups, SerialParts DEF IInv
<1> SUFFICES /\ finding' # NoPeer => rx' = NULL
             /\ Regular' => Reported' /\ Taken' /\ Unseen' /\ Creating'
  BY SerialParts
<1>2. CASE Task /\ Notified
  <2>1. UNCHANGED << rx, finding, conns, explicit >> /\ status' = {} /\ pc = "wait"
        /\ pc' = NextBlock("wait", status)
    BY <1>2 DEF Notified, connVars, scanVars
  <2>2. pc' \in Steps /\ pc' \in status \union {"restart"}
    BY <2>1, NextBlockFacts
  <2>3. pc' = "FOUND_ADDRESS" => "FOUND_ADDRESS" \in status
    BY <2>2
  <2>4. pc' # "wait" /\ pc' # "bt_conn_create_le"
    BY <2>2, Positions, BlockList
  <2>5. Regular' => Taken'
    BY <1>1, <2>1, <2>3 DEF Taken, Reported, Clean
  <2> QED BY <1>1, <2>1, <2>4, <2>5 DEF Reported, Unseen, Creating
<1>3. CASE Task /\ FoundAddress
  <2>1. UNCHANGED << rx, finding, explicit, status, is_found_dev >> /\ pc = "FOUND_ADDRESS"
        /\ undefined = {}
    BY <1>3 DEF Task, FoundAddress, scanVars
  <2>2. ~ is_found_dev
    BY <1>1, <2>1, Searching, BlockList
  <2>3. Regular => "FOUND_ADDRESS" \notin status
    BY <1>1, <2>1, <2>2, BlockList DEF Unseen
  <2>4. CASE pc' = "bt_conn_create_le"
    <3>1. ~ explicit
      <4>1. NextBlock("FOUND_ADDRESS", find_status) # "bt_conn_create_le"
        BY NextBlockFacts, BlockList
      <4> QED BY <1>3, <2>4, <4>1 DEF FoundAddress, bt_conn_create_le, CreateRefused
    <3>2. Regular => finding = NoPeer
      BY <1>1, <2>1, <3>1 DEF Taken
    <3>3. "bt_conn_create_le" \notin Steps
      BY BlockList
    <3> QED BY <1>1, <2>1, <2>3, <2>4, <3>1, <3>2, <3>3 DEF Reported, Taken, Unseen, Creating
  <2>5. CASE pc' = NextBlock("FOUND_ADDRESS", find_status)
    <3>1. pc' \in Steps /\ pc' # "FOUND_ADDRESS"
      BY <2>5, NextBlockFacts, BlockList
    <3>2. pc' # "wait" /\ pc' # "bt_conn_create_le"
      BY <3>1, BlockList
    <3> QED BY <1>1, <2>1, <2>3, <3>1, <3>2 DEF Reported, Taken, Unseen, Creating
  <2> QED BY <1>3, <2>4, <2>5 DEF FoundAddress, bt_conn_create_le
<1>4. CASE Task /\ (BlockConnected \/ BlockDiscoveredChar \/ BlockDiscoveredDes \/ BlockSubscribed)
  <2>1. UNCHANGED << rx, finding, status, is_found_dev >> /\ pc' = NextBlock(pc, find_status)
        /\ pc \in {"CONNECTED", "DISCOVERED_CHAR", "DISCOVERED_DES", "SUBSCRIBED"}
    BY <1>4 DEF BlockConnected, BlockDiscoveredChar, BlockDiscoveredDes, BlockSubscribed,
       connVars, scanVars
  <2>2. pc \in (Steps \ {"restart"}) /\ pc # "wait"
    BY <2>1, BlockList
  <2>3. pc' \in Steps /\ pc' # "FOUND_ADDRESS"
    BY <2>1, <2>2, NextBlockFacts
  <2>4. pc' # "wait" /\ pc' # "bt_conn_create_le"
    BY <2>3, BlockList
  <2> QED BY <1>1, <2>1, <2>2, <2>3, <2>4 DEF Reported, Taken, Unseen, Creating
<1>5. CASE Task /\ (BlockDeviceConfirmed \/ Restart)
  <2>1. UNCHANGED << rx, finding, status >> /\ pc \in {"DEVICE_CONFIRMED", "restart"}
        /\ (is_found_dev' \/ UNCHANGED is_found_dev)
    BY <1>5 DEF BlockDeviceConfirmed, Restart, scanVars
  <2>2. pc' \in {"DEVICE_CONFIRMED", "restart", "scan", EndOfBody} \union Closing
        /\ (pc' = "wait" => ~ is_found_dev)
    BY <1>5 DEF BlockDeviceConfirmed, Restart, CloseConn, Closing, EndOfBody
  <2>3. pc \in Steps
    BY <2>1, BlockList
  <2>4. pc' # "FOUND_ADDRESS" /\ pc' # "bt_conn_create_le"
    BY <2>2 DEF EndOfBody, Closing
  <2> QED BY <1>1, <2>1, <2>2, <2>3, <2>4 DEF Reported, Taken, Unseen, Creating
<1>6. CASE Task /\ DisconnectReturns
  <2>1. UNCHANGED << rx, finding, is_found_dev >> /\ pc' \in {"scan", "restart"}
        /\ (pc' = "restart" => pc = "confirmed: bt_conn_disconnect")
    BY <1>6 DEF DisconnectReturns, scanVars
  <2>2. pc' = "restart" => is_found_dev'
    BY <1>1, <2>1 DEF Control
  <2>3. "scan" \notin Steps
    BY BlockList
  <2> QED BY <1>1, <2>1, <2>2, <2>3 DEF Reported, Taken, Unseen, Creating
<1>7. CASE Task /\ ScanStart
  <2>1. UNCHANGED << rx, finding >> /\ explicit' /\ pc' \in {EndOfBody, "bt_le_scan_start"}
    BY <1>7 DEF ScanStart, connVars
  <2>2. pc' \notin Steps /\ pc' # "bt_conn_create_le"
    BY <2>1, BlockList DEF EndOfBody
  <2> QED BY <1>1, <2>1, <2>2 DEF Reported, Taken, Unseen, Creating
<1>8. CASE Task /\ CallReturns
  <2>1. UNCHANGED << rx, finding, status, explicit, is_found_dev >>
    BY <1>8 DEF CallReturns, connVars, scanVars
  <2>2. CASE pc = "bt_conn_create_le"
    <3>1. pc' = NextBlock("FOUND_ADDRESS", find_status)
      BY <1>8, <2>2 DEF CallReturns
    <3>2. pc' \in Steps /\ pc' # "FOUND_ADDRESS"
      BY <3>1, NextBlockFacts, BlockList
    <3>3. pc' # "wait" /\ pc' # "bt_conn_create_le"
      BY <3>2, BlockList
    <3> QED BY <1>1, <2>1, <2>2, <3>2, <3>3 DEF Reported, Taken, Unseen, Creating
  <2>3. CASE pc # "bt_conn_create_le"
    <3>1. pc' = EndOfBody /\ pc = "bt_le_adv_update_data"
      BY <1>8, <2>3 DEF CallReturns
    <3>2. pc' \notin Steps /\ pc' # "bt_conn_create_le"
      BY <3>1, BlockList DEF EndOfBody
    <3>3. pc' # "wait"
      BY <1>1, <3>1 DEF EndOfBody, Control, AfterSearch
    <3> QED BY <1>1, <2>1, <3>2, <3>3, BlockList DEF Reported, Taken, Unseen, Creating
  <2> QED BY <2>2, <2>3
<1>9. CASE Task /\ ble_app_process
  <2>1. UNCHANGED << rx, finding >> /\ pc' \in AfterSearch
    BY <1>9 DEF ble_app_process, connVars, scanVars, AfterSearch
  <2>2. pc' \notin Steps \union {"wait", "bt_conn_create_le", "FOUND_ADDRESS"}
    BY <2>1, BlockList DEF AfterSearch
  <2> QED BY <1>1, <2>1, <2>2 DEF Reported, Taken, Unseen, Creating
<1>10. CASE TimedOut
  <2>1. UNCHANGED << rx, finding, status >> /\ pc' = "restart" /\ status = {}
    BY <1>10 DEF TimedOut, connVars, scanVars
  <2> QED BY <1>1, <2>1 DEF Reported, Taken, Unseen, Creating
<1>11. CASE Aside
  <2>1. UNCHANGED << pc, is_found_dev, undefined >>
    BY <1>11 DEF Aside, appVars, taskVars
  <2>2. /\ pc \in Calls \union AfterSearch \union {"wait"}
        /\ pc = "wait" /\ status # {} => \E s \in Slots : notify_disconnected(s)
    BY <1>11 DEF Aside, Waiting, Calls, AfterSearch
  <2>3. pc \notin Steps /\ pc # "FOUND_ADDRESS"
    BY <2>2, BlockList DEF Calls, AfterSearch
  <2>4. finding' # NoPeer => rx' = NULL
    <3>1. ASSUME NEW p \in Peers, device_found(p) PROVE rx' = NULL
      BY <3>1 DEF device_found, connVars
    <3>2. device_found_notify => finding' = NoPeer
      BY DEF device_found_notify
    <3> QED BY <1>1, <1>11, <3>1, <3>2 DEF Aside
  <2>5. ASSUME Regular' PROVE Reported' /\ Creating'
    <3>1. Regular /\ Creating
      BY <1>1, <2>5
    <3>2. CASE device_found_notify
      <4>1. Clean' /\ finding' = NoPeer /\ finding # NoPeer
        BY <1>1, <3>1, <3>2, ReportedClean DEF device_found_notify
      <4> QED BY <2>1, <3>1, <4>1 DEF Reported, Creating
    <3>3. ASSUME NEW p \in Peers, device_found(p) PROVE Reported' /\ Creating'
      <4>1. explicit /\ UNCHANGED status /\ (pc = "wait" => status = {})
        BY <3>3 DEF device_found, RxMayRun, TxMayRun, WorkMayRun, Waiting, Calls
      <4> QED BY <2>1, <3>1, <4>1 DEF Reported, Creating
    <3>4. CASE explicit' = explicit /\ finding' = finding
               /\ ("FOUND_ADDRESS" \in status' => "FOUND_ADDRESS" \in status)
      <4>1. pc = "wait" /\ "FOUND_ADDRESS" \in status => explicit
        BY <1>1, <2>2, <3>1 DEF Reported, Clean, notify_disconnected
      <4> QED BY <2>1, <3>1, <3>4, <4>1 DEF Reported, Creating
    <3> QED BY <1>11, <3>2, <3>3, <3>4 DEF Aside
  <2> QED BY <2>1, <2>3, <2>4, <2>5 DEF Taken, Unseen
<1>12. CASE Task /\ ScanStarted
  <2>1. UNCHANGED << rx, finding >> /\ pc' = EndOfBody /\ explicit
    BY <1>1, <1>12 DEF ScanStarted, connVars, Control
  <2>2. pc' \notin Steps /\ pc' # "bt_conn_create_le"
    BY <2>1, BlockList DEF EndOfBody
  <2>3. Regular' => explicit'
    <3>1. scan_errs \in Nat
      BY Groups, ControllerAssumption DEF IInv, ScanTypes
    <3> QED BY <1>12, <2>1, <3>1 DEF ScanStarted, Regular
  <2> QED BY <1>1, <2>1, <2>2, <2>3, BlockList DEF Reported, Taken, Unseen, Creating
<1>13. CASE UNCHANGED vars
  <2>1. UNCHANGED << rx, finding, status, explicit, is_found_dev, pc, conns >>
    BY <1>13 DEF vars, connVars, taskVars, scanVars
  <2> QED BY <1>1, <2>1 DEF Reported, Taken, Unseen, Creating, Clean
<1> QED BY <1>2, <1>3, <1>4, <1>5, <1>6, <1>7, <1>8, <1>9, <1>10, <1>11, <1>12, <1>13,
   OtherThreads DEF Next, Task

-------------------------------------------------------------------------------
(* The controller starts in its scan, with free objects.                   *)
LEMMA InitHolds == Init => IInv
<1> SUFFICES ASSUME Init PROVE IInv
  OBVIOUS
<1>1. NewConn \in Conn
  BY DEF NewConn, Conn, States
<1>2. ConnTypeOK
  BY <1>1, ConnAssumption DEF Init, ConnInit, ConnTypeOK
<1>3. TaskTypes /\ SlotTypes /\ ScanTypes
  BY ControllerAssumption DEF Init, TaskTypes, SlotTypes, ScanTypes, Calls
<1>4. FlagTypes
  BY Zenon DEF Init, FlagTypes
<1>5. Control
  BY DEF Init, Control, AfterSearch, Closing
<1>6. Serial
  BY BlockList DEF Init, ConnInit, Serial
<1>7. Accounted
  <2>1. ASSUME NEW s \in Slots PROVE Counted(s) /\ Settled(s)
    <3>1. conns[s] = NewConn /\ owned[s] = 0 /\ rx # s
      BY ConnAssumption DEF Init, ConnInit, NULL, Slots
    <3> QED BY <3>1 DEF NewConn, Counted, Settled, ByState
  <2> QED BY <2>1 DEF Init, ConnInit, Accounted
<1> QED BY <1>2, <1>3, <1>4, <1>5, <1>6, <1>7, Groups DEF IInv

(* The inductive step.                                                     *)
LEMMA StepHolds == IInv /\ [Next]_vars => IInv'
<1> SUFFICES ASSUME IInv, [Next]_vars PROVE IInv'
  OBVIOUS
<1>1. TypeOK /\ ConnTypeOK /\ TaskTypes /\ FlagTypes /\ SlotTypes /\ ScanTypes /\ Control
  BY Groups DEF IInv
<1>2. ConnTypeOK' /\ StaysOver /\ Accounted'
  BY ObjectsStep DEF ConnSound
<1>3. TypeOK'
  BY <1>1, <1>2, TaskTyped, FlagsTyped, SlotsTyped, ScanTyped, Groups
<1>4. Control'
  BY <1>1, ControlStep
<1>5. holds' = 0 => holds = 0
  <2>1. UNCHANGED holds \/ \E t \in Threads : Hold(t)
    BY DEF Next, Task, TimedOut, Notified, FoundAddress, BlockConnected, BlockDiscoveredChar,
       BlockDiscoveredDes, BlockSubscribed, BlockDeviceConfirmed, Restart, DisconnectReturns,
       ScanStart, ScanStarted, CallReturns, ble_app_process, Receive, device_found_notify, DisconnComplete,
       ClearRef, device_found, check_pending_conn, bl_connected, ConnectFails, Answered, Cleanup,
       Work, RequestsFail, Environment, ReleaseThread, bt_press, HostStep, hci_disconn_complete,
       clear_ref, conn_cleanup, l2cap_disconnected, notify_disconnected, bl_disconnected, LinkLost,
       Release, connVars, vars
  <2> QED BY <1>1, <2>1 DEF Hold, ConnTypeOK
<1>6. undefined' = {} => undefined = {}
  <2>1. CASE Aside
    BY <2>1 DEF Aside, appVars
  <2> QED BY <2>1, OtherThreads DEF Next, Task, vars
<1>7. Serial'
  BY <1>1, <1>2, <1>5, <1>6, ErrsKept, RegularBack, SerialStep
<1> QED BY <1>2, <1>3, <1>4, <1>7 DEF IInv

(* All states of the controller have the inductive invariant.              *)
LEMMA Invariance == Spec => []IInv
  BY InitHolds, StepHolds, PTL DEF Spec

(* The task, its callbacks and the connection objects keep their types,    *)
(* for any number of objects, devices and held threads.                    *)
THEOREM TypeCorrect == Spec => []TypeOK
<1>1. IInv => TypeOK
  BY DEF IInv
<1> QED BY <1>1, Invariance, PTL

(* The search of ble_app_find_device comes to a halt in one way only: when *)
(* the task waits with portMAX_DELAY, the scan is on or its end is about   *)
(* to be reported, however devices answer, vanish and come back, unless    *)
(* the last bt_le_scan_start has failed, whose result the task ignores.    *)
THEOREM SearchNeverStuck == Spec => []NeverStuck
<1>1. IInv => NeverStuck
  BY DEF IInv, Control, NeverStuck
<1> QED BY <1>1, Invariance, PTL

(* conn->ref is what the application, the state and the receive thread     *)
(* account for, in every interleaving of the four threads in which none is *)
(* held, no scan has failed to start and the application has released no   *)
(* reference that it lost.                                                 *)
THEOREM RefsAccounted == Spec => []RefAccounting
<1>1. IInv => RefAccounting
  BY DEF IInv, Accounted, Regular, Counted, ByState, RefAccounting
<1> QED BY <1>1, Invariance, PTL

================================================================================
