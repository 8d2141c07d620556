--------------------------------- MODULE BtConn ---------------------------------
(***************************************************************************)
(* The connection objects of the BLE host (conn.c, hci_core.c): a fixed    *)
(* array of reference-counted slots that four threads work on.  A link     *)
(* that ends is handled in three of them: the receive thread marks the     *)
(* object disconnected, the transmit thread cleans it up, the work queue   *)
(* reports it to the application.  Of two threads that can run, FreeRTOS    *)
(* runs the one of higher priority: application, work queue, transmit,     *)
(* receive.  A thread is held while it waits for something else: the       *)
(* transmit thread for a command credit, the work queue for a callback     *)
(* that waits for a command.                                               *)
(***************************************************************************)
EXTENDS Integers, FiniteSets

CONSTANTS
  MaxConn,    \* CONFIG_BT_MAX_CONN, the number of connection objects
  Peers,      \* devices whose name matches
  MaxHolds    \* bound on how often a thread is held

NULL == 0
NoPeer == "no peer"

ASSUME ConnAssumption ==
  MaxConn \in Nat \ {0} /\ MaxHolds \in Nat /\ NoPeer \notin Peers

VARIABLES
  conns,
  rx,         \* slot whose disconnection the receive thread has begun to handle, or 0
  owned,      \* references the application holds
  held,       \* threads that wait for something else
  holds

connVars == << conns, rx, owned, held, holds >>

Slots == 1 .. MaxConn
States == {"DISCONNECTED", "CONNECT_SCAN", "CONNECT", "CONNECTED", "DISCONNECT"}
Threads == {"tx", "work"}

(* struct bt_conn.  link is the controller's side: up, down with the event *)
(* still to be handled, or none.  work is conn_update_timeout: submitted,  *)
(* or reporting between its two callbacks.                                 *)
Conn ==
  [ref: Int, state: States, peer: Peers \union {NoPeer}, cleanup: BOOLEAN,
   work: {"none", "submitted", "reporting"}, link: {"none", "up", "down"}]

ConnTypeOK ==
  /\ conns \in [Slots -> Conn]
  /\ rx \in Slots \union {NULL}
  /\ owned \in [Slots -> Int]
  /\ held \subseteq Threads
  /\ holds \in 0 .. MaxHolds

NewConn ==
  [ref |-> 0, state |-> "DISCONNECTED", peer |-> NoPeer, cleanup |-> FALSE,
   work |-> "none", link |-> "none"]

ConnInit ==
  /\ conns = [s \in Slots |-> NewConn]
  /\ rx = NULL
  /\ owned = [s \in Slots |-> 0]
  /\ held = {}
  /\ holds = 0

-------------------------------------------------------------------------------
bt_conn_ref(cs, s) == [cs EXCEPT ![s].ref = @ + 1]
bt_conn_unref(cs, s) == [cs EXCEPT ![s].ref = @ - 1]

(* The first object without references; an object with a negative count is *)
(* never found again.                                                      *)
FreeSlots == {s \in Slots : conns[s].ref = 0}
FirstFree == CHOOSE s \in FreeSlots : \A t \in FreeSlots : s <= t

(* conn_new and bt_conn_add_le: memset and k_work_init, so that an entry   *)
(* that waits in the work queue is skipped; a handler that has begun goes  *)
(* on.                                                                     *)
bt_conn_add_le(s, p) ==
  [conns EXCEPT ![s] =
     [NewConn EXCEPT !.ref = 1, !.peer = p,
                     !.work = IF conns[s].work = "reporting" THEN "reporting" ELSE "none"]]

(* Mutant: only an attempt that still scans gives its reference back.      *)
bt_conn_set_state_Leaks(cs, s, state) ==
  LET old == cs[s].state
      taken == IF old = "DISCONNECTED" THEN 1 ELSE 0
      given == IF state = "DISCONNECTED" /\ old = "CONNECT_SCAN" THEN 1 ELSE 0
      wasUp == state = "DISCONNECTED" /\ old \in {"CONNECTED", "DISCONNECT"}
  IN  IF old = state THEN cs
      ELSE [cs EXCEPT ![s].state = state,
                      ![s].ref = @ + taken - given,
                      ![s].cleanup = @ \/ wasUp]

(* Leaving DISCONNECTED takes a reference.  A connection attempt that ends *)
(* gives it back here, a connection in the work queue.                     *)
bt_conn_set_state(cs, s, state) ==
  LET old == cs[s].state
      taken == IF old = "DISCONNECTED" THEN 1 ELSE 0
      given == IF state = "DISCONNECTED" /\ old \in {"CONNECT_SCAN", "CONNECT"} THEN 1 ELSE 0
      wasUp == state = "DISCONNECTED" /\ old \in {"CONNECTED", "DISCONNECT"}
  IN  IF old = state THEN cs
      ELSE [cs EXCEPT ![s].state = state,
                      ![s].ref = @ + taken - given,
                      ![s].cleanup = @ \/ wasUp]

bt_conn_lookup_addr_le(p) == {s \in Slots : conns[s].ref # 0 /\ conns[s].peer = p}

-------------------------------------------------------------------------------
(* Work that a thread would do at once if it were not held.                *)
Dirty(s) == conns[s].cleanup /\ conns[s].ref # 0 /\ conns[s].state = "DISCONNECTED"
TxReady == "tx" \notin held /\ \E s \in Slots : Dirty(s)
WorkReady == "work" \notin held /\ \E s \in Slots : conns[s].work # "none"

(* hci_disconn_complete in the receive thread: an object without           *)
(* references is not found ...                                             *)
hci_disconn_complete(s) ==
  /\ rx = NULL
  /\ conns[s].link = "down"
  /\ IF conns[s].ref # 0 /\ conns[s].state \in {"CONNECTED", "DISCONNECT"}
       THEN /\ conns' = bt_conn_set_state(
                          bt_conn_ref([conns EXCEPT ![s].link = "none"], s), s, "DISCONNECTED")
            /\ rx' = s
       ELSE /\ conns' = [conns EXCEPT ![s].link = "none"]
            /\ rx' = rx
  /\ UNCHANGED << owned, held, holds >>

(* ... and what it does once the threads it has woken have run, or are     *)
(* held: bt_conn_unref and atomic_clear(&conn->ref), which takes away the  *)
(* application's reference too.                                            *)
clear_ref ==
  /\ rx # NULL
  /\ conns' = [conns EXCEPT ![rx].ref = 0]
  /\ owned' = [owned EXCEPT ![rx] = IF @ > 0 THEN 0 ELSE @]
  /\ rx' = NULL
  /\ UNCHANGED << held, holds >>

(* bt_conn_prepare_events and conn_cleanup in the transmit thread.         *)
conn_cleanup(s) ==
  /\ "tx" \notin held
  /\ Dirty(s)
  /\ conns' = [conns EXCEPT ![s].cleanup = FALSE, ![s].work = "submitted"]
  /\ UNCHANGED << rx, owned, held, holds >>

(* conn_update_timeout in the work queue: bt_l2cap_disconnected, then      *)
(* notify_disconnected and bt_conn_unref.  An object in use again is left  *)
(* alone but for a cancelled connection attempt (ConnectFails).            *)
l2cap_disconnected(s) ==
  /\ "work" \notin held
  /\ conns[s].work = "submitted"
  /\ conns' = [conns EXCEPT ![s].work =
                 IF conns[s].state = "DISCONNECTED" THEN "reporting" ELSE "none"]
  /\ UNCHANGED << rx, owned, held, holds >>

notify_disconnected(s) ==
  /\ "work" \notin held
  /\ conns[s].work = "reporting"
  /\ conns' = [conns EXCEPT ![s].work = "none", ![s].ref = @ - 1]
  /\ UNCHANGED << rx, owned, held, holds >>

(* A thread begins and ends to wait for something else.                    *)
Hold(t) ==
  /\ t \notin held
  /\ holds < MaxHolds
  /\ holds' = holds + 1
  /\ held' = held \union {t}
  /\ UNCHANGED << conns, rx, owned >>

Release(t) ==
  /\ t \in held
  /\ held' = held \ {t}
  /\ UNCHANGED << conns, rx, owned, holds >>

(* The controller loses a link.                                            *)
LinkLost(s) ==
  /\ conns[s].link = "up"
  /\ conns' = [conns EXCEPT ![s].link = "down"]
  /\ UNCHANGED << rx, owned, held, holds >>

(* The application has released a reference that it did not have.          *)
OverReleased == \E s \in Slots : owned[s] < 0
===============================================================================
