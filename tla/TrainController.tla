----------------------------- MODULE TrainController -----------------------------
(***************************************************************************)
(* The remote controller's search for its device (ble_app.c of             *)
(* lego_train_controller) over the connection objects of the BLE host.     *)
(* The callbacks set bits of one task notification; the task takes all     *)
(* bits at once and goes through one block of code per bit.  It has the    *)
(* highest priority, so other threads run only while it waits: for a       *)
(* notification, or inside a call for an HCI command to complete.          *)
(***************************************************************************)
EXTENDS BtConn, Sequences

CONSTANTS
  MaxFinds,     \* bound on the number of devices found
  MaxScanErrs   \* bound on the number of scans that fail to start

ASSUME ControllerAssumption == MaxFinds \in Nat /\ MaxScanErrs \in Nat

VARIABLES
  pc,            \* block the task is in; the ones in Calls wait for a command
  status,        \* bits of the task notification
  find_status,   \* the bits the task is working on
  is_found_dev,
  adv_buf,       \* the advertised motor command, adv_buf[2]
  closing,       \* argument of the bt_conn_disconnect in progress
  timeout,       \* of the next wait: "portMAX_DELAY" or "20 s"
  ble_bl_conn,
  dev_addr,
  explicit,      \* BT_DEV_EXPLICIT_SCAN
  finding,       \* device_found has stopped the scan for this peer
  scan_err,      \* the last bt_le_scan_start failed; the task does not look
  scan_errs,     \* how often it has failed
  wr_hdl, ccc_hdl,   \* handles are known (wr_hdl and rd_hdl together)
  subscription,  \* slot whose peer subscribe_params is in the list for
  requests,      \* GATT requests without an answer
  finds,
  undefined      \* calls made with a NULL connection

gattVars == << wr_hdl, ccc_hdl, subscription, requests >>
scanVars == << dev_addr, explicit, finding, scan_err, scan_errs, finds >>
taskVars == << pc, find_status, timeout >>
vars == << connVars, taskVars, gattVars, scanVars, status, ble_bl_conn,
           is_found_dev, closing, adv_buf, undefined >>

Bits == {"FOUND_ADDRESS", "CONNECTED", "DISCOVERED_CHAR", "DISCOVERED_DES",
         "SUBSCRIBED", "DEVICE_CONFIRMED", "BT_PRESSED"}
Kinds == {"characteristics", "descriptors", "ccc", "scan"}
Calls == {"bt_conn_create_le", "confirmed: bt_conn_disconnect",
          "restart: bt_conn_disconnect", "bt_le_scan_start", "bt_le_adv_update_data"}
Blocks == << "FOUND_ADDRESS", "CONNECTED", "DISCOVERED_CHAR", "DISCOVERED_DES",
             "SUBSCRIBED", "DEVICE_CONFIRMED", "restart" >>

Init ==
  /\ ConnInit
  /\ pc = "bt_le_scan_start"
  /\ status = {}
  /\ find_status = {}
  /\ timeout = "portMAX_DELAY"
  /\ ble_bl_conn = NULL
  /\ dev_addr = NoPeer
  /\ explicit = TRUE
  /\ finding = NoPeer
  /\ scan_err = FALSE
  /\ scan_errs = 0
  /\ wr_hdl = FALSE
  /\ ccc_hdl = FALSE
  /\ subscription = NULL
  /\ requests = {}
  /\ finds = 0
  /\ undefined = {}
  /\ is_found_dev = FALSE
  /\ closing = NULL
  /\ adv_buf = 0

(* The task waits for a notification or a command, so others may run.      *)
Waiting == pc \in Calls \/ (pc \in {"wait", "ble_app_process"} /\ status = {})
WorkMayRun == Waiting /\ undefined = {}
TxMayRun == WorkMayRun /\ ~ WorkReady
RxMayRun == TxMayRun /\ ~ TxReady /\ finding = NoPeer

(* The notification of a callback does not switch to the task at once      *)
(* (xTaskNotifyFromISR, outside an interrupt), so a handler that has       *)
(* notified it may go on.                                                  *)
HandlerMayGoOn == pc \in Calls \union {"wait", "ble_app_process"} /\ undefined = {}

-------------------------------------------------------------------------------
(* The task, ble_app_find_device: the next block whose bit is set.         *)
NextBlock(block, bits) ==
  LET at == CHOOSE i \in 0 .. Len(Blocks) : IF i = 0 THEN block = "wait" ELSE Blocks[i] = block
      rest == {i \in at + 1 .. Len(Blocks) : Blocks[i] \in bits \union {"restart"}}
  IN  Blocks[CHOOSE i \in rest : \A j \in rest : i <= j]

Notified ==
  /\ pc = "wait"
  /\ status # {}
  /\ find_status' = status
  /\ status' = {}
  /\ pc' = NextBlock("wait", status)
  /\ UNCHANGED << connVars, timeout, gattVars, scanVars, adv_buf, ble_bl_conn, is_found_dev, closing, undefined >>

(* bt_conn_create_le: refused during an explicit scan, while the object of *)
(* the peer is being disconnected, or without a free object; otherwise the *)
(* caller has a new reference.                                             *)
CreateRefused ==
  LET known == bt_conn_lookup_addr_le(dev_addr)
  IN  \/ explicit
      \/ known # {} /\ \A s \in known : conns[s].state = "DISCONNECT"
      \/ known = {} /\ FreeSlots = {}

bt_conn_create_le(s) ==
  LET known == bt_conn_lookup_addr_le(dev_addr)
      cs == IF known = {} THEN bt_conn_add_le(s, dev_addr) ELSE bt_conn_ref(conns, s)
  IN  /\ ~ CreateRefused
      /\ IF known = {} THEN s = FirstFree ELSE s \in known /\ \A t \in known : s <= t
      /\ owned' = [owned EXCEPT ![s] = IF @ < 0 THEN @ ELSE @ + 1]
      /\ IF cs[s].state = "DISCONNECTED"
           THEN conns' = bt_conn_set_state(cs, s, "CONNECT_SCAN") /\ pc' = "bt_conn_create_le"
           ELSE conns' = cs /\ pc' = NextBlock("FOUND_ADDRESS", find_status)

FoundAddress ==
  /\ pc = "FOUND_ADDRESS"
  /\ \/ /\ CreateRefused
        /\ timeout' = "portMAX_DELAY"
        /\ pc' = NextBlock("FOUND_ADDRESS", find_status)
        /\ UNCHANGED << conns, owned >>
     \/ /\ \E s \in Slots : bt_conn_create_le(s)
        /\ timeout' = "20 s"
  /\ UNCHANGED << rx, held, holds, find_status, gattVars, scanVars, adv_buf, status,
                  ble_bl_conn, is_found_dev, closing, undefined >>

(* bt_gatt_discover, bt_gatt_subscribe and bt_gatt_write: -ENOTCONN unless *)
(* the object is in state CONNECTED.                                       *)
CanSend == ble_bl_conn # NULL /\ conns[ble_bl_conn].state = "CONNECTED"
Send(kind) == requests' = requests \union {[slot |-> ble_bl_conn, kind |-> kind]}
GiveUp == timeout' = "portMAX_DELAY" /\ UNCHANGED requests

(* Code that uses ble_bl_conn without a test: with NULL anything may       *)
(* happen, and the model stops.                                            *)
UsesConn(call) == undefined' = IF ble_bl_conn = NULL THEN {call} ELSE {}

(* ble_discover after CONNECTED: the handles of the last device are        *)
(* forgotten.                                                              *)
BlockConnected ==
  /\ pc = "CONNECTED"
  /\ pc' = NextBlock("CONNECTED", find_status)
  /\ wr_hdl' = FALSE
  /\ ccc_hdl' = FALSE
  /\ IF CanSend THEN Send("characteristics") /\ UNCHANGED timeout ELSE GiveUp
  /\ UNCHANGED << connVars, find_status, subscription, scanVars, adv_buf, status, ble_bl_conn, is_found_dev, closing, undefined >>

BlockDiscoveredChar ==
  /\ pc = "DISCOVERED_CHAR"
  /\ pc' = NextBlock("DISCOVERED_CHAR", find_status)
  /\ IF wr_hdl /\ CanSend THEN Send("descriptors") /\ UNCHANGED timeout ELSE GiveUp
  /\ UNCHANGED << connVars, find_status, wr_hdl, ccc_hdl, subscription, scanVars, adv_buf, status,
                  ble_bl_conn, is_found_dev, closing, undefined >>

(* ble_subscribe: subscribe_params is in the list at most once.            *)
BlockDiscoveredDes ==
  /\ pc = "DISCOVERED_DES"
  /\ pc' = NextBlock("DISCOVERED_DES", find_status)
  /\ IF ccc_hdl /\ CanSend /\ subscription = NULL
       THEN Send("ccc") /\ subscription' = ble_bl_conn /\ UNCHANGED timeout
       ELSE GiveUp /\ UNCHANGED subscription
  /\ UNCHANGED << connVars, find_status, wr_hdl, ccc_hdl, scanVars, adv_buf, status, ble_bl_conn, is_found_dev, closing, undefined >>

(* The one GATT call without a test of ble_bl_conn.                        *)
BlockSubscribed ==
  /\ pc = "SUBSCRIBED"
  /\ pc' = NextBlock("SUBSCRIBED", find_status)
  /\ UsesConn("bt_gatt_write")
  /\ IF CanSend THEN Send("scan") /\ UNCHANGED timeout ELSE GiveUp
  /\ UNCHANGED << connVars, find_status, is_found_dev, closing, wr_hdl, ccc_hdl, subscription,
                  scanVars, adv_buf, status, ble_bl_conn >>

(* bt_conn_disconnect and bt_conn_unref.  A connection is ended by a       *)
(* command, for which the task waits; an attempt to connect ends at once.  *)
CloseConn(call, next) ==
  LET s == ble_bl_conn
  IN  IF conns[s].state = "CONNECTED"
        THEN pc' = call /\ UNCHANGED << conns, owned >>
        ELSE /\ pc' = next
             /\ owned' = [owned EXCEPT ![s] = @ - 1]
             /\ conns' = bt_conn_unref(
                           IF conns[s].state = "CONNECT_SCAN"
                             THEN bt_conn_set_state(conns, s, "DISCONNECTED") ELSE conns, s)

BlockDeviceConfirmed ==
  /\ pc = "DEVICE_CONFIRMED"
  /\ is_found_dev' = TRUE
  /\ UsesConn("bt_conn_disconnect")
  /\ IF ble_bl_conn = NULL THEN UNCHANGED << pc, conns, owned >>
     ELSE CloseConn("confirmed: bt_conn_disconnect", "restart")
  /\ closing' = ble_bl_conn
  /\ UNCHANGED << rx, held, holds, find_status, timeout, gattVars, scanVars, adv_buf, status, ble_bl_conn >>

(* The end of the loop body: with timeout == portMAX_DELAY the search      *)
(* starts over.  find_status is not read again before it is set.           *)
EndOfBody == IF is_found_dev THEN "ble_app_process" ELSE "wait"

(* Mutant: the scan starts again only when a connection was closed.        *)
Restart_OnlyConnected ==
  /\ pc = "restart"
  /\ IF timeout = "20 s" \/ ble_bl_conn = NULL
       THEN pc' = EndOfBody /\ UNCHANGED << conns, owned, closing >>
       ELSE CloseConn("restart: bt_conn_disconnect", "scan") /\ closing' = ble_bl_conn
  /\ find_status' = {}
  /\ UNCHANGED << rx, held, holds, timeout, is_found_dev, gattVars, scanVars,
                  adv_buf, status, ble_bl_conn, undefined >>

Restart ==
  /\ pc = "restart"
  /\ IF timeout = "20 s" THEN pc' = EndOfBody /\ UNCHANGED << conns, owned, closing >>
     ELSE IF ble_bl_conn = NULL THEN pc' = "scan" /\ UNCHANGED << conns, owned, closing >>
     ELSE CloseConn("restart: bt_conn_disconnect", "scan") /\ closing' = ble_bl_conn
  /\ find_status' = {}
  /\ UNCHANGED << rx, held, holds, timeout, is_found_dev, gattVars, scanVars,
                  adv_buf, status, ble_bl_conn, undefined >>

(* The command has completed: with an error if the link is already down.   *)
(* bt_conn_unref is then called with what ble_bl_conn is by now.           *)
DisconnectReturns ==
  /\ pc \in {"confirmed: bt_conn_disconnect", "restart: bt_conn_disconnect"}
  /\ UsesConn("bt_conn_unref")
  /\ LET cs == IF conns[closing].link # "up" THEN conns
               ELSE bt_conn_set_state([conns EXCEPT ![closing].link = "down"], closing, "DISCONNECT")
     IN  IF ble_bl_conn = NULL THEN conns' = cs /\ UNCHANGED owned
         ELSE /\ conns' = bt_conn_unref(cs, ble_bl_conn)
              /\ owned' = [owned EXCEPT ![ble_bl_conn] = @ - 1]
  /\ pc' = IF pc = "restart: bt_conn_disconnect" THEN "scan" ELSE "restart"
  /\ closing' = NULL
  /\ UNCHANGED << rx, held, holds, find_status, timeout, is_found_dev, gattVars,
                  scanVars, adv_buf, status, ble_bl_conn >>

(* bt_le_scan_start: -EALREADY, or commands to wait for ...                *)
ScanStart ==
  /\ pc = "scan"
  /\ explicit' = TRUE
  /\ pc' = IF explicit THEN EndOfBody ELSE "bt_le_scan_start"
  /\ UNCHANGED << connVars, find_status, timeout, is_found_dev, closing, gattVars, dev_addr,
                  finding, scan_err, scan_errs, finds, adv_buf, status, ble_bl_conn, undefined >>

(* ... one of which may fail: BT_DEV_EXPLICIT_SCAN is cleared again, and   *)
(* the task goes on as if the scan were on.                                *)
ScanStarted ==
  /\ pc = "bt_le_scan_start"
  /\ pc' = EndOfBody
  /\ \/ scan_err' = FALSE /\ UNCHANGED << explicit, scan_errs >>
     \/ /\ scan_errs < MaxScanErrs
        /\ scan_errs' = scan_errs + 1
        /\ scan_err' = TRUE
        /\ explicit' = FALSE
  /\ UNCHANGED << connVars, find_status, timeout, is_found_dev, closing, gattVars, dev_addr,
                  finding, finds, adv_buf, status, ble_bl_conn, undefined >>

(* The commands of bt_conn_create_le and bt_le_adv_update_data complete.   *)
CallReturns ==
  /\ pc \in {"bt_conn_create_le", "bt_le_adv_update_data"}
  /\ pc' = IF pc = "bt_conn_create_le" THEN NextBlock("FOUND_ADDRESS", find_status)
           ELSE EndOfBody
  /\ UNCHANGED << connVars, find_status, timeout, is_found_dev, closing, gattVars, scanVars,
                  adv_buf, status, ble_bl_conn, undefined >>

(* Mutant: the task takes a timeout for a reason to wait on.               *)
TimedOut_WaitsOn ==
  /\ pc = "wait"
  /\ status = {}
  /\ timeout = "20 s"
  /\ pc' = "restart"
  /\ UNCHANGED << connVars, find_status, timeout, is_found_dev, closing, gattVars, scanVars,
                  adv_buf, status, ble_bl_conn, undefined >>

TimedOut ==
  /\ pc = "wait"
  /\ status = {}
  /\ timeout = "20 s"
  /\ timeout' = "portMAX_DELAY"
  /\ pc' = "restart"
  /\ UNCHANGED << connVars, find_status, is_found_dev, closing, gattVars, scanVars, adv_buf, status,
                  ble_bl_conn, undefined >>

(* Mutant: the second bit replaces the first.                              *)
NextCommand_Replaces(b) == CASE b = 0 -> 1 [] b = 1 -> 2 [] OTHER -> 0

(* The bits of the motor command, one after the other.                     *)
NextCommand(b) == CASE b = 0 -> 1 [] b = 1 -> 3 [] OTHER -> 0

(* ble_app_process: the button goes round three motor commands.            *)
ble_app_process ==
  /\ pc = "ble_app_process"
  /\ status # {}
  /\ status' = {}
  /\ IF "BT_PRESSED" \in status
       THEN /\ adv_buf' = NextCommand(adv_buf)
            /\ pc' = "bt_le_adv_update_data"
       ELSE UNCHANGED << adv_buf, pc >>
  /\ UNCHANGED << connVars, find_status, timeout, is_found_dev, closing, gattVars, scanVars,
                  ble_bl_conn, undefined >>

Task ==
  /\ undefined = {}
  /\ \/ Notified \/ FoundAddress \/ BlockConnected \/ BlockDiscoveredChar
     \/ BlockDiscoveredDes \/ BlockSubscribed \/ BlockDeviceConfirmed \/ Restart
     \/ DisconnectReturns \/ ScanStart \/ ScanStarted \/ CallReturns \/ ble_app_process

-------------------------------------------------------------------------------
(* The receive thread. *)
appVars == << taskVars, is_found_dev, closing, adv_buf, undefined >>

(* device_found: bt_le_scan_stop, which waits for a command ...            *)
device_found(p) ==
  /\ RxMayRun
  /\ rx = NULL
  /\ explicit
  /\ pc # "bt_le_scan_start"
  /\ finds < MaxFinds
  /\ finds' = finds + 1
  /\ explicit' = FALSE
  /\ finding' = p
  /\ UNCHANGED << connVars, appVars, gattVars, dev_addr, scan_err, scan_errs, status, ble_bl_conn >>

(* ... and then the notification.                                          *)
device_found_notify ==
  /\ TxMayRun /\ ~ TxReady
  /\ finding # NoPeer
  /\ dev_addr' = finding
  /\ finding' = NoPeer
  /\ status' = status \union {"FOUND_ADDRESS"}
  /\ UNCHANGED << connVars, appVars, gattVars, explicit, scan_err, scan_errs, finds, ble_bl_conn >>

(* check_pending_conn: the peer's advertisement arrives in the scan that   *)
(* bt_le_scan_update keeps up while no connection is being made.           *)
check_pending_conn(s) ==
  /\ RxMayRun
  /\ rx = NULL
  /\ ~ explicit
  /\ \A t \in Slots : conns[t].state # "CONNECT"
  /\ conns[s].state = "CONNECT_SCAN"
  /\ conns[s].ref # 0
  /\ conns' = bt_conn_set_state(conns, s, "CONNECT")
  /\ UNCHANGED << rx, owned, held, holds, appVars, gattVars, scanVars, status, ble_bl_conn >>

(* enh_conn_complete: connected, with bl_connected ...                     *)
bl_connected(s) ==
  /\ RxMayRun
  /\ rx = NULL
  /\ conns[s].state = "CONNECT"
  /\ conns[s].ref # 0
  /\ conns' = bt_conn_set_state([conns EXCEPT ![s].link = "up"], s, "CONNECTED")
  /\ ble_bl_conn' = s
  /\ status' = status \union {"CONNECTED"}
  /\ UNCHANGED << rx, owned, held, holds, appVars, gattVars, scanVars >>

(* ... or cancelled after CONN_TIMEOUT: bl_connected does nothing with an  *)
(* error.                                                                  *)
ConnectFails(s) ==
  /\ RxMayRun
  /\ rx = NULL
  /\ conns[s].state = "CONNECT"
  /\ conns[s].ref # 0
  /\ conns' = bt_conn_set_state(conns, s, "DISCONNECTED")
  /\ UNCHANGED << rx, owned, held, holds, appVars, gattVars, scanVars, status, ble_bl_conn >>

(* A GATT request is answered.  ble_discover_func tells by ccc_hdl which   *)
(* discovery has ended.                                                    *)
Discovered(known) == IF known THEN "DISCOVERED_DES" ELSE "DISCOVERED_CHAR"

Answered(r) ==
  /\ RxMayRun
  /\ rx = NULL
  /\ r \in requests
  /\ conns[r.slot].link = "up"
  /\ requests' = requests \ {r}
  /\ \/ /\ r.kind = "characteristics"
        /\ wr_hdl' \in BOOLEAN
        /\ status' = status \union {Discovered(ccc_hdl)}
        /\ UNCHANGED ccc_hdl
     \/ /\ r.kind = "descriptors"
        /\ ccc_hdl' = TRUE
        /\ status' = status \union {Discovered(TRUE)}
        /\ UNCHANGED wr_hdl
     \/ /\ r.kind = "ccc"
        /\ status' = status \union {"SUBSCRIBED"}
        /\ UNCHANGED << wr_hdl, ccc_hdl >>
     \/ /\ r.kind = "scan"
        /\ status' = status \union {"DEVICE_CONFIRMED"}
        /\ UNCHANGED << wr_hdl, ccc_hdl >>
  /\ UNCHANGED << connVars, appVars, subscription, scanVars, ble_bl_conn >>

HostStep(A) ==
  /\ A
  /\ UNCHANGED << appVars, gattVars, scanVars, status, ble_bl_conn >>

DisconnComplete == RxMayRun /\ HostStep(\E s \in Slots : hci_disconn_complete(s))
ClearRef == RxMayRun /\ HostStep(clear_ref)

(* The transmit thread. *)
Cleanup == TxMayRun /\ HostStep(\E s \in Slots : conn_cleanup(s))

(* The work queue.  The requests of the connection fail: a discovery ends  *)
(* as if it were complete, and the failed write of the CCC is reported     *)
(* with value still 1, as if it had succeeded.                             *)
RequestsFail(s) ==
  /\ WorkMayRun
  /\ l2cap_disconnected(s)
  /\ LET kinds == {r.kind : r \in {q \in requests : q.slot = s}}
     IN  IF conns[s].state # "DISCONNECTED" THEN UNCHANGED << status, requests, subscription >>
         ELSE /\ status' = status
                    \union (IF kinds \intersect {"characteristics", "descriptors"} # {}
                              THEN {Discovered(ccc_hdl)} ELSE {})
                    \union (IF "ccc" \in kinds THEN {"SUBSCRIBED"} ELSE {})
              /\ requests' = {r \in requests : r.slot # s}
              /\ subscription' = IF subscription = s THEN NULL ELSE subscription
  /\ UNCHANGED << appVars, wr_hdl, ccc_hdl, scanVars, ble_bl_conn >>

(* Mutant: the callback leaves the connection in place.                    *)
bl_disconnected_Keeps(s) ==
  /\ HandlerMayGoOn
  /\ notify_disconnected(s)
  /\ UNCHANGED << appVars, gattVars, scanVars, status, ble_bl_conn >>

bl_disconnected(s) ==
  /\ HandlerMayGoOn
  /\ notify_disconnected(s)
  /\ ble_bl_conn' = NULL
  /\ UNCHANGED << appVars, gattVars, scanVars, status >>

(* The interrupt of the button, enabled by ble_app_process.                *)
bt_press ==
  /\ pc \in {"ble_app_process", "bt_le_adv_update_data"}
  /\ status' = status \union {"BT_PRESSED"}
  /\ UNCHANGED << connVars, appVars, gattVars, scanVars, ble_bl_conn >>

(* What happens outside the task's view happens, for it, while it waits.   *)
Environment ==
  /\ Waiting
  /\ HostStep(\/ \E s \in Slots : LinkLost(s)
              \/ \E t \in Threads : Hold(t))
ReleaseThread == Waiting /\ HostStep(\E t \in Threads : Release(t))

-------------------------------------------------------------------------------
Receive ==
  \/ device_found_notify \/ DisconnComplete \/ ClearRef
  \/ \E p \in Peers : device_found(p)
  \/ \E s \in Slots : check_pending_conn(s) \/ bl_connected(s) \/ ConnectFails(s)
  \/ \E r \in requests : Answered(r)

Work == \E s \in Slots : RequestsFail(s) \/ bl_disconnected(s)

Next == Task \/ (TimedOut /\ undefined = {}) \/ Receive \/ Cleanup \/ Work \/ Environment
        \/ ReleaseThread \/ bt_press

Fairness ==
  /\ WF_vars(Task)
  /\ WF_vars(TimedOut /\ undefined = {})
  /\ WF_vars(DisconnComplete)
  /\ WF_vars(ClearRef)
  /\ WF_vars(device_found_notify)
  /\ WF_vars(Cleanup)
  /\ WF_vars(Work)
  /\ WF_vars(ReleaseThread)

Spec == Init /\ [][Next]_vars
FairSpec == Spec /\ Fairness

-------------------------------------------------------------------------------
(* Type invariant of the task, its callbacks and the connection objects.   *)
TypeOK ==
  /\ ConnTypeOK
  /\ pc \in {Blocks[i] : i \in 1 .. Len(Blocks)} \union Calls \union {"wait", "scan", "ble_app_process"}
  /\ status \subseteq Bits /\ find_status \subseteq Bits
  /\ timeout \in {"portMAX_DELAY", "20 s"}
  /\ is_found_dev \in BOOLEAN /\ adv_buf \in {0, 1, 3}
  /\ {ble_bl_conn, closing, subscription} \subseteq Slots \union {NULL}
  /\ {dev_addr, finding} \subseteq Peers \union {NoPeer}
  /\ explicit \in BOOLEAN /\ scan_err \in BOOLEAN /\ wr_hdl \in BOOLEAN /\ ccc_hdl \in BOOLEAN
  /\ requests \subseteq [slot: Slots, kind: Kinds]
  /\ finds \in 0 .. MaxFinds /\ scan_errs \in 0 .. MaxScanErrs
  /\ undefined \subseteq {"bt_gatt_write", "bt_conn_disconnect", "bt_conn_unref"}

(* The search never comes to a halt: when the task waits without a timeout *)
(* the scan is on or about to be, or a device has been found.  The         *)
(* exception is real: a bt_le_scan_start that fails clears                 *)
(* BT_DEV_EXPLICIT_SCAN and its result is ignored (ble_app.c, end of the   *)
(* loop body), so the task waits for devices that nobody looks for.        *)
NeverStuck ==
  pc = "wait" /\ timeout = "portMAX_DELAY" /\ status = {} =>
    explicit \/ finding # NoPeer \/ scan_err

(* The count of every object is what its holders account for: the          *)
(* application, the state (until the work queue has reported its end) and  *)
(* the receive thread.  It holds until a thread is held, the application   *)
(* releases what it does not have, or a scan fails to start: the task then *)
(* acts on a FOUND_ADDRESS that a running scan would have made it refuse,  *)
(* and takes an object whose end is still being handled.                   *)
RefAccounting ==
  holds = 0 /\ scan_errs = 0 /\ ~ OverReleased /\ undefined = {} =>
    \A s \in Slots :
      LET byState == conns[s].state # "DISCONNECTED" \/ conns[s].cleanup \/ conns[s].work # "none"
      IN  conns[s].ref = owned[s] + (IF byState THEN 1 ELSE 0) + (IF rx = s THEN 1 ELSE 0)

(* Whatever devices do, the controller comes back to its scan, or has      *)
(* found its device, or its last attempt to start the scan has failed.     *)
SearchGoesOn == []<>(explicit \/ is_found_dev \/ scan_err \/ undefined # {})

(* The end of the link that the application uses reaches the application   *)
(* through three threads, unless one of them was held, a scan has failed   *)
(* to start (see RefAccounting), or the application had given the object   *)
(* away or ended its search.                                               *)
DisconnectionReported ==
  \A s \in Slots :
    (ble_bl_conn = s /\ conns[s].link # "up")
      ~> (ble_bl_conn # s \/ conns[s].link = "up" \/ OverReleased \/ undefined # {}
          \/ is_found_dev \/ holds > 0 \/ scan_errs > 0)

(* bt_gatt_write asserts that it is called with a connection.              *)
WriteHasConn == "bt_gatt_write" \notin undefined
===============================================================================
