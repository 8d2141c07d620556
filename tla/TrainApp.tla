-------------------------------- MODULE TrainApp --------------------------------
(***************************************************************************)
(* The train's firmware (ble_app.c of lego_train) over the connection      *)
(* objects of the BLE host: advertising, the connection of the phone or of *)
(* the controller, the request to jump to the bootloader.  Three threads   *)
(* start and stop the advertising: the main task when a day count is       *)
(* reached, the work queue in bl_disconnected, the receive thread when a   *)
(* connection begins or ends (BT_DEV_KEEP_ADVERTISING).  Each does so by   *)
(* HCI commands that it waits for, so their sequences interleave.  The     *)
(* controller (m0s1p) has one link and refuses to advertise while it is up.*)
(***************************************************************************)
EXTENDS BtConn

CONSTANT ADV_1S_DURATION   \* waits of ble_app_process before it advertises more slowly

ASSUME TrainAssumption == ADV_1S_DURATION \in Nat \ {0}

VARIABLES
  running,      \* the application runs (the bootloader otherwise)
  pc,           \* main task: "wait" for rx_sem, or "delay" before the reset
  rx_sem, is_jump_bootloader, adv_duration, is_adv_2s,
  ble_bl_conn,
  call,         \* the advertising command each thread waits for
  ADVERTISING, KEEP_ADVERTISING,   \* bits of bt_dev.flags
  adv, param,   \* controller: interval it advertises at, interval it was given
  incoming,     \* connection the host has not been told of yet
  stray,        \* link of a connection that got no object
  connecting    \* object whose connection the receive thread is setting up

appVars == << pc, rx_sem, is_jump_bootloader, adv_duration, is_adv_2s, ble_bl_conn >>
advVars == << call, ADVERTISING, KEEP_ADVERTISING, adv, param >>
linkVars == << incoming, stray, connecting >>
vars == << connVars, running, appVars, advVars, linkVars >>

Callers == {"main", "work", "rx"}
Links == {"none", "up", "down"}

(* The controller has no link.                                             *)
NoLink == incoming # "up" /\ stray # "up" /\ \A s \in Slots : conns[s].link # "up"

(* main, ble_app_init and bt_enable_cb: the advertising is started from    *)
(* the work queue.                                                         *)
EnableCallback == [t \in Callers |-> IF t = "work" THEN "param" ELSE "none"]

Init ==
  /\ ConnInit
  /\ running = TRUE
  /\ pc = "wait"
  /\ rx_sem = FALSE /\ is_jump_bootloader = FALSE
  /\ adv_duration = 0 /\ is_adv_2s = FALSE
  /\ ble_bl_conn = NULL /\ connecting = NULL
  /\ call = EnableCallback
  /\ ADVERTISING = FALSE /\ KEEP_ADVERTISING = FALSE
  /\ adv = "off" /\ param = "1s"
  /\ incoming = "none" /\ stray = "none"

-------------------------------------------------------------------------------
(* Of two threads that can run the one of higher priority does; a command   *)
(* is answered before a lower thread runs, unless its thread is held.  The *)
(* main task's commands may take any time.                                 *)
WorkBusy == "work" \notin held /\ call["work"] # "none"
TxMayRun == running /\ ~ WorkReady /\ ~ WorkBusy
RxMayRun == TxMayRun /\ ~ TxReady /\ call["rx"] = "none"

(* bt_le_adv_stop and bt_le_adv_start: what the caller waits for first.    *)
StopThenStart(t) ==
  /\ KEEP_ADVERTISING' = FALSE
  /\ call' = [call EXCEPT ![t] = IF ADVERTISING THEN "disable" ELSE "param"]
  /\ UNCHANGED << ADVERTISING, adv, param >>

(* The caller is done.  The work queue has been in notify_disconnected, or *)
(* in bt_enable_cb; it goes on to release the reference of the connection. *)
Returned(t) ==
  /\ call' = [call EXCEPT ![t] = "none"]
  /\ IF t = "work" /\ \E s \in Slots : conns[s].work = "reporting"
       THEN conns' = [s \in Slots |-> IF conns[s].work = "reporting"
                                        THEN [conns[s] EXCEPT !.work = "none", !.ref = @ - 1]
                                        ELSE conns[s]]
       ELSE UNCHANGED conns

Interval(t) == IF t = "main" THEN "2s" ELSE "1s"

(* The controller answers: the parameters cannot be changed while it       *)
(* advertises, advertising cannot begin while the link is up.  Only        *)
(* bt_le_adv_start, not the receive thread's restart, sets                 *)
(* BT_DEV_KEEP_ADVERTISING.                                                *)
Disabled(t) ==
  /\ call[t] = "disable"
  /\ adv' = "off"
  /\ ADVERTISING' = FALSE
  /\ call' = [call EXCEPT ![t] = "param"]
  /\ UNCHANGED << conns, KEEP_ADVERTISING, param >>

ParamSet(t) ==
  /\ call[t] = "param"
  /\ IF adv = "off"
       THEN /\ param' = Interval(t)
            /\ call' = [call EXCEPT ![t] = "enable"]
            /\ UNCHANGED conns
       ELSE Returned(t) /\ UNCHANGED param
  /\ UNCHANGED << ADVERTISING, KEEP_ADVERTISING, adv >>

Enabled(t) ==
  /\ call[t] = "enable"
  /\ Returned(t)
  /\ IF NoLink
       THEN /\ adv' = param
            /\ ADVERTISING' = TRUE
            /\ KEEP_ADVERTISING' = IF t = "rx" THEN KEEP_ADVERTISING ELSE TRUE
       ELSE UNCHANGED << adv, ADVERTISING, KEEP_ADVERTISING >>
  /\ UNCHANGED param

Answered(t) ==
  /\ running
  /\ t \notin held
  /\ Disabled(t) \/ ParamSet(t) \/ Enabled(t)
  /\ UNCHANGED << rx, owned, held, holds, running, appVars, linkVars >>

-------------------------------------------------------------------------------
(* Mutant: the count is compared with > .                                  *)
WaitTimeout_Greater ==
  /\ running /\ pc = "wait" /\ call["main"] = "none" /\ ~ rx_sem
  /\ \/ is_adv_2s /\ UNCHANGED << adv_duration, is_adv_2s, advVars >>
     \/ /\ ~ is_adv_2s /\ adv_duration + 1 > ADV_1S_DURATION
        /\ adv_duration' = 0 /\ is_adv_2s' = TRUE /\ StopThenStart("main")
     \/ /\ ~ is_adv_2s /\ ~ (adv_duration + 1 > ADV_1S_DURATION)
        /\ adv_duration' = adv_duration + 1 /\ UNCHANGED << is_adv_2s, advVars >>
  /\ UNCHANGED << connVars, running, pc, rx_sem, is_jump_bootloader, ble_bl_conn, linkVars >>

(* ble_app_process: the wait for rx_sem ends without it ...                *)
WaitTimeout ==
  /\ running /\ pc = "wait" /\ call["main"] = "none" /\ ~ rx_sem
  /\ \/ is_adv_2s /\ UNCHANGED << adv_duration, is_adv_2s, advVars >>
     \/ /\ ~ is_adv_2s /\ adv_duration + 1 >= ADV_1S_DURATION
        /\ adv_duration' = 0 /\ is_adv_2s' = TRUE /\ StopThenStart("main")
     \/ /\ ~ is_adv_2s /\ ~ (adv_duration + 1 >= ADV_1S_DURATION)
        /\ adv_duration' = adv_duration + 1 /\ UNCHANGED << is_adv_2s, advVars >>
  /\ UNCHANGED << connVars, running, pc, rx_sem, is_jump_bootloader, ble_bl_conn, linkVars >>

(* Mutant: a request is dropped when its sender has disconnected.          *)
TakeSem_OnlyConnected ==
  /\ running /\ pc = "wait" /\ call["main"] = "none" /\ rx_sem
  /\ rx_sem' = FALSE
  /\ pc' = IF is_jump_bootloader /\ ble_bl_conn # NULL THEN "delay" ELSE "wait"
  /\ UNCHANGED << connVars, running, is_jump_bootloader, adv_duration, is_adv_2s, ble_bl_conn,
                  advVars, linkVars >>

(* ... or with it: half a second later the chip resets into the bootloader *)
(* (HBN_RSV3 keeps the request), which starts the application again.       *)
TakeSem ==
  /\ running /\ pc = "wait" /\ call["main"] = "none" /\ rx_sem
  /\ rx_sem' = FALSE
  /\ pc' = IF is_jump_bootloader THEN "delay" ELSE "wait"
  /\ UNCHANGED << connVars, running, is_jump_bootloader, adv_duration, is_adv_2s, ble_bl_conn,
                  advVars, linkVars >>

Reset ==
  /\ running /\ pc = "delay"
  /\ running' = FALSE
  /\ UNCHANGED << connVars, appVars, advVars, linkVars >>

AppRestart ==
  /\ ~ running
  /\ running' = TRUE
  /\ pc' = "wait"
  /\ rx_sem' = FALSE /\ is_jump_bootloader' = FALSE
  /\ adv_duration' = 0 /\ is_adv_2s' = FALSE
  /\ ble_bl_conn' = NULL /\ connecting' = NULL
  /\ call' = EnableCallback
  /\ ADVERTISING' = FALSE /\ KEEP_ADVERTISING' = FALSE
  /\ adv' = "off" /\ param' = "1s"
  /\ incoming' = "none" /\ stray' = "none"
  /\ conns' = [s \in Slots |-> NewConn] /\ rx' = NULL /\ held' = {}
  /\ UNCHANGED << owned, holds >>

-------------------------------------------------------------------------------
(* Somebody connects, and the link may be gone before the host knows.      *)
Connect ==
  /\ running /\ adv # "off" /\ NoLink /\ incoming = "none"
  /\ adv' = "off"
  /\ incoming' = "up"
  /\ UNCHANGED << connVars, running, appVars, call, ADVERTISING, KEEP_ADVERTISING, param,
                  stray, connecting >>

Drop ==
  /\ running
  /\ \/ incoming = "up" /\ incoming' = "down" /\ UNCHANGED << connVars, stray >>
     \/ stray = "up" /\ stray' = "down" /\ UNCHANGED << connVars, incoming >>
     \/ (\E s \in Slots : LinkLost(s)) /\ UNCHANGED << incoming, stray >>
  /\ UNCHANGED << running, appVars, advVars, connecting >>

DownHandled == stray # "down" /\ \A s \in Slots : conns[s].link # "down"

(* enh_conn_complete in the receive thread.  Without a free object the     *)
(* link stays, unknown to the host; otherwise, if the controller claims to *)
(* support it, the advertising is resumed first.                           *)
enh_conn_complete ==
  /\ RxMayRun /\ rx = NULL /\ connecting = NULL /\ DownHandled
  /\ incoming # "none"
  /\ incoming' = "none"
  /\ ADVERTISING' = FALSE
  /\ IF FreeSlots = {}
       THEN stray' = incoming /\ UNCHANGED << conns, connecting, call >>
       ELSE /\ \E p \in Peers : conns' = [bt_conn_add_le(FirstFree, p) EXCEPT ![FirstFree].link = incoming]
            /\ connecting' = FirstFree
            /\ \/ KEEP_ADVERTISING /\ call' = [call EXCEPT !["rx"] = "enable"]
               \/ UNCHANGED call
            /\ UNCHANGED stray
  /\ UNCHANGED << rx, owned, held, holds, running, appVars, KEEP_ADVERTISING, adv, param >>

(* Mutant: the connection is remembered only when the count was running.   *)
bl_connected_OnlyFast ==
  /\ RxMayRun /\ connecting # NULL
  /\ conns' = bt_conn_unref(bt_conn_set_state(conns, connecting, "CONNECTED"), connecting)
  /\ connecting' = NULL
  /\ is_adv_2s' = FALSE
  /\ adv_duration' = 0
  /\ ble_bl_conn' = IF is_adv_2s THEN ble_bl_conn ELSE connecting
  /\ UNCHANGED << rx, owned, held, holds, running, pc, rx_sem, is_jump_bootloader, advVars,
                  incoming, stray >>

(* Mutant: the reference of bt_conn_add_le is kept.                        *)
bl_connected_KeepsRef ==
  /\ RxMayRun /\ connecting # NULL
  /\ conns' = bt_conn_set_state(conns, connecting, "CONNECTED")
  /\ connecting' = NULL
  /\ is_adv_2s' = FALSE
  /\ adv_duration' = 0
  /\ ble_bl_conn' = connecting
  /\ UNCHANGED << rx, owned, held, holds, running, pc, rx_sem, is_jump_bootloader, advVars,
                  incoming, stray >>

(* bt_conn_set_state(BT_CONN_CONNECTED), which calls bl_connected, and     *)
(* bt_conn_unref.                                                          *)
bl_connected ==
  /\ RxMayRun /\ connecting # NULL
  /\ conns' = bt_conn_unref(bt_conn_set_state(conns, connecting, "CONNECTED"), connecting)
  /\ connecting' = NULL
  /\ is_adv_2s' = FALSE
  /\ adv_duration' = 0
  /\ ble_bl_conn' = connecting
  /\ UNCHANGED << rx, owned, held, holds, running, pc, rx_sem, is_jump_bootloader, advVars,
                  incoming, stray >>

(* The magic word is written: ble_app_recv in the receive thread.          *)
ble_app_recv ==
  /\ RxMayRun /\ rx = NULL /\ connecting = NULL
  /\ \E s \in Slots : conns[s].state = "CONNECTED"
  /\ is_jump_bootloader' = TRUE
  /\ rx_sem' = TRUE
  /\ UNCHANGED << connVars, running, pc, adv_duration, is_adv_2s, ble_bl_conn, advVars, linkVars >>

(* The label "advertise" at the end of hci_disconn_complete.               *)
Advertise ==
  /\ call' = IF KEEP_ADVERTISING /\ ~ ADVERTISING THEN [call EXCEPT !["rx"] = "enable"] ELSE call
  /\ UNCHANGED << ADVERTISING, KEEP_ADVERTISING, adv, param >>

DisconnBegin ==
  /\ RxMayRun /\ connecting = NULL
  /\ \E s \in Slots : hci_disconn_complete(s)
  /\ IF rx' = NULL THEN Advertise ELSE UNCHANGED advVars
  /\ UNCHANGED << running, appVars, linkVars >>

DisconnEnd ==
  /\ RxMayRun
  /\ clear_ref
  /\ Advertise
  /\ UNCHANGED << running, appVars, linkVars >>

StrayGone ==
  /\ RxMayRun /\ rx = NULL /\ connecting = NULL
  /\ stray = "down"
  /\ stray' = "none"
  /\ Advertise
  /\ UNCHANGED << connVars, running, appVars, incoming, connecting >>

Cleanup ==
  /\ TxMayRun
  /\ \E s \in Slots : conn_cleanup(s)
  /\ UNCHANGED << running, appVars, advVars, linkVars >>

L2capDisconnected ==
  /\ running /\ call["work"] = "none"
  /\ \A s \in Slots : conns[s].work # "reporting"
  /\ \E s \in Slots : l2cap_disconnected(s)
  /\ UNCHANGED << running, appVars, advVars, linkVars >>

(* Mutant: the train relies on BT_DEV_KEEP_ADVERTISING.                    *)
bl_disconnected_NoRestart ==
  /\ running /\ call["work"] = "none" /\ "work" \notin held
  /\ \E s \in Slots : conns[s].work = "reporting"
  /\ ble_bl_conn' = NULL
  /\ Returned("work")
  /\ UNCHANGED << rx, owned, held, holds, running, pc, rx_sem, is_jump_bootloader, adv_duration,
                  is_adv_2s, ADVERTISING, KEEP_ADVERTISING, adv, param, linkVars >>

(* Mutant: ble_bl_conn is left to the next bl_connected.                   *)
bl_disconnected_Keeps ==
  /\ running /\ call["work"] = "none" /\ "work" \notin held
  /\ \E s \in Slots : conns[s].work = "reporting"
  /\ StopThenStart("work")
  /\ UNCHANGED << connVars, running, appVars, linkVars >>

(* notify_disconnected in the work queue.                                  *)
bl_disconnected ==
  /\ running /\ call["work"] = "none" /\ "work" \notin held
  /\ \E s \in Slots : conns[s].work = "reporting"
  /\ ble_bl_conn' = NULL
  /\ StopThenStart("work")
  /\ UNCHANGED << connVars, running, pc, rx_sem, is_jump_bootloader, adv_duration, is_adv_2s, linkVars >>

HoldThread ==
  /\ running
  /\ \E t \in Threads : Hold(t)
  /\ UNCHANGED << running, appVars, advVars, linkVars >>

ReleaseThread ==
  /\ running
  /\ \E t \in Threads : Release(t)
  /\ UNCHANGED << running, appVars, advVars, linkVars >>

Next ==
  \/ \E t \in Callers : Answered(t)
  \/ WaitTimeout \/ TakeSem \/ Reset \/ AppRestart
  \/ Connect \/ Drop
  \/ enh_conn_complete \/ bl_connected \/ ble_app_recv
  \/ DisconnBegin \/ DisconnEnd \/ StrayGone
  \/ Cleanup \/ L2capDisconnected \/ bl_disconnected
  \/ HoldThread \/ ReleaseThread

Spec == Init /\ [][Next]_vars

(* A thread that can run is scheduled, the controller answers every        *)
(* command, and a held thread goes on.  Nobody has to connect, write or    *)
(* drop the link, and the wait of the main task need not time out.         *)
FairSpec ==
  /\ Spec
  /\ \A t \in Callers : WF_vars(Answered(t))
  /\ WF_vars(TakeSem) /\ WF_vars(Reset) /\ WF_vars(AppRestart)
  /\ WF_vars(enh_conn_complete) /\ WF_vars(bl_connected)
  /\ WF_vars(DisconnBegin) /\ WF_vars(DisconnEnd) /\ WF_vars(StrayGone)
  /\ WF_vars(Cleanup) /\ WF_vars(L2capDisconnected) /\ WF_vars(bl_disconnected)
  /\ WF_vars(ReleaseThread)

-------------------------------------------------------------------------------
(* Type invariant: the program's variables, the advertising commands and   *)
(* the links have the values the C types and the calls allow.              *)
TypeOK ==
  /\ ConnTypeOK
  /\ running \in BOOLEAN
  /\ pc \in {"wait", "delay"}
  /\ rx_sem \in BOOLEAN
  /\ is_jump_bootloader \in BOOLEAN
  /\ adv_duration \in 0 .. ADV_1S_DURATION - 1
  /\ is_adv_2s \in BOOLEAN
  /\ ble_bl_conn \in Slots \union {NULL}
  /\ call \in [Callers -> {"none", "disable", "param", "enable"}]
  /\ ADVERTISING \in BOOLEAN /\ KEEP_ADVERTISING \in BOOLEAN
  /\ adv \in {"off", "1s", "2s"} /\ param \in {"1s", "2s"}
  /\ incoming \in Links /\ stray \in Links
  /\ connecting \in Slots \union {NULL}

(* However the starts and stops of the three threads interleave with       *)
(* connections and lost links, the train is not left silent: it comes to   *)
(* advertise, or to have a link, again, unless a thread of the host was    *)
(* held.                                                                   *)
Silent == adv = "off" /\ NoLink
ComesBack == Silent ~> ~ Silent \/ holds > 0

(* A connection whose end the host has handled does not keep the train     *)
(* awake: vApplicationSleep, which asks ble_app_is_connected, finds        *)
(* ble_bl_conn cleared, unless somebody is connected again or a thread of  *)
(* the host was held.                                                      *)
LinkOver == ble_bl_conn # NULL /\ NoLink
SleepsAgain == LinkOver ~> ~ LinkOver \/ holds > 0

(* The train does not sleep through a connection: an object in state       *)
(* CONNECTED is the one ble_bl_conn points to.  A held work queue reports  *)
(* the end of one connection when the next has begun in the same object.   *)
AwakeWhileConnected ==
  \A s \in Slots : running /\ holds = 0 /\ conns[s].state = "CONNECTED" /\ conns[s].ref # 0 => ble_bl_conn = s

(* A request to jump to the bootloader is carried out, whatever the main   *)
(* task is doing when rx_sem is given.                                     *)
JumpHappens == is_jump_bootloader ~> ~ running

(* "The last ref will be dropped during cleanup" (bt_conn_set_state): the  *)
(* count of an object is one for its state, until conn_update_timeout has  *)
(* reported its end, one while it is set up and one while its end is       *)
(* handled; so the train's only object is free again after each link.  A   *)
(* held work queue releases a reference that hci_disconn_complete has      *)
(* already cleared.                                                        *)
LastRefDroppedInCleanup ==
  running /\ holds = 0 =>
    \A s \in Slots :
      LET byState == conns[s].state # "DISCONNECTED" \/ conns[s].cleanup \/ conns[s].work # "none"
      IN  conns[s].ref = (IF byState THEN 1 ELSE 0) + (IF rx = s THEN 1 ELSE 0)
                         + (IF connecting = s THEN 1 ELSE 0)
===============================================================================
