----------------------------- MODULE TrainAppProofs -----------------------------
(***************************************************************************)
(* Proofs about TrainApp for any number of connection objects, of held     *)
(* threads and of waits: the types, that the count of every connection     *)
(* object is the number of its users, and that ble_bl_conn points to the   *)
(* object that is connected.  Both rest on the order in which the threads  *)
(* run: the end of a connection is handled in three of them before the     *)
(* receive thread takes the next event, unless one is held.                *)
(***************************************************************************)
EXTENDS TrainApp, WellFoundedInduction, TLAPS

(* The application runs and no thread has been held.                       *)
Calm == running /\ holds = 0

(* The users of an object: its state until the end has been reported, the  *)
(* receive thread that handles the end, and the one that sets it up.       *)
ByState(s) == conns[s].state # "DISCONNECTED" \/ conns[s].cleanup \/ conns[s].work # "none"
Counted(s) ==
  conns[s].ref = (IF ByState(s) THEN 1 ELSE 0) + (IF rx = s THEN 1 ELSE 0)
                 + (IF connecting = s THEN 1 ELSE 0)

(* What goes on with an object: it is connected, with nothing else under   *)
(* way anywhere; its end is handled; it is set up; or it is not in use.    *)
Settled(s) ==
  /\ conns[s].state \in {"DISCONNECTED", "CONNECTED"}
  /\ conns[s].state = "CONNECTED" =>
       rx = NULL /\ connecting = NULL /\ ble_bl_conn = s /\ conns[s].link # "none"
  /\ conns[s].cleanup \/ conns[s].work # "none" => rx = s
  /\ conns[s].work # "none" => ~ conns[s].cleanup
  /\ conns[s].link # "none" => conns[s].state = "CONNECTED" \/ connecting = s
  /\ connecting = s => rx = NULL /\ conns[s].link # "none"

(* A connection that the host does not know of yet is the only link.       *)
OneLink == incoming # "none" => \A s \in Slots : conns[s].link # "up"

Accounted ==
  /\ holds = 0 => held = {}
  /\ Calm => OneLink /\ \A s \in Slots : Counted(s) /\ Settled(s)

IInv == TypeOK /\ Accounted

-------------------------------------------------------------------------------
(* Facts about the operators of BtConn.                                    *)

(* The first free object is one, if there is any.                          *)
LEMMA FirstFreeIsFree ==
  ASSUME FreeSlots # {}
  PROVE  FirstFree \in FreeSlots
<1> DEFINE Less == {ss \in Nat \X Nat : ss[1] < ss[2]}
<1>1. FreeSlots \subseteq Nat
  BY ConnAssumption DEF FreeSlots, Slots
<1>2. IsWellFoundedOn(Less, Nat)
  BY NatLessThanWellFounded, Zenon DEF OpToRel
<1>3. PICK s \in FreeSlots : \A t \in FreeSlots : ~ (<< t, s >> \in Less)
  <2> HIDE DEF Less
  <2> QED BY <1>1, <1>2, WFMin
<1>4. \A t \in FreeSlots : s <= t
  <2>1. ASSUME NEW x \in Nat, NEW y \in Nat, x < y PROVE << x, y >> \in Less
    <3>1. << x, y >> \in Nat \X Nat /\ << x, y >>[1] < << x, y >>[2]
      BY <2>1
    <3> QED BY <3>1
  <2> HIDE DEF Less
  <2> TAKE t \in FreeSlots
  <2>2. s \in Nat /\ t \in Nat
    BY <1>1
  <2>3. ~ (t < s)
    BY <1>3, <2>1, <2>2, Zenon
  <2> QED BY <2>2, <2>3
<1> QED BY <1>4, Zenon DEF FirstFree

(* What a change of state does to the object, and to no other.             *)
LEMMA SetState ==
  ASSUME NEW cs \in [Slots -> Conn], NEW s \in Slots, NEW st \in States
  PROVE  LET new == bt_conn_set_state(cs, s, st)
         IN  /\ new \in [Slots -> Conn]
             /\ \A t \in Slots : t # s => new[t] = cs[t]
             /\ new[s].state = st /\ new[s].work = cs[s].work /\ new[s].link = cs[s].link
             /\ new[s].ref = cs[s].ref
                  + (IF cs[s].state = "DISCONNECTED" /\ st # "DISCONNECTED" THEN 1 ELSE 0)
                  - (IF st = "DISCONNECTED" /\ cs[s].state \in {"CONNECT_SCAN", "CONNECT"}
                       THEN 1 ELSE 0)
             /\ new[s].cleanup <=>
                  cs[s].cleanup \/ (st = "DISCONNECTED" /\ cs[s].state \in {"CONNECTED", "DISCONNECT"})
<1> DEFINE c == cs[s]
           taken == IF c.state = "DISCONNECTED" THEN 1 ELSE 0
           given == IF st = "DISCONNECTED" /\ c.state \in {"CONNECT_SCAN", "CONNECT"} THEN 1 ELSE 0
           wasUp == st = "DISCONNECTED" /\ c.state \in {"CONNECTED", "DISCONNECT"}
           new == bt_conn_set_state(cs, s, st)
<1>1. c \in Conn
  OBVIOUS
<1>2. CASE c.state = st
  <2>1. new = cs
    BY <1>2 DEF bt_conn_set_state
  <2> QED BY <1>1, <1>2, <2>1 DEF Conn
<1>3. CASE c.state # st
  <2>1. new = [cs EXCEPT ![s] = [c EXCEPT !.state = st, !.ref = @ + taken - given,
                                           !.cleanup = @ \/ wasUp]]
    BY <1>3 DEF bt_conn_set_state
  <2>2. taken \in {0, 1} /\ given \in {0, 1} /\ wasUp \in BOOLEAN
    OBVIOUS
  <2>3. taken = (IF c.state = "DISCONNECTED" /\ st # "DISCONNECTED" THEN 1 ELSE 0)
    BY <1>3
  <2> HIDE DEF taken, given, wasUp, new
  <2>4. [c EXCEPT !.state = st, !.ref = @ + taken - given, !.cleanup = @ \/ wasUp] \in Conn
    <3>1. ASSUME NEW r \in Int, NEW b \in BOOLEAN
          PROVE  [c EXCEPT !.state = st, !.ref = r, !.cleanup = b] \in Conn
      BY <1>1 DEF Conn
    <3>2. c.ref + taken - given \in Int /\ (c.cleanup \/ wasUp) \in BOOLEAN
      BY <1>1, <2>2 DEF Conn
    <3> QED BY <3>1, <3>2
  <2>5. /\ new \in [Slots -> Conn]
        /\ \A t \in Slots : t # s => new[t] = cs[t]
        /\ new[s].state = st /\ new[s].work = cs[s].work /\ new[s].link = cs[s].link
        /\ new[s].ref = c.ref + taken - given
        /\ new[s].cleanup <=> c.cleanup \/ wasUp
    BY <1>1, <2>1, <2>4 DEF Conn
  <2> QED BY <2>3, <2>5 DEF given, wasUp, new
<1> QED BY <1>2, <1>3

(* A reference more changes the count of one object ...                    *)
LEMMA Ref ==
  ASSUME NEW cs \in [Slots -> Conn], NEW s \in Slots
  PROVE  LET new == bt_conn_ref(cs, s)
         IN  /\ new \in [Slots -> Conn]
             /\ \A t \in Slots : t # s => new[t] = cs[t]
             /\ new[s].ref = cs[s].ref + 1 /\ new[s].state = cs[s].state
             /\ new[s].work = cs[s].work /\ new[s].link = cs[s].link
             /\ new[s].cleanup <=> cs[s].cleanup
<1>1. cs[s] \in Conn /\ cs[s].ref \in Int
  BY DEF Conn
<1>2. [cs[s] EXCEPT !.ref = cs[s].ref + 1] \in Conn
  BY <1>1 DEF Conn
<1> QED BY <1>1, <1>2 DEF bt_conn_ref, Conn

(* ... and so does one less.                                               *)
LEMMA Unref ==
  ASSUME NEW cs \in [Slots -> Conn], NEW s \in Slots
  PROVE  LET new == bt_conn_unref(cs, s)
         IN  /\ new \in [Slots -> Conn]
             /\ \A t \in Slots : t # s => new[t] = cs[t]
             /\ new[s].ref = cs[s].ref - 1 /\ new[s].state = cs[s].state
             /\ new[s].work = cs[s].work /\ new[s].link = cs[s].link
             /\ new[s].cleanup <=> cs[s].cleanup
<1>1. cs[s] \in Conn /\ cs[s].ref \in Int
  BY DEF Conn
<1>2. [cs[s] EXCEPT !.ref = cs[s].ref - 1] \in Conn
  BY <1>1 DEF Conn
<1> QED BY <1>1, <1>2 DEF bt_conn_unref, Conn

(* A new object: one reference, and no work but the report that is already *)
(* being made.                                                             *)
LEMMA AddLe ==
  ASSUME conns \in [Slots -> Conn], NEW s \in Slots, NEW p \in Peers \union {NoPeer}
  PROVE  LET new == bt_conn_add_le(s, p)
         IN  /\ new \in [Slots -> Conn]
             /\ \A t \in Slots : t # s => new[t] = conns[t]
             /\ new[s].ref = 1 /\ new[s].state = "DISCONNECTED" /\ ~ new[s].cleanup
             /\ new[s].work \in {"none", conns[s].work} /\ new[s].link = "none"
<1>1. conns[s] \in Conn /\ conns[s].work \in {"none", "submitted", "reporting"}
  BY DEF Conn
<1>2. NewConn \in Conn /\ NewConn.state = "DISCONNECTED" /\ NewConn.cleanup = FALSE
      /\ NewConn.link = "none"
  BY DEF Conn, States, NewConn
<1> DEFINE left == IF conns[s].work = "reporting" THEN "reporting" ELSE "none"
           r == [NewConn EXCEPT !.ref = 1, !.peer = p, !.work = left]
<1>3. /\ r \in Conn /\ r.ref = 1 /\ r.state = "DISCONNECTED" /\ ~ r.cleanup
      /\ r.work = left /\ r.link = "none"
  <2>1. ASSUME NEW c \in Conn, NEW w \in {"none", "submitted", "reporting"}
        PROVE  [c EXCEPT !.ref = 1, !.peer = p, !.work = w] \in Conn
    <3>1. [c EXCEPT !.ref = 1] \in Conn
      BY DEF Conn
    <3>2. ASSUME NEW d \in Conn PROVE [d EXCEPT !.peer = p] \in Conn
      BY DEF Conn
    <3>3. ASSUME NEW d \in Conn PROVE [d EXCEPT !.work = w] \in Conn
      BY DEF Conn
    <3>4. [c EXCEPT !.ref = 1, !.peer = p, !.work = w]
            = [[[c EXCEPT !.ref = 1] EXCEPT !.peer = p] EXCEPT !.work = w]
      OBVIOUS
    <3> QED BY <3>1, <3>2, <3>3, <3>4
  <2>2. r \in Conn
    BY <1>1, <1>2, <2>1
  <2>3. r.ref = 1 /\ r.state = "DISCONNECTED" /\ r.work = left /\ r.link = "none"
    BY <1>1, <1>2 DEF Conn
  <2>4. ~ r.cleanup
    BY <1>1, <1>2 DEF Conn
  <2> QED BY <2>2, <2>3, <2>4
<1>4. bt_conn_add_le(s, p) = [conns EXCEPT ![s] = r]
  BY DEF bt_conn_add_le
<1> HIDE DEF r
<1> QED BY <1>3, <1>4

(* One field of one object is changed.                                     *)
WithLink(cs, s, l) == [cs EXCEPT ![s].link = l]
WithWork(cs, s, w) == [cs EXCEPT ![s].work = w]

(* A change of the controller's view of the link.                          *)
LEMMA SetLink ==
  ASSUME NEW cs \in [Slots -> Conn], NEW s \in Slots, NEW l \in {"none", "up", "down"}
  PROVE  LET new == WithLink(cs, s, l)
         IN  /\ new \in [Slots -> Conn]
             /\ \A t \in Slots : t # s => new[t] = cs[t]
             /\ new[s].ref = cs[s].ref /\ new[s].state = cs[s].state
             /\ new[s].work = cs[s].work /\ new[s].link = l
             /\ new[s].cleanup <=> cs[s].cleanup
<1>1. cs[s] \in Conn
  OBVIOUS
<1>2. [cs[s] EXCEPT !.link = l] \in Conn
  BY <1>1 DEF Conn
<1> QED BY <1>1, <1>2 DEF Conn, WithLink

(* A change of the work queue's entry.                                     *)
LEMMA SetWork ==
  ASSUME NEW cs \in [Slots -> Conn], NEW s \in Slots, NEW w \in {"none", "submitted", "reporting"}
  PROVE  LET new == WithWork(cs, s, w)
         IN  /\ new \in [Slots -> Conn]
             /\ \A t \in Slots : t # s => new[t] = cs[t]
             /\ new[s].ref = cs[s].ref /\ new[s].state = cs[s].state
             /\ new[s].work = w /\ new[s].link = cs[s].link
             /\ new[s].cleanup <=> cs[s].cleanup
<1>1. cs[s] \in Conn
  OBVIOUS
<1>2. [cs[s] EXCEPT !.work = w] \in Conn
  BY <1>1 DEF Conn
<1> QED BY <1>1, <1>2 DEF Conn, WithWork

-------------------------------------------------------------------------------
(* The type invariant in groups.                                           *)
AppTypes ==
  /\ running \in BOOLEAN /\ rx_sem \in BOOLEAN /\ is_jump_bootloader \in BOOLEAN
  /\ is_adv_2s \in BOOLEAN /\ pc \in {"wait", "delay"}
CountTypes == adv_duration \in 0 .. ADV_1S_DURATION - 1
FlagTypes == ADVERTISING \in BOOLEAN /\ KEEP_ADVERTISING \in BOOLEAN
AdvTypes ==
  /\ call \in [Callers -> {"none", "disable", "param", "enable"}]
  /\ adv \in {"off", "1s", "2s"} /\ param \in {"1s", "2s"}
LinkTypes ==
  /\ incoming \in Links /\ stray \in Links
  /\ connecting \in Slots \union {NULL} /\ ble_bl_conn \in Slots \union {NULL}

(* TypeOK is the conjunction of the groups, in this state and the next.    *)
LEMMA Groups ==
  /\ TypeOK <=> ConnTypeOK /\ AppTypes /\ CountTypes /\ FlagTypes /\ AdvTypes /\ LinkTypes
  /\ TypeOK' <=> ConnTypeOK' /\ AppTypes' /\ CountTypes' /\ FlagTypes' /\ AdvTypes' /\ LinkTypes'
  BY DEF TypeOK, AppTypes, CountTypes, FlagTypes, AdvTypes, LinkTypes

(* The flags of the application.                                           *)
LEMMA AppTyped ==
  ASSUME AppTypes, [Next]_vars
  PROVE  AppTypes'
<1> USE DEF AppTypes
<1>1. CASE \E t \in Callers : Answered(t)
  BY <1>1, Zenon DEF Answered, appVars
<1>2. CASE WaitTimeout
  BY <1>2, Zenon DEF WaitTimeout
<1>3. CASE TakeSem
  <2>1. pc' \in {"wait", "delay"}
    BY <1>3 DEF TakeSem
  <2> QED BY <1>3, <2>1, Zenon DEF TakeSem
<1>4. CASE Reset \/ AppRestart
  <2>1. pc' \in {"wait", "delay"}
    BY <1>4 DEF Reset, AppRestart, appVars
  <2> QED BY <1>4, <2>1, Zenon DEF Reset, AppRestart, appVars
<1>5. CASE Connect \/ Drop \/ enh_conn_complete \/ bl_connected \/ ble_app_recv
  BY <1>5, Zenon DEF Connect, Drop, enh_conn_complete, bl_connected, ble_app_recv, appVars
<1>6. CASE DisconnBegin \/ DisconnEnd \/ StrayGone \/ Cleanup \/ L2capDisconnected
  BY <1>6, Zenon DEF DisconnBegin, DisconnEnd, StrayGone, Cleanup, L2capDisconnected, appVars
<1>7. CASE bl_disconnected \/ HoldThread \/ ReleaseThread
  BY <1>7, Zenon DEF bl_disconnected, HoldThread, ReleaseThread, appVars
<1>8. CASE UNCHANGED vars
  BY <1>8, Zenon DEF vars, appVars
<1> QED BY <1>1, <1>2, <1>3, <1>4, <1>5, <1>6, <1>7, <1>8, Zenon DEF Next

(* The count of waits stays below its limit.                               *)
LEMMA CountTyped ==
  ASSUME CountTypes, [Next]_vars
  PROVE  CountTypes'
<1> USE DEF CountTypes
<1>0. ADV_1S_DURATION \in Nat \ {0}
  BY TrainAssumption
<1>1. CASE adv_duration' = adv_duration
  BY <1>1
<1>2. CASE adv_duration' = 0
  BY <1>0, <1>2
<1>3. CASE adv_duration' = adv_duration + 1 /\ ~ (adv_duration + 1 >= ADV_1S_DURATION)
  BY <1>0, <1>3
<1>4. \/ adv_duration' = adv_duration
      \/ adv_duration' = 0
      \/ adv_duration' = adv_duration + 1 /\ ~ (adv_duration + 1 >= ADV_1S_DURATION)
  <2>1. CASE WaitTimeout \/ AppRestart \/ bl_connected
    BY <2>1, Zenon DEF WaitTimeout, AppRestart, bl_connected
  <2>2. CASE (\E t \in Callers : Answered(t)) \/ TakeSem \/ Reset \/ Connect \/ Drop
    BY <2>2, Zenon DEF Answered, TakeSem, Reset, Connect, Drop, appVars
  <2>3. CASE enh_conn_complete \/ ble_app_recv \/ DisconnBegin \/ DisconnEnd \/ StrayGone
    BY <2>3, Zenon DEF enh_conn_complete, ble_app_recv, DisconnBegin, DisconnEnd, StrayGone, appVars
  <2>4. CASE Cleanup \/ L2capDisconnected \/ bl_disconnected \/ HoldThread \/ ReleaseThread
    BY <2>4, Zenon DEF Cleanup, L2capDisconnected, bl_disconnected, HoldThread, ReleaseThread, appVars
  <2>5. CASE UNCHANGED vars
    BY <2>5, Zenon DEF vars, appVars
  <2> QED BY <2>1, <2>2, <2>3, <2>4, <2>5, Zenon DEF Next
<1> QED BY <1>1, <1>2, <1>3, <1>4

(* The flags of the host.                                                  *)
LEMMA FlagsTyped ==
  ASSUME FlagTypes, [Next]_vars
  PROVE  FlagTypes'
<1> USE DEF FlagTypes
<1>1. ASSUME NEW t \in Callers, Answered(t) PROVE FlagTypes'
  <2>1. CASE Disabled(t)
    BY <2>1, Zenon DEF Disabled
  <2>2. CASE ParamSet(t)
    BY <2>2, Zenon DEF ParamSet
  <2>3. CASE Enabled(t)
    <3>1. CASE NoLink /\ t = "rx"
      BY <2>3, <3>1, Zenon DEF Enabled
    <3>2. CASE NoLink /\ t # "rx"
      BY <2>3, <3>2, Zenon DEF Enabled
    <3>3. CASE ~ NoLink
      BY <2>3, <3>3, Zenon DEF Enabled
    <3> QED BY <3>1, <3>2, <3>3
  <2> QED BY <1>1, <2>1, <2>2, <2>3 DEF Answered
<1>2. CASE WaitTimeout \/ TakeSem \/ Reset \/ AppRestart \/ Connect \/ Drop
  BY <1>2, Zenon DEF WaitTimeout, StopThenStart, TakeSem, Reset, AppRestart, Connect, Drop, advVars
<1>3. CASE enh_conn_complete \/ bl_connected \/ ble_app_recv
  BY <1>3, Zenon DEF enh_conn_complete, bl_connected, ble_app_recv, advVars
<1>4. CASE DisconnBegin \/ DisconnEnd \/ StrayGone
  BY <1>4, Zenon DEF DisconnBegin, DisconnEnd, StrayGone, Advertise, advVars
<1>5. CASE Cleanup \/ L2capDisconnected \/ bl_disconnected \/ HoldThread \/ ReleaseThread
  BY <1>5, Zenon DEF Cleanup, L2capDisconnected, bl_disconnected, StopThenStart, HoldThread,
     ReleaseThread, advVars
<1>6. CASE UNCHANGED vars
  BY <1>6, Zenon DEF vars, advVars
<1> QED BY <1>1, <1>2, <1>3, <1>4, <1>5, <1>6, Zenon DEF Next

(* The commands of the threads and the controller's advertising.           *)
LEMMA AdvTyped ==
  ASSUME AdvTypes, [Next]_vars
  PROVE  AdvTypes'
<1> DEFINE C == {"none", "disable", "param", "enable"}
<1>0. ASSUME NEW t \in Callers, NEW c \in C, call' = [call EXCEPT ![t] = c]
      PROVE  call' \in [Callers -> C]
  BY <1>0 DEF AdvTypes
<1>1. ASSUME NEW t \in Callers, Answered(t) PROVE AdvTypes'
  <2>1. CASE Disabled(t)
    <3>1. call' \in [Callers -> C]
      BY <1>0, <2>1 DEF Disabled
    <3> QED BY <2>1, <3>1 DEF Disabled, AdvTypes
  <2>2. CASE ParamSet(t)
    <3>1. call' \in [Callers -> C]
      BY <1>0, <2>2 DEF ParamSet, Returned
    <3>2. param' \in {"1s", "2s"}
      BY <2>2 DEF ParamSet, Interval, AdvTypes
    <3> QED BY <2>2, <3>1, <3>2 DEF ParamSet, AdvTypes
  <2>3. CASE Enabled(t)
    <3>1. call' \in [Callers -> C]
      BY <1>0, <2>3 DEF Enabled, Returned
    <3>2. adv' \in {"off", "1s", "2s"}
      BY <2>3 DEF Enabled, AdvTypes
    <3> QED BY <2>3, <3>1, <3>2 DEF Enabled, AdvTypes
  <2> QED BY <1>1, <2>1, <2>2, <2>3 DEF Answered
<1>2. ASSUME NEW t \in Callers, StopThenStart(t) PROVE AdvTypes'
  <2>1. PICK c \in C : call' = [call EXCEPT ![t] = c]
    BY <1>2 DEF StopThenStart
  <2>2. call' \in [Callers -> C]
    BY <1>0, <2>1
  <2> QED BY <1>2, <2>2 DEF StopThenStart, AdvTypes
<1>3. ASSUME Advertise PROVE AdvTypes'
  <2>1. call' = call \/ call' = [call EXCEPT !["rx"] = "enable"]
    BY <1>3 DEF Advertise
  <2>2. call' \in [Callers -> C]
    BY <1>0, <2>1 DEF Callers, AdvTypes
  <2> QED BY <1>3, <2>2 DEF Advertise, AdvTypes
<1>4. ASSUME UNCHANGED advVars PROVE AdvTypes'
  BY <1>4 DEF AdvTypes, advVars
<1>5. CASE WaitTimeout
  BY <1>2, <1>4, <1>5 DEF WaitTimeout, Callers
<1>6. CASE TakeSem \/ Reset \/ Drop \/ bl_connected \/ ble_app_recv
  BY <1>4, <1>6, Zenon DEF TakeSem, Reset, Drop, bl_connected, ble_app_recv
<1>7. CASE AppRestart
  <2>1. call' \in [Callers -> C]
    BY <1>7 DEF AppRestart, EnableCallback
  <2> QED BY <1>7, <2>1 DEF AppRestart, AdvTypes
<1>8. CASE Connect
  BY <1>8 DEF Connect, AdvTypes
<1>9. CASE enh_conn_complete
  <2>1. call' = call \/ call' = [call EXCEPT !["rx"] = "enable"]
    BY <1>9 DEF enh_conn_complete
  <2>2. call' \in [Callers -> C]
    BY <1>0, <2>1 DEF Callers, AdvTypes
  <2> QED BY <1>9, <2>2 DEF enh_conn_complete, AdvTypes
<1>10. CASE DisconnBegin \/ DisconnEnd \/ StrayGone
  BY <1>3, <1>4, <1>10, Zenon DEF DisconnBegin, DisconnEnd, StrayGone
<1>11. CASE Cleanup \/ L2capDisconnected \/ HoldThread \/ ReleaseThread
  BY <1>4, <1>11, Zenon DEF Cleanup, L2capDisconnected, HoldThread, ReleaseThread
<1>12. CASE bl_disconnected
  BY <1>2, <1>12 DEF bl_disconnected, Callers
<1>13. CASE UNCHANGED vars
  BY <1>4, <1>13, Zenon DEF vars
<1> QED BY <1>1, <1>5, <1>6, <1>7, <1>8, <1>9, <1>10, <1>11, <1>12, <1>13, Zenon DEF Next

(* The links and the variables that name an object.                        *)
LEMMA LinkTyped ==
  ASSUME LinkTypes, [Next]_vars
  PROVE  LinkTypes'
<1>1. CASE UNCHANGED << linkVars, ble_bl_conn >>
  BY <1>1 DEF linkVars, LinkTypes
<1>2. CASE (\E t \in Callers : Answered(t)) \/ WaitTimeout \/ TakeSem \/ Reset
  BY <1>1, <1>2, Zenon DEF Answered, WaitTimeout, TakeSem, Reset, appVars
<1>3. CASE ble_app_recv \/ DisconnBegin \/ DisconnEnd \/ Cleanup \/ L2capDisconnected
  BY <1>1, <1>3, Zenon DEF ble_app_recv, DisconnBegin, DisconnEnd, Cleanup, L2capDisconnected, appVars
<1>4. CASE HoldThread \/ ReleaseThread
  BY <1>1, <1>4, Zenon DEF HoldThread, ReleaseThread, appVars
<1>5. CASE AppRestart
  BY <1>5 DEF AppRestart, LinkTypes, Links
<1>6. CASE Connect
  BY <1>6 DEF Connect, appVars, LinkTypes, Links
<1>7. CASE Drop
  <2>1. incoming' \in {incoming, "down"} /\ stray' \in {stray, "down"}
    BY <1>7 DEF Drop
  <2> QED BY <1>7, <2>1 DEF Drop, appVars, LinkTypes, Links
<1>8. CASE enh_conn_complete
  <2>1. connecting' \in Slots \union {NULL}
    BY <1>8, FirstFreeIsFree DEF enh_conn_complete, FreeSlots, LinkTypes
  <2>2. incoming' = "none" /\ stray' \in {stray, incoming} /\ UNCHANGED ble_bl_conn
    BY <1>8 DEF enh_conn_complete, appVars
  <2> QED BY <2>1, <2>2 DEF LinkTypes, Links
<1>9. CASE bl_connected
  BY <1>9 DEF bl_connected, LinkTypes
<1>10. CASE StrayGone
  BY <1>10 DEF StrayGone, appVars, LinkTypes, Links
<1>11. CASE bl_disconnected
  BY <1>11 DEF bl_disconnected, linkVars, LinkTypes
<1>12. CASE UNCHANGED vars
  BY <1>1, <1>12, Zenon DEF vars, appVars
<1> QED BY <1>2, <1>3, <1>4, <1>5, <1>6, <1>7, <1>8, <1>9, <1>10, <1>11, <1>12, Zenon DEF Next

-------------------------------------------------------------------------------
(* The connection objects.                                                 *)

(* In a calm state: the object of a slot.                                  *)
LEMMA SlotFacts ==
  ASSUME ConnTypeOK, Accounted, Calm, NEW s \in Slots
  PROVE  /\ conns[s] \in Conn /\ conns[s].ref \in Int /\ s # NULL /\ held = {}
         /\ Counted(s) /\ Settled(s)
<1>1. conns[s] \in Conn /\ Counted(s) /\ Settled(s) /\ held = {}
  BY DEF ConnTypeOK, Accounted, Calm
<1>2. conns[s].ref \in Int
  BY <1>1 DEF Conn
<1>3. s # NULL
  BY ConnAssumption DEF Slots, NULL
<1> QED BY <1>1, <1>2, <1>3

(* When the receive thread runs, the others have done their work on the    *)
(* objects; an object whose end it handles is then clean.                  *)
LEMMA RxRuns ==
  ASSUME ConnTypeOK, Accounted, Calm, RxMayRun, NEW s \in Slots
  PROVE  conns[s].work = "none" /\ ~ conns[s].cleanup
<1>1. /\ conns[s].ref \in Int /\ s # NULL /\ held = {}
      /\ Counted(s) /\ Settled(s)
  BY SlotFacts
<1>2. conns[s].work = "none"
  BY <1>1 DEF RxMayRun, TxMayRun, WorkReady
<1>3. ASSUME conns[s].cleanup PROVE FALSE
  <2>1. rx = s
    BY <1>1, <1>3 DEF Settled
  <2>2. conns[s].state = "DISCONNECTED"
    BY <1>1, <2>1 DEF Settled
  <2>3. conns[s].ref # 0
    <3>1. ByState(s)
      BY <1>3 DEF ByState
    <3> QED BY <1>1, <2>1, <3>1 DEF Counted
  <2> QED BY <1>1, <1>3, <2>2, <2>3 DEF RxMayRun, TxReady, Dirty
<1> QED BY <1>2, <1>3

(* A step that does not change an object.                                  *)
LEMMA SlotKept ==
  ASSUME NEW t \in Slots, Counted(t), Settled(t), conns'[t] = conns[t],
         (rx' = t) <=> (rx = t), (connecting' = t) <=> (connecting = t),
         connecting = t => rx' = NULL,
         conns[t].state = "CONNECTED" => rx' = NULL /\ connecting' = NULL /\ ble_bl_conn' = t
  PROVE  Counted(t)' /\ Settled(t)'
<1>1. Counted(t)'
  BY DEF Counted, ByState
<1>2. Settled(t)'
  BY DEF Settled
<1> QED BY <1>1, <1>2

(* Steps that leave the objects and what points to them alone.             *)
LEMMA Aside ==
  ASSUME Accounted,
         UNCHANGED << conns, rx, held, holds, running, ble_bl_conn, connecting, incoming >>
  PROVE  Accounted'
  BY DEF Accounted, Calm, OneLink, Counted, Settled, ByState

(* A change of one object, with nobody else's affairs touched.             *)
LEMMA OneSlot ==
  ASSUME ConnTypeOK, Accounted, NEW s \in Slots,
         \A t \in Slots : t # s => conns'[t] = conns[t],
         UNCHANGED << rx, held, holds, running, ble_bl_conn, connecting, incoming >>,
         conns'[s].link = "up" => conns[s].link = "up",
         Calm => Counted(s)' /\ Settled(s)'
  PROVE  Accounted'
<1>1. ASSUME Calm PROVE OneLink' /\ \A t \in Slots : Counted(t)' /\ Settled(t)'
  <2>1. OneLink'
    BY <1>1 DEF Accounted, OneLink
  <2>2. ASSUME NEW t \in Slots, t # s PROVE Counted(t)' /\ Settled(t)'
    <3>1. Counted(t) /\ Settled(t)
      BY <1>1, SlotFacts
    <3> QED BY <2>2, <3>1 DEF Counted, ByState, Settled
  <2> QED BY <1>1, <2>1, <2>2
<1>2. Calm' => Calm
  BY DEF Calm
<1>3. holds' = 0 => held' = {}
  BY DEF Accounted
<1> QED BY <1>1, <1>2, <1>3 DEF Accounted

(* The transmit thread hands an object on to the work queue ...            *)
LEMMA CleanupCounted ==
  ASSUME ConnTypeOK, Accounted, Cleanup
  PROVE  ConnTypeOK' /\ Accounted'
<1>0. PICK s \in Slots : conn_cleanup(s)
  BY DEF Cleanup
<1>1. conns \in [Slots -> Conn] /\ conns[s] \in Conn /\ conns[s].ref \in Int
  BY DEF ConnTypeOK, Conn
<1>2. [conns[s] EXCEPT !.cleanup = FALSE, !.work = "submitted"] \in Conn
  BY <1>1 DEF Conn
<1>3. conns' = [conns EXCEPT ![s] = [conns[s] EXCEPT !.cleanup = FALSE, !.work = "submitted"]]
  BY <1>0 DEF conn_cleanup
<1>4. conns' \in [Slots -> Conn] /\ \A t \in Slots : t # s => conns'[t] = conns[t]
  BY <1>1, <1>2, <1>3
<1>5. /\ conns'[s].ref = conns[s].ref /\ conns'[s].state = conns[s].state
      /\ conns'[s].work = "submitted" /\ conns'[s].link = conns[s].link /\ ~ conns'[s].cleanup
  BY <1>1, <1>3 DEF Conn
<1>6. conns[s].cleanup /\ conns[s].state = "DISCONNECTED"
  BY <1>0 DEF conn_cleanup, Dirty
<1>7. UNCHANGED << rx, owned, held, holds, running, ble_bl_conn, connecting, incoming >>
  BY <1>0 DEF conn_cleanup, Cleanup, appVars, linkVars
<1>8. ASSUME Calm PROVE Counted(s)' /\ Settled(s)'
  <2>1. Counted(s) /\ Settled(s)
    BY <1>8, SlotFacts
  <2>2. Counted(s)'
    BY <1>1, <1>5, <1>6, <1>7, <2>1 DEF Counted, ByState
  <2>3. Settled(s)'
    BY <1>5, <1>6, <1>7, <2>1 DEF Settled
  <2> QED BY <2>2, <2>3
<1>9. Accounted'
  BY <1>4, <1>5, <1>7, <1>8, OneSlot
<1> QED BY <1>4, <1>7, <1>9 DEF ConnTypeOK

(* ... which reports the end in two steps.                                 *)
LEMMA L2capCounted ==
  ASSUME ConnTypeOK, Accounted, L2capDisconnected
  PROVE  ConnTypeOK' /\ Accounted'
<1>0. PICK s \in Slots : l2cap_disconnected(s)
  BY DEF L2capDisconnected
<1>1. conns \in [Slots -> Conn] /\ conns[s].ref \in Int
  BY DEF ConnTypeOK, Conn
<1>2. PICK w \in {"none", "submitted", "reporting"} :
        /\ conns' = WithWork(conns, s, w)
        /\ w = IF conns[s].state = "DISCONNECTED" THEN "reporting" ELSE "none"
  BY <1>0 DEF l2cap_disconnected, WithWork
<1>3. /\ conns' \in [Slots -> Conn] /\ \A t \in Slots : t # s => conns'[t] = conns[t]
      /\ conns'[s].ref = conns[s].ref /\ conns'[s].state = conns[s].state
      /\ conns'[s].work = w /\ conns'[s].link = conns[s].link
      /\ conns'[s].cleanup <=> conns[s].cleanup
  BY <1>1, <1>2, SetWork
<1>4. UNCHANGED << rx, owned, held, holds, running, ble_bl_conn, connecting, incoming >>
  BY <1>0 DEF l2cap_disconnected, L2capDisconnected, appVars, linkVars
<1>5. ASSUME Calm PROVE Counted(s)' /\ Settled(s)'
  <2>1. Counted(s) /\ Settled(s) /\ conns[s].work = "submitted" /\ s # NULL
    BY <1>0, <1>5, SlotFacts DEF l2cap_disconnected
  <2>2. conns[s].state = "DISCONNECTED" /\ w = "reporting"
    BY <1>2, <2>1 DEF Settled
  <2>3. Counted(s)'
    BY <1>1, <1>3, <1>4, <2>1, <2>2 DEF Counted, ByState
  <2>4. Settled(s)'
    BY <1>3, <1>4, <2>1, <2>2 DEF Settled
  <2> QED BY <2>3, <2>4
<1>6. Accounted'
  BY <1>3, <1>4, <1>5, OneSlot
<1> QED BY <1>3, <1>4, <1>6 DEF ConnTypeOK

(* The controller loses a link, known to the host or not.                  *)
LEMMA DropCounted ==
  ASSUME ConnTypeOK, Accounted, Drop
  PROVE  ConnTypeOK' /\ Accounted'
<1>1. CASE UNCHANGED connVars
  <2>1. UNCHANGED << conns, rx, owned, held, holds, running, ble_bl_conn, connecting >>
    BY <1>1 DEF Drop, connVars, appVars
  <2>2. incoming' # "none" => incoming # "none"
    BY DEF Drop
  <2>3. Accounted'
    BY <2>1, <2>2 DEF Accounted, Calm, OneLink, Counted, Settled, ByState
  <2> QED BY <2>1, <2>3 DEF ConnTypeOK
<1>2. CASE (\E s \in Slots : LinkLost(s)) /\ UNCHANGED << incoming, stray >>
  <2>0. PICK s \in Slots : LinkLost(s)
    BY <1>2
  <2>1. conns \in [Slots -> Conn] /\ conns[s].ref \in Int /\ conns[s].link = "up"
    BY <2>0 DEF ConnTypeOK, Conn, LinkLost
  <2>2. conns' = WithLink(conns, s, "down")
    BY <2>0 DEF LinkLost, WithLink
  <2>3. /\ conns' \in [Slots -> Conn] /\ \A t \in Slots : t # s => conns'[t] = conns[t]
        /\ conns'[s].ref = conns[s].ref /\ conns'[s].state = conns[s].state
        /\ conns'[s].work = conns[s].work /\ conns'[s].link = "down"
        /\ conns'[s].cleanup <=> conns[s].cleanup
    BY <2>1, <2>2, SetLink
  <2>4. UNCHANGED << rx, owned, held, holds, running, ble_bl_conn, connecting, incoming >>
    BY <1>2, <2>0 DEF LinkLost, Drop, appVars
  <2>5. ASSUME Calm PROVE Counted(s)' /\ Settled(s)'
    <3>1. Counted(s) /\ Settled(s)
      BY <2>5, SlotFacts
    <3>2. Counted(s)'
      BY <2>3, <2>4, <3>1 DEF Counted, ByState
    <3>3. Settled(s)'
      BY <2>1, <2>3, <2>4, <3>1 DEF Settled
    <3> QED BY <3>2, <3>3
  <2>6. Accounted'
    BY <2>3, <2>4, <2>5, OneSlot
  <2> QED BY <2>3, <2>4, <2>6 DEF ConnTypeOK
<1> QED BY <1>1, <1>2 DEF Drop

(* The work queue's call returns: the reference of the state goes.         *)
LEMMA ReturnedCounted ==
  ASSUME ConnTypeOK, Accounted, NEW u \in Callers, Returned(u),
         UNCHANGED << rx, owned, held, holds, running, ble_bl_conn, connecting, incoming >>
  PROVE  ConnTypeOK' /\ Accounted'
<1>1. CASE UNCHANGED conns
  BY <1>1, Aside DEF ConnTypeOK
<1>2. CASE conns' = [s \in Slots |-> IF conns[s].work = "reporting"
                                       THEN [conns[s] EXCEPT !.work = "none", !.ref = @ - 1]
                                       ELSE conns[s]]
  <2>1. ASSUME NEW s \in Slots
        PROVE  /\ conns'[s] \in Conn
               /\ conns[s].work # "reporting" => conns'[s] = conns[s]
               /\ conns[s].work = "reporting" =>
                    /\ conns'[s].ref = conns[s].ref - 1 /\ conns'[s].state = conns[s].state
                    /\ conns'[s].work = "none" /\ conns'[s].link = conns[s].link
                    /\ conns'[s].cleanup <=> conns[s].cleanup
    <3>1. conns[s] \in Conn /\ conns[s].ref \in Int
      BY DEF ConnTypeOK, Conn
    <3>2. CASE conns[s].work # "reporting"
      <4>1. conns'[s] = conns[s]
        BY <1>2, <3>2
      <4> QED BY <3>1, <3>2, <4>1
    <3>3. CASE conns[s].work = "reporting"
      <4> DEFINE less == [conns[s] EXCEPT !.work = "none", !.ref = conns[s].ref - 1]
      <4>1. conns'[s] = less
        BY <1>2, <3>3
      <4>2. less \in Conn
        <5>1. ASSUME NEW c \in Conn PROVE [c EXCEPT !.work = "none"] \in Conn
          BY DEF Conn
        <5>2. ASSUME NEW c \in Conn, NEW i \in Int PROVE [c EXCEPT !.ref = i] \in Conn
          BY DEF Conn
        <5>3. less = [[conns[s] EXCEPT !.work = "none"] EXCEPT !.ref = conns[s].ref - 1]
          BY <3>1
        <5>4. conns[s].ref - 1 \in Int
          BY <3>1
        <5> QED BY <3>1, <5>1, <5>2, <5>3, <5>4, Zenon
      <4>3. /\ less.ref = conns[s].ref - 1 /\ less.state = conns[s].state
            /\ less.work = "none" /\ less.link = conns[s].link
            /\ less.cleanup <=> conns[s].cleanup
        BY <3>1 DEF Conn
      <4> HIDE DEF less
      <4> QED BY <3>3, <4>1, <4>2, <4>3
    <3> QED BY <3>2, <3>3
  <2>2. conns' \in [Slots -> Conn]
    BY <1>2, <2>1
  <2>3. ASSUME Calm, NEW s \in Slots
        PROVE  Counted(s)' /\ Settled(s)' /\ conns'[s].link = conns[s].link
    <3>1. Counted(s) /\ Settled(s) /\ conns[s].ref \in Int /\ s # NULL
      BY <2>3, SlotFacts
    <3>2. CASE conns[s].work # "reporting"
      <4>1. conns'[s] = conns[s]
        BY <2>1, <3>2
      <4> QED BY <3>1, <4>1 DEF Counted, ByState, Settled
    <3>3. CASE conns[s].work = "reporting"
      <4>1. /\ conns'[s].ref = conns[s].ref - 1 /\ conns'[s].state = conns[s].state
            /\ conns'[s].work = "none" /\ conns'[s].link = conns[s].link
            /\ conns'[s].cleanup <=> conns[s].cleanup
        BY <2>1, <3>3
      <4>2. rx = s /\ ~ conns[s].cleanup /\ conns[s].state = "DISCONNECTED"
        BY <3>1, <3>3 DEF Settled
      <4>3. Counted(s)'
        BY <3>1, <3>3, <4>1, <4>2 DEF Counted, ByState
      <4>4. Settled(s)'
        BY <3>1, <4>1, <4>2 DEF Settled
      <4> QED BY <4>1, <4>3, <4>4
    <3> QED BY <3>2, <3>3
  <2>4. Accounted'
    <3>1. holds' = 0 => held' = {}
      BY DEF Accounted
    <3>2. Calm' => Calm
      BY DEF Calm
    <3>3. Calm => OneLink'
      BY <2>3 DEF Accounted, OneLink
    <3> QED BY <2>3, <3>1, <3>2, <3>3 DEF Accounted
  <2> QED BY <2>2, <2>4 DEF ConnTypeOK
<1> QED BY <1>1, <1>2 DEF Returned

(* The controller's answers.                                               *)
LEMMA AnsweredCounted ==
  ASSUME ConnTypeOK, Accounted, NEW u \in Callers, Answered(u)
  PROVE  ConnTypeOK' /\ Accounted'
<1>1. UNCHANGED << rx, owned, held, holds, running, ble_bl_conn, connecting, incoming >>
  BY DEF Answered, appVars, linkVars
<1>2. UNCHANGED conns \/ Returned(u)
  BY DEF Answered, Disabled, ParamSet, Enabled
<1>3. CASE UNCHANGED conns
  BY <1>1, <1>3, Aside DEF ConnTypeOK
<1>4. CASE Returned(u)
  BY <1>1, <1>4, ReturnedCounted
<1> QED BY <1>2, <1>3, <1>4

(* A connection gets an object: no other is connected, for the controller  *)
(* has one link and the end of the last has been handled.                  *)
LEMMA NewCounted ==
  ASSUME ConnTypeOK, LinkTypes, Accounted, enh_conn_complete
  PROVE  ConnTypeOK' /\ Accounted'
<1>1. UNCHANGED << rx, owned, held, holds, running, ble_bl_conn >>
  BY DEF enh_conn_complete, appVars
<1>2. incoming' = "none" /\ incoming \in {"up", "down"} /\ rx = NULL /\ connecting = NULL
  BY DEF enh_conn_complete, LinkTypes, Links
<1>3. CASE FreeSlots = {}
  <2>1. UNCHANGED << conns, connecting >>
    BY <1>3 DEF enh_conn_complete
  <2>2. Accounted'
    BY <1>1, <1>2, <2>1 DEF Accounted, Calm, OneLink, Counted, Settled, ByState
  <2> QED BY <1>1, <2>1, <2>2 DEF ConnTypeOK
<1>4. CASE FreeSlots # {}
  <2>0. PICK s \in Slots : s = FirstFree /\ conns[s].ref = 0
    BY <1>4, FirstFreeIsFree DEF FreeSlots
  <2>1. PICK p \in Peers : conns' = WithLink(bt_conn_add_le(s, p), s, incoming)
    BY <1>4, <2>0 DEF enh_conn_complete, WithLink
  <2>2. connecting' = s
    BY <1>4, <2>0 DEF enh_conn_complete
  <2>3. conns \in [Slots -> Conn] /\ p \in Peers \union {NoPeer}
    BY DEF ConnTypeOK
  <2> DEFINE new == bt_conn_add_le(s, p)
  <2>4. /\ new \in [Slots -> Conn]
        /\ \A t \in Slots : t # s => new[t] = conns[t]
        /\ new[s].ref = 1 /\ new[s].state = "DISCONNECTED" /\ ~ new[s].cleanup
        /\ new[s].work \in {"none", conns[s].work}
    BY <2>3, AddLe
  <2>5. conns' = WithLink(new, s, incoming)
    BY <2>1
  <2> HIDE DEF new
  <2>6. incoming \in {"none", "up", "down"}
    BY <1>2
  <2>7. /\ conns' \in [Slots -> Conn]
        /\ \A t \in Slots : t # s => conns'[t] = conns[t]
        /\ conns'[s].ref = 1 /\ conns'[s].state = "DISCONNECTED" /\ ~ conns'[s].cleanup
        /\ conns'[s].work \in {"none", conns[s].work} /\ conns'[s].link # "none"
    BY <1>2, <2>4, <2>5, <2>6, SetLink
  <2>8. ASSUME Calm PROVE \A t \in Slots : Counted(t)' /\ Settled(t)'
    <3>1. RxMayRun /\ DownHandled /\ incoming # "none"
      BY DEF enh_conn_complete
    <3>2. conns[s].work = "none" /\ s # NULL /\ rx # s
      BY <1>2, <2>8, <3>1, RxRuns, SlotFacts
    <3>3. Counted(s)'
      BY <1>1, <2>2, <2>7, <3>2 DEF Counted, ByState
    <3>4. Settled(s)'
      BY <1>1, <1>2, <2>2, <2>7, <3>2 DEF Settled
    <3>5. ASSUME NEW t \in Slots, t # s PROVE Counted(t)' /\ Settled(t)'
      <4>1. Counted(t) /\ Settled(t) /\ t # NULL /\ conns[t] \in Conn
        BY <2>8, SlotFacts
      <4>2. conns[t].state # "CONNECTED"
        <5>1. conns[t].link \in {"none", "up", "down"}
          BY <4>1 DEF Conn
        <5>2. conns[t].link # "up"
          BY <2>8, <3>1 DEF Accounted, OneLink
        <5>3. conns[t].link # "down"
          BY <3>1 DEF DownHandled
        <5> QED BY <4>1, <5>1, <5>2, <5>3 DEF Settled
      <4>3. conns'[t] = conns[t] /\ connecting # t /\ connecting' # t
        BY <1>2, <2>2, <2>7, <3>5, <4>1
      <4> QED BY <1>1, <4>1, <4>2, <4>3, SlotKept
    <3> QED BY <3>3, <3>4, <3>5
  <2>9. Calm' => Calm /\ OneLink'
    BY <1>1, <1>2 DEF Calm, OneLink
  <2>10. Accounted'
    BY <1>1, <2>8, <2>9 DEF Accounted
  <2> QED BY <1>1, <2>7, <2>10 DEF ConnTypeOK
<1> QED BY <1>3, <1>4

(* The object is connected, and the reference of its making given back.    *)
LEMMA ConnectedCounted ==
  ASSUME ConnTypeOK, LinkTypes, Accounted, bl_connected
  PROVE  ConnTypeOK' /\ Accounted'
<1>0. PICK s \in Slots : s = connecting
  BY DEF bl_connected, LinkTypes
<1>1. conns \in [Slots -> Conn] /\ conns[s].ref \in Int /\ "CONNECTED" \in States
  BY DEF ConnTypeOK, Conn, States
<1>2. /\ UNCHANGED << rx, owned, held, holds, running, incoming >>
      /\ connecting' = NULL /\ ble_bl_conn' = s
  BY <1>0 DEF bl_connected
<1> DEFINE up == bt_conn_set_state(conns, s, "CONNECTED")
<1>3. /\ up \in [Slots -> Conn]
      /\ \A t \in Slots : t # s => up[t] = conns[t]
      /\ up[s].state = "CONNECTED" /\ up[s].work = conns[s].work /\ up[s].link = conns[s].link
      /\ up[s].cleanup <=> conns[s].cleanup
      /\ conns[s].state = "DISCONNECTED" => up[s].ref = conns[s].ref + 1
  BY <1>1, SetState
<1>4. conns' = bt_conn_unref(up, s)
  BY <1>0 DEF bl_connected
<1> HIDE DEF up
<1>5. /\ conns' \in [Slots -> Conn]
      /\ \A t \in Slots : t # s => conns'[t] = conns[t]
      /\ conns'[s].state = "CONNECTED" /\ conns'[s].work = conns[s].work
      /\ conns'[s].link = conns[s].link
      /\ conns'[s].cleanup <=> conns[s].cleanup
      /\ conns[s].state = "DISCONNECTED" => conns'[s].ref = conns[s].ref
  BY <1>1, <1>3, <1>4, Unref
<1>6. ASSUME Calm PROVE OneLink' /\ \A t \in Slots : Counted(t)' /\ Settled(t)'
  <2>1. Counted(s) /\ Settled(s) /\ s # NULL
    BY <1>6, SlotFacts
  <2>2. conns[s].work = "none" /\ ~ conns[s].cleanup
    BY <1>6, RxRuns DEF bl_connected
  <2>3. rx = NULL /\ conns[s].state = "DISCONNECTED" /\ conns[s].link # "none"
    BY <1>0, <2>1 DEF Settled
  <2>4. Counted(s)'
    <3>1. conns[s].ref = 1
      BY <1>0, <2>1, <2>2, <2>3 DEF Counted, ByState
    <3> QED BY <1>2, <1>5, <2>1, <2>3, <3>1 DEF Counted, ByState
  <2>5. Settled(s)'
    BY <1>2, <1>5, <2>1, <2>2, <2>3 DEF Settled
  <2>6. ASSUME NEW t \in Slots, t # s PROVE Counted(t)' /\ Settled(t)'
    <3>1. Counted(t) /\ Settled(t) /\ t # NULL
      BY <1>6, SlotFacts
    <3>2. conns[t].state # "CONNECTED"
      BY <1>0, <2>1, <3>1 DEF Settled
    <3>3. conns'[t] = conns[t] /\ connecting # t /\ connecting' # t
      BY <1>0, <1>2, <1>5, <2>6, <3>1
    <3> QED BY <1>2, <3>1, <3>2, <3>3, SlotKept
  <2>7. OneLink'
    BY <1>2, <1>5, <1>6 DEF Accounted, OneLink
  <2> QED BY <2>4, <2>5, <2>6, <2>7
<1>7. Calm' => Calm
  BY <1>2 DEF Calm
<1>8. Accounted'
  BY <1>2, <1>6, <1>7 DEF Accounted
<1> QED BY <1>2, <1>5, <1>8 DEF ConnTypeOK

(* The end of a link is found: it was that of the connected object.        *)
LEMMA EndFound ==
  ASSUME ConnTypeOK, Accounted, DisconnBegin
  PROVE  ConnTypeOK' /\ Accounted'
<1>0. PICK s \in Slots : hci_disconn_complete(s)
  BY DEF DisconnBegin
<1> DEFINE down == WithLink(conns, s, "none")
           counted == bt_conn_ref(down, s)
<1>1. conns \in [Slots -> Conn] /\ rx = NULL /\ connecting = NULL /\ conns[s].ref \in Int
      /\ "DISCONNECTED" \in States
  BY <1>0 DEF ConnTypeOK, hci_disconn_complete, DisconnBegin, Conn, States
<1>2. /\ down \in [Slots -> Conn] /\ \A t \in Slots : t # s => down[t] = conns[t]
      /\ down[s].ref = conns[s].ref /\ down[s].state = conns[s].state
      /\ down[s].work = conns[s].work /\ down[s].link = "none"
      /\ down[s].cleanup <=> conns[s].cleanup
  BY <1>1, SetLink
<1>3. IF conns[s].ref # 0 /\ conns[s].state \in {"CONNECTED", "DISCONNECT"}
        THEN conns' = bt_conn_set_state(counted, s, "DISCONNECTED") /\ rx' = s
        ELSE conns' = down /\ rx' = rx
  BY <1>0 DEF hci_disconn_complete, WithLink
<1> HIDE DEF down
<1>4. /\ counted \in [Slots -> Conn] /\ \A t \in Slots : t # s => counted[t] = conns[t]
      /\ counted[s].ref = conns[s].ref + 1 /\ counted[s].state = conns[s].state
      /\ counted[s].work = conns[s].work /\ counted[s].link = "none"
      /\ counted[s].cleanup <=> conns[s].cleanup
  BY <1>2, Ref
<1> HIDE DEF counted
<1>5. /\ conns' \in [Slots -> Conn] /\ \A t \in Slots : t # s => conns'[t] = conns[t]
      /\ conns'[s].link = "none"
  BY <1>1, <1>2, <1>3, <1>4, SetState
<1>6. /\ UNCHANGED << owned, held, holds, running, ble_bl_conn, connecting, incoming >>
      /\ conns[s].link = "down"
  BY <1>0 DEF hci_disconn_complete, DisconnBegin, appVars, linkVars
<1>7. ASSUME Calm PROVE OneLink' /\ \A t \in Slots : Counted(t)' /\ Settled(t)'
  <2>1. Counted(s) /\ Settled(s) /\ s # NULL
    BY <1>7, SlotFacts
  <2>2. conns[s].state = "CONNECTED" /\ ble_bl_conn = s
    BY <1>1, <1>6, <2>1 DEF Settled
  <2>3. conns[s].work = "none" /\ ~ conns[s].cleanup
    BY <1>7, RxRuns DEF DisconnBegin
  <2>4. conns[s].ref = 1
    BY <1>1, <2>1, <2>2, <2>3 DEF Counted, ByState
  <2>5. conns' = bt_conn_set_state(counted, s, "DISCONNECTED") /\ rx' = s
    BY <1>3, <2>2, <2>4
  <2>6. /\ conns'[s].state = "DISCONNECTED" /\ conns'[s].ref = 2
        /\ conns'[s].work = "none" /\ conns'[s].cleanup
    BY <1>1, <1>4, <2>2, <2>3, <2>4, <2>5, SetState
  <2>7. Counted(s)'
    BY <1>1, <1>6, <2>1, <2>5, <2>6 DEF Counted, ByState
  <2>8. Settled(s)'
    BY <1>1, <1>5, <1>6, <2>1, <2>5, <2>6 DEF Settled
  <2>9. ASSUME NEW t \in Slots, t # s PROVE Counted(t)' /\ Settled(t)'
    <3>1. Counted(t) /\ Settled(t) /\ t # NULL
      BY <1>7, SlotFacts
    <3>2. conns[t].state # "CONNECTED"
      BY <2>2, <2>9, <3>1 DEF Settled
    <3>3. conns'[t] = conns[t] /\ rx # t /\ rx' # t /\ connecting # t /\ connecting' # t
      BY <1>1, <1>5, <1>6, <2>5, <2>9, <3>1
    <3> QED BY <3>1, <3>2, <3>3, SlotKept
  <2>10. OneLink'
    BY <1>5, <1>6, <1>7 DEF Accounted, OneLink
  <2> QED BY <2>7, <2>8, <2>9, <2>10
<1>8. Calm' => Calm
  BY <1>6 DEF Calm
<1>9. Accounted'
  BY <1>6, <1>7, <1>8 DEF Accounted
<1>10. rx' \in Slots \union {NULL}
  BY <1>1, <1>3
<1> QED BY <1>5, <1>6, <1>9, <1>10 DEF ConnTypeOK

(* atomic_clear: the work queue has reported the end by then, so that the  *)
(* receive thread's reference is the last.                                 *)
LEMMA RefCleared ==
  ASSUME ConnTypeOK, Accounted, DisconnEnd
  PROVE  ConnTypeOK' /\ Accounted'
<1>0. PICK s \in Slots : s = rx
  BY DEF ConnTypeOK, DisconnEnd, clear_ref
<1>1. conns \in [Slots -> Conn] /\ owned \in [Slots -> Int] /\ conns[s] \in Conn
      /\ conns[s].ref \in Int /\ owned[s] \in Int
  BY DEF ConnTypeOK, Conn
<1>2. /\ conns' = [conns EXCEPT ![s].ref = 0] /\ rx' = NULL
      /\ owned' = [owned EXCEPT ![s] = IF owned[s] > 0 THEN 0 ELSE owned[s]]
      /\ UNCHANGED << held, holds, running, ble_bl_conn, connecting, incoming >>
  BY <1>0 DEF DisconnEnd, clear_ref, appVars, linkVars
<1>3. [conns[s] EXCEPT !.ref = 0] \in Conn
  BY <1>1 DEF Conn
<1>4. conns' \in [Slots -> Conn] /\ \A t \in Slots : t # s => conns'[t] = conns[t]
  BY <1>1, <1>2, <1>3
<1>5. /\ conns'[s].ref = 0 /\ conns'[s].state = conns[s].state
      /\ conns'[s].work = conns[s].work /\ conns'[s].link = conns[s].link
      /\ conns'[s].cleanup <=> conns[s].cleanup
  BY <1>1, <1>2 DEF Conn
<1>6. owned' \in [Slots -> Int]
  BY <1>1, <1>2
<1>7. ASSUME Calm PROVE OneLink' /\ \A t \in Slots : Counted(t)' /\ Settled(t)'
  <2>1. Counted(s) /\ Settled(s) /\ s # NULL
    BY <1>7, SlotFacts
  <2>2. conns[s].work = "none" /\ ~ conns[s].cleanup
    BY <1>7, RxRuns DEF DisconnEnd
  <2>3. conns[s].state = "DISCONNECTED" /\ connecting # s /\ conns[s].link = "none"
    BY <1>0, <2>1 DEF Settled
  <2>4. Counted(s)'
    BY <1>2, <1>5, <2>1, <2>2, <2>3 DEF Counted, ByState
  <2>5. Settled(s)'
    BY <1>2, <1>5, <2>1, <2>2, <2>3 DEF Settled
  <2>6. ASSUME NEW t \in Slots, t # s PROVE Counted(t)' /\ Settled(t)'
    <3>1. Counted(t) /\ Settled(t) /\ t # NULL
      BY <1>7, SlotFacts
    <3>2. conns[t].state # "CONNECTED"
      BY <1>0, <2>1, <3>1 DEF Settled
    <3>3. conns'[t] = conns[t] /\ rx # t /\ rx' # t /\ (connecting' = t <=> connecting = t)
      BY <1>0, <1>2, <1>4, <2>6, <3>1
    <3> QED BY <1>2, <3>1, <3>2, <3>3, SlotKept
  <2>7. OneLink'
    BY <1>2, <1>4, <1>5, <1>7 DEF Accounted, OneLink
  <2> QED BY <2>4, <2>5, <2>6, <2>7
<1>8. Calm' => Calm
  BY <1>2 DEF Calm
<1>9. Accounted'
  BY <1>2, <1>7, <1>8 DEF Accounted
<1> QED BY <1>2, <1>4, <1>6, <1>9 DEF ConnTypeOK

(* bl_disconnected clears ble_bl_conn: nothing is connected while the end  *)
(* of a connection is handled.                                             *)
LEMMA ReportCounted ==
  ASSUME ConnTypeOK, Accounted, bl_disconnected
  PROVE  ConnTypeOK' /\ Accounted'
<1>1. UNCHANGED << conns, rx, owned, held, holds, running, connecting, incoming >>
  BY DEF bl_disconnected, connVars, linkVars
<1>2. PICK s \in Slots : conns[s].work = "reporting"
  BY DEF bl_disconnected
<1>3. ASSUME Calm, NEW t \in Slots PROVE Counted(t)' /\ Settled(t)'
  <2>1. Counted(t) /\ Settled(t)
    BY <1>3, SlotFacts
  <2>2. rx = s /\ s # NULL
    BY <1>2, <1>3, SlotFacts DEF Settled
  <2>3. conns[t].state # "CONNECTED"
    BY <2>1, <2>2 DEF Settled
  <2>4. conns'[t] = conns[t] /\ rx' = rx /\ connecting' = connecting /\ (connecting = t => rx = NULL)
    BY <1>1, <2>1 DEF Settled
  <2> QED BY <2>1, <2>3, <2>4, SlotKept
<1>4. Accounted'
  BY <1>1, <1>3 DEF Accounted, Calm, OneLink
<1> QED BY <1>1, <1>4 DEF ConnTypeOK

(* A state with new objects is sound.                                      *)
LEMMA FreshConns ==
  /\ [s \in Slots |-> NewConn] \in [Slots -> Conn]
  /\ NewConn.ref = 0 /\ NewConn.state = "DISCONNECTED" /\ ~ NewConn.cleanup
  /\ NewConn.work = "none" /\ NewConn.link = "none"
<1>1. NewConn \in Conn
  BY DEF NewConn, Conn, States
<1>2. NewConn.ref = 0 /\ NewConn.state = "DISCONNECTED" /\ NewConn.work = "none"
      /\ NewConn.link = "none"
  BY DEF NewConn
<1>3. ~ NewConn.cleanup
  BY DEF NewConn
<1> QED BY <1>1, <1>2, <1>3

(* The reset leaves nothing of the connections.                            *)
LEMMA RestartCounted ==
  ASSUME ConnTypeOK, AppRestart
  PROVE  ConnTypeOK' /\ Accounted'
<1>1. /\ conns' = [s \in Slots |-> NewConn] /\ rx' = NULL /\ held' = {} /\ connecting' = NULL
      /\ incoming' = "none" /\ UNCHANGED << owned, holds >>
  BY DEF AppRestart
<1>2. ConnTypeOK'
  BY <1>1, FreshConns DEF ConnTypeOK
<1>3. ASSUME NEW s \in Slots PROVE Counted(s)' /\ Settled(s)'
  <2>1. conns'[s] = NewConn
    BY <1>1
  <2>2. s # NULL
    BY ConnAssumption DEF Slots, NULL
  <2>3. Counted(s)'
    BY <1>1, <2>1, <2>2, FreshConns DEF Counted, ByState
  <2>4. Settled(s)'
    BY <1>1, <2>1, <2>2, FreshConns DEF Settled
  <2> QED BY <2>3, <2>4
<1>4. Accounted'
  BY <1>1, <1>3 DEF Accounted, OneLink
<1> QED BY <1>2, <1>4

(* The rest of the environment.                                            *)
LEMMA OutsideCounted ==
  ASSUME ConnTypeOK, Accounted, Connect \/ Reset \/ HoldThread \/ ReleaseThread
  PROVE  ConnTypeOK' /\ Accounted'
<1>1. CASE Connect
  <2>1. UNCHANGED << conns, rx, owned, held, holds, running, ble_bl_conn, connecting >>
    BY <1>1 DEF Connect, connVars, appVars
  <2>2. \A s \in Slots : conns[s].link # "up"
    BY <1>1 DEF Connect, NoLink
  <2>3. OneLink'
    BY <2>1, <2>2 DEF OneLink
  <2>4. Accounted'
    BY <2>1, <2>3 DEF Accounted, Calm, Counted, Settled, ByState
  <2> QED BY <2>1, <2>4 DEF ConnTypeOK
<1>2. CASE Reset
  BY <1>2 DEF Reset, connVars, ConnTypeOK, Accounted, Calm
<1>3. CASE HoldThread
  <2>1. PICK t \in Threads : Hold(t)
    BY <1>3 DEF HoldThread
  <2>2. /\ UNCHANGED << conns, rx, owned >> /\ held' = held \union {t}
        /\ holds < MaxHolds /\ holds' = holds + 1
    BY <2>1 DEF Hold
  <2>3. holds \in 0 .. MaxHolds /\ MaxHolds \in Nat
    BY ConnAssumption DEF ConnTypeOK
  <2>4. holds' \in 0 .. MaxHolds /\ holds' # 0
    BY <2>2, <2>3
  <2>5. ConnTypeOK'
    BY <2>1, <2>2, <2>4 DEF ConnTypeOK
  <2> QED BY <2>4, <2>5 DEF Accounted, Calm
<1>4. CASE ReleaseThread
  <2>1. /\ held' \subseteq held
        /\ UNCHANGED << conns, rx, owned, holds, running, ble_bl_conn, connecting, incoming >>
    BY <1>4 DEF ReleaseThread, Release, appVars, linkVars
  <2>2. Accounted'
    BY <2>1 DEF Accounted, Calm, OneLink, Counted, Settled, ByState
  <2> QED BY <2>1, <2>2 DEF ConnTypeOK
<1> QED BY <1>1, <1>2, <1>3, <1>4

-------------------------------------------------------------------------------
(* The theorems.                                                           *)

(* The invariant holds when the application starts ...                     *)
LEMMA InitHolds == Init => IInv
<1> SUFFICES ASSUME Init PROVE IInv
  OBVIOUS
<1>1. /\ conns = [s \in Slots |-> NewConn] /\ rx = NULL /\ held = {} /\ connecting = NULL
      /\ incoming = "none" /\ owned = [s \in Slots |-> 0] /\ holds = 0
  BY DEF Init, ConnInit
<1>2. ConnTypeOK
  <2>1. 0 \in 0 .. MaxHolds
    BY ConnAssumption
  <2>2. owned \in [Slots -> Int]
    BY <1>1
  <2> QED BY <1>1, <2>1, <2>2, FreshConns DEF ConnTypeOK
<1>3. ASSUME NEW s \in Slots PROVE Counted(s) /\ Settled(s)
  <2>1. conns[s] = NewConn
    BY <1>1
  <2>2. s # NULL
    BY ConnAssumption DEF Slots, NULL
  <2>3. Counted(s)
    BY <1>1, <2>1, <2>2, FreshConns DEF Counted, ByState
  <2>4. Settled(s)
    BY <1>1, <2>1, <2>2, FreshConns DEF Settled
  <2> QED BY <2>3, <2>4
<1>4. Accounted
  BY <1>1, <1>3 DEF Accounted, OneLink
<1>5. AppTypes /\ FlagTypes
  BY DEF Init, AppTypes, FlagTypes
<1>6. CountTypes
  BY TrainAssumption DEF Init, CountTypes
<1>7. AdvTypes
  <2>1. call \in [Callers -> {"none", "disable", "param", "enable"}]
    BY DEF Init, EnableCallback
  <2> QED BY <2>1 DEF Init, AdvTypes
<1>8. LinkTypes
  BY DEF Init, LinkTypes, Links
<1> QED BY <1>2, <1>4, <1>5, <1>6, <1>7, <1>8, Groups DEF IInv

(* ... every step keeps it ...                                             *)
LEMMA StepHolds == IInv /\ [Next]_vars => IInv'
<1> SUFFICES ASSUME IInv, [Next]_vars PROVE IInv'
  OBVIOUS
<1>1. ConnTypeOK /\ AppTypes /\ CountTypes /\ FlagTypes /\ AdvTypes /\ LinkTypes /\ Accounted
  BY Groups DEF IInv
<1>2. AppTypes' /\ CountTypes' /\ FlagTypes' /\ AdvTypes' /\ LinkTypes'
  BY <1>1, AppTyped, CountTyped, FlagsTyped, AdvTyped, LinkTyped
<1>3. ConnTypeOK' /\ Accounted'
  <2>1. CASE \E t \in Callers : Answered(t)
    BY <1>1, <2>1, AnsweredCounted
  <2>2. CASE UNCHANGED << connVars, running, ble_bl_conn, connecting, incoming >>
    <3>1. UNCHANGED << conns, rx, held, holds, running, ble_bl_conn, connecting, incoming >>
      BY <2>2 DEF connVars
    <3>2. Accounted'
      BY <1>1, <3>1, Aside
    <3> QED BY <1>1, <2>2, <3>2 DEF ConnTypeOK, connVars
  <2>3. CASE WaitTimeout \/ TakeSem \/ ble_app_recv \/ StrayGone \/ UNCHANGED vars
    <3>1. UNCHANGED << connVars, running, ble_bl_conn, connecting, incoming >>
      BY <2>3, Zenon DEF WaitTimeout, TakeSem, ble_app_recv, StrayGone, vars, appVars, linkVars
    <3> QED BY <2>2, <3>1
  <2>4. CASE Connect \/ Reset \/ HoldThread \/ ReleaseThread
    BY <1>1, <2>4, OutsideCounted
  <2>5. CASE AppRestart \/ Drop \/ Cleanup \/ L2capDisconnected \/ bl_disconnected
    BY <1>1, <2>5, RestartCounted, DropCounted, CleanupCounted, L2capCounted, ReportCounted
  <2>6. CASE enh_conn_complete \/ bl_connected \/ DisconnBegin \/ DisconnEnd
    BY <1>1, <2>6, NewCounted, ConnectedCounted, EndFound, RefCleared
  <2> QED BY <2>1, <2>3, <2>4, <2>5, <2>6 DEF Next
<1> QED BY <1>2, <1>3, Groups DEF IInv

(* ... and so it always holds.                                             *)
LEMMA Invariance == Spec => []IInv
  BY InitHolds, StepHolds, PTL DEF Spec

(* The train's variables keep their types; adv_duration stays below its    *)
(* limit.                                                                  *)
THEOREM TypeCorrect == Spec => []TypeOK
<1>1. IInv => TypeOK
  BY DEF IInv
<1> QED BY <1>1, Invariance, PTL

(* The count of a connection object is the number of its users, so the     *)
(* last reference is dropped in the cleanup, with any number of objects.   *)
THEOREM LastRefDropped == Spec => []LastRefDroppedInCleanup
<1>1. IInv => LastRefDroppedInCleanup
  <2> SUFFICES ASSUME IInv, running, holds = 0, NEW s \in Slots
               PROVE  conns[s].ref = (IF ByState(s) THEN 1 ELSE 0) + (IF rx = s THEN 1 ELSE 0)
                                     + (IF connecting = s THEN 1 ELSE 0)
    BY DEF LastRefDroppedInCleanup, ByState
  <2>1. Counted(s)
    BY DEF IInv, Accounted, Calm
  <2> QED BY <2>1 DEF Counted
<1> QED BY <1>1, Invariance, PTL

(* The object that is connected is the one ble_bl_conn points to: the      *)
(* train does not sleep through a connection.                              *)
THEOREM ConnectedIsAwake == Spec => []AwakeWhileConnected
<1>1. IInv => AwakeWhileConnected
  <2> SUFFICES ASSUME IInv, NEW s \in Slots, running, holds = 0, conns[s].state = "CONNECTED"
               PROVE  ble_bl_conn = s
    BY DEF AwakeWhileConnected
  <2>1. Settled(s)
    BY DEF IInv, Accounted, Calm
  <2> QED BY <2>1 DEF Settled
<1> QED BY <1>1, Invariance, PTL
================================================================================
