----------------------------- MODULE FirmwareUpdate -----------------------------
(***************************************************************************)
(* A firmware update from the phone to the robot: the update job of        *)
(* FirmwareUpdateHandler.kt, the connection callbacks of the service that  *)
(* run beside it, and the robot's bootloader at the other end of the link. *)
(* Timeouts are untimed: a wait for a response may end whenever the queue  *)
(* is empty.  An environment fault (the link breaks, the robot loses       *)
(* power, a flash operation, a connection attempt or a local write fails,  *)
(* a response comes after its timeout) uses up one of MaxFaults.           *)
(***************************************************************************)
EXTENDS LoaderDevice, GattService

CONSTANTS
  PageRetries,     \* attempts at one page (10)
  EraseWaits,      \* waits for a connection after the erase command (4)
  ConnectRetries,  \* waits for a connection after a failed page (5)
  MaxFaults        \* bound on the number of faults

ASSUME UpdateAssumption ==
  /\ {PageRetries, EraseWaits, ConnectRetries} \subseteq Nat \ {0}
  /\ MaxFaults \in Nat

VARIABLES
  job,        \* where onStartUpdatingFirmware is, with its local variables
  cursor,     \* chunks read from firmwareData since its last reset
  rxQueue,    \* responses received and not yet looked at
  faults,     \* faults so far
  incidents   \* what has happened that the protocol does not survive

handlerVars == << job, cursor, rxQueue >>
envVars == << faults, incidents >>
vars == << devVars, svcVars, handlerVars, envVars >>

(* Positions of the job: each is a point where it waits or calls out.      *)
PagePhase == {"page", "part1", "part2", "await", "failed", "waitPage"}
Ended == {"COMPLETE", "FAILURE", "cancelled"}
Positions ==
  {"check", "drain", "acquire", "verify", "verifyWait", "magic", "makeNew",
   "makeWait", "erase", "waitErase", "start", "sysreset", "fail"}
  \union PagePhase \union Ended

(* The calls of verifyInBootloaderMode, in the order of the text: before   *)
(* anything, in the bootloader, after a silent erase, before the first     *)
(* page, and after a failed page.                                          *)
Calls == 1 .. 5

Jobs == [pc: Positions, call: Calls, retry: 0 .. PageRetries + EraseWaits,
         rc: 0 .. ConnectRetries, chunk: 0 .. ImagePages, addr: Nat]

At(pc) == job.pc = pc
Goto(pc) == [job EXCEPT !.pc = pc]
Verify(n) == [job EXCEPT !.pc = "verify", !.call = n]

Sending == job.pc \in PagePhase \/ (job.pc \in {"verify", "verifyWait"} /\ job.call = 5)

Init ==
  /\ DeviceInit
  /\ ServiceInit
  /\ indicate = notificationReady
  /\ job = [pc |-> "check", call |-> 1, retry |-> 0, rc |-> 0, chunk |-> 0, addr |-> 0]
  /\ cursor = 0
  /\ rxQueue = << >>
  /\ faults = 0
  /\ incidents = {}

Fault == faults < MaxFaults /\ faults' = faults + 1

-------------------------------------------------------------------------------
(* An erase command is lost with the link it was sent over, with the       *)
(* robot's memory, under a command that follows it too soon, because it    *)
(* reaches the train firmware, or when the flash driver fails.             *)
EraseIn(q) == \E i \in DOMAIN q : q[i].cmd.cmd = "erase"
LostWith(dropped) == IF dropped THEN {"erase lost"} ELSE {}

(* writeRawData: the fragment is handed to the radio; or the write fails   *)
(* (no handle, or link already gone); or it is not confirmed within two    *)
(* seconds, and the fragment may have gone out all the same: its answer is *)
(* then as misleading as a late one.                                       *)
writeRawData(f, yes, no) ==
  /\ \/ /\ handles
        /\ up' = IF link THEN Append(up, f) ELSE up
        /\ job' = yes
        /\ incidents' = incidents \union LostWith(~ link /\ f.cmd.cmd = "erase")
        /\ UNCHANGED faults
     \/ /\ IF handles /\ link THEN Fault ELSE UNCHANGED faults
        /\ job' = no
        /\ UNCHANGED << up, incidents >>
     \/ /\ handles /\ link
        /\ Fault
        /\ up' = Append(up, f)
        /\ job' = no
        /\ incidents' = incidents \union {"late response"}
  /\ UNCHANGED << mode, link, indicate, rx, pending, flash, down >>

(* The robot has not yet dealt with, or answered, what it was sent. *)
RobotBusy == link /\ (up # << >> \/ pending # NoCommand \/ down # << >>)

(* A wait of the job runs into its timeout.  A response that comes later   *)
(* will be taken for the answer to a later command.                        *)
Timeout ==
  IF RobotBusy
    THEN Fault /\ incidents' = incidents \union {"late response"}
    ELSE UNCHANGED << faults, incidents >>

-------------------------------------------------------------------------------
(* The update job, in the order of onStartUpdatingFirmware.                *)

(* connectIfNeeded: a ready connection is used as it is. *)
CheckConnection ==
  /\ At("check")
  /\ job' = IF IsConnected THEN Verify(1) ELSE Goto("drain")
  /\ UNCHANGED << devVars, svcVars, cursor, rxQueue, envVars >>

(* connectIfNeeded drops old permits and calls reconnect. *)
DrainAndReconnect ==
  /\ At("drain")
  /\ con_sem' = 0
  /\ connectToDevice(gatt, user_retry)
  /\ job' = Goto("acquire")
  /\ UNCHANGED << devVars, cursor, rxQueue, envVars, servicesReady,
                  notificationReady, handles, notifyQueued, is_retry_connect >>

(* con_sem.acquire() has no timeout. *)
AcquireConnection ==
  /\ At("acquire")
  /\ con_sem > 0
  /\ con_sem' = con_sem - 1
  /\ job' = Verify(1)
  /\ UNCHANGED << devVars, cursor, rxQueue, envVars, gatt, servicesReady,
                  notificationReady, handles, notifyQueued, is_retry_connect, user_retry >>

(* Mutants: attempts are counted but never given up; not even counted.     *)
NextAttempt_NoLimit(j) == [j EXCEPT !.retry = @ - 1, !.pc = "page"]
NextAttempt_Forever(j) == [j EXCEPT !.pc = "page"]

(* A page attempt is over without success: another one, or give up.        *)
NextAttempt(j) ==
  IF j.retry = 1 THEN [j EXCEPT !.retry = 0, !.pc = "fail"]
                 ELSE [j EXCEPT !.retry = @ - 1, !.pc = "page"]

(* Where the job goes on after verifyInBootloaderMode returned ok.         *)
Verified(ok) ==
  CASE job.call = 1 -> IF ok THEN Verify(2) ELSE Goto("magic")
    [] job.call = 2 -> IF ok THEN Goto("erase") ELSE Goto("fail")
    [] job.call = 3 -> IF ok \/ job.retry = 1 THEN Verify(4)
                       ELSE [job EXCEPT !.retry = @ - 1, !.pc = "waitErase"]
    [] job.call = 4 -> IF ok THEN Goto("start") ELSE Goto("fail")
    [] job.call = 5 -> IF ok THEN NextAttempt(job)
                       ELSE IF job.rc = 1 THEN [job EXCEPT !.rc = 0, !.pc = "fail"]
                       ELSE [job EXCEPT !.rc = @ - 1, !.pc = "waitPage"]

(* verifyInBootloaderMode sends a read of the flash id ... *)
VerifySend ==
  /\ At("verify")
  /\ rxQueue' = << >>
  /\ writeRawData(Fragment(Simple("jedec"), 0), Goto("verifyWait"), Verified(FALSE))
  /\ UNCHANGED << svcVars, cursor >>

(* ... and is content with any response. *)
VerifyAnswered ==
  /\ At("verifyWait")
  /\ rxQueue # << >>
  /\ job' = Verified(TRUE)
  /\ UNCHANGED << devVars, svcVars, cursor, rxQueue, envVars >>

VerifyTimeout ==
  /\ At("verifyWait")
  /\ rxQueue = << >>
  /\ Timeout
  /\ job' = Verified(FALSE)
  /\ UNCHANGED << devVars, svcVars, cursor, rxQueue >>

(* enterBootLoaderMode: the magic word and clearConnnectionStatus ...       *)
SendMagic ==
  /\ At("magic")
  /\ writeRawData(Fragment(Simple("magic"), 0), Goto("makeNew"), Goto("fail"))
  /\ con_sem' = IF job'.pc = "makeNew" THEN 0 ELSE con_sem
  /\ UNCHANGED << cursor, rxQueue, gatt, servicesReady, notificationReady, handles,
                  notifyQueued, is_retry_connect, user_retry >>

(* ... and, two seconds later, enableReconnect and makeNewConnection, which *)
(* closes the connection it has.                                           *)
MakeNewConnection ==
  /\ At("makeNew")
  /\ is_retry_connect' = TRUE
  /\ CloseFlags
  /\ connectToDevice("null", user_retry)
  /\ rxQueue' = << >>
  /\ cursor' = 0
  /\ job' = Goto("makeWait")
  /\ bl_disconnected
  /\ UNCHANGED << mode, rx, pending, flash, envVars, con_sem >>

MakeNewDone ==
  /\ At("makeWait")
  /\ con_sem > 0
  /\ con_sem' = con_sem - 1
  /\ job' = Verify(2)
  /\ UNCHANGED << devVars, cursor, rxQueue, envVars, gatt, servicesReady,
                  notificationReady, handles, notifyQueued, is_retry_connect, user_retry >>

MakeNewTimeout ==
  /\ At("makeWait")
  /\ con_sem = 0
  /\ job' = Goto("fail")
  /\ UNCHANGED << devVars, svcVars, cursor, rxQueue, envVars >>

(* clearConnnectionStatus, enableReconnect and eraseFlash.  The response to *)
(* the erase command is not waited for.                                    *)
eraseFlash ==
  /\ At("erase")
  /\ con_sem' = 0
  /\ is_retry_connect' = TRUE
  /\ rxQueue' = << >>
  /\ writeRawData(Fragment(Simple("erase"), 0),
                  [job EXCEPT !.retry = EraseWaits, !.pc = "waitErase"], Goto("fail"))
  /\ UNCHANGED << cursor, gatt, servicesReady, notificationReady, handles,
                  notifyQueued, user_retry >>

(* waitNewConnection after the erase command: a new connection.  The       *)
(* permit may be that of a connection made before the command was sent;    *)
(* the job then goes on while the robot is still busy with it ...          *)
EraseReconnected ==
  /\ At("waitErase")
  /\ con_sem > 0
  /\ con_sem' = con_sem - 1
  /\ job' = Verify(4)
  /\ incidents' = IF RobotBusy THEN incidents \union {"stale permit"} ELSE incidents
  /\ UNCHANGED << devVars, cursor, rxQueue, faults, gatt, servicesReady,
                  notificationReady, handles, notifyQueued, is_retry_connect, user_retry >>

(* ... or none in five seconds: ask whether the old one still works.       *)
EraseWaitTimeout ==
  /\ At("waitErase")
  /\ con_sem = 0
  /\ Timeout
  /\ job' = Verify(3)
  /\ UNCHANGED << devVars, svcVars, cursor, rxQueue >>

-------------------------------------------------------------------------------
(* The first chunk and the loop over the pages. *)
StartPages ==
  /\ At("start")
  /\ cursor' = 1
  /\ job' = [job EXCEPT !.pc = "page", !.chunk = 1, !.addr = 1, !.retry = PageRetries]
  /\ UNCHANGED << devVars, svcVars, rxQueue, envVars >>

(* sendOnePage starts by dropping the responses it has to earlier commands. *)
(* What is still under way of an earlier attempt will mix with this one.    *)
BeginPage ==
  /\ At("page")
  /\ rxQueue' = << >>
  /\ job' = Goto("part1")
  /\ incidents' = IF RobotBusy THEN incidents \union {"attempts overlap"} ELSE incidents
  /\ UNCHANGED << devVars, svcVars, cursor, faults >>

(* A response while fragments are still to be sent ends the attempt. *)
UnexpectedResponse ==
  /\ At("part1") \/ At("part2")
  /\ rxQueue # << >>
  /\ rxQueue' = Tail(rxQueue)
  /\ job' = Goto("failed")
  /\ UNCHANGED << devVars, svcVars, cursor, envVars >>

PageCommand == Write(job.addr, Chunk(job.chunk))

SendPart1 ==
  /\ At("part1")
  /\ rxQueue = << >>
  /\ writeRawData(Fragment(PageCommand, 1), Goto("part2"), Goto("failed"))
  /\ UNCHANGED << svcVars, cursor, rxQueue >>

SendPart2 ==
  /\ At("part2")
  /\ rxQueue = << >>
  /\ writeRawData(Fragment(PageCommand, 2), Goto("await"), Goto("failed"))
  /\ UNCHANGED << svcVars, cursor, rxQueue >>

(* Mutant: the next chunk goes to the same address. *)
NextPage_SameAddress ==
  IF cursor < ImagePages
    THEN /\ job' = [job EXCEPT !.pc = "page", !.retry = PageRetries, !.chunk = cursor + 1]
         /\ cursor' = cursor + 1
    ELSE /\ job' = Goto("sysreset")
         /\ UNCHANGED cursor

(* After a page: advance by a chunk, take the next one from firmwareData.  *)
NextPage ==
  IF cursor < ImagePages
    THEN /\ job' = [job EXCEPT !.pc = "page", !.retry = PageRetries,
                               !.addr = @ + 1, !.chunk = cursor + 1]
         /\ cursor' = cursor + 1
    ELSE /\ job' = [job EXCEPT !.pc = "sysreset", !.addr = @ + 1]
         /\ UNCHANGED cursor

(* getResponse: two bytes starting with 'O' are success. *)
IsOK(r) == r = "OK"

getResponse ==
  /\ At("await")
  /\ rxQueue # << >>
  /\ rxQueue' = Tail(rxQueue)
  /\ IF IsOK(Head(rxQueue))
       THEN NextPage
       ELSE job' = Goto("failed") /\ UNCHANGED cursor
  /\ UNCHANGED << devVars, svcVars, envVars >>

(* Mutant: silence is taken for success. *)
getResponseTimeout_OK ==
  /\ At("await")
  /\ rxQueue = << >>
  /\ Timeout
  /\ NextPage
  /\ UNCHANGED << devVars, svcVars, rxQueue >>

getResponseTimeout ==
  /\ At("await")
  /\ rxQueue = << >>
  /\ Timeout
  /\ job' = Goto("failed")
  /\ UNCHANGED << devVars, svcVars, cursor, rxQueue >>

(* A failed page is tried again at once on a connection that looks ready.  *)
PageFailed ==
  /\ At("failed")
  /\ job' = IF IsConnected THEN NextAttempt(job)
            ELSE [job EXCEPT !.rc = ConnectRetries, !.pc = "waitPage"]
  /\ UNCHANGED << devVars, svcVars, cursor, rxQueue, envVars >>

PageReconnected ==
  /\ At("waitPage")
  /\ con_sem > 0
  /\ con_sem' = con_sem - 1
  /\ job' = NextAttempt(job)
  /\ UNCHANGED << devVars, cursor, rxQueue, envVars, gatt, servicesReady,
                  notificationReady, handles, notifyQueued, is_retry_connect, user_retry >>

PageWaitTimeout ==
  /\ At("waitPage")
  /\ con_sem = 0
  /\ Timeout
  /\ job' = Verify(5)
  /\ UNCHANGED << devVars, svcVars, cursor, rxQueue >>

(* All chunks sent: the reset command, whose fate does not matter, and     *)
(* disableReconnect; the update is reported as done.                       *)
systemReset ==
  /\ At("sysreset")
  /\ is_retry_connect' = FALSE
  /\ user_retry' = 0
  /\ writeRawData(Fragment(Simple("reset"), 0), Goto("COMPLETE"), Goto("COMPLETE"))
  /\ UNCHANGED << cursor, rxQueue, gatt, servicesReady,
                  notificationReady, handles, notifyQueued, con_sem >>

(* disableReconnect and disconnectDevice. *)
ReportFailure ==
  /\ At("fail")
  /\ is_retry_connect' = FALSE
  /\ DisconnectDevice
  /\ bl_disconnected
  /\ job' = Goto("FAILURE")
  /\ UNCHANGED << mode, rx, pending, flash, cursor, rxQueue, envVars, con_sem >>

-------------------------------------------------------------------------------
(* Callbacks of the GATT connection, which run beside the job.             *)

(* onDisconnected(false), called by closeGattConnection: the response job  *)
(* is cancelled, the queue emptied and the firmware data rewound, whatever *)
(* the update job is doing.                                                *)
HandlerDisconnected ==
  /\ rxQueue' = << >>
  /\ cursor' = 0
  /\ job' = IF At("await") THEN Goto("failed") ELSE job
  /\ incidents' = IF Sending THEN incidents \union {"data rewound"} ELSE incidents

(* disconnect(): onDisconnected(true) also cancels the update job.         *)
ServiceDisconnect ==
  /\ CloseFlags
  /\ gatt' = "null"
  /\ rxQueue' = << >>
  /\ cursor' = 0
  /\ job' = IF job.pc \in Ended THEN job ELSE Goto("cancelled")
  /\ UNCHANGED << user_retry, incidents >>

(* retry_connect *)
retry_connect ==
  IF RetryAllowed
    THEN /\ RetryConnect
         /\ handles' = FALSE
         /\ notifyQueued' = FALSE
         /\ UNCHANGED << servicesReady, notificationReady, handlerVars, incidents >>
    ELSE ServiceDisconnect

(* The link is noticed to be gone, with GATT_SUCCESS ...                   *)
ConnectionLost ==
  /\ gatt = "connected"
  /\ ~ link
  /\ retry_connect
  /\ UNCHANGED << devVars, faults, con_sem, is_retry_connect >>

(* ... or with an error status, which closes the connection first.         *)
CloseAndRetry ==
  /\ IF RetryAllowed
       THEN CloseFlags /\ RetryConnect /\ HandlerDisconnected
       ELSE ServiceDisconnect
  /\ UNCHANGED << con_sem, is_retry_connect >>

ConnectionError ==
  /\ gatt = "connected"
  /\ ~ link
  /\ CloseAndRetry
  /\ UNCHANGED << devVars, faults >>

ConnectFails ==
  /\ gatt = "connecting"
  /\ Fault
  /\ CloseAndRetry
  /\ UNCHANGED devVars

(* onConnectionStateChange with STATE_CONNECTED, bl_connected on the robot. *)
Connected ==
  /\ gatt = "connecting"
  /\ ~ link
  /\ gatt' = "connected"
  /\ bl_connected
  /\ incidents' = incidents \union LostWith(pending.cmd = "erase")
  /\ UNCHANGED << handlerVars, faults, servicesReady, notificationReady, handles,
                  notifyQueued, con_sem, is_retry_connect, user_retry >>

onServicesDiscovered ==
  /\ link
  /\ ServicesDiscovered
  /\ UNCHANGED << devVars, handlerVars, envVars >>

(* Discovery fails: retry_connect closes the connection that was made.     *)
DiscoveryFails ==
  /\ gatt = "connected"
  /\ link
  /\ ~ handles
  /\ Fault
  /\ retry_connect
  /\ bl_disconnected
  /\ UNCHANGED << mode, rx, pending, flash, con_sem, is_retry_connect >>

onDescriptorWrite ==
  /\ link
  /\ DescriptorWritten
  /\ indicate' = TRUE
  /\ UNCHANGED << mode, link, rx, pending, flash, up, down, handlerVars, envVars >>

(* onCharacteristicChanged, onResponse *)
onResponse ==
  /\ gatt = "connected"
  /\ down # << >>
  /\ down' = Tail(down)
  /\ rxQueue' = IF handles THEN Append(rxQueue, Head(down)) ELSE rxQueue
  /\ UNCHANGED << mode, link, indicate, rx, pending, flash, up, svcVars, job, cursor, envVars >>

-------------------------------------------------------------------------------
(* The robot and the world. *)
RobotStep ==
  /\ \/ /\ ble_blf_recv
        /\ incidents' = incidents \union
             LostWith(\/ pending.cmd = "erase"
                      \/ Head(up).cmd.cmd = "erase" /\ pending'.cmd # "erase")
     \/ bflb_eflash_loader_cmd_process /\ UNCHANGED incidents
     \/ ble_app_recv /\ incidents' = incidents \union LostWith(EraseIn(up))
  /\ UNCHANGED << svcVars, handlerVars, faults >>

RobotTimeout ==
  /\ ble_recv_timeout
  /\ UNCHANGED << svcVars, handlerVars, envVars >>

RobotFault ==
  /\ Fault
  /\ \/ FlashError /\ incidents' = incidents \union LostWith(pending.cmd = "erase")
     \/ LinkBreaks /\ incidents' = incidents \union LostWith(EraseIn(up))
     \/ PowerCycle /\ incidents' = incidents \union LostWith(EraseIn(up) \/ pending.cmd = "erase")
     \/ BootApp /\ incidents' = incidents \union LostWith(EraseIn(up))
  /\ UNCHANGED << svcVars, handlerVars >>

JobStep ==
  \/ CheckConnection \/ DrainAndReconnect \/ AcquireConnection
  \/ VerifySend \/ VerifyAnswered \/ VerifyTimeout
  \/ SendMagic \/ MakeNewConnection \/ MakeNewDone \/ MakeNewTimeout
  \/ eraseFlash \/ EraseReconnected \/ EraseWaitTimeout
  \/ StartPages \/ BeginPage \/ UnexpectedResponse \/ SendPart1 \/ SendPart2
  \/ getResponse \/ getResponseTimeout
  \/ PageFailed \/ PageReconnected \/ PageWaitTimeout
  \/ systemReset \/ ReportFailure

Callback ==
  \/ Connected \/ onServicesDiscovered \/ onDescriptorWrite \/ onResponse
  \/ ConnectionLost \/ ConnectionError \/ ConnectFails \/ DiscoveryFails

Next == JobStep \/ Callback \/ RobotStep \/ RobotTimeout \/ RobotFault

Spec == Init /\ [][Next]_vars

(* The coroutine, the radio stack and the robot's task all keep running;   *)
(* nothing is assumed of connections being made.                           *)
FairSpec ==
  /\ Spec
  /\ WF_vars(JobStep)
  /\ WF_vars(RobotStep)
  /\ WF_vars(onResponse)

-------------------------------------------------------------------------------
(* Type invariant of the phone, the link and the robot together.           *)
TypeOK ==
  /\ DeviceTypeOK
  /\ ServiceTypeOK
  /\ job \in Jobs
  /\ cursor \in 0 .. ImagePages
  /\ rxQueue \in Seq(Responses)
  /\ faults \in 0 .. MaxFaults
  /\ incidents \subseteq {"late response", "data rewound", "erase lost", "stale permit",
                          "attempts overlap"}

(* The phone reports COMPLETE only when the robot holds the whole image,   *)
(* whatever links break, connections fail and power is lost on the way,    *)
(* except for the five incidents the protocol does not survive.            *)
CompleteMeansProgrammed ==
  At("COMPLETE") => ImageIn(flash) \/ incidents # {}

(* Retries and reconnections never put a chunk where it does not belong:   *)
(* short of the incidents, a sector holds what it held, nothing, or (part  *)
(* of) its own chunk.                                                      *)
RightPlace ==
  incidents = {} =>
    \A a \in Addresses :
      flash[a] \in {Blank, Old} \union
                   (IF a \in Chunks THEN {Chunk(a), Torn(Chunk(a))} ELSE {})

(* Once it has a connection, an update ends: every wait and every retry of *)
(* the job is bounded.                                                     *)
UpdateEnds == At("verify") ~> (job.pc \in Ended)

(* "Firmware update done" is what the user is told at COMPLETE: a link     *)
(* that is lost with an error status while pages are sent does not make it *)
(* untrue.                                                                 *)
DoneDespiteConnectionError ==
  At("COMPLETE") /\ incidents = {"data rewound"} => ImageIn(flash)

(* "Firmware update done": nor does a link that is lost together with the  *)
(* erase command.                                                          *)
DoneDespiteLostErase ==
  At("COMPLETE") /\ incidents = {"erase lost"} => ImageIn(flash)
===============================================================================
