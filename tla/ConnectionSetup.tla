----------------------------- MODULE ConnectionSetup -----------------------------
(***************************************************************************)
(* How a connection of the phone becomes ready: the service's callbacks    *)
(* (BluetoothLeService.kt) put the reads of the device information and the *)
(* write that turns notifications on into the command queue, and an update *)
(* waits for the outcome.  The Android stack (external) carries out one     *)
(* operation of a link at a time, refuses a second one, and calls back on  *)
(* one thread; it never calls back for an operation whose link is gone.    *)
(* A fault (the link is lost, the discovery fails or misses a              *)
(* characteristic, an operation is refused, the descriptor write is        *)
(* answered with an error) uses up one of MaxFaults.                       *)
(***************************************************************************)
EXTENDS GattService, GattCommandQueue

CONSTANT
  MaxFaults   \* bound on the number of faults

ASSUME SetupAssumption == MaxFaults \in Nat

VARIABLES
  op,         \* operation the stack is carrying out
  links,      \* links made so far
  enabled,    \* the robot indicates on the current link
  job,        \* where the update job is in connectIfNeeded
  faults,
  incidents   \* what has happened that the queue does not survive

NoOp == [link |-> 0, name |-> "none"]

stackVars == << op, links, enabled >>
vars == << svcVars, queueVars, stackVars, job, faults, incidents >>

Fault == faults < MaxFaults /\ faults' = faults + 1

(* The user has chosen a device: connectToDevice.                          *)
Init ==
  /\ gatt = "connecting"
  /\ servicesReady = FALSE
  /\ notificationReady = FALSE
  /\ handles = FALSE
  /\ notifyQueued = FALSE
  /\ con_sem = 1
  /\ is_retry_connect = FALSE
  /\ user_retry = USER_RETRY
  /\ QueueInit
  /\ op = NoOp
  /\ links = 0
  /\ enabled = FALSE
  /\ job = "idle"
  /\ faults = 0
  /\ incidents = {}

CallbackIdle == pc["callback"] = "idle"

-------------------------------------------------------------------------------
(* The command queue.  The race: add works on the queue while the callback *)
(* of a completion does.                                                   *)
Overlap == \A t \in Threads : pc'[t] # "idle"
QueueStep(A) ==
  /\ A
  /\ incidents' = IF Overlap THEN incidents \union {"overlap"} ELSE incidents
  /\ UNCHANGED << svcVars, stackVars, job, faults >>

AddCommand == QueueStep(\E c \in adding : add(c))
Poll == QueueStep(pollQueue)
ProcessNext == QueueStep(\E t \in Threads : processNextInQueue(t))
LaunchHead == QueueStep(\E t \in Threads : launchHead(t))

(* execute: readCharacteristic, or setCharacteristicNotification and       *)
(* writeDescriptor.  Without a connection, while the stack is busy with    *)
(* another operation, or when a call fails, nothing will be called back.   *)
Execute(c) ==
  /\ launched[c] > 0
  /\ launched' = [launched EXCEPT ![c] = @ - 1]
  /\ \/ /\ gatt = "connected" /\ op = NoOp
        /\ op' = c
        /\ UNCHANGED << faults, incidents >>
     \/ /\ IF gatt = "connected" /\ op = NoOp THEN Fault ELSE UNCHANGED faults
        /\ incidents' = incidents \union {"refused"}
        /\ UNCHANGED op
  /\ UNCHANGED << svcVars, adding, queue, busy, pc, links, enabled, job >>

(* onCharacteristicRead, whatever its status.                              *)
onCharacteristicRead ==
  /\ op.name \in Reads
  /\ op' = NoOp
  /\ completeCommand
  /\ incidents' = IF Overlap THEN incidents \union {"overlap"} ELSE incidents
  /\ UNCHANGED << svcVars, links, enabled, job, faults >>

(* Mutant: the permit is given when the flag is set for the first time.    *)
onDescriptorWrite_OnlyFirst ==
  /\ op.name = "setup notify"
  /\ op' = NoOp
  /\ completeCommand
  /\ LET raced == IF Overlap THEN {"overlap"} ELSE {}
     IN  \/ /\ notificationReady' = TRUE
            /\ con_sem' = IF notificationReady THEN con_sem ELSE con_sem + 1
            /\ enabled' = TRUE
            /\ incidents' = incidents \union raced
            /\ UNCHANGED faults
         \/ /\ Fault
            /\ incidents' = incidents \union raced \union {"refused"}
            /\ UNCHANGED << notificationReady, con_sem, enabled >>
  /\ notifyQueued' = FALSE
  /\ UNCHANGED << gatt, servicesReady, handles, is_retry_connect, user_retry,
                  links, job >>

(* onDescriptorWrite with GATT_SUCCESS, or with an error.                  *)
onDescriptorWrite ==
  /\ op.name = "setup notify"
  /\ op' = NoOp
  /\ completeCommand
  /\ LET raced == IF Overlap THEN {"overlap"} ELSE {}
     IN  \/ /\ notificationReady' = TRUE
            /\ con_sem' = con_sem + 1
            /\ enabled' = TRUE
            /\ incidents' = incidents \union raced
            /\ UNCHANGED faults
         \/ /\ Fault
            /\ incidents' = incidents \union raced \union {"refused"}
            /\ UNCHANGED << notificationReady, con_sem, enabled >>
  /\ notifyQueued' = FALSE
  /\ UNCHANGED << gatt, servicesReady, handles, is_retry_connect, user_retry,
                  links, job >>

-------------------------------------------------------------------------------
(* The link comes and goes. *)
Connected ==
  /\ CallbackIdle
  /\ gatt = "connecting"
  /\ links < MaxLinks
  /\ gatt' = "connected"
  /\ links' = links + 1
  /\ UNCHANGED << servicesReady, notificationReady, handles, notifyQueued, con_sem,
                  is_retry_connect, user_retry, queueVars, op, enabled,
                  job, faults, incidents >>

(* The commands that a discovery of the current link adds.                 *)
CommandsFor(names) == [link: {links}, name: names]

(* onServicesDiscovered: the robot's service and the information services. *)
onServicesDiscovered ==
  /\ CallbackIdle
  /\ ServicesDiscovered
  /\ adding' = adding \union CommandsFor(Names)
  /\ UNCHANGED << queue, busy, launched, pc, stackVars, job, faults, incidents >>

(* Commands of a link that is gone are still queued; or on their way into  *)
(* the queue or out of it, where not even clear reaches them.              *)
Leftover == IF queue # << >> THEN {"leftover"} ELSE {}
InFlight ==
  IF \/ adding' # {}
     \/ \E c \in Commands : launched[c] > 0
     \/ \E t \in Threads : pc[t] # "idle"
    THEN {"in flight"} ELSE {}

LinkGone ==
  /\ op' = NoOp
  /\ enabled' = FALSE
  /\ UNCHANGED << con_sem, is_retry_connect, launched, pc, links, job >>

(* closeGattConnection, on the callback thread or on another one.          *)
CloseGatt ==
  /\ CloseFlags
  /\ clear
  /\ incidents' = incidents \union InFlight

(* retry_connect, when the callback that calls it has left servicesReady   *)
(* at ready.  disconnect() also cancels the update job, but not the wait   *)
(* of its thread for the semaphore.                                        *)
retry_connect(ready) ==
  IF RetryAllowed
    THEN /\ RetryConnect
         /\ servicesReady' = ready
         /\ handles' = FALSE
         /\ notifyQueued' = FALSE
         /\ incidents' = incidents \union Leftover \union InFlight
         /\ UNCHANGED << notificationReady, queue, busy >>
    ELSE CloseGatt /\ gatt' = "null" /\ UNCHANGED user_retry

(* onServicesDiscovered with an error status ...                           *)
DiscoveryFails ==
  /\ CallbackIdle
  /\ gatt = "connected"
  /\ ~ handles
  /\ Fault
  /\ UNCHANGED adding
  /\ retry_connect(servicesReady)
  /\ LinkGone

(* ... or with success, but without the characteristic to read or the one  *)
(* to write: the commands were given to the queue all the same.            *)
HandleMissing ==
  /\ CallbackIdle
  /\ gatt = "connected"
  /\ ~ handles
  /\ Fault
  /\ \E names \in {Reads, Names} : adding' = adding \union CommandsFor(names)
  /\ retry_connect(TRUE)
  /\ LinkGone

(* onConnectionStateChange with STATE_DISCONNECTED and GATT_SUCCESS ...    *)
LinkLost ==
  /\ CallbackIdle
  /\ gatt = "connected"
  /\ Fault
  /\ UNCHANGED adding
  /\ retry_connect(servicesReady)
  /\ LinkGone

(* ... or with an error status.                                            *)
LinkError ==
  /\ CallbackIdle
  /\ gatt = "connected"
  /\ Fault
  /\ UNCHANGED adding
  /\ CloseGatt
  /\ IF RetryAllowed THEN RetryConnect ELSE gatt' = "null" /\ UNCHANGED user_retry
  /\ LinkGone

(* The user disconnects, from the main thread, whatever the callback       *)
(* thread is doing ...                                                     *)
disconnect ==
  /\ gatt = "connected"
  /\ Fault
  /\ UNCHANGED adding
  /\ CloseGatt
  /\ gatt' = "null"
  /\ UNCHANGED user_retry
  /\ LinkGone

(* ... and connects again.                                                 *)
connect ==
  /\ gatt = "null"
  /\ links < MaxLinks
  /\ connectToDevice(gatt, user_retry)
  /\ UNCHANGED << servicesReady, notificationReady, handles, notifyQueued, con_sem,
                  is_retry_connect, queueVars, stackVars, job, faults, incidents >>

-------------------------------------------------------------------------------
(* startUpdatingFirmware, and the test of connectIfNeeded.  The callback   *)
(* thread may make the connection ready before the next step ...           *)
connectIfNeeded ==
  /\ job = "idle"
  /\ servicesReady
  /\ ~ IsConnected
  /\ job' = "drain"
  /\ UNCHANGED << svcVars, queueVars, stackVars, faults, incidents >>

(* ... which drops the permits; reconnect is refused while there is a      *)
(* connection.                                                             *)
DrainAndReconnect ==
  /\ job = "drain"
  /\ con_sem' = 0
  /\ connectToDevice(gatt, user_retry)
  /\ job' = "acquire"
  /\ UNCHANGED << servicesReady, notificationReady, handles, notifyQueued,
                  is_retry_connect, queueVars, stackVars, faults, incidents >>

acquire ==
  /\ job = "acquire"
  /\ con_sem > 0
  /\ con_sem' = con_sem - 1
  /\ job' = "idle"
  /\ UNCHANGED << gatt, servicesReady, notificationReady, handles, notifyQueued,
                  is_retry_connect, user_retry, queueVars, stackVars, faults, incidents >>

Progress ==
  \/ AddCommand \/ Poll \/ ProcessNext \/ LaunchHead \/ \E c \in Commands : Execute(c)
  \/ onCharacteristicRead \/ onDescriptorWrite
  \/ Connected \/ onServicesDiscovered \/ DrainAndReconnect \/ acquire

Next ==
  \/ Progress
  \/ DiscoveryFails \/ HandleMissing \/ LinkLost \/ LinkError
  \/ disconnect \/ connect \/ connectIfNeeded

(* The dispatcher runs every coroutine and the stack answers: nothing that *)
(* can go on stops for ever.                                               *)
Fairness ==
  /\ WF_vars(AddCommand)
  /\ WF_vars(Poll)
  /\ WF_vars(ProcessNext)
  /\ WF_vars(LaunchHead)
  /\ WF_vars(\E c \in Commands : Execute(c))
  /\ WF_vars(onCharacteristicRead)
  /\ WF_vars(onDescriptorWrite)
  /\ WF_vars(Connected)
  /\ WF_vars(onServicesDiscovered)
  /\ WF_vars(DrainAndReconnect)
  /\ WF_vars(acquire)

Spec == Init /\ [][Next]_vars
FairSpec == Spec /\ Fairness

-------------------------------------------------------------------------------
(* Type invariant of the service, its queue and the stack.                 *)
TypeOK ==
  /\ ServiceTypeOK
  /\ QueueTypeOK
  /\ op \in Commands \union {NoOp}
  /\ links \in 0 .. MaxLinks
  /\ enabled \in BOOLEAN
  /\ job \in {"idle", "drain", "acquire"}
  /\ faults \in 0 .. MaxFaults
  /\ incidents \subseteq {"overlap", "refused", "leftover", "in flight"}

(* The command that is being carried out is the head of the queue, so that *)
(* its completion takes off the right one; and the queue is marked busy    *)
(* only while a completion is still to come.                               *)
HeadInProgress ==
  incidents = {} =>
    /\ \A c \in Commands :
         launched[c] > 0 \/ op = c => queue # << >> /\ c = Head(queue) /\ busy
    /\ busy /\ CallbackIdle => op # NoOp \/ \E c \in Commands : launched[c] > 0

(* con_sem gets a permit only when the robot indicates on a link whose     *)
(* characteristics the service holds: whoever takes it can talk.           *)
PermitMeansReady ==
  [][con_sem' > con_sem => incidents' # {} \/ (IsConnected' /\ enabled')]_vars

(* A discovered link becomes ready: the queue gets round to the            *)
(* notification, or the link is gone.                                      *)
NotificationComes ==
  (gatt = "connected" /\ handles) ~> (enabled \/ gatt # "connected" \/ incidents # {})

(* An update that waits for con_sem on a link on which the robot does not  *)
(* indicate yet goes on in the end: connectIfNeeded has no timeout of its  *)
(* own.  Without "~ enabled" it would fail: when the descriptor write      *)
(* completes between the test of connectIfNeeded and drainPermits, the     *)
(* permit of the link is dropped and the update waits for ever on a link   *)
(* that is up and ready.                                                   *)
WaitEnds ==
  (job = "acquire" /\ ~ enabled) ~>
    (job # "acquire" \/ gatt # "connected" \/ incidents # {})
===============================================================================
