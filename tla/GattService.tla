------------------------------- MODULE GattService -------------------------------
(***************************************************************************)
(* The phone's connection to the robot (BluetoothLeService.kt): the GATT    *)
(* handle, the readiness flags, the characteristic handles, the semaphore  *)
(* con_sem that counts connections made ready, and the reconnection        *)
(* policy.  Each operator gives the service's part of one of its methods;  *)
(* FirmwareUpdate combines it with what the method does to the update job  *)
(* and to the link.                                                        *)
(***************************************************************************)
EXTENDS Integers

CONSTANTS
  USER_RETRY   \* reconnections allowed outside an update (20 in the service)

ASSUME ServiceAssumption == USER_RETRY \in Nat \ {0}

VARIABLES
  gatt,               \* bluetoothGatt: "null", "connecting" or "connected"
  servicesReady,
  notificationReady,
  handles,            \* readHandle and writeHandle are set
  notifyQueued,       \* the descriptor write is in commandsQueue
  con_sem,            \* permits
  is_retry_connect,
  user_retry

svcVars == << gatt, servicesReady, notificationReady, handles, notifyQueued,
              con_sem, is_retry_connect, user_retry >>

ServiceTypeOK ==
  /\ gatt \in {"null", "connecting", "connected"}
  /\ servicesReady \in BOOLEAN
  /\ notificationReady \in BOOLEAN
  /\ handles \in BOOLEAN
  /\ notifyQueued \in BOOLEAN
  /\ con_sem \in Nat
  /\ is_retry_connect \in BOOLEAN
  /\ user_retry \in 0 .. USER_RETRY

(* The state in which the user may start an update: startUpdatingFirmware  *)
(* asks for servicesReady only, so the notification may still be on its    *)
(* way.  con_sem is created with one permit.  user_retry is 0 when an      *)
(* earlier update has just completed on this connection.                   *)
ServiceInit ==
  /\ gatt = "connected"
  /\ servicesReady = TRUE
  /\ notificationReady \in BOOLEAN
  /\ handles = TRUE
  /\ notifyQueued = ~ notificationReady
  /\ con_sem = IF notificationReady THEN 2 ELSE 1
  /\ is_retry_connect = FALSE
  /\ user_retry \in {0, USER_RETRY}

IsConnected == servicesReady /\ notificationReady /\ handles

(* Mutant: a retry is given back with every connection attempt.            *)
connectToDevice_CountsUp(g, retries) ==
  IF g # "null"
    THEN gatt' = g /\ user_retry' = retries
    ELSE gatt' = "connecting" /\ user_retry' = retries + 1

(* connectToDevice, from state g of the GATT handle: refused when a handle *)
(* is there already; otherwise the retries are armed if none are left.     *)
connectToDevice(g, retries) ==
  IF g # "null"
    THEN gatt' = g /\ user_retry' = retries
    ELSE /\ gatt' = "connecting"
         /\ user_retry' = IF retries = 0 THEN USER_RETRY ELSE retries

(* closeGattConnection, without the GATT handle. *)
CloseFlags ==
  /\ servicesReady' = FALSE
  /\ notificationReady' = FALSE
  /\ handles' = FALSE
  /\ notifyQueued' = FALSE

RetryAllowed == is_retry_connect \/ user_retry > 0

(* retry_connect, when it connects again: the readiness flags are left as  *)
(* they are.  A descriptor write that waited for the lost link is never    *)
(* answered.                                                               *)
RetryConnect ==
  connectToDevice("null", IF user_retry > 0 THEN user_retry - 1 ELSE 0)

(* disconnectDevice *)
DisconnectDevice ==
  /\ CloseFlags
  /\ gatt' = "null"
  /\ user_retry' = 0

(* Mutant: the permit is given before notifications are on.                *)
ServicesDiscovered_Permit ==
  /\ gatt = "connected"
  /\ ~ handles
  /\ servicesReady' = TRUE
  /\ handles' = TRUE
  /\ notifyQueued' = TRUE
  /\ con_sem' = con_sem + 1
  /\ UNCHANGED << gatt, notificationReady, is_retry_connect, user_retry >>

(* onServicesDiscovered with both characteristics present. *)
ServicesDiscovered ==
  /\ gatt = "connected"
  /\ ~ handles
  /\ servicesReady' = TRUE
  /\ handles' = TRUE
  /\ notifyQueued' = TRUE
  /\ UNCHANGED << gatt, notificationReady, con_sem, is_retry_connect, user_retry >>

(* onDescriptorWrite: the robot will indicate, the connection is ready.    *)
DescriptorWritten ==
  /\ gatt = "connected"
  /\ notifyQueued
  /\ notifyQueued' = FALSE
  /\ notificationReady' = TRUE
  /\ con_sem' = con_sem + 1
  /\ UNCHANGED << gatt, servicesReady, handles, is_retry_connect, user_retry >>
===============================================================================
