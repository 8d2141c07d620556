----------------------------- MODULE BleScanner -----------------------------
(***************************************************************************)
(* The scanner of the phone: startScan, stopScan, the coroutine that ends  *)
(* a scan after scanPeriod, and the ScanCallback.  All of it runs on the   *)
(* main thread (CommunicationScope and viewModelScope are Main, and the    *)
(* system posts the callbacks to the main looper), so each function is one *)
(* step; what interleaves are the posted callbacks, the launched stops,    *)
(* the timer and the user.  Scans are numbered for the properties.         *)
(***************************************************************************)
EXTENDS Naturals

CONSTANTS
  Devices,       \* what may be heard: records with an address and a name
  Contains(_,_), \* Contains(a, b): name a contains name b
  MaxScans       \* bound on the scans started

ASSUME ScansAssumption == MaxScans \in Nat
ASSUME ContainsAssumption == \A d \in Devices : Contains(d.name, d.name)

VARIABLES
  isScanning, error, scannedDevices,   \* _state
  scans,       \* number of scans started; the current scan is the last one
  radio,       \* the system is scanning for the callback
  scanJob,     \* timers that are running, by the scan that launched them
  failures,    \* onScanFailed calls posted and not delivered, by scan
  stops        \* is a stop launched by onScanFailed waiting to run?

vars == <<isScanning, error, scannedDevices, scans, radio, scanJob, failures, stops>>

Init ==
  /\ isScanning = FALSE /\ error = FALSE /\ scannedDevices = {}
  /\ scans = 0 /\ radio = FALSE /\ scanJob = {}
  /\ failures = {} /\ stops = FALSE

\* mutant: the timer of an earlier scan is not cancelled
TimersArmed_KeepsOld(s) == scanJob \cup {s}

\* stopScan(immediate = false): the running timer is cancelled, a new one starts.
TimersArmed(s) == {s}

\* startScan, from the screen while it shows no scan, or each time the service
\* is bound.  The system refuses a callback that is registered already, and may
\* fail to register it: either way it posts onScanFailed.
startScan ==
  /\ scans < MaxScans
  /\ scans' = scans + 1
  /\ isScanning' = TRUE
  /\ scannedDevices' = {}
  /\ scanJob' = TimersArmed(scans')
  /\ \/ ~radio /\ radio' = TRUE /\ UNCHANGED failures
     \/ UNCHANGED radio /\ failures' = failures \cup {scans'}
  /\ UNCHANGED <<error, stops>>

\* mutant: the flag is cleared and the system goes on scanning
stopScan_KeepsRadio ==
  /\ isScanning' = FALSE
  /\ UNCHANGED radio

\* The private stopScan: nothing to do when no scan is shown.
stopScan ==
  /\ isScanning' = FALSE
  /\ radio' = IF isScanning THEN FALSE ELSE radio

\* stopScan(immediate = true): the user stops the scan or taps a device.
UserStops ==
  /\ scanJob' = {}
  /\ stopScan
  /\ UNCHANGED <<error, scannedDevices, scans, failures, stops>>

\* delay(scanPeriod) is over.
TimerFires(s) ==
  /\ s \in scanJob
  /\ scanJob' = scanJob \ {s}
  /\ stopScan
  /\ UNCHANGED <<error, scannedDevices, scans, failures, stops>>

\* mutant: the name is left at its default
Listed_NoName(d) == scannedDevices \cup {[address |-> d.address, name |-> "-"]}

\* mutant: the address is not compared
Listed_SameAddress(d) == scannedDevices \cup {d}

\* The set of results compares addresses: a result replaces the one it equals.
Listed(d) == {e \in scannedDevices : e.address # d.address} \cup {d}

\* Results may be delivered after the scan they belong to was stopped.
onScanResult(d) ==
  /\ scans > 0
  /\ \A e \in scannedDevices : ~Contains(e.name, d.name)
  /\ scannedDevices' = Listed(d)
  /\ UNCHANGED <<isScanning, error, scans, radio, scanJob, failures, stops>>

onScanFailed(s) ==
  /\ s \in failures
  /\ failures' = failures \ {s}
  /\ error' = TRUE
  /\ stops' = TRUE
  /\ UNCHANGED <<isScanning, scannedDevices, scans, radio, scanJob>>

\* mutant: the timer is cancelled and the scan goes on
LaunchedStop_OnlyTimer ==
  /\ stops
  /\ stops' = FALSE
  /\ scanJob' = {}
  /\ UNCHANGED <<isScanning, radio, error, scannedDevices, scans, failures>>

\* scope.launch { stopScan(immediate = true) }
LaunchedStop ==
  /\ stops
  /\ stops' = FALSE
  /\ scanJob' = {}
  /\ stopScan
  /\ UNCHANGED <<error, scannedDevices, scans, failures>>

Next ==
  \/ startScan \/ UserStops \/ LaunchedStop
  \/ \E s \in 1..MaxScans : TimerFires(s) \/ onScanFailed(s)
  \/ \E d \in Devices : onScanResult(d)

\* Timers end and the main looper delivers what was posted.
Spec ==
  /\ Init /\ [][Next]_vars
  /\ \A s \in 1..MaxScans : WF_vars(TimerFires(s)) /\ WF_vars(onScanFailed(s))
  /\ WF_vars(LaunchedStop)

(***************************************************************************)
(* Properties                                                              *)
(***************************************************************************)
TypeOK ==
  /\ isScanning \in BOOLEAN /\ error \in BOOLEAN /\ radio \in BOOLEAN
  /\ stops \in BOOLEAN
  /\ scannedDevices \subseteq Devices
  /\ scans \in 0..MaxScans
  /\ scanJob \subseteq 1..MaxScans
  /\ failures \subseteq 1..MaxScans

\* The system never scans behind a screen that shows no scan: nobody could
\* stop it, since stopScan returns at once when isScanning is false.
NoLeakedScan == radio => isScanning

\* A scan is ended by its own timer: the timer of an earlier scan, which the
\* user or a failure ended, never cuts a later one short.
TimerOfThisScan == [][\A s \in 1..MaxScans : TimerFires(s) => s = scans]_vars

\* The list has one entry per device and per name, through results of scans
\* that are over and names that change.
OneEntryEach ==
  \A d, e \in scannedDevices : d.address = e.address \/ d.name = e.name => d = e

\* Every scan ends, though timers are cancelled and failures may stop another
\* scan than the one they belong to.
ScanEnds == (isScanning \/ radio) ~> ~isScanning /\ ~radio
=============================================================================
