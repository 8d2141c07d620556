-------------------------- MODULE BleScannerProofs --------------------------
(***************************************************************************)
(* The safety properties of BleScanner for any number of scans and any     *)
(* devices.  The properties are inductive together with TimerSound: the    *)
(* only timer that can be running is that of the last scan, because        *)
(* startScan cancels the one before it.                                    *)
(***************************************************************************)
EXTENDS BleScanner, TLAPS

TimerSound == scanJob \subseteq {scans}

\* The invariant in two parts: one for the flags, one for scans and lists.
Flags ==
  /\ isScanning \in BOOLEAN /\ error \in BOOLEAN /\ radio \in BOOLEAN
  /\ stops \in BOOLEAN
  /\ NoLeakedScan

Lists ==
  /\ scannedDevices \subseteq Devices
  /\ scans \in 0..MaxScans
  /\ scanJob \subseteq 1..MaxScans
  /\ failures \subseteq 1..MaxScans
  /\ TimerSound
  /\ OneEntryEach

IInv == Flags /\ Lists

(* Initially no scan is shown, no timer runs and the list is empty.        *)
LEMMA InitSound == Init => IInv
<1>1. Init => Flags
  BY Zenon DEF Init, Flags, NoLeakedScan
<1>2. Init => Lists
  BY ScansAssumption DEF Init, Lists, TimerSound, OneEntryEach
<1> QED BY <1>1, <1>2 DEF IInv

(* The flags: the system stops scanning whenever a shown scan is ended.    *)
LEMMA FlagsStep == Flags /\ [Next]_vars => Flags'
<1> SUFFICES ASSUME Flags, [Next]_vars PROVE Flags'
  OBVIOUS
<1> USE DEF Flags, NoLeakedScan
<1>1. CASE startScan
  BY <1>1, Zenon DEF startScan
<1>2. CASE UserStops
  BY <1>2, Zenon DEF UserStops, stopScan
<1>3. CASE LaunchedStop
  BY <1>3, Zenon DEF LaunchedStop, stopScan
<1>4. ASSUME NEW s \in 1..MaxScans, TimerFires(s) PROVE Flags'
  BY <1>4, Zenon DEF TimerFires, stopScan
<1>5. ASSUME NEW s \in 1..MaxScans, onScanFailed(s) PROVE Flags'
  BY <1>5, Zenon DEF onScanFailed
<1>6. ASSUME NEW d \in Devices, onScanResult(d) PROVE Flags'
  BY <1>6, Zenon DEF onScanResult
<1>7. CASE UNCHANGED vars
  BY <1>7, Zenon DEF vars
<1> QED BY <1>1, <1>2, <1>3, <1>4, <1>5, <1>6, <1>7 DEF Next

(* Scans and lists: a new scan replaces the timer, and a result replaces   *)
(* the one of the same address and is dropped if its name is listed.       *)
LEMMA ListsStep == Lists /\ [Next]_vars => Lists'
<1> SUFFICES ASSUME Lists, [Next]_vars PROVE Lists'
  OBVIOUS
<1> USE ScansAssumption DEF Lists, TimerSound, OneEntryEach
<1>1. CASE startScan
  <2>1. /\ scans < MaxScans /\ scans' = scans + 1
        /\ scannedDevices' = {} /\ scanJob' = {scans'}
        /\ failures' = failures \/ failures' = failures \cup {scans'}
    BY <1>1, Zenon DEF startScan, TimersArmed
  <2>2. scans' \in 1..MaxScans
    BY <2>1
  <2>3. scanJob' \subseteq 1..MaxScans /\ failures' \subseteq 1..MaxScans
    BY <2>1, <2>2
  <2>4. OneEntryEach' /\ scannedDevices' \subseteq Devices
    BY <2>1
  <2> QED BY <2>1, <2>2, <2>3, <2>4
<1>2. CASE UserStops
  BY <1>2 DEF UserStops
<1>3. CASE LaunchedStop
  BY <1>3 DEF LaunchedStop
<1>4. ASSUME NEW s \in 1..MaxScans, TimerFires(s) PROVE Lists'
  BY <1>4 DEF TimerFires
<1>5. ASSUME NEW s \in 1..MaxScans, onScanFailed(s) PROVE Lists'
  BY <1>5 DEF onScanFailed
<1>6. ASSUME NEW d \in Devices, onScanResult(d) PROVE Lists'
  <2>1. \A e \in scannedDevices : e.name # d.name
    BY <1>6, ContainsAssumption DEF onScanResult
  <2>2. scannedDevices' = {e \in scannedDevices : e.address # d.address} \cup {d}
    BY <1>6 DEF onScanResult, Listed
  <2>3. OneEntryEach'
    BY <2>1, <2>2
  <2> QED BY <1>6, <2>2, <2>3 DEF onScanResult
<1>7. CASE UNCHANGED vars
  BY <1>7 DEF vars
<1> QED BY <1>1, <1>2, <1>3, <1>4, <1>5, <1>6, <1>7 DEF Next

(* Every step of the scanner, its timer, its callbacks and the user keeps  *)
(* the invariant.                                                          *)
LEMMA StepSound == IInv /\ [Next]_vars => IInv'
  BY FlagsStep, ListsStep DEF IInv

(* In every state the variables have their types.                          *)
THEOREM TypeCorrect == Spec => []TypeOK
<1>1. IInv => TypeOK BY DEF IInv, Flags, Lists, TypeOK
<1> QED BY <1>1, InitSound, StepSound, PTL DEF Spec

(* The system never scans while the screen shows no scan.                  *)
THEOREM NothingLeaked == Spec => []NoLeakedScan
<1>1. IInv => NoLeakedScan BY DEF IInv, Flags
<1> QED BY <1>1, InitSound, StepSound, PTL DEF Spec

(* The list never has two entries of one device or one name.               *)
THEOREM OneEntry == Spec => []OneEntryEach
<1>1. IInv => OneEntryEach BY DEF IInv, Lists
<1> QED BY <1>1, InitSound, StepSound, PTL DEF Spec

(* A timer that fires belongs to the last scan.                            *)
THEOREM OwnTimer == Spec => TimerOfThisScan
<1>1. IInv /\ [Next]_vars => [\A s \in 1..MaxScans : TimerFires(s) => s = scans]_vars
  BY DEF IInv, Lists, TimerSound, TimerFires
<1> QED BY <1>1, InitSound, StepSound, PTL DEF Spec, TimerOfThisScan
=============================================================================
