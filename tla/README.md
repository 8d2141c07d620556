# TLA+ models of the Lego train firmware and its update

The repository holds the firmware of a BLE controlled Lego train (BL702 chip),
a remote controller for it, a bootloader that updates the train's firmware over
BLE, and the Android app that does the updating. This directory models the
program's own concurrent and fault-tolerant parts: **an update of the firmware,
from the choice of a file on the phone to the partition tables and the boot of
the robot**, and **the BLE links of the train and its controller**, with links
that break, answers that come late and power that fails on the way.

Paths below are relative to the repository. `BOOT` stands for
`firmware/examples/robot_bootloader`, `APP` for
`software/android/app/src/main/java/com/hani/btapp`, `HOST` for
`firmware/components/ble/ble_stack/host`.

## 1. Inventory

| component | source | state | operations | status |
|---|---|---|---|---|
| partition table pair | `firmware/common/partition/partition.c` | two flash sectors, each with age, entries and two CRCs; `p_iap_param` in RAM | select the active table, `pt_table_get_iap_para`, `pt_table_set_iap_para`, `pt_table_update_entry` | modelled and proved, without `pt_table_create` (no caller) |
| BLE flash loader | `BOOT/bflb_eflash_loader_{ble,interface,cmds}.c` | link, `is_indicate_enabled`, receive buffer and `g_rx_buf_len`, `rx_sem`, flash | `ble_blf_recv`, connect/disconnect callbacks, command loop, jedec/erase/write/reset | modelled for the commands the app sends; proved as part of the update |
| boot sequence | `BOOT/main.c`, `blsp_media_boot.c` | boot window, active entry, `eflash_loader_if`, `HBN_RSV3` | wait for a host, read the table, copy an image, check it, poll again, jump, fall back to the loader | modelled and proved |
| image check | `BOOT/blsp_boot_parser.c`, `blsp_common.c` | boot header, hash, `img_valid` | parse, hash, start | its place in the sequence; "the image is complete" for its outcome |
| UART loader | `BOOT/bflb_eflash_loader_uart.c` | byte buffer | handshake, receive | the handshake and the choice of interface |
| xz decompression | `BOOT/blsp_boot_decompress.c` | | compiled out | not modelled |
| update job | `APP/core/service/FirmwareUpdateHandler.kt`, `APP/core/writer/*` | position in the protocol, chunk, address, retries, `rxQueue`, position in `firmwareData` | `onStartUpdatingFirmware` and what it calls | modelled and proved |
| GATT service | `APP/core/service/BluetoothLeService.kt` | `bluetoothGatt`, readiness flags, handles, `con_sem`, retry policy | connect, retry, close, discovery, GATT callbacks | modelled; proved as part of the update and of the connection setup |
| GATT command queue | `APP/core/service/CommandQueues.kt` | queue, `busy` | `add`, `completeCommand`, `clear` | modelled and proved |
| train firmware | `firmware/examples/lego_train` | BLE link, advertising, sleep decision | advertise, sleep, jump to the bootloader | modelled and proved, without motor and LED output |
| remote controller | `firmware/examples/lego_train_controller` | scan/connect/discover/subscribe state, task notification | find a train and send it a command | modelled and proved |
| connection objects of the BLE host | `HOST/conn.c`, `hci_core.c`, `gatt.c` | reference counts, states | the life of an object, over three threads | modelled as far as the train and the controller rely on it; proved with them |
| scanner | `APP/core/scanner` | scan, timer, results | start, stop, results, failures | modelled and proved |
| firmware download and chooser | `APP/data/firmware`, `APP/ui`, `APP/core/FinalFirmwareCreator.kt` | caches, screens, the file | fetch a list, load an image, write the file | modelled and proved |
| PC upgrade script | `firmware/tools/boot_script/upgrade_firmware.py` | | the same protocol from a PC | not modelled |
| BLE stack otherwise, FreeRTOS, mbedTLS, drivers | `firmware/components`, `drivers`, `bsp` | | vendored | environment |

**How they interact.** The user picks a file in the chooser; the view model
writes it; the update job reads it. The job (a coroutine) and the GATT callbacks
(binder threads) share `rxQueue`, `firmwareData`, the readiness flags and the
semaphore `con_sem`, without locks; what readies a connection goes through the
command queue. They talk to the robot in fragments of 240 bytes; the robot's BLE
callback collects them in one buffer and wakes the loader task through `rx_sem`;
the task carries a command out from that same buffer and answers by an
indication. The reset command makes the loader replace the inactive partition
table; the boot sequence reads the pair at the next start. On the train and on
the controller, the application's task shares `ble_bl_conn` with callbacks on the
host's work queue and receive thread.

**What is hard here.** The link may break and the robot may lose power between
any two steps; the app's job does not notice either, it only sees silence, and
answers it with nested retries, while a callback reconnects behind its back.
Commands carry no sequence numbers: a late response is taken for another
command's. The loader disables interrupts while it erases, so a correct erase
usually costs the link. A partition table can only be replaced by erasing it
first. The end of a BLE link passes through three threads of the host before the
application hears of it, and each of them touches the same reference count.

**What makes the parts correct.**
- *Partition tables*: there is always a valid table; an interrupted replacement
  leaves the old contents or the new ones; the loader and the boot sequence
  agree on which table is in use.
- *Loader*: a command is carried out with the data it was sent with, or refused.
- *Boot*: a copy never costs the last good image; only a complete image is
  started; a boot ends, and after a failed one a phone can repair the robot.
- *Update*: "Firmware update done" means the image is in flash; a chunk is
  never written anywhere but its place; an update always ends.
- *Connection setup*: a command is executed once and in its turn; a connection
  declared ready is ready; a wait for one ends.
- *Controller*: it does not stop searching unless a scan fails to start;
  connection objects are not lost.
- *Train*: it is always reachable (advertising or linked), sleeps only when
  nobody is connected, and obeys the jump request.
- *Scanner, chooser*: no scan runs unseen or for ever; the name on the screen is
  that of the file; the chooser never hangs.

## 2. Modules

| module | models | used by |
|---|---|---|
| `PartitionStuff` | contents of a table; the two pure functions that compute a successor | the next two |
| `PartitionRegister` | what the pair of tables promises: an atomic register | `PartitionTable` |
| `PartitionTable` | the two sectors, erase and write steps, flash errors, power loss, loader sessions | `MCPartitionTable`, `PartitionTableProofs` |
| `Boot2` | the bootloader's main task over that register, the flash and the BLE callbacks | `MCBoot2`, `Boot2Proofs` |
| `LoaderDevice` | the robot during an update | `FirmwareUpdate` |
| `GattService` | the phone's connection | `FirmwareUpdate`, `ConnectionSetup` |
| `FirmwareUpdate` | the update job, the callbacks, and the composition of the three | `MCFirmwareUpdate`, `FirmwareUpdateProofs` |
| `GattCommandQueue` | the command queue, statement by statement | `ConnectionSetup` |
| `ConnectionSetup` | the composition of service, queue and the Android stack | `MCConnectionSetup`, `ConnectionSetupProofs` |
| `BtConn` | connection objects and threads of the BLE host | the next two |
| `TrainController` | the controller's task and callbacks over `BtConn` | `MCTrainController`, `TrainControllerProofs` |
| `TrainApp` | the train's advertising, connection and jump over `BtConn` | `MCTrainApp`, `TrainAppProofs` |
| `BleScanner` | the phone's scanner | `MCBleScanner`, `BleScannerProofs` |
| `FirmwareChooser` | screens, view model, caches, server and file | `MCFirmwareChooser`, `FirmwareChooserProofs` |

The `MC` modules hold the instances, the `Proofs` modules the theorems. A
definition whose comment begins with "Mutant" is a deliberately wrong variant of
the definition that follows it; no specification uses it.

### PartitionTable

`table` holds the two sectors; a sector is the outcome of the three checks
`pt_table_valid` makes (magic, header CRC, entries CRC) and its contents.
Addresses, names and lengths of entries are never changed by the code and are
left out. `op` is the rewrite under way: `pt_table_set_iap_para` (called by the
reset command) and `pt_table_update_entry` (called by the boot sequence)
compute the new contents, then `EraseTable` and `WriteTable` are separate steps;
each may fail (`EraseTableError`, `WriteTableError`: the code returns without
going on, and the reset command ignores the result) and power may fail before,
in and after each (`PowerLoss`). `Interrupted` is what a half-done erase or
program may leave: all, the header only, a damaged header, or nothing. `iap` is
`p_iap_param`, read at the start of a loader session (`LoaderEnter`) and used at
its end; RAM is zeroed by a reset.

The refinement mapping to `PartitionRegister` is `CurrentContents`, the contents
of the table a reader would choose. The step that takes effect is `WriteTable`
(or a `PowerLoss`/`WriteTableError` in it that got as far as the last byte).

### LoaderDevice

A page (4096 bytes) is one flash sector and one chunk of the image; a write
command travels in two fragments (18 in the code: the first carries the length
prefix, the last completes the packet; the ones between behave like the first's
successor), all others in one. A sector is blank, old, a chunk, a torn chunk (programming was
cut short) or a mixture, since programming can only clear bits. `ble_blf_recv`
is the receive callback with all the ways in which a fragment meets a buffer in
the wrong state: part of a packet after a lost fragment, a command not yet
taken (`Refuse`), one being carried out (`Overrun`), one waiting the 200 ms
before an erase (`Replace`). Bytes of the image taken for a length are a
nondeterministic choice: too long (the buffer keeps filling) or too short. The
erase covers one sector more than the image, as `endaddr - startaddr + 1` with
an exclusive end does.

### GattService and FirmwareUpdate

`GattService` gives the service's part of each method; `FirmwareUpdate` adds
the job's and the link's part. `job.pc` is a point where the job waits or calls
out; `job` also holds its local variables (`retry`, `retry_connect` as `rc`,
`firmwareChunk` as `chunk`, `prog_addr` as `addr` in pages). The five calls of
`verifyInBootloaderMode` share their actions and are told apart by `job.call`.
`cursor` is how far `firmwareData` has been read. Waits are untimed: a timeout
may happen whenever what is waited for is not there. If the robot is only slow
(`RobotBusy`), the timeout counts as a fault.

`incidents` records the five things the protocol does not survive, so that the
safety properties can be stated exactly for everything else:

| incident | what happens |
|---|---|
| `late response` | a response comes after its timeout, or a write that was reported as failed had gone out: an OK is taken for the next page's |
| `data rewound` | a callback resets `firmwareData` while pages are sent |
| `erase lost` | the erase command is lost or fails; its response is not awaited |
| `stale permit` | the wait after the erase takes the permit of an older connection, and the job goes on before the robot has erased |
| `attempts overlap` | a page is sent again while fragments or refusals of an earlier attempt are still under way: an old refusal ends an attempt the robot then carries out, its OK is taken for the following attempt's, and the next page's fragments overrun the repetition the robot is still programming |

The last one takes more attempts than the run allows (`PageRetries = 3`): it was
found by the proof, whose inductive step failed at the beginning of an attempt,
and confirmed by TLC with `PageRetries = 5` and one fault. Before it was added the
two safety properties held on the run's instance and were false for the code's
own 10 attempts.

Deliberate abstractions: the user's own connect and disconnect buttons, the
progress shown to the user, the watchdog, the 5 s wait for an indication's
confirmation, the checksum of a command (fragments are lost, not altered), and
`tx_done_sem` beyond its outcome (written, not written, written but not
confirmed). Whether a queued descriptor write is ever carried out is left open.

### Boot2

`pc` is where `main_task` is: the window of polls, a loader session, reading the
table, erasing, copying, updating the entry, checking, the last poll, the
application, or the error loop. `flash` says how many leading chunks of an image
each place holds. The pair of tables is one register (`pt_valid`,
`active_index`, `len`), which `ImplementsRegister` of `PartitionTable` justifies.
`bl_connected` and `bl_disconnected` run beside the task and change the interface
it polls. Any session may erase and write any place and switch the entry. Power
fails anywhere; flash operations and the table update may fail. `untouched` and
`early` are ghosts: no session since the boot found a complete image; the phone
was connected before the task turned to UART. Taken from the build: rollback and
decompression are compiled out, one CPU, the firmware's entry is always in the
table and a manufacturing entry never, hashes are not ignored.

### GattCommandQueue and ConnectionSetup

`add` holds a mutex, `completeCommand` and `clear` do not, so each access to the
list is a step; `pc` is where the holder of the mutex and the callback thread
are. The Android stack (external) carries out one operation at a time and never
calls back for a link that is gone. `incidents` records what the queue does not
survive: an `add` that overlaps a completion, an operation refused by the stack
(nothing is ever called back), commands left over in the queue after
`retry_connect`, and commands in flight when a link is given up. Their absence is
the condition of the properties, so that these say exactly how far the queue can
be relied on. A discovery succeeds (`onServicesDiscovered`), fails
(`DiscoveryFails`) or misses a characteristic (`HandleMissing`); the last two go
to `retry_connect`, as a lost link does. `connectIfNeeded` is three steps, between
which callbacks run: the test of the readiness flags, `drainPermits` with
`reconnect` (`DrainAndReconnect`), and `acquire`; `job` says which is next.

### BtConn, TrainController and TrainApp

An object is `[ref, state, peer, cleanup, work, link]`. The end of a link is
`hci_disconn_complete` (receive thread), `conn_cleanup` (transmit thread),
`l2cap_disconnected` and `notify_disconnected` (work queue), and `clear_ref`,
the `atomic_clear` of the vendor's patch. FreeRTOS runs the highest thread that
can: application, work queue, transmit, receive; the guards `WorkMayRun`,
`TxMayRun` and `RxMayRun` say so. A thread may be *held* (waiting for a credit or
a command) at most `MaxHolds` times, which is the only way a lower one overtakes
it. `owned` is a ghost: the references the application should have.

`TrainController`: the task takes all notification bits at once and goes through
one block per bit; while it waits, for a notification or inside a call for an
HCI command, everything else may happen, including answers to requests of a link
it has given up. A call with a NULL connection ends in `undefined`.
`bt_le_scan_start` sets `BT_DEV_EXPLICIT_SCAN` (`explicit`) and then waits for
commands; `ScanStarted` is their outcome. If one is refused, the flag is cleared
and an error returned, which the task ignores (`scan_err`). Callbacks notify the
task with `xTaskNotifyFromISR` from a thread, which does not switch to it, so a
handler of the work queue may go on first (`HandlerMayGoOn`).
`TrainApp`: three threads run sequences of advertising commands (`call`) that
interleave; the controller refuses what Bluetooth refuses.

### BleScanner and FirmwareChooser

Both run on the phone's main thread, so a step reaches from one suspension point
or posted callback to the next. `BleScanner` numbers scans so that a timer or a
failure can be told from another scan's. In `FirmwareChooser`, `depth` is the
back stack, `fetch` and `load` are the coroutines, `file` is
`firmwarewbootheader.bin`, absent, partial or an image; two list fetches may
overlap, one load runs at a time (the chooser offers no second one while it
loads). `AppDies` keeps only the file and perhaps the screens; a chooser that the
system brings back has no list (`DataMissing`) and throws when it is composed
(`RobotUiThrows`). `restored` is a ghost: the chooser on top was brought back.
Device names count
by the product prefix they contain; each list entry belongs to the one model, R1.

## 3. Runs

| run | result | states |
|---|---|---|
| `partition` | `TypeOK`, `SomeTableValid`, `LoaderAgreesWithBoot`, `ImplementsRegister` hold | 19 804 |
| `firmware_update` | `TypeOK`, `CompleteMeansProgrammed`, `RightPlace`, `UpdateEnds` hold | 560 339 |
| `firmware_update_connection_error` | `DoneDespiteConnectionError` violated | 56-state trace |
| `firmware_update_lost_erase` | `DoneDespiteLostErase` violated | 42-state trace |
| `connection_setup` | `TypeOK`, `HeadInProgress`, `PermitMeansReady`, `NotificationComes`, `WaitEnds` hold | 701 893 |
| `controller_search` | `TypeOK`, `NeverStuck`, `RefAccounting`, `SearchGoesOn`, `DisconnectionReported` hold | 723 467 |
| `controller_held` | `NeverStuck`, `SearchGoesOn` hold | 366 664 |
| `controller_write` | `WriteHasConn` violated | 28-state trace |
| `train_app` | `TypeOK`, `AwakeWhileConnected`, `LastRefDroppedInCleanup`, `ComesBack`, `SleepsAgain`, `JumpHappens` hold | 82 982 |
| `boot2` | `TypeOK`, `CopyKeepsImage`, `StartedImageComplete`, `BootEnds`, `PhoneServed` hold | 24 212 |
| `scanner` | `TypeOK`, `NoLeakedScan`, `OneEntryEach`, `TimerOfThisScan`, `ScanEnds` hold | 1 153 |
| `firmware_chooser` | `TypeOK`, `ShownIsFile`, `ChooserHasData`, `LoadingEnds` hold | 904 844 |

### Bounds

*partition.* Two factory entries in a table of three, so that a caller can
replace an entry, append one and meet a full table; ages 0..2 in both tables at
the first power-up, so that every tie and order occurs, with an active index in
and out of range of the mask; four rewrites, enough for each table to be
replaced twice. Larger values are covered by the proofs.

*firmware_update.* Two chunks: enough to tell a repeated, a skipped and a
rewound page apart. `MaxFaults = 2`: one fault during the recovery from another.
`PageRetries = 3`, `EraseWaits = 2`, `ConnectRetries = 2` (10, 4 and 5 in the
code) are large enough for a retry to succeed after both faults and small enough
to be used up. `FlashPages = 6` has room for what a rewound image is written
past its end, twice; a write beyond the sectors modelled changes none of them.
`USER_RETRY = 1` (20 in the code) exercises the last retry and its re-arming
(`connectToDevice` arms it again at zero, so reconnections never end by it). The
update starts on a connection the app believes in: the train's firmware or the
bootloader may be running, the notification may be enabled or still on its way.
Deadlock is not checked: an update that has ended, or one waiting for a first
connection that never comes, legitimately stops.

*connection_setup.* One information read beside the descriptor write, so that a
command can be at and behind the head; two links, so that the second meets the
leftovers of the first; two faults. It stops when the links are used up, so
deadlock is not checked.

*controller_search, controller_held.* Two devices and two connection objects (the
default of the BLE build), so that one link may end while another is set up, and
two finds; or one of each, with one thread held once while a link ends.
`MaxScanErrs = 1`: one start of the scan, any one of them, may fail. The bound on
finds ends the run, so deadlock is not checked.

*train_app.* The one connection object of the `m0s1p` build, one thread held
once, two waits before the slower advertising.

*boot2.* Two places, images of two chunks (a copy can stop half-way), every
active index, a `len` that covers the image and the shipped 0, windows of one and
two polls, two resets (a repeated copy can be cut short too).

*scanner.* Two devices, one of which changes its name when it enters its
bootloader, and a name that contains another; four scans. *firmware_chooser.* Two
products with a file name in common, an image that is too big, two overlapping
fetches.

### Fairness

Weak fairness throughout, and only of what runs by itself: a coroutine on a
dispatcher, a thread that may run, a timer, a posted callback, the completion of
an HCI command, a request that is answered or fails. Nothing is assumed of
users or of the robot coming back, nor, except in `connection_setup`, of links
being made. In particular:
- `UpdateEnds` starts at the first `verify`, since `con_sem.acquire()` in
  `connectIfNeeded` has no timeout and may wait for ever for a first connection.
- `connection_setup` assumes that a connection attempt that is under way reports
  its link in the end (at most `MaxLinks` of them), and that the stack answers an
  operation it accepted on a link that stays up: `WaitEnds` is about what the
  code does with those answers, not about whether they come.
- The main task of the train need not time out; a held thread is released.
- `Boot2`'s poll is fair, but nobody has to send the handshake on the wire; a
  session ends, since the loader gives up after two receive timeouts.

### What the violations show

- *Connection error*: while pages are sent the link is lost with an error
  status; `closeGattConnection` calls `onDisconnected(false)`, which rewinds
  `firmwareData` (`FirmwareUpdateHandler.kt:62`). The job, which keeps
  `prog_addr`, goes on after the reconnection with the first chunk at the second
  chunk's address, writes the image shifted by one page, and reports "Firmware
  update done".
- *Lost erase*: the link breaks before the erase command arrives. The job takes
  the reconnection for the one an erase usually causes
  (`FirmwareUpdateHandler.kt:124`), finds the bootloader answering, programs the
  pages over the old firmware and reports "Firmware update done".
- *Controller write*: the 20 s timeout gives the connection up while the
  subscription is outstanding; when the link ends the failed CCC write is
  reported as a subscription, and the task, whose `ble_bl_conn` has meanwhile
  become NULL, calls `bt_gatt_write` with it (`ble_app.c:361`), which asserts.

In the first two cases the robot's image check fails after the reset and the
bootloader stays reachable (`PhoneServed`), so a second update repairs the robot.

### What the conditions in the other properties stand for

Several properties that hold carry a condition. Each condition is needed: without
it TLC finds the behaviour described here.

| property | condition | what happens otherwise |
|---|---|---|
| `CompleteMeansProgrammed`, `RightPlace` | no incident (section 2) | a wrong image is reported as done |
| `HeadInProgress` | no overlap of `add` and a completion | the finished command is executed again, and its second completion takes a command off the queue that never ran (`CommandQueues.kt:40`) |
| `NotificationComes`, `WaitEnds` | nothing left over from a lost link | the queue stays busy, the link never becomes ready, and the update waits for `con_sem` for ever (`BluetoothLeService.kt:266`) |
| `WaitEnds` | the wait begins on a link that is not ready yet | the descriptor write completes between the test of `connectIfNeeded` and `drainPermits` (`BluetoothLeService.kt:162`, `:163`, `:413`): the permit is dropped, and the update waits for ever on a link that is up and ready |
| `NeverStuck`, `SearchGoesOn` | the last start of the scan did not fail | the task waits with `portMAX_DELAY` for devices nobody looks for (`hci_core.c:7071`, `:7087`; the result is ignored at `ble_app.c:383`, `:390`) |
| `RefAccounting` | the application released no more than it had | the timeout and a late answer each release the same reference (`ble_app.c:381`, `:388`) |
| `RefAccounting`, `DisconnectionReported` | no scan has failed to start | the task acts on a device reported earlier, which a running scan would have made `bt_conn_create_le` refuse, and takes an object whose end is still being handled |
| `RefAccounting`, `DisconnectionReported` | no thread held | `atomic_clear` before the clean-up: the disconnection is never reported (`hci_core.c:1121`, `conn.c:1577`) |
| `LastRefDroppedInCleanup`, `AwakeWhileConnected` | no thread held | a late work queue releases a reference that is gone, or reports the end of the old connection on the new one (`conn.c:344`) |
| `ComesBack`, `SleepsAgain` | no thread held | the advertising fails for want of a free object and nobody tries again |
| `CopyKeepsImage` | `len` covers the image, two different places | with `len` 0, as shipped, the copy activates an erased place; with equal addresses, as shipped, it erases its source. Nothing in the repository requests a copy |
| `StartedImageComplete` | no session at the last poll | a session after the check may erase the image that is then started (`blsp_media_boot.c:417`) |
| `PhoneServed` | the phone connected after the task turned to UART | it is served only after it reconnects |
| `ChooserHasData` | the chooser was not brought back by the system; the property states the exception (`<=>`) | `data!!` throws (`FirmwareChooserPopupDialog.kt:105`) |

A condition of this kind takes a hazard out of the property. The two that end in
a false "Firmware update done" have runs of their own (`firmware_update_connection_error`,
`firmware_update_lost_erase`); for the others the note of the hazard in
`PROJECT.json` says that the property does not catch it.

Modelled, but without a property, since no document says what should happen: the
chooser may show the other product's list when the robot is changed during a
fetch; an update started during the write of the file reads part of it; a failed
load keeps the error display on until the app is restarted; a finished load
closes whatever screen is on top; "Scan error" stays on the screen after later
scans; a device whose name is contained in a listed one is not listed.

## 4. Proofs

### PartitionTableProofs

`PartitionTableProofs` proves, for every table size, every set of entry types
and callers, and every number of rewrites below the wrap of the age:

| theorem | states |
|---|---|
| `TypeCorrect` | `Spec => []TypeOK` |
| `NeverWithoutTable` | `Spec => []SomeTableValid` |
| `LoaderAgreement` | `Spec => []LoaderAgreesWithBoot` |
| `Refinement` | `Spec => ImplementsRegister` |

Assumptions: `StuffAssumption` and `TableAssumption`. The one that matters is
`MaxAge + Endurance < AgeModulus`: ages are 32-bit words compared with `>=`, so
after a wrap the older table would win; the flash does not live to see it.

The inductive invariant `IInv` adds two facts to the three properties.
`OpSound`: while a rewrite is under way its target is the table that is *not*
active, and its contents are one age newer than the active table, which they
were computed from. It is needed because `EraseTable` destroys the target
whatever it holds. `TablesSound`: a valid table has an entry and an age bounded
by the rewrites so far, so the new age does not wrap and wins the comparison.
`LoaderAgreesWithBoot` takes part in the induction: it is why
`pt_table_set_iap_para`, which does not validate the table it reads, reads the
active one. The lemmas `ActiveAfterLoss` and `ActiveAfterWrite` say how the
choice of the active table reacts to a damaged and to a newer sector;
`Refinement` follows by mapping every step to a step of the register or a
stutter.

### Boot2Proofs

For every flash layout, image length, `len`, window and number of resets:

| theorem | states |
|---|---|
| `TypeCorrect` | `Spec => []TypeOK` |
| `CopyKeeps` | `Spec => []CopyKeepsImage` |
| `OnlyCompleteStarted` | `Spec => []StartedImageComplete` |

`CopySound` strengthens `CopyKeepsImage`: a copy under way works on the entry
that is in the table, its destination holds as many chunks as were dealt with,
and when the entry is about to be updated the new place is complete; so the
source stays good until the one step that stops pointing to it. `CheckSound`
strengthens `StartedImageComplete`: between the check and the jump nothing
changes unless a session is opened. The lemma `Masking` relates
`active_index & 1` and its opposite. The only assumption is `Boot2Assumption`.

### BleScannerProofs

For any number of scans and any devices: `TypeCorrect`, `NothingLeaked`
(`NoLeakedScan`), `OneEntry` (`OneEntryEach`) and `OwnTimer` (`TimerOfThisScan`).
The invariant adds `TimerSound`: the only timer that can run is the last scan's,
because `startScan` cancels the one before. It is proved in two halves, flags
and lists, because the provers treat Booleans and arithmetic apart. Assumptions:
`ScansAssumption`, and `ContainsAssumption` (a name contains itself).

### FirmwareChooserProofs

For any products, servers and overlapping fetches:

| theorem | states |
|---|---|
| `NameMatchesFile` | `Spec => []ShownIsFile` |
| `ChooserTypes` | `Spec => []TypeOK` |
| `DataWhenShown` | `Spec => []ChooserHasData` |

The first needs `CreatedSound`: once written, the file is the image of the load
that is about to be shown, since there is one load at a time. The others need
`OneLoad` (a load that is under way has not asked for the chooser to be closed,
so that the back stack is popped once), `LoadSound`, `HasData` (a chooser that
the user opened loads, shows an error or has a list, whichever fetch ended last)
and `Bare` (one that the system brought back has none, and nothing is under way
that could give it one). `DataWhenShown` is therefore both ways: `data!!` meets
null in a chooser brought back after the process ended, and in no other.
Assumption: `ChooserAssumption`, which only separates the kinds of values.

### FirmwareUpdateProofs

For every number of pages of the image and of the flash, every limit of the
retries and every number of faults:

| theorem | states |
|---|---|
| `TypeCorrect` | `Spec => []TypeOK` |
| `ChunksInPlace` | `Spec => []RightPlace` |
| `CompleteIsProgrammed` | `Spec => []CompleteMeansProgrammed` |

The inductive invariant is `TypeOK /\ Counters /\ LinkSound /\ PartsSound /\
Undisturbed`. The first four hold always: a counter that is counted down is not
zero, nothing is in flight without a link, only a write command comes in parts.
`Undisturbed` says what an update without incidents looks like from both ends:
- *the conversation* (`Quiet`, `OneRequest`, `OnePage`, `EraseSound`): at the
  points where the job turns to something new the robot has nothing to do and
  nothing to say; a request has at most one answer; while a page is sent, the
  link, the buffer and the answers are in one of a few joint states, and an OK
  among them is the OK of that page, already programmed. This is what stands in
  for the sequence numbers the protocol does not have;
- *the flash* (`WritesSound`, `PagesSound`, `Stages`, `Placed`): a write under way
  is the current page's, and its sector is blank or holds a part of that page;
  pages before it are programmed and pages after it erased; there is no write
  before the erase and no erase after it.

Each half needs the other: that an OK is this page's follows from the
conversation, that carrying the command out is harmless from the flash. The two
properties are read off `Stages` and `Placed`. Each action has a lemma per half.
Assumptions: `DeviceAssumption` (the image fits the flash), `ServiceAssumption`
and `UpdateAssumption` (there is at least one attempt of each kind).

### ConnectionSetupProofs

For any set of characteristics to read and any number of links, faults and
retries:

| theorem | states |
|---|---|
| `TypeCorrect` | `Spec => []TypeOK` |
| `QueueInStep` | `Spec => []HeadInProgress` |
| `PermitIsReady` | `Spec => PermitMeansReady` |

The mutex of `add` does not cover a completion, so the argument is that the
parties take turns. `TurnsTaken` states it for as long as there is no incident:
one thread is in the queue at a time, `busy` says that exactly one command has
been launched or is with the stack and that it is the head, a thread about to
take the head knows that `busy` is not set (`TakesHead`), and every command
belongs to the link that was discovered (`OfThisLink`). `PermitIsReady` follows
from it and `Flags`: the completion that releases `con_sem` is that of the
current link's descriptor write. Assumptions: `QueueAssumption`,
`ServiceAssumption`, `SetupAssumption`.

### TrainControllerProofs

For any number of connection objects, devices, finds, held threads and failed
scans:

| theorem | states |
|---|---|
| `TypeCorrect` | `Spec => []TypeOK` |
| `SearchNeverStuck` | `Spec => []NeverStuck` |
| `RefsAccounted` | `Spec => []RefAccounting` |

`NeverStuck` follows from `Control`, a fact about where the task can be: it comes
back to the wait without a timeout only through a scan that was started or has
failed to start, or with a notification set; threads that are held do not matter. `RefAccounting` needs
much more. `Settled` says which fields of an object go together (an object that
is connected has no clean-up pending, and so on). `Serial` says why
`bt_conn_create_le` finds the host at rest: a device is reported only when no end
of a link is being handled, and if the task acts on the report later, the scan is
on again and the call is refused. Without it an object could be created while the
receive thread is about to clear its count; a scan that failed to start breaks
it, hence the condition. The conditions of the property can
be lost but do not come back (`Regular`). Assumptions: `ConnAssumption`,
`ControllerAssumption`.

### TrainAppProofs

For any number of connection objects, waits and held threads:

| theorem | states |
|---|---|
| `TypeCorrect` | `Spec => []TypeOK` |
| `LastRefDropped` | `Spec => []LastRefDroppedInCleanup` |
| `ConnectedIsAwake` | `Spec => []AwakeWhileConnected` |

Both properties rest on the order in which the threads run: the end of a
connection is handled in three of them before the receive thread takes the next
event. `Settled` states it for one object: while it is connected nothing else is
under way anywhere and `ble_bl_conn` points to it; its clean-up and its report
belong to the end that the receive thread is handling. `OneLink` says that the
controller makes a new link only when there is none, which is why the host never
handles an end and a beginning together, also with several objects.
Assumptions: `ConnAssumption`, `TrainAssumption`.

### How the invariants were found

Each inductive invariant was first checked by TLC, on the instances of the runs
and on others: `TrainApp` with one to three objects, with and without held
threads, `TrainController` with the instances of its two runs and a third. The
theorems hold for all constants, so those instances are not among the runs.

### Only model-checked

Liveness: `UpdateEnds`, `NotificationComes`, `WaitEnds`, `SearchGoesOn`,
`DisconnectionReported`, `ComesBack`, `SleepsAgain`, `JumpHappens`, `BootEnds`,
`PhoneServed`, `ScanEnds`, `LoadingEnds`. It stays with TLC, since the prover
does not handle fairness. The three violations are TLC's by their nature. Every
invariant, action property and refinement that a passing run checks is also a
theorem.

## 5. Not modelled

- **Vendored code.** By far the most lines of the repository are the vendor's
  SDK: the BLE stack, mbedTLS, FreeRTOS, register headers and drivers. They are
  not this program's logic and are the environment of the models, but for the
  connection objects (`BtConn`) and the advertising on which the train and the
  controller depend. The models therefore cover a small share of the
  repository's lines and most of the control of its own components.
- **PC upgrade script**: the same protocol from one thread, with fewer retries;
  nothing it does is outside `FirmwareUpdate`'s behaviours.
- **Bytes**: boot header and ini parser, hash and signature, checksums of
  commands, the UART byte buffer; xz decompression is compiled out.
- **Output**: motor speed table, LEDs, screens' layout, progress, logging; the
  train's `motor.c`, `pid.c` and `robot.c` have no caller.
- **Time**: waits are untimed. The train's `24 * 3600000` ms overflows to about
  500 s, which the properties do not depend on.
- **Memory**: `bl_connected` of the loader frees a buffer the task may be reading.
- Permissions, service binding, the loader's read, checksum and efuse commands.

## 6. Plan

1. An abstract update (the flash is erased, the pages are programmed in order,
   the image is complete), implemented by `FirmwareUpdate` without incidents: the
   parts `Stages` and `PagesSound` of the inductive invariant are its refinement
   mapping.
2. `DisconnectionReported` and `PhoneServed` have safety parts (who is in charge
   of the next step of the handling) that could be stated and proved apart from
   fairness.
