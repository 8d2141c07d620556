--------------------------------- MODULE Boot2 ---------------------------------
(***************************************************************************)
(* The bootloader's main_task (robot_bootloader/main.c): the window in     *)
(* which a host may open a loader session, the reading of the partition    *)
(* table, the copy of an OTA image, the check of the image, the last poll  *)
(* and the jump (blsp_media_boot.c), and the loop a failed boot ends in.   *)
(* The Bluetooth callbacks run beside it and choose the interface.  The    *)
(* pair of tables is one register, as ImplementsRegister of PartitionTable *)
(* shows; only the firmware's entry counts.  A place of the flash holds so *)
(* many leading chunks of an image; the header check and the hash accept a *)
(* complete one.                                                           *)
(***************************************************************************)
EXTENDS Naturals

CONSTANTS
  Places, start_address,     \* places of the flash, those of the entry
  ImgChunks,                 \* length of an image, in units of BFLB_BOOT2_READBUF_SIZE
  Lens,                      \* values of the entry's len field, in the same unit
  LongWindow, ShortWindow,   \* polls after a request of the application, and otherwise
  MaxResets                  \* bound on resets and power losses

ASSUME Boot2Assumption ==
  /\ start_address \in [{0, 1} -> Places]
  /\ ImgChunks \in Nat \ {0}
  /\ Lens \subseteq Nat
  /\ LongWindow \in Nat \ {0} /\ ShortWindow \in Nat \ {0}
  /\ MaxResets \in Nat

VARIABLES
  pc,            \* where main_task is
  caller,        \* the poll that opened the last loader session of this boot
  boot_timeout, eflash_loader_if, ble_bl_conn,
  HBN_RSV3,      \* the register that survives a reset asks for the long window
  pt_valid, active_index, len,   \* the entry in flash
  pt_entry,      \* active index of the entry main_task has in memory
  deal_len,      \* chunks blsp_boot2_do_fw_copy has dealt with
  flash,         \* chunks of an image in each place
  untouched,     \* ghost: the boot found a complete image, no session changed anything
  early,         \* ghost: the phone has been connected since before UART was chosen
  resets

flashVars == << pt_valid, active_index, len, flash, untouched >>
ifVars == << eflash_loader_if, ble_bl_conn, early >>
vars == << pc, caller, boot_timeout, ifVars, HBN_RSV3, flashVars, pt_entry, deal_len, resets >>

Polls == {"window", "last", "fail"}
Positions == Polls \union {"init", "session", "parse", "erase", "copy", "update", "check", "app"}

(* !(active_index & 0x01)                                                  *)
Opposite(i) == 1 - (i % 2)

Source == start_address[pt_entry % 2]
Destination == start_address[Opposite(pt_entry)]
Complete(i) == i < 2 /\ flash[start_address[i % 2]] = ImgChunks
ActiveComplete == flash[start_address[active_index % 2]] = ImgChunks

Init ==
  /\ pc = "init" /\ caller = "none" /\ boot_timeout = 0
  /\ eflash_loader_if = "BLE" /\ ble_bl_conn = FALSE /\ early = FALSE
  /\ HBN_RSV3 \in BOOLEAN
  /\ pt_valid \in BOOLEAN /\ active_index \in 0 .. 3 /\ len \in Lens
  /\ flash \in [Places -> 0 .. ImgChunks]
  /\ untouched = ActiveComplete
  /\ pt_entry = 0 /\ deal_len = 0 /\ resets = 0

(* The chip starts again: memory is lost, flash and HBN_RSV3 are not.      *)
ChipReset ==
  /\ resets < MaxResets /\ resets' = resets + 1
  /\ pc' = "init" /\ caller' = "none" /\ boot_timeout' = 0
  /\ eflash_loader_if' = "BLE" /\ ble_bl_conn' = FALSE /\ early' = FALSE
  /\ pt_entry' = 0 /\ deal_len' = 0

-------------------------------------------------------------------------------
(* bflb_eflash_loader_if_set(BFLB_EFLASH_LOADER_IF_UART)                   *)
UseUart == eflash_loader_if' = "UART" /\ early' = ble_bl_conn /\ UNCHANGED ble_bl_conn

(* Both interfaces are initialized, UART last; a request of the            *)
(* application to wait longer is read once.                                *)
InterfacesReady ==
  /\ pc = "init"
  /\ UseUart
  /\ boot_timeout' = IF HBN_RSV3 THEN LongWindow ELSE ShortWindow
  /\ HBN_RSV3' = FALSE
  /\ pc' = "window"
  /\ UNCHANGED << caller, flashVars, pt_entry, deal_len, resets >>

(* Mutant: the count is tested before it is decremented.                   *)
GoOn_Below(poll) ==
  CASE poll = "window" -> /\ boot_timeout' = boot_timeout - 1
                          /\ pc' = IF boot_timeout = 0 THEN "parse" ELSE "window"
    [] poll = "last"   -> pc' = "app" /\ UNCHANGED boot_timeout
    [] poll = "fail"   -> pc' = "fail" /\ UNCHANGED boot_timeout

(* What follows a poll, and the session it opened.                         *)
GoOn(poll) ==
  CASE poll = "window" -> /\ boot_timeout' = boot_timeout - 1
                          /\ pc' = IF boot_timeout = 1 THEN "parse" ELSE "window"
    [] poll = "last"   -> pc' = "app" /\ UNCHANGED boot_timeout
    [] poll = "fail"   -> pc' = "fail" /\ UNCHANGED boot_timeout

(* blsp_mediaboot_pre_jump stops BLE.                                      *)
StopBle(poll) ==
  /\ ble_bl_conn' = (ble_bl_conn /\ poll # "last")
  /\ early' = (early /\ poll # "last")

(* bflb_eflash_loader_if_handshake_poll: BLE answers when a phone is       *)
(* connected, UART when a host on the wire sends the handshake.  Without a *)
(* valid table bflb_eflash_loader_main returns at once.                    *)
PollMisses ==
  /\ pc \in Polls
  /\ ~ (eflash_loader_if = "BLE" /\ ble_bl_conn /\ pt_valid)
  /\ GoOn(pc) /\ StopBle(pc)
  /\ UNCHANGED << caller, eflash_loader_if, HBN_RSV3, flashVars, pt_entry, deal_len, resets >>

PollOpens ==
  /\ pc \in Polls
  /\ eflash_loader_if = "BLE" => ble_bl_conn
  /\ pt_valid
  /\ pc' = "session" /\ caller' = pc
  /\ UNCHANGED << boot_timeout, ifVars, HBN_RSV3, flashVars, pt_entry, deal_len, resets >>

(* Commands of a session: an erase goes to the address the table gives, a  *)
(* write to the address the host sends; writing over an image ruins it.    *)
LoaderErase ==
  /\ pc = "session"
  /\ flash' = [flash EXCEPT ![start_address[Opposite(active_index)]] = 0]
  /\ untouched' = FALSE
  /\ UNCHANGED << pc, caller, boot_timeout, ifVars, HBN_RSV3, pt_valid, active_index, len,
                  pt_entry, deal_len, resets >>

LoaderWrite ==
  /\ pc = "session"
  /\ \E p \in Places : flash' = [flash EXCEPT ![p] = IF @ < ImgChunks THEN @ + 1 ELSE 0]
  /\ untouched' = FALSE
  /\ UNCHANGED << pc, caller, boot_timeout, ifVars, HBN_RSV3, pt_valid, active_index, len,
                  pt_entry, deal_len, resets >>

(* The reset command switches the entry, whether or not that succeeds.     *)
LoaderReset ==
  /\ pc = "session"
  /\ active_index' \in {active_index, Opposite(active_index)}
  /\ untouched' = FALSE
  /\ ChipReset
  /\ UNCHANGED << HBN_RSV3, pt_valid, len, flash >>

(* Two receive timeouts, or a third command that fails.                    *)
SessionEnds ==
  /\ pc = "session"
  /\ GoOn(caller) /\ StopBle(caller)
  /\ UNCHANGED << caller, eflash_loader_if, HBN_RSV3, flashVars, pt_entry, deal_len, resets >>

-------------------------------------------------------------------------------
(* Without a table blsp_boot2_on_error polls the wire for ever.            *)
ReadTable ==
  /\ pc = "parse"
  /\ IF pt_valid
       THEN /\ pt_entry' = active_index
            /\ pc' = IF active_index >= 2 THEN "erase" ELSE "check"
            /\ UNCHANGED ifVars
       ELSE pc' = "fail" /\ UseUart /\ UNCHANGED pt_entry
  /\ UNCHANGED << caller, boot_timeout, HBN_RSV3, flashVars, deal_len, resets >>

(* Mutant: source and destination are exchanged.                           *)
EraseDestination_Source ==
  /\ pc = "erase"
  /\ flash' = [flash EXCEPT ![Source] = 0]
  /\ deal_len' = 0
  /\ pc' = "copy"
  /\ UNCHANGED << caller, boot_timeout, ifVars, HBN_RSV3, pt_valid, active_index, len, untouched,
                  pt_entry, resets >>

EraseDestination ==
  /\ pc = "erase"
  /\ flash' = [flash EXCEPT ![Destination] = 0]
  /\ deal_len' = 0
  /\ pc' = "copy"
  /\ UNCHANGED << caller, boot_timeout, ifVars, HBN_RSV3, pt_valid, active_index, len, untouched,
                  pt_entry, resets >>

CopyChunk ==
  /\ pc = "copy" /\ deal_len < len
  /\ deal_len' = deal_len + 1
  /\ flash' = [flash EXCEPT ![Destination] =
                 IF @ = deal_len /\ deal_len < flash[Source] THEN @ + 1 ELSE @]
  /\ UNCHANGED << pc, caller, boot_timeout, ifVars, HBN_RSV3, pt_valid, active_index, len, untouched,
                  pt_entry, resets >>

(* flash_erase or flash_write fails: blsp_boot2_deal_one_fw returns 1 with *)
(* the active index as it was, and main_task goes on.                      *)
CopyFails ==
  /\ \/ pc = "erase" /\ flash' = [flash EXCEPT ![Destination] = 0]
     \/ pc = "copy" /\ deal_len < len /\ UNCHANGED flash
  /\ pc' = "check"
  /\ UNCHANGED << caller, boot_timeout, ifVars, HBN_RSV3, pt_valid, active_index, len, untouched,
                  pt_entry, deal_len, resets >>

(* Mutant: the index keeps asking for a copy.                              *)
CopyDone_SameIndex ==
  /\ pc = "copy" /\ deal_len >= len
  /\ pc' = "update"
  /\ UNCHANGED << caller, boot_timeout, ifVars, HBN_RSV3, flashVars, pt_entry, deal_len, resets >>

CopyDone ==
  /\ pc = "copy" /\ deal_len >= len
  /\ pt_entry' = Opposite(pt_entry)
  /\ pc' = "update"
  /\ UNCHANGED << caller, boot_timeout, ifVars, HBN_RSV3, flashVars, deal_len, resets >>

(* pt_table_update_entry succeeds and the table is read again, or fails    *)
(* and the boot goes on with the entry in memory.                          *)
UpdateEntry ==
  /\ pc = "update"
  /\ \/ active_index' = pt_entry /\ pc' = "parse"
     \/ UNCHANGED active_index /\ pc' = "check"
  /\ UNCHANGED << caller, boot_timeout, ifVars, HBN_RSV3, pt_valid, len, flash, untouched,
                  pt_entry, deal_len, resets >>

(* Mutant: the header is enough.                                           *)
CheckImage_HeaderOnly ==
  /\ pc = "check"
  /\ \/ /\ pt_entry < 2 /\ flash[Source] > 0
        /\ pc' = "last" /\ UNCHANGED ifVars
     \/ /\ ~ (pt_entry < 2 /\ flash[Source] > 0)
        /\ pc' = "fail" /\ UseUart
  /\ UNCHANGED << caller, boot_timeout, HBN_RSV3, flashVars, pt_entry, deal_len, resets >>

(* blsp_mediaboot_main: header and hash of the image the entry points to.  *)
(* An index of 2 or 3, left by a failed copy, reads the field behind       *)
(* start_address, a length, and no header is found there.                  *)
CheckImage ==
  /\ pc = "check"
  /\ \/ Complete(pt_entry) /\ pc' = "last" /\ UNCHANGED ifVars
     \/ ~ Complete(pt_entry) /\ pc' = "fail" /\ UseUart
  /\ UNCHANGED << caller, boot_timeout, HBN_RSV3, flashVars, pt_entry, deal_len, resets >>

-------------------------------------------------------------------------------
(* Mutant: the interface is left as it is.                                 *)
bl_connected_KeepsInterface ==
  /\ pc # "app" /\ ~ ble_bl_conn
  /\ ble_bl_conn' = TRUE
  /\ UNCHANGED << pc, caller, boot_timeout, eflash_loader_if, early, HBN_RSV3, flashVars, pt_entry,
                  deal_len, resets >>

bl_connected ==
  /\ pc # "app" /\ ~ ble_bl_conn
  /\ ble_bl_conn' = TRUE /\ eflash_loader_if' = "BLE"
  /\ UNCHANGED << pc, caller, boot_timeout, early, HBN_RSV3, flashVars, pt_entry, deal_len, resets >>

bl_disconnected ==
  /\ ble_bl_conn
  /\ ble_bl_conn' = FALSE /\ early' = FALSE
  /\ UNCHANGED << pc, caller, boot_timeout, eflash_loader_if, HBN_RSV3, flashVars, pt_entry,
                  deal_len, resets >>

(* The application runs: TrainApp.                                         *)
AppRuns == pc = "app" /\ UNCHANGED vars

(* The application asks for the bootloader (ble_app_process).              *)
JumpToBootloader ==
  /\ pc = "app"
  /\ HBN_RSV3' = TRUE
  /\ ChipReset
  /\ UNCHANGED flashVars

(* Power fails at any point.                                               *)
PowerLoss ==
  /\ HBN_RSV3' = FALSE
  /\ ChipReset
  /\ UNCHANGED flashVars

Next ==
  \/ InterfacesReady \/ PollMisses \/ PollOpens
  \/ LoaderErase \/ LoaderWrite \/ LoaderReset \/ SessionEnds
  \/ ReadTable \/ EraseDestination \/ CopyChunk \/ CopyFails \/ CopyDone \/ UpdateEntry
  \/ CheckImage
  \/ bl_connected \/ bl_disconnected
  \/ AppRuns \/ JumpToBootloader \/ PowerLoss

Spec == Init /\ [][Next]_vars

(* The task is scheduled: it polls, and opens a session for a connected    *)
(* phone, while nobody has to send a handshake on the wire.  A session     *)
(* does not last for ever: the host falls silent in the end, which two     *)
(* receive timeouts notice.                                                *)
Poll == PollMisses \/ (eflash_loader_if = "BLE" /\ PollOpens)
FairSpec ==
  /\ Spec
  /\ WF_vars(InterfacesReady) /\ WF_vars(Poll) /\ WF_vars(SessionEnds)
  /\ WF_vars(ReadTable) /\ WF_vars(EraseDestination \/ CopyChunk \/ CopyFails \/ CopyDone)
  /\ WF_vars(UpdateEntry) /\ WF_vars(CheckImage)

-------------------------------------------------------------------------------
(* Type invariant of main_task's variables and the flash.                  *)
TypeOK ==
  /\ pc \in Positions /\ caller \in Polls \union {"none"}
  /\ pc = "session" => caller \in Polls
  /\ boot_timeout \in 0 .. (LongWindow + ShortWindow)
  /\ pc = "window" \/ (pc = "session" /\ caller = "window") => boot_timeout > 0
  /\ eflash_loader_if \in {"BLE", "UART"} /\ ble_bl_conn \in BOOLEAN /\ HBN_RSV3 \in BOOLEAN
  /\ pt_valid \in BOOLEAN /\ active_index \in 0 .. 3 /\ len \in Lens
  /\ pt_entry \in 0 .. 3 /\ deal_len \in Nat
  /\ flash \in [Places -> 0 .. ImgChunks]
  /\ untouched \in BOOLEAN /\ early \in BOOLEAN /\ resets \in 0 .. MaxResets

(* The copy of an OTA image never costs the train its firmware: whatever   *)
(* power losses, flash errors and failed table updates happen to it, the   *)
(* place the table points to holds a complete image, if it did at first,   *)
(* no session intervened, the places differ and len covers the image.      *)
CopyKeepsImage ==
  untouched /\ start_address[0] # start_address[1] /\ len >= ImgChunks => ActiveComplete

(* An image that is started is complete, unless a host opened a session at *)
(* the last poll, which comes after the check.                             *)
StartedImageComplete == pc = "app" /\ caller # "last" => Complete(pt_entry)

(* The window, the copy and the check come to an end.                      *)
BootEnds == pc = "window" ~> pc \in {"app", "fail"}

(* After a failed boot a phone that connects is given a session, unless it *)
(* leaves or the chip is reset first.  A phone that was connected when the *)
(* boot failed has to connect again: main_task has turned to UART.         *)
PhoneWaits == pc = "fail" /\ ble_bl_conn /\ ~ early /\ pt_valid
PhoneServed == PhoneWaits ~> ~ PhoneWaits
===============================================================================
