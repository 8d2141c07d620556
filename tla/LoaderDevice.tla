------------------------------ MODULE LoaderDevice ------------------------------
(***************************************************************************)
(* The robot's side of a firmware update over BLE: reassembly of packets   *)
(* in the receive callback (bflb_eflash_loader_ble.c), the command loop    *)
(* (bflb_eflash_loader_interface.c) and the commands the phone uses        *)
(* (bflb_eflash_loader_cmds.c).  A page is one flash sector and one chunk  *)
(* of the image; a write command travels in two fragments, every other     *)
(* command in one.                                                         *)
(***************************************************************************)
EXTENDS Integers, Sequences, FiniteSets

CONSTANTS
  ImagePages,   \* number of chunks of the new image
  FlashPages    \* sectors modelled from the start of the firmware partition

ASSUME DeviceAssumption ==
  /\ ImagePages \in Nat \ {0}
  /\ FlashPages \in Nat
  /\ ImagePages <= FlashPages

VARIABLES
  mode,      \* "app": the train firmware runs, "boot": the bootloader runs
  link,      \* ble_bl_conn is set: the BLE link is up
  indicate,  \* is_indicate_enabled
  rx,        \* what g_eflash_loader_readbuf holds of an unfinished packet
  pending,   \* complete packet announced by rx_sem, not yet taken
  flash,     \* contents of each sector
  up,        \* fragments in flight from the phone
  down       \* responses in flight to the phone

devVars == << mode, link, indicate, rx, pending, flash, up, down >>

Addresses == 1 .. FlashPages
Chunks == 1 .. ImagePages

(* A sector is erased, holds the old firmware, a chunk of the new one, a   *)
(* chunk whose programming was cut short, or bits of several writes.       *)
Blank == [kind |-> "blank", chunk |-> 0]
Old == [kind |-> "old", chunk |-> 0]
Mixed == [kind |-> "mixed", chunk |-> 0]
Chunk(c) == [kind |-> "chunk", chunk |-> c]
Torn(d) == [d EXCEPT !.kind = IF @ = "chunk" THEN "torn" ELSE @]
Data == {Mixed} \union {Chunk(c) : c \in Chunks}
Sectors == {Blank, Old} \union Data \union {Torn(d) : d \in Data}

Write(a, d) == [cmd |-> "write", addr |-> a, data |-> d]
Simple(c) == [cmd |-> c, addr |-> 0, data |-> Blank]
Commands ==
  [cmd: {"jedec", "erase", "reset", "magic"}, addr: {0}, data: {Blank}]
  \union [cmd: {"write"}, addr: Nat, data: Data]
NoCommand == Simple("none")

(* A fragment: part 1 of 2, part 2 of 2, or a whole packet (part 0).       *)
Fragment(c, p) == [cmd |-> c, part |-> p]
Fragments == [cmd: Commands, part: 0 .. 2]

(* Two bytes (OK), eight bytes (the flash id) or four bytes (an error).    *)
Responses == {"OK", "JEDEC", "NOK"}

(* The receive buffer: empty, the first part of a write command, or bytes  *)
(* whose length prefix is not one.                                         *)
Empty == [state |-> "empty", cmd |-> NoCommand]
Partial(c) == [state |-> "partial", cmd |-> c]
Junk == [state |-> "junk", cmd |-> NoCommand]

DeviceTypeOK ==
  /\ mode \in {"app", "boot"}
  /\ link \in BOOLEAN
  /\ indicate \in BOOLEAN
  /\ rx \in [state: {"empty", "partial", "junk"}, cmd: Commands \union {NoCommand}]
  /\ pending \in Commands \union {NoCommand}
  /\ flash \in [Addresses -> Sectors]
  /\ up \in Seq(Fragments)
  /\ down \in Seq(Responses)

(* The image check of the boot sequence: the old or the new firmware is    *)
(* complete.                                                               *)
ImageIn(f) == \A c \in Chunks : f[c] = Chunk(c)
Bootable(f) == ImageIn(f) \/ \A c \in Chunks : f[c] = Old

DeviceInit ==
  /\ mode \in {"app", "boot"}
  /\ link = TRUE
  /\ indicate \in BOOLEAN
  /\ rx = Empty
  /\ pending = NoCommand
  /\ flash = [a \in Addresses |-> Old]
  /\ up = << >>
  /\ down = << >>

-------------------------------------------------------------------------------
(* The link is gone: fragments and responses in flight with it.            *)
bl_disconnected ==
  /\ link' = FALSE
  /\ indicate' = FALSE
  /\ up' = << >>
  /\ down' = << >>

(* A new link: the receive buffer is emptied and rx_sem taken.             *)
bl_connected ==
  /\ link' = TRUE
  /\ rx' = Empty
  /\ pending' = NoCommand
  /\ UNCHANGED << mode, indicate, flash, up, down >>

(* bflb_eflash_loader_ble_send: nothing is sent unless the phone asked for  *)
(* indications.                                                            *)
Sent(r) == IF link /\ indicate THEN Append(down, r) ELSE down

(* One fragment reaches ble_blf_recv.  A packet longer than its prefix     *)
(* says empties the buffer and is answered by NOK; the rest of such a      *)
(* packet starts with image bytes that are taken for a length, too long    *)
(* (the buffer keeps filling) or too short (emptied, NOK); the magic word, *)
(* which has no prefix, is taken for a long packet.                        *)
(*   A fragment that comes while a command is in the buffer spoils it: the  *)
(* command is refused (Refuse) or, once taken, overwritten while it is     *)
(* carried out (Overrun) or while bflb_eflash_loader_ble_recv still waits   *)
(* its 200 ms before an erase (Replace: the newcomer is carried out twice).*)
ble_blf_recv ==
  /\ mode = "boot"
  /\ up # << >>
  /\ LET f == Head(up)
         Keep(b) == rx' = b /\ UNCHANGED << pending, down >>
         Deliver(c) == rx' = Empty /\ pending' = c /\ UNCHANGED down
         Refuse == rx' = Empty /\ pending' = NoCommand /\ down' = Sent("NOK")
         Overrun == /\ pending.cmd = "write" /\ f.part = 1 /\ pending # f.cmd
                    /\ \E a \in {pending.addr, f.cmd.addr} : pending' = Write(a, Mixed)
                    /\ rx' = Partial(f.cmd)
                    /\ UNCHANGED down
         Replace == /\ pending.cmd = "erase" /\ f.cmd.cmd = "jedec"
                    /\ pending' = f.cmd
                    /\ rx' = Empty
                    /\ down' = Sent("JEDEC")
         Prefixed == f.part = 0 /\ f.cmd.cmd # "magic"
     IN  \/ pending # NoCommand /\ (Refuse \/ Overrun \/ Replace)
         \/ /\ pending = NoCommand /\ rx.state = "empty"
            /\ \/ Prefixed /\ Deliver(f.cmd)
               \/ f.part = 1 /\ Keep(Partial(f.cmd))
               \/ f.part = 0 /\ ~ Prefixed /\ Keep(Junk)
               \/ f.part = 2 /\ (Keep(Junk) \/ Refuse)
         \/ /\ pending = NoCommand /\ rx.state = "partial"
            /\ \/ f.part = 2 /\ Deliver(f.cmd)
               \/ f.part = 1 /\ Refuse
               \/ f.part = 0 /\ Keep(Junk)
         \/ pending = NoCommand /\ rx.state = "junk" /\ (Keep(Junk) \/ Refuse)
  /\ up' = Tail(up)
  /\ UNCHANGED << mode, link, indicate, flash >>

-------------------------------------------------------------------------------
(* Programming can only clear bits: a sector that is not erased and does   *)
(* not already hold the data ends up with a mixture.                       *)
Programmed(a, d) ==
  [flash EXCEPT ![a] = IF @ \in {Blank, d, Torn(d)} THEN d ELSE Mixed]

Interrupted(a, d) ==
  [flash EXCEPT ![a] = IF @ \in {Blank, Torn(d)} THEN Torn(d)
                       ELSE IF @ = d THEN d ELSE Mixed]

(* bflb_eflash_loader_cmd_erase_flash: the length is end - start + 1 while  *)
(* the phone sends an exclusive end, so one more sector is erased.         *)
ErasedSectors == Addresses \intersect (1 .. ImagePages + 1)
Erased(S) == [a \in Addresses |-> IF a \in S THEN Blank ELSE flash[a]]

bflb_eflash_loader_cmd_read_jedec_id ==
  /\ pending.cmd = "jedec"
  /\ down' = Sent("JEDEC")
  /\ UNCHANGED << mode, link, indicate, rx, flash, up >>

bflb_eflash_loader_cmd_write_flash ==
  /\ pending.cmd = "write"
  /\ flash' = Programmed(pending.addr, pending.data)
  /\ down' = Sent("OK")
  /\ UNCHANGED << mode, link, indicate, rx, up >>

(* Interrupts are off while sectors are erased: the link may not survive.  *)
bflb_eflash_loader_cmd_erase_flash ==
  /\ pending.cmd = "erase"
  /\ flash' = Erased(ErasedSectors)
  /\ \/ down' = Sent("OK") /\ UNCHANGED << link, indicate, up >>
     \/ bl_disconnected
  /\ UNCHANGED << mode, rx >>

(* The chip resets and boots what it finds. *)
bflb_eflash_loader_cmd_reset ==
  /\ pending.cmd = "reset"
  /\ bl_disconnected
  /\ mode' = IF Bootable(flash) THEN "app" ELSE "boot"
  /\ UNCHANGED << rx, flash >>

(* The command loop of bflb_eflash_loader_main carries out one command.    *)
bflb_eflash_loader_cmd_process ==
  /\ mode = "boot"
  /\ pending # NoCommand
  /\ pending' = NoCommand
  /\ \/ bflb_eflash_loader_cmd_read_jedec_id
     \/ bflb_eflash_loader_cmd_write_flash
     \/ bflb_eflash_loader_cmd_erase_flash
     \/ bflb_eflash_loader_cmd_reset

(* The flash driver reports an error: the command answers with it, and the *)
(* sectors are left as far as the driver got.                              *)
FlashError ==
  /\ mode = "boot"
  /\ pending' = NoCommand
  /\ \/ /\ pending.cmd = "write"
        /\ \/ UNCHANGED flash
           \/ flash' = Interrupted(pending.addr, pending.data)
     \/ /\ pending.cmd = "erase"
        /\ \E S \in SUBSET ErasedSectors : flash' = Erased(S)
  /\ down' = Sent("NOK")
  /\ UNCHANGED << mode, link, indicate, rx, up >>

(* bflb_eflash_loader_ble_recv gives up after its timeout and forgets a     *)
(* packet that has only partly arrived.                                    *)
ble_recv_timeout ==
  /\ mode = "boot"
  /\ pending = NoCommand
  /\ rx # Empty
  /\ rx' = Empty
  /\ UNCHANGED << mode, link, indicate, pending, flash, up, down >>

(* The session ends on timeouts and the boot window closes: a complete     *)
(* image is started; without one the bootloader keeps waiting for a host.  *)
BootApp ==
  /\ mode = "boot"
  /\ pending = NoCommand
  /\ Bootable(flash)
  /\ mode' = "app"
  /\ rx' = Empty
  /\ bl_disconnected
  /\ UNCHANGED << pending, flash >>

(* The train firmware accepts nothing but the magic word, which makes it   *)
(* reset into the bootloader (ble_app_recv, ble_app_process).              *)
ble_app_recv ==
  /\ mode = "app"
  /\ up # << >>
  /\ IF Head(up).cmd.cmd = "magic"
       THEN mode' = "boot" /\ bl_disconnected
       ELSE up' = Tail(up) /\ UNCHANGED << mode, link, indicate, down >>
  /\ UNCHANGED << rx, pending, flash >>

(* Power fails and returns.  A write that was under way left some of its   *)
(* bits, which writing the same data again completes; an erase left some   *)
(* sectors erased.                                                         *)
PowerCycle ==
  /\ mode' = "boot"
  /\ rx' = Empty
  /\ pending' = NoCommand
  /\ \/ UNCHANGED flash
     \/ /\ pending.cmd = "erase"
        /\ \E S \in SUBSET ErasedSectors : flash' = Erased(S)
     \/ /\ pending.cmd = "write"
        /\ flash' = Interrupted(pending.addr, pending.data)
  /\ bl_disconnected

LinkBreaks ==
  /\ link
  /\ bl_disconnected
  /\ UNCHANGED << mode, rx, pending, flash >>
===============================================================================
