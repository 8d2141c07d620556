--------------------------- MODULE FirmwareUpdateProofs ---------------------------
(***************************************************************************)
(* Whatever links break, connections fail and power is lost: an update     *)
(* that is not hit by one of the incidents puts every chunk in its place   *)
(* and reports COMPLETE only when the robot holds the image, for any size  *)
(* of the image, any limits of the retries and any number of faults.       *)
(***************************************************************************)
EXTENDS FirmwareUpdate, SequenceTheorems, TLAPS

-------------------------------------------------------------------------------
(* What holds with and without incidents.                                  *)

(* Retries that are counted down are never at zero while they are counted. *)
Verifying == job.pc \in {"verify", "verifyWait"}
Counters ==
  /\ Sending => job.retry >= 1 /\ job.chunk \in Chunks
  /\ job.pc = "waitErase" \/ (Verifying /\ job.call = 3) => job.retry >= 1
  /\ job.pc = "waitPage" \/ (Verifying /\ job.call = 5) => job.rc >= 1

(* The robot's link is one the phone knows of; without it nothing is in    *)
(* flight, and before the services are discovered nothing is sent.         *)
LinkSound ==
  /\ link => gatt = "connected"
  /\ ~ link => up = << >> /\ down = << >>
  /\ ~ handles => up = << >>

(* Only a write command comes in parts.                                    *)
PartsSound == \A i \in DOMAIN up : up[i].part # 0 => up[i].cmd.cmd = "write"

-------------------------------------------------------------------------------
(* What holds without incidents.                                           *)

(* Before the erase command, between it and the first page, and after the  *)
(* last page.                                                              *)
Before ==
  \/ job.pc \in {"check", "drain", "acquire", "magic", "makeNew", "makeWait", "erase"}
  \/ Verifying /\ job.call \in {1, 2}
Erasing ==
  \/ job.pc \in {"waitErase", "start"}
  \/ Verifying /\ job.call \in {3, 4}
Done == job.pc \in {"sysreset", "COMPLETE"}

Silent == down = << >> /\ rxQueue = << >>
Naks(q) == \A i \in DOMAIN q : q[i] # "OK"
NoneOf(kinds) ==
  /\ pending.cmd \notin kinds
  /\ \A i \in DOMAIN up : up[i].cmd.cmd \notin kinds

(* The positions at which the robot has nothing to do and nothing to say.  *)
Quiet ==
  job.pc \in {"check", "drain", "acquire", "verify", "magic", "makeWait", "erase",
              "start", "part1", "sysreset"}
    => ~ RobotBusy

(* verifyInBootloaderMode: one request, of which there is one answer.      *)
OneRequest ==
  job.pc = "verifyWait" =>
    \/ ~ link
    \/ up = << Fragment(Simple("jedec"), 0) >> /\ pending = NoCommand /\ Silent
    \/ up = << >> /\ pending = Simple("jedec") /\ Silent
    \/ up = << >> /\ pending = NoCommand /\ (\E r \in Responses : down = << r >>) /\ rxQueue = << >>
    \/ up = << >> /\ pending = NoCommand /\ down = << >>

(* sendOnePage: its two fragments, and at most one OK, which means that    *)
(* the page is programmed and that nothing else is on its way.             *)
Part(p) == Fragment(PageCommand, p)
Programming == pending = PageCommand /\ up = << >> /\ Silent
SentFirst ==
  /\ Naks(rxQueue)
  /\ link =>
       /\ pending = NoCommand
       /\ \/ up = << Part(1) >> /\ Silent
          \/ up = << >> /\ Naks(down) /\ (rx.state = "partial" => Silent)
Confirmed(q) ==
  /\ q = << "OK" >>
  /\ up = << >> /\ pending = NoCommand
  /\ flash[job.addr] = Chunk(job.chunk)
SentBoth ==
  \/ Confirmed(rxQueue) /\ down = << >>
  \/ Naks(rxQueue) /\ ~ link
  \/ Programming
  \/ Confirmed(down) /\ rxQueue = << >>
  \/ /\ Naks(rxQueue) /\ Naks(down)
     /\ pending = NoCommand
     /\ \/ up = << Part(1), Part(2) >> /\ Silent
        \/ up = << Part(2) >> /\ (rx.state = "partial" => Silent)
        \/ up = << >>
OnePage ==
  /\ job.pc = "part1" => rxQueue = << >>
  /\ job.pc = "part2" => SentFirst
  /\ job.pc = "await" => SentBoth

(* The erase command is on its way, or carried out.                        *)
IsErased == \A c \in Chunks : flash[c] = Blank
EraseSound ==
  /\ job.pc = "waitErase" =>
       \/ up = << Fragment(Simple("erase"), 0) >> /\ pending = NoCommand
       \/ up = << >> /\ pending = Simple("erase")
       \/ up = << >> /\ IsErased /\ pending.cmd # "erase" /\ (link => pending = NoCommand)
  /\ Erasing /\ job.pc # "waitErase" =>
       \/ IsErased /\ NoneOf({"erase"})
       \/ ~ link /\ pending = Simple("erase") /\ job.pc # "start"
            /\ (job.pc = "verifyWait" => rxQueue = << >>)

(* A write in flight is the one of the current page, whose sector takes it. *)
WriteReady ==
  /\ job.addr = job.chunk
  /\ job.chunk \in Chunks
  /\ flash[job.addr] \in {Blank, Chunk(job.chunk), Torn(Chunk(job.chunk))}
WritesSound ==
  /\ pending.cmd = "write" => pending = PageCommand /\ WriteReady
  /\ \A i \in DOMAIN up : up[i].cmd.cmd = "write" => up[i].cmd = PageCommand /\ WriteReady

(* Pages before the current one are programmed, those after it are erased. *)
PagesSound ==
  Sending =>
    /\ WriteReady
    /\ cursor = job.chunk
    /\ \A c \in Chunks : c < job.addr => flash[c] = Chunk(c)
    /\ \A c \in Chunks : c > job.addr => flash[c] = Blank
    /\ NoneOf({"erase"})

Stages ==
  /\ Before => NoneOf({"write", "erase"})
  /\ Erasing => NoneOf({"write"})
  /\ Before \/ Erasing => \A a \in Addresses : flash[a] \in {Blank, Old}
  /\ Done => ImageIn(flash) /\ NoneOf({"write", "erase"})

Placed ==
  \A a \in Addresses :
    flash[a] \in {Blank, Old} \union
                 (IF a \in Chunks THEN {Chunk(a), Torn(Chunk(a))} ELSE {})

Calm ==
  /\ Quiet /\ OneRequest /\ OnePage /\ EraseSound
  /\ WritesSound /\ PagesSound /\ Stages /\ Placed
Undisturbed == incidents = {} => Calm

IInv == TypeOK /\ Counters /\ LinkSound /\ PartsSound /\ Undisturbed

-------------------------------------------------------------------------------
(* Facts about sequences, commands and fragments.                          *)

(* What Append, Head and Tail make of a sequence over S.                   *)
LEMMA SeqFacts ==
  ASSUME NEW S, NEW q \in Seq(S)
  PROVE  /\ \A x \in S : Append(q, x) \in Seq(S)
         /\ q # << >> => Tail(q) \in Seq(S) /\ Head(q) \in S /\ Head(q) = q[1] /\ 1 \in DOMAIN q
  OBVIOUS

(* Append, Head and Tail of the one- and two-element sequences that a      *)
(* request and the two fragments of a page are.                            *)
LEMMA ShortSeqs ==
  ASSUME NEW S, NEW x \in S, NEW y \in S
  PROVE  /\ Append(<< >>, x) = << x >> /\ Append(<< x >>, y) = << x, y >>
         /\ Head(<< x >>) = x /\ Head(<< x, y >>) = x
         /\ Tail(<< x >>) = << >> /\ Tail(<< x, y >>) = << y >>
         /\ << x >> # << >> /\ << x, y >> # << >>
<1>1. Append(<< >>, x) = << x >>
  OBVIOUS
<1>2. Append(<< x >>, y) = << x, y >>
  <2>1. << x >> \in Seq(S) /\ << x, y >> \in Seq(S) /\ Append(<< x >>, y) \in Seq(S)
    OBVIOUS
  <2>2. Len(Append(<< x >>, y)) = 2 /\ Len(<< x, y >>) = 2
    OBVIOUS
  <2>3. \A i \in 1 .. 2 : Append(<< x >>, y)[i] = << x, y >>[i]
    OBVIOUS
  <2> QED BY <2>1, <2>2, <2>3, SeqEqual
<1>3. Head(<< x >>) = x /\ Head(<< x, y >>) = x
  OBVIOUS
<1>4. Tail(<< x >>) = << >>
  OBVIOUS
<1>5. Tail(<< x, y >>) = << y >>
  OBVIOUS
<1>6. << x >> # << >> /\ << x, y >> # << >>
  OBVIOUS
<1> QED BY <1>1, <1>2, <1>3, <1>4, <1>5, <1>6

(* The elements of a sequence with one added, or with its first removed.   *)
LEMMA ElementsOf ==
  ASSUME NEW S, NEW q \in Seq(S)
  PROVE  /\ \A x \in S : \A i \in DOMAIN Append(q, x) : Append(q, x)[i] = x \/ (i \in DOMAIN q /\ Append(q, x)[i] = q[i])
         /\ q # << >> => \A i \in DOMAIN Tail(q) : i + 1 \in DOMAIN q /\ Tail(q)[i] = q[i + 1]
  OBVIOUS

(* The commands the phone builds are commands, and a chunk is data.        *)
LEMMA CommandTypes ==
  /\ \A c \in {"jedec", "erase", "reset", "magic"} : Simple(c) \in Commands
  /\ \A a \in Nat, d \in Data : Write(a, d) \in Commands
  /\ \A c \in Chunks : Chunk(c) \in Data
  /\ Mixed \in Data
  BY DeviceAssumption DEF Simple, Write, Commands, Data, Chunk, Chunks
-------------------------------------------------------------------------------
(* Type correctness. *)
HandlerTypeOK ==
  /\ job \in Jobs
  /\ cursor \in 0 .. ImagePages
  /\ rxQueue \in Seq(Responses)
EnvTypeOK ==
  /\ faults \in 0 .. MaxFaults
  /\ incidents \subseteq {"late response", "data rewound", "erase lost", "stale permit",
                          "attempts overlap"}

(* The initial state is type correct.                                      *)
LEMMA InitTypes == Init => TypeOK
<1> SUFFICES ASSUME Init PROVE TypeOK
  OBVIOUS
<1>1. DeviceTypeOK
  BY DEF Init, DeviceInit, DeviceTypeOK, Sectors, Empty, Old
<1>2. ServiceTypeOK
  <2>1. con_sem \in Nat
    BY DEF Init, ServiceInit
  <2>2. user_retry \in 0 .. USER_RETRY
    BY ServiceAssumption DEF Init, ServiceInit
  <2> QED BY <2>1, <2>2, Zenon DEF Init, ServiceInit, ServiceTypeOK
<1>3. HandlerTypeOK
  BY UpdateAssumption, DeviceAssumption DEF Init, HandlerTypeOK, Jobs, Calls, Positions
<1>4. EnvTypeOK
  BY UpdateAssumption DEF Init, EnvTypeOK
<1> QED BY <1>1, <1>2, <1>3, <1>4 DEF TypeOK, HandlerTypeOK, EnvTypeOK

(* A fragment is sent, or not: the types of what writeRawData changes.     *)
LEMMA WriteTypes ==
  ASSUME TypeOK, NEW f \in Fragments, NEW yes \in Jobs, NEW no \in Jobs,
         writeRawData(f, yes, no)
  PROVE  DeviceTypeOK' /\ job' \in Jobs /\ EnvTypeOK'
<1>1. up' \in Seq(Fragments)
  <2>1. up' = up \/ up' = Append(up, f)
    BY Zenon DEF writeRawData
  <2>2. up \in Seq(Fragments)
    BY DEF TypeOK, DeviceTypeOK
  <2> QED BY <2>1, <2>2, SeqFacts
<1>2. DeviceTypeOK'
  BY <1>1 DEF TypeOK, DeviceTypeOK, writeRawData
<1>3. faults' \in 0 .. MaxFaults
  <2>1. faults' = faults \/ Fault
    BY Zenon DEF writeRawData
  <2>2. faults \in 0 .. MaxFaults
    BY DEF TypeOK
  <2> QED BY <2>1, <2>2, UpdateAssumption DEF Fault
<1>4. EnvTypeOK'
  BY <1>3 DEF TypeOK, EnvTypeOK, writeRawData, LostWith
<1> QED BY <1>2, <1>4 DEF writeRawData

(* The limits of the retries, one by one.                                  *)
LEMMA Limits ==
  /\ PageRetries \in Nat /\ PageRetries >= 1
  /\ EraseWaits \in Nat /\ EraseWaits >= 1
  /\ ConnectRetries \in Nat /\ ConnectRetries >= 1
  /\ MaxFaults \in Nat
  /\ ImagePages \in Nat /\ ImagePages >= 1
  /\ FlashPages \in Nat /\ ImagePages <= FlashPages
  BY UpdateAssumption, DeviceAssumption

(* Counting down stays within the types.                                   *)
LEMMA CountDown ==
  ASSUME NEW j \in Jobs, NEW p \in Positions
  PROVE  /\ [j EXCEPT !.retry = 0, !.pc = p] \in Jobs
         /\ [j EXCEPT !.rc = 0, !.pc = p] \in Jobs
         /\ j.retry >= 1 => [j EXCEPT !.retry = @ - 1, !.pc = p] \in Jobs
         /\ j.rc >= 1 => [j EXCEPT !.rc = @ - 1, !.pc = p] \in Jobs
<1> USE Limits
<1>1. 0 \in 0 .. PageRetries + EraseWaits /\ 0 \in 0 .. ConnectRetries
  OBVIOUS
<1>2. j.retry \in 0 .. PageRetries + EraseWaits /\ j.rc \in 0 .. ConnectRetries
  BY DEF Jobs
<1>3. j.retry >= 1 => j.retry - 1 \in 0 .. PageRetries + EraseWaits
  BY <1>2
<1>4. j.rc >= 1 => j.rc - 1 \in 0 .. ConnectRetries
  BY <1>2
<1> HIDE Limits
<1> QED BY <1>1, <1>3, <1>4 DEF Jobs

(* Jobs that the update job goes on with.                                  *)
LEMMA NextJobs ==
  ASSUME job \in Jobs
  PROVE  /\ \A p \in Positions : Goto(p) \in Jobs
         /\ \A n \in Calls : Verify(n) \in Jobs
         /\ job.retry >= 1 => NextAttempt(job) \in Jobs
         /\ Counters /\ Verifying => \A ok \in BOOLEAN : Verified(ok) \in Jobs
<1>1. \A p \in Positions : Goto(p) \in Jobs
  BY DEF Goto, Jobs
<1>2. \A n \in Calls : Verify(n) \in Jobs
  BY DEF Verify, Jobs, Positions
<1>3. job.retry >= 1 => NextAttempt(job) \in Jobs
  BY CountDown DEF NextAttempt, Positions, PagePhase
<1>4. ASSUME Counters, Verifying, NEW ok \in BOOLEAN PROVE Verified(ok) \in Jobs
  <2>1. job.call \in {1, 2, 3, 4, 5}
    BY DEF Jobs, Calls
  <2>2. CASE job.call = 1
    BY <2>2, <1>1, <1>2 DEF Verified, Calls, Positions
  <2>3. CASE job.call = 2
    BY <2>3, <1>1, <1>2 DEF Verified, Calls, Positions
  <2>4. CASE job.call = 3
    <3>1. job.retry >= 1
      BY <1>4, <2>4 DEF Counters
    <3>2. [job EXCEPT !.retry = @ - 1, !.pc = "waitErase"] \in Jobs
      BY <3>1, CountDown DEF Positions
    <3> QED BY <2>4, <3>2, <1>2 DEF Verified, Calls
  <2>5. CASE job.call = 4
    BY <2>5, <1>1, <1>2 DEF Verified, Calls, Positions
  <2>6. CASE job.call = 5
    <3>1. job.retry >= 1 /\ job.rc >= 1
      BY <1>4, <2>6 DEF Counters, Sending, Verifying
    <3>2. [job EXCEPT !.rc = 0, !.pc = "fail"] \in Jobs
      BY CountDown DEF Positions
    <3>3. [job EXCEPT !.rc = @ - 1, !.pc = "waitPage"] \in Jobs
      BY <3>1, CountDown DEF Positions, PagePhase
    <3> QED BY <2>6, <3>1, <3>2, <3>3, <1>3 DEF Verified
  <2> QED BY <2>1, <2>2, <2>3, <2>4, <2>5, <2>6
<1> QED BY <1>1, <1>2, <1>3, <1>4
(* The robot's steps keep its types.                                       *)
LEMMA SentType ==
  ASSUME DeviceTypeOK, NEW r \in Responses
  PROVE  Sent(r) \in Seq(Responses)
<1>1. down \in Seq(Responses)
  BY DEF DeviceTypeOK
<1> QED BY <1>1, SeqFacts DEF Sent

(* Programming, interrupting or erasing leaves a flash of sectors.         *)
LEMMA SectorTypes ==
  ASSUME DeviceTypeOK, NEW a, NEW d \in Data, NEW S
  PROVE  /\ Programmed(a, d) \in [Addresses -> Sectors]
         /\ Interrupted(a, d) \in [Addresses -> Sectors]
         /\ Erased(S) \in [Addresses -> Sectors]
<1>1. flash \in [Addresses -> Sectors]
  BY DEF DeviceTypeOK
<1>2. {Blank, d, Mixed, Torn(d)} \subseteq Sectors
  BY DEF Sectors, Data
<1> QED BY <1>1, <1>2 DEF Programmed, Interrupted, Erased

(* A write that was received has an address and data.                      *)
LEMMA PendingData ==
  ASSUME DeviceTypeOK, pending.cmd = "write"
  PROVE  pending \in Commands /\ pending.addr \in Nat /\ pending.data \in Data
  BY DEF DeviceTypeOK, NoCommand, Simple, Commands

(* The types after the link is gone.                                       *)
LEMMA DisconnectTypes ==
  ASSUME DeviceTypeOK, bl_disconnected,
         mode' \in {"app", "boot"},
         rx' \in [state: {"empty", "partial", "junk"}, cmd: Commands \union {NoCommand}],
         pending' \in Commands \union {NoCommand},
         flash' \in [Addresses -> Sectors]
  PROVE  DeviceTypeOK'
<1>1. up' \in Seq(Fragments) /\ down' \in Seq(Responses)
  BY DEF bl_disconnected
<1>2. link' \in BOOLEAN /\ indicate' \in BOOLEAN
  BY Zenon DEF bl_disconnected
<1> QED BY <1>1, <1>2, Zenon DEF DeviceTypeOK

(* ble_blf_recv keeps the types of the robot.                              *)
LEMMA RecvTypes ==
  ASSUME DeviceTypeOK, ble_blf_recv
  PROVE  DeviceTypeOK'
<1>1. up # << >> /\ up \in Seq(Fragments)
  BY DEF DeviceTypeOK, ble_blf_recv
<1>2. PICK f \in Fragments : f = Head(up)
  BY <1>1, SeqFacts
<1>3. up' \in Seq(Fragments)
  BY <1>1, SeqFacts DEF ble_blf_recv
<1>4. f.cmd \in Commands
  BY DEF Fragments
<1>5. rx' \in {Empty, Junk, Partial(f.cmd)}
  BY <1>2, Zenon DEF ble_blf_recv
<1>6. rx' \in [state: {"empty", "partial", "junk"}, cmd: Commands \union {NoCommand}]
  BY <1>4, <1>5 DEF Empty, Junk, Partial
<1>7. \/ pending' \in {pending, NoCommand, f.cmd}
      \/ pending.cmd = "write" /\ \E a \in {pending.addr, f.cmd.addr} : pending' = Write(a, Mixed)
  BY <1>2, Zenon DEF ble_blf_recv
<1>8. pending' \in Commands \union {NoCommand}
  <2>1. CASE pending' \in {pending, NoCommand, f.cmd}
    BY <2>1, <1>4 DEF DeviceTypeOK
  <2>2. CASE pending.cmd = "write" /\ \E a \in {pending.addr, f.cmd.addr} : pending' = Write(a, Mixed)
    <3>1. pending.addr \in Nat /\ f.cmd.addr \in Nat
      BY <2>2, <1>4, PendingData DEF Commands
    <3> QED BY <2>2, <3>1, CommandTypes
  <2> QED BY <1>7, <2>1, <2>2
<1>9. down' \in {down, Sent("NOK"), Sent("JEDEC")}
  BY <1>2, Zenon DEF ble_blf_recv
<1>10. down' \in Seq(Responses)
  BY <1>9, SentType DEF DeviceTypeOK, Responses
<1> QED BY <1>3, <1>6, <1>8, <1>10 DEF DeviceTypeOK, ble_blf_recv

(* The command loop keeps the types of the robot.                          *)
LEMMA ProcessTypes ==
  ASSUME DeviceTypeOK, bflb_eflash_loader_cmd_process
  PROVE  DeviceTypeOK'
<1>1. pending' = NoCommand
  BY DEF bflb_eflash_loader_cmd_process
<1>2. CASE bflb_eflash_loader_cmd_read_jedec_id
  BY <1>1, <1>2, SentType DEF bflb_eflash_loader_cmd_read_jedec_id, DeviceTypeOK, Responses
<1>3. CASE bflb_eflash_loader_cmd_write_flash
  <2>1. pending.data \in Data
    BY <1>3, PendingData DEF bflb_eflash_loader_cmd_write_flash
  <2> QED BY <1>1, <1>3, <2>1, SentType, SectorTypes
          DEF bflb_eflash_loader_cmd_write_flash, DeviceTypeOK, Responses
<1>4. CASE bflb_eflash_loader_cmd_erase_flash
  <2>1. flash' \in [Addresses -> Sectors] /\ UNCHANGED << mode, rx >>
    BY <1>4, CommandTypes, SectorTypes DEF bflb_eflash_loader_cmd_erase_flash
  <2>2. CASE bl_disconnected
    BY <1>1, <2>1, <2>2, DisconnectTypes DEF DeviceTypeOK
  <2>3. CASE down' = Sent("OK") /\ UNCHANGED << link, indicate, up >>
    BY <1>1, <2>1, <2>3, SentType DEF DeviceTypeOK, Responses
  <2> QED BY <1>4, <2>2, <2>3 DEF bflb_eflash_loader_cmd_erase_flash
<1>5. CASE bflb_eflash_loader_cmd_reset
  BY <1>1, <1>5, DisconnectTypes DEF bflb_eflash_loader_cmd_reset, DeviceTypeOK
<1> QED BY <1>2, <1>3, <1>4, <1>5 DEF bflb_eflash_loader_cmd_process

(* The faults keep the types of the robot.                                 *)
LEMMA FaultTypes ==
  ASSUME DeviceTypeOK, FlashError \/ LinkBreaks \/ PowerCycle \/ BootApp
  PROVE  DeviceTypeOK'
<1>1. CASE FlashError
  <2>1. flash' \in [Addresses -> Sectors]
    <3>1. CASE pending.cmd = "write"
      <4>1. pending.data \in Data
        BY <3>1, PendingData
      <4> QED BY <1>1, <3>1, <4>1, SectorTypes DEF FlashError, DeviceTypeOK
    <3>2. CASE pending.cmd = "erase" /\ \E S \in SUBSET ErasedSectors : flash' = Erased(S)
      BY <3>2, CommandTypes, SectorTypes
    <3> QED BY <1>1, <3>1, <3>2 DEF FlashError
  <2> QED BY <1>1, <2>1, SentType DEF FlashError, DeviceTypeOK, Responses
<1>2. CASE LinkBreaks
  BY <1>2, DisconnectTypes DEF LinkBreaks, DeviceTypeOK
<1>3. CASE PowerCycle
  <2>1. flash' \in [Addresses -> Sectors]
    <3>1. CASE UNCHANGED flash
      BY <3>1 DEF DeviceTypeOK
    <3>2. CASE pending.cmd = "write" /\ flash' = Interrupted(pending.addr, pending.data)
      <4>1. pending.data \in Data
        BY <3>2, PendingData
      <4> QED BY <3>2, <4>1, SectorTypes
    <3>3. CASE pending.cmd = "erase" /\ \E S \in SUBSET ErasedSectors : flash' = Erased(S)
      BY <3>3, CommandTypes, SectorTypes
    <3> QED BY <1>3, <3>1, <3>2, <3>3 DEF PowerCycle
  <2> QED BY <1>3, <2>1, DisconnectTypes DEF PowerCycle, Empty, DeviceTypeOK
<1>4. CASE BootApp
  BY <1>4, DisconnectTypes DEF BootApp, Empty, DeviceTypeOK
<1> QED BY <1>1, <1>2, <1>3, <1>4

(* The train firmware, the receive timeout and a new link keep the types   *)
(* of the robot.                                                           *)
LEMMA OtherRobotTypes ==
  ASSUME DeviceTypeOK, ble_app_recv \/ ble_recv_timeout \/ bl_connected
  PROVE  DeviceTypeOK'
<1>1. CASE ble_app_recv
  <2>1. CASE mode' = "boot" /\ bl_disconnected
    BY <1>1, <2>1, DisconnectTypes DEF ble_app_recv, DeviceTypeOK
  <2>2. CASE up' = Tail(up) /\ UNCHANGED << mode, link, indicate, down >>
    <3>1. up' \in Seq(Fragments)
      BY <1>1, <2>2, SeqFacts DEF ble_app_recv, DeviceTypeOK
    <3> QED BY <1>1, <2>2, <3>1 DEF ble_app_recv, DeviceTypeOK
  <2> QED BY <1>1, <2>1, <2>2 DEF ble_app_recv
<1>2. CASE ble_recv_timeout
  BY <1>2 DEF ble_recv_timeout, DeviceTypeOK, Empty
<1>3. CASE bl_connected
  BY <1>3 DEF bl_connected, DeviceTypeOK, Empty
<1> QED BY <1>1, <1>2, <1>3
(* The service's operations keep its types.                                *)
Handles == {"null", "connecting", "connected"}

(* connectToDevice keeps the types of what it sets.                        *)
LEMMA ConnectTypes ==
  ASSUME NEW g \in Handles, NEW n \in 0 .. USER_RETRY, connectToDevice(g, n)
  PROVE  gatt' \in Handles /\ user_retry' \in 0 .. USER_RETRY
  BY ServiceAssumption DEF connectToDevice, Handles

(* retry_connect keeps the types of what it sets.                          *)
LEMMA RetryTypes ==
  ASSUME ServiceTypeOK, RetryConnect
  PROVE  gatt' \in Handles /\ user_retry' \in 0 .. USER_RETRY
<1>1. (IF user_retry > 0 THEN user_retry - 1 ELSE 0) \in 0 .. USER_RETRY
  BY ServiceAssumption DEF ServiceTypeOK
<1> QED BY <1>1, ConnectTypes DEF RetryConnect, Handles

(* closeGattConnection clears Boolean flags.                               *)
LEMMA CloseTypes ==
  ASSUME CloseFlags
  PROVE  {servicesReady', notificationReady', handles', notifyQueued'} \subseteq BOOLEAN
  BY DEF CloseFlags

(* A step that leaves the service alone keeps its types ...                *)
LEMMA ServiceStays ==
  ASSUME TypeOK, UNCHANGED << svcVars >>
  PROVE  ServiceTypeOK'
  BY DEF TypeOK, ServiceTypeOK, svcVars

(* ... and one that leaves the robot alone keeps those.                    *)
LEMMA DeviceStays ==
  ASSUME TypeOK, UNCHANGED << devVars >>
  PROVE  DeviceTypeOK'
  BY DEF TypeOK, DeviceTypeOK, devVars

(* A permit is taken, given or dropped; the rest of the service stays.     *)
LEMMA PermitTypes ==
  ASSUME TypeOK, con_sem' \in Nat, is_retry_connect' \in BOOLEAN, user_retry' \in 0 .. USER_RETRY,
         UNCHANGED << gatt, servicesReady, notificationReady, handles, notifyQueued >>
  PROVE  ServiceTypeOK'
  BY DEF TypeOK, ServiceTypeOK

(* A wait that runs into its timeout keeps the types of the environment.   *)
LEMMA TimeoutTypes ==
  ASSUME TypeOK, Timeout
  PROVE  EnvTypeOK'
<1>1. faults' = faults \/ Fault
  BY Zenon DEF Timeout
<1>2. faults \in 0 .. MaxFaults
  BY DEF TypeOK
<1>3. faults' \in 0 .. MaxFaults
  BY <1>1, <1>2, UpdateAssumption DEF Fault
<1>4. incidents' = incidents \/ incidents' = incidents \union {"late response"}
  BY Zenon DEF Timeout
<1> QED BY <1>3, <1>4 DEF TypeOK, EnvTypeOK

(* The pages: the cursor and the chunk stay within the image.              *)
LEMMA PageTypes ==
  ASSUME TypeOK, NextPage
  PROVE  job' \in Jobs /\ cursor' \in 0 .. ImagePages
<1>1. cursor \in 0 .. ImagePages /\ job \in Jobs /\ job.addr \in Nat
  BY DEF TypeOK, Jobs
<1>2. PageRetries \in 0 .. PageRetries + EraseWaits /\ job.addr + 1 \in Nat
  BY <1>1, Limits
<1>3. CASE cursor < ImagePages
  <2>1. cursor + 1 \in 0 .. ImagePages
    BY <1>1, <1>3, Limits
  <2> QED BY <1>1, <1>2, <1>3, <2>1 DEF NextPage, Jobs, Positions, PagePhase
<1>4. CASE ~ (cursor < ImagePages)
  BY <1>1, <1>2, <1>4 DEF NextPage, Jobs, Positions
<1> QED BY <1>3, <1>4

(* The four parts of the type invariant of the next state.                 *)
LEMMA TypesJoin ==
  ASSUME DeviceTypeOK', ServiceTypeOK', HandlerTypeOK', EnvTypeOK'
  PROVE  TypeOK'
  BY DEF TypeOK, HandlerTypeOK, EnvTypeOK

(* The update job's steps, in the order of JobStep.                        *)
LEMMA JobTypes ==
  ASSUME TypeOK, Counters, JobStep
  PROVE  TypeOK'
<1>1. /\ job \in Jobs /\ cursor \in 0 .. ImagePages /\ rxQueue \in Seq(Responses)
      /\ con_sem \in Nat /\ gatt \in Handles /\ user_retry \in 0 .. USER_RETRY
      /\ is_retry_connect \in BOOLEAN
  BY DEF TypeOK, ServiceTypeOK, Handles
<1>2. << >> \in Seq(Responses) /\ 0 \in 0 .. ImagePages
  BY Limits
<1>3. UNCHANGED << envVars >> => EnvTypeOK'
  BY DEF TypeOK, EnvTypeOK, envVars
<1>4. rxQueue # << >> => Tail(rxQueue) \in Seq(Responses)
  BY <1>1, SeqFacts
<1>5. \A p \in Positions : Goto(p) \in Jobs
  BY <1>1, NextJobs
<1>6. \A n \in Calls : Verify(n) \in Jobs
  BY <1>1, NextJobs
<1>7. {"drain", "acquire", "verify", "verifyWait", "magic", "makeNew", "makeWait", "erase",
       "waitErase", "start", "page", "part1", "part2", "await", "failed", "waitPage",
       "sysreset", "fail", "COMPLETE", "FAILURE", "cancelled"} \subseteq Positions
  BY DEF Positions, PagePhase, Ended
<1>8. {1, 2, 3, 4, 5} \subseteq Calls
  BY DEF Calls
<1>9. con_sem > 0 => con_sem - 1 \in Nat
  BY <1>1
<1>10. \A c \in {"jedec", "erase", "reset", "magic"} : Fragment(Simple(c), 0) \in Fragments
  BY CommandTypes DEF Fragment, Fragments
<1>0. DeviceTypeOK /\ ServiceTypeOK
  BY DEF TypeOK
<1> USE TypesJoin, <1>0
<1>11. CASE CheckConnection
  BY <1>11, <1>1, <1>3, <1>5, <1>6, <1>7, <1>8, ServiceStays, DeviceStays DEF CheckConnection, HandlerTypeOK
<1>12. CASE DrainAndReconnect
  <2>1. gatt' \in Handles /\ user_retry' \in 0 .. USER_RETRY
    BY <1>12, <1>1, ConnectTypes DEF DrainAndReconnect
  <2>2. ServiceTypeOK'
    BY <1>12, <2>1 DEF DrainAndReconnect, TypeOK, ServiceTypeOK, Handles
  <2> QED BY <1>12, <2>2, <1>1, <1>3, <1>5, <1>7, DeviceStays DEF DrainAndReconnect, HandlerTypeOK
<1>13. CASE AcquireConnection \/ MakeNewDone
  <2>1. ServiceTypeOK'
    BY <1>13, <1>1, <1>9, PermitTypes DEF AcquireConnection, MakeNewDone
  <2> QED BY <1>13, <2>1, <1>1, <1>3, <1>6, <1>8, DeviceStays DEF AcquireConnection, MakeNewDone, HandlerTypeOK
<1>14. ASSUME Verifying PROVE Verified(TRUE) \in Jobs /\ Verified(FALSE) \in Jobs
  BY <1>14, <1>1, NextJobs
<1>15. CASE VerifySend
  <2>1. Verified(FALSE) \in Jobs /\ Goto("verifyWait") \in Jobs
    BY <1>15, <1>14, <1>5, <1>7 DEF VerifySend, At, Verifying
  <2>2. DeviceTypeOK' /\ job' \in Jobs /\ EnvTypeOK'
    BY <1>15, <2>1, <1>10, WriteTypes DEF VerifySend
  <2> QED BY <1>15, <2>2, <1>1, <1>2, ServiceStays DEF VerifySend, HandlerTypeOK
<1>16. CASE VerifyAnswered
  BY <1>16, <1>1, <1>3, <1>14, ServiceStays, DeviceStays DEF VerifyAnswered, At, Verifying, HandlerTypeOK
<1>17. CASE VerifyTimeout
  BY <1>17, <1>1, <1>14, ServiceStays, DeviceStays, TimeoutTypes DEF VerifyTimeout, At, Verifying, HandlerTypeOK
<1>18. CASE SendMagic
  <2>1. DeviceTypeOK' /\ job' \in Jobs /\ EnvTypeOK'
    BY <1>18, <1>10, <1>5, <1>7, WriteTypes DEF SendMagic
  <2>2. con_sem' \in Nat
    BY <1>18, <1>1 DEF SendMagic
  <2>3. ServiceTypeOK'
    BY <1>18, <2>2, <1>1, PermitTypes DEF SendMagic
  <2> QED BY <1>18, <2>1, <2>3, <1>1 DEF SendMagic, HandlerTypeOK
<1>19. CASE MakeNewConnection
  <2>1. gatt' \in Handles /\ user_retry' \in 0 .. USER_RETRY
    BY <1>19, <1>1, ConnectTypes DEF MakeNewConnection, Handles
  <2>2. ServiceTypeOK'
    BY <1>19, <1>1, <2>1, CloseTypes DEF MakeNewConnection, ServiceTypeOK, Handles
  <2>3. DeviceTypeOK'
    BY <1>19, DisconnectTypes DEF MakeNewConnection, DeviceTypeOK
  <2> QED BY <1>19, <2>2, <2>3, <1>2, <1>3, <1>5, <1>7 DEF MakeNewConnection, HandlerTypeOK
<1>20. CASE MakeNewTimeout
  BY <1>20, <1>1, <1>3, <1>5, <1>7, ServiceStays, DeviceStays DEF MakeNewTimeout, HandlerTypeOK
<1>21. CASE eraseFlash
  <2>1. [job EXCEPT !.retry = EraseWaits, !.pc = "waitErase"] \in Jobs
    <3>1. EraseWaits \in 0 .. PageRetries + EraseWaits
      BY Limits
    <3> QED BY <1>1, <1>7, <3>1 DEF Jobs
  <2>2. DeviceTypeOK' /\ job' \in Jobs /\ EnvTypeOK'
    BY <1>21, <1>10, <1>5, <1>7, <2>1, WriteTypes DEF eraseFlash
  <2>3. ServiceTypeOK'
    BY <1>21, <1>1, PermitTypes DEF eraseFlash
  <2> QED BY <1>21, <2>2, <2>3, <1>1, <1>2 DEF eraseFlash, HandlerTypeOK
<1>22. CASE EraseReconnected
  <2>1. ServiceTypeOK'
    BY <1>22, <1>1, <1>9, PermitTypes DEF EraseReconnected
  <2>2. EnvTypeOK'
    BY <1>22 DEF EraseReconnected, TypeOK, EnvTypeOK
  <2> QED BY <1>22, <2>1, <2>2, <1>1, <1>6, <1>8, DeviceStays DEF EraseReconnected, HandlerTypeOK
<1>23. CASE EraseWaitTimeout \/ PageWaitTimeout
  BY <1>23, <1>1, <1>6, <1>8, ServiceStays, DeviceStays, TimeoutTypes
     DEF EraseWaitTimeout, PageWaitTimeout, HandlerTypeOK
<1>24. CASE StartPages
  <2>1. PageRetries \in 0 .. PageRetries + EraseWaits /\ 1 \in 0 .. ImagePages
    BY Limits
  <2>2. job' \in Jobs
    BY <1>24, <1>1, <1>7, <2>1 DEF StartPages, Jobs
  <2> QED BY <1>24, <2>1, <2>2, <1>1, <1>3, ServiceStays, DeviceStays DEF StartPages, HandlerTypeOK
<1>25. CASE BeginPage
  <2>1. EnvTypeOK'
    BY <1>25 DEF BeginPage, TypeOK, EnvTypeOK
  <2> QED BY <1>25, <2>1, <1>1, <1>2, <1>5, <1>7, ServiceStays, DeviceStays DEF BeginPage, HandlerTypeOK
<1>26. CASE UnexpectedResponse
  BY <1>26, <1>1, <1>3, <1>4, <1>5, <1>7, ServiceStays, DeviceStays DEF UnexpectedResponse, HandlerTypeOK
<1>27. CASE SendPart1 \/ SendPart2
  <2>1. Fragment(PageCommand, 1) \in Fragments /\ Fragment(PageCommand, 2) \in Fragments
    <3>1. job.chunk \in Chunks /\ job.addr \in Nat
      BY <1>27, <1>1 DEF SendPart1, SendPart2, At, Sending, PagePhase, Counters, Jobs
    <3>2. PageCommand \in Commands
      BY <3>1, CommandTypes DEF PageCommand
    <3> QED BY <3>2 DEF Fragment, Fragments
  <2>2. DeviceTypeOK' /\ job' \in Jobs /\ EnvTypeOK'
    BY <1>27, <2>1, <1>5, <1>7, WriteTypes DEF SendPart1, SendPart2
  <2> QED BY <1>27, <2>2, <1>1, ServiceStays DEF SendPart1, SendPart2, HandlerTypeOK
<1>28. CASE getResponse
  <2>1. job' \in Jobs /\ cursor' \in 0 .. ImagePages
    BY <1>28, <1>1, <1>5, <1>7, PageTypes DEF getResponse
  <2> QED BY <1>28, <2>1, <1>3, <1>4, ServiceStays, DeviceStays DEF getResponse, HandlerTypeOK
<1>29. CASE getResponseTimeout
  BY <1>29, <1>1, <1>5, <1>7, ServiceStays, DeviceStays, TimeoutTypes DEF getResponseTimeout, HandlerTypeOK
<1>30. ASSUME Sending PROVE NextAttempt(job) \in Jobs
  BY <1>30, <1>1, NextJobs DEF Counters
<1>31. CASE PageFailed
  <2>1. NextAttempt(job) \in Jobs
    BY <1>31, <1>30 DEF PageFailed, At, Sending, PagePhase
  <2>2. [job EXCEPT !.rc = ConnectRetries, !.pc = "waitPage"] \in Jobs
    <3>1. ConnectRetries \in 0 .. ConnectRetries
      BY Limits
    <3> QED BY <1>1, <1>7, <3>1 DEF Jobs
  <2> QED BY <1>31, <2>1, <2>2, <1>1, <1>3, ServiceStays, DeviceStays DEF PageFailed, HandlerTypeOK
<1>32. CASE PageReconnected
  <2>1. NextAttempt(job) \in Jobs
    BY <1>32, <1>30 DEF PageReconnected, At, Sending, PagePhase
  <2>2. ServiceTypeOK'
    BY <1>32, <1>1, <1>9, PermitTypes DEF PageReconnected
  <2> QED BY <1>32, <2>1, <2>2, <1>1, <1>3, DeviceStays DEF PageReconnected, HandlerTypeOK
<1>33. CASE systemReset
  <2>1. DeviceTypeOK' /\ job' \in Jobs /\ EnvTypeOK'
    BY <1>33, <1>10, <1>5, <1>7, WriteTypes DEF systemReset
  <2>2. ServiceTypeOK'
    <3>1. user_retry' \in 0 .. USER_RETRY
      BY <1>33, ServiceAssumption DEF systemReset
    <3> QED BY <1>33, <1>1, <3>1, PermitTypes DEF systemReset
  <2> QED BY <1>33, <2>1, <2>2, <1>1 DEF systemReset, HandlerTypeOK
<1>34. CASE ReportFailure
  <2>1. ServiceTypeOK'
    <3>1. user_retry' \in 0 .. USER_RETRY
      BY <1>34, ServiceAssumption DEF ReportFailure, DisconnectDevice
    <3> QED BY <1>34, <1>1, <3>1, CloseTypes DEF ReportFailure, DisconnectDevice, ServiceTypeOK
  <2>2. DeviceTypeOK'
    BY <1>34, DisconnectTypes DEF ReportFailure, DeviceTypeOK
  <2> QED BY <1>34, <2>1, <2>2, <1>1, <1>3, <1>5, <1>7 DEF ReportFailure, HandlerTypeOK
<1> QED
  BY <1>11, <1>12, <1>13, <1>15, <1>16, <1>17, <1>18, <1>19, <1>20, <1>21, <1>22, <1>23, <1>24,
     <1>25, <1>26, <1>27, <1>28, <1>29, <1>31, <1>32, <1>33, <1>34 DEF JobStep

(* Fault uses up one of the faults that are left.                          *)
LEMMA FaultCounts ==
  ASSUME TypeOK, Fault \/ UNCHANGED faults
  PROVE  faults' \in 0 .. MaxFaults
<1>1. faults \in 0 .. MaxFaults /\ MaxFaults \in Nat
  BY Limits DEF TypeOK
<1> QED BY <1>1 DEF Fault

(* The ways out of a connection: disconnect, retry_connect and the close   *)
(* that precedes a retry keep the types of the service and of the handler. *)
LEMMA CloseKeepsTypes ==
  ASSUME TypeOK, retry_connect \/ CloseAndRetry, UNCHANGED << con_sem, is_retry_connect >>
  PROVE  /\ ServiceTypeOK' /\ HandlerTypeOK'
         /\ incidents' \in {incidents, incidents \union {"data rewound"}}
<1>1. /\ job \in Jobs /\ cursor \in 0 .. ImagePages /\ rxQueue \in Seq(Responses)
      /\ ServiceTypeOK /\ con_sem \in Nat /\ is_retry_connect \in BOOLEAN
      /\ user_retry \in 0 .. USER_RETRY
      /\ servicesReady \in BOOLEAN /\ notificationReady \in BOOLEAN
  BY DEF TypeOK, ServiceTypeOK
<1>2. << >> \in Seq(Responses) /\ 0 \in 0 .. ImagePages
  BY Limits
<1>3. Goto("cancelled") \in Jobs /\ Goto("failed") \in Jobs
  BY <1>1, NextJobs DEF Positions, PagePhase, Ended
<1>4. CASE ServiceDisconnect
  <2>1. ServiceTypeOK'
    BY <1>1, <1>4, CloseTypes DEF ServiceDisconnect, ServiceTypeOK
  <2>2. HandlerTypeOK'
    BY <1>1, <1>2, <1>3, <1>4 DEF ServiceDisconnect, HandlerTypeOK
  <2> QED BY <1>4, <2>1, <2>2 DEF ServiceDisconnect
<1>5. CASE retry_connect /\ RetryAllowed
  <2>1. RetryConnect /\ handles' = FALSE /\ notifyQueued' = FALSE
        /\ UNCHANGED << servicesReady, notificationReady, handlerVars, incidents >>
    BY <1>5, Zenon DEF retry_connect
  <2>2. gatt' \in Handles /\ user_retry' \in 0 .. USER_RETRY
    BY <2>1, <1>1, RetryTypes
  <2>3. ServiceTypeOK'
    BY <1>1, <2>1, <2>2 DEF ServiceTypeOK, Handles
  <2>4. HandlerTypeOK'
    BY <1>1, <2>1 DEF HandlerTypeOK, handlerVars
  <2> QED BY <2>1, <2>3, <2>4
<1>6. CASE CloseAndRetry /\ RetryAllowed
  <2>1. CloseFlags /\ RetryConnect /\ HandlerDisconnected
    BY <1>6, Zenon DEF CloseAndRetry
  <2>2. gatt' \in Handles /\ user_retry' \in 0 .. USER_RETRY
    BY <2>1, <1>1, RetryTypes
  <2>3. ServiceTypeOK'
    BY <1>1, <2>1, <2>2, CloseTypes DEF ServiceTypeOK, Handles
  <2>4. HandlerTypeOK'
    BY <1>1, <1>2, <1>3, <2>1 DEF HandlerTypeOK, HandlerDisconnected
  <2> QED BY <2>1, <2>3, <2>4 DEF HandlerDisconnected
<1> QED BY <1>4, <1>5, <1>6, Zenon DEF retry_connect, CloseAndRetry

(* The callbacks of the connection, in the order of Callback.              *)
LEMMA CallbackTypes ==
  ASSUME TypeOK, Callback
  PROVE  TypeOK'
<1>1. /\ job \in Jobs /\ cursor \in 0 .. ImagePages /\ rxQueue \in Seq(Responses)
      /\ down \in Seq(Responses) /\ con_sem \in Nat
      /\ faults \in 0 .. MaxFaults /\ DeviceTypeOK /\ ServiceTypeOK
  BY DEF TypeOK, ServiceTypeOK, DeviceTypeOK
<1>2. UNCHANGED << handlerVars >> => HandlerTypeOK'
  BY <1>1 DEF handlerVars, HandlerTypeOK
<1>3. UNCHANGED << envVars >> => EnvTypeOK'
  BY DEF TypeOK, EnvTypeOK, envVars
<1> USE TypesJoin
<1>4. CASE Connected
  <2>1. DeviceTypeOK'
    BY <1>1, <1>4, OtherRobotTypes DEF Connected
  <2>2. ServiceTypeOK'
    BY <1>1, <1>4 DEF Connected, ServiceTypeOK
  <2>3. EnvTypeOK'
    BY <1>4, FaultCounts DEF Connected, TypeOK, EnvTypeOK, LostWith
  <2> QED BY <1>2, <1>4, <2>1, <2>2, <2>3 DEF Connected
<1>5. CASE onServicesDiscovered
  <2>1. ServiceTypeOK'
    BY <1>1, <1>5 DEF onServicesDiscovered, ServicesDiscovered, ServiceTypeOK
  <2> QED BY <1>2, <1>3, <1>5, <2>1, DeviceStays DEF onServicesDiscovered
<1>6. CASE onDescriptorWrite
  <2>1. con_sem' \in Nat
    BY <1>1, <1>6 DEF onDescriptorWrite, DescriptorWritten
  <2>2. ServiceTypeOK'
    BY <1>1, <1>6, <2>1 DEF onDescriptorWrite, DescriptorWritten, ServiceTypeOK
  <2>3. DeviceTypeOK'
    BY <1>1, <1>6 DEF onDescriptorWrite, DeviceTypeOK
  <2> QED BY <1>2, <1>3, <1>6, <2>2, <2>3 DEF onDescriptorWrite
<1>7. CASE onResponse
  <2>1. down' \in Seq(Responses) /\ rxQueue' \in Seq(Responses)
    BY <1>1, <1>7, SeqFacts DEF onResponse
  <2>2. DeviceTypeOK'
    BY <1>1, <1>7, <2>1 DEF onResponse, DeviceTypeOK
  <2>3. HandlerTypeOK'
    BY <1>1, <1>7, <2>1 DEF onResponse, HandlerTypeOK
  <2> QED BY <1>3, <1>7, <2>2, <2>3, ServiceStays DEF onResponse
<1>8. CASE ConnectionLost \/ ConnectionError \/ ConnectFails \/ DiscoveryFails
  <2>1. /\ retry_connect \/ CloseAndRetry
        /\ Fault \/ UNCHANGED faults
    BY <1>8, Zenon DEF ConnectionLost, ConnectionError, ConnectFails, DiscoveryFails
  <2>2. UNCHANGED << con_sem, is_retry_connect >>
    BY <1>8, Zenon DEF ConnectionLost, ConnectionError, ConnectFails, DiscoveryFails, CloseAndRetry
  <2>3. /\ ServiceTypeOK' /\ HandlerTypeOK'
        /\ incidents' \in {incidents, incidents \union {"data rewound"}}
    BY <2>1, <2>2, CloseKeepsTypes
  <2>4. EnvTypeOK'
    BY <2>1, <2>3, FaultCounts DEF TypeOK, EnvTypeOK
  <2>5. CASE UNCHANGED << devVars >>
    BY <2>3, <2>4, <2>5, DeviceStays
  <2>6. CASE DiscoveryFails
    <3>1. DeviceTypeOK'
      BY <2>6, <1>1, DisconnectTypes DEF DiscoveryFails, DeviceTypeOK
    <3> QED BY <2>3, <2>4, <3>1
  <2> QED BY <1>8, <2>5, <2>6, Zenon DEF ConnectionLost, ConnectionError, ConnectFails
<1> QED BY <1>4, <1>5, <1>6, <1>7, <1>8 DEF Callback

(* The robot and the world.                                                *)
LEMMA RobotTypes ==
  ASSUME TypeOK, RobotStep \/ RobotTimeout \/ RobotFault
  PROVE  TypeOK'
<1>1. DeviceTypeOK /\ HandlerTypeOK
  BY DEF TypeOK, HandlerTypeOK
<1>2. UNCHANGED << svcVars, handlerVars >>
  BY Zenon DEF RobotStep, RobotTimeout, RobotFault
<1>3. ServiceTypeOK'
  BY <1>2, ServiceStays
<1>4. HandlerTypeOK'
  BY <1>1, <1>2 DEF HandlerTypeOK, handlerVars
<1>5. DeviceTypeOK'
  BY <1>1, RecvTypes, ProcessTypes, FaultTypes, OtherRobotTypes, Zenon DEF RobotStep, RobotTimeout, RobotFault
<1>6. Fault \/ UNCHANGED faults
  BY Zenon DEF RobotStep, RobotTimeout, RobotFault, envVars
<1>7. incidents' \subseteq incidents \union {"erase lost"}
  BY Zenon DEF RobotStep, RobotTimeout, RobotFault, envVars, LostWith
<1>8. EnvTypeOK'
  BY <1>6, <1>7, FaultCounts DEF TypeOK, EnvTypeOK
<1> QED BY <1>3, <1>4, <1>5, <1>8, TypesJoin
-------------------------------------------------------------------------------
(* The counters.                                                           *)

(* writeRawData goes on with one of two positions.                         *)
LEMMA WriteGoesOn ==
  ASSUME NEW f, NEW yes, NEW no, writeRawData(f, yes, no)
  PROVE  job' = yes \/ job' = no
  BY Zenon DEF writeRawData

(* The fields of the job, one by one.                                      *)
LEMMA JobFields ==
  ASSUME TypeOK
  PROVE  /\ job \in Jobs /\ job.pc \in Positions
         /\ job.call \in {1, 2, 3, 4, 5}
         /\ job.retry \in Nat /\ job.rc \in Nat /\ job.addr \in Nat
         /\ job.chunk \in 0 .. ImagePages
<1>1. job \in Jobs
  BY DEF TypeOK
<1>2. job.call \in Calls
  BY <1>1 DEF Jobs
<1>3. job.call \in {1, 2, 3, 4, 5}
  BY <1>2 DEF Calls
<1>4. job.retry \in 0 .. PageRetries + EraseWaits /\ job.rc \in 0 .. ConnectRetries
  BY <1>1 DEF Jobs
<1>5. job.retry \in Nat /\ job.rc \in Nat
  BY <1>4, Limits
<1> QED BY <1>1, <1>3, <1>5 DEF Jobs

(* What follows a failed attempt and an answered or silent verification.   *)
LEMMA NextAttemptCounts ==
  ASSUME TypeOK, Counters, Sending, job' = NextAttempt(job)
  PROVE  Counters'
<1>1. job \in Jobs /\ job.retry \in Nat /\ job.retry >= 1 /\ job.chunk \in Chunks
  BY JobFields DEF Counters
<1>2. CASE job.retry = 1
  BY <1>1, <1>2 DEF NextAttempt, Counters, Sending, Verifying, PagePhase, Jobs
<1>3. CASE job.retry # 1
  <2>1. job.retry - 1 >= 1
    BY <1>1, <1>3
  <2> QED BY <1>1, <1>3, <2>1 DEF NextAttempt, Counters, Sending, Verifying, PagePhase, Jobs
<1> QED BY <1>2, <1>3

(* What follows verifyInBootloaderMode keeps the counters.                 *)
LEMMA VerifiedCounts ==
  ASSUME TypeOK, Counters, Verifying, NEW ok \in BOOLEAN, job' = Verified(ok)
  PROVE  Counters'
<1>1. /\ job \in Jobs /\ job.call \in {1, 2, 3, 4, 5} /\ job.rc \in Nat /\ job.retry \in Nat
  BY JobFields
<1>2. CASE job.call \in {1, 2, 4}
  <2>1. job' = Verify(2) \/ \E p \in {"magic", "erase", "start", "fail"} : job' = Goto(p)
    BY <1>2 DEF Verified
  <2>2. CASE job' = Verify(2)
    BY <1>1, <2>2 DEF Verify, Counters, Sending, Verifying, PagePhase, Jobs
  <2>3. ASSUME NEW p \in {"magic", "erase", "start", "fail"}, job' = Goto(p) PROVE Counters'
    BY <1>1, <2>3 DEF Goto, Counters, Sending, Verifying, PagePhase, Jobs
  <2> QED BY <2>1, <2>2, <2>3
<1>3. CASE job.call = 3
  <2>1. job.retry >= 1
    BY <1>3 DEF Counters
  <2>2. CASE ok \/ job.retry = 1
    BY <1>1, <1>3, <2>2 DEF Verified, Verify, Goto, Counters, Sending, Verifying, PagePhase, Jobs
  <2>3. CASE ~ (ok \/ job.retry = 1)
    <3>1. job' = [job EXCEPT !.retry = @ - 1, !.pc = "waitErase"]
      BY <1>3, <2>3 DEF Verified
    <3>2. job.retry - 1 >= 1
      BY <1>1, <2>1, <2>3
    <3> QED BY <1>1, <3>1, <3>2 DEF Counters, Sending, Verifying, PagePhase, Jobs
  <2> QED BY <2>2, <2>3
<1>4. CASE job.call = 5
  <2>1. job.rc >= 1 /\ Sending /\ job.retry >= 1 /\ job.chunk \in Chunks
    BY <1>4 DEF Counters, Sending, Verifying
  <2>2. CASE ok
    BY <1>4, <2>1, <2>2, NextAttemptCounts DEF Verified
  <2>3. CASE ~ ok /\ job.rc = 1
    <3>1. job' = [job EXCEPT !.rc = 0, !.pc = "fail"]
      BY <1>4, <2>3 DEF Verified
    <3> QED BY <1>1, <3>1 DEF Counters, Sending, Verifying, PagePhase, Jobs
  <2>4. CASE ~ ok /\ job.rc # 1
    <3>1. job' = [job EXCEPT !.rc = @ - 1, !.pc = "waitPage"]
      BY <1>4, <2>4 DEF Verified
    <3>2. job.rc - 1 >= 1
      BY <1>1, <2>1, <2>4
    <3> QED BY <1>1, <2>1, <3>1, <3>2 DEF Counters, Sending, Verifying, PagePhase, Jobs
  <2> QED BY <2>2, <2>3, <2>4
<1> QED BY <1>1, <1>2, <1>3, <1>4

(* Every step of the update job keeps the counters.                        *)
LEMMA JobCounts ==
  ASSUME TypeOK, Counters, JobStep
  PROVE  Counters'
<1>1. job \in Jobs
  BY DEF TypeOK
<1>2. ASSUME NEW p \in {"drain", "acquire", "magic", "makeNew", "makeWait", "erase", "start",
                       "sysreset", "fail", "COMPLETE", "FAILURE", "cancelled"},
             job' = Goto(p)
      PROVE  Counters'
  BY <1>1, <1>2 DEF Goto, Counters, Sending, Verifying, PagePhase, Jobs
<1>3. ASSUME NEW p \in {"page", "part1", "part2", "await", "failed"}, Sending, job' = Goto(p)
      PROVE  Counters'
  <2>1. job.retry >= 1 /\ job.chunk \in Chunks
    BY <1>3 DEF Counters
  <2> QED BY <1>1, <1>3, <2>1 DEF Goto, Counters, Sending, Verifying, PagePhase, Jobs
<1>4. ASSUME NEW n \in {1, 2, 4}, job' = Verify(n) PROVE Counters'
  BY <1>1, <1>4 DEF Verify, Counters, Sending, Verifying, PagePhase, Jobs
<1>5. CASE CheckConnection \/ DrainAndReconnect \/ AcquireConnection \/ MakeNewConnection
           \/ MakeNewDone \/ MakeNewTimeout \/ EraseReconnected \/ ReportFailure
  BY <1>2, <1>4, <1>5 DEF CheckConnection, DrainAndReconnect, AcquireConnection, MakeNewConnection,
     MakeNewDone, MakeNewTimeout, EraseReconnected, ReportFailure
<1>6. CASE SendMagic \/ systemReset
  <2>1. job' \in {Goto("makeNew"), Goto("fail"), Goto("COMPLETE")}
    BY <1>6, WriteGoesOn DEF SendMagic, systemReset
  <2> QED BY <2>1, <1>2
<1>7. CASE VerifySend
  <2>1. job' = Goto("verifyWait") \/ job' = Verified(FALSE)
    BY <1>7, WriteGoesOn DEF VerifySend
  <2>2. CASE job' = Goto("verifyWait")
    BY <1>1, <1>7, <2>2 DEF VerifySend, At, Goto, Counters, Sending, Verifying, PagePhase, Jobs
  <2> QED BY <1>7, <2>1, <2>2, VerifiedCounts DEF VerifySend, At, Verifying
<1>8. CASE VerifyAnswered \/ VerifyTimeout
  BY <1>8, VerifiedCounts DEF VerifyAnswered, VerifyTimeout, At, Verifying
<1>9. CASE eraseFlash
  <2>1. job' = [job EXCEPT !.retry = EraseWaits, !.pc = "waitErase"] \/ job' = Goto("fail")
    BY <1>9, WriteGoesOn DEF eraseFlash
  <2>2. CASE job' = [job EXCEPT !.retry = EraseWaits, !.pc = "waitErase"]
    BY <1>1, <2>2, Limits DEF Counters, Sending, Verifying, PagePhase, Jobs
  <2> QED BY <1>2, <2>1, <2>2
<1>10. CASE EraseWaitTimeout
  <2>1. job.retry >= 1 /\ job' = Verify(3)
    BY <1>10 DEF EraseWaitTimeout, At, Counters
  <2> QED BY <1>1, <2>1 DEF Verify, Counters, Sending, Verifying, PagePhase, Jobs
<1>11. CASE StartPages
  <2>1. 1 \in Chunks /\ PageRetries >= 1
    BY Limits DEF Chunks
  <2> QED BY <1>1, <1>11, <2>1 DEF StartPages, Counters, Sending, Verifying, PagePhase, Jobs
<1>12. CASE BeginPage \/ UnexpectedResponse \/ getResponseTimeout
  BY <1>3, <1>12 DEF BeginPage, UnexpectedResponse, getResponseTimeout, At, Sending, PagePhase
<1>13. CASE SendPart1 \/ SendPart2
  <2>1. job' \in {Goto("part2"), Goto("await"), Goto("failed")} /\ Sending
    BY <1>13, WriteGoesOn DEF SendPart1, SendPart2, At, Sending, PagePhase
  <2> QED BY <2>1, <1>3
<1>14. CASE getResponse
  <2>1. Sending
    BY <1>14 DEF getResponse, At, Sending, PagePhase
  <2>2. CASE NextPage /\ cursor < ImagePages
    <3>1. cursor + 1 \in Chunks /\ PageRetries >= 1
      <4>1. cursor \in 0 .. ImagePages
        BY DEF TypeOK
      <4> QED BY <4>1, <2>2, Limits DEF Chunks
    <3> QED BY <1>1, <2>2, <3>1 DEF NextPage, Counters, Sending, Verifying, PagePhase, Jobs
  <2>3. CASE NextPage /\ ~ (cursor < ImagePages)
    BY <1>1, <2>3 DEF NextPage, Counters, Sending, Verifying, PagePhase, Jobs
  <2> QED BY <1>3, <1>14, <2>1, <2>2, <2>3 DEF getResponse
<1>15. CASE PageFailed
  <2>1. Sending
    BY <1>15 DEF PageFailed, At, Sending, PagePhase
  <2>2. CASE job' = [job EXCEPT !.rc = ConnectRetries, !.pc = "waitPage"]
    <3>1. job.retry >= 1 /\ job.chunk \in Chunks
      BY <2>1 DEF Counters
    <3> QED BY <1>1, <2>2, <3>1, Limits DEF Counters, Sending, Verifying, PagePhase, Jobs
  <2> QED BY <1>15, <2>1, <2>2, NextAttemptCounts DEF PageFailed
<1>16. CASE PageReconnected
  BY <1>16, NextAttemptCounts DEF PageReconnected, At, Sending, PagePhase
<1>17. CASE PageWaitTimeout
  <2>1. job.retry >= 1 /\ job.rc >= 1 /\ job.chunk \in Chunks /\ job' = Verify(5)
    BY <1>17 DEF PageWaitTimeout, At, Counters, Sending, PagePhase
  <2> QED BY <1>1, <2>1 DEF Verify, Counters, Sending, Verifying, PagePhase, Jobs
<1> QED
  BY <1>5, <1>6, <1>7, <1>8, <1>9, <1>10, <1>11, <1>12, <1>13, <1>14, <1>15, <1>16, <1>17 DEF JobStep

(* Callbacks and the robot leave the job alone, or end its wait or itself. *)
LEMMA OtherSteps ==
  ASSUME Callback \/ RobotStep \/ RobotTimeout \/ RobotFault
  PROVE  \/ UNCHANGED job
         \/ At("await") /\ job' = Goto("failed")
         \/ job' = Goto("cancelled")
<1>1. CASE RobotStep \/ RobotTimeout \/ RobotFault
  BY <1>1, Zenon DEF RobotStep, RobotTimeout, RobotFault, handlerVars
<1>2. CASE ConnectionLost \/ ConnectionError \/ ConnectFails \/ DiscoveryFails
  <2>1. retry_connect \/ CloseAndRetry
    BY <1>2, Zenon DEF ConnectionLost, ConnectionError, ConnectFails, DiscoveryFails
  <2>2. ServiceDisconnect \/ HandlerDisconnected \/ UNCHANGED << handlerVars >>
    BY <2>1, Zenon DEF retry_connect, CloseAndRetry
  <2> QED BY <2>2, Zenon DEF ServiceDisconnect, HandlerDisconnected, handlerVars
<1>3. CASE Connected \/ onServicesDiscovered \/ onDescriptorWrite \/ onResponse
  BY <1>3, Zenon DEF Connected, onServicesDiscovered, onDescriptorWrite, onResponse, handlerVars
<1> QED BY <1>1, <1>2, <1>3, Zenon DEF Callback

(* Callbacks and the robot keep the counters.                              *)
LEMMA OtherCounts ==
  ASSUME TypeOK, Counters, Callback \/ RobotStep \/ RobotTimeout \/ RobotFault
  PROVE  Counters'
<1>1. job \in Jobs
  BY DEF TypeOK
<1>2. CASE UNCHANGED job
  BY <1>2 DEF Counters, Sending, Verifying, PagePhase
<1>3. CASE At("await") /\ job' = Goto("failed")
  <2>1. job.retry >= 1 /\ job.chunk \in Chunks
    BY <1>3 DEF Counters, At, Sending, PagePhase
  <2> QED BY <1>1, <1>3, <2>1 DEF Goto, Counters, Sending, Verifying, PagePhase, Jobs
<1>4. CASE job' = Goto("cancelled")
  BY <1>1, <1>4 DEF Goto, Counters, Sending, Verifying, PagePhase, Jobs
<1> QED BY <1>2, <1>3, <1>4, OtherSteps
-------------------------------------------------------------------------------
(* The link and the fragments.                                             *)

(* Steps of the job other than the two that close the connection leave the *)
(* robot alone, up to a fragment that is sent to it.                       *)
Quietly == CheckConnection \/ DrainAndReconnect \/ AcquireConnection \/ VerifyAnswered
           \/ VerifyTimeout \/ MakeNewDone \/ MakeNewTimeout \/ EraseReconnected
           \/ EraseWaitTimeout \/ StartPages \/ BeginPage \/ UnexpectedResponse
           \/ getResponse \/ getResponseTimeout \/ PageFailed \/ PageReconnected
           \/ PageWaitTimeout
Closing == MakeNewConnection \/ ReportFailure
Writing(f) == \E yes, no : writeRawData(f, yes, no)
Sendable ==
  {Fragment(Simple(c), 0) : c \in {"jedec", "erase", "reset", "magic"}}
  \union {Fragment(PageCommand, 1), Fragment(PageCommand, 2)}

(* A step of the job leaves the robot alone, closes the link or sends a    *)
(* fragment.                                                               *)
LEMMA JobStepKinds ==
  ASSUME JobStep
  PROVE  \/ Quietly /\ UNCHANGED << devVars >>
         \/ Closing /\ bl_disconnected
         \/ \E f \in Sendable : Writing(f) /\ UNCHANGED << gatt, handles >>
<1>1. CASE Quietly
  BY <1>1, Zenon DEF Quietly, CheckConnection, DrainAndReconnect, AcquireConnection, VerifyAnswered,
     VerifyTimeout, MakeNewDone, MakeNewTimeout, EraseReconnected, EraseWaitTimeout, StartPages,
     BeginPage, UnexpectedResponse, getResponse, getResponseTimeout, PageFailed, PageReconnected,
     PageWaitTimeout
<1>2. CASE Closing
  BY <1>2, Zenon DEF Closing, MakeNewConnection, ReportFailure
<1>3. /\ Fragment(Simple("jedec"), 0) \in Sendable /\ Fragment(Simple("erase"), 0) \in Sendable
      /\ Fragment(Simple("reset"), 0) \in Sendable /\ Fragment(Simple("magic"), 0) \in Sendable
      /\ Fragment(PageCommand, 1) \in Sendable /\ Fragment(PageCommand, 2) \in Sendable
  BY DEF Sendable
<1>4. CASE VerifySend
  BY <1>3, <1>4, Zenon DEF VerifySend, Writing, svcVars
<1>5. CASE SendMagic
  BY <1>3, <1>5, Zenon DEF SendMagic, Writing
<1>6. CASE eraseFlash
  BY <1>3, <1>6, Zenon DEF eraseFlash, Writing
<1>7. CASE SendPart1
  BY <1>3, <1>7, Zenon DEF SendPart1, Writing, svcVars
<1>8. CASE SendPart2
  BY <1>3, <1>8, Zenon DEF SendPart2, Writing, svcVars
<1>9. CASE systemReset
  BY <1>3, <1>9, Zenon DEF systemReset, Writing
<1> QED BY <1>1, <1>2, <1>4, <1>5, <1>6, <1>7, <1>8, <1>9, Zenon DEF JobStep, Quietly, Closing

(* A step that leaves the robot alone makes a connection only where there  *)
(* was none.                                                               *)
LEMMA QuietGatt ==
  ASSUME Quietly
  PROVE  /\ gatt' = gatt \/ gatt = "null"
         /\ UNCHANGED handles
<1>1. CASE DrainAndReconnect
  BY <1>1 DEF DrainAndReconnect, connectToDevice
<1> QED
  BY <1>1, Zenon DEF Quietly, CheckConnection, AcquireConnection, VerifyAnswered,
     VerifyTimeout, MakeNewDone, MakeNewTimeout, EraseReconnected, EraseWaitTimeout, StartPages,
     BeginPage, UnexpectedResponse, getResponse, getResponseTimeout, PageFailed, PageReconnected,
     PageWaitTimeout, svcVars

(* A closed link carries nothing.                                          *)
LEMMA ClosedLink ==
  ASSUME bl_disconnected
  PROVE  LinkSound'
  BY DEF bl_disconnected, LinkSound

(* The steps of the job keep the link sound.                               *)
LEMMA JobLink ==
  ASSUME LinkSound, JobStep
  PROVE  LinkSound'
<1>1. CASE Quietly /\ UNCHANGED << devVars >>
  <2>1. UNCHANGED << link, up, down >>
    BY <1>1 DEF devVars
  <2> QED BY <1>1, <2>1, QuietGatt DEF LinkSound
<1>2. CASE \E f \in Sendable : Writing(f) /\ UNCHANGED << gatt, handles >>
  <2>1. UNCHANGED << link, down, gatt, handles >> /\ ((link /\ handles) \/ up' = up)
    BY <1>2, Zenon DEF Writing, writeRawData
  <2> QED BY <2>1 DEF LinkSound
<1> QED BY <1>1, <1>2, ClosedLink, JobStepKinds

(* The callbacks keep the link sound.                                      *)
LEMMA CallbackLink ==
  ASSUME LinkSound, Callback
  PROVE  LinkSound'
<1>1. CASE Connected
  BY <1>1 DEF Connected, bl_connected, LinkSound
<1>2. CASE onServicesDiscovered
  BY <1>2 DEF onServicesDiscovered, ServicesDiscovered, devVars, LinkSound
<1>3. CASE onDescriptorWrite
  BY <1>3 DEF onDescriptorWrite, DescriptorWritten, LinkSound
<1>4. CASE onResponse
  BY <1>4 DEF onResponse, svcVars, LinkSound
<1>5. CASE ConnectionLost \/ ConnectionError \/ ConnectFails
  <2>1. ~ link /\ UNCHANGED << link, up, down >>
    BY <1>5, Zenon DEF ConnectionLost, ConnectionError, ConnectFails, devVars, LinkSound
  <2> QED BY <2>1 DEF LinkSound
<1>6. CASE DiscoveryFails
  BY <1>6, ClosedLink DEF DiscoveryFails
<1> QED BY <1>1, <1>2, <1>3, <1>4, <1>5, <1>6 DEF Callback

(* What a step of the robot or of the world does to the link.              *)
LEMMA RobotLinkSteps ==
  ASSUME RobotStep \/ RobotTimeout \/ RobotFault
  PROVE  \/ bl_disconnected
         \/ /\ UNCHANGED link
            /\ up' = up \/ (up # << >> /\ up' = Tail(up))
            /\ down' = down \/ \E r \in Responses : down' = Sent(r)
<1>1. {"OK", "NOK", "JEDEC"} \subseteq Responses
  BY DEF Responses
<1>2. CASE ble_blf_recv
  BY <1>1, <1>2, Zenon DEF ble_blf_recv
<1>3. CASE bflb_eflash_loader_cmd_process
  BY <1>1, <1>3, Zenon DEF bflb_eflash_loader_cmd_process, bflb_eflash_loader_cmd_read_jedec_id,
     bflb_eflash_loader_cmd_write_flash, bflb_eflash_loader_cmd_erase_flash, bflb_eflash_loader_cmd_reset
<1>4. CASE ble_app_recv \/ ble_recv_timeout
  BY <1>4, Zenon DEF ble_app_recv, ble_recv_timeout
<1>5. CASE FlashError \/ LinkBreaks \/ PowerCycle \/ BootApp
  BY <1>1, <1>5, Zenon DEF FlashError, LinkBreaks, PowerCycle, BootApp
<1> QED BY <1>2, <1>3, <1>4, <1>5, Zenon DEF RobotStep, RobotTimeout, RobotFault

(* The robot and the world keep the link sound.                            *)
LEMMA RobotLink ==
  ASSUME LinkSound, RobotStep \/ RobotTimeout \/ RobotFault
  PROVE  LinkSound'
<1>1. UNCHANGED << gatt, handles >>
  BY Zenon DEF RobotStep, RobotTimeout, RobotFault, svcVars
<1>2. CASE bl_disconnected
  BY <1>2, ClosedLink
<1>3. CASE link /\ UNCHANGED link /\ (up' = up \/ (up # << >> /\ up' = Tail(up)))
  BY <1>1, <1>3 DEF LinkSound
<1>4. CASE ~ link /\ UNCHANGED link /\ up' = up /\ down' = down
  BY <1>1, <1>4 DEF LinkSound
<1>5. ASSUME ~ link PROVE up = << >> /\ \A r \in Responses : Sent(r) = down
  BY <1>5 DEF Sent, LinkSound
<1> QED BY <1>2, <1>3, <1>4, <1>5, RobotLinkSteps, Zenon

(* What any step does to the fragments in flight.                          *)
LEMMA UpSteps ==
  ASSUME Next
  PROVE  \/ up' = up \/ up' = << >>
         \/ up # << >> /\ up' = Tail(up)
         \/ \E f \in Sendable : up' = Append(up, f)
<1>1. CASE JobStep
  <2>1. CASE \E f \in Sendable : Writing(f)
    BY <2>1, Zenon DEF Writing, writeRawData
  <2>2. CASE UNCHANGED << devVars >> \/ bl_disconnected
    BY <2>2 DEF devVars, bl_disconnected
  <2> QED BY <1>1, <2>1, <2>2, JobStepKinds
<1>2. CASE Callback
  BY <1>2, Zenon DEF Callback, Connected, onServicesDiscovered, onDescriptorWrite, onResponse,
     ConnectionLost, ConnectionError, ConnectFails, DiscoveryFails, devVars, bl_connected, bl_disconnected
<1>3. CASE RobotStep \/ RobotTimeout \/ RobotFault
  BY <1>3, RobotLinkSteps, Zenon DEF bl_disconnected
<1> QED BY <1>1, <1>2, <1>3 DEF Next

(* Fragments in flight are parts of write commands or whole commands.      *)
LEMMA NextParts ==
  ASSUME TypeOK, PartsSound, Next, up' \in Seq(Fragments)
  PROVE  PartsSound'
<1>1. up \in Seq(Fragments)
  BY DEF TypeOK, DeviceTypeOK
<1>2. CASE up' = up \/ up' = << >>
  BY <1>2 DEF PartsSound
<1>3. CASE up # << >> /\ up' = Tail(up)
  <2>1. \A i \in DOMAIN up' : i + 1 \in DOMAIN up /\ up'[i] = up[i + 1]
    BY <1>1, <1>3, ElementsOf
  <2> QED BY <2>1 DEF PartsSound
<1>4. ASSUME NEW f \in Sendable, up' = Append(up, f), f \in Fragments PROVE PartsSound'
  <2>1. \A i \in DOMAIN up' : up'[i] = f \/ (i \in DOMAIN up /\ up'[i] = up[i])
    BY <1>1, <1>4, ElementsOf
  <2>2. f.part # 0 => f.cmd.cmd = "write"
    BY <1>4 DEF Sendable, Fragment, Simple, PageCommand, Write
  <2> QED BY <2>1, <2>2 DEF PartsSound
<1> QED BY <1>2, <1>3, <1>4, UpSteps
-------------------------------------------------------------------------------
(* Without incidents: the update job.                                      *)

(* Queues of responses without an OK.                                      *)
LEMMA NaksFacts ==
  ASSUME NEW q \in Seq(Responses)
  PROVE  /\ Naks(<< >>)
         /\ q = << >> => Naks(q)
         /\ \A r \in Responses : Naks(q) /\ r # "OK" => Naks(Append(q, r))
         /\ Naks(q) /\ q # << >> => Head(q) # "OK" /\ Naks(Tail(q))
  BY DEF Naks

(* What the robot answers.                                                 *)
LEMMA SentFacts ==
  ASSUME DeviceTypeOK, NEW r \in Responses
  PROVE  /\ ~ link => Sent(r) = down
         /\ down = << >> => Sent(r) = << >> \/ Sent(r) = << r >>
         /\ Naks(down) /\ r # "OK" => Naks(Sent(r))
<1>1. down \in Seq(Responses)
  BY DEF DeviceTypeOK
<1>2. ~ link => Sent(r) = down
  BY DEF Sent
<1>3. down = << >> => Sent(r) = << >> \/ Sent(r) = << r >>
  BY DEF Sent
<1>4. Naks(down) /\ r # "OK" => Naks(Sent(r))
  BY <1>1, NaksFacts DEF Sent
<1> QED BY <1>2, <1>3, <1>4

(* While the robot's memory and the queues towards it are left alone.      *)
SameCommands == UNCHANGED << pending, flash >> /\ (up' = up \/ up' = << >>)
SamePage == job'.addr = job.addr /\ job'.chunk = job.chunk

(* No new command is under way.                                            *)
LEMMA SameNone ==
  ASSUME SameCommands, NEW K, NoneOf(K)
  PROVE  NoneOf(K)'
  BY DEF SameCommands, NoneOf

(* The writes under way stay those of the page.                            *)
LEMMA SameWrites ==
  ASSUME SameCommands, SamePage, WritesSound, Placed
  PROVE  WritesSound' /\ Placed'
<1>1. PageCommand' = PageCommand /\ (WriteReady' <=> WriteReady)
  BY DEF SameCommands, SamePage, PageCommand, WriteReady
<1> QED BY <1>1 DEF SameCommands, WritesSound, Placed

(* The job ends, or is about to.                                           *)
LEMMA CalmEnd ==
  ASSUME Calm, SameCommands, SamePage, job'.pc \in {"fail", "FAILURE", "cancelled"}
  PROVE  Calm'
<1>1. WritesSound' /\ Placed'
  BY SameWrites DEF Calm
<1>2. ~ Before' /\ ~ Erasing' /\ ~ Done' /\ ~ Sending'
  BY DEF Before, Erasing, Done, Sending, PagePhase, Verifying
<1>3. Quiet' /\ OneRequest' /\ OnePage'
  BY DEF Quiet, OneRequest, OnePage
<1>4. EraseSound' /\ PagesSound' /\ Stages'
  BY <1>2 DEF EraseSound, PagesSound, Stages
<1> QED BY <1>1, <1>3, <1>4 DEF Calm

(* The job moves on with an idle robot, before the erase command ...       *)
LEMMA CalmBefore ==
  ASSUME Calm, UNCHANGED << devVars >>, SamePage, ~ RobotBusy,
         Before, Before', job'.pc # "verifyWait"
  PROVE  Calm'
<1>1. SameCommands /\ ~ RobotBusy'
  BY DEF devVars, SameCommands, RobotBusy
<1>2. WritesSound' /\ Placed'
  BY <1>1, SameWrites DEF Calm
<1>3. ~ Erasing' /\ ~ Done' /\ ~ Sending'
  BY DEF Before, Erasing, Done, Sending, PagePhase, Verifying
<1>4. Quiet' /\ OneRequest'
  BY <1>1 DEF Quiet, OneRequest
<1>5. OnePage'
  BY DEF Before, OnePage, Verifying
<1>6. EraseSound'
  BY <1>3 DEF EraseSound, Erasing
<1>7. NoneOf({"write", "erase"})'
  BY <1>1, SameNone DEF Calm, Stages
<1>8. Stages'
  BY <1>1, <1>3, <1>7 DEF Stages, SameCommands, Calm
<1> QED BY <1>2, <1>3, <1>4, <1>5, <1>6, <1>8 DEF Calm, PagesSound

(* ... between the erase command and the first page ...                    *)
LEMMA CalmErasing ==
  ASSUME Calm, LinkSound, UNCHANGED << devVars >>, SamePage, ~ RobotBusy,
         Erasing, job'.pc \in {"verify", "waitErase", "start"}, Erasing',
         job'.pc = "start" => IsErased /\ NoneOf({"erase"})
  PROVE  Calm'
<1>1. SameCommands /\ ~ RobotBusy' /\ UNCHANGED link /\ (IsErased' <=> IsErased)
  BY DEF devVars, SameCommands, RobotBusy, IsErased
<1>2. WritesSound' /\ Placed'
  BY <1>1, SameWrites DEF Calm
<1>3. ~ Before' /\ ~ Done' /\ ~ Sending'
  BY DEF Before, Erasing, Done, Sending, PagePhase, Verifying
<1>4. Quiet' /\ OneRequest' /\ OnePage'
  BY <1>1 DEF Quiet, OneRequest, OnePage
<1>5. NoneOf({"write"})'
  BY <1>1, SameNone DEF Calm, Stages
<1>6. Stages'
  BY <1>1, <1>3, <1>5 DEF Stages, SameCommands, Calm
<1>7. \/ IsErased /\ NoneOf({"erase"})
      \/ ~ link /\ pending = Simple("erase")
  <2>1. CASE job.pc = "waitErase"
    <3>1. up = << >>
      BY DEF RobotBusy, LinkSound
    <3>2. \/ pending = Simple("erase")
          \/ IsErased /\ pending.cmd # "erase"
      BY <2>1, <3>1 DEF Calm, EraseSound
    <3>3. CASE pending = Simple("erase")
      <4>1. pending # NoCommand
        BY <3>3 DEF NoCommand, Simple
      <4> QED BY <3>3, <4>1 DEF RobotBusy
    <3>4. CASE IsErased /\ pending.cmd # "erase"
      BY <3>1, <3>4 DEF NoneOf
    <3> QED BY <3>2, <3>3, <3>4
  <2>2. CASE job.pc # "waitErase"
    BY <2>2 DEF Calm, EraseSound
  <2> QED BY <2>1, <2>2
<1>8. EraseSound'
  <2>1. CASE IsErased /\ NoneOf({"erase"})
    <3>1. IsErased' /\ NoneOf({"erase"})'
      BY <1>1, <2>1, SameNone
    <3>2. up' = << >> /\ pending'.cmd # "erase" /\ (link' => pending' = NoCommand)
      BY <1>1, <2>1 DEF RobotBusy, NoneOf, LinkSound, SameCommands, devVars
    <3> QED BY <3>1, <3>2 DEF EraseSound
  <2>2. CASE ~ link /\ pending = Simple("erase")
    <3>1. ~ link' /\ pending' = Simple("erase") /\ up' = << >>
      BY <1>1, <2>2 DEF LinkSound, SameCommands
    <3>2. job'.pc # "start"
      BY <2>2 DEF NoneOf, Simple
    <3> QED BY <3>1, <3>2 DEF EraseSound
  <2> QED BY <1>7, <2>1, <2>2
<1> QED BY <1>2, <1>3, <1>4, <1>6, <1>8 DEF Calm, PagesSound

(* ... and while pages are sent.                                           *)
LEMMA CalmSending ==
  ASSUME Calm, UNCHANGED << devVars, cursor >>, SamePage, Sending, Sending',
         \/ job'.pc \in {"page", "failed", "waitPage"}
         \/ job'.pc = "part1" /\ ~ RobotBusy /\ rxQueue' = << >>
         \/ job'.pc = "verify" /\ ~ RobotBusy
  PROVE  Calm'
<1>1. SameCommands /\ (RobotBusy' <=> RobotBusy)
  BY DEF devVars, SameCommands, RobotBusy
<1>2. WritesSound' /\ Placed'
  BY <1>1, SameWrites DEF Calm
<1>3. ~ Before' /\ ~ Done' /\ ~ Erasing'
  BY DEF Before, Erasing, Done, Sending, PagePhase, Verifying
<1>4. Quiet' /\ OneRequest' /\ OnePage'
  BY <1>1 DEF Quiet, OneRequest, OnePage
<1>5. NoneOf({"erase"})'
  BY <1>1, SameNone DEF Calm, PagesSound
<1>6. PagesSound'
  BY <1>1, <1>5 DEF Calm, PagesSound, WriteReady, SameCommands, SamePage
<1>7. EraseSound'
  BY <1>3 DEF EraseSound, Erasing
<1> QED BY <1>2, <1>3, <1>4, <1>6, <1>7 DEF Calm, Stages
(* What is known of a step without incidents.                              *)
LEMMA NoLateAnswer ==
  ASSUME Timeout, incidents' = {}
  PROVE  ~ RobotBusy
  BY DEF Timeout

(* writeRawData without an incident: nothing happens to the robot, or the  *)
(* fragment goes out.                                                      *)
LEMMA WriteSteps ==
  ASSUME NEW f, NEW yes, NEW no, writeRawData(f, yes, no), incidents' = {}
  PROVE  \/ job' = no /\ UNCHANGED << devVars >>
         \/ /\ job' = yes
            /\ UNCHANGED << mode, link, indicate, rx, pending, flash, down >>
            /\ \/ link /\ up' = Append(up, f)
               \/ ~ link /\ up' = up /\ f.cmd.cmd # "erase"
<1>1. CASE /\ handles
           /\ up' = IF link THEN Append(up, f) ELSE up
           /\ job' = yes
           /\ incidents' = incidents \union LostWith(~ link /\ f.cmd.cmd = "erase")
  <2>1. UNCHANGED << mode, link, indicate, rx, pending, flash, down >>
    BY Zenon DEF writeRawData
  <2>2. link \/ f.cmd.cmd # "erase"
    BY <1>1 DEF LostWith
  <2> QED BY <1>1, <2>1, <2>2
<1>2. CASE job' = no /\ UNCHANGED << up, incidents >>
  <2>1. UNCHANGED << mode, link, indicate, rx, pending, flash, down >>
    BY Zenon DEF writeRawData
  <2> QED BY <1>2, <2>1 DEF devVars
<1>3. CASE incidents' = incidents \union {"late response"}
  BY <1>3
<1> QED BY <1>1, <1>2, <1>3, Zenon DEF writeRawData

(* A verification that ends leaves an idle robot.                          *)
LEMMA VerifyEnds ==
  ASSUME Calm, incidents' = {}, VerifyAnswered \/ VerifyTimeout
  PROVE  ~ RobotBusy
<1>1. CASE VerifyTimeout
  BY <1>1, NoLateAnswer DEF VerifyTimeout
<1>2. CASE VerifyAnswered
  <2>1. job.pc = "verifyWait" /\ rxQueue # << >>
    BY <1>2 DEF VerifyAnswered, At
  <2> QED BY <2>1, Zenon DEF Calm, OneRequest, Silent, RobotBusy
<1> QED BY <1>1, <1>2

(* The job goes on after a verification.                                   *)
LEMMA CalmVerified ==
  ASSUME TypeOK, Counters, LinkSound, Calm, Verifying, ~ RobotBusy, NEW ok \in BOOLEAN,
         job' = Verified(ok), UNCHANGED << devVars, cursor >>,
         ok => job.pc = "verifyWait" /\ rxQueue # << >>
  PROVE  Calm'
<1>1. job \in Jobs /\ job.call \in {1, 2, 3, 4, 5}
  BY JobFields
<1>2. SameCommands
  BY DEF SameCommands, devVars
<1>3. ASSUME NEW p \in Positions, job' = Goto(p) PROVE SamePage /\ job'.pc = p /\ job'.call = job.call
  BY <1>1, <1>3 DEF Goto, SamePage, Jobs
<1>4. ASSUME NEW n, job' = Verify(n) PROVE SamePage /\ job'.pc = "verify" /\ job'.call = n
  BY <1>1, <1>4 DEF Verify, SamePage, Jobs
<1>5. CASE job' = Goto("fail")
  BY <1>2, <1>3, <1>5, CalmEnd DEF Positions
<1>6. CASE job.call \in {1, 2}
  <2>1. job' = Verify(2) \/ job' = Goto("magic") \/ job' = Goto("erase") \/ job' = Goto("fail")
    BY <1>6 DEF Verified
  <2>2. Before
    BY <1>6 DEF Before
  <2>3. CASE job' = Verify(2)
    BY <1>4, <2>2, <2>3, CalmBefore DEF Before, Verifying
  <2>4. CASE job' = Goto("magic") \/ job' = Goto("erase")
    BY <1>3, <2>2, <2>4, CalmBefore DEF Before, Positions
  <2> QED BY <1>5, <2>1, <2>3, <2>4
<1>7. CASE job.call \in {3, 4}
  <2>1. \/ job' = Verify(4)
        \/ job' = Goto("fail")
        \/ ok /\ job' = Goto("start")
        \/ job' = [job EXCEPT !.retry = @ - 1, !.pc = "waitErase"]
    <3>1. CASE job.call = 3
      BY <3>1 DEF Verified
    <3>2. CASE job.call = 4
      BY <3>2 DEF Verified
    <3> QED BY <1>7, <3>1, <3>2
  <2>2. Erasing /\ job.pc # "waitErase"
    BY <1>7 DEF Erasing, Verifying
  <2>3. CASE job' = Verify(4)
    BY <1>4, <2>2, <2>3, CalmErasing DEF Erasing, Verifying
  <2>4. CASE ok /\ job' = Goto("start")
    <3>1. IsErased /\ NoneOf({"erase"})
      BY <2>2, <2>4 DEF Calm, EraseSound
    <3> QED BY <1>3, <2>2, <2>4, <3>1, CalmErasing DEF Erasing, Positions
  <2>5. CASE job' = [job EXCEPT !.retry = @ - 1, !.pc = "waitErase"]
    <3>1. SamePage /\ job'.pc = "waitErase"
      BY <1>1, <2>5 DEF SamePage, Jobs
    <3> QED BY <2>2, <3>1, CalmErasing DEF Erasing
  <2> QED BY <1>5, <2>1, <2>3, <2>4, <2>5
<1>8. CASE job.call = 5
  <2>1. Sending
    BY <1>8 DEF Sending, Verifying
  <2>2. SamePage /\ job'.pc \in {"page", "waitPage", "fail"}
    <3>1. \/ job' = NextAttempt(job)
          \/ job' = [job EXCEPT !.rc = 0, !.pc = "fail"]
          \/ job' = [job EXCEPT !.rc = @ - 1, !.pc = "waitPage"]
      BY <1>8 DEF Verified
    <3> QED BY <1>1, <3>1 DEF NextAttempt, SamePage, Jobs
  <2>3. CASE job'.pc = "fail"
    BY <1>2, <2>2, <2>3, CalmEnd
  <2>4. CASE job'.pc \in {"page", "waitPage"}
    BY <2>1, <2>2, <2>4, CalmSending DEF Sending, PagePhase
  <2> QED BY <2>2, <2>3, <2>4
<1> QED BY <1>1, <1>6, <1>7, <1>8
(* A fragment goes out to the robot, or nowhere.                           *)
Sends(f) ==
  /\ UNCHANGED << mode, link, indicate, rx, pending, flash, down >>
  /\ \/ link /\ up' = Append(up, f)
     \/ ~ link /\ up' = up /\ f.cmd.cmd # "erase"

(* Sending a command of one kind brings none of another.                   *)
LEMMA SendNone ==
  ASSUME TypeOK, NEW f \in Fragments, Sends(f), NEW K, NoneOf(K), f.cmd.cmd \notin K
  PROVE  NoneOf(K)'
<1>1. up \in Seq(Fragments)
  BY DEF TypeOK, DeviceTypeOK
<1>2. \A i \in DOMAIN up' : up'[i] = f \/ (i \in DOMAIN up /\ up'[i] = up[i])
  BY <1>1, ElementsOf DEF Sends
<1> QED BY <1>2 DEF NoneOf, Sends

(* Sending a part of the page, or no write at all, keeps writes sound.     *)
LEMMA SendWrites ==
  ASSUME TypeOK, NEW f \in Fragments, Sends(f), SamePage, WritesSound, Placed,
         f.cmd.cmd # "write" \/ (f.cmd = PageCommand /\ WriteReady)
  PROVE  WritesSound' /\ Placed'
<1>1. PageCommand' = PageCommand /\ (WriteReady' <=> WriteReady)
  BY DEF Sends, SamePage, PageCommand, WriteReady
<1>2. up \in Seq(Fragments)
  BY DEF TypeOK, DeviceTypeOK
<1>3. \A i \in DOMAIN up' : up'[i] = f \/ (i \in DOMAIN up /\ up'[i] = up[i])
  BY <1>2, ElementsOf DEF Sends
<1> QED BY <1>1, <1>3 DEF WritesSound, Placed, Sends

(* A fragment to an idle robot is the only one in flight.                  *)
LEMMA SendAlone ==
  ASSUME TypeOK, NEW f \in Fragments, Sends(f), ~ RobotBusy, link
  PROVE  /\ up' = << f >> /\ pending' = NoCommand /\ down' = << >> /\ link'
         /\ pending = NoCommand /\ up = << >>
  BY ShortSeqs DEF Sends, RobotBusy

(* verifyInBootloaderMode sends its request.                               *)
LEMMA CalmRequest ==
  ASSUME TypeOK, LinkSound, Calm, At("verify"), job' = Goto("verifyWait"),
         Sends(Fragment(Simple("jedec"), 0)), rxQueue' = << >>, UNCHANGED cursor
  PROVE  Calm'
<1> DEFINE f == Fragment(Simple("jedec"), 0)
<1>1. f \in Fragments /\ f.cmd = Simple("jedec") /\ f.cmd.cmd = "jedec"
  BY CommandTypes DEF Fragment, Fragments, Simple
<1>2. job \in Jobs
  BY JobFields
<1>3. SamePage /\ job'.pc = "verifyWait" /\ job'.call = job.call
  BY <1>2 DEF Goto, SamePage, Jobs
<1>4. ~ RobotBusy
  BY DEF At, Calm, Quiet
<1>5. WritesSound' /\ Placed'
  BY <1>1, <1>3, SendWrites DEF Calm
<1>6. Quiet' /\ OnePage'
  BY <1>3 DEF Quiet, OnePage
<1>7. OneRequest'
  <2>1. CASE link
    <3>1. up' = << f >> /\ pending' = NoCommand /\ Silent'
      BY <1>1, <1>4, <2>1, SendAlone DEF Silent
    <3> QED BY <3>1 DEF OneRequest
  <2>2. CASE ~ link
    BY <2>2 DEF OneRequest, Sends
  <2> QED BY <2>1, <2>2
<1>8. /\ Before' <=> Before
      /\ Erasing' <=> Erasing
      /\ Sending' <=> Sending
      /\ ~ Done'
  BY <1>3 DEF Before, Erasing, Sending, Done, Verifying, At, PagePhase
<1>9. \A K \in {{"write"}, {"erase"}, {"write", "erase"}} : NoneOf(K) => NoneOf(K)'
  BY <1>1, SendNone
<1>10. UNCHANGED << flash, pending, link >> /\ (IsErased' <=> IsErased)
  BY DEF Sends, IsErased
<1>11. EraseSound'
  <2>1. job.pc # "waitErase" /\ job'.pc # "waitErase" /\ job'.pc # "start"
    BY <1>3 DEF At
  <2>2. ASSUME Erasing PROVE \/ IsErased /\ NoneOf({"erase"})
                             \/ ~ link /\ pending = Simple("erase")
    BY <2>1, <2>2 DEF Calm, EraseSound
  <2>3. ASSUME Erasing' PROVE \/ IsErased' /\ NoneOf({"erase"})'
                              \/ ~ link' /\ pending' = Simple("erase")
    BY <1>8, <1>9, <1>10, <2>2, <2>3
  <2> QED BY <2>1, <2>3 DEF EraseSound
<1>12. PagesSound'
  BY <1>3, <1>8, <1>9, <1>10 DEF Calm, PagesSound, WriteReady, SamePage
<1>13. Stages'
  BY <1>8, <1>9, <1>10 DEF Calm, Stages
<1> QED BY <1>5, <1>6, <1>7, <1>11, <1>12, <1>13 DEF Calm

(* The magic word and the reset command.                                   *)
LEMMA CalmSimple ==
  ASSUME TypeOK, Calm, NEW c \in {"magic", "reset"}, Sends(Fragment(Simple(c), 0)),
         \/ At("magic") /\ job' = Goto("makeNew")
         \/ At("sysreset") /\ job' = Goto("COMPLETE")
  PROVE  Calm'
<1> DEFINE f == Fragment(Simple(c), 0)
<1>1. f \in Fragments /\ f.cmd.cmd = c
  BY CommandTypes DEF Fragment, Fragments, Simple
<1>2. job \in Jobs
  BY JobFields
<1>3. SamePage /\ job'.pc \in {"makeNew", "COMPLETE"}
  BY <1>2 DEF Goto, SamePage, Jobs
<1>4. WritesSound' /\ Placed'
  BY <1>1, <1>3, SendWrites DEF Calm
<1>5. Quiet' /\ OnePage' /\ OneRequest'
  BY <1>3 DEF Quiet, OnePage, OneRequest
<1>6. ~ Erasing' /\ ~ Sending' /\ (Before' => Before) /\ (Done' => Done)
  BY <1>2, <1>3 DEF Before, Erasing, Sending, Done, Verifying, At, PagePhase, Goto, Jobs
<1>7. NoneOf({"write", "erase"}) => NoneOf({"write", "erase"})'
  BY <1>1, SendNone
<1>8. EraseSound' /\ PagesSound'
  BY <1>3, <1>6 DEF EraseSound, PagesSound
<1>9. Stages'
  BY <1>6, <1>7 DEF Calm, Stages, Sends, ImageIn
<1> QED BY <1>4, <1>5, <1>8, <1>9 DEF Calm

(* The erase command.                                                      *)
LEMMA CalmErase ==
  ASSUME TypeOK, Calm, At("erase"), Sends(Fragment(Simple("erase"), 0)),
         job' = [job EXCEPT !.retry = EraseWaits, !.pc = "waitErase"]
  PROVE  Calm'
<1> DEFINE f == Fragment(Simple("erase"), 0)
<1>1. f \in Fragments /\ f.cmd.cmd = "erase"
  BY CommandTypes DEF Fragment, Fragments, Simple
<1>2. job \in Jobs
  BY JobFields
<1>3. SamePage /\ job'.pc = "waitErase"
  BY <1>2 DEF SamePage, Jobs
<1>4. WritesSound' /\ Placed'
  BY <1>1, <1>3, SendWrites DEF Calm
<1>5. Quiet' /\ OnePage' /\ OneRequest'
  BY <1>3 DEF Quiet, OnePage, OneRequest
<1>6. Before /\ ~ Before' /\ ~ Sending' /\ ~ Done'
  BY <1>3 DEF Before, Sending, Done, Verifying, At, PagePhase
<1>7. NoneOf({"write"})'
  <2>1. NoneOf({"write"})
    BY <1>6 DEF Calm, Stages, NoneOf
  <2> QED BY <1>1, <2>1, SendNone
<1>8. up' = << f >> /\ pending' = NoCommand
  <2>1. ~ RobotBusy
    BY DEF At, Calm, Quiet
  <2>2. link
    BY <1>1 DEF Sends
  <2> QED BY <1>1, <2>1, <2>2, SendAlone
<1>9. EraseSound' /\ PagesSound'
  BY <1>3, <1>6, <1>8 DEF EraseSound, PagesSound
<1>10. Stages'
  BY <1>6, <1>7 DEF Calm, Stages, Sends
<1> QED BY <1>4, <1>5, <1>9, <1>10 DEF Calm

(* The two fragments of a page.                                            *)
LEMMA CalmPart ==
  ASSUME TypeOK, Counters, Calm, rxQueue = << >>, UNCHANGED << cursor, rxQueue >>,
         \/ At("part1") /\ Sends(Part(1)) /\ job' = Goto("part2")
         \/ At("part2") /\ Sends(Part(2)) /\ job' = Goto("await")
  PROVE  Calm'
<1>1. Part(1) \in Fragments /\ Part(2) \in Fragments
  <2>1. job.chunk \in Chunks /\ job.addr \in Nat
    BY JobFields DEF At, Sending, PagePhase, Counters
  <2>2. PageCommand \in Commands
    BY <2>1, CommandTypes DEF PageCommand
  <2> QED BY <2>2 DEF Part, Fragment, Fragments
<1>2. Part(1).cmd = PageCommand /\ Part(2).cmd = PageCommand /\ PageCommand.cmd = "write"
  BY DEF Part, Fragment, PageCommand, Write
<1>3. job \in Jobs
  BY JobFields
<1>4. SamePage /\ job'.pc \in {"part2", "await"} /\ PageCommand' = PageCommand
      /\ (WriteReady' <=> WriteReady) /\ UNCHANGED << rx, down, pending, link, flash >>
  BY <1>3 DEF Goto, SamePage, Jobs, PageCommand, WriteReady, Sends
<1>5. Sending /\ Sending' /\ ~ Before' /\ ~ Erasing' /\ ~ Done'
  BY <1>4 DEF At, Sending, Before, Erasing, Done, PagePhase, Verifying
<1>6. WritesSound' /\ Placed'
  BY <1>1, <1>2, <1>4, <1>5, SendWrites DEF Calm, PagesSound
<1>7. PagesSound'
  <2>1. NoneOf({"erase"})'
    BY <1>1, <1>2, <1>5, SendNone DEF Calm, PagesSound
  <2> QED BY <1>4, <1>5, <2>1 DEF Calm, PagesSound, SamePage
<1>8. Naks(rxQueue) /\ Naks(rxQueue')
  BY DEF Naks
<1>9. OnePage'
  <2>1. CASE At("part1") /\ Sends(Part(1)) /\ job' = Goto("part2")
    <3>1. job'.pc = "part2" /\ ~ RobotBusy
      BY <1>3, <2>1 DEF Goto, Jobs, At, Calm, Quiet
    <3>2. ASSUME link PROVE up' = << Part(1) >> /\ pending' = NoCommand /\ down' = << >>
      BY <1>1, <2>1, <3>1, <3>2, SendAlone
    <3>3. SentFirst'
      BY <1>4, <1>8, <3>2 DEF SentFirst, Silent, Part
    <3> QED BY <3>1, <3>3 DEF OnePage
  <2>2. CASE At("part2") /\ Sends(Part(2)) /\ job' = Goto("await")
    <3>1. job'.pc = "await" /\ SentFirst
      BY <1>3, <2>2 DEF Goto, Jobs, At, Calm, OnePage
    <3>2. CASE ~ link
      BY <1>4, <1>8, <3>1, <3>2 DEF OnePage, SentBoth
    <3>3. CASE link /\ up = << Part(1) >> /\ Silent
      <4>1. up' = << Part(1), Part(2) >>
        BY <1>1, <2>2, <3>3, ShortSeqs DEF Sends
      <4>2. pending' = NoCommand /\ Silent' /\ Naks(down')
        BY <1>4, <3>1, <3>3 DEF SentFirst, Silent, Naks
      <4> QED BY <1>4, <1>8, <3>1, <4>1, <4>2 DEF OnePage, SentBoth, Part
    <3>4. CASE link /\ up = << >> /\ Naks(down) /\ (rx.state = "partial" => Silent)
      <4>1. up' = << Part(2) >>
        BY <1>1, <2>2, <3>4, ShortSeqs DEF Sends
      <4>2. pending' = NoCommand /\ (rx'.state = "partial" => Silent') /\ Naks(down')
        BY <1>4, <3>1, <3>4 DEF SentFirst, Silent
      <4> QED BY <1>4, <1>8, <3>1, <4>1, <4>2 DEF OnePage, SentBoth, Part
    <3> QED BY <3>1, <3>2, <3>3, <3>4 DEF SentFirst
  <2> QED BY <2>1, <2>2
<1>10. Quiet' /\ OneRequest' /\ EraseSound' /\ Stages'
  BY <1>4, <1>5 DEF Quiet, OneRequest, EraseSound, Stages
<1> QED BY <1>6, <1>7, <1>9, <1>10 DEF Calm
(* The first page, on an erased flash.                                     *)
LEMMA CalmStart ==
  ASSUME TypeOK, Calm, StartPages
  PROVE  Calm'
<1>1. job \in Jobs
  BY JobFields
<1>2. /\ job'.pc = "page" /\ job'.chunk = 1 /\ job'.addr = 1 /\ cursor' = 1
      /\ UNCHANGED << pending, flash, up >>
  BY <1>1 DEF StartPages, Jobs, devVars
<1>3. Erasing /\ job.pc = "start"
  BY DEF StartPages, At, Erasing
<1>4. IsErased /\ NoneOf({"erase"}) /\ NoneOf({"write"})
  BY <1>3 DEF Calm, EraseSound, Stages
<1>5. NoneOf({"erase"})' /\ NoneOf({"write"})'
  BY <1>2, <1>4 DEF NoneOf
<1>6. WritesSound' /\ Placed'
  BY <1>2, <1>5 DEF Calm, Placed, WritesSound, NoneOf
<1>7. 1 \in Chunks
  BY Limits DEF Chunks
<1>8. WriteReady'
  BY <1>2, <1>4, <1>7 DEF WriteReady, IsErased
<1>9. /\ \A c \in Chunks : ~ (c < 1)
      /\ \A c \in Chunks : flash'[c] = Blank
  BY <1>2, <1>4, Limits DEF Chunks, IsErased
<1>10. PagesSound'
  BY <1>2, <1>5, <1>8, <1>9 DEF PagesSound
<1>11. ~ Before' /\ ~ Erasing' /\ ~ Done'
  BY <1>2 DEF Before, Erasing, Done, Verifying
<1>12. Quiet' /\ OneRequest' /\ OnePage' /\ EraseSound' /\ Stages'
  BY <1>2, <1>11 DEF Quiet, OneRequest, OnePage, EraseSound, Stages
<1> QED BY <1>6, <1>10, <1>12 DEF Calm

(* An OK is that of the current page, and nothing else is on its way.      *)
LEMMA OneAnswer ==
  ASSUME TypeOK, Calm, At("await"), rxQueue # << >>, IsOK(Head(rxQueue))
  PROVE  Confirmed(rxQueue) /\ down = << >>
<1>1. ~ Naks(rxQueue)
  <2>1. rxQueue \in Seq(Responses)
    BY DEF TypeOK
  <2> QED BY <2>1, NaksFacts DEF IsOK
<1>2. SentBoth
  BY DEF At, Calm, OnePage
<1> QED BY <1>1, <1>2 DEF SentBoth, Programming, Silent

(* The next page, or the end of the image.                                 *)
LEMMA CalmNextPage ==
  ASSUME TypeOK, Calm, At("await"), rxQueue # << >>, IsOK(Head(rxQueue)), NextPage,
         UNCHANGED << devVars >>
  PROVE  Calm'
<1>1. job \in Jobs /\ job.addr \in Nat
  BY JobFields
<1>2. up = << >> /\ pending = NoCommand /\ down = << >> /\ flash[job.addr] = Chunk(job.chunk)
  BY OneAnswer DEF Confirmed
<1>3. UNCHANGED << pending, flash, up, down, link >>
  BY DEF devVars
<1>4. \A K \in {{"write"}, {"erase"}, {"write", "erase"}} : NoneOf(K)'
  BY <1>2, <1>3 DEF NoneOf, NoCommand, Simple
<1>5. WritesSound' /\ Placed'
  BY <1>3, <1>4 DEF Calm, Placed, WritesSound, NoneOf
<1>6. Sending
  BY DEF At, Sending, PagePhase
<1>7. /\ job.addr = job.chunk /\ job.chunk \in Chunks /\ cursor = job.chunk
      /\ \A c \in Chunks : c < job.addr => flash[c] = Chunk(c)
      /\ \A c \in Chunks : c > job.addr => flash[c] = Blank
  BY <1>6 DEF Calm, PagesSound, WriteReady
<1>8. \A c \in Chunks : c \in Nat /\ c >= 1 /\ c <= ImagePages
  BY Limits DEF Chunks
<1>9. \A c \in Chunks : c < job.addr + 1 => flash[c] = Chunk(c)
  <2> SUFFICES ASSUME NEW c \in Chunks, c < job.addr + 1 PROVE flash[c] = Chunk(c)
    OBVIOUS
  <2>1. c < job.addr \/ c = job.addr
    BY <1>1, <1>8
  <2> QED BY <2>1, <1>2, <1>7
<1>10. CASE cursor < ImagePages
  <2>1. /\ job'.pc = "page" /\ job'.addr = job.addr + 1 /\ job'.chunk = cursor + 1
        /\ cursor' = cursor + 1
    BY <1>1, <1>10 DEF NextPage, Jobs
  <2>2. job.addr + 1 \in Chunks
    BY <1>1, <1>7, <1>10, Limits DEF Chunks
  <2>3. \A c \in Chunks : c > job.addr + 1 => flash[c] = Blank
    BY <1>1, <1>7, <1>8
  <2>4. flash[job.addr + 1] = Blank
    BY <1>1, <1>7, <2>2
  <2>5. WriteReady'
    BY <1>3, <1>7, <2>1, <2>2, <2>4 DEF WriteReady
  <2>6. PagesSound'
    BY <1>3, <1>4, <1>7, <1>9, <2>1, <2>3, <2>5 DEF PagesSound
  <2>7. ~ Before' /\ ~ Erasing' /\ ~ Done'
    BY <2>1 DEF Before, Erasing, Done, Verifying
  <2>8. Quiet' /\ OneRequest' /\ OnePage' /\ EraseSound' /\ Stages'
    BY <2>1, <2>7 DEF Quiet, OneRequest, OnePage, EraseSound, Stages
  <2> QED BY <1>5, <2>6, <2>8 DEF Calm
<1>11. CASE ~ (cursor < ImagePages)
  <2>1. job'.pc = "sysreset"
    BY <1>1, <1>11 DEF NextPage, Jobs
  <2>2. ImageIn(flash)
    <3>1. cursor \in 0 .. ImagePages /\ ImagePages \in Nat
      BY Limits DEF TypeOK
    <3>2. job.addr = ImagePages
      BY <1>7, <1>11, <3>1
    <3>3. \A c \in Chunks : c < job.addr + 1
      BY <1>8, <3>1, <3>2
    <3> QED BY <3>3, <1>9 DEF ImageIn
  <2>3. ~ Before' /\ ~ Erasing' /\ ~ Sending'
    BY <2>1 DEF Before, Erasing, Sending, PagePhase, Verifying
  <2>4. Stages'
    BY <1>3, <1>4, <2>2, <2>3 DEF Stages, ImageIn
  <2>5. Quiet'
    BY <1>2, <1>3 DEF Quiet, RobotBusy
  <2>6. OneRequest' /\ OnePage' /\ EraseSound' /\ PagesSound'
    BY <2>1, <2>3 DEF OneRequest, OnePage, EraseSound, PagesSound
  <2> QED BY <1>5, <2>4, <2>5, <2>6 DEF Calm
<1> QED BY <1>10, <1>11

(* makeNewConnection closes the connection and whatever is in flight.      *)
LEMMA CalmMakeNew ==
  ASSUME TypeOK, Calm, MakeNewConnection
  PROVE  Calm'
<1>1. job \in Jobs
  BY JobFields
<1>2. job' = Goto("makeWait") /\ job.pc = "makeNew"
  BY Zenon DEF MakeNewConnection, At
<1>3. SamePage /\ job'.pc = "makeWait"
  BY <1>1, <1>2 DEF SamePage, Goto, Jobs
<1>4. SameCommands /\ ~ link'
  BY Zenon DEF MakeNewConnection, SameCommands, bl_disconnected
<1>5. WritesSound' /\ Placed'
  BY <1>3, <1>4, SameWrites DEF Calm
<1>6. Before /\ ~ Erasing' /\ ~ Sending' /\ ~ Done'
  BY <1>2, <1>3 DEF Before, Erasing, Sending, Done, PagePhase, Verifying
<1>7. NoneOf({"write", "erase"})'
  BY <1>4, <1>6, SameNone DEF Calm, Stages
<1>8. Stages'
  BY <1>4, <1>6, <1>7 DEF Calm, Stages, SameCommands
<1>9. Quiet'
  BY <1>4 DEF Quiet, RobotBusy
<1>10. OneRequest' /\ OnePage' /\ EraseSound' /\ PagesSound'
  BY <1>3, <1>6 DEF OneRequest, OnePage, EraseSound, PagesSound
<1> QED BY <1>5, <1>8, <1>9, <1>10 DEF Calm

(* Every step of the update job, in the order of JobStep.                  *)
LEMMA CalmJob ==
  ASSUME TypeOK, Counters, LinkSound, Calm, JobStep, incidents' = {}
  PROVE  Calm'
<1>1. job \in Jobs /\ job.pc \in Positions
  BY JobFields
<1>2. UNCHANGED << devVars >> => SameCommands
  BY DEF SameCommands, devVars
<1>3. ASSUME NEW p \in Positions, job' = Goto(p) PROVE SamePage /\ job'.pc = p /\ job'.call = job.call
  BY <1>1, <1>3 DEF Goto, SamePage, Jobs
<1>4. ASSUME NEW n, job' = Verify(n) PROVE SamePage /\ job'.pc = "verify" /\ job'.call = n
  BY <1>1, <1>4 DEF Verify, SamePage, Jobs
<1>5. job' = NextAttempt(job) => SamePage /\ job'.pc \in {"page", "fail"}
  BY <1>1 DEF NextAttempt, SamePage, Jobs
<1>6. job.pc \in {"check", "drain", "acquire", "verify", "magic", "makeWait", "erase",
                 "start", "part1", "sysreset"} => ~ RobotBusy
  BY DEF Calm, Quiet
<1>7. {"drain", "acquire", "verifyWait", "magic", "makeNew", "fail", "FAILURE", "part1", "part2",
       "await", "failed", "COMPLETE"} \subseteq Positions
  BY DEF Positions, PagePhase, Ended
<1>8. ASSUME job' = Goto("fail"), SameCommands PROVE Calm'
  BY <1>3, <1>7, <1>8, CalmEnd
<1>9. CASE CheckConnection
  <2>1. Before /\ ~ RobotBusy /\ UNCHANGED << devVars >>
    BY <1>6, <1>9 DEF CheckConnection, At, Before
  <2>2. job' = Verify(1) \/ job' = Goto("drain")
    BY <1>9 DEF CheckConnection
  <2>3. CASE job' = Verify(1)
    BY <1>4, <2>1, <2>3, CalmBefore DEF Before, Verifying
  <2>4. CASE job' = Goto("drain")
    BY <1>3, <1>7, <2>1, <2>4, CalmBefore DEF Before
  <2> QED BY <2>2, <2>3, <2>4
<1>10. CASE DrainAndReconnect
  <2>1. Before /\ ~ RobotBusy /\ UNCHANGED << devVars >> /\ job' = Goto("acquire")
    BY <1>6, <1>10 DEF DrainAndReconnect, At, Before
  <2> QED BY <1>3, <1>7, <2>1, CalmBefore DEF Before
<1>11. CASE AcquireConnection \/ MakeNewDone
  <2>1. Before /\ ~ RobotBusy /\ UNCHANGED << devVars >> /\ (job' = Verify(1) \/ job' = Verify(2))
    BY <1>6, <1>11 DEF AcquireConnection, MakeNewDone, At, Before
  <2> QED BY <1>4, <2>1, CalmBefore DEF Before, Verifying
<1>12. CASE VerifySend
  <2>1. job.pc = "verify" /\ Verifying /\ ~ RobotBusy /\ rxQueue' = << >> /\ UNCHANGED cursor
    BY <1>6, <1>12 DEF VerifySend, At, Verifying
  <2>2. \/ job' = Verified(FALSE) /\ UNCHANGED << devVars >>
        \/ job' = Goto("verifyWait") /\ Sends(Fragment(Simple("jedec"), 0))
    BY <1>12, WriteSteps DEF VerifySend, Sends
  <2> QED BY <2>1, <2>2, CalmVerified, CalmRequest DEF At
<1>13. CASE VerifyAnswered
  <2>1. ~ RobotBusy
    BY <1>13, VerifyEnds
  <2>2. /\ job.pc = "verifyWait" /\ rxQueue # << >> /\ Verifying /\ job' = Verified(TRUE)
        /\ UNCHANGED << devVars, cursor >>
    BY <1>13 DEF VerifyAnswered, At, Verifying
  <2> QED BY <2>1, <2>2, CalmVerified
<1>14. CASE VerifyTimeout
  <2>1. ~ RobotBusy
    BY <1>14, VerifyEnds
  <2>2. Verifying /\ job' = Verified(FALSE) /\ UNCHANGED << devVars, cursor >>
    BY <1>14 DEF VerifyTimeout, At, Verifying
  <2> QED BY <2>1, <2>2, CalmVerified
<1>15. CASE SendMagic
  <2>1. \/ job' = Goto("fail") /\ UNCHANGED << devVars >>
        \/ job' = Goto("makeNew") /\ Sends(Fragment(Simple("magic"), 0))
    BY <1>15, WriteSteps DEF SendMagic, Sends
  <2> QED BY <1>2, <1>8, <1>15, <2>1, CalmSimple DEF SendMagic
<1>16. CASE MakeNewConnection
  BY <1>16, CalmMakeNew
<1>17. CASE MakeNewTimeout
  BY <1>2, <1>8, <1>17 DEF MakeNewTimeout
<1>18. CASE eraseFlash
  <2>1. \/ job' = Goto("fail") /\ UNCHANGED << devVars >>
        \/ /\ job' = [job EXCEPT !.retry = EraseWaits, !.pc = "waitErase"]
           /\ Sends(Fragment(Simple("erase"), 0))
    BY <1>18, WriteSteps DEF eraseFlash, Sends
  <2> QED BY <1>2, <1>8, <1>18, <2>1, CalmErase DEF eraseFlash
<1>19. CASE EraseReconnected \/ EraseWaitTimeout
  <2>1. ~ RobotBusy
    BY <1>19, NoLateAnswer DEF EraseReconnected, EraseWaitTimeout
  <2>2. Erasing /\ UNCHANGED << devVars >> /\ (job' = Verify(3) \/ job' = Verify(4))
    BY <1>19 DEF EraseReconnected, EraseWaitTimeout, At, Erasing
  <2> QED BY <1>4, <2>1, <2>2, CalmErasing DEF Erasing, Verifying
<1>20. CASE StartPages
  BY <1>20, CalmStart
<1>21. CASE BeginPage
  <2>1. ~ RobotBusy
    BY <1>21 DEF BeginPage
  <2>2. Sending /\ UNCHANGED << devVars, cursor >> /\ rxQueue' = << >> /\ job' = Goto("part1")
    BY <1>21 DEF BeginPage, At, Sending, PagePhase
  <2> QED BY <1>3, <1>7, <2>1, <2>2, CalmSending DEF Sending, PagePhase
<1>22. ASSUME job' = Goto("failed"), Sending, UNCHANGED << devVars, cursor >> PROVE Calm'
  BY <1>3, <1>7, <1>22, CalmSending DEF Sending, PagePhase
<1>23. CASE UnexpectedResponse \/ getResponseTimeout
  BY <1>22, <1>23 DEF UnexpectedResponse, getResponseTimeout, At, Sending, PagePhase
<1>24. CASE SendPart1 \/ SendPart2
  <2>1. Sending /\ rxQueue = << >> /\ UNCHANGED << cursor, rxQueue >>
    BY <1>24 DEF SendPart1, SendPart2, At, Sending, PagePhase
  <2>2. \/ job' = Goto("failed") /\ UNCHANGED << devVars >>
        \/ At("part1") /\ Sends(Part(1)) /\ job' = Goto("part2")
        \/ At("part2") /\ Sends(Part(2)) /\ job' = Goto("await")
    BY <1>24, WriteSteps DEF SendPart1, SendPart2, Sends, Part
  <2> QED BY <1>22, <2>1, <2>2, CalmPart
<1>25. CASE getResponse
  <2>1. Sending /\ At("await") /\ rxQueue # << >> /\ UNCHANGED << devVars >>
    BY <1>25 DEF getResponse, At, Sending, PagePhase
  <2> QED BY <1>22, <1>25, <2>1, CalmNextPage DEF getResponse
<1>26. ASSUME job' = NextAttempt(job), Sending, UNCHANGED << devVars, cursor >> PROVE Calm'
  <2>1. CASE job'.pc = "fail"
    BY <1>2, <1>5, <1>26, <2>1, CalmEnd
  <2>2. CASE job'.pc = "page"
    BY <1>5, <1>26, <2>2, CalmSending DEF Sending, PagePhase
  <2> QED BY <1>5, <1>26, <2>1, <2>2
<1>27. CASE PageFailed
  <2>1. Sending /\ UNCHANGED << devVars, cursor >>
    BY <1>27 DEF PageFailed, At, Sending, PagePhase
  <2>2. CASE job' = [job EXCEPT !.rc = ConnectRetries, !.pc = "waitPage"]
    <3>1. SamePage /\ job'.pc = "waitPage"
      BY <1>1, <2>2 DEF SamePage, Jobs
    <3> QED BY <2>1, <3>1, CalmSending DEF Sending, PagePhase
  <2> QED BY <1>26, <1>27, <2>1, <2>2 DEF PageFailed
<1>28. CASE PageReconnected
  BY <1>26, <1>28 DEF PageReconnected, At, Sending, PagePhase
<1>29. CASE PageWaitTimeout
  <2>1. ~ RobotBusy
    BY <1>29, NoLateAnswer DEF PageWaitTimeout
  <2>2. Sending /\ UNCHANGED << devVars, cursor >> /\ job' = Verify(5)
    BY <1>29 DEF PageWaitTimeout, At, Sending, PagePhase
  <2> QED BY <1>4, <2>1, <2>2, CalmSending DEF Sending, Verifying
<1>30. CASE systemReset
  <2>1. job.pc = "sysreset" /\ job' = Goto("COMPLETE")
    BY <1>30, WriteGoesOn DEF systemReset, At
  <2>2. UNCHANGED << devVars >> \/ Sends(Fragment(Simple("reset"), 0))
    BY <1>30, WriteSteps DEF systemReset, Sends
  <2>3. CASE UNCHANGED << devVars >>
    <3>1. SamePage /\ job'.pc = "COMPLETE" /\ SameCommands
      BY <1>2, <1>3, <1>7, <2>1, <2>3
    <3>2. WritesSound' /\ Placed' /\ (NoneOf({"write", "erase"}) => NoneOf({"write", "erase"})')
      BY <3>1, SameWrites, SameNone DEF Calm
    <3>3. ~ Before' /\ ~ Erasing' /\ ~ Sending' /\ Done
      BY <2>1, <3>1 DEF Before, Erasing, Sending, Done, PagePhase, Verifying
    <3>4. Quiet' /\ OneRequest' /\ OnePage' /\ EraseSound' /\ PagesSound'
      BY <3>1, <3>3 DEF Quiet, OneRequest, OnePage, EraseSound, PagesSound
    <3>5. Stages'
      BY <3>1, <3>2, <3>3 DEF Calm, Stages, SameCommands, ImageIn
    <3> QED BY <3>2, <3>4, <3>5 DEF Calm
  <2> QED BY <2>1, <2>2, <2>3, CalmSimple DEF At
<1>31. CASE ReportFailure
  <2>1. job' = Goto("FAILURE") /\ SameCommands
    BY <1>31, Zenon DEF ReportFailure, SameCommands, bl_disconnected
  <2> QED BY <1>3, <1>7, <2>1, CalmEnd
<1> QED
  BY <1>9, <1>10, <1>11, <1>12, <1>13, <1>14, <1>15, <1>16, <1>17, <1>18, <1>19, <1>20, <1>21,
     <1>23, <1>24, <1>25, <1>27, <1>28, <1>29, <1>30, <1>31 DEF JobStep
-------------------------------------------------------------------------------
(* Without incidents: the flash and the commands under way, while the job   *)
(* stays where it is.                                                      *)

(* Commands move from the link into the robot, or vanish.                  *)
Shrinks ==
  /\ \/ pending' = pending
     \/ pending' = NoCommand
     \/ \E j \in DOMAIN up : pending' = up[j].cmd
  /\ \A i \in DOMAIN up' : \E j \in DOMAIN up : up'[i] = up[j]

(* A kind of command that is not under way does not come up.               *)
LEMMA ShrinkNone ==
  ASSUME Shrinks, NEW K, "none" \notin K, NoneOf(K)
  PROVE  NoneOf(K)'
  BY DEF Shrinks, NoneOf, NoCommand, Simple

(* A queue without its first fragment.                                     *)
LEMMA TailShrinks ==
  ASSUME TypeOK, up # << >>, up' = Tail(up)
  PROVE  \A i \in DOMAIN up' : \E j \in DOMAIN up : up'[i] = up[j]
<1>1. up \in Seq(Fragments)
  BY DEF TypeOK, DeviceTypeOK
<1> QED BY <1>1, ElementsOf

(* What the flash holds and is going to hold.                              *)
FlashSound == WritesSound /\ PagesSound /\ Stages /\ Placed

(* A step that leaves the flash alone and brings no command keeps what the *)
(* flash holds and is going to hold.                                       *)
LEMMA FlashStays ==
  ASSUME FlashSound, Shrinks, UNCHANGED << job, flash >>, UNCHANGED cursor \/ ~ Sending
  PROVE  /\ FlashSound'
         /\ NoneOf({"erase"}) => NoneOf({"erase"})'
         /\ IsErased' <=> IsErased
<1>1. \A K \in {{"write"}, {"erase"}, {"write", "erase"}} : NoneOf(K) => NoneOf(K)'
  BY ShrinkNone
<1>2. PageCommand' = PageCommand /\ (WriteReady' <=> WriteReady)
  BY DEF PageCommand, WriteReady
<1>3. WritesSound'
  BY <1>2 DEF FlashSound, WritesSound, Shrinks, NoCommand, Simple
<1>4. /\ Before' <=> Before
      /\ Erasing' <=> Erasing
      /\ Sending' <=> Sending
      /\ Done' <=> Done
  BY DEF Before, Erasing, Sending, Done, Verifying, PagePhase
<1>5. PagesSound'
  BY <1>1, <1>2, <1>4 DEF FlashSound, PagesSound
<1>6. Stages'
  BY <1>1, <1>4 DEF FlashSound, Stages, ImageIn
<1>7. Placed' /\ (IsErased' <=> IsErased)
  BY DEF FlashSound, Placed, IsErased
<1> QED BY <1>1, <1>3, <1>5, <1>6, <1>7 DEF FlashSound

(* A page is programmed, or only partly.                                   *)
LEMMA FlashPage ==
  ASSUME TypeOK, FlashSound, Shrinks, UNCHANGED << job, cursor >>, pending.cmd = "write",
         flash' \in {Programmed(pending.addr, pending.data), Interrupted(pending.addr, pending.data)}
  PROVE  /\ FlashSound'
         /\ pending = PageCommand /\ WriteReady
         /\ ~ Before /\ ~ Erasing /\ ~ Done
         /\ flash' = Programmed(pending.addr, pending.data) => flash'[job.addr] = Chunk(job.chunk)
<1>1. pending = PageCommand /\ WriteReady
  BY DEF FlashSound, WritesSound
<1>2. pending.addr = job.addr /\ pending.data = Chunk(job.chunk)
  BY <1>1 DEF PageCommand, Write
<1>3. ~ Before /\ ~ Erasing /\ ~ Done
  BY DEF FlashSound, Stages, NoneOf
<1>4. flash \in [Addresses -> Sectors] /\ job.addr \in Addresses /\ job.chunk \in Chunks
      /\ job.addr = job.chunk
  <2>1. Chunks \subseteq Addresses
    BY Limits DEF Addresses, Chunks
  <2>2. flash \in [Addresses -> Sectors]
    BY DEF TypeOK, DeviceTypeOK
  <2> QED BY <1>1, <2>1, <2>2 DEF WriteReady
<1>5. /\ flash'[job.addr] \in {Chunk(job.chunk), Torn(Chunk(job.chunk))}
      /\ flash' = Programmed(pending.addr, pending.data) => flash'[job.addr] = Chunk(job.chunk)
      /\ \A a \in Addresses : a # job.addr => flash'[a] = flash[a]
  <2> DEFINE d == Chunk(job.chunk)
             p == IF flash[job.addr] \in {Blank, d, Torn(d)} THEN d ELSE Mixed
             i == IF flash[job.addr] \in {Blank, Torn(d)} THEN Torn(d)
                  ELSE IF flash[job.addr] = d THEN d ELSE Mixed
  <2>1. flash[job.addr] \in {Blank, d, Torn(d)}
    BY <1>1 DEF WriteReady
  <2>2. p = d /\ i \in {d, Torn(d)}
    BY <2>1
  <2>3. /\ Programmed(pending.addr, pending.data) = [flash EXCEPT ![job.addr] = p]
        /\ Interrupted(pending.addr, pending.data) = [flash EXCEPT ![job.addr] = i]
    BY <1>2 DEF Programmed, Interrupted
  <2> HIDE DEF p, i, d
  <2>4. /\ flash'[job.addr] \in {d, Torn(d)}
        /\ flash' = Programmed(pending.addr, pending.data) => flash'[job.addr] = d
        /\ \A a \in Addresses : a # job.addr => flash'[a] = flash[a]
    BY <1>4, <2>2, <2>3
  <2> QED BY <2>4 DEF d
<1>6. WriteReady' /\ PageCommand' = PageCommand
  BY <1>4, <1>5 DEF WriteReady, PageCommand
<1>7. WritesSound'
  BY <1>6 DEF FlashSound, WritesSound, Shrinks, NoCommand, Simple
<1>8. ~ Before' /\ ~ Erasing' /\ ~ Done' /\ (Sending' <=> Sending)
  BY <1>3 DEF Before, Erasing, Sending, Done, Verifying, PagePhase
<1>9. Placed'
  BY <1>4, <1>5 DEF FlashSound, Placed
<1>10. PagesSound'
  <2> SUFFICES ASSUME Sending PROVE PagesSound'
    BY <1>8 DEF PagesSound
  <2>1. NoneOf({"erase"})'
    BY ShrinkNone DEF FlashSound, PagesSound
  <2>2. job.addr \in Nat /\ \A c \in Chunks : c \in Addresses /\ c \in Nat
    BY <1>4, Limits DEF Chunks, Addresses
  <2>3. /\ \A c \in Chunks : c < job.addr => flash'[c] = Chunk(c)
        /\ \A c \in Chunks : c > job.addr => flash'[c] = Blank
    BY <1>5, <2>2 DEF FlashSound, PagesSound
  <2> QED BY <1>6, <2>1, <2>3 DEF FlashSound, PagesSound
<1>11. Stages'
  BY <1>8 DEF Stages
<1> QED BY <1>1, <1>3, <1>5, <1>7, <1>9, <1>10, <1>11 DEF FlashSound

(* The erase command is carried out.                                       *)
LEMMA FlashErased ==
  ASSUME TypeOK, FlashSound, Shrinks, UNCHANGED << job, cursor >>, pending.cmd = "erase",
         flash' = Erased(ErasedSectors)
  PROVE  /\ FlashSound'
         /\ ~ Before /\ ~ Sending /\ ~ Done
         /\ IsErased'
<1>1. ~ Before /\ ~ Sending /\ ~ Done
  BY DEF FlashSound, Stages, PagesSound, NoneOf
<1>2. \A a \in Addresses : flash'[a] = Blank \/ flash'[a] = flash[a]
  BY DEF Erased
<1>3. Chunks \subseteq ErasedSectors /\ Chunks \subseteq Addresses
  BY Limits DEF Chunks, Addresses, ErasedSectors
<1>4. IsErased'
  BY <1>3 DEF IsErased, Erased
<1>5. PageCommand' = PageCommand /\ (WriteReady => WriteReady')
  BY <1>4 DEF PageCommand, WriteReady, IsErased
<1>6. WritesSound'
  BY <1>5 DEF FlashSound, WritesSound, Shrinks, NoCommand, Simple
<1>7. ~ Before' /\ ~ Sending' /\ ~ Done' /\ (Erasing' <=> Erasing)
  BY <1>1 DEF Before, Erasing, Sending, Done, Verifying, PagePhase
<1>8. NoneOf({"write"}) => NoneOf({"write"})'
  BY ShrinkNone
<1>9. Stages' /\ PagesSound'
  BY <1>2, <1>7, <1>8 DEF FlashSound, Stages, PagesSound
<1>10. Placed'
  BY <1>2 DEF FlashSound, Placed
<1> QED BY <1>1, <1>4, <1>6, <1>9, <1>10 DEF FlashSound
-------------------------------------------------------------------------------
(* Without incidents: the link, the callbacks and the robot.               *)
Conversation == Quiet /\ OneRequest /\ OnePage /\ EraseSound

(* The invariant without incidents is about the conversation and about the *)
(* flash.                                                                  *)
LEMMA CalmParts ==
  /\ Calm <=> Conversation /\ FlashSound
  /\ Calm' <=> Conversation' /\ FlashSound'
  BY DEF Calm, Conversation, FlashSound

(* Where the job is does not change with a step of another process.        *)
LEMMA SamePosition ==
  ASSUME UNCHANGED job
  PROVE  /\ Before' <=> Before
         /\ Erasing' <=> Erasing
         /\ Sending' <=> Sending
         /\ Done' <=> Done
         /\ PageCommand' = PageCommand
  BY DEF Before, Erasing, Sending, Done, Verifying, PagePhase, PageCommand

(* Whatever takes the link away takes what is in flight with it.           *)
LEMMA CalmDrop ==
  ASSUME TypeOK, Calm, bl_disconnected, UNCHANGED << job, cursor, rxQueue >>,
         ~ EraseIn(up) \/ pending # NoCommand,
         \/ UNCHANGED << pending, flash >>
         \/ /\ pending' = NoCommand /\ pending.cmd # "erase"
            /\ \/ UNCHANGED flash
               \/ pending.cmd = "write" /\ flash' = Interrupted(pending.addr, pending.data)
  PROVE  Calm'
<1>1. ~ link' /\ up' = << >> /\ down' = << >>
  BY Zenon DEF bl_disconnected
<1>2. Shrinks
  BY <1>1 DEF Shrinks
<1>3. FlashSound'
  BY <1>2, CalmParts, FlashStays, FlashPage
<1>4. Quiet' /\ OneRequest'
  BY <1>1 DEF Quiet, OneRequest, RobotBusy
<1>5. pending = NoCommand \/ Erasing => UNCHANGED flash
  <2>1. ASSUME pending = NoCommand \/ Erasing PROVE pending.cmd # "write"
    BY <2>1 DEF Calm, Stages, NoneOf, NoCommand, Simple
  <2> QED BY <2>1
<1>6. OnePage'
  <2>1. ASSUME job.pc = "part1" PROVE rxQueue' = << >>
    BY <2>1 DEF Calm, OnePage
  <2>2. ASSUME job.pc = "part2" PROVE SentFirst'
    BY <1>1, <2>2 DEF Calm, OnePage, SentFirst
  <2>3. ASSUME job.pc = "await" PROVE SentBoth'
    <3>1. Confirmed(rxQueue) \/ Naks(rxQueue)
      BY <2>3 DEF Calm, OnePage, SentBoth, Programming, Silent, Naks
    <3>2. CASE Confirmed(rxQueue)
      <4>1. pending = NoCommand /\ pending' = NoCommand /\ UNCHANGED flash
        BY <1>5, <3>2 DEF Confirmed
      <4>2. Confirmed(rxQueue)'
        BY <1>1, <3>2, <4>1 DEF Confirmed
      <4> QED BY <1>1, <4>2 DEF SentBoth
    <3>3. CASE Naks(rxQueue)
      BY <1>1, <3>3 DEF SentBoth
    <3> QED BY <3>1, <3>2, <3>3
  <2> QED BY <2>1, <2>2, <2>3 DEF OnePage
<1>7. EraseSound'
  <2>1. NoneOf({"erase"}) => NoneOf({"erase"})'
    BY <1>2, ShrinkNone
  <2>2. Erasing => (IsErased' <=> IsErased)
    BY <1>5 DEF IsErased
  <2>3. pending = Simple("erase") => pending' = Simple("erase")
    BY DEF Simple
  <2>4. pending.cmd # "erase" => pending'.cmd # "erase"
    BY DEF NoCommand, Simple
  <2>5. CASE job.pc = "waitErase"
    <3>1. Erasing
      BY <2>5 DEF Erasing
    <3>2. up # << Fragment(Simple("erase"), 0) >> \/ pending # NoCommand
      BY DEF EraseIn, Fragment, Simple
    <3> QED BY <1>1, <2>2, <2>3, <2>4, <2>5, <3>1, <3>2 DEF Calm, EraseSound
  <2>6. CASE job.pc # "waitErase"
    BY <1>1, <2>1, <2>2, <2>3, <2>6, SamePosition DEF Calm, EraseSound
  <2> QED BY <2>5, <2>6
<1> QED BY <1>3, <1>4, <1>6, <1>7, CalmParts DEF Conversation

(* Steps that only the readiness of the connection depends on.             *)
LEMMA CalmStays ==
  ASSUME Calm, UNCHANGED << job, cursor, rxQueue, link, pending, flash, up, down >>,
         rx' = rx \/ rx' = Empty
  PROVE  Calm'
<1>1. Shrinks
  BY DEF Shrinks
<1>2. FlashSound' /\ (NoneOf({"erase"}) => NoneOf({"erase"})') /\ (IsErased' <=> IsErased)
  BY <1>1, CalmParts, FlashStays
<1>3. Quiet' /\ OneRequest'
  BY DEF Calm, Quiet, OneRequest, RobotBusy, Silent
<1>4. (rx'.state = "partial" => rx.state = "partial") /\ (Silent' <=> Silent)
  BY DEF Silent, Empty
<1>5. (SentFirst => SentFirst') /\ (SentBoth => SentBoth')
  <2>1. Part(1)' = Part(1) /\ Part(2)' = Part(2) /\ PageCommand' = PageCommand
    BY DEF Part, PageCommand
  <2>2. SentFirst => SentFirst'
    BY <1>4, <2>1 DEF SentFirst
  <2>3. SentBoth => SentBoth'
    BY <1>4, <2>1 DEF SentBoth, Confirmed, Programming
  <2> QED BY <2>2, <2>3
<1>6. OnePage'
  BY <1>5 DEF Calm, OnePage
<1>7. EraseSound'
  BY <1>2, SamePosition DEF Calm, EraseSound
<1> QED BY <1>2, <1>3, <1>6, <1>7, CalmParts DEF Conversation

(* disconnect() and closeGattConnection.                                   *)
LEMMA CalmDisconnect ==
  ASSUME TypeOK, Calm, ServiceDisconnect, UNCHANGED << devVars >> \/ bl_disconnected,
         UNCHANGED << pending, flash >>
  PROVE  Calm'
<1>1. job \in Jobs
  BY JobFields
<1>2. SameCommands
  BY Zenon DEF SameCommands, devVars, bl_disconnected
<1>3. CASE job' = Goto("cancelled")
  <2>1. SamePage /\ job'.pc = "cancelled"
    BY <1>1, <1>3 DEF Goto, SamePage, Jobs
  <2> QED BY <1>2, <2>1, CalmEnd
<1>4. CASE job.pc \in Ended /\ job' = job
  <2>1. ~ Sending /\ ~ Erasing /\ ~ Sending' /\ ~ Erasing'
    BY <1>4 DEF Sending, Erasing, Ended, PagePhase, Verifying
  <2>2. Shrinks
    BY <1>2 DEF Shrinks, SameCommands
  <2>3. FlashSound'
    BY <1>4, <2>1, <2>2, CalmParts, FlashStays
  <2>4. Quiet' /\ OneRequest' /\ OnePage' /\ EraseSound'
    BY <1>4, <2>1 DEF Quiet, OneRequest, OnePage, EraseSound, Ended
  <2> QED BY <2>3, <2>4, CalmParts DEF Conversation
<1> QED BY <1>3, <1>4, Zenon DEF ServiceDisconnect

(* closeGattConnection, outside the pages.                                 *)
LEMMA CalmClosed ==
  ASSUME Calm, LinkSound, ~ link, HandlerDisconnected, UNCHANGED << devVars >>, incidents' = {}
  PROVE  Calm'
<1>1. ~ Sending /\ rxQueue' = << >> /\ job' = job
  BY Zenon DEF HandlerDisconnected, Sending, PagePhase, At
<1>2. UNCHANGED << pending, flash, up, down, link >> /\ Shrinks
  BY DEF devVars, Shrinks
<1>3. FlashSound' /\ (NoneOf({"erase"}) => NoneOf({"erase"})') /\ (IsErased' <=> IsErased)
  BY <1>1, <1>2, CalmParts, FlashStays
<1>4. Quiet' /\ OneRequest'
  BY <1>2 DEF Quiet, OneRequest, RobotBusy
<1>5. OnePage'
  BY <1>1 DEF OnePage, Sending, PagePhase
<1>6. EraseSound'
  BY <1>1, <1>2, <1>3, SamePosition DEF Calm, EraseSound
<1> QED BY <1>3, <1>4, <1>5, <1>6, CalmParts DEF Conversation
(* A new link starts with an empty buffer and nothing in flight.           *)
LEMMA CalmConnected ==
  ASSUME Calm, LinkSound, Connected, incidents' = {}
  PROVE  Calm'
<1>1. /\ ~ link /\ up = << >> /\ down = << >>
      /\ UNCHANGED << job, cursor, rxQueue, flash, up, down >>
      /\ pending' = NoCommand /\ rx' = Empty
  BY DEF Connected, bl_connected, LinkSound, handlerVars
<1>2. pending.cmd # "erase"
  BY DEF Connected, LostWith
<1>3. Shrinks
  BY <1>1 DEF Shrinks
<1>4. FlashSound' /\ (NoneOf({"erase"}) => NoneOf({"erase"})') /\ (IsErased' <=> IsErased)
  BY <1>1, <1>3, CalmParts, FlashStays
<1>5. Quiet' /\ OneRequest'
  BY <1>1 DEF Quiet, OneRequest, RobotBusy
<1>6. Naks(down') /\ rx'.state # "partial"
  BY <1>1 DEF Naks, Empty
<1>7. OnePage'
  <2>1. ASSUME job.pc = "part2" PROVE SentFirst'
    BY <1>1, <1>6, <2>1 DEF Calm, OnePage, SentFirst
  <2>2. ASSUME job.pc = "await" PROVE SentBoth'
    <3>1. Confirmed(rxQueue) \/ Naks(rxQueue)
      BY <2>2 DEF Calm, OnePage, SentBoth, Programming, Silent, Naks
    <3>2. CASE Confirmed(rxQueue)
      BY <1>1, <3>2 DEF SentBoth, Confirmed
    <3>3. CASE Naks(rxQueue)
      BY <1>1, <1>6, <3>3 DEF SentBoth
    <3> QED BY <3>1, <3>2, <3>3
  <2> QED BY <1>1, <2>1, <2>2 DEF Calm, OnePage
<1>8. EraseSound'
  <2>1. up # << Fragment(Simple("erase"), 0) >> /\ pending # Simple("erase")
        /\ pending'.cmd # "erase"
    BY <1>1, <1>2 DEF Simple, NoCommand
  <2>2. CASE job.pc = "waitErase"
    BY <1>1, <1>4, <2>1, <2>2 DEF Calm, EraseSound
  <2>3. CASE job.pc # "waitErase"
    BY <1>1, <1>4, <2>1, <2>3, SamePosition DEF Calm, EraseSound
  <2> QED BY <2>2, <2>3
<1> QED BY <1>4, <1>5, <1>7, <1>8, CalmParts DEF Conversation

(* A response arrives.                                                     *)
LEMMA CalmResponse ==
  ASSUME TypeOK, Calm, LinkSound, onResponse
  PROVE  Calm'
<1>1. /\ link /\ down # << >> /\ down' = Tail(down)
      /\ UNCHANGED << job, cursor, flash, up, pending, rx, link >>
      /\ rxQueue' = rxQueue \/ rxQueue' = Append(rxQueue, Head(down))
  BY DEF onResponse, LinkSound
<1>2. /\ down \in Seq(Responses) /\ rxQueue \in Seq(Responses)
      /\ Head(down) \in Responses
  BY <1>1, SeqFacts DEF TypeOK, DeviceTypeOK
<1>3. Shrinks
  BY <1>1 DEF Shrinks
<1>4. FlashSound' /\ (NoneOf({"erase"}) => NoneOf({"erase"})') /\ (IsErased' <=> IsErased)
  BY <1>1, <1>3, CalmParts, FlashStays
<1>5. RobotBusy
  BY <1>1 DEF RobotBusy
<1>6. Quiet'
  BY <1>1, <1>5 DEF Calm, Quiet
<1>7. OneRequest'
  <2> SUFFICES ASSUME job.pc = "verifyWait" PROVE OneRequest'
    BY <1>1 DEF OneRequest
  <2>1. up = << >> /\ pending = NoCommand /\ (\E r \in Responses : down = << r >>)
    BY <1>1 DEF Calm, OneRequest, Silent
  <2>2. down' = << >>
    BY <1>1, <2>1, ShortSeqs
  <2> QED BY <1>1, <2>1, <2>2 DEF OneRequest
<1>8. ASSUME Naks(down), Naks(rxQueue) PROVE Naks(down') /\ Naks(rxQueue')
  BY <1>1, <1>2, <1>8, NaksFacts
<1>9. OnePage'
  <2>1. job.pc # "part1"
    BY <1>5 DEF Calm, Quiet
  <2>2. ASSUME job.pc = "part2" PROVE SentFirst'
    <3>1. /\ Naks(rxQueue) /\ Naks(down) /\ pending = NoCommand /\ up = << >>
          /\ rx.state # "partial"
      BY <1>1, <2>2 DEF Calm, OnePage, SentFirst, Silent
    <3> QED BY <1>1, <1>8, <3>1 DEF SentFirst
  <2>3. ASSUME job.pc = "await" PROVE SentBoth'
    <3>1. \/ Confirmed(down) /\ rxQueue = << >>
          \/ /\ Naks(rxQueue) /\ Naks(down) /\ pending = NoCommand
             /\ \/ up = << Part(2) >> /\ rx.state # "partial"
                \/ up = << >>
      BY <1>1, <2>3 DEF Calm, OnePage, SentBoth, Programming, Silent
    <3>2. CASE Confirmed(down) /\ rxQueue = << >>
      <4>1. down' = << >> /\ (rxQueue' = << >> \/ rxQueue' = << "OK" >>)
        BY <1>1, <3>2 DEF Confirmed
      <4>2. CASE rxQueue' = << "OK" >>
        BY <1>1, <3>2, <4>1, <4>2 DEF Confirmed, SentBoth
      <4>3. CASE rxQueue' = << >>
        <5>1. Naks(rxQueue') /\ Naks(down')
          BY <4>1, <4>3 DEF Naks
        <5> QED BY <1>1, <3>2, <5>1 DEF Confirmed, SentBoth
      <4> QED BY <4>1, <4>2, <4>3
    <3>3. CASE /\ Naks(rxQueue) /\ Naks(down) /\ pending = NoCommand
               /\ \/ up = << Part(2) >> /\ rx.state # "partial"
                  \/ up = << >>
      <4>1. Part(2)' = Part(2)
        BY <1>1 DEF Part, PageCommand
      <4> QED BY <1>1, <1>8, <3>3, <4>1 DEF SentBoth
    <3> QED BY <3>1, <3>2, <3>3
  <2> QED BY <1>1, <2>1, <2>2, <2>3 DEF OnePage
<1>10. EraseSound'
  BY <1>1, <1>4, SamePosition DEF Calm, EraseSound
<1> QED BY <1>4, <1>6, <1>7, <1>9, <1>10, CalmParts DEF Conversation

(* The callbacks, in the order of Callback.                                *)
LEMMA CalmCallback ==
  ASSUME TypeOK, LinkSound, Calm, Callback, incidents' = {}
  PROVE  Calm'
<1>1. CASE Connected
  BY <1>1, CalmConnected
<1>2. CASE onServicesDiscovered \/ onDescriptorWrite
  <2>1. UNCHANGED << job, cursor, rxQueue, link, pending, flash, up, down, rx >>
    BY <1>2, Zenon DEF onServicesDiscovered, onDescriptorWrite, devVars, handlerVars
  <2> QED BY <2>1, CalmStays
<1>3. CASE onResponse
  BY <1>3, CalmResponse
<1>4. ASSUME ~ link, UNCHANGED << devVars >>, retry_connect \/ CloseAndRetry PROVE Calm'
  <2>1. UNCHANGED << link, pending, flash, up, down, rx >>
    BY <1>4 DEF devVars
  <2>2. CASE ServiceDisconnect
    BY <1>4, <2>1, <2>2, CalmDisconnect
  <2>3. CASE HandlerDisconnected
    BY <1>4, <2>3, CalmClosed
  <2>4. CASE UNCHANGED << handlerVars >>
    BY <2>1, <2>4, CalmStays DEF handlerVars
  <2> QED BY <1>4, <2>2, <2>3, <2>4, Zenon DEF retry_connect, CloseAndRetry
<1>5. CASE ConnectionLost \/ ConnectionError \/ ConnectFails
  <2>1. ~ link /\ UNCHANGED << devVars >> /\ (retry_connect \/ CloseAndRetry)
    BY <1>5, Zenon DEF ConnectionLost, ConnectionError, ConnectFails, LinkSound
  <2> QED BY <1>4, <2>1
<1>6. CASE DiscoveryFails
  <2>1. bl_disconnected /\ UNCHANGED << pending, flash >> /\ ~ handles /\ retry_connect
    BY <1>6, Zenon DEF DiscoveryFails
  <2>2. up = << >>
    BY <2>1 DEF LinkSound
  <2>3. CASE ServiceDisconnect
    BY <2>1, <2>3, CalmDisconnect
  <2>4. CASE UNCHANGED << handlerVars >>
    <3>1. ~ EraseIn(up)
      BY <2>2 DEF EraseIn
    <3>2. UNCHANGED << job, cursor, rxQueue >>
      BY <2>4 DEF handlerVars
    <3> QED BY <2>1, <3>1, <3>2, CalmDrop
  <2> QED BY <2>1, <2>3, <2>4, Zenon DEF retry_connect
<1> QED BY <1>1, <1>2, <1>3, <1>5, <1>6 DEF Callback
(* What becomes of a fragment that finds no command in the buffer.         *)
LEMMA Received ==
  ASSUME ble_blf_recv, pending = NoCommand
  PROVE  \/ /\ pending' = Head(up).cmd /\ rx' = Empty /\ down' = down
            /\ Head(up).part = 0 \/ (rx.state = "partial" /\ Head(up).part = 2)
         \/ /\ pending' = NoCommand /\ down' = down
            /\ rx' = Partial(Head(up).cmd) /\ Head(up).part = 1
         \/ pending' = NoCommand /\ rx' = Junk /\ down' = down
         \/ pending' = NoCommand /\ rx' = Empty /\ down' = Sent("NOK")
  BY Zenon DEF ble_blf_recv

(* Commands are not mixed: what is carried out was sent.                   *)
LEMMA RecvShrinks ==
  ASSUME TypeOK, PartsSound, WritesSound, ble_blf_recv
  PROVE  Shrinks
<1>1. up # << >> /\ up' = Tail(up)
  BY Zenon DEF ble_blf_recv
<1>2. up \in Seq(Fragments)
  BY DEF TypeOK, DeviceTypeOK
<1>3. 1 \in DOMAIN up /\ Head(up) = up[1]
  BY <1>1, <1>2, SeqFacts
<1>4. \/ pending' \in {pending, NoCommand, Head(up).cmd}
      \/ pending.cmd = "write" /\ Head(up).part = 1 /\ pending # Head(up).cmd
  BY Zenon DEF ble_blf_recv
<1>5. ~ (pending.cmd = "write" /\ Head(up).part = 1 /\ pending # Head(up).cmd)
  BY <1>3 DEF PartsSound, WritesSound
<1>6. \A i \in DOMAIN up' : \E j \in DOMAIN up : up'[i] = up[j]
  BY <1>1, TailShrinks
<1> QED BY <1>3, <1>4, <1>5, <1>6 DEF Shrinks

(* A fragment reaches the bootloader: requests, pages and the erase        *)
(* command go their way, and no page is put together from two attempts.    *)
LEMMA CalmRecv ==
  ASSUME TypeOK, PartsSound, LinkSound, Calm, ble_blf_recv, UNCHANGED << job, cursor, rxQueue >>,
         Head(up).cmd.cmd = "erase" => pending'.cmd = "erase"
  PROVE  Calm'
<1>1. up # << >> /\ up' = Tail(up) /\ UNCHANGED << flash, link >> /\ link
  BY DEF ble_blf_recv, LinkSound
<1>2. Shrinks
  BY RecvShrinks DEF Calm
<1>3. FlashSound' /\ (NoneOf({"erase"}) => NoneOf({"erase"})') /\ (IsErased' <=> IsErased)
  BY <1>1, <1>2, CalmParts, FlashStays
<1>4. RobotBusy
  BY <1>1 DEF RobotBusy
<1>5. Quiet'
  BY <1>4 DEF Calm, Quiet
<1>6. DeviceTypeOK /\ {"OK", "NOK", "JEDEC"} \subseteq Responses
  BY DEF TypeOK, Responses
<1>7. /\ rx'.state = "partial" => rx' # Junk /\ rx' # Empty
      /\ Junk.state # "partial" /\ Empty.state # "partial"
  BY DEF Junk, Empty
<1>8. OneRequest'
  <2> SUFFICES ASSUME job.pc = "verifyWait" PROVE OneRequest'
    BY DEF OneRequest
  <2> DEFINE f == Fragment(Simple("jedec"), 0)
  <2>1. up = << f >> /\ pending = NoCommand /\ down = << >> /\ rxQueue = << >>
    BY <1>1 DEF Calm, OneRequest, Silent
  <2>2. Head(up) = f /\ up' = << >> /\ f.cmd = Simple("jedec")
    BY <1>1, <2>1, ShortSeqs DEF Fragment
  <2>3. Sent("NOK") = << >> \/ Sent("NOK") = << "NOK" >>
    BY <1>6, <2>1, SentFacts
  <2>4. \/ pending' = Simple("jedec") /\ down' = << >>
        \/ pending' = NoCommand /\ (down' = << >> \/ down' = << "NOK" >>)
    BY <2>1, <2>2, <2>3, Received
  <2>5. (\E r \in Responses : << "NOK" >> = << r >>) /\ rxQueue' = << >>
    BY <1>6, <2>1
  <2> QED BY <2>2, <2>4, <2>5 DEF OneRequest, Silent
<1>9. OnePage'
  <2>1. job.pc # "part1"
    BY <1>4 DEF Calm, Quiet
  <2>2. Part(1)' = Part(1) /\ Part(2)' = Part(2) /\ Part(1).part = 1 /\ Part(2).part = 2
        /\ Part(2).cmd = PageCommand /\ PageCommand' = PageCommand
    BY DEF Part, PageCommand, Fragment
  <2>3. Naks(down) => Naks(Sent("NOK"))
    BY <1>6, SentFacts
  <2>4. ASSUME job.pc = "part2" PROVE SentFirst'
    <3>1. up = << Part(1) >> /\ pending = NoCommand /\ Silent /\ Naks(rxQueue)
      BY <1>1, <2>4 DEF Calm, OnePage, SentFirst
    <3>2. Head(up) = Part(1) /\ up' = << >>
      BY <1>1, <3>1, ShortSeqs
    <3>3. Naks(down)
      BY <3>1 DEF Silent, Naks
    <3>4. pending' = NoCommand /\ Naks(down') /\ (rx'.state = "partial" => down' = down)
      BY <1>7, <2>2, <2>3, <3>1, <3>2, <3>3, Received
    <3>5. rx'.state = "partial" => Silent'
      BY <3>1, <3>4 DEF Silent
    <3> QED BY <3>1, <3>2, <3>4, <3>5 DEF SentFirst
  <2>5. ASSUME job.pc = "await" PROVE SentBoth'
    <3>1. /\ Naks(rxQueue) /\ Naks(down) /\ pending = NoCommand
          /\ \/ up = << Part(1), Part(2) >> /\ Silent
             \/ up = << Part(2) >> /\ (rx.state = "partial" => Silent)
      BY <1>1, <2>5 DEF Calm, OnePage, SentBoth, Programming, Confirmed
    <3>2. CASE up = << Part(1), Part(2) >> /\ Silent
      <4>1. Head(up) = Part(1) /\ up' = << Part(2) >>
        BY <1>1, <3>2, ShortSeqs
      <4>2. pending' = NoCommand /\ Naks(down') /\ (rx'.state = "partial" => down' = down)
        BY <1>7, <2>2, <2>3, <3>1, <4>1, Received
      <4>3. rx'.state = "partial" => Silent'
        BY <3>2, <4>2 DEF Silent
      <4> QED BY <2>2, <3>1, <4>1, <4>2, <4>3 DEF SentBoth
    <3>3. CASE up = << Part(2) >> /\ (rx.state = "partial" => Silent)
      <4>1. Head(up) = Part(2) /\ up' = << >>
        BY <1>1, <3>3, ShortSeqs
      <4>2. \/ pending' = PageCommand /\ down' = down /\ Silent
            \/ pending' = NoCommand /\ Naks(down')
        BY <2>2, <2>3, <3>1, <3>3, <4>1, Received
      <4>3. CASE pending' = PageCommand /\ down' = down /\ Silent
        BY <2>2, <4>1, <4>3 DEF SentBoth, Programming, Silent
      <4>4. CASE pending' = NoCommand /\ Naks(down')
        BY <3>1, <4>1, <4>4 DEF SentBoth
      <4> QED BY <4>2, <4>3, <4>4
    <3> QED BY <3>1, <3>2, <3>3
  <2> QED BY <2>1, <2>4, <2>5 DEF OnePage
<1>10. EraseSound'
  <2>1. CASE job.pc = "waitErase"
    <3> DEFINE f == Fragment(Simple("erase"), 0)
    <3>1. up = << f >> /\ pending = NoCommand
      BY <1>1, <2>1 DEF Calm, EraseSound
    <3>2. Head(up) = f /\ up' = << >> /\ f.cmd = Simple("erase") /\ f.cmd.cmd = "erase"
      BY <1>1, <3>1, ShortSeqs DEF Fragment, Simple
    <3>3. pending' = Simple("erase") \/ pending' = NoCommand
      BY <3>1, <3>2, Received
    <3>4. NoCommand.cmd # "erase"
      BY DEF NoCommand, Simple
    <3> QED BY <2>1, <3>2, <3>3, <3>4 DEF EraseSound
  <2>2. CASE job.pc # "waitErase"
    BY <1>1, <1>3, <2>2, SamePosition DEF Calm, EraseSound
  <2> QED BY <2>1, <2>2
<1> QED BY <1>3, <1>5, <1>8, <1>9, <1>10, CalmParts DEF Conversation

(* The train firmware drops a fragment.                                    *)
LEMMA CalmIgnored ==
  ASSUME TypeOK, LinkSound, Calm, up # << >>, up' = Tail(up), ~ EraseIn(up),
         UNCHANGED << job, cursor, rxQueue, link, down, rx, pending, flash >>
  PROVE  Calm'
<1>1. link
  BY DEF LinkSound
<1>2. Shrinks
  BY TailShrinks DEF Shrinks
<1>3. FlashSound' /\ (NoneOf({"erase"}) => NoneOf({"erase"})') /\ (IsErased' <=> IsErased)
  BY <1>2, CalmParts, FlashStays
<1>4. RobotBusy
  BY <1>1 DEF RobotBusy
<1>5. Quiet'
  BY <1>4 DEF Calm, Quiet
<1>6. OneRequest'
  <2> SUFFICES ASSUME job.pc = "verifyWait" PROVE OneRequest'
    BY DEF OneRequest
  <2>1. up = << Fragment(Simple("jedec"), 0) >> /\ pending = NoCommand /\ down = << >>
    BY <1>1 DEF Calm, OneRequest, Silent
  <2>2. up' = << >>
    BY <2>1, ShortSeqs
  <2> QED BY <2>1, <2>2 DEF OneRequest
<1>7. OnePage'
  <2>1. job.pc # "part1"
    BY <1>4 DEF Calm, Quiet
  <2>2. Part(1)' = Part(1) /\ Part(2)' = Part(2) /\ PageCommand' = PageCommand
    BY DEF Part, PageCommand
  <2>3. ASSUME job.pc = "part2" PROVE SentFirst'
    <3>1. up = << Part(1) >> /\ pending = NoCommand /\ Silent /\ Naks(rxQueue)
      BY <1>1, <2>3 DEF Calm, OnePage, SentFirst
    <3>2. up' = << >> /\ Naks(down) /\ Silent'
      BY <3>1, ShortSeqs DEF Silent, Naks
    <3> QED BY <3>1, <3>2 DEF SentFirst
  <2>4. ASSUME job.pc = "await" PROVE SentBoth'
    <3>1. /\ Naks(rxQueue) /\ Naks(down) /\ pending = NoCommand
          /\ \/ up = << Part(1), Part(2) >> /\ Silent
             \/ up = << Part(2) >> /\ (rx.state = "partial" => Silent)
      BY <2>4 DEF Calm, OnePage, SentBoth, Programming, Confirmed, LinkSound
    <3>2. \/ up' = << Part(2) >> /\ Silent
          \/ up' = << >>
      <4>1. CASE up = << Part(1), Part(2) >> /\ Silent
        BY <4>1, ShortSeqs
      <4>2. CASE up = << Part(2) >>
        BY <4>2, ShortSeqs
      <4> QED BY <3>1, <4>1, <4>2
    <3>3. Silent => Silent'
      BY DEF Silent
    <3> QED BY <2>2, <3>1, <3>2, <3>3 DEF SentBoth
  <2> QED BY <2>1, <2>3, <2>4 DEF OnePage
<1>8. EraseSound'
  <2>1. up # << Fragment(Simple("erase"), 0) >>
    BY DEF EraseIn, Fragment, Simple
  <2>2. job.pc # "waitErase"
    BY <2>1 DEF Calm, EraseSound
  <2> QED BY <1>3, <2>2, SamePosition DEF Calm, EraseSound
<1> QED BY <1>3, <1>5, <1>6, <1>7, <1>8, CalmParts DEF Conversation
(* A command is carried out, or fails, and is answered.                    *)
LEMMA CalmCarriedOut ==
  ASSUME TypeOK, LinkSound, Calm, pending # NoCommand, pending' = NoCommand,
         UNCHANGED << job, cursor, rxQueue, link, up, rx >>,
         NEW r \in Responses, down' = Sent(r),
         \/ pending.cmd \in {"jedec", "write"} /\ UNCHANGED flash /\ r # "OK"
         \/ pending.cmd = "write" /\ flash' = Programmed(pending.addr, pending.data) /\ r = "OK"
         \/ pending.cmd = "write" /\ flash' = Interrupted(pending.addr, pending.data) /\ r # "OK"
         \/ pending.cmd = "erase" /\ flash' = Erased(ErasedSectors)
  PROVE  Calm'
<1>1. Shrinks
  BY DEF Shrinks
<1>2. FlashSound'
  BY <1>1, CalmParts, FlashStays, FlashPage, FlashErased
<1>3. DeviceTypeOK
  BY DEF TypeOK
<1>4. link => RobotBusy
  BY DEF RobotBusy
<1>5. Quiet'
  BY <1>4 DEF Calm, Quiet, RobotBusy
<1>6. down = << >> => down' = << >> \/ down' = << r >>
  BY <1>3, SentFacts
<1>7. OneRequest'
  <2> SUFFICES ASSUME job.pc = "verifyWait", link PROVE OneRequest'
    BY DEF OneRequest
  <2>1. up = << >> /\ down = << >> /\ rxQueue = << >>
    BY DEF Calm, OneRequest, Silent
  <2> QED BY <1>6, <2>1 DEF OneRequest
<1>8. OnePage'
  <2>1. ASSUME job.pc = "part1" PROVE rxQueue' = << >>
    BY <2>1 DEF Calm, OnePage
  <2>2. ASSUME job.pc = "part2" PROVE SentFirst'
    BY <2>2 DEF Calm, OnePage, SentFirst
  <2>3. ASSUME job.pc = "await" PROVE SentBoth'
    <3>1. \/ Naks(rxQueue) /\ ~ link
          \/ Programming
      BY <2>3 DEF Calm, OnePage, SentBoth, Confirmed
    <3>2. CASE Naks(rxQueue) /\ ~ link
      BY <3>2 DEF SentBoth
    <3>3. CASE Programming
      <4>1. up = << >> /\ rxQueue' = << >> /\ down = << >> /\ pending.cmd = "write"
        BY <3>3 DEF Programming, Silent, PageCommand, Write
      <4>2. Naks(rxQueue')
        BY <4>1 DEF Naks
      <4>3. CASE down' = << >> \/ r # "OK"
        <5>1. Naks(down')
          BY <1>6, <4>1, <4>3 DEF Naks
        <5> QED BY <4>1, <4>2, <5>1 DEF SentBoth
      <4>4. CASE down' = << "OK" >> /\ r = "OK"
        <5>1. flash' = Programmed(pending.addr, pending.data)
          BY <4>1, <4>4
        <5>2. flash'[job.addr] = Chunk(job.chunk)
          BY <1>1, <4>1, <5>1, CalmParts, FlashPage
        <5>3. Confirmed(down)'
          BY <4>1, <4>4, <5>2 DEF Confirmed
        <5> QED BY <4>1, <5>3 DEF SentBoth
      <4> QED BY <1>6, <4>1, <4>3, <4>4
    <3> QED BY <3>1, <3>2, <3>3
  <2> QED BY <2>1, <2>2, <2>3 DEF OnePage
<1>9. EraseSound'
  <2> SUFFICES ASSUME Erasing PROVE EraseSound'
    BY SamePosition DEF EraseSound, Erasing
  <2>1. pending.cmd # "write" /\ NoCommand.cmd # "erase"
    BY DEF Calm, Stages, NoneOf, NoCommand, Simple
  <2>2. CASE pending.cmd = "erase"
    <3>1. IsErased'
      BY <1>1, <2>2, CalmParts, FlashErased
    <3>2. up = << >>
      BY <2>2 DEF Calm, EraseSound, LinkSound, NoneOf
    <3>3. NoneOf({"erase"})'
      BY <2>1, <3>2 DEF NoneOf
    <3> QED BY <2>1, <3>1, <3>2, <3>3 DEF EraseSound
  <2>3. CASE pending.cmd # "erase"
    <3>1. (IsErased' <=> IsErased) /\ (NoneOf({"erase"}) => NoneOf({"erase"})')
      BY <1>1, <2>1, <2>3, CalmParts, FlashStays
    <3>2. pending # Simple("erase")
      BY <2>3 DEF Simple
    <3>3. CASE job.pc = "waitErase"
      BY <2>1, <3>1, <3>2, <3>3 DEF Calm, EraseSound
    <3>4. CASE job.pc # "waitErase"
      BY <3>1, <3>2, <3>4 DEF Calm, EraseSound
    <3> QED BY <3>3, <3>4
  <2> QED BY <2>2, <2>3
<1> QED BY <1>2, <1>5, <1>7, <1>8, <1>9, CalmParts DEF Conversation

(* The erase takes the link with it.                                       *)
LEMMA CalmEraseDrops ==
  ASSUME TypeOK, LinkSound, Calm, pending' = NoCommand, bl_disconnected,
         UNCHANGED << job, cursor, rxQueue >>, pending.cmd = "erase", flash' = Erased(ErasedSectors)
  PROVE  Calm'
<1>1. ~ link' /\ up' = << >> /\ down' = << >>
  BY Zenon DEF bl_disconnected
<1>2. Shrinks
  BY <1>1 DEF Shrinks
<1>3. FlashSound' /\ IsErased' /\ ~ Before /\ ~ Sending /\ ~ Done
  BY <1>2, CalmParts, FlashErased
<1>4. Quiet' /\ OneRequest'
  BY <1>1 DEF Quiet, OneRequest, RobotBusy
<1>5. OnePage'
  BY <1>3 DEF OnePage, Sending, PagePhase
<1>6. NoneOf({"erase"})' /\ pending'.cmd # "erase"
  BY <1>1 DEF NoneOf, NoCommand, Simple
<1>7. EraseSound'
  BY <1>1, <1>3, <1>6 DEF EraseSound
<1> QED BY <1>3, <1>4, <1>5, <1>7, CalmParts DEF Conversation

(* The robot and the world, in the order of RobotStep and RobotFault.      *)
LEMMA CalmRobot ==
  ASSUME TypeOK, PartsSound, LinkSound, Calm, RobotStep \/ RobotTimeout \/ RobotFault,
         incidents' = {}
  PROVE  Calm'
<1>1. UNCHANGED << job, cursor, rxQueue >>
  BY Zenon DEF RobotStep, RobotTimeout, RobotFault, handlerVars
<1>2. {"OK", "NOK", "JEDEC"} \subseteq Responses
  BY DEF Responses
<1>3. CASE /\ ble_blf_recv
           /\ incidents' = incidents \union
                LostWith(\/ pending.cmd = "erase"
                         \/ Head(up).cmd.cmd = "erase" /\ pending'.cmd # "erase")
  <2>1. Head(up).cmd.cmd = "erase" => pending'.cmd = "erase"
    BY <1>3 DEF LostWith
  <2> QED BY <1>1, <1>3, <2>1, CalmRecv
<1>4. CASE bflb_eflash_loader_cmd_process
  <2>1. pending # NoCommand /\ pending' = NoCommand
    BY <1>4, Zenon DEF bflb_eflash_loader_cmd_process
  <2>2. CASE bflb_eflash_loader_cmd_read_jedec_id
    BY <1>1, <1>2, <2>1, <2>2, CalmCarriedOut DEF bflb_eflash_loader_cmd_read_jedec_id
  <2>3. CASE bflb_eflash_loader_cmd_write_flash
    BY <1>1, <1>2, <2>1, <2>3, CalmCarriedOut DEF bflb_eflash_loader_cmd_write_flash
  <2>4. CASE bflb_eflash_loader_cmd_erase_flash
    <3>1. pending.cmd = "erase" /\ flash' = Erased(ErasedSectors) /\ UNCHANGED rx
      BY <2>4, Zenon DEF bflb_eflash_loader_cmd_erase_flash
    <3>2. CASE bl_disconnected
      BY <1>1, <2>1, <3>1, <3>2, CalmEraseDrops
    <3>3. CASE down' = Sent("OK") /\ UNCHANGED << link, indicate, up >>
      BY <1>1, <1>2, <2>1, <3>1, <3>3, CalmCarriedOut
    <3> QED BY <2>4, <3>2, <3>3, Zenon DEF bflb_eflash_loader_cmd_erase_flash
  <2>5. CASE bflb_eflash_loader_cmd_reset
    <3>1. bl_disconnected /\ UNCHANGED flash /\ pending.cmd = "reset"
      BY <2>5, Zenon DEF bflb_eflash_loader_cmd_reset
    <3> QED BY <1>1, <2>1, <3>1, CalmDrop
  <2> QED BY <1>4, <2>2, <2>3, <2>4, <2>5, Zenon DEF bflb_eflash_loader_cmd_process
<1>5. CASE ble_app_recv /\ incidents' = incidents \union LostWith(EraseIn(up))
  <2>1. ~ EraseIn(up)
    BY <1>5 DEF LostWith
  <2>2. up # << >> /\ UNCHANGED << rx, pending, flash >>
    BY <1>5, Zenon DEF ble_app_recv
  <2>3. CASE bl_disconnected
    BY <1>1, <2>1, <2>2, <2>3, CalmDrop
  <2>4. CASE up' = Tail(up) /\ UNCHANGED << mode, link, indicate, down >>
    BY <1>1, <2>1, <2>2, <2>4, CalmIgnored
  <2> QED BY <1>5, <2>3, <2>4, Zenon DEF ble_app_recv
<1>6. CASE RobotTimeout
  <2>1. UNCHANGED << link, pending, flash, up, down >> /\ rx' = Empty
    BY <1>6, Zenon DEF RobotTimeout, ble_recv_timeout
  <2> QED BY <1>1, <2>1, CalmStays
<1>7. CASE FlashError /\ incidents' = incidents \union LostWith(pending.cmd = "erase")
  <2>1. pending.cmd # "erase"
    BY <1>7 DEF LostWith
  <2>2. /\ pending' = NoCommand /\ down' = Sent("NOK") /\ UNCHANGED << link, up, rx >>
        /\ pending.cmd = "write"
        /\ UNCHANGED flash \/ flash' = Interrupted(pending.addr, pending.data)
    BY <1>7, <2>1, Zenon DEF FlashError
  <2>3. pending # NoCommand
    BY <2>2 DEF NoCommand, Simple
  <2> QED BY <1>1, <1>2, <2>2, <2>3, CalmCarriedOut
<1>8. CASE LinkBreaks /\ incidents' = incidents \union LostWith(EraseIn(up))
  <2>1. ~ EraseIn(up)
    BY <1>8 DEF LostWith
  <2>2. bl_disconnected /\ UNCHANGED << pending, flash >>
    BY <1>8, Zenon DEF LinkBreaks
  <2> QED BY <1>1, <2>1, <2>2, CalmDrop
<1>9. CASE PowerCycle /\ incidents' = incidents \union LostWith(EraseIn(up) \/ pending.cmd = "erase")
  <2>1. ~ EraseIn(up) /\ pending.cmd # "erase"
    BY <1>9 DEF LostWith
  <2>2. /\ bl_disconnected /\ pending' = NoCommand
        /\ \/ UNCHANGED flash
           \/ pending.cmd = "write" /\ flash' = Interrupted(pending.addr, pending.data)
    BY <1>9, <2>1, Zenon DEF PowerCycle
  <2> QED BY <1>1, <2>1, <2>2, CalmDrop
<1>10. CASE BootApp /\ incidents' = incidents \union LostWith(EraseIn(up))
  <2>1. ~ EraseIn(up)
    BY <1>10 DEF LostWith
  <2>2. bl_disconnected /\ UNCHANGED << pending, flash >>
    BY <1>10, Zenon DEF BootApp
  <2> QED BY <1>1, <2>1, <2>2, CalmDrop
<1> QED
  BY <1>3, <1>4, <1>5, <1>6, <1>7, <1>8, <1>9, <1>10, Zenon DEF RobotStep, RobotFault
-------------------------------------------------------------------------------
(* The inductive invariant and the theorems.                               *)

(* An incident is not forgotten.                                           *)
LEMMA IncidentsGrow ==
  ASSUME Next
  PROVE  incidents \subseteq incidents'
<1>1. CASE JobStep
  <2>1. ASSUME NEW f, NEW yes, NEW no, writeRawData(f, yes, no) PROVE incidents \subseteq incidents'
    BY <2>1, Zenon DEF writeRawData
  <2>2. ASSUME Timeout PROVE incidents \subseteq incidents'
    BY <2>2, Zenon DEF Timeout
  <2>3. CASE VerifySend \/ SendMagic \/ eraseFlash \/ SendPart1 \/ SendPart2 \/ systemReset
    BY <2>1, <2>3, Zenon DEF VerifySend, SendMagic, eraseFlash, SendPart1, SendPart2, systemReset
  <2>4. CASE VerifyTimeout \/ EraseWaitTimeout \/ getResponseTimeout \/ PageWaitTimeout
    BY <2>2, <2>4, Zenon DEF VerifyTimeout, EraseWaitTimeout, getResponseTimeout, PageWaitTimeout
  <2>5. CASE BeginPage \/ EraseReconnected
    BY <2>5, Zenon DEF BeginPage, EraseReconnected
  <2>6. CASE \/ CheckConnection \/ DrainAndReconnect \/ AcquireConnection \/ VerifyAnswered
             \/ MakeNewConnection \/ MakeNewDone \/ MakeNewTimeout \/ StartPages
             \/ UnexpectedResponse \/ getResponse \/ PageFailed \/ PageReconnected \/ ReportFailure
    BY <2>6, Zenon DEF CheckConnection, DrainAndReconnect, AcquireConnection, VerifyAnswered,
       MakeNewConnection, MakeNewDone, MakeNewTimeout, StartPages, UnexpectedResponse, getResponse,
       PageFailed, PageReconnected, ReportFailure, envVars
  <2> QED BY <1>1, <2>3, <2>4, <2>5, <2>6, Zenon DEF JobStep
<1>2. CASE Callback
  <2>1. ASSUME retry_connect \/ CloseAndRetry PROVE incidents \subseteq incidents'
    BY <2>1, Zenon DEF retry_connect, CloseAndRetry, ServiceDisconnect, HandlerDisconnected
  <2>2. CASE ConnectionLost \/ ConnectionError \/ ConnectFails \/ DiscoveryFails
    BY <2>1, <2>2, Zenon DEF ConnectionLost, ConnectionError, ConnectFails, DiscoveryFails
  <2>3. CASE Connected \/ onServicesDiscovered \/ onDescriptorWrite \/ onResponse
    BY <2>3, Zenon DEF Connected, onServicesDiscovered, onDescriptorWrite, onResponse, envVars
  <2> QED BY <1>2, <2>2, <2>3, Zenon DEF Callback
<1>3. CASE RobotStep \/ RobotTimeout \/ RobotFault
  BY <1>3, Zenon DEF RobotStep, RobotTimeout, RobotFault, envVars
<1> QED BY <1>1, <1>2, <1>3, Zenon DEF Next

(* The inductive invariant holds initially ...                             *)
LEMMA InitInv == Init => IInv
<1> SUFFICES ASSUME Init PROVE IInv
  OBVIOUS
<1>1. TypeOK
  BY InitTypes
<1>2. job.pc = "check" /\ job.call = 1 /\ up = << >> /\ down = << >> /\ pending = NoCommand
      /\ flash = [a \in Addresses |-> Old] /\ link = TRUE /\ handles = TRUE /\ gatt = "connected"
  BY DEF Init, DeviceInit, ServiceInit
<1>3. ~ Erasing /\ ~ Done /\ ~ Sending
  BY <1>2 DEF Erasing, Done, Sending, Verifying, PagePhase
<1>4. Counters
  BY <1>2, <1>3 DEF Counters, Verifying
<1>5. LinkSound /\ PartsSound
  BY <1>2 DEF LinkSound, PartsSound
<1>6. NoneOf({"write", "erase"}) /\ WritesSound
  BY <1>2 DEF NoneOf, WritesSound, NoCommand, Simple
<1>7. Quiet
  BY <1>2 DEF Quiet, RobotBusy
<1>8. OneRequest /\ OnePage /\ EraseSound /\ PagesSound
  BY <1>2, <1>3 DEF OneRequest, OnePage, EraseSound, PagesSound
<1>9. Stages /\ Placed
  BY <1>2, <1>3, <1>6 DEF Stages, Placed
<1> QED BY <1>1, <1>4, <1>5, <1>6, <1>7, <1>8, <1>9 DEF IInv, Undisturbed, Calm

(* ... and every step keeps it.                                            *)
LEMMA NextInv == IInv /\ [Next]_vars => IInv'
<1> SUFFICES ASSUME IInv, [Next]_vars PROVE IInv'
  OBVIOUS
<1>0. TypeOK /\ Counters /\ LinkSound /\ PartsSound /\ Undisturbed
  BY DEF IInv
<1>1. CASE Next
  <2>1. TypeOK' /\ Counters'
    BY <1>0, <1>1, JobTypes, CallbackTypes, RobotTypes, JobCounts, OtherCounts DEF Next
  <2>2. LinkSound'
    BY <1>0, <1>1, JobLink, CallbackLink, RobotLink DEF Next
  <2>3. PartsSound'
    <3>1. up' \in Seq(Fragments)
      BY <2>1 DEF TypeOK, DeviceTypeOK
    <3> QED BY <1>0, <1>1, <3>1, NextParts
  <2>4. ASSUME incidents' = {} PROVE Calm'
    <3>1. Calm
      BY <1>0, <1>1, <2>4, IncidentsGrow DEF Undisturbed
    <3> QED BY <1>0, <1>1, <2>4, <3>1, CalmJob, CalmCallback, CalmRobot DEF Next
  <2> QED BY <2>1, <2>2, <2>3, <2>4 DEF IInv, Undisturbed
<1>2. CASE UNCHANGED vars
  <2>1. UNCHANGED << devVars, svcVars, handlerVars, envVars >>
    BY <1>2 DEF vars
  <2>2. UNCHANGED << job, cursor, rxQueue, faults, incidents >>
        /\ UNCHANGED << link, rx, pending, flash, up, down >>
        /\ UNCHANGED << gatt, handles >>
    BY <2>1 DEF devVars, svcVars, handlerVars, envVars
  <2>3. TypeOK'
    <3>1. DeviceTypeOK' /\ ServiceTypeOK'
      BY <1>0, <2>1, DeviceStays, ServiceStays
    <3>2. HandlerTypeOK' /\ EnvTypeOK'
      BY <1>0, <2>2 DEF TypeOK, HandlerTypeOK, EnvTypeOK
    <3> QED BY <3>1, <3>2, TypesJoin
  <2>4. Counters'
    BY <1>0, <2>2 DEF Counters, Sending, Verifying, PagePhase
  <2>5. LinkSound' /\ PartsSound'
    BY <1>0, <2>2 DEF LinkSound, PartsSound
  <2>6. Undisturbed'
    BY <1>0, <2>2, CalmStays DEF Undisturbed
  <2> QED BY <2>3, <2>4, <2>5, <2>6 DEF IInv
<1> QED BY <1>1, <1>2

(* The type invariant holds for every image, every limit of the retries    *)
(* and every number of faults.                                             *)
THEOREM TypeCorrect == Spec => []TypeOK
<1>1. IInv => TypeOK
  BY DEF IInv
<1> QED BY <1>1, InitInv, NextInv, PTL DEF Spec

(* Retries, reconnections and power failures never put a chunk where it    *)
(* does not belong: sendOnePage's two fragments are only ever joined with  *)
(* each other, and a page is acknowledged once.                            *)
THEOREM ChunksInPlace == Spec => []RightPlace
<1>1. IInv => RightPlace
  BY DEF IInv, Undisturbed, Calm, Placed, RightPlace
<1> QED BY <1>1, InitInv, NextInv, PTL DEF Spec

(* onStartUpdatingFirmware reports COMPLETE only when every chunk of the   *)
(* image is in the robot's flash, or one of the incidents has happened.    *)
THEOREM CompleteIsProgrammed == Spec => []CompleteMeansProgrammed
<1>1. IInv => CompleteMeansProgrammed
  BY DEF IInv, Undisturbed, Calm, Stages, Done, CompleteMeansProgrammed, At
<1> QED BY <1>1, InitInv, NextInv, PTL DEF Spec
===============================================================================
