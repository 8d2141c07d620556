--------------------------- MODULE FirmwareChooser ---------------------------
(***************************************************************************)
(* How the phone comes by the file it programs into a robot: the screens   *)
(* of MainActivity, the view model's two coroutines (fetching the list of  *)
(* firmwares, loading the one chosen), the caches of FirmwareFetcherImpl,  *)
(* the server, and the file firmwarewbootheader.bin that the view model    *)
(* writes on an I/O thread and the update job reads.                       *)
(*                                                                         *)
(* The coroutines run on the main thread, so a step reaches from one       *)
(* suspension point to the next.  A device name is known by the product    *)
(* whose prefix it contains, a firmware image is a pair <<product, name>>, *)
(* and a list of firmwares is known by the product whose server path it    *)
(* came from.  Screens are recomposed between two taps.                    *)
(***************************************************************************)
EXTENDS Integers

CONSTANTS
  Products,   \* the products the app knows, by the prefix of the device name
  Names,      \* names (urls) of firmware files
  Listed,     \* Listed[p]: the names in product p's firmware_list.json
  TooBig,     \* images that do not fit FLASH_TOTAL_SIZE
  Fetches     \* coroutines that may be fetching a list at the same time

None == "none"
NoName == "-"

ASSUME ChooserAssumption ==
  /\ Listed \in [Products -> SUBSET Names]
  /\ TooBig \subseteq Products \X Names
  /\ None \notin Products \cup Names
  /\ NoName \notin Products /\ "idle" \notin Products

VARIABLES
  robot,          \* product of the connected robot, or None
  named,          \* its name was read (GattConnectionState.Connected.deviceName)
  RobotName,      \* the view model's copy of that name
  robotBLEModel,  \* a robot model was set in the view model (BL702, the only one)
  depth,          \* back stack: 1 scanner, 2 connected, 3 chooser, 0 blank
  listUi,         \* _firmwareFilesListUiState
  fileUi,         \* _firmwareFileUiState
  closeChooser,   \* _closeFirmwareChooser
  PreDevName, availableFirmwaresCache, firmwareDataCache,   \* FirmwareFetcherImpl
  fetch,          \* per list coroutine: where it is
  load,           \* the coroutine that loads a firmware
  file,           \* firmwarewbootheader.bin
  restored        \* the chooser on top was brought back by the system (ghost)

link == <<robot, named, robotBLEModel>>
fetcher == <<PreDevName, availableFirmwaresCache, firmwareDataCache>>
ui == <<RobotName, depth, listUi, fileUi, closeChooser>>
vars == <<link, ui, fetcher, fetch, load, file, restored>>

NoFile == <<None, None>>          \* no firmwarewbootheader.bin
Partial == <<"partial", None>>    \* a file that is not written to its end
Idle == [step |-> "idle", image |-> NoFile]

NoList == [loading |-> FALSE, error |-> FALSE, data |-> None]
NoFirmware == [loading |-> FALSE, error |-> FALSE, name |-> None]

Init ==
  /\ robot = None /\ named = FALSE /\ robotBLEModel = FALSE
  /\ RobotName = NoName /\ depth = 1 /\ closeChooser = FALSE
  /\ listUi = NoList /\ fileUi = NoFirmware
  /\ PreDevName = NoName /\ availableFirmwaresCache = None
  /\ firmwareDataCache = [n \in Names |-> None]
  /\ fetch = [i \in Fetches |-> "idle"] /\ load = Idle
  /\ file = NoFile /\ restored = FALSE

(***************************************************************************)
(* The connection, as the screens see it                                   *)
(***************************************************************************)

\* A device is tapped in the scanner.
Connect(p) ==
  /\ depth = 1
  /\ depth' = 2
  /\ \/ robot' = p /\ named' = FALSE
     \/ robot = p /\ UNCHANGED <<robot, named>>     \* the address is connected already
  /\ UNCHANGED <<robotBLEModel, RobotName, listUi, fileUi, closeChooser,
                 fetcher, fetch, load, file, restored>>

onDeviceNameRead ==
  /\ robot # None /\ ~named
  /\ named' = TRUE
  /\ robotBLEModel' = TRUE
  /\ UNCHANGED <<robot, ui, fetcher, fetch, load, file, restored>>

\* The link is lost and made again: the name has to be read again.
LinkLost ==
  /\ named
  /\ named' = FALSE
  /\ UNCHANGED <<robot, robotBLEModel, ui, fetcher, fetch, load, file, restored>>

(***************************************************************************)
(* Taps on the connected screen and in the chooser                         *)
(***************************************************************************)
setRobotName == RobotName' = IF named THEN robot ELSE NoName

\* The menu items Disconnect and Scanner.
Leave ==
  /\ depth = 2
  /\ setRobotName
  /\ depth' = 1
  /\ robot' = None /\ named' = FALSE
  /\ UNCHANGED <<robotBLEModel, listUi, fileUi, closeChooser, fetcher, fetch,
                 load, file, restored>>

\* The system's Back on the connected screen: the robot stays connected.
Back ==
  /\ depth = 2
  /\ depth' = 1
  /\ UNCHANGED <<link, RobotName, listUi, fileUi, closeChooser, fetcher,
                 fetch, load, file, restored>>

\* Start fetching the list: up to delay(1_000).
fetchFirmwareFiles ==
  /\ setRobotName
  /\ \E i \in Fetches : /\ fetch[i] = "idle"
                        /\ fetch' = [fetch EXCEPT ![i] = "delay"]
  /\ listUi' = [listUi EXCEPT !.loading = TRUE, !.error = FALSE]
  /\ UNCHANGED <<link, fileUi, closeChooser, fetcher, load, file, restored>>

ChooseFirmware == depth = 2 /\ depth' = 3 /\ fetchFirmwareFiles

\* What the chooser shows.
Loading == listUi.loading \/ fileUi.loading
ShowsError == ~Loading /\ (listUi.error \/ fileUi.error)
ShowsList == ~Loading /\ ~ShowsError
DataMissing == depth = 3 /\ ShowsList /\ listUi.data = None

\* The button of the error display.
Retry == depth = 3 /\ ShowsError /\ ~closeChooser
         /\ UNCHANGED depth /\ fetchFirmwareFiles

Cancel ==
  /\ depth = 3 /\ ~DataMissing
  /\ depth' = 2
  /\ UNCHANGED <<link, RobotName, listUi, fileUi, closeChooser, fetcher,
                 fetch, load, file, restored>>

\* A firmware of the list is tapped: loadFirmware up to the request, or, with
\* a cached image, up to the I/O thread.
FirmwareChosen(n) ==
  /\ depth = 3 /\ ShowsList /\ ~closeChooser
  /\ listUi.data # None /\ n \in Listed[listUi.data]
  /\ load = Idle
  /\ fileUi' = [fileUi EXCEPT !.loading = TRUE, !.error = FALSE]
  /\ load' = IF firmwareDataCache[n] = None
             THEN [step |-> "request", image |-> <<PreDevName, n>>]
             ELSE [step |-> "create", image |-> <<firmwareDataCache[n], n>>]
  /\ UNCHANGED <<link, RobotName, depth, listUi, closeChooser, fetcher,
                 fetch, file, restored>>

\* mutant: choosing a firmware and closing the chooser pop a screen each
Compose_PopsTwo ==
  /\ closeChooser
  /\ closeChooser' = FALSE
  /\ depth' = depth - 2
  /\ UNCHANGED <<link, RobotName, listUi, fileUi, fetcher, fetch, load, file, restored>>

\* closeFirmwareChooser is seen by the next composition, which pops whatever
\* screen is on top.
Compose ==
  /\ closeChooser
  /\ closeChooser' = FALSE
  /\ depth' = depth - 1
  /\ UNCHANGED <<link, RobotName, listUi, fileUi, fetcher, fetch, load, file, restored>>

\* The menu item Update Firmware needs no firmware name on the screen; the
\* update job then reads whatever is in the file.
ReadsFile == depth = 2 /\ robot # None /\ file # NoFile
UpdateFirmware ==
  /\ ReadsFile
  /\ setRobotName
  /\ UNCHANGED <<link, depth, listUi, fileUi, closeChooser, fetcher, fetch,
                 load, file, restored>>

(***************************************************************************)
(* The list of firmwares                                                   *)
(***************************************************************************)
ShowProduct(p) ==
  listUi' = IF robotBLEModel
            THEN [loading |-> FALSE, error |-> FALSE, data |-> p]
            ELSE [loading |-> FALSE, error |-> TRUE, data |-> None]

\* mutant: no message is set
ShowFailure_Silent == listUi' = NoList

ShowFailure == listUi' = [loading |-> FALSE, error |-> TRUE, data |-> None]

\* fetchAvailableFirmwares, up to the request.
fetchAvailableFirmwares(i) ==
  /\ fetch[i] = "delay"
  /\ IF PreDevName = RobotName /\ RobotName # NoName /\ availableFirmwaresCache # None
     THEN /\ ShowProduct(availableFirmwaresCache)
          /\ fetch' = [fetch EXCEPT ![i] = "idle"]
          /\ UNCHANGED PreDevName
     ELSE /\ PreDevName' = RobotName
          /\ fetch' = [fetch EXCEPT ![i] = RobotName]
          /\ UNCHANGED listUi
  /\ UNCHANGED <<link, RobotName, depth, fileUi, closeChooser, load, file,
                 availableFirmwaresCache, firmwareDataCache, restored>>

\* The server's answer, or the failure; without a known name there is no host.
ListAnswered(i) ==
  /\ fetch[i] \in Products \cup {NoName}
  /\ fetch' = [fetch EXCEPT ![i] = "idle"]
  /\ \/ /\ fetch[i] \in Products
        /\ availableFirmwaresCache' = fetch[i]
        /\ ShowProduct(fetch[i])
     \/ ShowFailure /\ UNCHANGED availableFirmwaresCache
  /\ UNCHANGED <<link, RobotName, depth, fileUi, closeChooser, PreDevName,
                 firmwareDataCache, load, file, restored>>

(***************************************************************************)
(* The firmware chosen                                                     *)
(***************************************************************************)
\* mutant: the failure leaves the loading display on
LoadFailed_KeepsLoading ==
  /\ load' = Idle
  /\ fileUi' = [fileUi EXCEPT !.error = TRUE]
  /\ closeChooser' = TRUE

LoadFailed ==
  /\ load' = Idle
  /\ fileUi' = [fileUi EXCEPT !.loading = FALSE, !.error = TRUE]
  /\ closeChooser' = TRUE

\* The server has the file under the product's path, or answers 404.
FirmwareAnswered ==
  /\ load.step = "request"
  /\ \/ /\ load.image[1] \in Products /\ load.image[2] \in Listed[load.image[1]]
        /\ firmwareDataCache' = [firmwareDataCache EXCEPT ![load.image[2]] = load.image[1]]
        /\ load' = [load EXCEPT !.step = "create"]
        /\ UNCHANGED <<fileUi, closeChooser>>
     \/ LoadFailed /\ UNCHANGED firmwareDataCache
  /\ UNCHANGED <<link, RobotName, depth, listUi, PreDevName,
                 availableFirmwaresCache, fetch, file, restored>>

\* mutant: the old file is deleted before the size is checked
Create_DeletesFirst ==
  /\ load.step = "create"
  /\ IF load.image \in TooBig
     THEN load' = [load EXCEPT !.step = "rejected"] /\ file' = NoFile
     ELSE load' = [load EXCEPT !.step = "write"] /\ file' = Partial
  /\ UNCHANGED <<link, ui, fetcher, fetch, restored>>

\* FinalFirmwareCreator.create on the I/O thread: header, padding, size; the
\* old file is deleted and the new one is being written.
Create ==
  /\ load.step = "create"
  /\ IF load.image \in TooBig
     THEN load' = [load EXCEPT !.step = "rejected"] /\ UNCHANGED file
     ELSE load' = [load EXCEPT !.step = "write"] /\ file' = Partial
  /\ UNCHANGED <<link, ui, fetcher, fetch, restored>>

Written ==
  /\ load.step = "write"
  /\ file' = load.image
  /\ load' = [load EXCEPT !.step = "created"]
  /\ UNCHANGED <<link, ui, fetcher, fetch, restored>>

\* loadFirmware goes on, on the main thread.
Loaded ==
  /\ \/ /\ load.step = "created"
        /\ load' = Idle
        /\ fileUi' = [loading |-> FALSE, error |-> FALSE, name |-> load.image[2]]
        /\ closeChooser' = TRUE
     \/ load.step = "rejected" /\ LoadFailed
  /\ UNCHANGED <<link, RobotName, depth, listUi, fetcher, fetch, file, restored>>

\* The process ends and the app is started again on one of the given screens.
\* Only the file is kept: the system may bring back the screens, never the view
\* model, so a chooser it brings back has no list.
ProcessEnds(screens) ==
  /\ depth' \in screens /\ restored' = (depth' = 3)
  /\ robot' = None /\ named' = FALSE /\ robotBLEModel' = FALSE
  /\ RobotName' = NoName /\ closeChooser' = FALSE
  /\ listUi' = NoList /\ fileUi' = NoFirmware
  /\ PreDevName' = NoName /\ availableFirmwaresCache' = None
  /\ firmwareDataCache' = [n \in Names |-> None]
  /\ fetch' = [i \in Fetches |-> "idle"] /\ load' = Idle
  /\ UNCHANGED file

\* Killed in the background, or an exception of the network or of the file
\* system that no handler catches.
AppDies == ProcessEnds({1, depth})

\* The composition of a chooser without its list throws at data!!, before
\* anything can be tapped, and the app is started afresh.
RobotUiThrows == DataMissing /\ ProcessEnds({1})

Next ==
  \/ \E p \in Products : Connect(p)
  \/ onDeviceNameRead \/ LinkLost \/ Leave \/ Back
  \/ ChooseFirmware \/ Retry \/ Cancel \/ UpdateFirmware \/ Compose
  \/ \E n \in Names : FirmwareChosen(n)
  \/ \E i \in Fetches : fetchAvailableFirmwares(i) \/ ListAnswered(i)
  \/ FirmwareAnswered \/ Create \/ Written \/ Loaded
  \/ AppDies \/ RobotUiThrows

\* Timers fire, requests end (answered or failed), threads and frames go on.
Progress ==
  /\ \A i \in Fetches : WF_vars(fetchAvailableFirmwares(i)) /\ WF_vars(ListAnswered(i))
  /\ WF_vars(FirmwareAnswered) /\ WF_vars(Create) /\ WF_vars(Written)
  /\ WF_vars(Loaded) /\ WF_vars(Compose)

Spec == Init /\ [][Next]_vars /\ Progress

(***************************************************************************)
(* Properties                                                              *)
(***************************************************************************)
TypeOK ==
  /\ robot \in Products \cup {None} /\ named \in BOOLEAN /\ robotBLEModel \in BOOLEAN
  /\ {RobotName, PreDevName} \subseteq Products \cup {NoName}
  /\ depth \in 0..3 /\ closeChooser \in BOOLEAN
  /\ listUi \in [loading : BOOLEAN, error : BOOLEAN, data : Products \cup {None}]
  /\ fileUi \in [loading : BOOLEAN, error : BOOLEAN, name : Names \cup {None}]
  /\ availableFirmwaresCache \in Products \cup {None}
  /\ firmwareDataCache \in [Names -> Products \cup {None}]
  /\ fetch \in [Fetches -> Products \cup {"idle", "delay", NoName}]
  /\ load.step \in {"idle", "request", "create", "write", "created", "rejected"}
  /\ load.image \in ((Products \cup {NoName}) \X Names) \cup {NoFile}
  /\ file \in (Products \X Names) \cup {NoFile, Partial} /\ restored \in BOOLEAN

\* The name on the connected screen (_firmwareFileUiState.name) is the name of
\* the image in firmwarewbootheader.bin, also after loads that failed, were
\* rejected as too big, or served from the cache; only while create is
\* replacing the file may the two differ.
ShownIsFile ==
  fileUi.name # None /\ load.step \notin {"write", "created"} => file[2] = fileUi.name

\* RobotUi(robot = firmwareFilesUiState.data!!): a chooser that the user opened
\* never shows a list that is not there, whichever fetches ended or failed
\* since.  data!! throws (RobotUiThrows) in one case only: the system brought
\* the chooser back after the process had ended.
ChooserHasData == DataMissing <=> restored

\* A chooser that shows "Loading" stops doing so, however often it was opened
\* and cancelled in between.
LoadingEnds == Loading ~> ~Loading
=============================================================================
