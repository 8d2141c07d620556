------------------------ MODULE FirmwareChooserProofs ------------------------
(***************************************************************************)
(* The name on the screen is that of the image in the file, for any        *)
(* products, servers and number of list fetches, and whichever screens the *)
(* system restores.  The property is inductive together with               *)
(* CreatedSound: between the end of create on the I/O thread and the       *)
(* resumption of loadFirmware nobody touches the file, since the chooser   *)
(* admits one load at a time.                                              *)
(***************************************************************************)
EXTENDS FirmwareChooser, TLAPS

Shapes ==
  /\ fileUi = [loading |-> fileUi.loading, error |-> fileUi.error, name |-> fileUi.name]
  /\ load = [step |-> load.step, image |-> load.image]

CreatedSound == load.step = "created" => file = load.image

IInv == Shapes /\ CreatedSound /\ ShownIsFile

(* Initially no name is shown and nothing is being loaded.                 *)
LEMMA InitSound == Init => IInv
  BY DEF Init, IInv, Shapes, CreatedSound, ShownIsFile, NoFirmware, Idle

(* The steps that leave the file, the load and the name shown alone.       *)
LEMMA Untouched ==
  ASSUME IInv, UNCHANGED <<fileUi, load, file>>
  PROVE  IInv'
  BY DEF IInv, Shapes, CreatedSound, ShownIsFile

(* A failed load keeps the name and the file it belongs to.                *)
LEMMA FailureKeeps ==
  ASSUME IInv, LoadFailed, UNCHANGED file, load.step \in {"request", "rejected"}
  PROVE  IInv'
  BY DEF IInv, Shapes, CreatedSound, ShownIsFile, LoadFailed, Idle

(* Every step of the screens, the coroutines and the I/O thread, and the   *)
(* end of the process, keep the invariant.                                 *)
LEMMA StepSound == IInv /\ [Next]_vars => IInv'
<1> SUFFICES ASSUME IInv, [Next]_vars PROVE IInv'
  OBVIOUS
<1>1. ASSUME NEW p \in Products, Connect(p) PROVE IInv'
  BY <1>1, Untouched DEF Connect
<1>2. CASE onDeviceNameRead \/ LinkLost
  BY <1>2, Untouched DEF onDeviceNameRead, LinkLost, ui
<1>3. CASE Leave \/ Back \/ Cancel \/ Compose \/ UpdateFirmware
  BY <1>3, Untouched DEF Leave, Back, Cancel, Compose, UpdateFirmware
<1>4. CASE ChooseFirmware \/ Retry
  BY <1>4, Untouched DEF ChooseFirmware, Retry, fetchFirmwareFiles
<1>5. ASSUME NEW n \in Names, FirmwareChosen(n) PROVE IInv'
  BY <1>5 DEF FirmwareChosen, IInv, Shapes, CreatedSound, ShownIsFile, Idle
<1>6. ASSUME NEW i \in Fetches, fetchAvailableFirmwares(i) \/ ListAnswered(i) PROVE IInv'
  BY <1>6, Untouched DEF fetchAvailableFirmwares, ListAnswered
<1>7. CASE FirmwareAnswered
  <2>1. CASE LoadFailed
    BY <1>7, <2>1, FailureKeeps DEF FirmwareAnswered
  <2>2. CASE load' = [load EXCEPT !.step = "create"] /\ UNCHANGED <<fileUi, closeChooser>>
    BY <1>7, <2>2 DEF FirmwareAnswered, IInv, Shapes, CreatedSound, ShownIsFile
  <2> QED BY <1>7, <2>1, <2>2 DEF FirmwareAnswered
<1>8. CASE Create
  BY <1>8 DEF Create, ui, IInv, Shapes, CreatedSound, ShownIsFile
<1>9. CASE Written
  BY <1>9 DEF Written, ui, IInv, Shapes, CreatedSound, ShownIsFile
<1>10. CASE Loaded
  <2>1. CASE load.step = "rejected" /\ LoadFailed
    BY <1>10, <2>1, FailureKeeps DEF Loaded
  <2>2. CASE /\ load.step = "created" /\ load' = Idle
             /\ fileUi' = [loading |-> FALSE, error |-> FALSE, name |-> load.image[2]]
    BY <1>10, <2>2 DEF Loaded, IInv, Shapes, CreatedSound, ShownIsFile, Idle
  <2> QED BY <1>10, <2>1, <2>2 DEF Loaded
<1>11. CASE AppDies \/ RobotUiThrows
  BY <1>11 DEF AppDies, RobotUiThrows, ProcessEnds, IInv, Shapes, CreatedSound, ShownIsFile, NoFirmware, Idle
<1>12. CASE UNCHANGED vars
  BY <1>12, Untouched DEF vars, ui
<1> QED BY <1>1, <1>2, <1>3, <1>4, <1>5, <1>6, <1>7, <1>8, <1>9, <1>10, <1>11, <1>12 DEF Next

(* Whatever loads fail, are rejected or come from the cache, and whenever  *)
(* the app dies: the name shown is the name of the image in the file.      *)
THEOREM NameMatchesFile == Spec => []ShownIsFile
<1>1. IInv => ShownIsFile BY DEF IInv
<1> QED BY <1>1, InitSound, StepSound, PTL DEF Spec
-----------------------------------------------------------------------------
(* Type correctness.  A composition pops the screen on top, and never one  *)
(* from an empty stack: a load that ends closes the chooser once, and no   *)
(* other load is under way by then.                                        *)
Named == named => robot # None
OneLoad ==
  /\ load # Idle => ~closeChooser
  /\ depth = 0 => ~closeChooser /\ load = Idle
LoadSound ==
  load.step \in {"create", "write", "created", "rejected"} => load.image \in Products \X Names

(* In a chooser that the user opened something can be shown: the progress  *)
(* display, an error, or a list.                                           *)
HasData == depth = 3 => listUi.loading \/ listUi.error \/ listUi.data # None \/ restored

TInv == TypeOK /\ Shapes /\ Named /\ OneLoad /\ LoadSound /\ HasData

(* The chooser's parts of the type invariant.                              *)
LinkTypes == robot \in Products \cup {None} /\ named \in BOOLEAN /\ robotBLEModel \in BOOLEAN
ScreenTypes ==
  /\ depth \in 0..3 /\ closeChooser \in BOOLEAN /\ restored \in BOOLEAN
  /\ fileUi \in [loading : BOOLEAN, error : BOOLEAN, name : Names \cup {None}]
ListTypes ==
  /\ {RobotName, PreDevName} \subseteq Products \cup {NoName}
  /\ listUi \in [loading : BOOLEAN, error : BOOLEAN, data : Products \cup {None}]
  /\ availableFirmwaresCache \in Products \cup {None}
  /\ fetch \in [Fetches -> Products \cup {"idle", "delay", NoName}]
LoadTypes ==
  /\ firmwareDataCache \in [Names -> Products \cup {None}]
  /\ load.step \in {"idle", "request", "create", "write", "created", "rejected"}
  /\ load.image \in ((Products \cup {NoName}) \X Names) \cup {NoFile}
  /\ file \in (Products \X Names) \cup {NoFile, Partial}

(* TypeOK in this state and in the next one is the four parts together.    *)
LEMMA TypeParts ==
  /\ TypeOK <=> LinkTypes /\ ScreenTypes /\ ListTypes /\ LoadTypes
  /\ TypeOK' <=> LinkTypes' /\ ScreenTypes' /\ ListTypes' /\ LoadTypes'
  BY DEF TypeOK, LinkTypes, ScreenTypes, ListTypes, LoadTypes

(* The state of the display that shows no firmware.                        *)
LEMMA NoFirmwareType ==
  NoFirmware \in [loading : BOOLEAN, error : BOOLEAN, name : Names \cup {None}]
  BY DEF NoFirmware

(* Initially there is a scanner and nothing else.                          *)
LEMMA InitTyped == Init => TInv
<1> SUFFICES ASSUME Init PROVE TInv
  OBVIOUS
<1>1. LinkTypes /\ ScreenTypes /\ ListTypes /\ LoadTypes
  <2>1. LinkTypes /\ ScreenTypes
    <3>1. 1 \in 0..3
      OBVIOUS
    <3> QED BY <3>1, NoFirmwareType, Zenon DEF Init, LinkTypes, ScreenTypes
  <2>2. ListTypes
    BY DEF Init, ListTypes, NoList
  <2>3. LoadTypes
    BY DEF Init, LoadTypes, Idle
  <2> QED BY <2>1, <2>2, <2>3
<1>2. Shapes /\ Named /\ OneLoad /\ LoadSound /\ HasData
  BY DEF Init, Shapes, Named, OneLoad, LoadSound, HasData, NoFirmware, Idle
<1> QED BY <1>1, <1>2, TypeParts DEF TInv

(* Steps that leave the load and its results alone.                        *)
LEMMA NoLoading ==
  ASSUME TInv, UNCHANGED <<fileUi, load, file, firmwareDataCache>>
  PROVE  LoadTypes' /\ Shapes' /\ LoadSound'
  BY DEF TInv, TypeOK, LoadTypes, Shapes, LoadSound

(* Steps that leave the lists alone.                                       *)
LEMMA NoListing ==
  ASSUME TInv, UNCHANGED <<RobotName, PreDevName, listUi, availableFirmwaresCache, fetch>>
  PROVE  ListTypes'
  BY DEF TInv, TypeOK, ListTypes

(* setRobotName gives the name of a product or none.                       *)
LEMMA RobotNameType ==
  ASSUME TInv, setRobotName
  PROVE  RobotName' \in Products \cup {NoName}
  BY DEF TInv, TypeOK, Named, setRobotName

(* The connection and the taps.                                            *)
LEMMA TapsTyped ==
  ASSUME TInv,
         \/ \E p \in Products : Connect(p)
         \/ onDeviceNameRead \/ LinkLost \/ Leave \/ Back \/ Cancel \/ UpdateFirmware \/ Compose
  PROVE  TInv'
<1>1. UNCHANGED <<fileUi, load, file, firmwareDataCache, PreDevName, listUi,
                  availableFirmwaresCache, fetch, restored>>
  BY DEF Connect, onDeviceNameRead, LinkLost, Leave, Back, Cancel, UpdateFirmware, Compose, ui,
         fetcher
<1>2. LoadTypes' /\ Shapes' /\ LoadSound'
  BY <1>1, NoLoading
<1>3. ListTypes'
  <2>1. RobotName' = RobotName \/ setRobotName
    BY DEF Connect, onDeviceNameRead, LinkLost, Leave, Back, Cancel, UpdateFirmware, Compose, ui
  <2> QED BY <1>1, <2>1, RobotNameType DEF TInv, TypeOK, ListTypes
<1>4. ScreenTypes' /\ OneLoad' /\ HasData'
  <2>1. CASE Compose
    <3>1. depth # 0 /\ load = Idle /\ depth \in 0..3
      BY <2>1 DEF Compose, TInv, OneLoad, TypeOK
    <3>2. depth' \in 0..3 /\ depth' # 3
      BY <2>1, <3>1 DEF Compose
    <3> QED BY <1>1, <2>1, <3>1, <3>2 DEF Compose, TInv, TypeOK, ScreenTypes, OneLoad, HasData
  <2>2. CASE depth' \in {1, 2} /\ UNCHANGED closeChooser
    BY <1>1, <2>2 DEF TInv, TypeOK, ScreenTypes, OneLoad, HasData
  <2>3. CASE UNCHANGED <<depth, closeChooser>>
    BY <1>1, <2>3 DEF TInv, TypeOK, ScreenTypes, OneLoad, HasData
  <2> QED BY <2>1, <2>2, <2>3 DEF Connect, onDeviceNameRead, LinkLost, Leave, Back,
                                  Cancel, UpdateFirmware, ui
<1>5. LinkTypes' /\ Named'
  <2>1. ASSUME NEW p \in Products, Connect(p) PROVE LinkTypes' /\ Named'
    BY <2>1, ChooserAssumption DEF Connect, TInv, TypeOK, LinkTypes, Named
  <2>2. CASE onDeviceNameRead \/ LinkLost \/ Leave
    BY <2>2 DEF onDeviceNameRead, LinkLost, Leave, TInv, TypeOK, LinkTypes, Named
  <2>3. CASE Back \/ Cancel \/ UpdateFirmware \/ Compose
    BY <2>3 DEF Back, Cancel, UpdateFirmware, Compose, link, TInv, TypeOK, LinkTypes, Named
  <2> QED BY <2>1, <2>2, <2>3
<1> QED BY <1>2, <1>3, <1>4, <1>5, TypeParts DEF TInv

(* The coroutines that fetch a list.                                       *)
LEMMA ListsTyped ==
  ASSUME TInv,
         \/ ChooseFirmware \/ Retry
         \/ \E i \in Fetches : fetchAvailableFirmwares(i) \/ ListAnswered(i)
  PROVE  TInv'
<1>1. UNCHANGED <<link, fileUi, load, file, firmwareDataCache, closeChooser, restored>>
  BY DEF ChooseFirmware, Retry, fetchFirmwareFiles, fetchAvailableFirmwares, ListAnswered, fetcher
<1>2. LoadTypes' /\ Shapes' /\ LoadSound'
  BY <1>1, NoLoading
<1>3. LinkTypes' /\ Named'
  BY <1>1 DEF TInv, TypeOK, LinkTypes, Named, link
<1>4. ASSUME NEW p \in Products, ShowProduct(p)
      PROVE  /\ listUi' \in [loading : BOOLEAN, error : BOOLEAN, data : Products \cup {None}]
             /\ listUi'.error \/ listUi'.data # None
  BY <1>4, ChooserAssumption DEF ShowProduct
<1>5. CASE ChooseFirmware \/ Retry
  <2>1. RobotName' \in Products \cup {NoName}
    BY <1>5, RobotNameType DEF ChooseFirmware, Retry, fetchFirmwareFiles
  <2>2. depth' = 3 /\ listUi' = [listUi EXCEPT !.loading = TRUE, !.error = FALSE]
        /\ UNCHANGED <<PreDevName, availableFirmwaresCache>>
    BY <1>5 DEF ChooseFirmware, Retry, fetchFirmwareFiles, fetcher
  <2>3. listUi' \in [loading : BOOLEAN, error : BOOLEAN, data : Products \cup {None}]
        /\ listUi'.loading
    BY <2>2 DEF TInv, TypeOK
  <2>4. fetch' \in [Fetches -> Products \cup {"idle", "delay", NoName}]
    BY <1>5 DEF ChooseFirmware, Retry, fetchFirmwareFiles, TInv, TypeOK
  <2>5. ListTypes'
    BY <2>1, <2>2, <2>3, <2>4 DEF TInv, TypeOK, ListTypes
  <2>6. ScreenTypes' /\ OneLoad' /\ HasData'
    BY <1>1, <2>2, <2>3 DEF TInv, TypeOK, ScreenTypes, OneLoad, HasData
  <2> QED BY <1>2, <1>3, <2>5, <2>6, TypeParts DEF TInv
<1>6. ASSUME NEW i \in Fetches, fetchAvailableFirmwares(i) \/ ListAnswered(i) PROVE TInv'
  <2>1. UNCHANGED <<depth, RobotName>> /\ RobotName \in Products \cup {NoName}
    BY <1>6 DEF fetchAvailableFirmwares, ListAnswered, TInv, TypeOK
  <2>2. /\ listUi' \in [loading : BOOLEAN, error : BOOLEAN, data : Products \cup {None}]
        /\ UNCHANGED listUi \/ listUi'.error \/ listUi'.data # None
    <3>1. \/ UNCHANGED listUi \/ ShowFailure
          \/ availableFirmwaresCache # None /\ ShowProduct(availableFirmwaresCache)
          \/ fetch[i] \in Products /\ ShowProduct(fetch[i])
      BY <1>6 DEF fetchAvailableFirmwares, ListAnswered
    <3>2. availableFirmwaresCache \in Products \cup {None}
          /\ listUi \in [loading : BOOLEAN, error : BOOLEAN, data : Products \cup {None}]
      BY DEF TInv, TypeOK
    <3>3. CASE UNCHANGED listUi
      BY <3>2, <3>3
    <3>4. CASE ShowFailure
      BY <3>4 DEF ShowFailure
    <3>5. CASE availableFirmwaresCache # None /\ ShowProduct(availableFirmwaresCache)
      BY <1>4, <3>2, <3>5
    <3>6. CASE fetch[i] \in Products /\ ShowProduct(fetch[i])
      BY <1>4, <3>6
    <3> QED BY <3>1, <3>3, <3>4, <3>5, <3>6
  <2>3. fetch' \in [Fetches -> Products \cup {"idle", "delay", NoName}]
    BY <1>6, <2>1 DEF fetchAvailableFirmwares, ListAnswered, TInv, TypeOK
  <2>4. /\ PreDevName' \in Products \cup {NoName}
        /\ availableFirmwaresCache' \in Products \cup {None}
    BY <1>6, <2>1 DEF fetchAvailableFirmwares, ListAnswered, TInv, TypeOK
  <2>5. ListTypes'
    BY <2>1, <2>2, <2>3, <2>4 DEF ListTypes
  <2>6. ScreenTypes' /\ OneLoad' /\ HasData'
    BY <1>1, <2>1, <2>2 DEF TInv, TypeOK, ScreenTypes, OneLoad, HasData
  <2> QED BY <1>2, <1>3, <2>5, <2>6, TypeParts DEF TInv
<1> QED BY <1>5, <1>6

(* The coroutine that loads a firmware, and its I/O thread.                *)
LEMMA LoadTyped ==
  ASSUME TInv,
         \/ \E n \in Names : FirmwareChosen(n)
         \/ FirmwareAnswered \/ Create \/ Written \/ Loaded
  PROVE  TInv'
<1>1. UNCHANGED <<link, RobotName, depth, listUi, PreDevName, availableFirmwaresCache, fetch,
                  restored>>
  BY DEF FirmwareChosen, FirmwareAnswered, Create, Written, Loaded, ui, fetcher
<1>2. ListTypes' /\ LinkTypes' /\ Named' /\ HasData'
  BY <1>1, NoListing DEF TInv, TypeOK, LinkTypes, Named, HasData, link
<1>3. /\ depth \in 0..3 /\ closeChooser \in BOOLEAN /\ restored \in BOOLEAN
      /\ fileUi \in [loading : BOOLEAN, error : BOOLEAN, name : Names \cup {None}]
      /\ firmwareDataCache \in [Names -> Products \cup {None}]
      /\ PreDevName \in Products \cup {NoName}
      /\ file \in (Products \X Names) \cup {NoFile, Partial}
      /\ load = [step |-> load.step, image |-> load.image]
      /\ load.image \in ((Products \cup {NoName}) \X Names) \cup {NoFile}
  BY DEF TInv, TypeOK, Shapes
<1>4. Idle = [step |-> "idle", image |-> NoFile] /\ Idle.step = "idle"
  BY DEF Idle
<1>5. ASSUME LoadFailed, UNCHANGED <<file, firmwareDataCache>>, load # Idle PROVE TInv'
  <2>1. ScreenTypes' /\ LoadTypes' /\ Shapes'
    BY <1>1, <1>3, <1>4, <1>5 DEF LoadFailed, ScreenTypes, LoadTypes, Shapes
  <2>2. OneLoad' /\ LoadSound'
    BY <1>1, <1>4, <1>5 DEF LoadFailed, TInv, OneLoad, LoadSound
  <2> QED BY <1>2, <2>1, <2>2, TypeParts DEF TInv
<1>6. ASSUME NEW n \in Names, FirmwareChosen(n) PROVE TInv'
  <2>1. /\ load'.image \in (Products \cup {NoName}) \X Names
        /\ load' = [step |-> load'.step, image |-> load'.image]
        /\ load'.step \in {"request", "create"}
        /\ load'.step = "create" => load'.image \in Products \X Names
    BY <1>3, <1>6 DEF FirmwareChosen
  <2>2. ScreenTypes' /\ LoadTypes' /\ Shapes'
    BY <1>1, <1>3, <1>6, <2>1 DEF FirmwareChosen, fetcher, ScreenTypes, LoadTypes, Shapes
  <2>3. OneLoad'
    <3>1. depth' # 0
      BY <1>6 DEF FirmwareChosen
    <3> QED BY <1>6, <3>1, Zenon DEF FirmwareChosen, OneLoad
  <2>4. LoadSound'
    BY <2>1 DEF LoadSound
  <2> QED BY <1>2, <2>2, <2>3, <2>4, TypeParts DEF TInv
<1>7. CASE FirmwareAnswered
  <2>1. CASE LoadFailed /\ UNCHANGED firmwareDataCache
    BY <1>4, <1>5, <1>7, <2>1 DEF FirmwareAnswered
  <2>2. CASE /\ load.image[1] \in Products /\ load.image[2] \in Listed[load.image[1]]
             /\ firmwareDataCache' = [firmwareDataCache EXCEPT ![load.image[2]] = load.image[1]]
             /\ load' = [load EXCEPT !.step = "create"]
             /\ UNCHANGED <<fileUi, closeChooser>>
    <3>1. load.image \in Products \X Names
      BY <1>3, <2>2, ChooserAssumption DEF NoFile
    <3>2. load'.step = "create" /\ load'.image = load.image
          /\ load' = [step |-> load'.step, image |-> load'.image]
      BY <1>3, <2>2
    <3>3. ScreenTypes' /\ LoadTypes' /\ Shapes'
      BY <1>1, <1>3, <1>7, <2>2, <3>1, <3>2 DEF FirmwareAnswered, ScreenTypes, LoadTypes, Shapes
    <3>4. load # Idle
      BY <1>4, <1>7 DEF FirmwareAnswered
    <3>5. OneLoad' /\ LoadSound'
      BY <1>1, <2>2, <3>1, <3>2, <3>4 DEF TInv, OneLoad, LoadSound
    <3> QED BY <1>2, <3>3, <3>5, TypeParts DEF TInv
  <2> QED BY <1>7, <2>1, <2>2 DEF FirmwareAnswered
<1>8. CASE Create \/ Written
  <2>1. load # Idle /\ load.image \in Products \X Names
    BY <1>4, <1>8 DEF Create, Written, TInv, LoadSound
  <2>2. /\ load'.step \in {"rejected", "write", "created"} /\ load'.image = load.image
        /\ load' = [step |-> load'.step, image |-> load'.image]
        /\ file' \in {file, Partial, load.image}
        /\ UNCHANGED <<fileUi, closeChooser, firmwareDataCache>>
    BY <1>3, <1>8 DEF Create, Written, ui, fetcher
  <2>3. ScreenTypes' /\ LoadTypes' /\ Shapes'
    BY <1>1, <1>3, <2>1, <2>2 DEF ScreenTypes, LoadTypes, Shapes
  <2>4. OneLoad' /\ LoadSound'
    BY <1>1, <2>1, <2>2 DEF TInv, OneLoad, LoadSound
  <2> QED BY <1>2, <2>3, <2>4, TypeParts DEF TInv
<1>9. CASE Loaded
  <2>1. load # Idle /\ UNCHANGED <<file, firmwareDataCache>>
    BY <1>4, <1>9 DEF Loaded, fetcher
  <2>2. CASE /\ load.step = "created" /\ load' = Idle
             /\ fileUi' = [loading |-> FALSE, error |-> FALSE, name |-> load.image[2]]
             /\ closeChooser' = TRUE
    <3>1. load.image[2] \in Names
      BY <2>2 DEF TInv, LoadSound
    <3>2. ScreenTypes' /\ LoadTypes' /\ Shapes'
      BY <1>1, <1>3, <1>4, <2>1, <2>2, <3>1 DEF ScreenTypes, LoadTypes, Shapes
    <3>3. OneLoad' /\ LoadSound'
      BY <1>1, <1>4, <2>1, <2>2 DEF TInv, OneLoad, LoadSound
    <3> QED BY <1>2, <3>2, <3>3, TypeParts DEF TInv
  <2> QED BY <1>5, <1>9, <2>1, <2>2 DEF Loaded
<1> QED BY <1>6, <1>7, <1>8, <1>9

(* Every step, and the end of the process, keep the types.                 *)
LEMMA StepTyped == TInv /\ [Next]_vars => TInv'
<1> SUFFICES ASSUME TInv, [Next]_vars PROVE TInv'
  OBVIOUS
<1>1. CASE AppDies \/ RobotUiThrows
  <2>3. ProcessEnds({1, depth})
    BY <1>1 DEF AppDies, RobotUiThrows, ProcessEnds
  <2>1. LinkTypes' /\ ScreenTypes' /\ ListTypes' /\ LoadTypes'
    <3>1. LinkTypes' /\ ScreenTypes'
      <4>1. depth' \in 0..3
        BY <2>3 DEF ProcessEnds, TInv, TypeOK
      <4>2. restored' \in BOOLEAN
        BY <2>3 DEF ProcessEnds
      <4>3. LinkTypes' /\ closeChooser' \in BOOLEAN
        BY <2>3, Zenon DEF ProcessEnds, LinkTypes
      <4>4. fileUi' \in [loading : BOOLEAN, error : BOOLEAN, name : Names \cup {None}]
        BY <2>3, NoFirmwareType, Zenon DEF ProcessEnds
      <4> QED BY <4>1, <4>2, <4>3, <4>4, Zenon DEF ScreenTypes
    <3>2. ListTypes'
      BY <2>3 DEF ProcessEnds, ListTypes, NoList
    <3>3. LoadTypes'
      BY <2>3 DEF ProcessEnds, TInv, TypeOK, LoadTypes, Idle
    <3> QED BY <3>1, <3>2, <3>3
  <2>2. Shapes' /\ Named' /\ OneLoad' /\ LoadSound' /\ HasData'
    BY <2>3 DEF ProcessEnds, Shapes, Named, OneLoad, LoadSound, HasData, NoFirmware, Idle
  <2> QED BY <2>1, <2>2, TypeParts DEF TInv
<1>2. CASE UNCHANGED vars
  BY <1>2 DEF vars, link, ui, fetcher, TInv, TypeOK, Shapes, Named, OneLoad, LoadSound, HasData
<1> QED BY <1>1, <1>2, TapsTyped, ListsTyped, LoadTyped DEF Next

(* The screens, the caches, the coroutines and the file keep their types,  *)
(* for any products, servers and number of fetches.                        *)
THEOREM ChooserTypes == Spec => []TypeOK
<1>1. TInv => TypeOK
  BY DEF TInv
<1> QED BY <1>1, InitTyped, StepTyped, PTL DEF Spec

(* A chooser that the system brought back stays bare until the app ends:   *)
(* no coroutine is under way, and the composition throws before a tap.     *)
Bare ==
  restored =>
    /\ depth = 3 /\ ~closeChooser
    /\ listUi = NoList /\ fileUi = NoFirmware
    /\ load = Idle /\ \A i \in Fetches : fetch[i] = "idle"

(* Nothing but the end of the process happens to it.                       *)
LEMMA StaysBare == Bare /\ [Next]_vars => Bare'
<1> SUFFICES ASSUME Bare, [Next]_vars PROVE Bare'
  OBVIOUS
<1>1. CASE AppDies \/ RobotUiThrows
  BY <1>1 DEF AppDies, RobotUiThrows, ProcessEnds, Bare
<1>2. CASE UNCHANGED vars
  BY <1>2 DEF vars, ui, Bare
<1>3. CASE Next /\ ~(AppDies \/ RobotUiThrows)
  <2>1. UNCHANGED restored
    BY <1>3 DEF Next, Connect, onDeviceNameRead, LinkLost, Leave, Back, ChooseFirmware, Retry,
                Cancel, UpdateFirmware, Compose, FirmwareChosen, fetchFirmwareFiles,
                fetchAvailableFirmwares, ListAnswered, FirmwareAnswered, Create, Written, Loaded
  <2>2. CASE ~restored
    BY <2>1, <2>2 DEF Bare
  <2>3. CASE restored
    <3>1. /\ depth = 3 /\ ~closeChooser /\ load.step = "idle"
          /\ listUi.data = None /\ ShowsList /\ ~ShowsError /\ DataMissing
      BY <2>3 DEF Bare, NoList, NoFirmware, Idle, Loading, ShowsError, ShowsList, DataMissing
    <3>2. \A i \in Fetches : ~(fetchAvailableFirmwares(i) \/ ListAnswered(i))
      BY <2>3, ChooserAssumption DEF Bare, fetchAvailableFirmwares, ListAnswered, NoName
    <3>3. onDeviceNameRead \/ LinkLost
      BY <1>3, <3>1, <3>2 DEF Next, Connect, Leave, Back, ChooseFirmware, Retry, Cancel,
                UpdateFirmware, ReadsFile, Compose, FirmwareChosen, FirmwareAnswered, Create,
                Written, Loaded
    <3> QED BY <2>1, <3>3 DEF onDeviceNameRead, LinkLost, ui, Bare
  <2> QED BY <2>2, <2>3
<1> QED BY <1>1, <1>2, <1>3

(* data!! meets null in a chooser that the system brought back, and in no  *)
(* other: whichever fetches end, fail or overlap since the user opened it. *)
THEOREM DataWhenShown == Spec => []ChooserHasData
<1>1. Init => Bare
  BY DEF Init, Bare
<1>2. TInv /\ Bare => ChooserHasData
  <2> SUFFICES ASSUME TInv, Bare PROVE DataMissing <=> restored
    BY DEF ChooserHasData
  <2>1. DataMissing => restored
    BY DEF TInv, HasData, DataMissing, ShowsList, ShowsError, Loading
  <2>2. restored => DataMissing
    BY DEF Bare, NoList, NoFirmware, Loading, ShowsError, ShowsList, DataMissing
  <2> QED BY <2>1, <2>2
<1> QED BY <1>1, <1>2, StaysBare, InitTyped, StepTyped, PTL DEF Spec
=============================================================================
