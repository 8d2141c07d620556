------------------------------ MODULE Boot2Proofs ------------------------------
(***************************************************************************)
(* Proofs about Boot2 for every layout of the flash, image length, len     *)
(* field, window and number of resets that Boot2Assumption allows.         *)
(***************************************************************************)
EXTENDS Boot2, TLAPS

(* The conditions under which a copy is safe.                              *)
CopySafe == untouched /\ start_address[0] # start_address[1] /\ len >= ImgChunks

(* What a copy under way has achieved: it works on the entry of the table, *)
(* the destination has as many chunks as were dealt with, and when the     *)
(* table is about to be updated the destination is complete.               *)
CopySound ==
  CopySafe =>
    /\ ActiveComplete
    /\ pc \in {"erase", "copy"} => pt_entry = active_index
    /\ pc = "copy" => /\ deal_len <= ImgChunks => flash[Destination] = deal_len
                      /\ deal_len >= ImgChunks => flash[Destination] = ImgChunks
    /\ pc = "update" => pt_entry = Opposite(active_index) /\ flash[start_address[pt_entry]] = ImgChunks

(* Between the check and the jump, without a session, nothing changes.     *)
CheckSound ==
  /\ pc = "last" => Complete(pt_entry)
  /\ StartedImageComplete

-------------------------------------------------------------------------------
(* Masking selects one of the two addresses, the opposite is the other.    *)
LEMMA Masking ==
  ASSUME NEW i \in 0 .. 3
  PROVE  /\ i % 2 \in {0, 1}
         /\ Opposite(i) \in {0, 1}
         /\ Opposite(i) # i % 2
         /\ Opposite(i) % 2 = Opposite(i)
<1>1. i = 0 \/ i = 1 \/ i = 2 \/ i = 3
  BY SMT
<1>2. 0 % 2 = 0 /\ 1 % 2 = 1 /\ 2 % 2 = 0 /\ 3 % 2 = 1
  BY SMT
<1> QED BY <1>1, <1>2, SMT DEF Opposite

(* Source and destination are places of the flash, different ones if the   *)
(* table's addresses are.                                                  *)
LEMMA Ends ==
  ASSUME TypeOK
  PROVE  /\ Source \in Places /\ Destination \in Places
         /\ start_address[active_index % 2] \in Places
         /\ start_address[Opposite(active_index)] \in Places
         /\ start_address[0] # start_address[1] => Source # Destination
<1>1. pt_entry \in 0 .. 3 /\ active_index \in 0 .. 3
  BY DEF TypeOK
<1> QED BY <1>1, Masking, Boot2Assumption, SMT DEF Source, Destination

(* TypeOK in two halves: the Boolean variables, and the others.            *)
Booleans ==
  /\ ble_bl_conn \in BOOLEAN /\ HBN_RSV3 \in BOOLEAN /\ pt_valid \in BOOLEAN
  /\ untouched \in BOOLEAN /\ early \in BOOLEAN

Ranges ==
  /\ pc \in Positions /\ caller \in Polls \union {"none"}
  /\ pc = "session" => caller \in Polls
  /\ boot_timeout \in 0 .. (LongWindow + ShortWindow)
  /\ pc = "window" \/ (pc = "session" /\ caller = "window") => boot_timeout > 0
  /\ eflash_loader_if \in {"BLE", "UART"}
  /\ active_index \in 0 .. 3 /\ len \in Lens
  /\ pt_entry \in 0 .. 3 /\ deal_len \in Nat
  /\ flash \in [Places -> 0 .. ImgChunks]
  /\ resets \in 0 .. MaxResets

(* The type invariant has a Boolean and a numeric half.                    *)
LEMMA Halves == TypeOK <=> Booleans /\ Ranges
BY Zenon DEF TypeOK, Booleans, Ranges

(* Every step keeps the Boolean half.                                      *)
LEMMA BooleanStep ==
  ASSUME Booleans, [Next]_vars
  PROVE  Booleans'
<1> USE DEF Booleans, flashVars, ifVars
<1>1. CASE InterfacesReady
  BY <1>1, Zenon DEF InterfacesReady, UseUart
<1>2. CASE PollMisses
  BY <1>2, Zenon DEF PollMisses, StopBle
<1>3. CASE PollOpens
  BY <1>3, Zenon DEF PollOpens
<1>4. CASE LoaderErase
  BY <1>4, Zenon DEF LoaderErase
<1>5. CASE LoaderWrite
  BY <1>5, Zenon DEF LoaderWrite
<1>6. CASE LoaderReset
  BY <1>6, Zenon DEF LoaderReset, ChipReset
<1>7. CASE SessionEnds
  BY <1>7, Zenon DEF SessionEnds, StopBle
<1>8. CASE ReadTable
  BY <1>8, Zenon DEF ReadTable, UseUart
<1>9. CASE EraseDestination
  BY <1>9, Zenon DEF EraseDestination
<1>10. CASE CopyChunk
  BY <1>10, Zenon DEF CopyChunk
<1>11. CASE CopyFails
  BY <1>11, Zenon DEF CopyFails
<1>12. CASE CopyDone
  BY <1>12, Zenon DEF CopyDone
<1>13. CASE UpdateEntry
  BY <1>13, Zenon DEF UpdateEntry
<1>14. CASE CheckImage
  BY <1>14, Zenon DEF CheckImage, UseUart
<1>15. CASE bl_connected
  BY <1>15, Zenon DEF bl_connected
<1>16. CASE bl_disconnected
  BY <1>16, Zenon DEF bl_disconnected
<1>17. CASE AppRuns
  BY <1>17, Zenon DEF AppRuns, vars
<1>18. CASE JumpToBootloader
  BY <1>18, Zenon DEF JumpToBootloader, ChipReset
<1>19. CASE PowerLoss
  BY <1>19, Zenon DEF PowerLoss, ChipReset
<1>20. CASE UNCHANGED vars
  BY <1>20, Zenon DEF vars
<1> QED
  BY <1>1, <1>2, <1>3, <1>4, <1>5, <1>6, <1>7, <1>8, <1>9, <1>10, <1>11, <1>12, <1>13, <1>14,
     <1>15, <1>16, <1>17, <1>18, <1>19, <1>20, Zenon DEF Next

(* What follows a poll keeps the count of polls in range.                  *)
LEMMA GoOnRanges ==
  ASSUME Ranges, NEW poll \in Polls, poll = "window" => boot_timeout > 0, GoOn(poll)
  PROVE  /\ pc' \in Positions \ {"session"}
         /\ boot_timeout' \in 0 .. (LongWindow + ShortWindow)
         /\ pc' = "window" => boot_timeout' > 0
<1> USE Boot2Assumption DEF Ranges, Positions, Polls
<1>1. CASE poll = "window"
  <2>1. boot_timeout' = boot_timeout - 1 /\ pc' = IF boot_timeout = 1 THEN "parse" ELSE "window"
    BY <1>1 DEF GoOn
  <2> QED BY <1>1, <2>1
<1>2. CASE poll = "last"
  BY <1>2 DEF GoOn
<1>3. CASE poll = "fail"
  BY <1>3 DEF GoOn
<1> QED BY <1>1, <1>2, <1>3

(* Every step keeps the numeric half.                                      *)
LEMMA RangesStep ==
  ASSUME TypeOK, [Next]_vars
  PROVE  Ranges'
<1>0. Ranges
  BY Halves
<1> USE <1>0, Boot2Assumption DEF Ranges, flashVars, ifVars, Polls, Positions
<1>1. CASE InterfacesReady
  BY <1>1 DEF InterfacesReady, UseUart
<1>2. CASE PollMisses
  <2>1. /\ pc' \in Positions \ {"session"}
        /\ boot_timeout' \in 0 .. (LongWindow + ShortWindow)
        /\ pc' = "window" => boot_timeout' > 0
    BY <1>2, GoOnRanges DEF PollMisses
  <2> QED BY <1>2, <2>1 DEF PollMisses
<1>3. CASE PollOpens
  BY <1>3 DEF PollOpens
<1>4. CASE LoaderErase
  <2>1. flash' \in [Places -> 0 .. ImgChunks]
    BY <1>4, Ends DEF LoaderErase
  <2> QED BY <1>4, <2>1 DEF LoaderErase
<1>5. CASE LoaderWrite
  <2>1. PICK p \in Places : flash' = [flash EXCEPT ![p] = IF @ < ImgChunks THEN @ + 1 ELSE 0]
    BY <1>5 DEF LoaderWrite
  <2>2. flash' \in [Places -> 0 .. ImgChunks]
    BY <2>1
  <2> QED BY <1>5, <2>2 DEF LoaderWrite
<1>6. CASE LoaderReset
  <2>1. active_index' \in 0 .. 3
    BY <1>6, Masking DEF LoaderReset
  <2> QED BY <1>6, <2>1 DEF LoaderReset, ChipReset
<1>7. CASE SessionEnds
  <2>1. /\ pc' \in Positions \ {"session"}
        /\ boot_timeout' \in 0 .. (LongWindow + ShortWindow)
        /\ pc' = "window" => boot_timeout' > 0
    BY <1>7, GoOnRanges DEF SessionEnds
  <2> QED BY <1>7, <2>1 DEF SessionEnds
<1>8. CASE ReadTable
  BY <1>8 DEF ReadTable, UseUart
<1>9. CASE EraseDestination
  <2>1. flash' \in [Places -> 0 .. ImgChunks]
    BY <1>9, Ends DEF EraseDestination
  <2> QED BY <1>9, <2>1 DEF EraseDestination
<1>10. CASE CopyChunk
  <2>1. flash' \in [Places -> 0 .. ImgChunks]
    BY <1>10, Ends DEF CopyChunk
  <2> QED BY <1>10, <2>1 DEF CopyChunk
<1>11. CASE CopyFails
  BY <1>11 DEF CopyFails
<1>12. CASE CopyDone
  <2>1. pt_entry' \in 0 .. 3
    BY <1>12, Masking DEF CopyDone
  <2> QED BY <1>12, <2>1 DEF CopyDone
<1>13. CASE UpdateEntry
  BY <1>13 DEF UpdateEntry
<1>14. CASE CheckImage
  BY <1>14 DEF CheckImage, UseUart
<1>15. CASE bl_connected
  BY <1>15 DEF bl_connected
<1>16. CASE bl_disconnected
  BY <1>16 DEF bl_disconnected
<1>17. CASE AppRuns
  BY <1>17 DEF AppRuns, vars
<1>18. CASE JumpToBootloader
  BY <1>18 DEF JumpToBootloader, ChipReset
<1>19. CASE PowerLoss
  BY <1>19 DEF PowerLoss, ChipReset
<1>20. CASE UNCHANGED vars
  BY <1>20 DEF vars
<1> QED
  BY <1>1, <1>2, <1>3, <1>4, <1>5, <1>6, <1>7, <1>8, <1>9, <1>10, <1>11, <1>12, <1>13, <1>14,
     <1>15, <1>16, <1>17, <1>18, <1>19, <1>20, Zenon DEF Next

(* Every step keeps the type invariant.                                    *)
LEMMA TypeStep ==
  ASSUME TypeOK, [Next]_vars
  PROVE  TypeOK'
<1>1. TypeOK' <=> Booleans' /\ Ranges'
  BY Zenon DEF TypeOK, Booleans, Ranges
<1> QED BY <1>1, Halves, BooleanStep, RangesStep

(* The initial state is type correct.                                      *)
LEMMA InitTyped == Init => TypeOK
<1>1. Init => Booleans
  <2>1. untouched = ActiveComplete => untouched \in BOOLEAN
    BY Zenon DEF ActiveComplete
  <2> QED BY <2>1, Zenon DEF Init, Booleans
<1>2. Init => Ranges
  BY Boot2Assumption DEF Init, Ranges, Positions, Polls
<1> QED BY <1>1, <1>2, Halves

(* Type correctness: main_task's variables keep their types and the window *)
(* is never polled with a count of 0, which would wrap around.             *)
THEOREM TypeCorrect == Spec => []TypeOK
<1>1. Init => TypeOK
  BY InitTyped
<1>2. TypeOK /\ [Next]_vars => TypeOK'
  BY TypeStep
<1> QED BY <1>1, <1>2, PTL DEF Spec
-------------------------------------------------------------------------------
(* An action that leaves the entry, the flash and the ghost alone and does *)
(* not enter the copy keeps CopySound.                                     *)
LEMMA CopySoundElsewhere ==
  ASSUME TypeOK, CopySound, UNCHANGED flashVars, pc' \notin {"erase", "copy", "update"}
  PROVE  CopySound'
BY DEF CopySound, CopySafe, ActiveComplete, flashVars

(* Every step keeps the copy sound.                                        *)
LEMMA CopySoundStep ==
  ASSUME TypeOK, CopySound, [Next]_vars
  PROVE  CopySound'
<1> USE Boot2Assumption
<1>t. /\ pt_entry \in 0 .. 3 /\ active_index \in 0 .. 3 /\ len \in Nat /\ deal_len \in Nat
      /\ flash \in [Places -> 0 .. ImgChunks]
  BY DEF TypeOK
<1>1. CASE InterfacesReady
  BY <1>1, CopySoundElsewhere DEF InterfacesReady
<1>2. CASE PollMisses
  <2>1. pc' \notin {"erase", "copy", "update"}
    BY <1>2 DEF PollMisses, GoOn, Polls
  <2> QED BY <1>2, <2>1, CopySoundElsewhere DEF PollMisses
<1>3. CASE PollOpens
  BY <1>3, CopySoundElsewhere DEF PollOpens
<1>4. CASE LoaderErase
  BY <1>4 DEF LoaderErase, CopySound, CopySafe
<1>5. CASE LoaderWrite
  BY <1>5 DEF LoaderWrite, CopySound, CopySafe
<1>6. CASE LoaderReset
  BY <1>6 DEF LoaderReset, CopySound, CopySafe
<1>7. CASE SessionEnds
  <2>1. pc' \notin {"erase", "copy", "update"}
    BY <1>7 DEF SessionEnds, GoOn, Polls, TypeOK
  <2> QED BY <1>7, <2>1, CopySoundElsewhere DEF SessionEnds
<1>8. CASE ReadTable
  <2>1. pc' \notin {"copy", "update"} /\ (pc' = "erase" => pt_entry' = active_index) /\ UNCHANGED flashVars
    BY <1>8 DEF ReadTable
  <2> QED BY <2>1 DEF CopySound, CopySafe, ActiveComplete, flashVars
<1>9. CASE EraseDestination
  <2> SUFFICES ASSUME CopySafe'
               PROVE  ActiveComplete' /\ pt_entry' = active_index' /\ flash'[Destination'] = 0
    BY <1>9 DEF EraseDestination, CopySound
  <2>1. CopySafe /\ ActiveComplete /\ pt_entry = active_index
    BY <1>9 DEF EraseDestination, CopySafe, CopySound
  <2>2. Source # Destination /\ Source \in Places /\ Destination \in Places
    BY <2>1, Ends DEF CopySafe
  <2>3. flash'[Destination] = 0 /\ flash'[Source] = flash[Source]
    BY <1>9, <2>2, <1>t DEF EraseDestination
  <2>4. Destination' = Destination /\ Source = start_address[active_index % 2]
    BY <1>9, <2>1 DEF EraseDestination, Destination, Source
  <2> QED BY <1>9, <2>1, <2>3, <2>4 DEF EraseDestination, ActiveComplete
<1>10. CASE CopyChunk
  <2> SUFFICES ASSUME CopySafe'
               PROVE  /\ ActiveComplete' /\ pt_entry' = active_index'
                      /\ deal_len' <= ImgChunks => flash'[Destination'] = deal_len'
                      /\ deal_len' >= ImgChunks => flash'[Destination'] = ImgChunks
    BY <1>10 DEF CopyChunk, CopySound
  <2>1. /\ CopySafe /\ ActiveComplete /\ pt_entry = active_index
        /\ deal_len <= ImgChunks => flash[Destination] = deal_len
        /\ deal_len >= ImgChunks => flash[Destination] = ImgChunks
    BY <1>10 DEF CopyChunk, CopySafe, CopySound
  <2>2. Source # Destination /\ Source \in Places /\ Destination \in Places
    BY <2>1, Ends DEF CopySafe
  <2>3. Destination' = Destination /\ Source = start_address[active_index % 2]
    BY <1>10, <2>1 DEF CopyChunk, Destination, Source
  <2>4. flash[Source] = ImgChunks
    BY <2>1, <2>3 DEF ActiveComplete
  <2>5. /\ flash'[Source] = ImgChunks
        /\ flash'[Destination] = IF flash[Destination] = deal_len /\ deal_len < ImgChunks
                                  THEN flash[Destination] + 1 ELSE flash[Destination]
    BY <1>10, <2>2, <2>4, <1>t DEF CopyChunk
  <2>6. deal_len' = deal_len + 1 /\ pt_entry' = pt_entry /\ active_index' = active_index
    BY <1>10 DEF CopyChunk
  <2>7. ActiveComplete'
    BY <2>3, <2>5, <2>6 DEF ActiveComplete
  <2> QED BY <2>1, <2>3, <2>5, <2>6, <2>7, <1>t
<1>11. CASE CopyFails
  <2>1. pc' = "check"
    BY <1>11 DEF CopyFails
  <2>2. CASE UNCHANGED flash
    BY <1>11, <2>1, <2>2, CopySoundElsewhere DEF CopyFails, flashVars
  <2>3. CASE pc = "erase" /\ flash' = [flash EXCEPT ![Destination] = 0]
    <3> SUFFICES ASSUME CopySafe'
                 PROVE  ActiveComplete'
      BY <2>1 DEF CopySound
    <3>1. CopySafe /\ ActiveComplete /\ pt_entry = active_index
      BY <1>11, <2>3 DEF CopyFails, CopySafe, CopySound
    <3>2. Source # Destination /\ Source \in Places /\ Destination \in Places
      BY <3>1, Ends DEF CopySafe
    <3>3. flash'[Source] = flash[Source] /\ Source = start_address[active_index % 2]
      BY <2>3, <3>1, <3>2, <1>t DEF Source
    <3> QED BY <1>11, <3>1, <3>3 DEF CopyFails, ActiveComplete
  <2> QED BY <1>11, <2>2, <2>3 DEF CopyFails
<1>12. CASE CopyDone
  <2> SUFFICES ASSUME CopySafe'
               PROVE  /\ ActiveComplete' /\ pt_entry' = Opposite(active_index')
                      /\ flash'[start_address[pt_entry']] = ImgChunks
    BY <1>12 DEF CopyDone, CopySound
  <2>1. CopySafe /\ ActiveComplete /\ pt_entry = active_index /\ flash[Destination] = ImgChunks
    BY <1>12, <1>t DEF CopyDone, CopySafe, CopySound, flashVars
  <2> QED BY <1>12, <2>1 DEF CopyDone, flashVars, ActiveComplete, Destination
<1>13. CASE UpdateEntry
  <2> SUFFICES ASSUME CopySafe'
               PROVE  ActiveComplete'
    BY <1>13 DEF UpdateEntry, CopySound
  <2>1. /\ CopySafe /\ ActiveComplete
        /\ pt_entry = Opposite(active_index) /\ flash[start_address[pt_entry]] = ImgChunks
    BY <1>13 DEF UpdateEntry, CopySafe, CopySound
  <2>2. pt_entry % 2 = pt_entry
    BY <2>1, <1>t, Masking
  <2> QED BY <1>13, <2>1, <2>2 DEF UpdateEntry, ActiveComplete
<1>14. CASE CheckImage
  BY <1>14, CopySoundElsewhere DEF CheckImage
<1>15. CASE bl_connected
  BY <1>15 DEF bl_connected, flashVars, CopySound, CopySafe, ActiveComplete, Destination
<1>16. CASE bl_disconnected
  BY <1>16 DEF bl_disconnected, flashVars, CopySound, CopySafe, ActiveComplete, Destination
<1>17. CASE JumpToBootloader
  BY <1>17, CopySoundElsewhere DEF JumpToBootloader, ChipReset
<1>18. CASE PowerLoss
  BY <1>18, CopySoundElsewhere DEF PowerLoss, ChipReset
<1>19. CASE UNCHANGED vars
  BY <1>19 DEF vars, flashVars, CopySound, CopySafe, ActiveComplete, Destination
<1>20. CASE AppRuns
  BY <1>19, <1>20 DEF AppRuns
<1> QED
  BY <1>1, <1>2, <1>3, <1>4, <1>5, <1>6, <1>7, <1>8, <1>9, <1>10, <1>11, <1>12, <1>13, <1>14,
     <1>15, <1>16, <1>17, <1>18, <1>19, <1>20, Zenon DEF Next

(* An OTA copy never costs the train its last complete image, whatever     *)
(* power losses and flash errors happen to it and however often: the place *)
(* the table points to stays complete.                                     *)
THEOREM CopyKeeps == Spec => []CopyKeepsImage
<1>1. Init => TypeOK /\ CopySound
  <2>1. Init => CopySound
    BY DEF Init, CopySound, CopySafe
  <2> QED BY <2>1, InitTyped
<1>2. TypeOK /\ CopySound /\ [Next]_vars => TypeOK' /\ CopySound'
  BY TypeStep, CopySoundStep
<1>3. CopySound => CopyKeepsImage
  BY DEF CopySound, CopySafe, CopyKeepsImage
<1> QED BY <1>1, <1>2, <1>3, PTL DEF Spec

-------------------------------------------------------------------------------
(* Every step keeps CheckSound: the image was complete when it was checked,*)
(* and only a session can have changed it since.                           *)
LEMMA CheckSoundStep ==
  ASSUME TypeOK, CheckSound, [Next]_vars
  PROVE  CheckSound'
<1> USE DEF CheckSound, StartedImageComplete
<1>1. CASE InterfacesReady
  BY <1>1 DEF InterfacesReady
<1>2. CASE PollMisses
  <2>1. /\ pc' = "last" => FALSE
        /\ pc' = "app" => pc = "last"
    BY <1>2 DEF PollMisses, GoOn, Polls
  <2>2. pt_entry' = pt_entry /\ flash' = flash
    BY <1>2 DEF PollMisses, flashVars
  <2> QED BY <2>1, <2>2 DEF Complete
<1>3. CASE PollOpens
  BY <1>3 DEF PollOpens
<1>4. CASE LoaderErase
  BY <1>4 DEF LoaderErase
<1>5. CASE LoaderWrite
  BY <1>5 DEF LoaderWrite
<1>6. CASE LoaderReset
  BY <1>6 DEF LoaderReset, ChipReset
<1>7. CASE SessionEnds
  <2>1. /\ pc' = "last" => FALSE
        /\ pc' = "app" => caller = "last"
    BY <1>7 DEF SessionEnds, GoOn, Polls, TypeOK
  <2> QED BY <1>7, <2>1 DEF SessionEnds
<1>8. CASE ReadTable
  BY <1>8 DEF ReadTable
<1>9. CASE EraseDestination
  BY <1>9 DEF EraseDestination
<1>10. CASE CopyChunk
  BY <1>10 DEF CopyChunk
<1>11. CASE CopyFails
  BY <1>11 DEF CopyFails
<1>12. CASE CopyDone
  BY <1>12 DEF CopyDone
<1>13. CASE UpdateEntry
  BY <1>13 DEF UpdateEntry
<1>14. CASE CheckImage
  BY <1>14 DEF CheckImage, flashVars, Complete
<1>15. CASE bl_connected
  BY <1>15 DEF bl_connected, flashVars, Complete
<1>16. CASE bl_disconnected
  BY <1>16 DEF bl_disconnected, flashVars, Complete
<1>17. CASE JumpToBootloader
  BY <1>17 DEF JumpToBootloader, ChipReset
<1>18. CASE PowerLoss
  BY <1>18 DEF PowerLoss, ChipReset
<1>19. CASE UNCHANGED vars
  BY <1>19 DEF vars, flashVars, Complete
<1>20. CASE AppRuns
  BY <1>19, <1>20 DEF AppRuns
<1> QED
  BY <1>1, <1>2, <1>3, <1>4, <1>5, <1>6, <1>7, <1>8, <1>9, <1>10, <1>11, <1>12, <1>13, <1>14,
     <1>15, <1>16, <1>17, <1>18, <1>19, <1>20, Zenon DEF Next

(* No incomplete image is started, unless a session was opened at the poll *)
(* that follows the check.                                                 *)
THEOREM OnlyCompleteStarted == Spec => []StartedImageComplete
<1>1. Init => TypeOK /\ CheckSound
  <2>1. Init => CheckSound
    BY DEF Init, CheckSound, StartedImageComplete
  <2> QED BY <2>1, InitTyped
<1>2. TypeOK /\ CheckSound /\ [Next]_vars => TypeOK' /\ CheckSound'
  BY TypeStep, CheckSoundStep
<1>3. CheckSound => StartedImageComplete
  BY DEF CheckSound
<1> QED BY <1>1, <1>2, <1>3, PTL DEF Spec
===============================================================================
