------------------------- MODULE ConnectionSetupProofs -------------------------
(***************************************************************************)
(* Proofs about ConnectionSetup, for any set of characteristics to read    *)
(* and any number of links, faults and retries.  The command queue works   *)
(* without a lock that covers the completion, so what makes it right is    *)
(* that without an incident the parties take turns: busy says that one     *)
(* command, the head, is on its way to the stack or in it, a thread that   *)
(* is about to launch the head knows that busy is not set, and the two     *)
(* threads are never in the queue together.                                *)
(***************************************************************************)
EXTENDS ConnectionSetup, TLAPS

-------------------------------------------------------------------------------
(* The inductive invariant. *)

(* The handles of the characteristics are those of a link that is up.      *)
Flags ==
  /\ handles => servicesReady /\ gatt = "connected"
  /\ gatt = "connected" => links # 0

(* One thread at a time works on the queue.                                *)
OneThread == pc["add"] = "idle" \/ pc["callback"] = "idle"

(* busy: one command, the head, has been launched or is with the stack.    *)
Idle == op = NoOp /\ \A c \in Commands : launched[c] = 0
OneInProgress ==
  /\ ~ busy => Idle
  /\ busy => ~ Idle /\ queue # << >> /\ CallbackIdle
  /\ \A c \in Commands : launched[c] # 0 \/ op = c => c = Head(queue)
  /\ \A c \in Commands : launched[c] # 0 => launched[c] = 1 /\ op = NoOp

(* A thread that has seen a command and no busy still would.               *)
TakesHead == \A t \in Threads : pc[t] = "take" => ~ busy /\ queue # << >>

(* Every command is of the link whose services were discovered.            *)
OfThisLink == adding # {} \/ queue # << >> => handles

TurnsTaken ==
  incidents = {} =>
    /\ OneThread
    /\ OneInProgress
    /\ TakesHead
    /\ OfThisLink

IInv == TypeOK /\ Flags /\ TurnsTaken

-------------------------------------------------------------------------------
(* The pieces the steps are made of. *)

(* The bounds.                                                             *)
LEMMA Bounds == MaxLinks \in Nat \ {0} /\ MaxFaults \in Nat
PROOF
  BY QueueAssumption, SetupAssumption

(* No command of the queue is the stack's empty operation.                 *)
LEMMA NoOpIsNoCommand ==
  /\ NoOp \notin Commands
  /\ NoOp.name \notin Names
PROOF
  <1>1. ASSUME NoOp \in Commands PROVE FALSE
    <2>1. NoOp.link \in 1 .. MaxLinks
      BY <1>1 DEF Commands
    <2> QED BY <2>1 DEF NoOp
  <1>2. NoOp.name \notin Names
    BY QueueAssumption DEF Names, NoOp
  <1> QED BY <1>1, <1>2

(* connectToDevice keeps the types of the GATT handle and the retries.     *)
LEMMA ConnectTypes ==
  ASSUME NEW g \in {"null", "connecting", "connected"},
         NEW n \in 0 .. USER_RETRY,
         connectToDevice(g, n)
  PROVE  /\ gatt' \in {"null", "connecting", "connected"}
         /\ user_retry' \in 0 .. USER_RETRY
         /\ gatt' = "connected" => g = "connected"
         /\ g = "connected" => gatt' = "connected"
PROOF
  <1>1. CASE g # "null"
    BY <1>1 DEF connectToDevice
  <1>2. CASE g = "null"
    BY <1>2, ServiceAssumption DEF connectToDevice
  <1> QED BY <1>1, <1>2

(* The retry of a connection arms or counts down the retries.              *)
LEMMA RetryTypes ==
  ASSUME user_retry \in 0 .. USER_RETRY, RetryConnect
  PROVE  /\ gatt' = "connecting"
         /\ user_retry' \in 0 .. USER_RETRY
PROOF
  <1> DEFINE n == IF user_retry > 0 THEN user_retry - 1 ELSE 0
  <1>1. n \in 0 .. USER_RETRY
    BY ServiceAssumption
  <1>2. gatt' = "connecting" /\ user_retry' = IF n = 0 THEN USER_RETRY ELSE n
    BY DEF RetryConnect, connectToDevice
  <1> HIDE DEF n
  <1> QED BY <1>1, <1>2, ServiceAssumption

-------------------------------------------------------------------------------
(* Types. *)

(* connectToDevice leaves a state of the right types.                      *)
LEMMA TypesStart == Init => TypeOK /\ Flags
PROOF
  <1> SUFFICES ASSUME Init PROVE TypeOK /\ Flags
    OBVIOUS
  <1>1. ServiceTypeOK
    <2>1. con_sem \in Nat /\ user_retry \in 0 .. USER_RETRY
      BY ServiceAssumption DEF Init
    <2> QED BY <2>1 DEF Init, ServiceTypeOK
  <1>2. QueueTypeOK
    <2>1. queue \in Seq(Commands)
      BY DEF Init, QueueInit
    <2>2. launched \in [Commands -> Nat]
      BY DEF Init, QueueInit
    <2>3. pc \in [Threads -> {"idle", "poll", "test", "take"}]
      BY DEF Init, QueueInit
    <2> QED BY <2>1, <2>2, <2>3 DEF Init, QueueInit, QueueTypeOK
  <1>3. Flags
    BY DEF Init, Flags
  <1>4. links \in 0 .. MaxLinks /\ faults \in 0 .. MaxFaults
    BY Bounds DEF Init
  <1> QED BY <1>1, <1>2, <1>3, <1>4 DEF Init, TypeOK

(* What the steps on the queue do to its types.                            *)
LEMMA QueueStepTypes ==
  ASSUME QueueTypeOK,
         \/ \E c \in adding : add(c)
         \/ completeCommand
         \/ pollQueue
         \/ \E t \in Threads : processNextInQueue(t)
         \/ \E t \in Threads : launchHead(t)
  PROVE  QueueTypeOK'
PROOF
  <1> USE DEF QueueTypeOK
  <1>1. CASE \E c \in adding : add(c)
    <2> PICK c \in adding : add(c)
      BY <1>1
    <2>1. c \in Commands
      OBVIOUS
    <2>2. queue' \in Seq(Commands)
      BY <2>1 DEF add
    <2>3. pc' \in [Threads -> {"idle", "poll", "test", "take"}]
      BY DEF add
    <2> QED BY <2>2, <2>3 DEF add
  <1>2. CASE completeCommand
    <2>1. pc' \in [Threads -> {"idle", "poll", "test", "take"}]
      BY <1>2 DEF completeCommand
    <2> QED BY <1>2, <2>1 DEF completeCommand
  <1>3. CASE pollQueue
    <2>1. pc' \in [Threads -> {"idle", "poll", "test", "take"}]
      BY <1>3 DEF pollQueue
    <2>2. queue' \in Seq(Commands)
      <3>1. CASE queue = << >>
        BY <1>3, <3>1 DEF pollQueue
      <3>2. CASE queue # << >>
        <4>1. Tail(queue) \in Seq(Commands)
          BY <3>2
        <4> QED BY <1>3, <3>2, <4>1 DEF pollQueue
      <3> QED BY <3>1, <3>2
    <2> QED BY <1>3, <2>1, <2>2 DEF pollQueue
  <1>4. CASE \E t \in Threads : processNextInQueue(t)
    <2> PICK t \in Threads : processNextInQueue(t)
      BY <1>4
    <2>1. pc' \in [Threads -> {"idle", "poll", "test", "take"}]
      BY DEF processNextInQueue
    <2> QED BY <2>1 DEF processNextInQueue
  <1>5. CASE \E t \in Threads : launchHead(t)
    <2> PICK t \in Threads : launchHead(t)
      BY <1>5
    <2>1. pc' \in [Threads -> {"idle", "poll", "test", "take"}]
      BY DEF launchHead
    <2>2. launched' \in [Commands -> Nat]
      <3>1. CASE queue = << >>
        BY <3>1 DEF launchHead
      <3>2. CASE queue # << >>
        <4>1. Head(queue) \in Commands
          BY <3>2
        <4> QED BY <3>2, <4>1 DEF launchHead
      <3> QED BY <3>1, <3>2
    <2> QED BY <2>1, <2>2 DEF launchHead
  <1> QED BY <1>1, <1>2, <1>3, <1>4, <1>5

(* A fault stays within the bound.                                         *)
LEMMA FaultBound ==
  ASSUME faults \in 0 .. MaxFaults, Fault \/ UNCHANGED faults
  PROVE  faults' \in 0 .. MaxFaults
PROOF
  BY SetupAssumption DEF Fault

(* A command that is executed leaves the launched ones.                    *)
LEMMA ExecuteTypes ==
  ASSUME TypeOK, Flags, NEW c \in Commands, Execute(c)
  PROVE  TypeOK' /\ Flags'
PROOF
  <1>1. ServiceTypeOK' /\ Flags'
    BY DEF Execute, TypeOK, ServiceTypeOK, Flags, svcVars
  <1>2. QueueTypeOK'
    <2>1. launched' \in [Commands -> Nat]
      <3>1. launched[c] \in Nat /\ launched[c] > 0
        BY DEF TypeOK, QueueTypeOK, Execute
      <3>2. launched[c] - 1 \in Nat
        BY <3>1
      <3> QED BY <3>2 DEF TypeOK, QueueTypeOK, Execute
    <2> QED BY <2>1 DEF TypeOK, QueueTypeOK, Execute
  <1>3. op' \in Commands \union {NoOp}
    BY DEF TypeOK, Execute
  <1>4. Fault \/ UNCHANGED faults
    BY DEF Execute
  <1>5. faults' \in 0 .. MaxFaults
    BY <1>4, FaultBound DEF TypeOK
  <1>6. incidents' \subseteq {"overlap", "refused", "leftover", "in flight"}
    BY DEF TypeOK, Execute
  <1> QED BY <1>1, <1>2, <1>3, <1>5, <1>6 DEF TypeOK, Execute

(* The incidents of a lost link have their names.                          *)
LEMMA IncidentNames ==
  /\ Leftover \subseteq {"overlap", "refused", "leftover", "in flight"}
  /\ InFlight \subseteq {"overlap", "refused", "leftover", "in flight"}
PROOF
  BY DEF Leftover, InFlight

(* What a lost link, a failed discovery or a disconnection leaves: the     *)
(* flags and handles are cleared with the queue, or only the handles when  *)
(* the queue is kept; commands of the discovery may have been added.       *)
LinkEnds ==
  /\ handles' = FALSE /\ notifyQueued' = FALSE
  /\ gatt' \in {"null", "connecting"}
  /\ user_retry' \in 0 .. USER_RETRY
  /\ op' = NoOp /\ enabled' = FALSE
  /\ InFlight \subseteq incidents'
  /\ incidents \subseteq incidents'
  /\ incidents' \subseteq {"overlap", "refused", "leftover", "in flight"}
  /\ \/ clear /\ servicesReady' = FALSE /\ notificationReady' = FALSE
     \/ /\ Leftover \subseteq incidents'
        /\ servicesReady' \in BOOLEAN
        /\ UNCHANGED << notificationReady, queue, busy >>
  /\ adding' \subseteq Commands
  /\ Fault
  /\ UNCHANGED << con_sem, is_retry_connect, launched, pc, links, job >>

(* The ways a link ends.                                                   *)
LinkEnd == DiscoveryFails \/ HandleMissing \/ LinkLost \/ LinkError \/ disconnect

(* The commands of a discovery on a link that is up are commands.          *)
LEMMA DiscoveredCommands ==
  ASSUME TypeOK, Flags, gatt = "connected", NEW names \in {Reads, Names}
  PROVE  CommandsFor(names) \subseteq Commands
PROOF
  <1>1. links \in 0 .. MaxLinks /\ links # 0
    BY DEF TypeOK, Flags
  <1>2. links \in 1 .. MaxLinks
    BY <1>1, Bounds
  <1>3. names \subseteq Names
    BY DEF Names
  <1> QED BY <1>2, <1>3 DEF CommandsFor, Commands

(* The ways a link ends are all of that form ...                           *)
LEMMA LinkEnding ==
  ASSUME TypeOK, Flags, LinkEnd
  PROVE  LinkEnds
PROOF
  <1> USE IncidentNames DEF TypeOK, ServiceTypeOK
  <1>1. ASSUME CloseGatt
        PROVE  /\ handles' = FALSE /\ notifyQueued' = FALSE
               /\ InFlight \subseteq incidents'
               /\ incidents \subseteq incidents'
               /\ incidents' \subseteq {"overlap", "refused", "leftover", "in flight"}
               /\ clear /\ servicesReady' = FALSE /\ notificationReady' = FALSE
    BY <1>1, IncidentNames DEF CloseGatt, CloseFlags
  <1>2. ASSUME NEW ready \in BOOLEAN, retry_connect(ready), Fault, LinkGone,
               adding' \subseteq Commands
        PROVE  LinkEnds
    <2>1. CASE RetryAllowed
      <3>1. /\ RetryConnect /\ handles' = FALSE /\ notifyQueued' = FALSE
            /\ servicesReady' = ready
            /\ incidents' = incidents \union Leftover \union InFlight
            /\ UNCHANGED << notificationReady, queue, busy >>
        BY <1>2, <2>1 DEF retry_connect
      <3>2. gatt' = "connecting" /\ user_retry' \in 0 .. USER_RETRY
        BY <3>1, RetryTypes
      <3>3. /\ InFlight \subseteq incidents'
            /\ incidents \subseteq incidents'
            /\ Leftover \subseteq incidents'
            /\ incidents' \subseteq {"overlap", "refused", "leftover", "in flight"}
        BY <3>1, IncidentNames
      <3> QED BY <1>2, <3>1, <3>2, <3>3 DEF LinkGone, LinkEnds
    <2>2. CASE ~ RetryAllowed
      <3>1. CloseGatt /\ gatt' = "null" /\ UNCHANGED user_retry
        BY <1>2, <2>2 DEF retry_connect
      <3> QED BY <1>1, <1>2, <3>1 DEF LinkGone, LinkEnds
    <2> QED BY <2>1, <2>2
  <1>0. adding \subseteq Commands
    BY DEF QueueTypeOK
  <1>3. CASE LinkError
    <2>1. CloseGatt
      BY <1>3 DEF LinkError
    <2>2. gatt' \in {"null", "connecting"} /\ user_retry' \in 0 .. USER_RETRY
      <3>1. CASE RetryAllowed
        <4>1. RetryConnect
          BY <1>3, <3>1 DEF LinkError
        <4> QED BY <4>1, RetryTypes
      <3>2. CASE ~ RetryAllowed
        BY <1>3, <3>2 DEF LinkError
      <3> QED BY <3>1, <3>2
    <2> QED BY <1>0, <1>1, <1>3, <2>1, <2>2 DEF LinkError, LinkGone, LinkEnds
  <1>4. CASE disconnect
    <2>1. CloseGatt
      BY <1>4 DEF disconnect
    <2> QED BY <1>0, <1>1, <1>4, <2>1 DEF disconnect, LinkGone, LinkEnds
  <1>5. CASE LinkLost \/ DiscoveryFails
    BY <1>0, <1>2, <1>5 DEF LinkLost, DiscoveryFails
  <1>6. CASE HandleMissing
    <2>1. adding' \subseteq Commands
      BY <1>0, <1>6, DiscoveredCommands DEF HandleMissing
    <2> QED BY <1>2, <1>6, <2>1 DEF HandleMissing
  <1> QED BY <1>3, <1>4, <1>5, <1>6 DEF LinkEnd

(* ... which keeps the types.                                              *)
LEMMA LinkEndTypes ==
  ASSUME TypeOK, Flags, LinkEnds
  PROVE  TypeOK' /\ Flags'
PROOF
  <1>1. ServiceTypeOK'
    BY DEF LinkEnds, TypeOK, ServiceTypeOK
  <1>2. QueueTypeOK'
    <2>1. queue' \in Seq(Commands)
      <3>0. << >> \in Seq(Commands)
        OBVIOUS
      <3>1. queue \in Seq(Commands)
        BY DEF TypeOK, QueueTypeOK
      <3>2. queue' = << >> \/ queue' = queue
        BY DEF LinkEnds, clear
      <3> QED BY <3>0, <3>1, <3>2
    <2>2. busy' \in BOOLEAN
      BY Zenon DEF LinkEnds, clear, TypeOK, QueueTypeOK
    <2> QED BY <2>1, <2>2 DEF LinkEnds, TypeOK, QueueTypeOK
  <1>3. faults' \in 0 .. MaxFaults
    BY FaultBound DEF LinkEnds, TypeOK
  <1>4. Flags'
    BY DEF LinkEnds, Flags
  <1> QED BY <1>1, <1>2, <1>3, <1>4 DEF LinkEnds, TypeOK

(* Every step keeps the types and the flags.                               *)
LEMMA TypesKept ==
  ASSUME TypeOK, Flags, Next
  PROVE  TypeOK' /\ Flags'
PROOF
  <1> DEFINE Names4 == {"overlap", "refused", "leftover", "in flight"}
  <1>1. ASSUME QueueTypeOK',
               UNCHANGED << svcVars, stackVars, job, faults >>,
               incidents' = IF Overlap THEN incidents \union {"overlap"} ELSE incidents
        PROVE  TypeOK' /\ Flags'
    <2>1. ServiceTypeOK' /\ Flags'
      BY <1>1 DEF TypeOK, ServiceTypeOK, Flags, svcVars, stackVars
    <2>2. incidents' \subseteq Names4
      BY <1>1 DEF TypeOK
    <2> QED BY <1>1, <2>1, <2>2 DEF TypeOK, stackVars
  <1>2. CASE AddCommand
    <2>1. QueueTypeOK'
      BY <1>2, QueueStepTypes DEF AddCommand, QueueStep, TypeOK
    <2> QED BY <1>1, <1>2, <2>1 DEF AddCommand, QueueStep
  <1>3. CASE Poll
    <2>1. QueueTypeOK'
      BY <1>3, QueueStepTypes DEF Poll, QueueStep, TypeOK
    <2> QED BY <1>1, <1>3, <2>1 DEF Poll, QueueStep
  <1>4. CASE ProcessNext
    <2>1. QueueTypeOK'
      BY <1>4, QueueStepTypes DEF ProcessNext, QueueStep, TypeOK
    <2> QED BY <1>1, <1>4, <2>1 DEF ProcessNext, QueueStep
  <1>5. CASE LaunchHead
    <2>1. QueueTypeOK'
      BY <1>5, QueueStepTypes DEF LaunchHead, QueueStep, TypeOK
    <2> QED BY <1>1, <1>5, <2>1 DEF LaunchHead, QueueStep
  <1>6. CASE \E c \in Commands : Execute(c)
    BY <1>6, ExecuteTypes
  <1>7. CASE onCharacteristicRead
    <2>1. QueueTypeOK'
      BY <1>7, QueueStepTypes DEF onCharacteristicRead, TypeOK
    <2>2. ServiceTypeOK' /\ Flags'
      BY <1>7 DEF onCharacteristicRead, TypeOK, ServiceTypeOK, Flags, svcVars
    <2>3. incidents' \subseteq Names4
      BY <1>7 DEF onCharacteristicRead, TypeOK
    <2> QED BY <1>7, <2>1, <2>2, <2>3 DEF onCharacteristicRead, TypeOK
  <1>8. CASE onDescriptorWrite
    <2>1. QueueTypeOK'
      BY <1>8, QueueStepTypes DEF onDescriptorWrite, TypeOK
    <2>2. /\ \/ /\ notificationReady' = TRUE /\ con_sem' = con_sem + 1
                /\ enabled' = TRUE /\ UNCHANGED faults
             \/ Fault /\ UNCHANGED << notificationReady, con_sem, enabled >>
          /\ incidents' \subseteq incidents \union Names4
      BY <1>8 DEF onDescriptorWrite
    <2>8. con_sem' = con_sem + 1 \/ con_sem' = con_sem
      BY <2>2
    <2>9. con_sem \in Nat
      BY DEF TypeOK, ServiceTypeOK
    <2>7. con_sem' \in Nat
      BY <2>8, <2>9
    <2>3. ServiceTypeOK' /\ Flags'
      BY <1>8, <2>2, <2>7 DEF onDescriptorWrite, TypeOK, ServiceTypeOK, Flags
    <2>4. faults' \in 0 .. MaxFaults
      BY <2>2, FaultBound DEF TypeOK
    <2>5. incidents' \subseteq Names4
      BY <2>2 DEF TypeOK
    <2>6. enabled' \in BOOLEAN
      BY <2>2 DEF TypeOK
    <2> QED BY <1>8, <2>1, <2>3, <2>4, <2>5, <2>6 DEF onDescriptorWrite, TypeOK
  <1>9. CASE Connected
    <2>3. links' \in 1 .. MaxLinks
      <3>1. links \in 0 .. MaxLinks /\ links < MaxLinks /\ links' = links + 1
        BY <1>9 DEF Connected, TypeOK
      <3> QED BY <3>1, Bounds
    <2>4. links' # 0 /\ links' \in 0 .. MaxLinks
      BY <2>3, Bounds
    <2>1. ServiceTypeOK' /\ Flags'
      BY <1>9, <2>4 DEF Connected, TypeOK, ServiceTypeOK, Flags
    <2>2. QueueTypeOK'
      BY <1>9 DEF Connected, TypeOK, QueueTypeOK, queueVars
    <2> QED BY <1>9, <2>1, <2>2, <2>4 DEF Connected, TypeOK
  <1>10. CASE onServicesDiscovered
    <2>1. ServiceTypeOK' /\ Flags'
      BY <1>10 DEF onServicesDiscovered, ServicesDiscovered, TypeOK, ServiceTypeOK,
                   Flags, stackVars
    <2>3. CommandsFor(Names) \subseteq Commands
      BY <1>10, DiscoveredCommands DEF onServicesDiscovered, ServicesDiscovered
    <2>4. adding' \subseteq Commands
      BY <1>10, <2>3 DEF onServicesDiscovered, TypeOK, QueueTypeOK
    <2>5. QueueTypeOK'
      BY <1>10, <2>4 DEF onServicesDiscovered, TypeOK, QueueTypeOK
    <2> QED BY <1>10, <2>1, <2>5 DEF onServicesDiscovered, TypeOK, stackVars
  <1>11. CASE acquire
    <2>4. con_sem \in Nat /\ con_sem > 0 /\ con_sem' = con_sem - 1
      BY <1>11 DEF acquire, TypeOK, ServiceTypeOK
    <2>3. con_sem' \in Nat
      BY <2>4
    <2>1. ServiceTypeOK' /\ Flags'
      BY <1>11, <2>3 DEF acquire, TypeOK, ServiceTypeOK, Flags, stackVars
    <2>2. QueueTypeOK'
      BY <1>11 DEF acquire, TypeOK, QueueTypeOK, queueVars
    <2> QED BY <1>11, <2>1, <2>2 DEF acquire, TypeOK, stackVars
  <1>12. CASE LinkEnd
    BY <1>12, LinkEnding, LinkEndTypes
  <1>13. CASE connect
    <2>1. /\ gatt' \in {"null", "connecting", "connected"}
          /\ user_retry' \in 0 .. USER_RETRY
          /\ gatt' # "connected"
      BY <1>13, ConnectTypes DEF connect, TypeOK, ServiceTypeOK
    <2>2. ServiceTypeOK' /\ Flags'
      BY <1>13, <2>1 DEF connect, TypeOK, ServiceTypeOK, Flags
    <2>3. QueueTypeOK'
      BY <1>13 DEF connect, TypeOK, QueueTypeOK, queueVars
    <2> QED BY <1>13, <2>2, <2>3 DEF connect, TypeOK, stackVars
  <1>14. CASE connectIfNeeded
    <2>1. ServiceTypeOK' /\ Flags'
      BY <1>14 DEF connectIfNeeded, TypeOK, ServiceTypeOK, Flags, svcVars, stackVars
    <2>2. QueueTypeOK'
      BY <1>14 DEF connectIfNeeded, TypeOK, QueueTypeOK, queueVars
    <2> QED BY <1>14, <2>1, <2>2 DEF connectIfNeeded, TypeOK, stackVars
  <1>15. CASE DrainAndReconnect
    <2>1. /\ gatt' \in {"null", "connecting", "connected"}
          /\ user_retry' \in 0 .. USER_RETRY
          /\ gatt' = "connected" <=> gatt = "connected"
      BY <1>15, ConnectTypes DEF DrainAndReconnect, TypeOK, ServiceTypeOK
    <2>2. ServiceTypeOK' /\ Flags'
      BY <1>15, <2>1 DEF DrainAndReconnect, TypeOK, ServiceTypeOK, Flags, stackVars
    <2>3. QueueTypeOK'
      BY <1>15 DEF DrainAndReconnect, TypeOK, QueueTypeOK, queueVars
    <2> QED BY <1>15, <2>2, <2>3 DEF DrainAndReconnect, TypeOK, stackVars
  <1> QED
    BY <1>2, <1>3, <1>4, <1>5, <1>6, <1>7, <1>8, <1>9, <1>10, <1>11, <1>12, <1>13,
       <1>14, <1>15 DEF Next, Progress, LinkEnd

-------------------------------------------------------------------------------
(* Turns at the queue. *)

(* An empty queue: nobody is at it.                                        *)
LEMMA TurnsStart == Init => TurnsTaken
PROOF
  <1> SUFFICES ASSUME Init PROVE TurnsTaken
    OBVIOUS
  <1>1. /\ \A t \in Threads : pc[t] = "idle"
        /\ \A c \in Commands : launched[c] = 0
        /\ op = NoOp /\ queue = << >> /\ adding = {} /\ busy = FALSE
    BY DEF Init, QueueInit
  <1>2. OneThread
    BY <1>1 DEF OneThread, Threads
  <1>3. OneInProgress
    BY <1>1, NoOpIsNoCommand DEF OneInProgress, Idle
  <1>4. TakesHead
    BY <1>1 DEF TakesHead
  <1>5. OfThisLink
    BY <1>1 DEF OfThisLink
  <1> QED BY <1>2, <1>3, <1>4, <1>5 DEF TurnsTaken

(* A step on the queue that is no incident finds one thread in it and      *)
(* leaves one.                                                             *)
LEMMA NoOverlap ==
  ASSUME incidents' = IF Overlap THEN incidents \union {"overlap"} ELSE incidents,
         incidents' = {}
  PROVE  incidents = {} /\ OneThread'
PROOF
  <1>1. ~ Overlap
    <2> SUFFICES ASSUME Overlap PROVE FALSE
      OBVIOUS
    <2> QED OBVIOUS
  <1>2. \E t \in Threads : pc'[t] = "idle"
    BY <1>1 DEF Overlap
  <1> QED BY <1>1, <1>2 DEF OneThread, Threads

(* The head of a queue that has one stays when a command is added.         *)
LEMMA AddKeepsHead ==
  ASSUME NEW q \in Seq(Commands), NEW c \in Commands
  PROVE  /\ Append(q, c) # << >>
         /\ q # << >> => Head(Append(q, c)) = Head(q)
PROOF
  <1>1. Append(q, c) # << >>
    <2>1. Len(Append(q, c)) # 0
      OBVIOUS
    <2>2. Len(<< >>) = 0
      OBVIOUS
    <2>3. ASSUME Append(q, c) = << >> PROVE FALSE
      BY <2>1, <2>2, <2>3, Zenon
    <2> QED BY <2>3
  <1>2. ASSUME q # << >> PROVE Head(Append(q, c)) = Head(q)
    <2>1. Len(q) \in Nat /\ Len(q) # 0
      BY <1>2
    <2>2. 1 \in 1 .. Len(q)
      BY <2>1
    <2>3. Append(q, c)[1] = q[1]
      BY <2>2
    <2> QED BY <1>2, <2>3
  <1> QED BY <1>1, <1>2

(* add, with the coroutine's turn to come.                                 *)
LEMMA AddTurn ==
  ASSUME IInv, AddCommand, incidents' = {}
  PROVE  OneThread' /\ OneInProgress' /\ TakesHead' /\ OfThisLink'
PROOF
  <1>1. incidents = {} /\ OneThread'
    BY NoOverlap DEF AddCommand, QueueStep
  <1>2. OneThread /\ OneInProgress /\ TakesHead /\ OfThisLink
    BY <1>1 DEF IInv, TurnsTaken
  <1>3. PICK c \in adding : add(c)
    BY DEF AddCommand, QueueStep
  <1>4. c \in Commands /\ queue \in Seq(Commands)
    BY DEF IInv, TypeOK, QueueTypeOK
  <1>5. /\ queue' # << >>
        /\ queue # << >> => Head(queue') = Head(queue)
    BY <1>3, <1>4, AddKeepsHead DEF add
  <1>6. /\ op' = op /\ handles' = handles /\ busy' = busy /\ launched' = launched
        /\ pc' = [pc EXCEPT !["add"] = "test"]
    BY <1>3 DEF AddCommand, QueueStep, svcVars, stackVars, add
  <1>7. \A t \in Threads : pc'[t] = IF t = "add" THEN "test" ELSE pc[t]
    BY <1>6 DEF IInv, TypeOK, QueueTypeOK
  <1>8. CallbackIdle' <=> CallbackIdle
    BY <1>7 DEF CallbackIdle, Threads
  <1>9. OneInProgress'
    <2>1. CASE busy
      BY <1>2, <1>5, <1>6, <1>8, <2>1 DEF OneInProgress, Idle
    <2>2. CASE ~ busy
      <3>1. Idle
        BY <1>2, <2>2 DEF OneInProgress
      <3> QED BY <1>6, <2>2, <3>1, NoOpIsNoCommand DEF OneInProgress, Idle
    <2> QED BY <2>1, <2>2
  <1>10. TakesHead'
    BY <1>2, <1>5, <1>6, <1>7 DEF TakesHead
  <1>11. OfThisLink'
    BY <1>2, <1>3, <1>6 DEF OfThisLink
  <1> QED BY <1>1, <1>9, <1>10, <1>11

(* A completion: it is the head's, and nothing else is in progress.        *)
LEMMA CompletionTurn ==
  ASSUME IInv, op \in Commands, op' = NoOp, completeCommand, handles' = handles,
         incidents = {}, OneThread'
  PROVE  OneThread' /\ OneInProgress' /\ TakesHead' /\ OfThisLink'
PROOF
  <1>1. OneThread /\ OneInProgress /\ TakesHead /\ OfThisLink
    BY DEF IInv, TurnsTaken
  <1>2. op # NoOp
    BY NoOpIsNoCommand
  <1>3. /\ busy' = FALSE /\ adding' = adding /\ queue' = queue /\ launched' = launched
        /\ pc' = [pc EXCEPT !["callback"] = "poll"]
    BY DEF completeCommand
  <1>4. \A c \in Commands : launched[c] = 0
    BY <1>1, <1>2 DEF OneInProgress
  <1>5. OneInProgress'
    BY <1>3, <1>4, NoOpIsNoCommand DEF OneInProgress, Idle
  <1>6. \A t \in Threads : pc'[t] = IF t = "callback" THEN "poll" ELSE pc[t]
    BY <1>3 DEF IInv, TypeOK, QueueTypeOK
  <1>7. TakesHead'
    BY <1>1, <1>3, <1>6 DEF TakesHead
  <1>8. OfThisLink'
    BY <1>1, <1>3 DEF OfThisLink
  <1> QED BY <1>5, <1>7, <1>8

(* queue.poll: the head that is taken off is not in progress any more.     *)
LEMMA PollTurn ==
  ASSUME IInv, Poll, incidents' = {}
  PROVE  OneThread' /\ OneInProgress' /\ TakesHead' /\ OfThisLink'
PROOF
  <1>1. incidents = {} /\ OneThread'
    BY NoOverlap DEF Poll, QueueStep
  <1>2. OneThread /\ OneInProgress /\ TakesHead /\ OfThisLink
    BY <1>1 DEF IInv, TurnsTaken
  <1>3. /\ pc["callback"] = "poll"
        /\ adding' = adding /\ busy' = busy /\ launched' = launched
        /\ op' = op /\ handles' = handles
        /\ queue = << >> => queue' = queue
        /\ pc' = [pc EXCEPT !["callback"] = IF queue = << >> THEN "idle" ELSE "test"]
    BY DEF Poll, QueueStep, svcVars, stackVars, pollQueue
  <1>4. \A t \in Threads :
          pc'[t] = IF t = "callback" THEN IF queue = << >> THEN "idle" ELSE "test" ELSE pc[t]
    BY <1>3 DEF IInv, TypeOK, QueueTypeOK
  <1>5. ~ busy
    BY <1>2, <1>3 DEF OneInProgress, CallbackIdle
  <1>6. Idle
    BY <1>2, <1>5 DEF OneInProgress
  <1>7. OneInProgress'
    BY <1>3, <1>5, <1>6, NoOpIsNoCommand DEF OneInProgress, Idle
  <1>8. TakesHead'
    <2>1. pc["add"] = "idle"
      BY <1>2, <1>3 DEF OneThread
    <2>2. \A t \in Threads : pc'[t] # "take"
      BY <1>4, <2>1 DEF Threads
    <2> QED BY <2>2 DEF TakesHead
  <1>9. OfThisLink'
    BY <1>2, <1>3 DEF OfThisLink
  <1> QED BY <1>1, <1>7, <1>8, <1>9

(* processNextInQueue: a thread that goes on has seen that busy is not set. *)
LEMMA ProcessTurn ==
  ASSUME IInv, ProcessNext, incidents' = {}
  PROVE  OneThread' /\ OneInProgress' /\ TakesHead' /\ OfThisLink'
PROOF
  <1>1. incidents = {} /\ OneThread'
    BY NoOverlap DEF ProcessNext, QueueStep
  <1>2. OneThread /\ OneInProgress /\ TakesHead /\ OfThisLink
    BY <1>1 DEF IInv, TurnsTaken
  <1>3. PICK t \in Threads : processNextInQueue(t)
    BY DEF ProcessNext, QueueStep
  <1>4. /\ pc[t] = "test"
        /\ adding' = adding /\ queue' = queue /\ busy' = busy /\ launched' = launched
        /\ op' = op /\ handles' = handles
    BY <1>3 DEF ProcessNext, QueueStep, svcVars, stackVars, processNextInQueue
  <1>5. \A u \in Threads :
          pc'[u] = IF u = t THEN IF busy \/ queue = << >> THEN "idle" ELSE "take" ELSE pc[u]
    BY <1>3 DEF processNextInQueue, IInv, TypeOK, QueueTypeOK
  <1>6. CallbackIdle => CallbackIdle'
    BY <1>4, <1>5 DEF CallbackIdle, Threads
  <1>7. OneInProgress'
    BY <1>2, <1>4, <1>6 DEF OneInProgress, Idle
  <1>8. TakesHead'
    <2> SUFFICES ASSUME NEW u \in Threads, pc'[u] = "take"
                 PROVE  ~ busy /\ queue # << >>
      BY <1>4 DEF TakesHead
    <2>1. CASE u = t
      BY <1>5, <2>1
    <2>2. CASE u # t
      BY <1>2, <1>5, <2>2 DEF TakesHead
    <2> QED BY <2>1, <2>2
  <1>9. OfThisLink'
    BY <1>2, <1>4 DEF OfThisLink
  <1> QED BY <1>1, <1>7, <1>8, <1>9

(* The head is launched: nothing was in progress.                          *)
LEMMA LaunchTurn ==
  ASSUME IInv, LaunchHead, incidents' = {}
  PROVE  OneThread' /\ OneInProgress' /\ TakesHead' /\ OfThisLink'
PROOF
  <1>1. incidents = {} /\ OneThread'
    BY NoOverlap DEF LaunchHead, QueueStep
  <1>2. OneThread /\ OneInProgress /\ TakesHead /\ OfThisLink
    BY <1>1 DEF IInv, TurnsTaken
  <1>3. PICK t \in Threads : launchHead(t)
    BY DEF LaunchHead, QueueStep
  <1>4. ~ busy /\ queue # << >>
    BY <1>2, <1>3 DEF launchHead, TakesHead
  <1>5. Idle
    BY <1>2, <1>4 DEF OneInProgress
  <1>6. Head(queue) \in Commands
    <2>1. queue \in Seq(Commands)
      BY DEF IInv, TypeOK, QueueTypeOK
    <2> QED BY <1>4, <2>1
  <1>7. /\ adding' = adding /\ queue' = queue /\ busy' = TRUE
        /\ launched' = [launched EXCEPT ![Head(queue)] = @ + 1]
        /\ op' = op /\ handles' = handles
    BY <1>3, <1>4 DEF LaunchHead, QueueStep, svcVars, stackVars, launchHead
  <1>8. \A c \in Commands : launched'[c] = IF c = Head(queue) THEN 1 ELSE 0
    <2>1. launched \in [Commands -> Nat]
      BY DEF IInv, TypeOK, QueueTypeOK
    <2>2. \A c \in Commands : launched[c] = 0
      BY <1>5 DEF Idle
    <2>3. launched' = [launched EXCEPT ![Head(queue)] = @ + 1]
      BY <1>7
    <2> QED BY <1>6, <2>1, <2>2, <2>3
  <1>9. \A u \in Threads : pc'[u] = "idle"
    <2>1. \A u \in Threads : pc'[u] = IF u = t THEN "idle" ELSE pc[u]
      BY <1>3 DEF launchHead, IInv, TypeOK, QueueTypeOK
    <2>2. pc[t] = "take"
      BY <1>3 DEF launchHead
    <2> QED BY <1>2, <2>1, <2>2 DEF OneThread, Threads
  <1>10. OneInProgress'
    <2>1. \A c \in Commands : launched'[c] # 0 => c = Head(queue) /\ launched'[c] = 1
      BY <1>8
    <2>2. launched'[Head(queue)] # 0
      BY <1>6, <1>8
    <2>3. op' = NoOp
      BY <1>5, <1>7 DEF Idle
    <2>4. ~ Idle'
      BY <1>6, <2>2 DEF Idle
    <2>5. CallbackIdle'
      BY <1>9 DEF CallbackIdle, Threads
    <2>6. queue' = queue /\ busy' = TRUE
      BY <1>7
    <2> QED BY <1>4, <2>1, <2>3, <2>4, <2>5, <2>6, NoOpIsNoCommand DEF OneInProgress
  <1>11. TakesHead'
    BY <1>9 DEF TakesHead
  <1>12. OfThisLink'
    BY <1>2, <1>7 DEF OfThisLink
  <1> QED BY <1>1, <1>10, <1>11, <1>12

(* The stack takes the launched command.                                   *)
LEMMA ExecuteTurn ==
  ASSUME IInv, NEW c \in Commands, Execute(c), incidents' = {}
  PROVE  OneThread' /\ OneInProgress' /\ TakesHead' /\ OfThisLink'
PROOF
  <1>1. incidents = {} /\ op = NoOp /\ op' = c
    BY DEF Execute
  <1>2. OneThread /\ OneInProgress /\ TakesHead /\ OfThisLink
    BY <1>1 DEF IInv, TurnsTaken
  <1>3. /\ adding' = adding /\ queue' = queue /\ busy' = busy /\ pc' = pc
        /\ handles' = handles
    BY DEF Execute, svcVars
  <1>4. launched[c] # 0 /\ launched[c] \in Nat
    <2>1. launched[c] > 0 /\ launched[c] \in Nat
      BY DEF Execute, IInv, TypeOK, QueueTypeOK
    <2> QED BY <2>1
  <1>5. launched[c] = 1 /\ c = Head(queue)
    BY <1>2, <1>4 DEF OneInProgress
  <1>6. \A d \in Commands : launched'[d] = 0
    <2>1. launched' = [launched EXCEPT ![c] = @ - 1] /\ launched \in [Commands -> Nat]
      BY DEF Execute, IInv, TypeOK, QueueTypeOK
    <2>2. launched'[c] = 0
      BY <1>5, <2>1
    <2>3. ASSUME NEW d \in Commands, d # c PROVE launched'[d] = 0
      <3>1. launched'[d] = launched[d]
        BY <2>1, <2>3
      <3>2. launched[d] # 0 => d = Head(queue)
        BY <1>2 DEF OneInProgress
      <3> QED BY <1>5, <2>3, <3>1, <3>2
    <2> QED BY <2>2, <2>3
  <1>7. busy
    BY <1>2, <1>4 DEF OneInProgress, Idle
  <1>8. OneInProgress'
    <2>1. ~ Idle'
      BY <1>1, NoOpIsNoCommand DEF Idle
    <2>2. queue # << >> /\ CallbackIdle
      BY <1>2, <1>7 DEF OneInProgress
    <2>3. CallbackIdle'
      BY <1>3, <2>2 DEF CallbackIdle
    <2> QED BY <1>1, <1>3, <1>5, <1>6, <1>7, <2>1, <2>2, <2>3 DEF OneInProgress
  <1>9. OneThread' /\ TakesHead' /\ OfThisLink'
    BY <1>2, <1>3 DEF OneThread, TakesHead, OfThisLink
  <1> QED BY <1>8, <1>9

(* A link that ends without an incident has left nothing behind.           *)
LEMMA LinkEndTurn ==
  ASSUME IInv, LinkEnds, incidents' = {}
  PROVE  OneThread' /\ OneInProgress' /\ TakesHead' /\ OfThisLink'
PROOF
  <1>1. incidents = {} /\ InFlight = {}
    BY DEF LinkEnds
  <1>2. OneThread /\ OneInProgress /\ TakesHead /\ OfThisLink
    BY <1>1 DEF IInv, TurnsTaken
  <1>3. /\ adding' = {}
        /\ \A c \in Commands : ~ (launched[c] > 0)
        /\ \A t \in Threads : pc[t] = "idle"
    BY <1>1 DEF InFlight
  <1>4. \A c \in Commands : launched[c] = 0
    <2>1. \A c \in Commands : launched[c] \in Nat
      BY DEF IInv, TypeOK, QueueTypeOK
    <2> QED BY <1>3, <2>1
  <1>5. queue' = << >> /\ busy' = FALSE
    <2>1. CASE clear
      BY <2>1 DEF clear
    <2>2. CASE Leftover \subseteq incidents' /\ UNCHANGED << queue, busy >>
      <3>1. queue = << >>
        BY <2>2 DEF Leftover
      <3>2. ~ busy /\ busy \in BOOLEAN
        BY <1>2, <3>1 DEF OneInProgress, IInv, TypeOK, QueueTypeOK
      <3> QED BY <2>2, <3>1, <3>2
    <2> QED BY <2>1, <2>2 DEF LinkEnds
  <1>6. op' = NoOp /\ adding' = {} /\ launched' = launched /\ pc' = pc
    BY <1>3 DEF LinkEnds
  <1>7. OneInProgress'
    BY <1>4, <1>5, <1>6, NoOpIsNoCommand DEF OneInProgress, Idle
  <1>8. OneThread' /\ TakesHead'
    BY <1>3, <1>6 DEF OneThread, TakesHead, Threads
  <1>9. OfThisLink'
    BY <1>5, <1>6 DEF OfThisLink
  <1> QED BY <1>7, <1>8, <1>9

(* A step that does not concern the queue keeps the turns.                 *)
LEMMA TurnsUnmoved ==
  ASSUME TurnsTaken, UNCHANGED << queueVars, op, handles, incidents >>
  PROVE  TurnsTaken'
PROOF
  BY DEF TurnsTaken, OneThread, OneInProgress, Idle, CallbackIdle, TakesHead, OfThisLink,
         queueVars

(* The completion of a read or of the descriptor write is a completion.    *)
LEMMA OpCompletes ==
  ASSUME IInv, onCharacteristicRead \/ onDescriptorWrite, incidents' = {}
  PROVE  /\ op \in Commands /\ op' = NoOp /\ completeCommand /\ handles' = handles
         /\ incidents = {} /\ OneThread'
PROOF
  <1>1. CASE onCharacteristicRead
    <2>1. op.name \in Names
      BY <1>1 DEF onCharacteristicRead, Names
    <2>2. op \in Commands
      BY <2>1, NoOpIsNoCommand DEF IInv, TypeOK
    <2>3. incidents = {} /\ OneThread'
      BY <1>1, NoOverlap DEF onCharacteristicRead
    <2> QED BY <1>1, <2>2, <2>3 DEF onCharacteristicRead, svcVars
  <1>2. CASE onDescriptorWrite
    <2>1. op.name \in Names
      BY <1>2 DEF onDescriptorWrite, Names
    <2>2. op \in Commands
      BY <2>1, NoOpIsNoCommand DEF IInv, TypeOK
    <2>3. incidents' = IF Overlap THEN incidents \union {"overlap"} ELSE incidents
      BY <1>2 DEF onDescriptorWrite
    <2>4. incidents = {} /\ OneThread'
      BY <2>3, NoOverlap
    <2> QED BY <1>2, <2>2, <2>4 DEF onDescriptorWrite
  <1> QED BY <1>1, <1>2

(* Every step keeps the turns.                                             *)
LEMMA TurnsKept ==
  ASSUME IInv, Next
  PROVE  TurnsTaken'
PROOF
  <1> USE DEF TurnsTaken
  <1>1. CASE AddCommand
    BY <1>1, AddTurn
  <1>2. CASE Poll
    BY <1>2, PollTurn
  <1>3. CASE ProcessNext
    BY <1>3, ProcessTurn
  <1>4. CASE LaunchHead
    BY <1>4, LaunchTurn
  <1>5. CASE \E c \in Commands : Execute(c)
    BY <1>5, ExecuteTurn
  <1>6. CASE onCharacteristicRead \/ onDescriptorWrite
    BY <1>6, OpCompletes, CompletionTurn
  <1>7. CASE LinkEnd
    BY <1>7, LinkEnding, LinkEndTurn DEF IInv
  <1>8. CASE Connected \/ acquire \/ connect \/ connectIfNeeded \/ DrainAndReconnect
    <2>1. UNCHANGED << queueVars, op, handles, incidents >>
      BY <1>8 DEF Connected, acquire, connect, connectIfNeeded, DrainAndReconnect, svcVars,
                  stackVars
    <2> QED BY <2>1, TurnsUnmoved DEF IInv
  <1>9. CASE onServicesDiscovered
    <2>1. /\ UNCHANGED << queue, busy, launched, pc, op, incidents >>
          /\ handles' = TRUE
      BY <1>9 DEF onServicesDiscovered, ServicesDiscovered, stackVars
    <2>2. SUFFICES ASSUME incidents = {}
                   PROVE  OneThread' /\ OneInProgress' /\ TakesHead' /\ OfThisLink'
      BY <2>1
    <2>3. OneThread /\ OneInProgress /\ TakesHead
      BY <2>2 DEF IInv
    <2>4. OneThread' /\ OneInProgress' /\ TakesHead'
      BY <2>1, <2>3 DEF OneThread, OneInProgress, Idle, CallbackIdle, TakesHead
    <2>5. OfThisLink'
      BY <2>1 DEF OfThisLink
    <2> QED BY <2>4, <2>5
  <1> QED
    BY <1>1, <1>2, <1>3, <1>4, <1>5, <1>6, <1>7, <1>8, <1>9 DEF Next, Progress, LinkEnd

-------------------------------------------------------------------------------
(* The theorems. *)

(* Every step, and every stutter, keeps the invariant ...                  *)
LEMMA IInvStep == IInv /\ [Next]_vars => IInv'
PROOF
  <1> SUFFICES ASSUME IInv, [Next]_vars PROVE IInv'
    OBVIOUS
  <1>1. CASE Next
    BY <1>1, TypesKept, TurnsKept DEF IInv
  <1>2. CASE UNCHANGED vars
    <2>1. TypeOK' /\ Flags'
      BY <1>2 DEF IInv, TypeOK, Flags, ServiceTypeOK, QueueTypeOK, vars, svcVars, queueVars,
                  stackVars
    <2>2. UNCHANGED << queueVars, op, handles, incidents >>
      BY <1>2 DEF vars, svcVars, stackVars
    <2>3. TurnsTaken'
      BY <2>2, TurnsUnmoved DEF IInv
    <2> QED BY <2>1, <2>3 DEF IInv
  <1> QED BY <1>1, <1>2

(* ... so it holds for ever.                                               *)
LEMMA Invariant == Spec => []IInv
PROOF
  <1>1. Init => IInv
    BY TypesStart, TurnsStart DEF IInv
  <1> QED BY <1>1, IInvStep, PTL DEF Spec

(* The service, its queue and the stack keep their types, whatever faults  *)
(* the links have.                                                         *)
THEOREM TypeCorrect == Spec => []TypeOK
PROOF
  <1>1. IInv => TypeOK
    BY DEF IInv
  <1> QED BY <1>1, Invariant, PTL

(* Without an incident the command in progress is the head of the queue,   *)
(* and busy is set only while a completion is to come: completeCommand     *)
(* takes off the right command and the queue does not stall.               *)
THEOREM QueueInStep == Spec => []HeadInProgress
PROOF
  <1>1. IInv => HeadInProgress
    <2> SUFFICES ASSUME IInv, incidents = {}
                 PROVE  /\ \A c \in Commands : launched[c] > 0 \/ op = c =>
                              queue # << >> /\ c = Head(queue) /\ busy
                        /\ busy /\ CallbackIdle =>
                              op # NoOp \/ \E c \in Commands : launched[c] > 0
      BY DEF HeadInProgress
    <2>1. OneInProgress
      BY DEF IInv, TurnsTaken
    <2>2. \A c \in Commands : launched[c] > 0 <=> launched[c] # 0
      <3>1. \A c \in Commands : launched[c] \in Nat
        BY DEF IInv, TypeOK, QueueTypeOK
      <3> QED BY <3>1
    <2>3. ASSUME NEW c \in Commands, launched[c] # 0 \/ op = c
          PROVE  queue # << >> /\ c = Head(queue) /\ busy
      <3>1. busy
        BY <2>1, <2>3, NoOpIsNoCommand DEF OneInProgress, Idle
      <3> QED BY <2>1, <2>3, <3>1 DEF OneInProgress
    <2>4. busy => op # NoOp \/ \E c \in Commands : launched[c] # 0
      BY <2>1 DEF OneInProgress, Idle
    <2> QED BY <2>2, <2>3, <2>4
  <1> QED BY <1>1, Invariant, PTL

(* con_sem gets a permit only from onDescriptorWrite, and without an       *)
(* incident the descriptor that was written is of the link whose           *)
(* characteristics the service holds.                                      *)
THEOREM PermitIsReady == Spec => PermitMeansReady
PROOF
  <1>1. ASSUME IInv, [Next]_vars, con_sem' > con_sem, incidents' = {}
        PROVE  IsConnected' /\ enabled'
    <2>0. con_sem \in Nat
      BY <1>1 DEF IInv, TypeOK, ServiceTypeOK
    <2>1. con_sem' # con_sem
      BY <1>1, <2>0
    <2>2. onDescriptorWrite
      <3>1. ~ acquire
        <4> SUFFICES ASSUME acquire PROVE FALSE
          OBVIOUS
        <4>1. con_sem' = con_sem - 1
          BY DEF acquire
        <4> QED BY <1>1, <2>0, <4>1
      <3>2. ~ DrainAndReconnect
        <4> SUFFICES ASSUME DrainAndReconnect PROVE FALSE
          OBVIOUS
        <4>1. con_sem' = 0
          BY DEF DrainAndReconnect
        <4> QED BY <1>1, <2>0, <4>1
      <3>3. ~ (AddCommand \/ Poll \/ ProcessNext \/ LaunchHead)
        BY <2>1 DEF AddCommand, Poll, ProcessNext, LaunchHead, QueueStep, svcVars
      <3>4. ~ (onCharacteristicRead \/ \E c \in Commands : Execute(c))
        BY <2>1 DEF onCharacteristicRead, Execute, svcVars
      <3>5. ~ (Connected \/ onServicesDiscovered \/ connect \/ connectIfNeeded)
        BY <2>1 DEF Connected, onServicesDiscovered, ServicesDiscovered, connect,
                    connectIfNeeded, svcVars
      <3>7. ~ LinkEnd
        BY <2>1 DEF LinkEnd, LinkGone, DiscoveryFails, HandleMissing, LinkLost, LinkError,
                    disconnect
      <3>6. ~ UNCHANGED vars
        BY <2>1 DEF vars, svcVars
      <3> QED BY <1>1, <3>1, <3>2, <3>3, <3>4, <3>5, <3>6, <3>7
          DEF Next, Progress, LinkEnd
    <2>3. op \in Commands /\ incidents = {}
      BY <1>1, <2>2, OpCompletes
    <2>4. OneInProgress /\ OfThisLink
      BY <1>1, <2>3 DEF IInv, TurnsTaken
    <2>5. busy
      BY <2>3, <2>4, NoOpIsNoCommand DEF OneInProgress, Idle
    <2>6. handles /\ servicesReady
      BY <1>1, <2>4, <2>5 DEF OneInProgress, OfThisLink, IInv, Flags
    <2>7. notificationReady' = TRUE /\ enabled' = TRUE
      BY <1>1, <2>1, <2>2 DEF onDescriptorWrite
    <2>8. handles' = handles /\ servicesReady' = servicesReady
      BY <2>2 DEF onDescriptorWrite
    <2> QED BY <2>6, <2>7, <2>8 DEF IsConnected
  <1>2. IInv /\ [Next]_vars =>
          [con_sem' > con_sem => incidents' # {} \/ (IsConnected' /\ enabled')]_vars
    BY <1>1
  <1> QED BY <1>2, Invariant, PTL DEF Spec, PermitMeansReady
================================================================================
