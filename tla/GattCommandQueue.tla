---------------------------- MODULE GattCommandQueue ----------------------------
(***************************************************************************)
(* The phone's queue of GATT commands (CommandQueues.kt).  The head of the  *)
(* queue is the command being executed; the callback of its completion     *)
(* takes it off and starts the next.  add runs in a coroutine under a      *)
(* mutex, completeCommand and clear run on other threads without it, so    *)
(* the steps of one interleave with the steps of the other.  A step is one *)
(* access to the list, together with the accesses to busy next to it.      *)
(***************************************************************************)
EXTENDS Integers, Sequences, FiniteSets

CONSTANTS
  Reads,      \* characteristics read for information only
  MaxLinks    \* bound on the number of links made

ASSUME QueueAssumption ==
  /\ "setup notify" \notin Reads /\ "none" \notin Reads
  /\ MaxLinks \in Nat \ {0}

(* The PieceOfWork objects: a discovery of services makes one for every    *)
(* characteristic to read and one for the notification.                    *)
Names == Reads \union {"setup notify"}
Commands == [link: 1 .. MaxLinks, name: Names]

VARIABLES
  adding,     \* commands whose coroutine of add waits for the mutex
  queue,
  busy,
  launched,   \* how many coroutines are about to execute each command
  pc          \* where the holder of the mutex and the callback thread are

queueVars == << adding, queue, busy, launched, pc >>

Threads == {"add", "callback"}

QueueTypeOK ==
  /\ adding \subseteq Commands
  /\ queue \in Seq(Commands)
  /\ busy \in BOOLEAN
  /\ launched \in [Commands -> Nat]
  /\ pc \in [Threads -> {"idle", "poll", "test", "take"}]

QueueInit ==
  /\ adding = {}
  /\ queue = << >>
  /\ busy = FALSE
  /\ launched = [c \in Commands |-> 0]
  /\ pc = [t \in Threads |-> "idle"]

(* Mutant: the coroutine of add leaves the processing to the callbacks.    *)
add_NoProcess(c) ==
  /\ pc["add"] = "idle"
  /\ c \in adding
  /\ adding' = adding \ {c}
  /\ queue' = Append(queue, c)
  /\ UNCHANGED << pc, busy, launched >>

(* add, once its coroutine has the mutex; coroutines come in any order.    *)
add(c) ==
  /\ pc["add"] = "idle"
  /\ c \in adding
  /\ adding' = adding \ {c}
  /\ queue' = Append(queue, c)
  /\ pc' = [pc EXCEPT !["add"] = "test"]
  /\ UNCHANGED << busy, launched >>

(* completeCommand, on the callback thread: busy = false ...               *)
completeCommand ==
  /\ pc["callback"] = "idle"
  /\ busy' = FALSE
  /\ pc' = [pc EXCEPT !["callback"] = "poll"]
  /\ UNCHANGED << adding, queue, launched >>

(* ... and queue.poll(), whatever the head is by now.                      *)
pollQueue ==
  /\ pc["callback"] = "poll"
  /\ IF queue = << >>
       THEN pc' = [pc EXCEPT !["callback"] = "idle"] /\ UNCHANGED queue
       ELSE pc' = [pc EXCEPT !["callback"] = "test"] /\ queue' = Tail(queue)
  /\ UNCHANGED << adding, busy, launched >>

(* processNextInQueue in thread t: return when busy or empty ...           *)
processNextInQueue(t) ==
  /\ pc[t] = "test"
  /\ pc' = [pc EXCEPT ![t] = IF busy \/ queue = << >> THEN "idle" ELSE "take"]
  /\ UNCHANGED << adding, queue, busy, launched >>

(* Mutant: busy is not set for the head.                                   *)
launchHead_NotBusy(t) ==
  /\ pc[t] = "take"
  /\ pc' = [pc EXCEPT ![t] = "idle"]
  /\ launched' = IF queue = << >> THEN launched
                 ELSE [launched EXCEPT ![Head(queue)] = @ + 1]
  /\ UNCHANGED << adding, queue, busy >>

(* ... otherwise busy = true and the head, if there still is one, is       *)
(* executed in a coroutine of its own.                                     *)
launchHead(t) ==
  /\ pc[t] = "take"
  /\ pc' = [pc EXCEPT ![t] = "idle"]
  /\ busy' = TRUE
  /\ launched' = IF queue = << >> THEN launched
                 ELSE [launched EXCEPT ![Head(queue)] = @ + 1]
  /\ UNCHANGED << adding, queue >>

clear ==
  /\ busy' = FALSE
  /\ queue' = << >>
===============================================================================
