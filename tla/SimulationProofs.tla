-------------------------- MODULE SimulationProofs --------------------------
(***************************************************************************)
(* The simulations of a symbol, for any number of requests to start one,   *)
(* of operations and of resets.  The worker they share is known by what    *)
(* SymbolWorkerProofs proves of it: a step of a simulation is a step of    *)
(* its submitters, so the worker's invariant holds of every simulation.    *)
(***************************************************************************)
EXTENDS Simulation, FiniteSetTheorems, TLAPS

W == INSTANCE SymbolWorkerProofs
       WITH Failing <- {}, Cancellable <- Commands, MaxStarts <- 0

(* A command is in the queue once, its submitter is past the put, and no
   answer to it has been given yet.                                        *)
Lined ==
  /\ \A i, j \in DOMAIN queue : queue[i] = queue[j] => i = j
  /\ \A i \in DOMAIN queue : /\ submitter[queue[i]] \in {"waiting", "cancelled"}
                             /\ future[queue[i]] \in {"pending", "cancelled"}
  /\ \A c \in Commands : submitter[c] = "putting" => future[c] = "pending"

(* A simulation asks for an operation after the answer to the one before.  *)
StepsAnswered ==
  \A r \in Runs :
    /\ task[r] \in {"none", "starting", "created"} => step[r] = 0
    /\ task[r] = "processing" => step[r] > 0
    /\ \A k \in 1 .. Operations :
         k < step[r] \/ (k = step[r] /\ task[r] = "sleeping") => future[<<r, k>>] = "result"

(* A task that is not done is the one registered, unless it was replaced by
   a request that waited for another.                                      *)
Watched == \A r \in Runs : Alive(r) => r = registered \/ r \in unwatched

(* A command in the queue that will be answered is the last one of a
   simulation that awaits it.                                              *)
PendingIsLatest ==
  \A c \in ToSet(queue) :
    future[c] = "pending" =>
      submitter[c] = "waiting" /\ task[c[1]] = "processing" /\ c = Latest(c[1])

(* A simulation whose book was replaced is cancelled or not watched.       *)
BooksKept ==
  /\ astray \subseteq ToSet(handled)
  /\ \A r \in outdated : step[r] > 0
  /\ \A r \in outdated : task[r] \in {"sleeping", "processing"} => r \in unwatched
  /\ OneBookPerSimulation

(* The count of operations is the registered simulation's, and COMPLETE is
   said of it alone.                                                       *)
CountsRegistered ==
  unwatched = {} =>
    /\ \A r \in Runs : r = registered /\ task[r] = "sleeping" => operations = step[r]
    /\ status = "COMPLETE" =>
         /\ registered \in Runs /\ task[registered] = "ended"
         /\ operations = Operations
         /\ \A k \in 1 .. Operations : future[<<registered, k>>] = "result"

(* A simulation found at work by a pause meets it before its next command.  *)
PauseKept ==
  /\ \A r \in paused : task[r] \in {"sleeping", "processing", "cancelled"}
  /\ unwatched = {} =>
       \A r \in paused : task[r] \in {"sleeping", "processing"} => status = "PAUSED"

IInv ==
  /\ W!IInv
  /\ Lined
  /\ TypeOK
  /\ StepsAnswered
  /\ Watched
  /\ PendingIsLatest
  /\ BooksKept
  /\ CountsRegistered
  /\ PauseKept

-----------------------------------------------------------------------------
(* The worker.                                                             *)

(* What the worker's theorems assume of its constants.                     *)
LEMMA WorkerAssumptions ==
  /\ W!CommandsAssumption
  /\ W!CapacityAssumption
  /\ W!StartsAssumption
<1>1. {MaxRuns, Operations, Capacity} \subseteq Nat \ {0}
  BY SimulationAssumption
<1>2. IsFiniteSet(Runs) /\ IsFiniteSet(1 .. Operations)
  BY <1>1, FS_Interval DEF Runs
<1>3. IsFiniteSet(Commands)
  BY <1>2, FS_Product DEF Commands
<1>4. W!IsFiniteSet(Commands)
  BY <1>3 DEF IsFiniteSet, W!IsFiniteSet
<1> QED
  BY <1>1, <1>4 DEF W!CommandsAssumption, W!CapacityAssumption, W!StartsAssumption

(* What a simulation may do to the worker: whatever the worker's own model
   allows but a second start.                                              *)
WorkerMoves ==
  \/ \E c \in Commands :
       Worker!Submit(c) \/ Worker!PutLater(c) \/ Worker!Receive(c) \/ Worker!Cancel(c)
  \/ Worker!Drain
  \/ Worker!Stop
  \/ UNCHANGED workerVars

(* The worker's invariant holds of the worker of the simulations.          *)
LEMMA WorkerKeepsInvariant ==
  ASSUME W!IInv, WorkerMoves
  PROVE  W!IInv'
<1>1. W!Next \/ UNCHANGED W!vars
  <2>1. ASSUME NEW c \in Commands,
               Worker!Submit(c) \/ Worker!PutLater(c) \/ Worker!Receive(c) \/ Worker!Cancel(c)
        PROVE  W!Next
    <3>1. W!Submit(c) \/ W!PutLater(c) \/ W!Receive(c) \/ W!Cancel(c)
      BY <2>1 DEF W!Submit, W!PutLater, W!Receive, W!Cancel, W!Room, W!Enqueued,
           Worker!Submit, Worker!PutLater, Worker!Receive, Worker!Cancel,
           Worker!Room, Worker!Enqueued
    <3> QED
      BY <3>1 DEF W!Next
  <2>2. CASE Worker!Drain
    <3>1. W!Drain
      BY <2>2 DEF W!Drain, W!LastHandled, W!Undeliverable, W!OldestFirst, W!Resolved, W!ToSet,
           Worker!Drain, Worker!LastHandled, Worker!Undeliverable, Worker!OldestFirst,
           Worker!Resolved, Worker!ToSet
    <3> QED
      BY <3>1 DEF W!Next
  <2>3. CASE Worker!Stop
    <3>1. W!Stop
      BY <2>3 DEF W!Stop, Worker!Stop
    <3> QED
      BY <3>1 DEF W!Next
  <2>4. CASE UNCHANGED workerVars
    BY <2>4 DEF workerVars, W!vars
  <2> QED
    BY <2>1, <2>2, <2>3, <2>4 DEF WorkerMoves
<1> QED
  BY <1>1, W!NextInv, WorkerAssumptions

(* The worker's invariant in the terms of this module.                     *)
LEMMA WorkerFacts ==
  ASSUME W!IInv
  PROVE  /\ Worker!TypeOK
         /\ submitter \in [Commands -> {"idle", "putting", "waiting", "cancelled", "answered"}]
         /\ future \in [Commands -> {"none", "pending", "result", "exception", "cancelled"}]
         /\ queue \in Seq(Commands) /\ handled \in Seq(Commands)
         /\ \A c \in Commands : future[c] # "exception"
         /\ \A c \in Commands : future[c] = "result" => c \in ToSet(handled)
         /\ \A c \in Commands : submitter[c] = "idle" => c \notin ToSet(handled) \cup ToSet(queue)
<1>1. W!TypeOK /\ W!AnswersAreTrue /\ W!IdleIsNowhere
  BY DEF W!IInv
<1>2. Worker!TypeOK
  BY <1>1 DEF W!TypeOK, Worker!TypeOK
<1>3. W!ToSet(handled) = ToSet(handled) /\ W!ToSet(queue) = ToSet(queue)
  BY DEF W!ToSet, ToSet
<1> QED
  BY <1>1, <1>2, <1>3 DEF W!TypeOK, W!AnswersAreTrue, W!IdleIsNowhere

(* A turn of the worker takes commands from the queue, answers those that
   can be answered and leaves the others as they were.                     *)
LEMMA DrainFacts ==
  ASSUME W!IInv, Lined, Worker!Drain
  PROVE  /\ UNCHANGED submitter
         /\ ToSet(handled) \subseteq ToSet(handled')
         /\ ToSet(handled') \subseteq ToSet(handled) \cup ToSet(queue)
         /\ \A c \in Commands : \/ future'[c] = future[c]
                                \/ /\ future[c] = "pending" /\ future'[c] = "result"
                                   /\ c \in ToSet(queue)
         /\ \A i \in DOMAIN queue' : /\ queue'[i] \in ToSet(queue)
                                      /\ future'[queue'[i]] = future[queue'[i]]
         /\ \A i, j \in DOMAIN queue' : queue'[i] = queue'[j] => i = j
<1> DEFINE n == Worker!LastHandled
           batch == SubSeq(queue, 1, n)
           rest == SubSeq(queue, n + 1, Len(queue))
<1>1. /\ UNCHANGED submitter
      /\ handled' = handled \o batch
      /\ future' = [c \in Commands |-> IF c \in ToSet(batch) THEN Worker!Resolved(c) ELSE future[c]]
      /\ queue' = rest
  BY DEF Worker!Drain, Worker!OldestFirst, ToSet, Worker!ToSet
<1>2. n \in 0 .. Len(queue)
  <2>1. W!LastHandled \in 0 .. Len(queue)
    BY W!LastHandledInQueue, WorkerAssumptions DEF W!IInv
  <2> QED
    BY <2>1 DEF W!LastHandled, W!Undeliverable, Worker!LastHandled, Worker!Undeliverable
<1>3. /\ queue \in Seq(Commands) /\ handled \in Seq(Commands) /\ Len(queue) \in Nat
      /\ future \in [Commands -> {"none", "pending", "result", "exception", "cancelled"}]
  BY WorkerFacts
<1> HIDE DEF n
<1>4. /\ batch \in Seq(Commands) /\ rest \in Seq(Commands)
      /\ DOMAIN batch = 1 .. n /\ DOMAIN rest = 1 .. Len(queue) - n
      /\ \A i \in 1 .. n : batch[i] = queue[i]
      /\ \A i \in 1 .. Len(queue) - n : rest[i] = queue[n + i]
      /\ DOMAIN queue = 1 .. Len(queue)
  BY <1>2, <1>3
<1> HIDE DEF batch, rest
<1>5. \A i \in DOMAIN batch : i \in DOMAIN queue /\ batch[i] = queue[i]
  BY <1>2, <1>3, <1>4
<1>6. \A i \in DOMAIN rest : n + i \in DOMAIN queue /\ rest[i] = queue[n + i] /\ n + i \notin DOMAIN batch
  BY <1>2, <1>3, <1>4
<1>7. ToSet(handled') = ToSet(handled) \cup ToSet(batch)
  <2>1. CASE Commands = {}
    <3>1. handled = << >> /\ batch = << >>
      BY <1>3, <1>4, <2>1
    <3> QED
      BY <1>1, <3>1 DEF ToSet
  <2>2. ASSUME NEW d \in Commands PROVE ToSet(handled') = ToSet(handled) \cup ToSet(batch)
    <3>1. \A s, t \in Seq(Commands) : W!ToSet(s \o t) = W!ToSet(s) \cup W!ToSet(t)
      BY W!ToSetFacts, WorkerAssumptions
    <3>2. \A s : W!ToSet(s) = ToSet(s)
      BY DEF W!ToSet, ToSet
    <3>3. handled \in Seq(Commands) /\ batch \in Seq(Commands) /\ handled' = handled \o batch
      BY <1>1, <1>3, <1>4
    <3>4. W!ToSet(handled \o batch) = W!ToSet(handled) \cup W!ToSet(batch)
      BY <3>1, <3>3, Zenon
    <3> QED
      BY <3>2, <3>3, <3>4, Zenon
  <2> QED
    BY <2>1, <2>2
<1>8. ToSet(batch) \subseteq ToSet(queue)
  BY <1>5, Zenon DEF ToSet
<1>9. \A c \in Commands : \/ future'[c] = future[c]
                           \/ /\ future[c] = "pending" /\ future'[c] = "result"
                              /\ c \in ToSet(queue)
  BY <1>1, <1>8 DEF Worker!Resolved
<1>10. ASSUME NEW i \in DOMAIN rest
       PROVE  rest[i] \in ToSet(queue) /\ future'[rest[i]] = future[rest[i]]
  <2>1. rest[i] \in ToSet(queue) /\ rest[i] \in Commands
    BY <1>3, <1>4, <1>6 DEF ToSet
  <2>2. rest[i] \notin ToSet(batch)
    <3>1. ASSUME NEW j \in DOMAIN batch PROVE batch[j] # rest[i]
      BY <1>5, <1>6 DEF Lined
    <3> QED
      BY <3>1 DEF ToSet
  <2> QED
    BY <1>1, <2>1, <2>2
<1>11. \A i, j \in DOMAIN rest : rest[i] = rest[j] => i = j
  <2> SUFFICES ASSUME NEW i \in DOMAIN rest, NEW j \in DOMAIN rest, rest[i] = rest[j]
               PROVE  i = j
    OBVIOUS
  <2>1. n + i = n + j
    BY <1>6 DEF Lined
  <2> QED
    BY <1>2, <1>3, <1>4, <2>1
<1> QED
  BY <1>1, <1>7, <1>8, <1>9, <1>10, <1>11

(* A command that enters the queue was in no queue before.                 *)
LEMMA EnqueuedIsLined ==
  ASSUME W!IInv, Lined, NEW c \in Commands, Worker!Enqueued(c),
         \/ submitter[c] = "idle" /\ future' = [future EXCEPT ![c] = "pending"]
         \/ submitter[c] = "putting" /\ future' = future
  PROVE  Lined'
<1>1. /\ queue \in Seq(Commands)
      /\ submitter \in [Commands -> {"idle", "putting", "waiting", "cancelled", "answered"}]
      /\ future \in [Commands -> {"none", "pending", "result", "exception", "cancelled"}]
  BY WorkerFacts
<1>2. queue' = Append(queue, c) /\ submitter' = [submitter EXCEPT ![c] = "waiting"]
  BY DEF Worker!Enqueued
<1>3. \A i \in DOMAIN queue : queue[i] \in Commands /\ queue[i] # c
  BY <1>1 DEF Lined
<1>4. /\ DOMAIN queue = 1 .. Len(queue) /\ Len(queue) \in Nat
      /\ DOMAIN queue' = 1 .. Len(queue) + 1 /\ queue'[Len(queue) + 1] = c
      /\ \A i \in DOMAIN queue : queue'[i] = queue[i]
  BY <1>1, <1>2
<1>5. \A i \in DOMAIN queue' : i \in DOMAIN queue \/ i = Len(queue) + 1
  BY <1>4
<1>6. \A i, j \in DOMAIN queue' : queue'[i] = queue'[j] => i = j
  BY <1>3, <1>4, <1>5 DEF Lined
<1>7. future'[c] = "pending" /\ submitter'[c] = "waiting"
  BY <1>1, <1>2 DEF Lined
<1>8. \A d \in Commands : d # c => future'[d] = future[d] /\ submitter'[d] = submitter[d]
  BY <1>1, <1>2
<1>9. \A i \in DOMAIN queue' : /\ submitter'[queue'[i]] \in {"waiting", "cancelled"}
                               /\ future'[queue'[i]] \in {"pending", "cancelled"}
  BY <1>3, <1>4, <1>5, <1>7, <1>8 DEF Lined
<1>10. \A d \in Commands : submitter'[d] = "putting" => future'[d] = "pending"
  BY <1>7, <1>8 DEF Lined
<1> QED
  BY <1>6, <1>9, <1>10 DEF Lined

(* The queue stays in line.                                                *)
LEMMA MovesKeepLine ==
  ASSUME W!IInv, Lined, WorkerMoves
  PROVE  Lined'
<1>1. /\ queue \in Seq(Commands)
      /\ submitter \in [Commands -> {"idle", "putting", "waiting", "cancelled", "answered"}]
      /\ future \in [Commands -> {"none", "pending", "result", "exception", "cancelled"}]
  BY WorkerFacts
<1>2. \A i \in DOMAIN queue : queue[i] \in Commands
  BY <1>1
<1>3. ASSUME NEW c \in Commands, Worker!Submit(c) PROVE Lined'
  <2>1. submitter[c] = "idle" /\ future' = [future EXCEPT ![c] = "pending"]
    BY <1>3 DEF Worker!Submit
  <2>2. CASE Worker!Enqueued(c)
    BY <2>1, <2>2, EnqueuedIsLined
  <2>3. CASE queue' = queue /\ submitter' = [submitter EXCEPT ![c] = "putting"]
    <3>1. \A i \in DOMAIN queue : queue[i] # c
      BY <2>1 DEF Lined
    <3> QED
      BY <1>1, <1>2, <2>1, <2>3, <3>1 DEF Lined
  <2> QED
    BY <1>3, <2>2, <2>3 DEF Worker!Submit
<1>4. ASSUME NEW c \in Commands, Worker!PutLater(c) PROVE Lined'
  BY <1>4, EnqueuedIsLined DEF Worker!PutLater
<1>5. ASSUME NEW c \in Commands, Worker!Receive(c) PROVE Lined'
  <2>1. \A i \in DOMAIN queue : queue[i] # c
    BY <1>5 DEF Lined, Worker!Receive
  <2> QED
    BY <1>1, <1>2, <1>5, <2>1 DEF Lined, Worker!Receive
<1>6. ASSUME NEW c \in Commands, Worker!Cancel(c) PROVE Lined'
  BY <1>1, <1>2, <1>6 DEF Lined, Worker!Cancel
<1>7. CASE Worker!Drain
  <2>1. \A i \in DOMAIN queue' : \E j \in DOMAIN queue : queue'[i] = queue[j]
    BY <1>7, DrainFacts, Zenon DEF ToSet
  <2>2. \A c \in Commands : submitter[c] = "putting" => \A j \in DOMAIN queue : queue[j] # c
    BY DEF Lined
  <2>3. \A c \in Commands : submitter[c] = "putting" => future'[c] = future[c]
    <3>1. \A c \in Commands : future'[c] # future[c] => c \in ToSet(queue)
      BY <1>7, DrainFacts
    <3> QED
      BY <2>2, <3>1 DEF ToSet
  <2> QED
    BY <1>7, <2>1, <2>3, DrainFacts DEF Lined
<1>8. CASE Worker!Stop \/ UNCHANGED workerVars
  BY <1>8 DEF Lined, Worker!Stop, workerVars
<1> QED
  BY <1>3, <1>4, <1>5, <1>6, <1>7, <1>8 DEF WorkerMoves

(* An answer is not taken back, and a cancelled command stays cancelled.   *)
LEMMA AnswersStay ==
  ASSUME W!IInv, Lined, WorkerMoves, NEW c \in Commands,
         future[c] = "result" \/ (future[c] = "cancelled" /\ submitter[c] # "idle")
  PROVE  future'[c] = future[c]
<1>1. submitter[c] # "idle"
  BY WorkerFacts
<1>2. future \in [Commands -> {"none", "pending", "result", "exception", "cancelled"}]
  BY WorkerFacts
<1>3. ASSUME NEW d \in Commands,
             Worker!Submit(d) \/ Worker!PutLater(d) \/ Worker!Receive(d) \/ Worker!Cancel(d)
      PROVE  future'[c] = future[c]
  BY <1>1, <1>2, <1>3 DEF Worker!Submit, Worker!PutLater, Worker!Receive, Worker!Cancel
<1>4. CASE Worker!Drain
  BY <1>4, DrainFacts
<1>5. CASE Worker!Stop \/ UNCHANGED workerVars
  BY <1>5 DEF Worker!Stop, workerVars
<1> QED
  BY <1>3, <1>4, <1>5 DEF WorkerMoves

(* What ran has run.                                                       *)
LEMMA HandledStays ==
  ASSUME W!IInv, Lined, WorkerMoves
  PROVE  ToSet(handled) \subseteq ToSet(handled')
<1>1. CASE handled' = handled
  BY <1>1
<1>2. CASE Worker!Drain
  BY <1>2, DrainFacts
<1> QED
  BY <1>1, <1>2 DEF WorkerMoves, Worker!Submit, Worker!PutLater, Worker!Receive,
       Worker!Cancel, Worker!Stop, workerVars

-----------------------------------------------------------------------------
(* The steps of the simulations.                                           *)

(* The command a simulation waits for is one of its commands.              *)
LEMMA LatestIsCommand ==
  ASSUME TypeOK, StepsAnswered, NEW r \in Runs, task[r] = "processing"
  PROVE  Latest(r) \in Commands /\ step[r] \in 1 .. Operations
<1>1. step[r] \in 0 .. Operations /\ step[r] > 0
  BY DEF TypeOK, StepsAnswered
<1>2. step[r] \in 1 .. Operations
  BY <1>1, SimulationAssumption
<1> QED
  BY <1>2 DEF Latest, Commands

(* Cancelling the registered task, and the future it awaits.               *)
LEMMA CancelFacts ==
  ASSUME W!IInv, TypeOK, StepsAnswered, NEW waiting \in SUBSET Runs, CancelExisting(waiting)
  PROVE  /\ WorkerMoves
         /\ queue' = queue
         /\ \A r \in Runs : task'[r] = IF r \in Existing THEN Cancelled(r)
                                       ELSE IF r \in waiting THEN "starting" ELSE task[r]
         /\ \A c \in Commands :
              \/ future'[c] = future[c] /\ submitter'[c] = submitter[c]
              \/ c[1] \in Existing /\ task[c[1]] = "processing" /\ c = Latest(c[1])
         /\ \A r \in Existing : task[r] = "processing" /\ future[Latest(r)] = "pending"
                                /\ submitter[Latest(r)] = "waiting"
                                => future'[Latest(r)] = "cancelled"
<1>1. task' = [r \in Runs |-> IF r \in Existing THEN Cancelled(r)
                              ELSE IF r \in waiting THEN "starting" ELSE task[r]]
  BY DEF CancelExisting, TasksToCancel
<1>2. /\ submitter \in [Commands -> {"idle", "putting", "waiting", "cancelled", "answered"}]
      /\ future \in [Commands -> {"none", "pending", "result", "exception", "cancelled"}]
  BY WorkerFacts
<1>3. Existing \subseteq {registered} /\ Existing \subseteq Runs
  BY DEF Existing, TypeOK
<1>4. ASSUME NEW r \in Existing, task[r] = "processing", Worker!Cancel(Latest(r))
      PROVE  /\ WorkerMoves
             /\ queue' = queue
             /\ \A c \in Commands :
                  \/ future'[c] = future[c] /\ submitter'[c] = submitter[c]
                  \/ c[1] \in Existing /\ task[c[1]] = "processing" /\ c = Latest(c[1])
             /\ \A q \in Existing : task[q] = "processing" /\ future[Latest(q)] = "pending"
                                    /\ submitter[Latest(q)] = "waiting"
                                    => future'[Latest(q)] = "cancelled"
  <2>1. r \in Runs /\ \A q \in Existing : q = r
    BY <1>3
  <2>2. Latest(r) \in Commands
    BY <1>4, <2>1, LatestIsCommand
  <2>3. WorkerMoves /\ queue' = queue
    BY <1>4, <2>2 DEF WorkerMoves, Worker!Cancel
  <2>4. /\ submitter' = [submitter EXCEPT ![Latest(r)] = "cancelled"]
        /\ future' = [future EXCEPT ![Latest(r)] =
                         IF submitter[Latest(r)] = "waiting" /\ @ = "pending"
                         THEN "cancelled" ELSE @]
    BY <1>4 DEF Worker!Cancel
  <2>5. Latest(r)[1] = r
    BY DEF Latest
  <2>6. \A c \in Commands : c # Latest(r) => future'[c] = future[c] /\ submitter'[c] = submitter[c]
    BY <1>2, <2>4
  <2>7. submitter[Latest(r)] = "waiting" /\ future[Latest(r)] = "pending" =>
          future'[Latest(r)] = "cancelled"
    BY <1>2, <2>2, <2>4
  <2> QED
    BY <1>4, <2>1, <2>3, <2>5, <2>6, <2>7
<1>5. CASE (\A r \in Existing : task[r] # "processing") /\ UNCHANGED workerVars
  BY <1>1, <1>5 DEF WorkerMoves, workerVars
<1> QED
  BY <1>1, <1>4, <1>5 DEF CancelExisting, TasksToCancel

(* The parts of a step that are the worker's.                              *)
LEMMA NextMoves ==
  ASSUME W!IInv, TypeOK, StepsAnswered, Next
  PROVE  WorkerMoves
<1>1. ASSUME NEW r \in Runs, Begin(r) PROVE WorkerMoves
  <2>1. <<r, 1>> \in Commands
    BY SimulationAssumption DEF Commands
  <2> QED
    BY <1>1, <2>1 DEF Begin, WorkerMoves
<1>2. ASSUME NEW r \in Runs, Ask(r) PROVE WorkerMoves
  <2>1. step[r] + 1 \in 1 .. Operations
    BY <1>2, SimulationAssumption DEF Ask, Done, TypeOK
  <2>2. <<r, step[r] + 1>> \in Commands
    BY <2>1 DEF Commands
  <2> QED
    BY <1>2, <2>2 DEF Ask, WorkerMoves
<1>3. ASSUME NEW r \in Runs, Answered(r) \/ PutLater(r) PROVE WorkerMoves
  <2>1. Latest(r) \in Commands
    BY <1>3, LatestIsCommand DEF Answered, PutLater
  <2> QED
    BY <1>3, <2>1 DEF Answered, PutLater, WorkerMoves
<1>4. ASSUME NEW r \in Runs, Complete(r) \/ Unwind(r) PROVE WorkerMoves
  BY <1>4 DEF Complete, Unwind, WorkerMoves
<1>5. ASSUME NEW r \in Runs, NEW reset \in BOOLEAN,
             GoOn(r) \/ StartAtOnce(r, reset)
      PROVE  WorkerMoves
  BY <1>5 DEF GoOn, StartAtOnce, Create, WorkerMoves
<1>6. ASSUME NEW r \in Runs, NEW reset \in BOOLEAN, CancelThenStart(r, reset)
      PROVE  WorkerMoves
  BY <1>6, CancelFacts DEF CancelThenStart
<1>7. CASE Reset \/ Shutdown
  BY <1>7, CancelFacts DEF Reset, Shutdown
<1>8. CASE Pause \/ Resume \/ Drain \/ StopWorker
  BY <1>8 DEF Pause, Resume, Drain, StopWorker, WorkerMoves
<1> QED
  BY <1>1, <1>2, <1>3, <1>4, <1>5, <1>6, <1>7, <1>8 DEF Next, Turn

(* Every step keeps the types.                                             *)
LEMMA StepIsTyped ==
  ASSUME W!IInv, W!IInv', TypeOK, StepsAnswered, Next
  PROVE  TypeOK'
<1>1. Worker!TypeOK'
  BY DEF W!IInv, W!TypeOK, Worker!TypeOK
<1> DEFINE Stages == {"none", "starting", "created", "sleeping", "processing",
                      "cancelled", "doomed", "ended"}
<1>2. /\ task \in [Runs -> Stages]
      /\ awaited \in [Runs -> Runs \cup {NoRun}]
      /\ fresh \subseteq Runs
      /\ registered \in Runs \cup {NoRun}
      /\ status \in {"IDLE", "RUNNING", "PAUSED", "COMPLETE"}
      /\ operations \in 0 .. Operations
      /\ step \in [Runs -> 0 .. Operations]
      /\ resets \in 0 .. MaxResets
      /\ serving \in BOOLEAN
      /\ astray \subseteq Commands
      /\ outdated \subseteq Runs /\ unwatched \subseteq Runs /\ paused \subseteq Runs
  BY DEF TypeOK
<1>3. Operations \in Nat /\ Operations > 0 /\ MaxResets \in Nat
      /\ 0 \in 0 .. Operations /\ 1 \in 0 .. Operations
  BY SimulationAssumption
<1>4. Existing \subseteq Runs /\ AtWork \subseteq Runs
  BY <1>2 DEF Existing, AtWork
<1>5. ASSUME task' \in [Runs -> Stages],
             awaited' \in [Runs -> Runs \cup {NoRun}],
             fresh' \subseteq Runs,
             registered' \in Runs \cup {NoRun},
             status' \in {"IDLE", "RUNNING", "PAUSED", "COMPLETE"},
             operations' \in 0 .. Operations,
             step' \in [Runs -> 0 .. Operations],
             resets' \in 0 .. MaxResets,
             serving' \in BOOLEAN,
             astray' \subseteq Commands,
             outdated' \subseteq Runs, unwatched' \subseteq Runs, paused' \subseteq Runs
      PROVE  TypeOK'
  BY <1>1, <1>5 DEF TypeOK
<1>6. ASSUME NEW r \in Runs, Turn(r) PROVE TypeOK'
  <2>1. CASE Begin(r)
    BY <1>2, <1>3, <1>5, <2>1 DEF Begin, bookVars, requestVars
  <2>2. CASE Ask(r)
    <3>1. step[r] + 1 \in 0 .. Operations
      BY <1>2, <1>3, <2>2 DEF Ask, Done
    <3> QED
      BY <1>2, <1>5, <2>2, <3>1 DEF Ask, stateVars, bookVars, requestVars
  <2>3. CASE Answered(r)
    BY <1>2, <1>5, <2>3 DEF Answered, Counted, bookVars, requestVars
  <2>4. CASE Complete(r)
    BY <1>2, <1>5, <2>4 DEF Complete, Ends, bookVars, requestVars
  <2>5. CASE Unwind(r)
    BY <1>2, <1>5, <2>5 DEF Unwind, Ends, bookVars, requestVars
  <2>6. CASE PutLater(r)
    BY <1>2, <1>5, <2>6 DEF PutLater, stateVars, bookVars, requestVars
  <2> QED
    BY <1>6, <2>1, <2>2, <2>3, <2>4, <2>5, <2>6 DEF Turn
<1>7. ASSUME NEW r \in Runs, NEW reset \in BOOLEAN, Create(r, reset)
      PROVE  /\ task' \in [Runs -> Stages] /\ registered' \in Runs
             /\ status' \in {"IDLE", "RUNNING", "PAUSED", "COMPLETE"}
             /\ operations' \in 0 .. Operations /\ step' \in [Runs -> 0 .. Operations]
             /\ serving' \in BOOLEAN /\ astray' \subseteq Commands
             /\ outdated' \subseteq Runs /\ unwatched' \subseteq Runs /\ paused' \subseteq Runs
  BY <1>2, <1>3, <1>4, <1>7 DEF Create, Replaced
<1>8. ASSUME NEW r \in Runs, NEW reset \in BOOLEAN, NextRequest(r, reset)
      PROVE  resets' \in 0 .. MaxResets
  BY <1>2, <1>3, <1>8 DEF NextRequest
<1>9. ASSUME NEW waiting \in SUBSET Runs, CancelExisting(waiting)
      PROVE  task' \in [Runs -> Stages]
  BY <1>2, <1>9 DEF CancelExisting, Cancelled
<1>10. ASSUME NEW r \in Runs, GoOn(r) PROVE TypeOK'
  <2>1. (r \in fresh) \in BOOLEAN /\ Create(r, r \in fresh)
    BY <1>10 DEF GoOn
  <2>2. /\ awaited' = [awaited EXCEPT ![r] = NoRun] /\ fresh' = fresh \ {r} /\ resets' = resets
    BY <1>10 DEF GoOn
  <2> QED
    BY <1>2, <1>5, <1>7, <2>1, <2>2
<1>11. ASSUME NEW r \in Runs, NEW reset \in BOOLEAN, StartAtOnce(r, reset) PROVE TypeOK'
  BY <1>2, <1>5, <1>7, <1>8, <1>11 DEF StartAtOnce
<1>12. ASSUME NEW r \in Runs, NEW reset \in BOOLEAN, CancelThenStart(r, reset) PROVE TypeOK'
  <2>1. task' \in [Runs -> Stages] /\ resets' \in 0 .. MaxResets
    BY <1>8, <1>9, <1>12 DEF CancelThenStart
  <2> QED
    BY <1>2, <1>5, <1>12, <2>1 DEF CancelThenStart, stateVars, bookVars
<1>13. CASE Pause \/ Resume
  BY <1>2, <1>4, <1>5, <1>13 DEF Pause, Resume, bookVars, requestVars
<1>14. CASE Reset
  <2>1. task' \in [Runs -> Stages] /\ resets' \in 0 .. MaxResets
    BY <1>2, <1>3, <1>9, <1>14 DEF Reset
  <2> QED
    BY <1>2, <1>3, <1>5, <1>14, <2>1 DEF Reset, Replaced
<1>15. CASE Drain
  <2>1. ToSet(handled') \subseteq Commands
    <3>1. handled' \in Seq(Commands)
      BY DEF W!IInv, W!TypeOK
    <3> QED
      BY <3>1 DEF ToSet
  <2> QED
    BY <1>2, <1>5, <1>15, <2>1 DEF Drain, stateVars, requestVars
<1>16. CASE Shutdown
  <2>1. task' \in [Runs -> Stages]
    BY <1>9, <1>16 DEF Shutdown
  <2> QED
    BY <1>2, <1>5, <1>16, <2>1 DEF Shutdown, stateVars, bookVars
<1>17. CASE StopWorker
  BY <1>2, <1>5, <1>17 DEF StopWorker, stateVars, bookVars, requestVars
<1> QED
  BY <1>6, <1>10, <1>11, <1>12, <1>13, <1>14, <1>15, <1>16, <1>17 DEF Next

(* A simulation asks for an operation only after the answer to the last.   *)
LEMMA StepsStayAnswered ==
  ASSUME W!IInv, Lined, TypeOK, StepsAnswered, Next
  PROVE  StepsAnswered'
<1>1. /\ task \in [Runs -> {"none", "starting", "created", "sleeping", "processing",
                            "cancelled", "doomed", "ended"}]
      /\ step \in [Runs -> 0 .. Operations]
      /\ Operations \in Nat /\ Operations > 0
  BY SimulationAssumption DEF TypeOK
<1>2. ASSUME NEW r \in Runs, NEW k \in 1 .. Operations, future[<<r, k>>] = "result"
      PROVE  future'[<<r, k>>] = "result"
  <2>1. <<r, k>> \in Commands
    BY DEF Commands
  <2>2. WorkerMoves
    BY NextMoves
  <2> QED
    BY <1>2, <2>1, <2>2, AnswersStay
<1>3. ASSUME NEW r \in Runs, step'[r] = step[r],
             \/ task'[r] = task[r]
             \/ task'[r] \in {"cancelled", "doomed", "ended"}
             \/ task[r] \in {"none", "starting"} /\ task'[r] \in {"starting", "created"}
      PROVE  /\ task'[r] \in {"none", "starting", "created"} => step'[r] = 0
             /\ task'[r] = "processing" => step'[r] > 0
             /\ \A k \in 1 .. Operations :
                  k < step'[r] \/ (k = step'[r] /\ task'[r] = "sleeping") =>
                    future'[<<r, k>>] = "result"
  BY <1>2, <1>3 DEF StepsAnswered
<1>4. ASSUME \A r \in Runs : step'[r] = step[r] /\
               \/ task'[r] = task[r]
               \/ task'[r] \in {"cancelled", "doomed", "ended"}
               \/ task[r] \in {"none", "starting"} /\ task'[r] \in {"starting", "created"}
      PROVE  StepsAnswered'
  BY <1>3, <1>4 DEF StepsAnswered
<1>5. ASSUME NEW q \in Runs, Begin(q) PROVE StepsAnswered'
  <2>1. /\ task' = [task EXCEPT ![q] = "processing"] /\ step' = [step EXCEPT ![q] = 1]
    BY <1>5 DEF Begin
  <2>2. \A k \in 1 .. Operations : ~(k < 1)
    BY <1>1
  <2>3. task'[q] = "processing" /\ step'[q] = 1
    BY <1>1, <2>1
  <2>4. \A r \in Runs : r # q => task'[r] = task[r] /\ step'[r] = step[r]
    BY <1>1, <2>1
  <2> QED
    BY <1>3, <2>2, <2>3, <2>4 DEF StepsAnswered
<1>6. ASSUME NEW q \in Runs, Ask(q) PROVE StepsAnswered'
  <2>1. /\ task[q] = "sleeping"
        /\ task' = [task EXCEPT ![q] = "processing"] /\ step' = [step EXCEPT ![q] = @ + 1]
    BY <1>6 DEF Ask
  <2>2. task'[q] = "processing" /\ step'[q] = step[q] + 1
    BY <1>1, <2>1
  <2>3. \A k \in 1 .. Operations : k < step[q] + 1 => k < step[q] \/ k = step[q]
    BY <1>1
  <2>4. \A r \in Runs : r # q => task'[r] = task[r] /\ step'[r] = step[r]
    BY <1>1, <2>1
  <2>5. \A k \in 1 .. Operations : k < step[q] + 1 => future'[<<q, k>>] = "result"
    BY <1>2, <2>1, <2>3 DEF StepsAnswered
  <2>6. step[q] + 1 > 0
    BY <1>1
  <2> QED
    BY <1>3, <2>2, <2>4, <2>5, <2>6 DEF StepsAnswered
<1>7. ASSUME NEW q \in Runs, Answered(q) PROVE StepsAnswered'
  <2>1. /\ task[q] = "processing" /\ Worker!Receive(Latest(q))
        /\ task' = [task EXCEPT ![q] = "sleeping"] /\ step' = step
    BY <1>7 DEF Answered
  <2>2. Latest(q) \in Commands /\ Latest(q) = <<q, step[q]>>
    BY <2>1, LatestIsCommand DEF Latest
  <2>3. future[<<q, step[q]>>] = "result" /\ future' = future
    BY <2>1, <2>2, WorkerFacts DEF Worker!Receive
  <2>4. \A r \in Runs : r # q => task'[r] = task[r]
    BY <1>1, <2>1
  <2>5. task'[q] = "sleeping"
    BY <1>1, <2>1
  <2> QED
    BY <1>3, <2>1, <2>3, <2>4, <2>5 DEF StepsAnswered
<1>8. ASSUME NEW q \in Runs, Complete(q) \/ Unwind(q) \/ PutLater(q) PROVE StepsAnswered'
  <2>1. \A r \in Runs : step'[r] = step[r] /\ (task'[r] = task[r] \/ task'[r] = "ended")
    BY <1>1, <1>8 DEF Complete, Unwind, PutLater, Ends
  <2> QED
    BY <1>4, <2>1
<1>9. ASSUME NEW q \in Runs, NEW reset \in BOOLEAN,
             GoOn(q) \/ StartAtOnce(q, reset)
      PROVE  StepsAnswered'
  <2>1. /\ task[q] \in {"none", "starting"} /\ step' = step
        /\ task' = [task EXCEPT ![q] = "created"]
    BY <1>9 DEF GoOn, Awaited, StartAtOnce, NextRequest, Create
  <2>2. \A r \in Runs : task'[r] = task[r] \/ (r = q /\ task'[r] = "created")
    BY <1>1, <2>1
  <2> QED
    BY <1>4, <2>1, <2>2
<1>10. ASSUME NEW waiting \in SUBSET Runs, \A q \in waiting : task[q] = "none",
              CancelExisting(waiting), step' = step
       PROVE  StepsAnswered'
  <2>1. \A r \in Runs : Cancelled(r) \in {"cancelled", "doomed"}
    BY DEF Cancelled
  <2>2. \A r \in Runs : task'[r] = task[r] \/ task'[r] \in {"cancelled", "doomed"}
                        \/ (task[r] = "none" /\ task'[r] = "starting")
    BY <1>10, <2>1, CancelFacts
  <2> QED
    BY <1>4, <1>10, <2>2
<1>11. ASSUME NEW q \in Runs, NEW reset \in BOOLEAN, CancelThenStart(q, reset)
       PROVE  StepsAnswered'
  BY <1>10, <1>11 DEF CancelThenStart, NextRequest
<1>12. CASE Reset \/ Shutdown
  BY <1>10, <1>12 DEF Reset, Shutdown
<1>13. CASE Pause \/ Resume \/ Drain \/ StopWorker
  BY <1>4, <1>13 DEF Pause, Resume, Drain, StopWorker
<1> QED
  BY <1>5, <1>6, <1>7, <1>8, <1>9, <1>11, <1>12, <1>13 DEF Next, Turn

(* A request that starts a simulation replaces the registered one: what is
   alive then is from now on not watched.                                  *)
LEMMA CreateFacts ==
  ASSUME TypeOK, Watched, NEW q \in Runs, NEW reset \in BOOLEAN,
         task[q] \in {"none", "starting"}, Existing = {} \/ ~Alive(awaited[q]),
         Create(q, reset)
  PROVE  /\ registered' = q /\ task'[q] = "created"
         /\ \A r \in Runs : r # q => task'[r] = task[r]
         /\ unwatched \subseteq unwatched'
         /\ \A r \in Runs : Alive(r) => r # q /\ r \in unwatched'
<1>1. /\ task' = [task EXCEPT ![q] = "created"] /\ registered' = q
      /\ unwatched' = unwatched \cup (Existing \ {awaited[q]})
  BY DEF Create
<1>2. /\ registered' = q /\ task'[q] = "created"
      /\ \A r \in Runs : r # q => task'[r] = task[r]
  BY <1>1 DEF TypeOK
<1>3. ASSUME NEW r \in Runs, Alive(r) PROVE r # q /\ r \in unwatched'
  <2>1. r # q
    BY <1>3 DEF Alive
  <2>2. CASE r \in unwatched
    BY <1>1, <2>1, <2>2
  <2>3. CASE r = registered
    <3>1. r # NoRun
      BY DEF Runs, NoRun
    <3>2. r \in Existing
      BY <1>3, <2>3, <3>1 DEF Existing
    <3> QED
      BY <1>1, <1>3, <2>1, <3>2
  <2> QED
    BY <1>3, <2>2, <2>3 DEF Watched
<1> QED
  BY <1>1, <1>2, <1>3

(* The requests that start a simulation meet the conditions of that.       *)
LEMMA StartsCreate ==
  ASSUME NEW q \in Runs, NEW reset \in BOOLEAN, GoOn(q) \/ StartAtOnce(q, reset)
  PROVE  /\ task[q] \in {"none", "starting"}
         /\ Existing = {} \/ ~Alive(awaited[q])
         /\ \E b \in BOOLEAN : Create(q, b)
<1>1. CASE GoOn(q)
  <2>1. (q \in fresh) \in BOOLEAN /\ Create(q, q \in fresh)
    BY <1>1 DEF GoOn
  <2> QED
    BY <1>1, <2>1 DEF GoOn, Awaited
<1>2. CASE StartAtOnce(q, reset)
  BY <1>2 DEF StartAtOnce, NextRequest
<1> QED
  BY <1>1, <1>2

(* A step that starts no simulation brings none to life, and leaves the
   registered one what it is.                                              *)
LEMMA OthersCreateNothing ==
  ASSUME W!IInv, TypeOK, StepsAnswered, Next,
         ~ \E q \in Runs, reset \in BOOLEAN : GoOn(q) \/ StartAtOnce(q, reset)
  PROVE  /\ registered' = registered /\ unwatched' = unwatched
         /\ \A r \in Runs : Alive(r)' => Alive(r)
<1>1. task \in [Runs -> {"none", "starting", "created", "sleeping", "processing",
                         "cancelled", "doomed", "ended"}]
  BY DEF TypeOK
<1>2. ASSUME NEW q \in Runs, Turn(q)
      PROVE  /\ registered' = registered /\ unwatched' = unwatched
             /\ \A r \in Runs : Alive(r)' => Alive(r)
  <2>1. registered' = registered /\ unwatched' = unwatched
    BY <1>2 DEF Turn, Begin, Answered, Ask, Complete, Unwind, PutLater, requestVars
  <2>2. Alive(q) /\ \A r \in Runs : r # q => task'[r] = task[r]
    BY <1>1, <1>2 DEF Turn, Begin, Answered, Ask, Complete, Unwind, PutLater, Ends, Alive
  <2> QED
    BY <2>1, <2>2 DEF Alive
<1>3. ASSUME NEW waiting \in SUBSET Runs, CancelExisting(waiting),
             registered' = registered, unwatched' = unwatched
      PROVE  /\ registered' = registered /\ unwatched' = unwatched
             /\ \A r \in Runs : Alive(r)' => Alive(r)
  <2>1. \A r \in Runs : task'[r] = IF r \in Existing THEN Cancelled(r)
                                   ELSE IF r \in waiting THEN "starting" ELSE task[r]
    BY <1>3, CancelFacts
  <2> QED
    BY <1>3, <2>1 DEF Alive, Existing
<1>4. ASSUME NEW q \in Runs, NEW reset \in BOOLEAN, CancelThenStart(q, reset)
      PROVE  /\ registered' = registered /\ unwatched' = unwatched
             /\ \A r \in Runs : Alive(r)' => Alive(r)
  BY <1>3, <1>4 DEF CancelThenStart
<1>5. CASE Reset \/ Shutdown
  BY <1>3, <1>5 DEF Reset, Shutdown
<1>6. CASE Pause \/ Resume \/ Drain \/ StopWorker
  BY <1>6 DEF Pause, Resume, Drain, StopWorker, requestVars, Alive
<1> QED
  BY <1>2, <1>4, <1>5, <1>6 DEF Next

(* Tasks stay watched.                                                     *)
LEMMA TasksStayWatched ==
  ASSUME W!IInv, TypeOK, StepsAnswered, Watched, Next
  PROVE  Watched' /\ unwatched \subseteq unwatched'
<1>1. CASE \E q \in Runs, reset \in BOOLEAN : GoOn(q) \/ StartAtOnce(q, reset)
  <2>1. PICK q \in Runs, b \in BOOLEAN :
          /\ task[q] \in {"none", "starting"}
          /\ Existing = {} \/ ~Alive(awaited[q])
          /\ Create(q, b)
    BY <1>1, StartsCreate
  <2>2. /\ registered' = q
        /\ \A r \in Runs : r # q => task'[r] = task[r]
        /\ unwatched \subseteq unwatched'
        /\ \A r \in Runs : Alive(r) => r # q /\ r \in unwatched'
    BY <2>1, CreateFacts
  <2> QED
    BY <2>2 DEF Watched, Alive
<1>2. CASE ~ \E q \in Runs, reset \in BOOLEAN : GoOn(q) \/ StartAtOnce(q, reset)
  BY <1>2, OthersCreateNothing DEF Watched
<1> QED
  BY <1>1, <1>2

(* A command in the queue that will be answered stays the last of its
   simulation, until it is cancelled.                                      *)
LEMMA PendingStaysLatest ==
  ASSUME W!IInv, Lined, TypeOK, StepsAnswered, PendingIsLatest, Next
  PROVE  PendingIsLatest'
<1>1. /\ submitter \in [Commands -> {"idle", "putting", "waiting", "cancelled", "answered"}]
      /\ future \in [Commands -> {"none", "pending", "result", "exception", "cancelled"}]
      /\ queue \in Seq(Commands)
      /\ task \in [Runs -> {"none", "starting", "created", "sleeping", "processing",
                            "cancelled", "doomed", "ended"}]
      /\ step \in [Runs -> 0 .. Operations]
  BY WorkerFacts DEF TypeOK
<1>2. \A c \in ToSet(queue) : c \in Commands /\ c[1] \in Runs
  BY <1>1 DEF ToSet, Commands
<1>3. ASSUME \A c \in ToSet(queue') :
               future'[c] = "pending" =>
                 /\ c \in ToSet(queue) /\ future[c] = "pending" /\ submitter'[c] = submitter[c]
                 /\ task'[c[1]] = task[c[1]] /\ step'[c[1]] = step[c[1]]
      PROVE  PendingIsLatest'
  BY <1>3 DEF PendingIsLatest, Latest, ToSet
<1>4. ASSUME UNCHANGED <<queue, future, submitter>>,
             \A r \in Runs : task[r] = "processing" => task'[r] = task[r] /\ step'[r] = step[r]
      PROVE  PendingIsLatest'
  BY <1>2, <1>3, <1>4 DEF PendingIsLatest
<1>5. ASSUME NEW q \in Runs, NEW c0 \in Commands, c0 = Latest(q)',
             Worker!Submit(c0) \/ Worker!PutLater(c0),
             task'[q] = "processing", task[q] = "processing" => step'[q] = step[q],
             \A r \in Runs : r # q => task'[r] = task[r] /\ step'[r] = step[r]
      PROVE  PendingIsLatest'
  <2>1. \A c \in Commands : c # c0 => future'[c] = future[c] /\ submitter'[c] = submitter[c]
    BY <1>1, <1>5 DEF Worker!Submit, Worker!PutLater, Worker!Enqueued
  <2>2. \A c \in ToSet(queue) : c # c0
    BY <1>1, <1>5 DEF Lined, ToSet, Worker!Submit, Worker!PutLater
  <2>3. /\ c0[1] = q /\ c0 = <<q, step'[q]>>
    BY <1>5 DEF Latest
  <2>4. ASSUME NEW c \in ToSet(queue), future'[c] = "pending"
        PROVE  submitter'[c] = "waiting" /\ task'[c[1]] = "processing" /\ c = Latest(c[1])'
    <3>1. future[c] = "pending" /\ submitter'[c] = submitter[c]
      BY <1>2, <2>1, <2>2, <2>4
    <3>2. submitter[c] = "waiting" /\ task[c[1]] = "processing" /\ c = <<c[1], step[c[1]]>>
      BY <2>4, <3>1 DEF PendingIsLatest, Latest
    <3>3. task'[c[1]] = "processing" /\ step'[c[1]] = step[c[1]]
      BY <1>2, <1>5, <2>4, <3>2
    <3> QED
      BY <3>1, <3>2, <3>3 DEF Latest
  <2>5. CASE queue' = queue
    BY <2>4, <2>5 DEF PendingIsLatest
  <2>6. CASE Worker!Enqueued(c0)
    <3>1. queue' = Append(queue, c0) /\ submitter'[c0] = "waiting"
      BY <1>1, <2>6 DEF Worker!Enqueued
    <3>2. ToSet(queue') \subseteq ToSet(queue) \cup {c0}
      BY <1>1, <3>1 DEF ToSet
    <3>3. c0 = Latest(c0[1])' /\ task'[c0[1]] = "processing"
      BY <1>5, <2>3
    <3> QED
      BY <2>4, <3>1, <3>2, <3>3 DEF PendingIsLatest
  <2> QED
    BY <1>5, <2>5, <2>6 DEF Worker!Submit, Worker!PutLater
<1>6. ASSUME NEW q \in Runs, Begin(q) PROVE PendingIsLatest'
  <2>1. /\ task[q] = "created" /\ Worker!Submit(<<q, 1>>)
        /\ task' = [task EXCEPT ![q] = "processing"] /\ step' = [step EXCEPT ![q] = 1]
    BY <1>6 DEF Begin
  <2>2. <<q, 1>> \in Commands
    BY SimulationAssumption DEF Commands
  <2>3. <<q, 1>> = Latest(q)' /\ task'[q] = "processing"
        /\ \A r \in Runs : r # q => task'[r] = task[r] /\ step'[r] = step[r]
    BY <1>1, <2>1 DEF Latest
  <2> QED
    BY <1>5, <2>1, <2>2, <2>3
<1>7. ASSUME NEW q \in Runs, Ask(q) PROVE PendingIsLatest'
  <2>1. /\ task[q] = "sleeping" /\ step[q] # Operations /\ Worker!Submit(<<q, step[q] + 1>>)
        /\ task' = [task EXCEPT ![q] = "processing"] /\ step' = [step EXCEPT ![q] = @ + 1]
    BY <1>7 DEF Ask, Done
  <2>2. <<q, step[q] + 1>> \in Commands
    <3>1. step[q] + 1 \in 1 .. Operations
      BY <1>1, <2>1, SimulationAssumption
    <3> QED
      BY <3>1 DEF Commands
  <2>3. <<q, step[q] + 1>> = Latest(q)' /\ task'[q] = "processing"
        /\ \A r \in Runs : r # q => task'[r] = task[r] /\ step'[r] = step[r]
    BY <1>1, <2>1 DEF Latest
  <2> QED
    BY <1>5, <2>1, <2>2, <2>3
<1>8. ASSUME NEW q \in Runs, PutLater(q) PROVE PendingIsLatest'
  <2>1. /\ task[q] = "processing" /\ Worker!PutLater(Latest(q))
        /\ task' = task /\ step' = step
    BY <1>8 DEF PutLater
  <2>2. Latest(q) \in Commands /\ Latest(q) = Latest(q)'
    BY <2>1, LatestIsCommand DEF Latest
  <2> QED
    BY <1>5, <2>1, <2>2
<1>9. ASSUME NEW q \in Runs, Answered(q) PROVE PendingIsLatest'
  <2>1. /\ task[q] = "processing" /\ Worker!Receive(Latest(q))
        /\ task' = [task EXCEPT ![q] = "sleeping"] /\ step' = step
    BY <1>9 DEF Answered
  <2>2. /\ future[Latest(q)] # "pending" /\ queue' = queue /\ future' = future
        /\ submitter' = [submitter EXCEPT ![Latest(q)] = "answered"]
    BY <2>1 DEF Worker!Receive
  <2>3. ASSUME NEW c \in ToSet(queue), future[c] = "pending"
        PROVE  c # Latest(q) /\ c[1] # q
    BY <2>2, <2>3 DEF PendingIsLatest
  <2> QED
    BY <1>1, <1>2, <1>3, <2>1, <2>2, <2>3
<1>10. ASSUME NEW q \in Runs, Complete(q) \/ Unwind(q) PROVE PendingIsLatest'
  <2>1. /\ task[q] # "processing" /\ task' = [task EXCEPT ![q] = "ended"]
        /\ step' = step /\ UNCHANGED <<queue, future, submitter>>
    BY <1>10 DEF Complete, Unwind, Ends, workerVars
  <2> QED
    BY <1>1, <1>4, <2>1
<1>11. ASSUME NEW q \in Runs, NEW reset \in BOOLEAN, GoOn(q) \/ StartAtOnce(q, reset)
       PROVE  PendingIsLatest'
  <2>1. task[q] \in {"none", "starting"} /\ \E b \in BOOLEAN : Create(q, b)
    BY <1>11, StartsCreate
  <2>2. /\ task' = [task EXCEPT ![q] = "created"] /\ step' = step
        /\ UNCHANGED <<queue, future, submitter>>
    BY <2>1 DEF Create, workerVars
  <2> QED
    BY <1>1, <1>4, <2>1, <2>2
<1>12. ASSUME NEW waiting \in SUBSET Runs, \A q \in waiting : task[q] = "none",
              CancelExisting(waiting), step' = step
       PROVE  PendingIsLatest'
  <2>1. queue' = queue
    BY <1>12, CancelFacts
  <2>2. ASSUME NEW c \in ToSet(queue), future'[c] = "pending"
        PROVE  /\ future[c] = "pending" /\ submitter'[c] = submitter[c]
               /\ task'[c[1]] = task[c[1]]
    <3>1. \/ future'[c] = future[c] /\ submitter'[c] = submitter[c]
          \/ c[1] \in Existing /\ task[c[1]] = "processing" /\ c = Latest(c[1])
      BY <1>2, <1>12, <2>2, CancelFacts
    <3>2. future[c] = "pending"
      <4>1. future[c] \in {"pending", "cancelled"}
        BY <2>2 DEF Lined, ToSet
      <4>2. future[c] = "cancelled" => future'[c] = "cancelled"
        <5>1. future[c] = "cancelled" => submitter[c] # "idle"
          BY <1>2, <2>2, WorkerFacts
        <5>2. WorkerMoves
          BY <1>12, CancelFacts
        <5> QED
          BY <1>2, <2>2, <5>1, <5>2, AnswersStay
      <4> QED
        BY <2>2, <4>1, <4>2
    <3>3. submitter[c] = "waiting" /\ task[c[1]] = "processing" /\ c = Latest(c[1])
      BY <2>2, <3>2 DEF PendingIsLatest
    <3>4. c[1] \notin Existing
      <4> SUFFICES ASSUME c[1] \in Existing PROVE FALSE
        OBVIOUS
      <4>1. future'[Latest(c[1])] = "cancelled"
        BY <1>12, <3>2, <3>3, CancelFacts
      <4> QED
        BY <2>2, <3>3, <4>1
    <3>5. c[1] \notin waiting
      BY <1>12, <3>3
    <3>6. task'[c[1]] = task[c[1]]
      BY <1>2, <1>12, <2>2, <3>4, <3>5, CancelFacts
    <3> QED
      BY <3>1, <3>2, <3>4, <3>6
  <2> QED
    BY <1>3, <1>12, <2>1, <2>2
<1>13. ASSUME NEW q \in Runs, NEW reset \in BOOLEAN, CancelThenStart(q, reset)
       PROVE  PendingIsLatest'
  BY <1>12, <1>13 DEF CancelThenStart, NextRequest
<1>14. CASE Reset \/ Shutdown
  BY <1>12, <1>14 DEF Reset, Shutdown
<1>15. CASE Drain
  <2>1. Worker!Drain /\ task' = task /\ step' = step
    BY <1>15 DEF Drain
  <2>2. \A c \in ToSet(queue') : c \in ToSet(queue) /\ future'[c] = future[c]
    BY <2>1, DrainFacts DEF ToSet
  <2>3. submitter' = submitter
    BY <2>1, DrainFacts
  <2> QED
    BY <1>3, <2>1, <2>2, <2>3
<1>16. CASE Pause \/ Resume \/ StopWorker
  BY <1>4, <1>16 DEF Pause, Resume, StopWorker, Worker!Stop, workerVars
<1> QED
  BY <1>6, <1>7, <1>8, <1>9, <1>10, <1>11, <1>13, <1>14, <1>15, <1>16 DEF Next, Turn

(* What a step other than a turn does to a task that is at work: cancel it
   if it is registered, or nothing.                                        *)
LEMMA WorkGoesOn ==
  ASSUME W!IInv, TypeOK, StepsAnswered, Next, ~ \E q \in Runs : Turn(q)
  PROVE  /\ step' = step
         /\ \A r \in Runs : task'[r] \in {"sleeping", "processing"} => task'[r] = task[r]
<1>1. task \in [Runs -> {"none", "starting", "created", "sleeping", "processing",
                         "cancelled", "doomed", "ended"}]
  BY DEF TypeOK
<1>2. ASSUME NEW waiting \in SUBSET Runs, CancelExisting(waiting), step' = step
      PROVE  /\ step' = step
             /\ \A r \in Runs : task'[r] \in {"sleeping", "processing"} => task'[r] = task[r]
  <2>1. \A r \in Runs : task'[r] = IF r \in Existing THEN Cancelled(r)
                                   ELSE IF r \in waiting THEN "starting" ELSE task[r]
    BY <1>2, CancelFacts
  <2> QED
    BY <1>2, <2>1 DEF Cancelled
<1>3. ASSUME NEW q \in Runs, NEW reset \in BOOLEAN, CancelThenStart(q, reset)
      PROVE  /\ step' = step
             /\ \A r \in Runs : task'[r] \in {"sleeping", "processing"} => task'[r] = task[r]
  BY <1>2, <1>3 DEF CancelThenStart
<1>4. CASE Reset \/ Shutdown
  BY <1>2, <1>4 DEF Reset, Shutdown
<1>5. CASE Pause \/ Resume \/ Drain \/ StopWorker
  BY <1>5 DEF Pause, Resume, Drain, StopWorker
<1>6. ASSUME NEW q \in Runs, NEW reset \in BOOLEAN, GoOn(q) \/ StartAtOnce(q, reset)
      PROVE  /\ step' = step
             /\ \A r \in Runs : task'[r] \in {"sleeping", "processing"} => task'[r] = task[r]
  <2>1. \E b \in BOOLEAN : Create(q, b)
    BY <1>6, StartsCreate
  <2>2. task' = [task EXCEPT ![q] = "created"] /\ step' = step
    BY <2>1 DEF Create
  <2> QED
    BY <1>1, <2>2
<1> QED
  BY <1>3, <1>4, <1>5, <1>6 DEF Next

(* Whatever replaces the book leaves no watched simulation at work on the
   old one: every task that is still at work then is not watched.          *)
LEMMA ReplacedIsUnwatched ==
  ASSUME W!IInv, TypeOK, StepsAnswered, Watched, Next, outdated' # outdated
  PROVE  /\ outdated' \subseteq {r \in Runs : step[r] > 0} /\ step' = step
         /\ \A r \in Runs : task'[r] \in {"sleeping", "processing"} => r \in unwatched'
<1>1. CASE Reset
  <2>1. outdated' = {r \in Runs : step[r] > 0} /\ step' = step /\ unwatched' = unwatched
    BY <1>1 DEF Reset, Replaced
  <2>2. \A r \in Runs : task'[r] = IF r \in Existing THEN Cancelled(r) ELSE task[r]
    BY <1>1, CancelFacts DEF Reset
  <2>3. ASSUME NEW r \in Runs, task'[r] \in {"sleeping", "processing"} PROVE r \in unwatched'
    <3>1. r \notin Existing /\ Alive(r)
      BY <2>2, <2>3 DEF Cancelled, Alive
    <3>2. r # registered
      BY <3>1 DEF Existing, Runs, NoRun
    <3> QED
      BY <2>1, <3>1, <3>2 DEF Watched
  <2> QED
    BY <2>1, <2>3
<1>2. ASSUME NEW q \in Runs, NEW reset \in BOOLEAN, GoOn(q) \/ StartAtOnce(q, reset)
      PROVE  /\ outdated' \subseteq {r \in Runs : step[r] > 0} /\ step' = step
             /\ \A r \in Runs : task'[r] \in {"sleeping", "processing"} => r \in unwatched'
  <2>1. PICK b \in BOOLEAN : /\ task[q] \in {"none", "starting"}
                             /\ Existing = {} \/ ~Alive(awaited[q])
                             /\ Create(q, b)
    BY <1>2, StartsCreate
  <2>2. outdated' \subseteq {r \in Runs : step[r] > 0} /\ step' = step
    BY <2>1 DEF Create, Replaced
  <2>3. /\ task'[q] = "created"
        /\ \A r \in Runs : r # q => task'[r] = task[r]
        /\ \A r \in Runs : Alive(r) => r \in unwatched'
    BY <2>1, CreateFacts
  <2> QED
    BY <2>2, <2>3 DEF Alive
<1> QED
  BY <1>1, <1>2 DEF Next, Turn, Begin, Answered, Ask, Complete, Unwind, PutLater,
       CancelThenStart, Pause, Resume, Drain, Shutdown, StopWorker, bookVars

(* Simulations keep to their book.                                         *)
LEMMA BooksStayKept ==
  ASSUME W!IInv, Lined, TypeOK, StepsAnswered, Watched, PendingIsLatest, BooksKept, Next
  PROVE  BooksKept'
<1>1. /\ task \in [Runs -> {"none", "starting", "created", "sleeping", "processing",
                            "cancelled", "doomed", "ended"}]
      /\ step \in [Runs -> 0 .. Operations] /\ Operations \in Nat
      /\ outdated \subseteq Runs /\ astray \subseteq Commands
  BY SimulationAssumption DEF TypeOK
<1>2. WorkerMoves
  BY NextMoves
<1>3. unwatched \subseteq unwatched'
  BY TasksStayWatched
<1>4. ASSUME NEW c \in astray PROVE c[1] \in unwatched' \/ future'[c] = "cancelled"
  <2>1. c \in Commands /\ c \in ToSet(handled)
    BY <1>1 DEF BooksKept
  <2>2. submitter[c] # "idle"
    BY <2>1, WorkerFacts
  <2>3. future[c] = "cancelled" => future'[c] = "cancelled"
    BY <1>2, <2>1, <2>2, AnswersStay
  <2> QED
    BY <1>3, <2>3 DEF BooksKept, OneBookPerSimulation
<1>5. astray' \subseteq ToSet(handled') /\ OneBookPerSimulation'
  <2>1. CASE Drain
    <3>1. /\ Worker!Drain
          /\ astray' = astray \cup
                {c \in ToSet(handled') \ ToSet(handled) : c[1] \in outdated}
      BY <2>1 DEF Drain
    <3>2. ASSUME NEW c \in ToSet(handled') \ ToSet(handled), c[1] \in outdated
          PROVE  c[1] \in unwatched' \/ future'[c] = "cancelled"
      <4>1. c \in ToSet(queue)
        BY <3>1, <3>2, DrainFacts
      <4>2. c \in Commands /\ future[c] \in {"pending", "cancelled"}
            /\ submitter[c] # "idle"
        BY <4>1, WorkerFacts DEF ToSet, Lined
      <4>3. CASE future[c] = "pending"
        BY <1>3, <3>2, <4>1, <4>3 DEF PendingIsLatest, BooksKept
      <4>4. CASE future[c] = "cancelled"
        BY <1>2, <4>2, <4>4, AnswersStay
      <4> QED
        BY <4>2, <4>3, <4>4
    <3>3. ToSet(handled) \subseteq ToSet(handled')
      BY <1>2, HandledStays
    <3> QED
      BY <1>4, <3>1, <3>2, <3>3 DEF BooksKept, OneBookPerSimulation
  <2>2. CASE ~Drain
    <3>1. astray' = astray
      BY <2>2 DEF Next, Turn, Begin, Answered, Ask, Complete, Unwind, PutLater, GoOn,
           StartAtOnce, Create, CancelThenStart, Pause, Resume, Reset, Shutdown, StopWorker,
           bookVars
    <3>2. ToSet(handled) \subseteq ToSet(handled')
      BY <1>2, HandledStays
    <3> QED
      BY <1>4, <3>1, <3>2 DEF BooksKept, OneBookPerSimulation
  <2> QED
    BY <2>1, <2>2
<1>6. /\ \A r \in outdated' : step'[r] > 0
      /\ \A r \in outdated' : task'[r] \in {"sleeping", "processing"} => r \in unwatched'
  <2>1. CASE outdated' # outdated
    BY <2>1, ReplacedIsUnwatched
  <2>2. CASE outdated' = outdated /\ ~ \E q \in Runs : Turn(q)
    BY <1>1, <1>3, <2>2, WorkGoesOn DEF BooksKept
  <2>3. ASSUME outdated' = outdated, NEW q \in Runs, Turn(q)
        PROVE  /\ \A r \in outdated' : step'[r] > 0
               /\ \A r \in outdated' : task'[r] \in {"sleeping", "processing"} => r \in unwatched'
    <3>1. \A r \in Runs : r # q => task'[r] = task[r] /\ step'[r] = step[r]
      BY <1>1, <2>3 DEF Turn, Begin, Answered, Ask, Complete, Unwind, PutLater, Ends
    <3>2. q \in outdated => step[q] > 0 /\ task[q] # "created"
      BY DEF BooksKept, StepsAnswered
    <3>3. q \in outdated =>
            /\ step'[q] > 0
            /\ task'[q] \in {"sleeping", "processing"} => task[q] \in {"sleeping", "processing"}
      BY <1>1, <2>3, <3>2 DEF Turn, Begin, Answered, Ask, Complete, Unwind, PutLater, Ends
    <3> QED
      BY <1>1, <1>3, <2>3, <3>1, <3>3 DEF BooksKept
  <2> QED
    BY <2>1, <2>2, <2>3
<1> QED
  BY <1>5, <1>6 DEF BooksKept

(* The count and the status are the registered simulation's.               *)
LEMMA CountsStayRegistered ==
  ASSUME W!IInv, Lined, TypeOK, StepsAnswered, Watched, CountsRegistered, Next
  PROVE  CountsRegistered'
<1> SUFFICES ASSUME unwatched' = {}
             PROVE  /\ \A r \in Runs : r = registered' /\ task'[r] = "sleeping" =>
                                         operations' = step'[r]
                    /\ status' = "COMPLETE" =>
                         /\ registered' \in Runs /\ task'[registered'] = "ended"
                         /\ operations' = Operations
                         /\ \A k \in 1 .. Operations : future'[<<registered', k>>] = "result"
  BY DEF CountsRegistered
<1>1. /\ task \in [Runs -> {"none", "starting", "created", "sleeping", "processing",
                            "cancelled", "doomed", "ended"}]
      /\ step \in [Runs -> 0 .. Operations]
  BY DEF TypeOK
<1>2. unwatched = {}
  BY TasksStayWatched
<1>3. \A r \in Runs : Alive(r) => r = registered
  BY <1>2 DEF Watched
<1>4. ASSUME NEW r \in Runs, NEW k \in 1 .. Operations, future[<<r, k>>] = "result"
      PROVE  future'[<<r, k>>] = "result"
  <2>1. <<r, k>> \in Commands
    BY DEF Commands
  <2>2. WorkerMoves
    BY NextMoves
  <2> QED
    BY <1>4, <2>1, <2>2, AnswersStay
<1>5. status = "COMPLETE" =>
        /\ registered \in Runs /\ task[registered] = "ended"
        /\ operations = Operations
        /\ \A k \in 1 .. Operations : future'[<<registered, k>>] = "result"
  BY <1>2, <1>4 DEF CountsRegistered
<1> DEFINE Goal ==
      /\ \A r \in Runs : r = registered' /\ task'[r] = "sleeping" => operations' = step'[r]
      /\ status' = "COMPLETE" =>
           /\ registered' \in Runs /\ task'[registered'] = "ended"
           /\ operations' = Operations
           /\ \A k \in 1 .. Operations : future'[<<registered', k>>] = "result"
<1>6. ASSUME NEW q \in Runs, Turn(q) PROVE Goal
  <2>1. Alive(q) /\ registered' = registered
    BY <1>6 DEF Turn, Begin, Answered, Ask, Complete, Unwind, PutLater, Alive, requestVars
  <2>2. q = registered /\ task[registered] # "ended"
    BY <1>3, <2>1 DEF Alive
  <2>3. status # "COMPLETE"
    BY <1>5, <2>2
  <2>4. CASE Begin(q)
    BY <1>1, <2>1, <2>2, <2>4 DEF Begin
  <2>5. CASE Answered(q)
    BY <1>1, <2>1, <2>2, <2>3, <2>5 DEF Answered, Counted
  <2>6. CASE Ask(q)
    BY <1>1, <2>1, <2>2, <2>3, <2>6 DEF Ask, stateVars
  <2>7. CASE Complete(q)
    <3>1. /\ task[q] = "sleeping" /\ step[q] = Operations
          /\ task' = [task EXCEPT ![q] = "ended"] /\ operations' = operations
      BY <2>7 DEF Complete, Done, Ends
    <3>2. operations = step[q]
      BY <1>2, <2>2, <3>1 DEF CountsRegistered
    <3>3. \A k \in 1 .. Operations : k < Operations \/ k = Operations
      BY SimulationAssumption
    <3>4. \A k \in 1 .. Operations : future[<<q, k>>] = "result"
      BY <3>1, <3>3 DEF StepsAnswered
    <3> QED
      BY <1>1, <1>4, <2>1, <2>2, <3>1, <3>2, <3>4
  <2>8. CASE Unwind(q)
    BY <1>1, <2>1, <2>2, <2>3, <2>8 DEF Unwind, Ends
  <2>9. CASE PutLater(q)
    BY <1>1, <2>1, <2>2, <2>3, <2>9 DEF PutLater, stateVars
  <2> QED
    BY <1>6, <2>4, <2>5, <2>6, <2>7, <2>8, <2>9 DEF Turn
<1>7. ASSUME NEW q \in Runs, NEW reset \in BOOLEAN, GoOn(q) \/ StartAtOnce(q, reset) PROVE Goal
  <2>1. PICK b \in BOOLEAN : Create(q, b)
    BY <1>7, StartsCreate
  <2>2. registered' = q /\ status' = "RUNNING" /\ task' = [task EXCEPT ![q] = "created"]
    BY <2>1 DEF Create
  <2> QED
    BY <1>1, <2>2
<1>8. ASSUME NEW waiting \in SUBSET Runs, \A q \in waiting : task[q] = "none",
             CancelExisting(waiting), registered' = registered
      PROVE  /\ \A r \in Runs : r = registered' => task'[r] # "sleeping"
             /\ registered \in Runs /\ task[registered] = "ended" => task'[registered] = "ended"
  <2>1. \A r \in Runs : task'[r] = IF r \in Existing THEN Cancelled(r)
                                   ELSE IF r \in waiting THEN "starting" ELSE task[r]
    BY <1>8, CancelFacts
  <2>2. \A r \in Runs : r = registered /\ task[r] = "sleeping" => r \in Existing
    BY DEF Existing, Alive, Runs, NoRun
  <2>3. registered \in Runs /\ task[registered] = "ended" =>
          registered \notin Existing /\ registered \notin waiting
    BY <1>8 DEF Existing, Alive
  <2> QED
    BY <1>8, <2>1, <2>2, <2>3 DEF Cancelled
<1>9. ASSUME NEW q \in Runs, NEW reset \in BOOLEAN, CancelThenStart(q, reset) PROVE Goal
  <2>1. /\ CancelExisting({q}) /\ task[q] = "none" /\ UNCHANGED <<registered, status, operations>>
    BY <1>9 DEF CancelThenStart, NextRequest, stateVars
  <2> QED
    BY <1>5, <1>8, <2>1
<1>10. CASE Reset
  BY <1>8, <1>10 DEF Reset
<1>11. CASE Shutdown
  BY <1>5, <1>8, <1>11 DEF Shutdown, stateVars
<1>12. CASE Drain \/ StopWorker
  BY <1>2, <1>5, <1>12 DEF Drain, StopWorker, stateVars, requestVars, CountsRegistered
<1>13. CASE Pause \/ Resume
  BY <1>2, <1>13 DEF Pause, Resume, requestVars, CountsRegistered
<1> QED
  BY <1>6, <1>7, <1>9, <1>10, <1>11, <1>12, <1>13 DEF Next

(* A pause that found a simulation at work stays in force for it.          *)
LEMMA PausesAreKept ==
  ASSUME W!IInv, TypeOK, StepsAnswered, Watched, PauseKept, Next
  PROVE  PauseKept'
<1>1. /\ task \in [Runs -> {"none", "starting", "created", "sleeping", "processing",
                            "cancelled", "doomed", "ended"}]
      /\ paused \subseteq Runs
  BY DEF TypeOK
<1>2. unwatched \subseteq unwatched'
  BY TasksStayWatched
<1>3. \A r \in Runs : Alive(r) /\ unwatched' = {} => r = registered
  BY <1>2 DEF Watched
<1>4. ASSUME paused' \subseteq paused,
             \A r \in paused' : /\ task'[r] \in {"sleeping", "processing", "cancelled"}
                                /\ task'[r] \in {"sleeping", "processing"} =>
                                     /\ task[r] \in {"sleeping", "processing"}
                                     /\ unwatched' = {} => status' = status
      PROVE  PauseKept'
  BY <1>2, <1>4 DEF PauseKept
<1>5. ASSUME NEW q \in Runs, Turn(q) PROVE PauseKept'
  <2>1. Alive(q)
    BY <1>5 DEF Turn, Begin, Answered, Ask, Complete, Unwind, PutLater, Alive
  <2>2. ASSUME paused' \subseteq paused, q \notin paused',
               \A r \in Runs : r # q => task'[r] = task[r]
        PROVE  PauseKept'
    <3>1. ASSUME NEW r \in paused', task'[r] \in {"sleeping", "processing"}
          PROVE  unwatched' # {}
      <4>1. r # q /\ r \in Runs /\ Alive(r)
        BY <1>1, <2>2, <3>1 DEF Alive
      <4> QED
        BY <1>3, <2>1, <4>1
    <3>2. ASSUME NEW r \in paused'
          PROVE  /\ task'[r] = task[r]
                 /\ task[r] \in {"sleeping", "processing", "cancelled"}
      BY <1>1, <2>2, <3>2 DEF PauseKept
    <3> QED
      BY <3>1, <3>2 DEF PauseKept
  <2>3. CASE Begin(q)
    <3>1. /\ task[q] = "created" /\ task' = [task EXCEPT ![q] = "processing"] /\ paused' = paused
      BY <2>3 DEF Begin
    <3> QED
      BY <1>1, <2>2, <3>1 DEF PauseKept
  <2>4. CASE Answered(q)
    BY <1>1, <1>4, <2>4 DEF Answered, PauseKept
  <2>5. CASE Ask(q)
    BY <1>1, <1>4, <2>5 DEF Ask, stateVars, PauseKept
  <2>6. CASE Complete(q) \/ Unwind(q)
    <3>1. task' = [task EXCEPT ![q] = "ended"] /\ paused' = paused \ {q}
      BY <2>6 DEF Complete, Unwind, Ends
    <3> QED
      BY <1>1, <2>2, <3>1
  <2>7. CASE PutLater(q)
    BY <1>4, <2>7 DEF PutLater, stateVars, PauseKept
  <2> QED
    BY <1>5, <2>3, <2>4, <2>5, <2>6, <2>7 DEF Turn
<1>6. ASSUME NEW q \in Runs, NEW reset \in BOOLEAN, GoOn(q) \/ StartAtOnce(q, reset)
      PROVE  PauseKept'
  <2>1. paused' = {}
    <3>1. \E b \in BOOLEAN : Create(q, b)
      BY <1>6, StartsCreate
    <3> QED
      BY <3>1 DEF Create
  <2> QED
    BY <2>1 DEF PauseKept
<1>7. ASSUME NEW waiting \in SUBSET Runs, \A q \in waiting : task[q] = "none",
             CancelExisting(waiting), paused' = paused, unwatched' = unwatched
      PROVE  PauseKept'
  <2>1. \A r \in Runs : task'[r] = IF r \in Existing THEN Cancelled(r)
                                   ELSE IF r \in waiting THEN "starting" ELSE task[r]
    BY <1>7, CancelFacts
  <2>2. ASSUME NEW r \in paused
        PROVE  /\ task'[r] \in {"sleeping", "processing", "cancelled"}
               /\ task'[r] \in {"sleeping", "processing"} => r # registered /\ Alive(r)
    <3>1. r \in Runs /\ task[r] \in {"sleeping", "processing", "cancelled"}
      BY <1>1 DEF PauseKept
    <3>2. r \notin waiting /\ Alive(r)
      BY <1>7, <3>1 DEF Alive
    <3>3. r = registered => r \in Existing
      BY <3>1, <3>2 DEF Existing, Runs, NoRun
    <3> QED
      BY <2>1, <3>1, <3>2, <3>3 DEF Cancelled
  <2>3. unwatched' = {} => \A r \in paused : task'[r] \notin {"sleeping", "processing"}
    BY <1>1, <1>3, <2>2
  <2> QED
    BY <1>7, <2>2, <2>3 DEF PauseKept
<1>8. ASSUME NEW q \in Runs, NEW reset \in BOOLEAN, CancelThenStart(q, reset) PROVE PauseKept'
  BY <1>7, <1>8 DEF CancelThenStart, NextRequest
<1>9. CASE Reset \/ Shutdown
  BY <1>7, <1>9 DEF Reset, Shutdown
<1>10. CASE Pause
  BY <1>10 DEF Pause, PauseKept, AtWork
<1>11. CASE Resume
  BY <1>11 DEF Resume, PauseKept
<1>12. CASE Drain \/ StopWorker
  BY <1>4, <1>12 DEF Drain, StopWorker, stateVars, PauseKept
<1> QED
  BY <1>5, <1>6, <1>8, <1>9, <1>10, <1>11, <1>12 DEF Next

-----------------------------------------------------------------------------
(* The application starts with no simulation.                              *)
LEMMA InitInv == Init => IInv
<1> SUFFICES ASSUME Init PROVE IInv
  OBVIOUS
<1>1. W!IInv
  <2>1. W!Init
    BY DEF Init, Worker!Init, W!Init
  <2> QED
    BY <2>1, W!InitInv, WorkerAssumptions
<1>2. /\ queue = << >> /\ handled = << >>
      /\ submitter = [c \in Commands |-> "idle"]
  BY DEF Init, Worker!Init
<1>3. Lined
  BY <1>2 DEF Lined
<1>4. TypeOK
  BY <1>1, WorkerFacts, SimulationAssumption DEF Init, TypeOK
<1>5. StepsAnswered
  BY SimulationAssumption DEF Init, StepsAnswered
<1>6. Watched /\ PendingIsLatest
  BY <1>2 DEF Init, Watched, Alive, PendingIsLatest, ToSet
<1>7. BooksKept /\ CountsRegistered /\ PauseKept
  BY DEF Init, BooksKept, CountsRegistered, PauseKept, OneBookPerSimulation
<1> QED
  BY <1>1, <1>3, <1>4, <1>5, <1>6, <1>7 DEF IInv

(* Every step keeps the invariant.                                         *)
LEMMA NextInv == IInv /\ [Next]_vars => IInv'
<1> SUFFICES ASSUME IInv, [Next]_vars PROVE IInv'
  OBVIOUS
<1> USE DEF IInv
<1>1. CASE Next
  <2>1. WorkerMoves
    BY <1>1, NextMoves
  <2>2. W!IInv'
    BY <2>1, WorkerKeepsInvariant
  <2>3. Lined'
    BY <2>1, MovesKeepLine
  <2>4. TypeOK'
    BY <1>1, <2>2, StepIsTyped
  <2>5. StepsAnswered'
    BY <1>1, StepsStayAnswered
  <2>6. Watched'
    BY <1>1, TasksStayWatched
  <2>7. PendingIsLatest'
    BY <1>1, PendingStaysLatest
  <2>8. BooksKept'
    BY <1>1, BooksStayKept
  <2>9. CountsRegistered'
    BY <1>1, CountsStayRegistered
  <2>10. PauseKept'
    BY <1>1, PausesAreKept
  <2> QED
    BY <2>2, <2>3, <2>4, <2>5, <2>6, <2>7, <2>8, <2>9, <2>10
<1>2. CASE UNCHANGED vars
  <2>1. W!IInv'
    BY <1>2, WorkerKeepsInvariant DEF vars, WorkerMoves
  <2>2. TypeOK'
    <3>1. Worker!TypeOK'
      BY <2>1 DEF W!IInv, W!TypeOK, Worker!TypeOK
    <3> QED
      BY <1>2, <3>1 DEF vars, stateVars, bookVars, requestVars, TypeOK
  <2>3. /\ Lined' /\ StepsAnswered' /\ Watched' /\ PendingIsLatest' /\ BooksKept'
        /\ CountsRegistered' /\ PauseKept'
    BY <1>2 DEF vars, workerVars, stateVars, bookVars, requestVars, Lined, StepsAnswered,
         Watched, Alive, PendingIsLatest, Latest, BooksKept, OneBookPerSimulation,
         CountsRegistered, PauseKept, ToSet
  <2> QED
    BY <2>1, <2>2, <2>3
<1> QED
  BY <1>1, <1>2

(* The invariant of the simulations and of the worker they share.          *)
THEOREM Invariant == Spec => []IInv
<1> QED
  BY InitInv, NextInv, PTL DEF Spec

(* main.py keeps the state of its simulations within its types.            *)
THEOREM TypeCorrect == Spec => []TypeOK
<1>1. IInv => TypeOK
  BY DEF IInv
<1> QED
  BY <1>1, Invariant, PTL

(* A simulation's commands run on the book it reads, across resets and
   restarts that catch one in the queue; those that do not are the command
   that ends the worker and those of a simulation nothing watches.         *)
THEOREM BooksAreKept == Spec => []OneBookPerSimulation
<1>1. IInv => OneBookPerSimulation
  BY DEF IInv, BooksKept
<1> QED
  BY <1>1, Invariant, PTL

(* COMPLETE is said only of the simulation asked for last, when all of its
   operations have run on its book.                                        *)
THEOREM CompleteIsComplete == Spec => []CompleteMeansAll
<1>1. IInv => CompleteMeansAll
  <2> SUFFICES ASSUME IInv, status = "COMPLETE", unwatched = {}
               PROVE  /\ operations = Operations
                      /\ {registered} \X (1 .. Operations) \subseteq ToSet(handled) \ astray
    BY DEF CompleteMeansAll
  <2>1. /\ registered \in Runs /\ operations = Operations
        /\ \A k \in 1 .. Operations : future[<<registered, k>>] = "result"
    BY DEF IInv, CountsRegistered
  <2>2. ASSUME NEW k \in 1 .. Operations
        PROVE  <<registered, k>> \in ToSet(handled) \ astray
    <3>1. <<registered, k>> \in Commands
      BY <2>1 DEF Commands
    <3>2. <<registered, k>> \in ToSet(handled)
      BY <2>1, <3>1, WorkerFacts DEF IInv
    <3>3. <<registered, k>> \notin astray
      BY <2>1 DEF IInv, BooksKept, OneBookPerSimulation
    <3> QED
      BY <3>2, <3>3
  <2> QED
    BY <2>1, <2>2
<1> QED
  BY <1>1, Invariant, PTL

(* A simulation that a pause found at work asks for no operation until a
   resume or another simulation lifts the pause.                           *)
THEOREM PausesHold == Spec => PauseHolds
<1>1. IInv /\ [Next]_vars =>
        [unwatched = {} => \A r \in paused \cap paused' : step'[r] = step[r]]_vars
  <2> SUFFICES ASSUME IInv, Next, unwatched = {}, NEW r \in paused
               PROVE  step'[r] = step[r]
    OBVIOUS
  <2>1. /\ r \in Runs /\ step \in [Runs -> 0 .. Operations]
        /\ task[r] \in {"sleeping", "processing", "cancelled"}
        /\ task[r] = "sleeping" => status = "PAUSED"
    BY DEF IInv, TypeOK, PauseKept
  <2>2. ASSUME NEW q \in Runs, Turn(q) PROVE step'[r] = step[r]
    BY <2>1, <2>2 DEF Turn, Begin, Answered, Ask, Held, Complete, Unwind, PutLater
  <2>3. CASE ~ \E q \in Runs : Turn(q)
    BY <2>3, WorkGoesOn DEF IInv
  <2> QED
    BY <2>2, <2>3
<1> QED
  BY <1>1, Invariant, PTL DEF Spec, PauseHolds
=============================================================================
