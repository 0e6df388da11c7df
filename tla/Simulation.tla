----------------------------- MODULE Simulation -----------------------------
(***************************************************************************)
(* The simulations of one symbol as backend/limitx/api/main.py controls    *)
(* them: requests that start, pause, resume and reset, the tasks that run  *)
(* _run_simulation, the symbol's worker that runs their commands, and the  *)
(* end of the application.                                                 *)
(*                                                                         *)
(* An action is what a task or a request handler does between two          *)
(* suspensions.  A simulation keeps the book it was made with; all that     *)
(* matters of it is whether the gateway has replaced it.  The commands are *)
(* those next_command makes: which they are does not matter here.  At full *)
(* speed most commands follow their answers without a sleep: those runs    *)
(* are the ones in which nothing else happens during the sleep.            *)
(***************************************************************************)
EXTENDS Naturals, Sequences, FiniteSets, SequencesExt

CONSTANTS
  MaxRuns,      \* bound: requests to start a simulation
  Operations,   \* the operations of each
  Capacity,     \* of the worker's queue
  MaxResets     \* bound: requests, to start or not, that ask for a new book

ASSUME SimulationAssumption ==
  /\ {MaxRuns, Operations, Capacity} \subseteq Nat \ {0}
  /\ MaxResets \in Nat

Runs == 1 .. MaxRuns
NoRun == 0

Commands == Runs \X (1 .. Operations)

VARIABLES
  submitter, future, queue, orphans, worker, accepted, handled, starts,
               \* those of the worker
  task,        \* where the task of a run stands, from its request on
  awaited,     \* the task a request to start waits for
  fresh,       \* the requests that ask for a new book
  registered,  \* the run in simulation_tasks
  status,      \* simulation_state: its status
  operations,  \* simulation_state: its operations
  step,        \* the operations a run has begun
  outdated,    \* the runs whose book the gateway has replaced
  resets,      \* the requests for a new book so far
  serving,     \* the application takes requests
  astray,      \* history: the commands that ran on another book than their run's
  unwatched,   \* history: the runs replaced by a request that waited for another
  paused       \* history: the runs a pause found at work

workerVars == <<submitter, future, queue, orphans, worker, accepted, handled, starts>>
stateVars == <<status, operations>>
bookVars == <<outdated, astray>>
requestVars == <<awaited, fresh, registered, resets, serving, unwatched>>
vars == <<workerVars, task, step, stateVars, bookVars, requestVars, paused>>

(* The gateway starts its workers once.                                    *)
Worker == INSTANCE SymbolWorker
            WITH Failing <- {}, Cancellable <- Commands, MaxStarts <- 0

-----------------------------------------------------------------------------
(* Tasks.                                                                  *)

AtWork == {r \in Runs : task[r] \in {"sleeping", "processing"}}

(* The task exists and is not done.                                        *)
Alive(r) == task[r] \in {"created", "sleeping", "processing", "cancelled", "doomed"}

Existing == {r \in {registered} \ {NoRun} : Alive(r)}

Latest(r) == <<r, step[r]>>

(* What cancel() makes of a task: one that has not had its first step never
   enters the coroutine, another meets the cancellation where it awaits.   *)
Cancelled(r) == IF task[r] \in {"created", "doomed"} THEN "doomed" ELSE "cancelled"

(* Mutant: the task of the simulation is left alone.                       *)
NothingToCancel == {}

TasksToCancel == Existing

(* simulation_reset, simulation_start and lifespan cancel the task that is
   registered, and with it the future it awaits.                           *)
CancelExisting(waiting) ==
  /\ task' = [r \in Runs |-> IF r \in TasksToCancel THEN Cancelled(r)
                             ELSE IF r \in waiting THEN "starting" ELSE task[r]]
  /\ \/ \E r \in TasksToCancel : task[r] = "processing" /\ Worker!Cancel(Latest(r))
     \/ /\ \A r \in TasksToCancel : task[r] # "processing"
        /\ UNCHANGED workerVars

(* _run_simulation up to its first command.  A pause since the request to
   start is forgotten.                                                     *)
Begin(r) ==
  /\ task[r] = "created"
  /\ task' = [task EXCEPT ![r] = "processing"]
  /\ status' = "RUNNING" /\ operations' = 0
  /\ step' = [step EXCEPT ![r] = 1]
  /\ Worker!Submit(<<r, 1>>)
  /\ UNCHANGED <<bookVars, requestVars, paused>>

(* Mutant: the index of the loop taken for one that starts at one.         *)
CountedFromOne(r) == step[r] + 1

Counted(r) == step[r]

(* The answer to its command, and on to the sleep.                         *)
Answered(r) ==
  /\ task[r] = "processing"
  /\ Worker!Receive(Latest(r))
  /\ task' = [task EXCEPT ![r] = "sleeping"]
  /\ operations' = Counted(r)
  /\ UNCHANGED <<status, step, bookVars, requestVars, paused>>

(* Mutant: one operation too few.                                          *)
DoneEarly(r) == step[r] + 1 >= Operations

Done(r) == step[r] = Operations

(* Mutant: a simulation waits unless it is told to run.                    *)
HeldUnlessRunning == status # "RUNNING"

Held == status = "PAUSED"

Ask(r) ==
  /\ task[r] = "sleeping" /\ ~Done(r)
  /\ ~Held
  /\ task' = [task EXCEPT ![r] = "processing"]
  /\ step' = [step EXCEPT ![r] = @ + 1]
  /\ Worker!Submit(<<r, step[r] + 1>>)
  /\ UNCHANGED <<stateVars, bookVars, requestVars, paused>>

Ends(r) ==
  /\ task' = [task EXCEPT ![r] = "ended"]
  /\ paused' = paused \ {r}

(* After the last operation a pause is not looked at.                      *)
Complete(r) ==
  /\ task[r] = "sleeping" /\ Done(r)
  /\ status' = "COMPLETE"
  /\ Ends(r)
  /\ UNCHANGED <<workerVars, operations, step, bookVars, requestVars>>

(* The cancellation arrives: the handler in the coroutine sets the status,
   a coroutine that was never entered does nothing.                        *)
Unwind(r) ==
  /\ task[r] \in {"cancelled", "doomed"}
  /\ status' = IF task[r] = "cancelled" THEN "IDLE" ELSE status
  /\ Ends(r)
  /\ UNCHANGED <<workerVars, operations, step, bookVars, requestVars>>

(* A command runs on the book the gateway has when the worker takes it.    *)
Drain ==
  /\ Worker!Drain
  /\ astray' = astray \cup
       {c \in ToSet(handled') \ ToSet(handled) : c[1] \in outdated}
  /\ UNCHANGED <<task, stateVars, step, outdated, requestVars, paused>>

-----------------------------------------------------------------------------
(* Requests.                                                               *)

(* The gateway's reset, and its seeds: the simulations that have begun keep
   the book they had.                                                      *)
Replaced(reset) ==
  outdated' = IF reset THEN {r \in Runs : step[r] > 0} ELSE outdated

(* simulation_start from the reset on.                                     *)
Create(r, reset) ==
  /\ task' = [task EXCEPT ![r] = "created"]
  /\ registered' = r
  /\ unwatched' = unwatched \cup (Existing \ {awaited[r]})
  /\ Replaced(reset)
  /\ status' = "RUNNING" /\ operations' = 0
  /\ paused' = {}
  /\ UNCHANGED <<workerVars, step, astray, serving>>

NextRequest(r, reset) ==
  /\ serving
  /\ task[r] = "none" /\ \A q \in Runs : q < r => task[q] # "none"
  /\ resets' = IF reset THEN resets + 1 ELSE resets
  /\ resets' <= MaxResets

StartAtOnce(r, reset) ==
  /\ NextRequest(r, reset)
  /\ Existing = {}
  /\ Create(r, reset)
  /\ UNCHANGED <<awaited, fresh>>

(* The request cancels the existing task and awaits it ...                 *)
CancelThenStart(r, reset) ==
  /\ NextRequest(r, reset)
  /\ Existing # {}
  /\ CancelExisting({r})
  /\ awaited' = [awaited EXCEPT ![r] = registered]
  /\ fresh' = IF reset THEN fresh \cup {r} ELSE fresh
  /\ UNCHANGED <<registered, serving, unwatched, stateVars, step, bookVars, paused>>

(* Mutant: a request to start does not wait for the task it cancels.       *)
AwaitedOrNot(r) == task[r] = "starting"

Awaited(r) == task[r] = "starting" /\ ~Alive(awaited[r])

(* ... and goes on, whatever others did meanwhile.                         *)
GoOn(r) ==
  /\ Awaited(r)
  /\ Create(r, r \in fresh)
  /\ awaited' = [awaited EXCEPT ![r] = NoRun] /\ fresh' = fresh \ {r}
  /\ UNCHANGED resets

Pause ==
  /\ serving
  /\ status' = "PAUSED"
  /\ paused' = AtWork
  /\ UNCHANGED <<workerVars, task, operations, step, bookVars, requestVars>>

Resume ==
  /\ serving
  /\ status' = "RUNNING"
  /\ paused' = {}
  /\ UNCHANGED <<workerVars, task, operations, step, bookVars, requestVars>>

(* simulation_reset cancels the task and does not await it.                *)
Reset ==
  /\ serving
  /\ resets < MaxResets /\ resets' = resets + 1
  /\ CancelExisting({})
  /\ Replaced(TRUE)
  /\ status' = "IDLE" /\ operations' = 0
  /\ UNCHANGED <<step, astray, awaited, fresh, registered, serving, unwatched, paused>>

(* lifespan after its yield: no request is open, the task is cancelled and
   awaited, then the worker is stopped.                                    *)
Shutdown ==
  /\ serving /\ \A r \in Runs : task[r] # "starting"
  /\ serving' = FALSE
  /\ CancelExisting({})
  /\ UNCHANGED <<stateVars, step, bookVars, awaited, fresh, registered, resets, unwatched, paused>>

StopWorker ==
  /\ ~serving /\ Existing = {}
  /\ Worker!Stop
  /\ UNCHANGED <<task, stateVars, step, bookVars, requestVars, paused>>

-----------------------------------------------------------------------------
Init ==
  /\ Worker!Init
  /\ task = [r \in Runs |-> "none"]
  /\ awaited = [r \in Runs |-> NoRun]
  /\ fresh = {}
  /\ registered = NoRun
  /\ status = "IDLE" /\ operations = 0
  /\ step = [r \in Runs |-> 0]
  /\ outdated = {}
  /\ resets = 0
  /\ serving = TRUE
  /\ astray = {}
  /\ unwatched = {}
  /\ paused = {}

PutLater(r) ==
  /\ task[r] = "processing"
  /\ Worker!PutLater(Latest(r))
  /\ UNCHANGED <<task, stateVars, step, bookVars, requestVars, paused>>

Turn(r) == Begin(r) \/ Answered(r) \/ Ask(r) \/ Complete(r) \/ Unwind(r) \/ PutLater(r)

Next ==
  \/ \E r \in Runs : Turn(r) \/ GoOn(r)
  \/ \E r \in Runs, reset \in BOOLEAN : StartAtOnce(r, reset) \/ CancelThenStart(r, reset)
  \/ Pause \/ Resume \/ Reset
  \/ Drain
  \/ Shutdown \/ StopWorker

Spec == Init /\ [][Next]_vars

(* The event loop runs every task that is ready.                           *)
FairSpec ==
  /\ Spec
  /\ WF_vars(Drain)
  /\ \A r \in Runs : WF_vars(Turn(r)) /\ WF_vars(GoOn(r))

-----------------------------------------------------------------------------
TypeOK ==
  /\ Worker!TypeOK
  /\ task \in [Runs -> {"none", "starting", "created", "sleeping", "processing",
                        "cancelled", "doomed", "ended"}]
  /\ awaited \in [Runs -> Runs \cup {NoRun}]
  /\ fresh \subseteq Runs
  /\ registered \in Runs \cup {NoRun}
  /\ status \in {"IDLE", "RUNNING", "PAUSED", "COMPLETE"}
  /\ operations \in 0 .. Operations
  /\ step \in [Runs -> 0 .. Operations]
  /\ resets \in 0 .. MaxResets
  /\ serving \in BOOLEAN
  /\ astray \subseteq Commands
  /\ {outdated, unwatched, paused} \subseteq SUBSET Runs

(* The commands of a simulation run on the book it reads, across resets and
   restarts that catch a command in the queue.  Two exceptions are the code's:
   the command of a cancelled simulation that ends the worker, and a
   simulation that lost its registration to a concurrent start, which
   nothing cancels any more (main.py:257 looks it up before the await).    *)
OneBookPerSimulation ==
  \A c \in astray : c[1] \in unwatched \/ future[c] = "cancelled"

(* COMPLETE is said of a simulation all of whose operations ran, on one
   book, and only while it is the last one asked for.                      *)
CompleteMeansAll ==
  status = "COMPLETE" /\ unwatched = {} =>
    /\ operations = Operations
    /\ {registered} \X (1 .. Operations) \subseteq ToSet(handled) \ astray

(* A simulation that a pause found at work asks for no operation until it is
   resumed or another takes its place - neither an old task that ends nor a
   request in progress lifts the pause.  (One that had not had its first step
   is not held, and a simulation that lost its registration sets the status
   of the others.)                                                         *)
PauseHolds ==
  [][unwatched = {} => \A r \in paused \cap paused' : step'[r] = step[r]]_vars

(* Every simulation ends, unless it is paused for ever or has no worker, and
   every request to start is carried out.                                  *)
SimulationsEnd ==
  \A r \in Runs :
    /\ task[r] = "starting" ~> task[r] # "starting"
    /\ Alive(r) ~> ~Alive(r) \/ status = "PAUSED" \/ worker # "running"

(* "Each symbol has one mutation worker" (README.md:104): from start() to
   stop() the task of the worker is there.                                 *)
OneMutationWorker == worker # "dead"
=============================================================================
