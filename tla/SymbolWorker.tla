---------------------------- MODULE SymbolWorker ----------------------------
(***************************************************************************)
(* SymbolWorker of backend/limitx/engine/gateway.py: the bounded queue of  *)
(* one symbol, the task that empties it, and the tasks that await their    *)
(* results.  Everything runs on one event loop, so an action is what a     *)
(* task does between two suspensions.                                      *)
(*                                                                         *)
(* _run does not suspend while the queue holds items: get() of a queue     *)
(* that is not empty returns at once and the handler is synchronous.  One  *)
(* turn of the worker is therefore a Drain of the whole queue, unless a    *)
(* result cannot be delivered: set_result on a cancelled future raises,    *)
(* set_exception in the handler of that raises again, and the task ends.   *)
(***************************************************************************)
EXTENDS Naturals, Sequences, FiniteSets, SequencesExt

CONSTANTS
  Commands,      \* the commands, each submitted once by a task of its own
  Failing,       \* those whose handler raises
  Cancellable,   \* those whose submitter may be cancelled (simulations are)
  Capacity,      \* of the queue
  MaxStarts      \* bound: how often start() is called again

ASSUME CommandsAssumption ==
  IsFiniteSet(Commands) /\ Failing \subseteq Commands /\ Cancellable \subseteq Commands
ASSUME CapacityAssumption == Capacity \in Nat \ {0}
ASSUME StartsAssumption == MaxStarts \in Nat

VARIABLES
  submitter,   \* where the task that submits a command stands
  future,      \* the future of its work item
  queue,       \* the commands in the queue of the worker
  orphans,     \* the commands put, or being put, into a queue that was replaced
  worker,      \* the task of the worker
  accepted,    \* history: the commands in the order they entered the queue
  handled,     \* history: the commands in the order the handler ran them
  starts       \* how often start() was called again

vars == <<submitter, future, queue, orphans, worker, accepted, handled, starts>>

-----------------------------------------------------------------------------
(* Submitters.                                                             *)

(* Mutant: one item more than the queue takes.                             *)
RoomForOneMore == Len(queue) <= Capacity

Room == Len(queue) < Capacity

Enqueued(c) ==
  /\ queue' = Append(queue, c)
  /\ accepted' = Append(accepted, c)
  /\ submitter' = [submitter EXCEPT ![c] = "waiting"]

(* submit: a future, then put, which suspends only if the queue is full.   *)
Submit(c) ==
  /\ submitter[c] = "idle"
  /\ future' = [future EXCEPT ![c] = "pending"]
  /\ \/ Room /\ Enqueued(c)
     \/ /\ ~Room
        /\ submitter' = [submitter EXCEPT ![c] = "putting"]
        /\ UNCHANGED <<queue, accepted>>
  /\ UNCHANGED <<orphans, worker, handled, starts>>

PutLater(c) ==
  /\ submitter[c] = "putting" /\ c \notin orphans
  /\ Room
  /\ Enqueued(c)
  /\ UNCHANGED <<future, orphans, worker, handled, starts>>

Receive(c) ==
  /\ submitter[c] = "waiting" /\ future[c] \in {"result", "exception"}
  /\ submitter' = [submitter EXCEPT ![c] = "answered"]
  /\ UNCHANGED <<future, queue, orphans, worker, accepted, handled, starts>>

(* Cancelling a task cancels the future it awaits; a command that is in the
   queue stays there.                                                      *)
Cancel(c) ==
  /\ c \in Cancellable
  /\ submitter[c] \in {"putting", "waiting"}
  /\ submitter' = [submitter EXCEPT ![c] = "cancelled"]
  /\ future' = [future EXCEPT ![c] = IF submitter[c] = "waiting" /\ @ = "pending"
                                     THEN "cancelled" ELSE @]
  /\ UNCHANGED <<queue, orphans, worker, accepted, handled, starts>>

-----------------------------------------------------------------------------
(* The worker.                                                             *)

Undeliverable == {i \in DOMAIN queue : future[queue[i]] = "cancelled"}

(* The handler has run before the delivery fails.                          *)
LastHandled ==
  IF Undeliverable = {} THEN Len(queue)
  ELSE CHOOSE i \in Undeliverable : \A j \in Undeliverable : i <= j

(* Mutant: the latest command first.                                       *)
LatestFirst(s) == Reverse(s)

OldestFirst(s) == s

(* Mutant: a handler that raises leaves its future alone.                  *)
ResolvedIfDone(c) ==
  IF future[c] = "pending" /\ c \notin Failing THEN "result" ELSE future[c]

(* Mutant: the error of a handler is swallowed.                            *)
ErrorSwallowed(c) == IF future[c] # "pending" THEN future[c] ELSE "result"

Resolved(c) ==
  IF future[c] # "pending" THEN future[c]
  ELSE IF c \in Failing THEN "exception" ELSE "result"

Drain ==
  LET batch == SubSeq(queue, 1, LastHandled)
  IN /\ worker = "running" /\ queue # << >>
     /\ handled' = handled \o OldestFirst(batch)
     /\ future' = [c \in Commands |-> IF c \in ToSet(batch) THEN Resolved(c) ELSE future[c]]
     /\ queue' = SubSeq(queue, LastHandled + 1, Len(queue))
     /\ worker' = IF Undeliverable = {} THEN "running" ELSE "dead"
     /\ UNCHANGED <<submitter, orphans, accepted, starts>>

(* stop: the task is cancelled where it is suspended, in get(); what a
   submitter has put before its next turn stays in the queue.  A task that
   is dead already raises out of stop() and nothing changes.               *)
Stop ==
  /\ worker = "running"
  /\ worker' = "stopped"
  /\ UNCHANGED <<submitter, future, queue, orphans, accepted, handled, starts>>

(* start: nothing if the task is there, else a new queue and a new task.   *)
Start ==
  /\ worker \in {"stopped", "dead"}
  /\ starts < MaxStarts /\ starts' = starts + 1
  /\ worker' = "running"
  /\ queue' = << >>
  /\ orphans' = orphans \cup ToSet(queue)
                  \cup {c \in Commands : submitter[c] = "putting"}
  /\ UNCHANGED <<submitter, future, accepted, handled>>

-----------------------------------------------------------------------------
(* The application has started: the lifespan calls start() before it serves. *)
Init ==
  /\ submitter = [c \in Commands |-> "idle"]
  /\ future = [c \in Commands |-> "none"]
  /\ queue = << >>
  /\ orphans = {}
  /\ worker = "running"
  /\ accepted = << >>
  /\ handled = << >>
  /\ starts = 0

Next ==
  \/ \E c \in Commands : Submit(c) \/ PutLater(c) \/ Receive(c) \/ Cancel(c)
  \/ Drain
  \/ Stop
  \/ Start

Spec == Init /\ [][Next]_vars

(* The event loop runs every task that is ready: a worker with items, a
   blocked put with room, a submitter with its answer.                     *)
FairSpec ==
  /\ Spec
  /\ WF_vars(Drain)
  /\ \A c \in Commands : WF_vars(PutLater(c)) /\ WF_vars(Receive(c))

-----------------------------------------------------------------------------
TypeOK ==
  /\ submitter \in [Commands -> {"idle", "putting", "waiting", "cancelled", "answered"}]
  /\ future \in [Commands -> {"none", "pending", "result", "exception", "cancelled"}]
  /\ queue \in Seq(Commands) /\ Len(queue) <= Capacity
  /\ orphans \subseteq Commands
  /\ worker \in {"running", "stopped", "dead"}
  /\ accepted \in Seq(Commands)
  /\ handled \in Seq(Commands)
  /\ starts \in 0 .. MaxStarts

(* Commands run in the order they entered the queue, each at most once and
   none passed over, across cancelled submitters, blocked puts, a worker
   that died and a restart; only what a restart left in the old queue does
   not run.                                                                *)
ServedInOrder ==
  LET served == handled \o queue
  IN \E place \in [DOMAIN served -> DOMAIN accepted] :
       /\ \A i, j \in DOMAIN served : i < j => place[i] < place[j]
       /\ \A i \in DOMAIN served : served[i] = accepted[place[i]]
       /\ {place[i] : i \in DOMAIN served} =
            {k \in DOMAIN accepted : accepted[k] \notin orphans}

(* A submitter is told of a result only if its command ran, of a failure
   only if it failed, and a command that ran never leaves its submitter
   without an answer - not even the one that kills the worker.             *)
AnswersAreTrue ==
  \A c \in Commands :
    /\ future[c] \in {"result", "exception"} =>
         c \in ToSet(handled) /\ (future[c] = "exception" <=> c \in Failing)
    /\ c \in ToSet(handled) => future[c] # "pending"

(* As long as the worker runs, every submission comes to an end, those that
   had to wait for room included.                                          *)
ServedWhileRunning ==
  \A c \in Commands :
    submitter[c] \in {"putting", "waiting"} ~>
      \/ submitter[c] \in {"answered", "cancelled"}
      \/ c \in orphans
      \/ worker # "running"
=============================================================================
