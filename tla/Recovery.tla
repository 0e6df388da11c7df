------------------------------ MODULE Recovery ------------------------------
(***************************************************************************)
(* The journal of a symbol and what is rebuilt from it: recovery points    *)
(* and their verification (backend/limitx/replay/recovery.py) and the      *)
(* replay of the whole journal (backend/limitx/replay/replay.py).  Both    *)
(* feed the journal's commands to a replica, a second RiskedBook.          *)
(*                                                                         *)
(* A verification runs to its end before the next command.  A replay runs  *)
(* in a thread on the entries it began with, which no command and no reset *)
(* changes under it, so it may as well; but its answer waits for the event *)
(* loop, where commands and resets may come first.                         *)
(***************************************************************************)
EXTENDS Exchange, SequencesExt

CONSTANTS
  EmptyName,     \* the empty account_id: cancels and modifications may carry it (main.py:222)
  LatestPoint,   \* bound: no point is taken after this many entries
  Overtaking     \* bound: no command begins when so many came before an answer

(* A book is seeded when it is new, and no order is of the empty account
   (schemas.py:13).                                                        *)
ASSUME SeededAssumption == SeedCommands # << >>
ASSUME EmptyNameAssumption ==
  /\ EmptyName # None
  /\ \A c \in Commands \cup Range(SeedCommands) :
       c.kind = "NEW" => c.order.account # EmptyName

VARIABLES
  journal,    \* the entries: the command and where its events begin
  point,      \* the recovery point, or NoPoint
  task,       \* "none", or what the replica is rebuilt for
  position,   \* how many entries the replica has been given
  target,     \* how many it is to be given
  diverged,   \* divergences: the events of some entry, but for the last, were others
  answer,     \* the replay whose thread has ended, or NoAnswer
  r_orders, r_live_orders, r_live_order_counts, r_book, r_index, r_sequence,
  r_trades, r_incoming, r_positions, r_limits, r_settled

replicaVars == <<r_orders, r_live_orders, r_live_order_counts, r_book, r_index,
                 r_sequence, r_trades, r_incoming, r_positions, r_limits, r_settled>>
rebuildVars == <<task, position, target, diverged, replicaVars>>
liveVars == <<vars, journal, point>>
recoveryVars == <<liveVars, rebuildVars, answer>>

Replica ==
  INSTANCE RiskedBook
    WITH orders <- r_orders, live_orders <- r_live_orders,
         live_order_counts <- r_live_order_counts, book <- r_book, index <- r_index,
         sequence <- r_sequence, trades <- r_trades, incoming <- r_incoming,
         positions <- r_positions, limits <- r_limits, settled <- r_settled

NoPoint == [journal_position |-> 0, taken |-> FALSE]

NoAnswer == [total |-> 0, replayed |-> None, outlived |-> FALSE]

-----------------------------------------------------------------------------
(* Commands as the journal holds them.                                     *)

(* command_to_dict is called when the command has run: it writes the order
   with what became of it so far, not with what was asked for only.        *)
Execution(o) ==
  [status |-> o.status, remaining |-> o.remaining, filled |-> o.filled,
   priority |-> o.priority]

Refusal(r) == [status |-> "REJECTED", remaining |-> r.quantity, filled |-> 0, priority |-> 0]

AsFound(order, execution) ==
  [account |-> order.account, side |-> order.side, type |-> order.type, tif |-> order.tif,
   price |-> order.price, quantity |-> order.quantity, status |-> execution.status,
   remaining |-> execution.remaining, filled |-> execution.filled,
   priority |-> execution.priority]

Written(c) ==
  IF c.kind # "NEW" THEN c
  ELSE [c EXCEPT !.order = AsFound(@, IF incoming' = c.id THEN Execution(orders'[c.id])
                                                          ELSE Refusal(@))]

AsOrdered(order) ==
  [f \in {"account", "side", "type", "tif", "price", "quantity"} |-> order[f]]

(* Mutant: the order goes on where it stood when it was written.           *)
ReadWithRemainder(c) ==
  IF c.kind # "NEW" THEN c
  ELSE [c EXCEPT !.order = AsOrdered([@ EXCEPT !.quantity = c.order.remaining])]

(* command_from_dict: the order is as new again, and a cancel or modification
   that carried the empty account carries none.                            *)
ReadBack(c) ==
  CASE c.kind = "NEW" -> [c EXCEPT !.order = AsOrdered(@)]
    [] c.kind # "NEW" /\ c.who = EmptyName -> [c EXCEPT !.who = None]
    [] OTHER -> c

-----------------------------------------------------------------------------
(* The live book.                                                          *)

(* An order as its events tell of it.                                      *)
Told(order) ==
  [price |-> order.price, quantity |-> order.quantity, remaining |-> order.remaining,
   filled |-> order.filled, priority |-> order.priority]

(* An entry's events are those from where it begins to where the next one
   does: their numbers, the trades, and what they made of the resting orders.
   (Its limits are history: the journal does not hold them.)               *)
Extended(c) ==
  Append(journal, [command |-> Written(c), limits |-> limits,
                   sequence |-> sequence, trades |-> Len(trades),
                   resting |-> [id \in live_orders |-> Told(orders[id])]])

(* Mutant: only commands the risk check lets through are recorded.         *)
RecordedIfAccepted(c) ==
  IF c.kind = "NEW" /\ ~RiskAccepts(c.order) THEN journal ELSE Extended(c)

Recorded(c) == Extended(c)

(* The entry is made once the command has run.                             *)
RecordedLater ==
  LET last == journal[Len(journal)]
      c == last.command
  IN IF c.kind # "NEW" THEN journal
     ELSE [journal EXCEPT ![Len(journal)].command =
             [c EXCEPT !.order = AsFound(@, Execution(orders'[c.id]))]]

Live ==
  /\ task = "none"
  /\ \/ /\ answer # NoAnswer => Len(journal) < answer.total + Overtaking
        /\ \E c \in Commands : Serve(c) /\ journal' = Recorded(c)
     \/ Seed /\ journal' = Recorded(Head(pending))
     \/ Match /\ journal' = RecordedLater
     \/ (Settle \/ \E l \in OtherLimits : ConfigureRisk(l)) /\ UNCHANGED journal
  /\ UNCHANGED <<point, rebuildVars, answer>>

(* Mutant: the new book goes on in the old journal.                        *)
JournalKept == journal

NewJournal == << >>

(* A reset begins a new journal and leaves the recovery point.             *)
Restart ==
  /\ task = "none"
  /\ Reset
  /\ journal' = NewJournal
  /\ point' = IF point.taken THEN [point EXCEPT !.outlived = TRUE] ELSE point
  /\ answer' = IF answer = NoAnswer THEN NoAnswer ELSE [answer EXCEPT !.outlived = TRUE]
  /\ UNCHANGED rebuildVars

-----------------------------------------------------------------------------
(* Snapshots.                                                              *)

(* snapshot(): the resting orders level by level, and the ids seen.        *)
Taken ==
  [fifo |-> [s \in Side |-> [p \in Prices |-> book[s][p].fifo]],
   resting |-> [id \in live_orders |->
                  [account |-> orders[id].account, quantity |-> orders[id].quantity,
                   remaining |-> orders[id].remaining, filled |-> orders[id].filled,
                   priority |-> orders[id].priority]],
   seen |-> {id \in OrderIds : Book!Known(id)},
   sequence |-> sequence]

(* create_recovery_point.  The rest of the record is history: the number of
   trades so far, whether the book was reset since, and whether an order
   rested whose time in force the snapshot does not keep.                  *)
TakePoint ==
  /\ task = "none" /\ answer = NoAnswer /\ Idle /\ Len(journal) <= LatestPoint
  /\ point' = [taken |-> TRUE, snapshot |-> Taken, journal_position |-> Len(journal),
               risk_positions |-> positions,
               trades |-> Len(trades), outlived |-> FALSE,
               restricted |-> \E id \in live_orders : orders[id].tif = "POST_ONLY"]
  /\ UNCHANGED <<vars, journal, rebuildVars, answer>>

(* Mutant: what a resting order has filled is forgotten.                   *)
RestoredUnfilled(snapshot, id, s, p) ==
  LET o == snapshot.resting[id]
  IN [account |-> o.account, side |-> s, type |-> "LIMIT", tif |-> "GTC", price |-> p,
      quantity |-> o.remaining, remaining |-> o.remaining, filled |-> 0,
      status |-> "ACCEPTED", priority |-> o.priority]

RestoredOrder(snapshot, id, s, p) ==
  LET o == snapshot.resting[id]
  IN [account |-> o.account, side |-> s, type |-> "LIMIT", tif |-> "GTC", price |-> p,
      quantity |-> o.quantity, remaining |-> o.remaining, filled |-> o.filled,
      status |-> IF o.filled > 0 THEN "PARTIALLY_FILLED" ELSE "ACCEPTED",
      priority |-> o.priority]

(* What stands for an order that is done.                                  *)
Placeholder ==
  [account |-> None, side |-> "BUY", type |-> "LIMIT", tif |-> "GTC", price |-> 1,
   quantity |-> 1, remaining |-> 1, filled |-> 0, status |-> "REJECTED", priority |-> 0]

RestoredOrders(snapshot) ==
  [id \in OrderIds |->
     IF \E s \in Side, p \in Prices : Contains(snapshot.fifo[s][p], id)
     THEN LET place == CHOOSE at \in Side \X Prices :
                         Contains(snapshot.fifo[at[1]][at[2]], id)
          IN RestoredOrder(snapshot, id, place[1], place[2])
     ELSE IF id \in snapshot.seen THEN Placeholder
     ELSE NoOrder]

RestoredLevel(snapshot, s, p) ==
  FoldLeft(LAMBDA level, id : Book!Enqueue(level, id, snapshot.resting[id].remaining),
           Book!EmptyLevel, snapshot.fifo[s][p])

(* from_snapshot: the same orders in the same queues.                      *)
Restore(snapshot) ==
  LET resting == DOMAIN snapshot.resting
  IN /\ r_orders' = RestoredOrders(snapshot)
     /\ r_live_orders' = resting
     /\ r_live_order_counts' =
          [a \in Accounts |-> Cardinality({id \in resting : snapshot.resting[id].account = a})]
     /\ r_book' = [s \in Side |-> [p \in Prices |-> RestoredLevel(snapshot, s, p)]]
     /\ r_index' = [s \in Side |-> {p \in Prices : snapshot.fifo[s][p] # << >>}]
     /\ r_sequence' = snapshot.sequence
     /\ r_trades' = << >>
     /\ r_incoming' = None
     /\ r_settled' = 0

-----------------------------------------------------------------------------
(* Rebuilding.                                                             *)

(* recover: from the point, under the limits of now.                       *)
Verify ==
  /\ task = "none" /\ answer = NoAnswer /\ Idle /\ point.taken
  /\ task' = "verification" /\ diverged' = FALSE
  /\ position' = point.journal_position /\ target' = Len(journal)
  /\ Restore(point.snapshot)
  /\ r_positions' = point.risk_positions
  /\ r_limits' = limits
  /\ UNCHANGED <<liveVars, answer>>

EmptySnapshot ==
  [fifo |-> [s \in Side |-> [p \in Prices |-> << >>]], resting |-> << >>,
   seen |-> {}, sequence |-> 0]

(* replay_load up to its await: a replay session, from nothing, under the
   default limits, as far as the request says.  A replay and a point read
   nothing of each other: the bound is that replays come first.            *)
Replay(count) ==
  /\ task = "none" /\ answer = NoAnswer /\ ~point.taken /\ Idle
  /\ task' = "replay" /\ diverged' = FALSE
  /\ position' = 0 /\ target' = count
  /\ Restore(EmptySnapshot)
  /\ r_positions' = [a \in Accounts |-> 0]
  /\ r_limits' = DefaultLimits
  /\ UNCHANGED <<liveVars, answer>>

(* Where the events of the replica should end: where the next entry begins. *)
Expected ==
  IF position < Len(journal) THEN journal[position + 1]
  ELSE [sequence |-> sequence, trades |-> Len(trades),
        resting |-> [id \in live_orders |-> Told(orders[id])]]

Start == IF task = "verification" THEN point.journal_position ELSE 0

First == IF task = "verification" THEN point.trades ELSE 0

(* What the events of the entry say of the order it is about.              *)
SameOutcome(id) ==
  /\ id \in r_live_orders <=> id \in DOMAIN Expected.resting
  /\ id \in r_live_orders => Told(r_orders[id]) = Expected.resting[id]

SameEvents ==
  /\ r_sequence = Expected.sequence
  /\ r_trades = SubSeq(trades, First + 1, Expected.trades)
  /\ position > Start => SameOutcome(journal[position].command.id)

(* The events of each entry are compared with those of the journal.        *)
Diverged == diverged \/ (position > Start /\ ~SameEvents)

(* The next entry of the journal, a turn of its matching, one of its trades. *)
ReplayEntry ==
  /\ task # "none" /\ Replica!AtRest
  /\ position < target
  /\ Replica!Process(ReadBack(journal[position + 1].command))
  /\ position' = position + 1 /\ diverged' = Diverged
  /\ UNCHANGED <<liveVars, task, target, answer>>

ReplayOn ==
  /\ task # "none"
  /\ Replica!Turn \/ Replica!SettleRisk
  /\ UNCHANGED <<liveVars, task, position, target, diverged, answer>>

Rebuilt == task # "none" /\ Replica!AtRest /\ position >= target

Discarded ==
  /\ r_orders' = << >> /\ r_live_orders' = {} /\ r_live_order_counts' = << >>
  /\ r_book' = << >> /\ r_index' = << >> /\ r_sequence' = 0 /\ r_trades' = << >>
  /\ r_incoming' = None /\ r_positions' = << >> /\ r_limits' = << >> /\ r_settled' = 0

(* A verification answers at once.  (The entry a replay came to is history.)  *)
Report ==
  /\ Rebuilt
  /\ task' = "none"
  /\ position' = 0 /\ target' = 0 /\ diverged' = FALSE
  /\ Discarded
  /\ answer' = IF task = "replay" /\ target > 0
               THEN [total |-> target, replayed |-> journal[target], outlived |-> FALSE]
               ELSE answer
  /\ UNCHANGED liveVars

(* Mutant: the entry shown is the latest there is.                         *)
LatestOfAll(total) == journal[Len(journal)]

(* The answer looks for its entry in the journal of now, an empty one after a
   reset: there it is an error, or the entry of another session.           *)
LatestEntry(total) == journal[total]

Respond ==
  /\ answer # NoAnswer /\ task = "none" /\ Idle
  /\ answer' = NoAnswer
  /\ UNCHANGED <<liveVars, rebuildVars>>

-----------------------------------------------------------------------------
(* The journal's file.                                                     *)

File == INSTANCE JournalFile

(* canonical_state.  The checksum is a digest of it, which is taken to tell any
   two of them apart: here it is the state itself.                         *)
CanonicalState(number, all, levels) ==
  [sequence |-> number,
   queues |-> [s \in Side |-> [p \in Prices |->
                [k \in DOMAIN levels[s][p].fifo |->
                   LET id == levels[s][p].fifo[k]
                   IN [order_id |-> id, account |-> all[id].account,
                       quantity |-> all[id].quantity, remaining |-> all[id].remaining,
                       filled |-> all[id].filled, priority |-> all[id].priority]]]]]

Checksum == CanonicalState(sequence, orders, book)

RebuiltChecksum == CanonicalState(r_sequence, r_orders, r_book)

(* export_session sets the checksum and has the file written in one step.   *)
Export == File!Exported(journal, {Checksum})

(* audit: the file loads; a replay of its entries, which the replica has done,
   diverges at none of them; and where there is a footer there is a book, and
   it has the checksum.  The session of an audit is that of a replay, with the
   default limits.                                                         *)
PassesAudit(loaded) ==
  /\ loaded.valid
  /\ ~Diverged
  /\ \A checksum \in loaded.checksums :
       loaded.entries # << >> /\ checksum = RebuiltChecksum

-----------------------------------------------------------------------------
RecoveryInit ==
  /\ Init
  /\ journal = << >>
  /\ point = NoPoint
  /\ task = "none"
  /\ position = 0 /\ target = 0 /\ diverged = FALSE
  /\ answer = NoAnswer
  /\ r_orders = << >> /\ r_live_orders = {} /\ r_live_order_counts = << >>
  /\ r_book = << >> /\ r_index = << >> /\ r_sequence = 0 /\ r_trades = << >>
  /\ r_incoming = None /\ r_positions = << >> /\ r_limits = << >> /\ r_settled = 0

RecoveryNext ==
  \/ Live \/ Restart
  \/ TakePoint \/ Verify \/ \E count \in 0 .. Len(journal) : Replay(count)
  \/ ReplayEntry \/ ReplayOn \/ Report
  \/ Respond

RecoverySpec == RecoveryInit /\ [][RecoveryNext]_recoveryVars

-----------------------------------------------------------------------------
(* What must hold.                                                         *)

JournalTypeOK ==
  /\ \A k \in DOMAIN journal :
       /\ ReadBack(journal[k].command) \in Command
       /\ journal[k].limits \in RiskLimits
  /\ \A k \in 1 .. Len(journal) - 1 : journal[k].sequence < journal[k + 1].sequence
  /\ point.taken \in BOOLEAN /\ point.journal_position \in Nat
  /\ task \in {"none", "verification", "replay"}
  /\ position \in Nat /\ target \in 0 .. Len(journal) /\ diverged \in BOOLEAN
  /\ answer.total \in Nat /\ answer.outlived \in BOOLEAN

Faithful ==
  Replica!AtRest =>
    /\ SameEvents /\ ~Diverged
    /\ (Rebuilt /\ target = Len(journal)) =>
         RebuiltChecksum = Checksum /\ r_positions = positions

SameLimits == \A k \in DOMAIN journal : k > Start => journal[k].limits = r_limits

OwnersNamed ==
  \A k \in DOMAIN journal :
    LET c == journal[k].command IN k > Start /\ c.kind # "NEW" => c.who # EmptyName

(* Replaying the journal from nothing reproduces each entry's events, and in
   the end the book and the risk positions, resets, refusals and modifications
   included, and a file of the journal passes its audit - as long as the limits
   were the default ones: the journal does not record limits.  So does
   recovering from a point and replaying what came after it, unless the book
   was reset since, the limits of those commands were others, or a post-only
   order rested at the point: a snapshot does not say so.  And neither need do
   so when a command named the empty account, which the book refuses as not
   the owner's: read from the journal it names none, and is done
   (commands.py:68).                                                       *)
RebuildFaithful ==
  /\ task # "none" /\ SameLimits /\ OwnersNamed
  /\ task = "verification" => ~point.outlived /\ ~point.restricted
  => /\ Faithful
     /\ (task = "replay" /\ Rebuilt /\ target = Len(journal)) => PassesAudit(File!Load(Export))

(* The answer to a replay shows the entry the replay came to, whatever
   commands ran while its thread did - but not after a reset, which puts
   another journal in the place it reads (main.py:538).                    *)
AnswersWhatItReplayed ==
  (answer # NoAnswer /\ ~answer.outlived /\ task = "none" /\ Idle) =>
    LatestEntry(answer.total) = answer.replayed

(* A damaged file of the journal does not load, or holds the first of its
   entries.  And an audit of these, which the replica has replayed as far as
   they go, does not pass unless they are all there are - or the file ends
   before its footer, which load accepts (journal.py:104).                 *)
AuditCatchesDamage ==
  task = "replay" /\ Rebuilt =>
    \A file \in File!Damaged(Export) :
      LET loaded == File!Load(file)
      IN loaded.valid =>
           /\ IsPrefix(loaded.entries, journal)
           /\ /\ Len(loaded.entries) = target /\ PassesAudit(loaded)
              /\ \E i \in DOMAIN file : file[i].record = "footer"
              => loaded.entries = journal

(* Not so: without a reset and a change of limits recovery is faithful.    *)
RecoveryReproduces ==
  (task = "verification" /\ SameLimits /\ OwnersNamed /\ ~point.outlived) => Faithful
=============================================================================
