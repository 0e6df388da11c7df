----------------------------- MODULE MarketData -----------------------------
(***************************************************************************)
(* A symbol's market data from the book to one browser: the projector and  *)
(* the broker (market_data/projector.py), the websocket and the snapshot   *)
(* request (api/main.py), and the client (frontend/lib/useMarket.ts) with  *)
(* the faults its Failure Lab injects.                                     *)
(*                                                                         *)
(* The websocket keeps its order but not its pace; the answer to a snapshot *)
(* request travels on a connection of its own and may be overtaken, or     *)
(* fail.  The client polls the health of the backend, and its user may turn *)
(* to another symbol once: the book is another one then, and the one left  *)
(* behind stays as it was.  What the client shows of the trades is left    *)
(* out.                                                                    *)
(***************************************************************************)
EXTENDS Feed

CONSTANTS
  EventKinds,    \* the commands: the kinds of the events each emits
  Seeds,         \* how many orders seed() submits after a reset
  Faults,        \* the failure modes the user may arm
  MaxEdition,    \* bound: commands that update the book, seeds included
  MaxRefused,    \* bound: refusals in a row
  MaxResets,     \* bound: resets
  MaxWire,       \* bound: messages sent and not yet handled
  OtherNumbers   \* the numbers the book of another symbol may have come to

FailureMode == {"none", "drop", "delay", "out_of_order", "duplicate"}

(* A command that is accepted emits one book update, its last event
   (_finish_book_update); one that is refused emits the refusal alone.     *)
ASSUME EventKindsAssumption ==
  \A kinds \in EventKinds :
    /\ kinds \in Seq(EventKind) /\ kinds # << >>
    /\ Updates(kinds) = {Len(kinds)} \/ kinds = <<"other">>
ASSUME SeedsAssumption == Seeds \in Nat \ {0}
ASSUME FaultsAssumption == Faults \subseteq FailureMode \ {"none"}
ASSUME WireAssumption == MaxWire \in Nat \ {0}
ASSUME OtherAssumption == OtherNumbers \subseteq Nat \ {0}

VARIABLES
  depth,                \* the edition of the book
  sequence,             \* book.sequencer.value
  last_depth_sequence,  \* of the projector
  births,               \* history: the edition at each reset
  connected,            \* whether the websocket is open
  queue,                \* the subscriber's queue in the broker
  wire,                 \* what the websocket has sent and the client not handled
  status,               \* the status the client shows
  market,               \* the edition the client shows
  lastDepthSequence,    \* of the client
  resyncing,            \* resyncingRef
  failed,               \* history: it is RESYNCING, and the request for that has failed
  fetch,                \* the snapshot request: NoFetch, Asked, or its answer
  fault,                \* the failure mode armed and not yet injected
  timer,                \* the timeout of a delayed delta: of which symbol
  backend,              \* backendStatus; CHECKING also stands for WAKING
  left,                 \* the snapshot of the symbol left behind, or NoFetch
  seen,                 \* history: the last <<edition, sequence>> from the websocket
  latest,               \* history: the last that reached the client either way
  gap,                  \* history: the delta that raised the last gap
  late,                 \* history: the websocket brought a depth after the answer
  overtaken,            \* history: a depth went past the client
  strayed               \* history: it shows an answer about another symbol

server == <<depth, sequence, last_depth_sequence, births>>
channel == <<connected, queue, wire>>
client == <<status, market, lastDepthSequence, resyncing, failed>>
page == <<backend, left>>
history == <<seen, latest, gap, late, overtaken, strayed>>
vars == <<server, channel, client, fetch, fault, timer, page, history>>

NoFetch == [type |-> "none"]
Asked == [type |-> "asked"]

Answered == fetch \in Snapshot
-----------------------------------------------------------------------------
(* The server.                                                             *)

(* Mutant: the snapshot takes the number of the last event of any kind.    *)
SnapshotOfSequencer(number, last, edition) ==
  [type |-> "book_snapshot", sequence |-> number, depth |-> edition]

(* snapshot() is numbered by the last depth it projected.                  *)
SnapshotOf(number, last, edition) ==
  [type |-> "book_snapshot", sequence |-> last, depth |-> edition]

Current == SnapshotOf(sequence, last_depth_sequence, depth)

Subscribed(messages, snapshot) ==
  queue' = IF connected THEN Published(queue, messages, snapshot) ELSE queue

(* process_direct: book, projector and broker in one handler.              *)
Command(kinds) ==
  LET updates == Cardinality(Updates(kinds))
      p == Project(kinds, sequence, last_depth_sequence, depth + updates)
  IN /\ IF updates = 0 THEN sequence < last_depth_sequence + MaxRefused
        ELSE depth < MaxEdition
     /\ depth' = depth + updates
     /\ sequence' = p.sequence
     /\ last_depth_sequence' = p.last
     /\ Subscribed(p.messages, SnapshotOf(p.sequence, p.last, depth'))
     /\ UNCHANGED <<births, connected, wire, client, fetch, fault, timer, page, history>>

(* What the k-th seed leaves: two events, the acceptance and the update.    *)
AfterSeed(k, edition) == SnapshotOf(2 * k, 2 * k, edition + k)

SeedDelta(k, edition) ==
  [type |-> "book_delta", sequence |-> 2 * k, previous_sequence |-> 2 * (k - 1),
   depth |-> edition + k]

Seeded(q0, edition) ==
  FoldLeft(LAMBDA q, k : Offered(q, SeedDelta(k, edition), AfterSeed(k, edition)),
           q0, [k \in 1 .. Seeds |-> k])

(* reset and seed: a new book and a new projector, nothing told to the
   subscribers but the deltas of the seeds, each a command of its own.      *)
Reset ==
  /\ Cardinality(births) < MaxResets /\ depth + Seeds <= MaxEdition
  /\ births' = births \cup {depth}
  /\ depth' = depth + Seeds
  /\ sequence' = 2 * Seeds /\ last_depth_sequence' = 2 * Seeds
  /\ queue' = IF connected THEN Seeded(queue, depth) ELSE queue
  /\ UNCHANGED <<connected, wire, client, fetch, fault, timer, page, history>>

(* The loop of websocket_market.                                           *)
Send ==
  /\ connected /\ queue # << >> /\ Len(wire) < MaxWire
  /\ wire' = Append(wire, Head(queue))
  /\ queue' = Tail(queue)
  /\ UNCHANGED <<server, connected, client, fetch, fault, timer, page, history>>

(* GET /api/book/{symbol}.                                                 *)
Answer ==
  /\ fetch = Asked
  /\ fetch' = Current
  /\ late' = FALSE
  /\ UNCHANGED <<server, channel, client, fault, timer, page, seen, latest, gap, overtaken, strayed>>
-----------------------------------------------------------------------------
(* The client.                                                             *)

ApplySnapshot(snapshot) ==
  /\ market' = snapshot.depth
  /\ lastDepthSequence' = snapshot.sequence
  /\ status' = "LIVE" /\ failed' = FALSE

(* resync(): one request at a time.                                        *)
ResyncFrom(request) ==
  IF resyncing THEN UNCHANGED <<client, fetch>>
  ELSE /\ resyncing' = TRUE
       /\ status' = "RESYNCING" /\ failed' = FALSE
       /\ fetch' = request
       /\ UNCHANGED <<market, lastDepthSequence>>

Resync == ResyncFrom(Asked)

Take ==
  /\ connected /\ wire # << >>
  /\ wire' = Tail(wire)
  /\ UNCHANGED <<server, connected, queue, page>>

ReceiveTrade ==
  /\ Take
  /\ Head(wire).type = "trade"
  /\ UNCHANGED <<client, fetch, fault, timer, history>>

ReceiveSnapshot ==
  LET m == Head(wire)
  IN /\ Take
     /\ m.type = "book_snapshot"
     /\ ApplySnapshot(m)
     /\ seen' = <<m.depth, m.sequence>>
     /\ latest' = seen'
     /\ late' = TRUE
     /\ overtaken' = FALSE /\ strayed' = FALSE
     /\ UNCHANGED <<resyncing, fetch, fault, timer, gap>>

TakeDelta ==
  /\ Take
  /\ Head(wire).type = "book_delta"
  /\ seen' = <<Head(wire).depth, Head(wire).sequence>>
  /\ latest' = seen'
  /\ late' = TRUE

(* The Failure Lab keeps one delta from the client.                        *)
InjectFault ==
  /\ TakeDelta
  /\ fault \in {"drop", "delay", "out_of_order"}
  /\ fault' = "none"
  /\ overtaken' = TRUE
  /\ \/ fault = "drop" /\ UNCHANGED <<client, fetch, timer>>
     \/ fault = "delay" /\ timer' = "own" /\ UNCHANGED <<client, fetch>>
     \/ fault = "out_of_order" /\ Resync /\ UNCHANGED timer
  /\ UNCHANGED <<gap, strayed>>

(* The timeout keeps the symbol it was set for.                            *)
DelayedResync ==
  /\ timer # "none"
  /\ timer' = "none"
  /\ ResyncFrom(IF timer = "own" THEN Asked ELSE left)
  /\ UNCHANGED <<server, channel, fault, page, history>>

(* Mutant: a delta that is newer than what the client has follows it.      *)
Newer(m) == m.sequence > lastDepthSequence

Follows(m) == m.previous_sequence = lastDepthSequence

ReceiveDelta ==
  LET m == Head(wire)
  IN /\ TakeDelta
     /\ fault \in {"none", "duplicate"}
     /\ fault' = "none"
     /\ UNCHANGED timer
     /\ \/ /\ Follows(m)
           /\ market' = m.depth
           /\ lastDepthSequence' = m.sequence
           /\ status' = "LIVE" /\ failed' = FALSE
           /\ strayed' = FALSE
           /\ UNCHANGED <<resyncing, fetch, gap, overtaken>>
        \/ /\ ~Follows(m)
           /\ Resync
           /\ gap' = IF resyncing THEN gap ELSE <<m.depth, m.sequence>>
           /\ overtaken' = TRUE
           /\ UNCHANGED strayed

(* The snapshot is of the symbol left behind.                              *)
Stray(snapshot) == left # NoFetch /\ snapshot.depth <= left.depth

(* The answer of the request arrives, whatever symbol it was asked for.    *)
Recover ==
  /\ Answered
  /\ ApplySnapshot(fetch)
  /\ resyncing' = FALSE
  /\ fetch' = NoFetch
  /\ strayed' = Stray(fetch) /\ overtaken' = (late \/ strayed')
  /\ latest' = <<fetch.depth, fetch.sequence>>
  /\ UNCHANGED <<server, channel, fault, timer, page, seen, gap, late>>

(* Mutant: the flag is cleared after a success only.                       *)
StillResyncing == resyncing

ResyncingAfterFailure == FALSE

(* The request fails; the status stays as it is.                           *)
FailToRecover ==
  /\ fetch # NoFetch
  /\ fetch' = NoFetch
  /\ resyncing' = ResyncingAfterFailure
  /\ failed' = (status = "RESYNCING")
  /\ UNCHANGED <<server, channel, status, market, lastDepthSequence, fault, timer, page, history>>

(* Mutant: the socket of the symbol left behind goes on.                   *)
Kept == UNCHANGED channel

Torn == connected' = FALSE /\ queue' = << >> /\ wire' = << >>

Disconnect ==
  /\ connected
  /\ Torn
  /\ status' = "OFFLINE" /\ failed' = FALSE
  /\ UNCHANGED <<server, market, lastDepthSequence, resyncing, fetch, fault, timer, page, history>>

(* Mutant: a subscriber hears of the book when it changes.                 *)
NoGreeting == << >>

(* websocket_market subscribes and takes the snapshot without a suspension
   in between.                                                             *)
Greeting == <<Current>>

Connect ==
  /\ ~connected /\ backend = "CONNECTED"
  /\ connected' = TRUE
  /\ wire' = Greeting
  /\ UNCHANGED <<server, queue, client, fetch, fault, timer, page, history>>

(* The user arms a fault, or a new socket arms the one chosen again.        *)
Arm(mode) ==
  /\ fault # mode
  /\ fault' = mode
  /\ UNCHANGED <<server, channel, client, fetch, timer, page, history>>

(* The effect that holds the socket ends: onclose finds it disposed.        *)
Dispose ==
  /\ Torn
  /\ status' = "CONNECTING" /\ failed' = FALSE
  /\ UNCHANGED <<market, lastDepthSequence, resyncing, fault>>

(* pollHealth fails.  Whether the 90 s since the first poll are over is a
   choice here: if so it was the last one.                                 *)
HealthFails(result) ==
  /\ backend # "TIMEOUT" /\ backend # result
  /\ backend' = result
  /\ Dispose
  /\ UNCHANGED <<server, fetch, timer, left, history>>

HealthAnswers ==
  /\ backend = "CHECKING"
  /\ backend' = "CONNECTED"
  /\ Dispose
  /\ UNCHANGED <<server, fetch, timer, left, history>>

RetryBackend ==
  /\ backend = "TIMEOUT"
  /\ backend' = "CHECKING"
  /\ Dispose
  /\ UNCHANGED <<server, fetch, timer, left, history>>

(* The user turns to another symbol.  The request and the timeout of the old
   one are not cancelled, nor does the client forget what it shows.        *)
Switch(number) ==
  /\ left = NoFetch /\ depth < MaxEdition
  /\ left' = Current
  /\ depth' = depth + 1 /\ births' = births \cup {depth}
  /\ sequence' = number /\ last_depth_sequence' = number
  /\ fetch' = IF fetch = Asked THEN Current ELSE fetch
  /\ timer' = IF timer = "own" THEN "other" ELSE timer
  /\ Dispose
  /\ UNCHANGED <<backend, history>>
-----------------------------------------------------------------------------
Init ==
  /\ depth = 1 /\ sequence = 2 * Seeds /\ last_depth_sequence = 2 * Seeds /\ births = {}
  /\ connected = FALSE /\ queue = << >> /\ wire = << >>
  /\ status = "CONNECTING" /\ market = 0 /\ lastDepthSequence = 0
  /\ resyncing = FALSE /\ failed = FALSE /\ fetch = NoFetch /\ fault = "none" /\ timer = "none"
  /\ backend = "CHECKING" /\ left = NoFetch /\ strayed = FALSE
  /\ seen = <<0, 0>> /\ latest = <<0, 0>> /\ gap = <<0, 0>> /\ late = FALSE /\ overtaken = FALSE

Next ==
  \/ \E kinds \in EventKinds : Command(kinds)
  \/ Reset
  \/ Send
  \/ Answer
  \/ ReceiveTrade
  \/ ReceiveSnapshot
  \/ InjectFault
  \/ DelayedResync
  \/ ReceiveDelta
  \/ Recover
  \/ FailToRecover
  \/ Disconnect
  \/ Connect
  \/ \E mode \in Faults : Arm(mode)
  \/ \E result \in {"CHECKING", "TIMEOUT"} : HealthFails(result)
  \/ HealthAnswers
  \/ RetryBackend
  \/ \E number \in OtherNumbers : Switch(number)

Spec == Init /\ [][Next]_vars

(* A request is answered and its answer arrives, or it fails; the browser
   handles the snapshot a connection begins with.                           *)
FairSpec ==
  /\ Spec
  /\ WF_vars(Answer) /\ WF_vars(Recover \/ FailToRecover)
  /\ WF_vars(ReceiveSnapshot)
-----------------------------------------------------------------------------
(* What must hold.                                                         *)

TypeOK ==
  /\ {depth, sequence, last_depth_sequence, market, lastDepthSequence} \subseteq Nat
  /\ births \subseteq Nat
  /\ connected \in BOOLEAN /\ resyncing \in BOOLEAN /\ failed \in BOOLEAN
  /\ late \in BOOLEAN /\ overtaken \in BOOLEAN /\ strayed \in BOOLEAN
  /\ timer \in {"none", "own", "other"}
  /\ backend \in {"CHECKING", "CONNECTED", "TIMEOUT"}
  /\ connected => backend = "CONNECTED"
  /\ left \in {NoFetch} \cup Snapshot
  /\ queue \in Seq(Message) /\ Len(queue) <= Capacity
  /\ wire \in Seq(Message)
  /\ status \in {"CONNECTING", "LIVE", "RESYNCING", "OFFLINE"}
  /\ fetch \in {NoFetch, Asked} \cup Snapshot
  /\ fault \in FailureMode
  /\ seen \in Nat \X Nat /\ latest \in Nat \X Nat /\ gap \in Nat \X Nat

Quiet == connected /\ queue = << >> /\ wire = << >> /\ fetch = NoFetch /\ timer = "none"

(* Whatever the broker clears from a full queue, the newest depth of the
   book reaches the subscriber: when nothing is left on the way, the last
   depth it got is the book's.                                             *)
NewestArrives ==
  (connected /\ queue = << >> /\ wire = << >>) => seen = <<depth, last_depth_sequence>>

(* A client that is live and has nothing on its way shows the book, and is
   ready for the next delta, unless a depth went past it that its snapshot
   did not yet have.  Whatever it missed, what it shows is of the symbol the
   user turned to, unless the answer to a request of before came last:
   nothing cancels that one (useMarket.ts:87).                             *)
CurrentUnlessOvertaken ==
  Quiet /\ status = "LIVE" =>
    /\ ~overtaken => market = depth /\ lastDepthSequence = last_depth_sequence
    /\ left # NoFetch /\ ~strayed => market > left.depth

SameBook(edition, other) == \A birth \in births : edition <= birth <=> other <= birth

(* The client changes its depth by a delta only if it shows the last depth
   that reached it: no delta was dropped or discarded in between.  (The
   numbers of a book start again at a reset; across one they prove nothing.) *)
NoBlindDelta ==
  [][(ReceiveDelta /\ market' # market /\ SameBook(market, market'))
       => <<market, lastDepthSequence>> = latest]_vars

Older(stamp, other) ==
  stamp[1] < other[1] \/ (stamp[1] = other[1] /\ stamp[2] < other[2])

Unrepaired ==
  /\ Older(<<market, lastDepthSequence>>, gap)
  /\ status = "LIVE" \/ resyncing
  /\ ~strayed

(* A gap ends with a depth no older than the delta that showed it, or with a
   client that does not claim to be live and can ask again.                *)
GapsAreRepaired == Unrepaired ~> ~Unrepaired

(* A connection that holds ends in a client that shows a book or has a request
   for one on its way, after losses, timeouts and a change of symbol too, and
   though the book may never change again - unless a request failed: its status
   stays, and it is the next delta that makes the client ask again
   (useMarket.ts:88).                                                      *)
ConnectionsShow == <>[]connected => <>[](status = "LIVE" \/ resyncing \/ failed)

(* Not so: a live client with nothing on its way shows the book.  A newer
   delta that does not follow, and arrives while an older snapshot is under
   way, is discarded (useMarket.ts:207); the snapshot makes the client live
   and nothing asks for that delta again.                                  *)
LiveIsCurrent == (Quiet /\ status = "LIVE") => market = depth
=============================================================================
