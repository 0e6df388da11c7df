-------------------------- MODULE MarketDataProofs --------------------------
(***************************************************************************)
(* The invariants of MarketData, for every capacity of the queue, every    *)
(* stream of commands and all faults: the newest depth reaches the         *)
(* subscriber, the client never applies a delta over a missing one, and it *)
(* shows the book unless a depth went past it.                             *)
(***************************************************************************)
EXTENDS MarketData, DataLemmas

-----------------------------------------------------------------------------
(* The three folds of a handler, message by message.                       *)
Queue == {q \in Seq(Message) : Len(q) <= Capacity}

(* A message offered to a queue leaves a queue.                            *)
LEMMA OfferedType ==
  ASSUME NEW q \in Queue, NEW m \in Message, NEW snapshot \in Snapshot
  PROVE  Offered(q, m, snapshot) \in Queue
<1>1. snapshot \in Message
  BY DEF Message
<1> HIDE DEF Message, Snapshot
<1>2. q \in Seq(Message) /\ Len(q) \in Nat /\ Len(q) <= Capacity
  BY DEF Queue
<1>3. CASE Len(q) >= Capacity
  <2>1. <<snapshot>> \in Seq(Message) /\ Len(<<snapshot>>) = 1
    BY <1>1
  <2> QED
    BY <1>3, <2>1, CapacityAssumption DEF Queue, Offered
<1>4. CASE ~(Len(q) >= Capacity)
  <2>1. Append(q, m) \in Seq(Message) /\ Len(Append(q, m)) = Len(q) + 1
    BY <1>2
  <2> QED
    BY <1>2, <1>4, <2>1, CapacityAssumption DEF Queue, Offered
<1> QED
  BY <1>3, <1>4

PublishStep(g, q0, messages, snapshot, s) ==
  IF s = {} THEN q0 ELSE Offered(g[s \ {Max(s)}], messages[Max(s)], snapshot)

PublishFold(q0, messages, snapshot) ==
  CHOOSE g : g = [s \in SUBSET DOMAIN messages |-> PublishStep(g, q0, messages, snapshot, s)]

(* What is published is offered in its order.                              *)
LEMMA PublishedByMessage ==
  ASSUME NEW q0 \in Queue, NEW messages \in Seq(Message), NEW snapshot \in Snapshot
  PROVE  \E h \in [0 .. Len(messages) -> Queue] :
           /\ h[0] = q0 /\ h[Len(messages)] = Published(q0, messages, snapshot)
           /\ \A k \in 1 .. Len(messages) : h[k] = Offered(h[k - 1], messages[k], snapshot)
<1> DEFINE n == Len(messages)
           S == 1 .. n
           F == [p \in Queue \X S |-> Offered(p[1], messages[p[2]], snapshot)]
           iter == PublishFold(q0, messages, snapshot)
<1>1. n \in Nat /\ DOMAIN messages = S /\ \A k \in S : messages[k] \in Message
  <2> HIDE DEF Message
  <2> QED
    OBVIOUS
<1>2. Published(q0, messages, snapshot) = iter[DOMAIN messages]
  BY DEF Published, FoldLeft, MapThenFoldSet, PublishFold, PublishStep
<1> HIDE DEF n
<1>3. /\ F \in [Queue \X S -> Queue]
      /\ \A q \in Queue, k \in S : F[<<q, k>>] = Offered(q, messages[k], snapshot)
  <2>1. \A q \in Queue, k \in S : Offered(q, messages[k], snapshot) \in Queue
    BY <1>1, OfferedType
  <2> QED
    BY <2>1
<1>4. \A s \in SUBSET S : s # {} => Max(s) \in S
  BY <1>1, MaxIn
<1> HIDE DEF F
<1>5. iter = [s \in SUBSET S |-> PublishStep(iter, q0, messages, snapshot, s)]
  <2>1. PICK g : IsLeftFold(g, F, q0, Queue, n)
    BY <1>1, <1>3, LeftFoldExists
  <2>2. g \in [SUBSET S -> Queue]
    BY <2>1 DEF IsLeftFold
  <2>3. \A s \in SUBSET S : g[s] = IF s = {} THEN q0 ELSE F[<<g[s \ {Max(s)}], Max(s)>>]
    BY <2>1 DEF IsLeftFold
  <2> HIDE DEF S
  <2>4. \A s \in SUBSET S : g[s] = PublishStep(g, q0, messages, snapshot, s)
    BY <1>3, <1>4, <2>2, <2>3 DEF PublishStep
  <2>5. g = [s \in SUBSET S |-> PublishStep(g, q0, messages, snapshot, s)]
    BY <2>2, <2>4
  <2> QED
    BY <1>1, <2>5 DEF PublishFold
<1> HIDE DEF iter
<1>6. IsLeftRecursion(iter, F, q0, Queue, n)
  <2>1. /\ iter[{}] = q0
        /\ \A s \in SUBSET S : s # {} /\ iter[s \ {Max(s)}] \in Queue
             => iter[s] = F[<<iter[s \ {Max(s)}], Max(s)>>]
    <3> HIDE DEF S
    <3> QED
      BY <1>3, <1>4, <1>5 DEF PublishStep
  <2> QED
    BY <2>1 DEF IsLeftRecursion
<1>7. PICK h : IsByElement(h, iter, F, q0, Queue, n)
  BY <1>1, <1>3, <1>6, FoldByElement
<1>8. \A k \in 1 .. n : h[k] = Offered(h[k - 1], messages[k], snapshot)
  <2> TAKE k \in 1 .. n
  <2>1. k - 1 \in 0 .. n
    BY <1>1
  <2>2. h[k - 1] \in Queue
    BY <1>7, <2>1 DEF IsByElement
  <2> QED
    BY <1>3, <1>7, <2>2 DEF IsByElement
<1> QED
  BY <1>1, <1>2, <1>7, <1>8 DEF n, IsByElement

(* A command that has nothing to publish leaves the queue as it is.        *)
LEMMA PublishedNothing ==
  ASSUME NEW q \in Queue, NEW snapshot \in Snapshot
  PROVE  Published(q, << >>, snapshot) = q
<1>1. ASSUME NEW none \in Seq(Message), Len(none) = 0
      PROVE  Published(q, none, snapshot) = q
  <2>1. PICK h \in [0 .. Len(none) -> Queue] :
           /\ h[0] = q /\ h[Len(none)] = Published(q, none, snapshot)
           /\ \A k \in 1 .. Len(none) : h[k] = Offered(h[k - 1], none[k], snapshot)
    BY PublishedByMessage
  <2> QED
    BY <1>1, <2>1
<1>2. << >> \in Seq(Message) /\ Len(<< >>) = 0
  OBVIOUS
<1> QED
  BY <1>1, <1>2

Numbers == [k \in 1 .. Seeds |-> k]

SeedStep(g, q0, edition, s) ==
  IF s = {} THEN q0
  ELSE Offered(g[s \ {Max(s)}], SeedDelta(Numbers[Max(s)], edition),
               AfterSeed(Numbers[Max(s)], edition))

SeedFold(q0, edition) ==
  CHOOSE g : g = [s \in SUBSET DOMAIN Numbers |-> SeedStep(g, q0, edition, s)]

(* The deltas of the seeds are messages, each with a snapshot as current.  *)
LEMMA SeedMessages ==
  ASSUME NEW edition \in Nat, NEW k \in 1 .. Seeds
  PROVE  SeedDelta(k, edition) \in Message /\ AfterSeed(k, edition) \in Snapshot
<1>1. k \in Nat /\ 2 * k \in Nat /\ 2 * (k - 1) \in Nat /\ edition + k \in Nat
  BY SeedsAssumption
<1>2. SeedDelta(k, edition) \in Delta
  BY <1>1 DEF SeedDelta, Delta
<1> QED
  BY <1>1, <1>2 DEF AfterSeed, SnapshotOf, Snapshot, Message

(* The deltas of the seeds are offered one after the other.                *)
LEMMA SeededBySeed ==
  ASSUME NEW q0 \in Queue, NEW edition \in Nat
  PROVE  \E h \in [0 .. Seeds -> Queue] :
           /\ h[0] = q0 /\ h[Seeds] = Seeded(q0, edition)
           /\ \A k \in 1 .. Seeds :
                h[k] = Offered(h[k - 1], SeedDelta(k, edition), AfterSeed(k, edition))
<1> DEFINE n == Seeds
           S == 1 .. n
           F == [p \in Queue \X S |-> Offered(p[1], SeedDelta(p[2], edition), AfterSeed(p[2], edition))]
           iter == SeedFold(q0, edition)
<1>1. n \in Nat /\ DOMAIN Numbers = S /\ \A k \in S : Numbers[k] = k
  BY SeedsAssumption DEF Numbers
<1>2. Seeded(q0, edition) = iter[DOMAIN Numbers]
  BY DEF Seeded, Numbers, FoldLeft, MapThenFoldSet, SeedFold, SeedStep
<1> HIDE DEF n
<1>3. /\ F \in [Queue \X S -> Queue]
      /\ \A q \in Queue, k \in S : F[<<q, k>>] = Offered(q, SeedDelta(k, edition), AfterSeed(k, edition))
  <2>1. \A q \in Queue, k \in S : Offered(q, SeedDelta(k, edition), AfterSeed(k, edition)) \in Queue
    BY <1>1, OfferedType, SeedMessages DEF n
  <2> QED
    BY <2>1
<1>4. \A s \in SUBSET S : s # {} => Max(s) \in S
  BY <1>1, MaxIn
<1> HIDE DEF F
<1>5. iter = [s \in SUBSET S |-> SeedStep(iter, q0, edition, s)]
  <2>1. PICK g : IsLeftFold(g, F, q0, Queue, n)
    BY <1>1, <1>3, LeftFoldExists
  <2>2. g \in [SUBSET S -> Queue]
    BY <2>1 DEF IsLeftFold
  <2>3. \A s \in SUBSET S : g[s] = IF s = {} THEN q0 ELSE F[<<g[s \ {Max(s)}], Max(s)>>]
    BY <2>1 DEF IsLeftFold
  <2> HIDE DEF S
  <2>4. \A s \in SUBSET S : g[s] = SeedStep(g, q0, edition, s)
    <3> TAKE s \in SUBSET S
    <3>1. CASE s = {}
      BY <2>3, <3>1 DEF SeedStep
    <3>2. CASE s # {}
      <4>1. Max(s) \in S /\ Numbers[Max(s)] = Max(s) /\ s \ {Max(s)} \in SUBSET S
        BY <1>1, <1>4, <3>2
      <4>2. g[s \ {Max(s)}] \in Queue
        BY <2>2, <4>1
      <4> QED
        BY <1>3, <2>3, <3>2, <4>1, <4>2 DEF SeedStep
    <3> QED
      BY <3>1, <3>2
  <2>5. g = [s \in SUBSET S |-> SeedStep(g, q0, edition, s)]
    BY <2>2, <2>4
  <2> QED
    BY <1>1, <2>5 DEF SeedFold
<1> HIDE DEF iter
<1>6. IsLeftRecursion(iter, F, q0, Queue, n)
  <2>1. /\ iter[{}] = q0
        /\ \A s \in SUBSET S : s # {} /\ iter[s \ {Max(s)}] \in Queue
             => iter[s] = F[<<iter[s \ {Max(s)}], Max(s)>>]
    <3> HIDE DEF S
    <3>1. iter[{}] = q0
      BY <1>5 DEF SeedStep
    <3>2. ASSUME NEW s \in SUBSET S, s # {}, iter[s \ {Max(s)}] \in Queue
          PROVE  iter[s] = F[<<iter[s \ {Max(s)}], Max(s)>>]
      <4>1. Max(s) \in S /\ Numbers[Max(s)] = Max(s)
        BY <1>1, <1>4, <3>2
      <4>2. iter[s] = SeedStep(iter, q0, edition, s)
        BY <1>5
      <4> QED
        BY <1>3, <3>2, <4>1, <4>2 DEF SeedStep
    <3> QED
      BY <3>1, <3>2
  <2> QED
    BY <2>1 DEF IsLeftRecursion
<1>7. PICK h : IsByElement(h, iter, F, q0, Queue, n)
  BY <1>1, <1>3, <1>6, FoldByElement
<1>8. \A k \in 1 .. n : h[k] = Offered(h[k - 1], SeedDelta(k, edition), AfterSeed(k, edition))
  <2> TAKE k \in 1 .. n
  <2>1. k - 1 \in 0 .. n
    BY <1>1
  <2>2. h[k - 1] \in Queue
    BY <1>7, <2>1 DEF IsByElement
  <2> QED
    BY <1>3, <1>7, <2>2 DEF IsByElement
<1> QED
  BY <1>1, <1>2, <1>7, <1>8 DEF n, IsByElement

Projection == [sequence : Nat, last : Nat, depth : Nat, messages : Seq(Message)]

(* What an event adds, field by field.                                     *)
LEMMA ProjectEventFacts ==
  ASSUME NEW p \in Projection, NEW kind \in EventKind
  PROVE  /\ ProjectEvent(p, kind) \in Projection
         /\ ProjectEvent(p, kind).sequence = p.sequence + 1
         /\ ProjectEvent(p, kind).depth = p.depth
         /\ ProjectEvent(p, kind).last = IF kind = "book_delta" THEN p.sequence + 1 ELSE p.last
         /\ kind = "trade" => \E m \in Trade : ProjectEvent(p, kind).messages = Append(p.messages, m)
         /\ kind = "book_delta" =>
              ProjectEvent(p, kind).messages
                = Append(p.messages, [type |-> "book_delta", sequence |-> p.sequence + 1,
                                      previous_sequence |-> p.last, depth |-> p.depth])
         /\ kind = "other" => ProjectEvent(p, kind).messages = p.messages
<1> DEFINE number == p.sequence + 1
           t == [type |-> "trade", sequence |-> number]
           d == [type |-> "book_delta", sequence |-> number,
                 previous_sequence |-> p.last, depth |-> p.depth]
<1>1. /\ p.sequence \in Nat /\ p.last \in Nat /\ p.depth \in Nat /\ p.messages \in Seq(Message)
      /\ number \in Nat
  <2> HIDE DEF Message
  <2> QED
    BY DEF Projection
<1>2. t \in Trade /\ d \in Delta
  BY <1>1 DEF Trade, Delta
<1>3. t \in Message /\ d \in Message
  BY <1>2 DEF Message
<1> DEFINE after(last, messages) ==
             [sequence |-> number, last |-> last, depth |-> p.depth, messages |-> messages]
<1>5. ProjectEvent(p, kind) =
        IF kind = "trade" THEN after(p.last, Append(p.messages, t))
        ELSE IF kind = "book_delta" THEN after(number, Append(p.messages, d))
        ELSE after(p.last, p.messages)
  <2> HIDE DEF Message
  <2>1. CASE kind = "trade"
    BY <2>1 DEF ProjectEvent
  <2>2. CASE kind = "book_delta"
    BY <2>2 DEF ProjectEvent
  <2>3. CASE kind = "other"
    BY <2>3 DEF ProjectEvent
  <2> QED
    BY <2>1, <2>2, <2>3 DEF EventKind
<1> HIDE DEF t, d
<1>6. Append(p.messages, t) \in Seq(Message) /\ Append(p.messages, d) \in Seq(Message)
  <2> HIDE DEF Message
  <2> QED
    BY <1>1, <1>3
<1>7. \A last \in Nat, messages \in Seq(Message) : after(last, messages) \in Projection
  BY <1>1 DEF Projection
<1>8. ProjectEvent(p, kind) \in Projection
  BY <1>1, <1>5, <1>6, <1>7
<1>9. /\ ProjectEvent(p, kind).sequence = number
      /\ ProjectEvent(p, kind).depth = p.depth
      /\ ProjectEvent(p, kind).last = IF kind = "book_delta" THEN number ELSE p.last
      /\ kind = "trade" => ProjectEvent(p, kind).messages = Append(p.messages, t)
      /\ kind = "book_delta" => ProjectEvent(p, kind).messages = Append(p.messages, d)
      /\ kind = "other" => ProjectEvent(p, kind).messages = p.messages
  BY <1>5 DEF EventKind
<1> QED
  BY <1>2, <1>8, <1>9 DEF d

ProjectStep(g, base, kinds, s) ==
  IF s = {} THEN base ELSE ProjectEvent(g[s \ {Max(s)}], kinds[Max(s)])

ProjectFold(base, kinds) ==
  CHOOSE g : g = [s \in SUBSET DOMAIN kinds |-> ProjectStep(g, base, kinds, s)]

(* The events of a command are projected one after the other.              *)
LEMMA ProjectedByEvent ==
  ASSUME NEW kinds \in Seq(EventKind), NEW number \in Nat, NEW last \in Nat, NEW edition \in Nat
  PROVE  \E h \in [0 .. Len(kinds) -> Projection] :
           /\ h[0] = [sequence |-> number, last |-> last, depth |-> edition, messages |-> << >>]
           /\ h[Len(kinds)] = Project(kinds, number, last, edition)
           /\ \A k \in 1 .. Len(kinds) : h[k] = ProjectEvent(h[k - 1], kinds[k])
<1> DEFINE base == [sequence |-> number, last |-> last, depth |-> edition, messages |-> << >>]
           n == Len(kinds)
           S == 1 .. n
           F == [p \in Projection \X S |-> ProjectEvent(p[1], kinds[p[2]])]
           iter == ProjectFold(base, kinds)
<1>1. n \in Nat /\ DOMAIN kinds = S /\ \A k \in S : kinds[k] \in EventKind
  <2> HIDE DEF EventKind
  <2> QED
    OBVIOUS
<1>0. base \in Projection
  BY DEF Projection
<1>2. Project(kinds, number, last, edition) = iter[DOMAIN kinds]
  BY DEF Project, FoldLeft, MapThenFoldSet, ProjectFold, ProjectStep
<1> HIDE DEF base
<1> HIDE DEF n
<1>3. /\ F \in [Projection \X S -> Projection]
      /\ \A q \in Projection, k \in S : F[<<q, k>>] = ProjectEvent(q, kinds[k])
  <2>1. \A q \in Projection, k \in S : ProjectEvent(q, kinds[k]) \in Projection
    BY <1>1, ProjectEventFacts
  <2> QED
    BY <2>1
<1>4. \A s \in SUBSET S : s # {} => Max(s) \in S
  BY <1>1, MaxIn
<1> HIDE DEF F
<1>5. iter = [s \in SUBSET S |-> ProjectStep(iter, base, kinds, s)]
  <2>1. PICK g : IsLeftFold(g, F, base, Projection, n)
    BY <1>1, <1>3, <1>0, LeftFoldExists
  <2>2. g \in [SUBSET S -> Projection]
    BY <2>1 DEF IsLeftFold
  <2>3. \A s \in SUBSET S : g[s] = IF s = {} THEN base ELSE F[<<g[s \ {Max(s)}], Max(s)>>]
    BY <2>1 DEF IsLeftFold
  <2> HIDE DEF S
  <2>4. \A s \in SUBSET S : g[s] = ProjectStep(g, base, kinds, s)
    BY <1>3, <1>4, <2>2, <2>3 DEF ProjectStep
  <2>5. g = [s \in SUBSET S |-> ProjectStep(g, base, kinds, s)]
    BY <2>2, <2>4
  <2> QED
    BY <1>1, <2>5 DEF ProjectFold
<1> HIDE DEF iter
<1>6. IsLeftRecursion(iter, F, base, Projection, n)
  <2>1. /\ iter[{}] = base
        /\ \A s \in SUBSET S : s # {} /\ iter[s \ {Max(s)}] \in Projection
             => iter[s] = F[<<iter[s \ {Max(s)}], Max(s)>>]
    <3> HIDE DEF S
    <3> QED
      BY <1>3, <1>4, <1>5 DEF ProjectStep
  <2> QED
    BY <2>1 DEF IsLeftRecursion
<1>7. PICK h : IsByElement(h, iter, F, base, Projection, n)
  BY <1>1, <1>3, <1>6, <1>0, FoldByElement
<1>8. \A k \in 1 .. n : h[k] = ProjectEvent(h[k - 1], kinds[k])
  <2> TAKE k \in 1 .. n
  <2>1. k - 1 \in 0 .. n
    BY <1>1
  <2>2. h[k - 1] \in Projection
    BY <1>7, <2>1 DEF IsByElement
  <2> QED
    BY <1>3, <1>7, <2>2 DEF IsByElement
<1> QED
  BY <1>1, <1>2, <1>7, <1>8 DEF n, base, IsByElement

-----------------------------------------------------------------------------
(* The stream: what the websocket has sent and what waits for it, in order.
   A client that has the edition f from it misses nothing as long as editions
   never fall, grow after a delta, and each delta finds the edition before its
   own in front of it.                                                     *)
Shown(m) == m.type # "trade"

IsDelta(m) == m.type = "book_delta"

Ordered(t) ==
  \A i, j \in DOMAIN t : j < i /\ Shown(t[i]) /\ Shown(t[j]) =>
    /\ t[j].depth <= t[i].depth
    /\ IsDelta(t[j]) => t[j].depth < t[i].depth

Reached(f, t, i, e) ==
  f >= e \/ \E j \in DOMAIN t : j < i /\ Shown(t[j]) /\ t[j].depth >= e

Unbroken(f, t) ==
  \A i \in DOMAIN t : IsDelta(t[i]) => Reached(f, t, i, t[i].depth - 1)

Between(f, t, e) ==
  \A i \in DOMAIN t : Shown(t[i]) => f <= t[i].depth /\ t[i].depth <= e

Chain(f, t, e, G) ==
  /\ t \in Seq(G) /\ f \in Nat /\ e \in Nat
  /\ Ordered(t) /\ Unbroken(f, t) /\ Between(f, t, e)

(* Within a command: the deltas are still those of before.                 *)
Ready(f, t, e, G) ==
  /\ Chain(f, t, e, G) /\ f < e
  /\ Reached(f, t, Len(t) + 1, e - 1)
  /\ \A i \in DOMAIN t : IsDelta(t[i]) => t[i].depth < e

(* After it: the edition of the book has been reached.                     *)
Settled(f, t, e, G) ==
  /\ Chain(f, t, e, G) /\ f <= e
  /\ Reached(f, t, Len(t) + 1, e)

(* What the fields of a message are.                                       *)
LEMMA MessageFacts ==
  ASSUME NEW m \in Message
  PROVE  /\ Shown(m) => m.depth \in Nat /\ m.sequence \in Nat
         /\ IsDelta(m) => Shown(m) /\ m.previous_sequence \in Nat
BY DEF Message, Trade, Delta, Snapshot, Shown, IsDelta

(* The elements of a stream and of what is appended to it.                 *)
LEMMA AppendFacts ==
  ASSUME NEW G, NEW t \in Seq(G), NEW m \in G
  PROVE  /\ Append(t, m) \in Seq(G)
         /\ Len(t) \in Nat
         /\ DOMAIN t = 1 .. Len(t)
         /\ DOMAIN Append(t, m) = 1 .. Len(t) + 1
         /\ Len(Append(t, m)) = Len(t) + 1
         /\ \A i \in 1 .. Len(t) : Append(t, m)[i] = t[i] /\ t[i] \in G
         /\ Append(t, m)[Len(t) + 1] = m
OBVIOUS

(* A trade says nothing of the depth.                                      *)
LEMMA TradeAppended ==
  ASSUME NEW f, NEW t, NEW e, NEW G \in SUBSET Message, Ready(f, t, e, G),
         NEW m \in G, ~Shown(m)
  PROVE  Ready(f, Append(t, m), e, G)
<1> DEFINE u == Append(t, m)
           n == Len(t)
<1>1. t \in Seq(G) /\ f \in Nat /\ e \in Nat
  BY DEF Ready, Chain
<1>2. /\ u \in Seq(G) /\ n \in Nat
      /\ DOMAIN t = 1 .. n /\ DOMAIN u = 1 .. n + 1 /\ Len(u) = n + 1
      /\ \A i \in 1 .. n : u[i] = t[i]
      /\ u[n + 1] = m
  BY <1>1, AppendFacts
<1>3. ~IsDelta(m)
  BY DEF Shown, IsDelta
<1> HIDE DEF u, n
<1>4. \A i \in DOMAIN u : Shown(u[i]) => i \in DOMAIN t /\ u[i] = t[i]
  BY <1>2
<1>5. \A i \in DOMAIN u : IsDelta(u[i]) => i \in DOMAIN t /\ u[i] = t[i]
  BY <1>2, <1>3
<1>6. \A i \in DOMAIN t : i \in DOMAIN u /\ u[i] = t[i]
  BY <1>2
<1>7. Ordered(u)
  BY <1>4, <1>5 DEF Ready, Chain, Ordered
<1>8. Unbroken(f, u)
  BY <1>5, <1>6 DEF Ready, Chain, Unbroken, Reached
<1>9. Between(f, u, e)
  BY <1>4 DEF Ready, Chain, Between
<1>10. Reached(f, u, Len(u) + 1, e - 1)
  <2>1. Reached(f, t, n + 1, e - 1)
    BY DEF Ready, n
  <2>2. \A j \in DOMAIN t : j < n + 1 => j < Len(u) + 1
    BY <1>2
  <2> QED
    BY <1>6, <2>1, <2>2 DEF Reached
<1>11. \A i \in DOMAIN u : IsDelta(u[i]) => u[i].depth < e
  BY <1>5 DEF Ready
<1> QED
  BY <1>1, <1>2, <1>7, <1>8, <1>9, <1>10, <1>11 DEF Ready, Chain, u

(* A depth of the edition of the book settles the stream.                  *)
LEMMA DepthAppended ==
  ASSUME NEW f, NEW t, NEW e, NEW G \in SUBSET Message,
         Chain(f, t, e, G), f <= e,
         \A i \in DOMAIN t : IsDelta(t[i]) => t[i].depth < e,
         NEW m \in G, Shown(m), m.depth = e,
         IsDelta(m) => Reached(f, t, Len(t) + 1, e - 1)
  PROVE  /\ Settled(f, Append(t, m), e, G)
         /\ ~IsDelta(m) => \A i \in DOMAIN Append(t, m) :
              IsDelta(Append(t, m)[i]) => Append(t, m)[i].depth < e
<1> DEFINE u == Append(t, m)
           n == Len(t)
<1>1. t \in Seq(G) /\ f \in Nat /\ e \in Nat
  BY DEF Chain
<1>2. /\ u \in Seq(G) /\ n \in Nat
      /\ DOMAIN t = 1 .. n /\ DOMAIN u = 1 .. n + 1 /\ Len(u) = n + 1
      /\ \A i \in 1 .. n : u[i] = t[i] /\ t[i] \in G
      /\ u[n + 1] = m
  BY <1>1, AppendFacts
<1> HIDE DEF u, n
<1>3. \A i \in DOMAIN t : i \in DOMAIN u /\ u[i] = t[i] /\ i < n + 1
  BY <1>2
<1>4. \A i \in DOMAIN u : i = n + 1 \/ (i \in DOMAIN t /\ u[i] = t[i])
  BY <1>2
<1>5. \A i \in DOMAIN t : Shown(t[i]) => t[i].depth \in Nat /\ t[i].depth <= e /\ f <= t[i].depth
  BY <1>2, MessageFacts DEF Chain, Between
<1>6. Ordered(u)
  <2>1. ASSUME NEW i \in DOMAIN u, NEW j \in DOMAIN u, j < i, Shown(u[i]), Shown(u[j])
        PROVE  u[j].depth <= u[i].depth /\ (IsDelta(u[j]) => u[j].depth < u[i].depth)
    <3>1. j \in DOMAIN t /\ u[j] = t[j]
      BY <1>2, <2>1
    <3>2. CASE i \in DOMAIN t
      <4>1. u[i] = t[i]
        BY <1>3, <3>2
      <4> QED
        BY <2>1, <3>1, <3>2, <4>1 DEF Chain, Ordered
    <3>3. CASE i = n + 1
      BY <1>2, <1>5, <2>1, <3>1, <3>3
    <3> QED
      BY <1>4, <3>2, <3>3
  <2> QED
    BY <2>1 DEF Ordered
<1>7. Unbroken(f, u)
  <2>1. ASSUME NEW i \in DOMAIN u, IsDelta(u[i])
        PROVE  Reached(f, u, i, u[i].depth - 1)
    <3>1. CASE i \in DOMAIN t
      <4>1. u[i] = t[i]
        BY <1>3, <3>1
      <4>2. Reached(f, t, i, t[i].depth - 1)
        BY <2>1, <3>1, <4>1 DEF Chain, Unbroken
      <4> QED
        BY <1>3, <4>1, <4>2 DEF Reached
    <3>2. CASE i = n + 1
      <4>1. Reached(f, t, n + 1, e - 1)
        BY <1>2, <2>1, <3>2 DEF n
      <4> QED
        BY <1>2, <1>3, <3>2, <4>1 DEF Reached
    <3> QED
      BY <1>4, <3>1, <3>2
  <2> QED
    BY <2>1 DEF Unbroken
<1>8. Between(f, u, e)
  BY <1>1, <1>2, <1>4, <1>5 DEF Between
<1>9. Reached(f, u, Len(u) + 1, e)
  <2>1. n + 1 \in DOMAIN u /\ n + 1 < Len(u) + 1 /\ u[n + 1].depth >= e
    BY <1>1, <1>2
  <2> QED
    BY <1>2, <2>1 DEF Reached
<1>10. ~IsDelta(m) => \A i \in DOMAIN u : IsDelta(u[i]) => u[i].depth < e
  BY <1>2, <1>4
<1> QED
  BY <1>1, <1>2, <1>6, <1>7, <1>8, <1>9, <1>10 DEF Settled, Chain, u

(* What is in front of a queue is in order if the whole is.                *)
LEMMA FrontIsChain ==
  ASSUME NEW f, NEW w, NEW q, NEW e, NEW G \in SUBSET Message,
         w \in Seq(G), q \in Seq(G), Chain(f, w \o q, e, G)
  PROVE  /\ Chain(f, w, e, G)
         /\ \A i \in DOMAIN w : i \in DOMAIN (w \o q) /\ (w \o q)[i] = w[i]
<1> DEFINE t == w \o q
<1>1. /\ DOMAIN w = 1 .. Len(w) /\ Len(w) \in Nat
      /\ \A i \in DOMAIN w : i \in DOMAIN t /\ t[i] = w[i]
      /\ \A i \in DOMAIN t : \A j \in DOMAIN w : i < j => i \in DOMAIN w
  <2>1. /\ Len(t) = Len(w) + Len(q) /\ DOMAIN t = 1 .. Len(t)
        /\ Len(w) \in Nat /\ Len(q) \in Nat /\ DOMAIN w = 1 .. Len(w)
        /\ \A i \in 1 .. Len(w) + Len(q) : t[i] = IF i <= Len(w) THEN w[i] ELSE q[i - Len(w)]
    <3>1. /\ Len(t) = Len(w) + Len(q) /\ t \in Seq(G)
          /\ \A i \in 1 .. Len(w) + Len(q) : t[i] = IF i <= Len(w) THEN w[i] ELSE q[i - Len(w)]
      BY ConcatProperties, Zenon
    <3> HIDE DEF t
    <3> QED
      BY <3>1
  <2> HIDE DEF t
  <2> QED
    BY <2>1
<1>2. f \in Nat /\ e \in Nat /\ Ordered(t) /\ Unbroken(f, t) /\ Between(f, t, e)
  BY DEF Chain
<1> HIDE DEF t
<1>3. Ordered(w)
  BY <1>1, <1>2 DEF Ordered
<1>4. Unbroken(f, w)
  <2>1. ASSUME NEW i \in DOMAIN w, IsDelta(w[i])
        PROVE  Reached(f, w, i, w[i].depth - 1)
    <3>1. Reached(f, t, i, w[i].depth - 1)
      BY <1>1, <1>2, <2>1 DEF Unbroken
    <3> QED
      BY <1>1, <3>1 DEF Reached
  <2> QED
    BY <2>1 DEF Unbroken
<1>5. Between(f, w, e)
  BY <1>1, <1>2 DEF Between
<1> QED
  BY <1>1, <1>2, <1>3, <1>4, <1>5 DEF Chain, t

(* The two outcomes of an offer, seen from the stream: what waits is followed
   by the message, or is replaced by the snapshot.                         *)
LEMMA OfferedInStream ==
  ASSUME NEW G, NEW w \in Seq(G), NEW q \in Seq(G), NEW m \in G, NEW snapshot \in G
  PROVE  \/ w \o Offered(q, m, snapshot) = Append(w \o q, m)
         \/ w \o Offered(q, m, snapshot) = Append(w, snapshot)
<1>1. Offered(q, m, snapshot) \in {<<snapshot>>, Append(q, m)}
  BY DEF Offered
<1>2. w \o <<snapshot>> = Append(w, snapshot)
  OBVIOUS
<1>3. w \o Append(q, m) = Append(w \o q, m)
  OBVIOUS
<1> QED
  BY <1>1, <1>2, <1>3

(* A trade of the command, with its snapshot at hand.                      *)
LEMMA TradeOffered ==
  ASSUME NEW f, NEW e, NEW G \in SUBSET Message, NEW w \in Seq(G), NEW q \in Seq(G),
         Ready(f, w \o q, e, G), NEW m \in G, ~Shown(m),
         NEW snapshot \in G, Shown(snapshot), ~IsDelta(snapshot), snapshot.depth = e
  PROVE  Ready(f, w \o Offered(q, m, snapshot), e, G)
<1>1. CASE w \o Offered(q, m, snapshot) = Append(w \o q, m)
  BY <1>1, TradeAppended
<1>2. CASE w \o Offered(q, m, snapshot) = Append(w, snapshot)
  <2> DEFINE u == Append(w, snapshot)
  <2>1. Chain(f, w \o q, e, G) /\ f < e /\ f \in Nat /\ e \in Nat
        /\ \A i \in DOMAIN (w \o q) : IsDelta((w \o q)[i]) => (w \o q)[i].depth < e
    BY DEF Ready, Chain
  <2>2. /\ Chain(f, w, e, G)
        /\ \A i \in DOMAIN w : i \in DOMAIN (w \o q) /\ (w \o q)[i] = w[i]
    BY <2>1, FrontIsChain
  <2>3. \A i \in DOMAIN w : IsDelta(w[i]) => w[i].depth < e
    BY <2>1, <2>2
  <2>4. f <= e
    BY <2>1
  <2>5. Settled(f, u, e, G) /\ \A i \in DOMAIN u : IsDelta(u[i]) => u[i].depth < e
    BY <2>2, <2>3, <2>4, DepthAppended
  <2> HIDE DEF u
  <2>6. Reached(f, u, Len(u) + 1, e - 1)
    <3>1. \A j \in DOMAIN u : Shown(u[j]) => u[j].depth \in Nat
      <4>1. u \in Seq(G)
        BY <2>5 DEF Settled, Chain
      <4>2. \A j \in DOMAIN u : u[j] \in Message
        BY <4>1
      <4> QED
        BY <4>2, MessageFacts
    <3> QED
      BY <2>1, <2>5, <3>1 DEF Settled, Reached
  <2> QED
    BY <1>2, <2>1, <2>5, <2>6 DEF Ready, Settled, u
<1> QED
  BY <1>1, <1>2, OfferedInStream

(* The delta of the command, its last message.                             *)
LEMMA DeltaOffered ==
  ASSUME NEW f, NEW e, NEW G \in SUBSET Message, NEW w \in Seq(G), NEW q \in Seq(G),
         Ready(f, w \o q, e, G), NEW m \in G, IsDelta(m), m.depth = e,
         NEW snapshot \in G, Shown(snapshot), ~IsDelta(snapshot), snapshot.depth = e
  PROVE  Settled(f, w \o Offered(q, m, snapshot), e, G)
<1>1. /\ Chain(f, w \o q, e, G) /\ f <= e
      /\ Reached(f, w \o q, Len(w \o q) + 1, e - 1)
      /\ \A i \in DOMAIN (w \o q) : IsDelta((w \o q)[i]) => (w \o q)[i].depth < e
  BY DEF Ready, Chain
<1>2. CASE w \o Offered(q, m, snapshot) = Append(w \o q, m)
  <2>1. Shown(m)
    BY DEF Shown, IsDelta
  <2> QED
    BY <1>1, <1>2, <2>1, DepthAppended
<1>3. CASE w \o Offered(q, m, snapshot) = Append(w, snapshot)
  <2>1. /\ Chain(f, w, e, G)
        /\ \A i \in DOMAIN w : i \in DOMAIN (w \o q) /\ (w \o q)[i] = w[i]
    BY <1>1, FrontIsChain
  <2>2. \A i \in DOMAIN w : IsDelta(w[i]) => w[i].depth < e
    BY <1>1, <2>1
  <2> QED
    BY <1>1, <1>3, <2>1, <2>2, DepthAppended
<1> QED
  BY <1>2, <1>3, OfferedInStream

(* The next command finds the stream settled by the one before.            *)
LEMMA SettledIsReady ==
  ASSUME NEW f, NEW t, NEW e, NEW G \in SUBSET Message, Settled(f, t, e, G)
  PROVE  Ready(f, t, e + 1, G)
<1>1. t \in Seq(G) /\ f \in Nat /\ e \in Nat /\ f <= e
  BY DEF Settled, Chain
<1>2. \A i \in DOMAIN t : t[i] \in Message
  BY <1>1
<1>3. \A i \in DOMAIN t : /\ IsDelta(t[i]) => Shown(t[i])
                          /\ Shown(t[i]) => t[i].depth \in Nat /\ t[i].depth <= e /\ f <= t[i].depth
  BY <1>2, MessageFacts DEF Settled, Chain, Between
<1>4. Between(f, t, e + 1)
  BY <1>1, <1>3 DEF Between
<1>5. \A i \in DOMAIN t : IsDelta(t[i]) => t[i].depth < e + 1
  BY <1>1, <1>3
<1>6. (e + 1) - 1 = e /\ f < e + 1 /\ e + 1 \in Nat
  BY <1>1
<1> QED
  BY <1>1, <1>4, <1>5, <1>6 DEF Settled, Ready, Chain

-----------------------------------------------------------------------------
(* What a whole handler does to the stream.                                *)

(* An offer puts the message or the snapshot into the queue.               *)
LEMMA OfferedIn ==
  ASSUME NEW G, NEW q \in Seq(G), NEW m \in G, NEW snapshot \in G
  PROVE  Offered(q, m, snapshot) \in Seq(G)
<1>1. <<snapshot>> \in Seq(G) /\ Append(q, m) \in Seq(G)
  OBVIOUS
<1> QED
  BY <1>1 DEF Offered

(* Publishing the trades and then the delta of a command settles the stream,
   wherever the queue overflows.                                           *)
LEMMA PublishedSettles ==
  ASSUME NEW f, NEW e, NEW G \in SUBSET Message, NEW w \in Seq(G),
         NEW q \in Queue, q \in Seq(G), Ready(f, w \o q, e, G),
         NEW messages \in Seq(Message), messages # << >>,
         \A k \in 1 .. Len(messages) : messages[k] \in G,
         \A k \in 1 .. Len(messages) - 1 : ~Shown(messages[k]),
         IsDelta(messages[Len(messages)]), messages[Len(messages)].depth = e,
         NEW snapshot \in Snapshot, snapshot \in G, snapshot.depth = e
  PROVE  Settled(f, w \o Published(q, messages, snapshot), e, G)
<1> DEFINE n == Len(messages)
<1>1. PICK h \in [0 .. n -> Queue] :
         /\ h[0] = q /\ h[n] = Published(q, messages, snapshot)
         /\ \A k \in 1 .. n : h[k] = Offered(h[k - 1], messages[k], snapshot)
  BY PublishedByMessage
<1>2. Shown(snapshot) /\ ~IsDelta(snapshot)
  BY DEF Snapshot, Shown, IsDelta
<1>3. n \in Nat /\ n >= 1
  <2> HIDE DEF Message
  <2> QED
    OBVIOUS
<1> DEFINE Good == {k \in 0 .. n - 1 : h[k] \in Seq(G) /\ Ready(f, w \o h[k], e, G)}
<1>4. ASSUME NEW k \in 0 .. n - 1 - 1, k \in Good
      PROVE  k + 1 \in Good
  <2>1. /\ k \in 0 .. n - 1 /\ k + 1 \in 0 .. n - 1
        /\ k + 1 \in 1 .. n /\ k + 1 \in 1 .. n - 1 /\ (k + 1) - 1 = k
    BY <1>3
  <2>2. h[k + 1] = Offered(h[k], messages[k + 1], snapshot)
    BY <1>1, <2>1
  <2>3. h[k] \in Seq(G) /\ Ready(f, w \o h[k], e, G)
    BY <1>4
  <2>4. messages[k + 1] \in G /\ ~Shown(messages[k + 1])
    BY <2>1
  <2> HIDE DEF n
  <2>5. h[k + 1] \in Seq(G)
    BY <2>2, <2>3, <2>4, OfferedIn
  <2>6. Ready(f, w \o h[k + 1], e, G)
    BY <1>2, <2>2, <2>3, <2>4, TradeOffered
  <2> QED
    BY <2>1, <2>5, <2>6
<1>5. n - 1 \in Good
  <2>1. 0 \in Good /\ Good \in SUBSET Nat
    BY <1>1, <1>3
  <2>2. n - 1 \in Nat /\ n - 1 \in 0 .. n - 1
    BY <1>3
  <2> HIDE DEF Good, n
  <2> QED
    BY <1>4, <2>1, <2>2, UpTo
<1>6. h[n - 1] \in Seq(G) /\ Ready(f, w \o h[n - 1], e, G)
  BY <1>5
<1>7. n \in 1 .. n
  BY <1>3
<1>8. h[n] = Offered(h[n - 1], messages[n], snapshot) /\ messages[n] \in G
  BY <1>1, <1>7
<1>9. IsDelta(messages[n]) /\ messages[n].depth = e
  OBVIOUS
<1> HIDE DEF n
<1> QED
  BY <1>1, <1>2, <1>6, <1>8, <1>9, DeltaOffered

(* So does publishing the deltas of the seeds, one command each.           *)
LEMMA SeededSettles ==
  ASSUME NEW f, NEW edition \in Nat, NEW G \in SUBSET Message, NEW w \in Seq(G),
         NEW q \in Queue, q \in Seq(G), Settled(f, w \o q, edition, G),
         \A k \in 1 .. Seeds : SeedDelta(k, edition) \in G /\ AfterSeed(k, edition) \in G
  PROVE  Settled(f, w \o Seeded(q, edition), edition + Seeds, G)
<1>1. PICK h \in [0 .. Seeds -> Queue] :
         /\ h[0] = q /\ h[Seeds] = Seeded(q, edition)
         /\ \A k \in 1 .. Seeds :
              h[k] = Offered(h[k - 1], SeedDelta(k, edition), AfterSeed(k, edition))
  BY SeededBySeed
<1> DEFINE Good == {k \in 0 .. Seeds : h[k] \in Seq(G) /\ Settled(f, w \o h[k], edition + k, G)}
<1>2. Seeds \in Nat
  BY SeedsAssumption
<1>3. ASSUME NEW k \in 0 .. Seeds - 1, k \in Good
      PROVE  k + 1 \in Good
  <2>1. /\ k \in 0 .. Seeds /\ k + 1 \in 0 .. Seeds /\ k + 1 \in 1 .. Seeds
        /\ (k + 1) - 1 = k /\ edition + (k + 1) = (edition + k) + 1
    BY <1>2
  <2> DEFINE d == SeedDelta(k + 1, edition)
             a == AfterSeed(k + 1, edition)
  <2>2. h[k + 1] = Offered(h[k], d, a)
    BY <1>1, <2>1
  <2>3. d \in G /\ a \in G
    BY <2>1
  <2>4. /\ IsDelta(d) /\ d.depth = edition + (k + 1)
        /\ Shown(a) /\ ~IsDelta(a) /\ a.depth = edition + (k + 1)
    BY DEF SeedDelta, AfterSeed, SnapshotOf, IsDelta, Shown
  <2>5. h[k] \in Seq(G) /\ Settled(f, w \o h[k], edition + k, G)
    BY <1>3
  <2> HIDE DEF d, a
  <2>6. Ready(f, w \o h[k], edition + (k + 1), G)
    <3>1. Ready(f, w \o h[k], (edition + k) + 1, G)
      BY <2>5, SettledIsReady
    <3> QED
      BY <2>1, <3>1
  <2>7. h[k + 1] \in Seq(G)
    BY <2>2, <2>3, <2>5, OfferedIn
  <2>8. Settled(f, w \o h[k + 1], edition + (k + 1), G)
    BY <2>2, <2>3, <2>4, <2>5, <2>6, DeltaOffered
  <2> QED
    BY <2>1, <2>7, <2>8
<1>4. Seeds \in Good
  <2>1. 0 \in Good /\ Good \in SUBSET Nat
    <3>1. edition + 0 = edition
      OBVIOUS
    <3> QED
      BY <1>1, <1>2, <3>1
  <2>2. Seeds \in 0 .. Seeds
    BY <1>2
  <2> HIDE DEF Good
  <2> QED
    BY <1>2, <1>3, <2>1, <2>2, UpTo
<1> QED
  BY <1>1, <1>4

(* What a command that is accepted publishes: trades, then one delta of the
   new edition that names the update before it.                            *)
IsUpdate(p, kinds, number, last, edition) ==
  /\ p \in Projection
  /\ Len(kinds) \in Nat \ {0}
  /\ p.sequence = number + Len(kinds) /\ p.last = p.sequence
  /\ p.messages # << >>
  /\ \A k \in 1 .. Len(p.messages) - 1 : ~Shown(p.messages[k])
  /\ p.messages[Len(p.messages)]
       = [type |-> "book_delta", sequence |-> p.sequence,
          previous_sequence |-> last, depth |-> edition]

(* This is what an accepted command comes to.                              *)
LEMMA UpdateProjected ==
  ASSUME NEW kinds \in EventKinds, Updates(kinds) = {Len(kinds)},
         NEW number \in Nat, NEW last \in Nat, NEW edition \in Nat
  PROVE  IsUpdate(Project(kinds, number, last, edition), kinds, number, last, edition)
<1>0. PICK p : p = Project(kinds, number, last, edition)
  OBVIOUS
<1> DEFINE n == Len(kinds)
<1>1. kinds \in Seq(EventKind) /\ kinds # << >>
  BY EventKindsAssumption
<1>2. n \in Nat /\ n >= 1 /\ \A k \in 1 .. n : kinds[k] \in EventKind
  <2> HIDE DEF EventKind
  <2> QED
    BY <1>1
<1>3. kinds[n] = "book_delta" /\ \A k \in 1 .. n - 1 : kinds[k] # "book_delta"
  BY <1>1, <1>2 DEF Updates
<1>4. PICK h \in [0 .. n -> Projection] :
         /\ h[0] = [sequence |-> number, last |-> last, depth |-> edition, messages |-> << >>]
         /\ h[n] = p
         /\ \A k \in 1 .. n : h[k] = ProjectEvent(h[k - 1], kinds[k])
  BY <1>0, <1>1, ProjectedByEvent
<1> DEFINE Trades(x) == \A i \in DOMAIN x.messages : ~Shown(x.messages[i])
           Good == {k \in 0 .. n - 1 : /\ h[k].sequence = number + k /\ h[k].last = last
                                       /\ h[k].depth = edition /\ Trades(h[k])}
<1>5. \A x \in Projection : /\ x.messages \in Seq(Message) /\ Len(x.messages) \in Nat
                            /\ DOMAIN x.messages = 1 .. Len(x.messages)
                            /\ x.sequence \in Nat /\ x.last \in Nat /\ x.depth \in Nat
  <2> HIDE DEF Message
  <2> QED
    BY DEF Projection
<1>6. \A x \in Projection, m \in Message :
        /\ Len(Append(x.messages, m)) = Len(x.messages) + 1
        /\ DOMAIN Append(x.messages, m) = 1 .. Len(x.messages) + 1
        /\ \A i \in 1 .. Len(x.messages) : Append(x.messages, m)[i] = x.messages[i]
        /\ Append(x.messages, m)[Len(x.messages) + 1] = m
  <2> TAKE x \in Projection, m \in Message
  <2>1. x.messages \in Seq(Message)
    BY <1>5
  <2> HIDE DEF Message
  <2> QED
    BY <2>1, AppendFacts
<1>7. ASSUME NEW k \in 0 .. n - 1 - 1, k \in Good
      PROVE  k + 1 \in Good
  <2>1. /\ k \in 0 .. n /\ k + 1 \in 0 .. n - 1 /\ k + 1 \in 1 .. n
        /\ k + 1 \in 1 .. n - 1 /\ (k + 1) - 1 = k /\ k \in Nat
    BY <1>2
  <2> DEFINE x == h[k]
             y == h[k + 1]
             kind == kinds[k + 1]
  <2>2. y = ProjectEvent(x, kind) /\ x \in Projection /\ kind \in EventKind /\ kind # "book_delta"
    BY <1>2, <1>3, <1>4, <2>1
  <2>3. x.sequence = number + k /\ x.last = last /\ x.depth = edition /\ Trades(x)
    BY <1>7
  <2> HIDE DEF x, y, kind
  <2>4. /\ y.sequence = x.sequence + 1 /\ y.depth = x.depth /\ y.last = x.last
        /\ y.messages = x.messages \/ \E m \in Trade : y.messages = Append(x.messages, m)
    BY <2>2, ProjectEventFacts DEF EventKind
  <2>5. Trades(y)
    <3>1. CASE y.messages = x.messages
      BY <2>3, <3>1
    <3>2. CASE \E m \in Trade : y.messages = Append(x.messages, m)
      <4>1. PICK m \in Trade : y.messages = Append(x.messages, m)
        BY <3>2
      <4>2. m \in Message /\ ~Shown(m)
        BY DEF Message, Trade, Shown
      <4>3. \A i \in DOMAIN y.messages : i \in DOMAIN x.messages \/ i = Len(x.messages) + 1
        BY <1>5, <1>6, <2>2, <4>1, <4>2
      <4> QED
        BY <1>5, <1>6, <2>2, <2>3, <4>1, <4>2, <4>3
    <3> QED
      BY <2>4, <3>1, <3>2
  <2>6. y.sequence = number + (k + 1)
    BY <2>1, <2>3, <2>4
  <2> HIDE DEF Trades
  <2> QED
    BY <2>1, <2>3, <2>4, <2>5, <2>6 DEF y
<1>8. n - 1 \in Good
  <2>1. 0 \in Good /\ Good \in SUBSET Nat
    BY <1>2, <1>4
  <2>2. n - 1 \in Nat /\ n - 1 \in 0 .. n - 1
    BY <1>2
  <2> HIDE DEF Good, n
  <2> QED
    BY <1>7, <2>1, <2>2, UpTo
<1> DEFINE x == h[n - 1]
           d == [type |-> "book_delta", sequence |-> x.sequence + 1,
                 previous_sequence |-> x.last, depth |-> x.depth]
<1>9. x \in Projection /\ p = ProjectEvent(x, "book_delta")
  <2>1. n \in 1 .. n /\ n - 1 \in 0 .. n
    BY <1>2
  <2> QED
    BY <1>3, <1>4, <2>1
<1>10. x.sequence = number + (n - 1) /\ x.last = last /\ x.depth = edition /\ Trades(x)
  BY <1>8
<1> HIDE DEF x
<1>11. /\ p \in Projection /\ p.sequence = x.sequence + 1 /\ p.last = x.sequence + 1
       /\ p.messages = Append(x.messages, d)
  BY <1>9, ProjectEventFacts DEF EventKind
<1>12. d \in Message
  BY <1>5, <1>9 DEF Message, Delta
<1>13. x.sequence + 1 = number + n
  BY <1>2, <1>10
<1>14. /\ p.messages # << >>
       /\ \A k \in 1 .. Len(p.messages) - 1 : ~Shown(p.messages[k])
       /\ p.messages[Len(p.messages)] = d
  <2> HIDE DEF d
  <2>1. /\ Len(x.messages) \in Nat /\ DOMAIN x.messages = 1 .. Len(x.messages)
        /\ Len(p.messages) = Len(x.messages) + 1
        /\ \A i \in 1 .. Len(x.messages) : p.messages[i] = x.messages[i]
        /\ p.messages[Len(x.messages) + 1] = d
    BY <1>5, <1>6, <1>9, <1>11, <1>12
  <2>2. \A i \in 1 .. Len(x.messages) : ~Shown(x.messages[i])
    BY <1>10, <2>1
  <2>3. Len(p.messages) - 1 = Len(x.messages) /\ Len(p.messages) # 0
    BY <2>1
  <2>4. \A k \in 1 .. Len(p.messages) - 1 : ~Shown(p.messages[k])
    BY <2>1, <2>2, <2>3
  <2>5. p.messages # << >>
    BY <2>3
  <2> QED
    BY <2>1, <2>4, <2>5
<1>15. IsUpdate(p, kinds, number, last, edition)
  BY <1>2, <1>10, <1>11, <1>13, <1>14 DEF d, IsUpdate
<1> QED
  BY <1>0, <1>15

(* A refusal takes a number and publishes nothing.                         *)
LEMMA RefusalProjected ==
  ASSUME NEW number \in Nat, NEW last \in Nat, NEW edition \in Nat
  PROVE  /\ Project(<<"other">>, number, last, edition).sequence = number + 1
         /\ Project(<<"other">>, number, last, edition).last = last
         /\ Project(<<"other">>, number, last, edition).messages = << >>
<1>0. PICK p : p = Project(<<"other">>, number, last, edition)
  OBVIOUS
<1> DEFINE kinds == <<"other">>
<1>1. kinds \in Seq(EventKind) /\ Len(kinds) = 1 /\ kinds[1] = "other"
  BY DEF EventKind
<1>2. p = Project(kinds, number, last, edition)
  BY <1>0
<1> HIDE DEF kinds
<1>3. PICK h \in [0 .. Len(kinds) -> Projection] :
         /\ h[0] = [sequence |-> number, last |-> last, depth |-> edition, messages |-> << >>]
         /\ h[Len(kinds)] = Project(kinds, number, last, edition)
         /\ \A k \in 1 .. Len(kinds) : h[k] = ProjectEvent(h[k - 1], kinds[k])
  BY <1>1, ProjectedByEvent
<1>4. 1 \in 1 .. 1 /\ 1 - 1 = 0 /\ 0 \in 0 .. 1
  OBVIOUS
<1> DEFINE x == h[0]
           kind == "other"
<1>5. p = ProjectEvent(x, kind) /\ x \in Projection
  BY <1>1, <1>2, <1>3, <1>4
<1>6. kind \in EventKind /\ kind # "book_delta" /\ kind = "other"
  BY DEF EventKind
<1>8. x.sequence = number /\ x.last = last /\ x.messages = << >>
  BY <1>3
<1> HIDE DEF x, kind
<1>7. /\ p.sequence = x.sequence + 1 /\ p.last = x.last
      /\ p.messages = x.messages
  <2> DEFINE y == ProjectEvent(x, kind)
  <2>1. /\ y.sequence = x.sequence + 1
        /\ y.last = IF kind = "book_delta" THEN x.sequence + 1 ELSE x.last
        /\ kind = "other" => y.messages = x.messages
    BY <1>5, <1>6, ProjectEventFacts
  <2>2. y = p
    BY <1>5
  <2> HIDE DEF y
  <2> QED
    BY <1>6, <2>1, <2>2
<1> QED
  BY <1>0, <1>7, <1>8
-----------------------------------------------------------------------------
(* The types.                                                              *)

(* A snapshot is no other state of a request.                              *)
LEMMA SnapshotFacts ==
  ASSUME NEW s \in Snapshot
  PROVE  /\ s \in Message /\ s.type = "book_snapshot"
         /\ s.depth \in Nat /\ s.sequence \in Nat
         /\ s # NoFetch /\ s # Asked
         /\ Shown(s) /\ ~IsDelta(s)
<1>1. s.type = "book_snapshot"
  BY DEF Snapshot
<1>2. NoFetch.type = "none" /\ Asked.type = "asked"
  BY DEF NoFetch, Asked
<1> QED
  BY <1>1, <1>2 DEF Snapshot, Message, Shown, IsDelta

(* So no request is both asked and answered, or neither.                   *)
LEMMA RequestFacts ==
  NoFetch # Asked /\ NoFetch \notin Snapshot /\ Asked \notin Snapshot
<1>1. NoFetch.type = "none" /\ Asked.type = "asked"
  BY DEF NoFetch, Asked
<1> QED
  BY <1>1, SnapshotFacts

(* What snapshot() returns.                                                *)
LEMMA SnapshotOfFacts ==
  ASSUME NEW number, NEW last \in Nat, NEW edition \in Nat
  PROVE  /\ SnapshotOf(number, last, edition) \in Snapshot
         /\ SnapshotOf(number, last, edition).depth = edition
         /\ SnapshotOf(number, last, edition).sequence = last
BY DEF SnapshotOf, Snapshot

(* What a shown message of each kind carries.                              *)
LEMMA KindFacts ==
  ASSUME NEW m \in Message
  PROVE  /\ m.type = "book_snapshot" => m \in Snapshot
         /\ m.type = "book_delta" => m \in Delta
         /\ m.type # "trade" => m.depth \in Nat /\ m.sequence \in Nat
BY DEF Message, Trade, Delta, Snapshot

(* What a command comes to is a projection.                                *)
LEMMA ProjectType ==
  ASSUME NEW kinds \in Seq(EventKind), NEW number \in Nat, NEW last \in Nat, NEW edition \in Nat
  PROVE  Project(kinds, number, last, edition) \in Projection
<1>1. Len(kinds) \in 0 .. Len(kinds)
  <2> HIDE DEF EventKind
  <2> QED
    OBVIOUS
<1>2. PICK h \in [0 .. Len(kinds) -> Projection] :
         /\ h[0] = [sequence |-> number, last |-> last, depth |-> edition, messages |-> << >>]
         /\ h[Len(kinds)] = Project(kinds, number, last, edition)
         /\ \A k \in 1 .. Len(kinds) : h[k] = ProjectEvent(h[k - 1], kinds[k])
  BY ProjectedByEvent
<1>3. h[Len(kinds)] \in Projection
  BY <1>1
<1> QED
  BY <1>2, <1>3

(* What a command puts into the queue leaves a queue.                      *)
LEMMA CommandType ==
  ASSUME TypeOK, NEW kinds \in EventKinds, Command(kinds)
  PROVE  /\ depth' \in Nat /\ sequence' \in Nat /\ last_depth_sequence' \in Nat
         /\ queue' \in Queue
<1> DEFINE updates == Cardinality(Updates(kinds))
           p == Project(kinds, sequence, last_depth_sequence, depth + updates)
           snapshot == SnapshotOf(p.sequence, p.last, depth')
<1>1. updates \in Nat
  <2>1. kinds \in Seq(EventKind)
    BY EventKindsAssumption
  <2>2. IsFiniteSet(1 .. Len(kinds)) /\ Updates(kinds) \subseteq 1 .. Len(kinds)
    <3>1. Len(kinds) \in Nat /\ DOMAIN kinds = 1 .. Len(kinds)
      BY <2>1
    <3> QED
      BY <3>1, FS_Interval DEF Updates
  <2> QED
    BY <2>2, FS_Subset, FS_CardinalityType
<1>2. kinds \in Seq(EventKind) /\ sequence \in Nat /\ last_depth_sequence \in Nat /\ depth + updates \in Nat
  BY <1>1, EventKindsAssumption DEF TypeOK
<1>3. p \in Projection
  <2> HIDE DEF updates
  <2> QED
    BY <1>2, ProjectType
<1>4. /\ depth' = depth + updates /\ sequence' = p.sequence /\ last_depth_sequence' = p.last
      /\ queue' = IF connected THEN Published(queue, p.messages, snapshot) ELSE queue
  BY DEF Command, Subscribed
<1> HIDE DEF p, updates
<1>5. p.sequence \in Nat /\ p.last \in Nat /\ p.messages \in Seq(Message)
  BY <1>3 DEF Projection
<1>6. queue \in Queue
  BY DEF TypeOK, Queue
<1>7. snapshot \in Snapshot
  BY <1>2, <1>4, <1>5, SnapshotOfFacts
<1>8. Published(queue, p.messages, snapshot) \in Queue
  <2>1. Len(p.messages) \in 0 .. Len(p.messages)
    <3> HIDE DEF Message
    <3> QED
      BY <1>5
  <2> HIDE DEF snapshot
  <2> QED
    BY <1>5, <1>6, <1>7, <2>1, PublishedByMessage
<1> QED
  BY <1>2, <1>4, <1>5, <1>6, <1>8

(* The types by part.                                                      *)
ServerOK ==
  depth \in Nat /\ sequence \in Nat /\ last_depth_sequence \in Nat /\ births \subseteq Nat

ChannelOK ==
  /\ connected \in BOOLEAN
  /\ queue \in Seq(Message) /\ Len(queue) <= Capacity
  /\ wire \in Seq(Message)

PageOK ==
  /\ backend \in {"CHECKING", "CONNECTED", "TIMEOUT"}
  /\ connected => backend = "CONNECTED"
  /\ left \in {NoFetch} \cup Snapshot

ClientOK ==
  /\ market \in Nat /\ lastDepthSequence \in Nat
  /\ resyncing \in BOOLEAN /\ failed \in BOOLEAN
  /\ status \in {"CONNECTING", "LIVE", "RESYNCING", "OFFLINE"}

RequestOK ==
  /\ fetch \in {NoFetch, Asked} \cup Snapshot
  /\ timer \in {"none", "own", "other"}
  /\ fault \in FailureMode

HistoryOK ==
  /\ seen \in Nat \X Nat /\ latest \in Nat \X Nat /\ gap \in Nat \X Nat
  /\ late \in BOOLEAN /\ overtaken \in BOOLEAN /\ strayed \in BOOLEAN

Typed == ServerOK /\ ChannelOK /\ PageOK /\ ClientOK /\ RequestOK /\ HistoryOK

(* Together they are the type invariant.                                   *)
LEMMA TypeParts == TypeOK <=> Typed
BY DEF TypeOK, Typed, ServerOK, ChannelOK, PageOK, ClientOK, RequestOK, HistoryOK

(* The part a client's step leaves to the others.                          *)
LEMMA TypeOfTake ==
  ASSUME Typed, Take
  PROVE  /\ ServerOK' /\ ChannelOK' /\ PageOK' /\ Head(wire) \in Message
<1>1. wire \in Seq(Message) /\ wire # << >>
  BY DEF Take, Typed, ChannelOK
<1>2. Tail(wire) \in Seq(Message) /\ Head(wire) \in Message
  <2> HIDE DEF Message
  <2> QED
    BY <1>1
<1>3. ServerOK'
  BY DEF Take, Typed, ServerOK, server
<1>4. ChannelOK'
  BY <1>2 DEF Take, Typed, ChannelOK
<1>5. PageOK'
  BY DEF Take, Typed, PageOK, page
<1> QED
  BY <1>2, <1>3, <1>4, <1>5

(* A delta that is taken has a depth and a number.                         *)
LEMMA TypeOfDelta ==
  ASSUME Typed, TakeDelta
  PROVE  /\ ServerOK' /\ ChannelOK' /\ PageOK'
         /\ Head(wire).depth \in Nat /\ Head(wire).sequence \in Nat
         /\ seen' \in Nat \X Nat /\ latest' \in Nat \X Nat /\ late' \in BOOLEAN
<1>1. Take /\ Head(wire).type = "book_delta"
  BY DEF TakeDelta
<1>2. ServerOK' /\ ChannelOK' /\ PageOK' /\ Head(wire) \in Message
  BY <1>1, TypeOfTake
<1>3. Head(wire).depth \in Nat /\ Head(wire).sequence \in Nat
  BY <1>1, <1>2, KindFacts
<1> QED
  BY <1>2, <1>3 DEF TakeDelta

(* A request asked for is one.                                             *)
LEMMA TypeOfResync ==
  ASSUME Typed, NEW request \in {NoFetch, Asked} \cup Snapshot, ResyncFrom(request)
  PROVE  ClientOK' /\ fetch' \in {NoFetch, Asked} \cup Snapshot
BY DEF Typed, ClientOK, RequestOK, ResyncFrom, client

(* A socket that ends leaves nothing on its way.                           *)
LEMMA TypeOfTorn ==
  ASSUME Typed, Torn
  PROVE  ChannelOK' /\ connected' = FALSE
<1>1. connected' = FALSE /\ queue' = << >> /\ wire' = << >>
  BY DEF Torn
<1>2. << >> \in Seq(Message) /\ Len(<< >>) <= Capacity
  BY CapacityAssumption
<1> QED
  BY <1>1, <1>2 DEF ChannelOK

(* Every step keeps the types.                                             *)
LEMMA TypeNext ==
  ASSUME TypeOK, [Next]_vars
  PROVE  TypeOK'
<1>0. Typed
  BY TypeParts
<1>P. /\ UNCHANGED server => ServerOK'
      /\ UNCHANGED channel => ChannelOK'
      /\ UNCHANGED page /\ (connected' => connected) => PageOK'
      /\ UNCHANGED client => ClientOK'
      /\ UNCHANGED <<fetch, fault, timer>> => RequestOK'
      /\ UNCHANGED history => HistoryOK'
  BY <1>0 DEF Typed, ServerOK, ChannelOK, PageOK, ClientOK, RequestOK, HistoryOK,
              server, channel, page, client, history
<1>1. ASSUME NEW kinds \in EventKinds, Command(kinds)
      PROVE  Typed'
  <2>1. /\ depth' \in Nat /\ sequence' \in Nat /\ last_depth_sequence' \in Nat
        /\ queue' \in Seq(Message) /\ Len(queue') <= Capacity
    BY <1>1, CommandType DEF Queue
  <2>2. UNCHANGED <<births, connected, wire, client, fetch, fault, timer, page, history>>
    BY <1>1 DEF Command
  <2>3. ServerOK' /\ ChannelOK'
    BY <1>0, <2>1, <2>2 DEF Typed, ServerOK, ChannelOK
  <2> QED
    BY <1>P, <2>2, <2>3 DEF Typed
<1>2. ASSUME Reset
      PROVE  Typed'
  <2>1. queue \in Queue /\ Seeds \in Nat /\ Seeds \in 0 .. Seeds /\ depth \in Nat
    BY <1>0, SeedsAssumption DEF Queue, Typed, ChannelOK, ServerOK
  <2>2. Seeded(queue, depth) \in Queue
    <3>1. PICK h \in [0 .. Seeds -> Queue] : h[Seeds] = Seeded(queue, depth)
      BY <2>1, SeededBySeed
    <3> QED
      BY <2>1, <3>1
  <2>3. queue' \in Queue
    BY <1>2, <2>1, <2>2 DEF Reset
  <2>4. UNCHANGED <<connected, wire, client, fetch, fault, timer, page, history>>
    BY <1>2 DEF Reset
  <2>5. ServerOK'
    <3>1. /\ depth' = depth + Seeds /\ births' = births \cup {depth}
          /\ sequence' = 2 * Seeds /\ last_depth_sequence' = 2 * Seeds
      BY <1>2 DEF Reset
    <3>2. depth + Seeds \in Nat /\ 2 * Seeds \in Nat
      BY <2>1
    <3> QED
      BY <1>0, <2>1, <3>1, <3>2 DEF Typed, ServerOK
  <2>6. ChannelOK'
    BY <1>0, <2>3, <2>4 DEF Typed, ChannelOK, Queue
  <2> QED
    BY <1>P, <2>4, <2>5, <2>6 DEF Typed
<1>3. ASSUME Send
      PROVE  Typed'
  <2>1. /\ Tail(queue) \in Seq(Message) /\ Len(Tail(queue)) <= Capacity
        /\ Append(wire, Head(queue)) \in Seq(Message)
    <3>1. queue \in Seq(Message) /\ queue # << >> /\ wire \in Seq(Message) /\ Len(queue) <= Capacity
      BY <1>0, <1>3 DEF Send, Typed, ChannelOK
    <3> HIDE DEF Message
    <3>2. /\ Len(Tail(queue)) = Len(queue) - 1 /\ Len(queue) \in Nat /\ Head(queue) \in Message
          /\ Tail(queue) \in Seq(Message)
      BY <3>1
    <3> QED
      BY <3>1, <3>2, CapacityAssumption
  <2>2. UNCHANGED <<server, connected, client, fetch, fault, timer, page, history>>
    BY <1>3 DEF Send
  <2>3. ChannelOK'
    BY <1>0, <1>3, <2>1, <2>2 DEF Send, Typed, ChannelOK
  <2> QED
    BY <1>P, <2>2, <2>3 DEF Typed
<1>4. ASSUME Answer
      PROVE  Typed'
  <2>1. Current \in Snapshot
    BY <1>0, SnapshotOfFacts DEF Current, Typed, ServerOK
  <2>2. RequestOK' /\ HistoryOK'
    BY <1>0, <1>4, <2>1 DEF Answer, Typed, RequestOK, HistoryOK
  <2>3. UNCHANGED <<server, channel, client, page>> /\ (connected' => connected)
    BY <1>4 DEF Answer, channel
  <2> QED
    BY <1>P, <2>2, <2>3 DEF Typed
<1>5. ASSUME ReceiveTrade
      PROVE  Typed'
  <2>1. ServerOK' /\ ChannelOK' /\ PageOK'
    BY <1>0, <1>5, TypeOfTake DEF ReceiveTrade
  <2>2. UNCHANGED <<client, fetch, fault, timer, history>>
    BY <1>5 DEF ReceiveTrade
  <2> QED
    BY <1>P, <2>1, <2>2 DEF Typed
<1>6. ASSUME ReceiveSnapshot
      PROVE  Typed'
  <2>1. Take /\ Head(wire).type = "book_snapshot"
    BY <1>6 DEF ReceiveSnapshot
  <2>2. ServerOK' /\ ChannelOK' /\ PageOK' /\ Head(wire) \in Message
    BY <1>0, <2>1, TypeOfTake
  <2>3. Head(wire).depth \in Nat /\ Head(wire).sequence \in Nat
    BY <2>1, <2>2, KindFacts
  <2>4. ClientOK' /\ HistoryOK' /\ UNCHANGED <<fetch, fault, timer>>
    BY <1>0, <1>6, <2>3 DEF ReceiveSnapshot, ApplySnapshot, Typed, ClientOK, HistoryOK
  <2> QED
    BY <1>P, <2>2, <2>4 DEF Typed
<1>7. ASSUME InjectFault
      PROVE  Typed'
  <2>1. TakeDelta
    BY <1>7 DEF InjectFault
  <2>2. ClientOK' /\ fetch' \in {NoFetch, Asked} \cup Snapshot
    <3>1. CASE UNCHANGED <<client, fetch>>
      BY <1>0, <1>P, <3>1 DEF Typed, RequestOK
    <3>2. CASE Resync
      BY <1>0, <3>2, TypeOfResync DEF Resync
    <3> QED
      BY <1>7, <3>1, <3>2 DEF InjectFault
  <2>3. RequestOK'
    BY <1>0, <1>7, <2>2 DEF InjectFault, FailureMode, Typed, RequestOK
  <2>4. HistoryOK'
    BY <1>0, <1>7, <2>1, TypeOfDelta DEF InjectFault, Typed, HistoryOK
  <2> QED
    BY <1>0, <2>1, <2>2, <2>3, <2>4, TypeOfDelta DEF Typed
<1>8. ASSUME DelayedResync
      PROVE  Typed'
  <2>1. left \in {NoFetch, Asked} \cup Snapshot
    BY <1>0 DEF Typed, PageOK
  <2>2. ClientOK' /\ fetch' \in {NoFetch, Asked} \cup Snapshot
    BY <1>0, <1>8, <2>1, TypeOfResync DEF DelayedResync
  <2>3. UNCHANGED <<server, channel, page, history>> /\ (connected' => connected)
    BY <1>8 DEF DelayedResync, channel
  <2>4. RequestOK'
    BY <1>0, <1>8, <2>2 DEF DelayedResync, Typed, RequestOK
  <2> QED
    BY <1>P, <2>2, <2>3, <2>4 DEF Typed
<1>9. ASSUME ReceiveDelta
      PROVE  Typed'
  <2>1. TakeDelta
    BY <1>9 DEF ReceiveDelta
  <2>2. /\ Head(wire).depth \in Nat /\ Head(wire).sequence \in Nat
        /\ seen' \in Nat \X Nat /\ latest' \in Nat \X Nat /\ late' \in BOOLEAN
    BY <1>0, <2>1, TypeOfDelta
  <2>3. ClientOK' /\ fetch' \in {NoFetch, Asked} \cup Snapshot
        /\ gap' \in Nat \X Nat /\ overtaken' \in BOOLEAN /\ strayed' \in BOOLEAN
    <3>1. CASE Follows(Head(wire))
      BY <1>0, <1>9, <2>2, <3>1 DEF ReceiveDelta, Typed, ClientOK, RequestOK, HistoryOK
    <3>2. CASE ~Follows(Head(wire))
      <4>1. Resync
        BY <1>9, <3>2 DEF ReceiveDelta
      <4>2. ClientOK' /\ fetch' \in {NoFetch, Asked} \cup Snapshot
        BY <1>0, <4>1, TypeOfResync DEF Resync
      <4>3. /\ gap' = IF resyncing THEN gap ELSE <<Head(wire).depth, Head(wire).sequence>>
            /\ overtaken' = TRUE /\ strayed' = strayed
        BY <1>9, <3>2 DEF ReceiveDelta
      <4> QED
        BY <1>0, <2>2, <4>2, <4>3 DEF Typed, HistoryOK
    <3> QED
      BY <3>1, <3>2
  <2>4. RequestOK'
    BY <1>0, <1>9, <2>3 DEF ReceiveDelta, FailureMode, Typed, RequestOK
  <2>5. HistoryOK'
    BY <2>2, <2>3 DEF HistoryOK
  <2> QED
    BY <1>0, <2>1, <2>3, <2>4, <2>5, TypeOfDelta DEF Typed
<1>10. ASSUME Recover
       PROVE  Typed'
  <2>1. fetch.depth \in Nat /\ fetch.sequence \in Nat
    BY <1>10, SnapshotFacts DEF Recover, Answered
  <2>2. ClientOK'
    BY <1>10, <2>1 DEF Recover, ApplySnapshot, ClientOK
  <2>3. RequestOK'
    BY <1>0, <1>10 DEF Recover, Typed, RequestOK
  <2>4. HistoryOK'
    BY <1>0, <1>10, <2>1 DEF Recover, Typed, HistoryOK, Stray
  <2>5. UNCHANGED <<server, channel, page>> /\ (connected' => connected)
    BY <1>10 DEF Recover, channel
  <2> QED
    BY <1>P, <2>2, <2>3, <2>4, <2>5 DEF Typed
<1>11. ASSUME FailToRecover
       PROVE  Typed'
  <2>1. ClientOK' /\ RequestOK'
    BY <1>0, <1>11 DEF FailToRecover, ResyncingAfterFailure, Typed, ClientOK, RequestOK
  <2>2. UNCHANGED <<server, channel, page, history>> /\ (connected' => connected)
    BY <1>11 DEF FailToRecover, channel
  <2> QED
    BY <1>P, <2>1, <2>2 DEF Typed
<1>12. ASSUME Disconnect
       PROVE  Typed'
  <2>1. ChannelOK' /\ connected' = FALSE
    BY <1>0, <1>12, TypeOfTorn DEF Disconnect
  <2>2. ClientOK'
    BY <1>0, <1>12 DEF Disconnect, Typed, ClientOK
  <2>3. UNCHANGED <<server, fetch, fault, timer, page, history>>
    BY <1>12 DEF Disconnect
  <2> QED
    BY <1>P, <2>1, <2>2, <2>3 DEF Typed
<1>13. ASSUME Connect
       PROVE  Typed'
  <2>1. <<Current>> \in Seq(Message)
    <3>1. Current \in Message
      BY <1>0, SnapshotOfFacts, SnapshotFacts DEF Current, Typed, ServerOK
    <3> QED
      BY <3>1
  <2>2. ChannelOK'
    BY <1>0, <1>13, <2>1 DEF Connect, Greeting, Typed, ChannelOK
  <2>3. PageOK'
    BY <1>0, <1>13 DEF Connect, Typed, PageOK, page
  <2>4. UNCHANGED <<server, client, fetch, fault, timer, history>>
    BY <1>13 DEF Connect
  <2> QED
    BY <1>P, <2>2, <2>3, <2>4 DEF Typed
<1>14. ASSUME NEW mode \in Faults, Arm(mode)
       PROVE  Typed'
  <2>1. RequestOK'
    BY <1>0, <1>14, FaultsAssumption DEF Arm, Typed, RequestOK
  <2>2. UNCHANGED <<server, channel, client, page, history>> /\ (connected' => connected)
    BY <1>14 DEF Arm, channel
  <2> QED
    BY <1>P, <2>1, <2>2 DEF Typed
<1>15. ASSUME Dispose
       PROVE  ClientOK' /\ ChannelOK' /\ connected' = FALSE /\ fault' = fault
  BY <1>0, <1>15, TypeOfTorn DEF Dispose, Typed, ClientOK
<1>16. ASSUME Dispose, UNCHANGED <<server, fetch, timer, left, history>>,
              backend' \in {"CHECKING", "CONNECTED", "TIMEOUT"}
       PROVE  Typed'
  <2>1. ClientOK' /\ ChannelOK' /\ connected' = FALSE /\ fault' = fault
    BY <1>15, <1>16
  <2>2. PageOK'
    BY <1>0, <1>16, <2>1 DEF Typed, PageOK
  <2> QED
    BY <1>P, <1>16, <2>1, <2>2 DEF Typed
<1>17. ASSUME NEW result \in {"CHECKING", "TIMEOUT"}, HealthFails(result)
       PROVE  Typed'
  BY <1>16, <1>17 DEF HealthFails
<1>18. ASSUME HealthAnswers
       PROVE  Typed'
  BY <1>16, <1>18 DEF HealthAnswers
<1>19. ASSUME RetryBackend
       PROVE  Typed'
  BY <1>16, <1>19 DEF RetryBackend
<1>20. ASSUME NEW number \in OtherNumbers, Switch(number)
       PROVE  Typed'
  <2>1. number \in Nat /\ Current \in Snapshot
    BY <1>0, OtherAssumption, SnapshotOfFacts DEF Current, Typed, ServerOK
  <2>2. ClientOK' /\ ChannelOK' /\ connected' = FALSE /\ fault' = fault
    BY <1>15, <1>20 DEF Switch
  <2>3. ServerOK'
    BY <1>0, <1>20, <2>1 DEF Switch, Typed, ServerOK
  <2>4. PageOK'
    BY <1>0, <1>20, <2>1, <2>2 DEF Switch, Typed, PageOK
  <2>5. RequestOK'
    BY <1>0, <1>20, <2>1, <2>2 DEF Switch, Typed, RequestOK
  <2>6. UNCHANGED history
    BY <1>20 DEF Switch
  <2> QED
    BY <1>P, <2>2, <2>3, <2>4, <2>5, <2>6 DEF Typed
<1>21. ASSUME UNCHANGED vars
       PROVE  Typed'
  <2>1. UNCHANGED <<server, channel, client, fetch, fault, timer, page, history>> /\ (connected' => connected)
    BY <1>21 DEF vars, channel
  <2>2. /\ UNCHANGED server /\ UNCHANGED channel /\ UNCHANGED client /\ UNCHANGED page
        /\ UNCHANGED <<fetch, fault, timer>> /\ UNCHANGED history
    BY <2>1
  <2> QED
    BY <1>P, <2>1, <2>2 DEF Typed
<1>22. ASSUME Next
       PROVE  Typed'
  BY <1>22, <1>1, <1>2, <1>3, <1>4, <1>5, <1>6, <1>7, <1>8, <1>9, <1>10, <1>11, <1>12, <1>13,
     <1>14, <1>17, <1>18, <1>19, <1>20 DEF Next
<1>23. Typed'
  BY <1>21, <1>22
<1> QED
  BY <1>23 DEF Typed, TypeOK, ServerOK, ChannelOK, PageOK, ClientOK, RequestOK, HistoryOK

(* The first state has the types.                                          *)
LEMMA InitTypes == Init => TypeOK
<1>1. 2 * Seeds \in Nat /\ << >> \in Seq(Message) /\ Len(<< >>) <= Capacity
  BY SeedsAssumption, CapacityAssumption
<1>2. ASSUME Init
      PROVE  Typed
  <2>1. ServerOK /\ ChannelOK
    BY <1>1, <1>2 DEF Init, ServerOK, ChannelOK
  <2>2. PageOK /\ ClientOK /\ RequestOK /\ HistoryOK
    BY <1>2 DEF Init, PageOK, ClientOK, RequestOK, HistoryOK, FailureMode
  <2> QED
    BY <2>1, <2>2 DEF Typed
<1> QED
  BY <1>2, TypeParts

(* Every variable keeps its type, and the queue its capacity.              *)
THEOREM MarketDataTypes == Spec => []TypeOK
<1>1. Init => TypeOK
  BY InitTypes
<1>2. TypeOK /\ [Next]_vars => TypeOK'
  BY TypeNext
<1> QED
  BY <1>1, <1>2, PTL DEF Spec

-----------------------------------------------------------------------------
(* The inductive invariant.  A history that every depth in the system agrees
   with, num, gives the number of each edition; it grows within a book, and is
   never 0 but for edition 0, the one no book has.  So a number tells the
   editions of one book apart, which is what a client relies on.           *)
Pair == <<market, lastDepthSequence>>

Counting ==
  /\ 0 < last_depth_sequence /\ last_depth_sequence <= sequence
  /\ 1 <= depth
  /\ \A birth \in births : 1 <= birth /\ birth < depth

Offline == ~connected => queue = << >> /\ wire = << >>

Numbered(num) ==
  /\ num \in [Nat -> Nat]
  /\ num[0] = 0 /\ num[depth] = last_depth_sequence
  /\ \A e \in 1 .. depth : num[e] > 0
  /\ \A e, f \in 0 .. depth : e < f /\ SameBook(e, f) => num[e] < num[f]

Known(num, edition, number) == edition \in 0 .. depth /\ number = num[edition]

Pairs(num) ==
  /\ Known(num, market, lastDepthSequence)
  /\ Known(num, seen[1], seen[2])
  /\ Answered => Known(num, fetch.depth, fetch.sequence)
  /\ left # NoFetch => left.depth < depth /\ Known(num, left.depth, left.sequence)

(* What a delta of an edition names as the number before its own.          *)
Before(num, edition) == IF edition - 1 \in births THEN 0 ELSE num[edition - 1]

(* A message of the stream: of the book the user looks at, and a delta that is
   still news to a client whose last depth did not become what it shows.   *)
Fits(num, m) ==
  /\ Known(num, m.depth, m.sequence)
  /\ left # NoFetch => left.depth < m.depth
  /\ IsDelta(m) => /\ 1 <= m.depth /\ m.previous_sequence = Before(num, m.depth)
                   /\ Pair # latest => seen[1] < m.depth

Fitting(num) == {m \in Message : Shown(m) => Fits(num, m)}

Streaming(num) == connected => Settled(seen[1], wire \o queue, depth, Fitting(num))

(* What the client may conclude from what it remembers.                    *)
Judged ==
  /\ Pair # latest => latest = seen
  /\ status = "LIVE" /\ ~overtaken => seen[1] <= market
  /\ Answered /\ ~late /\ ~Stray(fetch) => seen[1] <= fetch.depth
  /\ left # NoFetch /\ ~strayed /\ status = "LIVE" => left.depth < market

Sound(num) ==
  /\ TypeOK /\ Counting /\ Offline /\ Numbered(num)
  /\ Pairs(num) /\ Streaming(num) /\ Judged

IInv == \E num \in [Nat -> Nat] : Sound(num)

(* The set the messages are of may change as long as they are in it.       *)
LEMMA SettledIn ==
  ASSUME NEW f, NEW t, NEW e, NEW G, NEW H, Settled(f, t, e, G),
         \A i \in DOMAIN t : t[i] \in H
  PROVE  Settled(f, t, e, H)
<1>1. t \in Seq(G)
  BY DEF Settled, Chain
<1>2. t \in Seq(H)
  BY <1>1
<1> QED
  BY <1>2 DEF Settled, Chain

(* The websocket moves a message from the queue to the wire: the stream stays
   as it is.                                                               *)
LEMMA StreamSent ==
  ASSUME NEW G, NEW w \in Seq(G), NEW q \in Seq(G), q # << >>
  PROVE  Append(w, Head(q)) \o Tail(q) = w \o q
<1> DEFINE a == Append(w, Head(q))
           r == Tail(q)
<1>1. /\ Head(q) \in G /\ r \in Seq(G) /\ a \in Seq(G)
      /\ Len(q) \in Nat /\ Len(q) >= 1 /\ Len(r) = Len(q) - 1
      /\ Len(w) \in Nat /\ Len(a) = Len(w) + 1
      /\ \A k \in 1 .. Len(r) : r[k] = q[k + 1]
      /\ Head(q) = q[1]
      /\ \A k \in 1 .. Len(w) : a[k] = w[k]
      /\ a[Len(w) + 1] = Head(q)
  OBVIOUS
<1> HIDE DEF a, r
<1>2. /\ a \o r \in Seq(G) /\ Len(a \o r) = Len(a) + Len(r)
      /\ \A k \in 1 .. Len(a) + Len(r) : (a \o r)[k] = IF k <= Len(a) THEN a[k] ELSE r[k - Len(a)]
  BY <1>1, ConcatProperties, Zenon
<1>3. /\ w \o q \in Seq(G) /\ Len(w \o q) = Len(w) + Len(q)
      /\ \A k \in 1 .. Len(w) + Len(q) : (w \o q)[k] = IF k <= Len(w) THEN w[k] ELSE q[k - Len(w)]
  BY ConcatProperties, Zenon
<1> DEFINE left1 == a \o r
           right == w \o q
<1> HIDE DEF left1, right
<1>4. Len(left1) = Len(right)
  BY <1>1, <1>2, <1>3 DEF left1, right
<1>5. ASSUME NEW k \in 1 .. Len(right)
      PROVE  left1[k] = right[k]
  <2>0. k \in 1 .. Len(w) + Len(q) /\ k \in 1 .. Len(a) + Len(r) /\ k \in Nat
    BY <1>1, <1>3 DEF right
  <2>1. CASE k <= Len(w)
    <3>1. k \in 1 .. Len(w) /\ k <= Len(a)
      BY <1>1, <2>0, <2>1
    <3> QED
      BY <1>1, <1>2, <1>3, <2>0, <2>1, <3>1 DEF left1, right
  <2>2. CASE k = Len(w) + 1
    <3>1. k <= Len(a) /\ ~(k <= Len(w)) /\ k - Len(w) = 1
      BY <1>1, <2>0, <2>2
    <3> QED
      BY <1>1, <1>2, <1>3, <2>0, <2>2, <3>1 DEF left1, right
  <2>3. CASE k > Len(w) + 1
    <3>1. /\ ~(k <= Len(a)) /\ ~(k <= Len(w)) /\ k - Len(a) \in 1 .. Len(r)
          /\ (k - Len(a)) + 1 = k - Len(w)
      BY <1>1, <2>0, <2>3
    <3> QED
      BY <1>1, <1>2, <1>3, <2>0, <3>1 DEF left1, right
  <2> QED
    BY <1>1, <2>0, <2>1, <2>2, <2>3
<1>6. left1 \in Seq(G) /\ right \in Seq(G)
  BY <1>2, <1>3 DEF left1, right
<1>7. left1 = right
  BY <1>4, <1>5, <1>6, SeqEqual
<1> QED
  BY <1>7 DEF a, r, left1, right

(* The client takes the first message of the wire: it was the first of the
   stream.                                                                 *)
LEMMA StreamTaken ==
  ASSUME NEW G, NEW w \in Seq(G), NEW q \in Seq(G), w # << >>
  PROVE  /\ w \o q # << >> /\ w \o q \in Seq(G)
         /\ Head(w \o q) = Head(w)
         /\ Tail(w \o q) = Tail(w) \o q
<1> DEFINE c == Tail(w)
           t == w \o q
<1>1. /\ c \in Seq(G) /\ Len(w) \in Nat /\ Len(w) >= 1 /\ Len(c) = Len(w) - 1
      /\ \A k \in 1 .. Len(c) : c[k] = w[k + 1]
      /\ Head(w) = w[1] /\ Len(q) \in Nat
  OBVIOUS
<1>2. /\ t \in Seq(G) /\ Len(t) = Len(w) + Len(q)
      /\ \A k \in 1 .. Len(w) + Len(q) : t[k] = IF k <= Len(w) THEN w[k] ELSE q[k - Len(w)]
  BY ConcatProperties, Zenon
<1> HIDE DEF c, t
<1>3. /\ c \o q \in Seq(G) /\ Len(c \o q) = Len(c) + Len(q)
      /\ \A k \in 1 .. Len(c) + Len(q) : (c \o q)[k] = IF k <= Len(c) THEN c[k] ELSE q[k - Len(c)]
  BY <1>1, ConcatProperties, Zenon
<1>4. /\ t # << >> /\ Head(t) = t[1] /\ Tail(t) \in Seq(G) /\ Len(Tail(t)) = Len(t) - 1
      /\ \A k \in 1 .. Len(t) - 1 : Tail(t)[k] = t[k + 1]
  <2>1. Len(t) \in Nat /\ Len(t) >= 1
    BY <1>1, <1>2
  <2>2. t \in Seq(G) /\ t # << >>
    BY <1>2, <2>1
  <2> QED
    BY <2>1, <2>2
<1>5. Head(t) = Head(w)
  <2>1. 1 \in 1 .. Len(w) + Len(q) /\ 1 <= Len(w)
    BY <1>1
  <2> QED
    BY <1>1, <1>2, <1>4, <2>1
<1> DEFINE u == Tail(t)
           v == c \o q
<1>6. u \in Seq(G) /\ v \in Seq(G) /\ Len(u) = Len(v)
  BY <1>1, <1>2, <1>3, <1>4
<1>7. ASSUME NEW k \in 1 .. Len(v)
      PROVE  u[k] = v[k]
  <2>0. /\ k \in Nat /\ k \in 1 .. Len(t) - 1 /\ k \in 1 .. Len(c) + Len(q)
        /\ k + 1 \in 1 .. Len(w) + Len(q)
    BY <1>1, <1>2, <1>3
  <2>1. u[k] = t[k + 1]
    BY <1>4, <2>0
  <2>2. CASE k <= Len(c)
    <3>1. k \in 1 .. Len(c) /\ k + 1 <= Len(w)
      BY <1>1, <2>0, <2>2
    <3> QED
      BY <1>1, <1>2, <1>3, <2>0, <2>1, <2>2, <3>1
  <2>3. CASE ~(k <= Len(c))
    <3>1. ~(k + 1 <= Len(w)) /\ (k + 1) - Len(w) = k - Len(c)
      BY <1>1, <2>0, <2>3
    <3> QED
      BY <1>2, <1>3, <2>0, <2>1, <2>3, <3>1
  <2> QED
    BY <2>2, <2>3
<1> HIDE DEF u, v
<1>8. u = v
  BY <1>6, <1>7, SeqEqual
<1> QED
  BY <1>2, <1>4, <1>5, <1>8 DEF c, t, u, v

(* Once its head is handled, the rest of the stream is in order for a client
   that has come to the edition of the head.                               *)
LEMMA HeadTaken ==
  ASSUME NEW f, NEW t, NEW e, NEW G \in SUBSET Message, Settled(f, t, e, G), t # << >>,
         NEW g, g = IF Shown(Head(t)) THEN Head(t).depth ELSE f
  PROVE  /\ Settled(g, Tail(t), e, G)
         /\ Head(t) \in G
         /\ Shown(Head(t)) => f <= Head(t).depth /\ Head(t).depth <= e
         /\ IsDelta(Head(t)) => f >= Head(t).depth - 1
         /\ IsDelta(Head(t)) =>
              \A i \in DOMAIN Tail(t) : Shown(Tail(t)[i]) => Head(t).depth < Tail(t)[i].depth
<1> DEFINE u == Tail(t)
<1>1. t \in Seq(G) /\ f \in Nat /\ e \in Nat /\ f <= e
      /\ Ordered(t) /\ Unbroken(f, t) /\ Between(f, t, e) /\ Reached(f, t, Len(t) + 1, e)
  BY DEF Settled, Chain
<1>2. /\ Len(t) \in Nat /\ Len(t) >= 1 /\ DOMAIN t = 1 .. Len(t) /\ \A i \in 1 .. Len(t) : t[i] \in G
      /\ u \in Seq(G) /\ Len(u) = Len(t) - 1 /\ DOMAIN u = 1 .. Len(t) - 1
      /\ \A i \in 1 .. Len(t) - 1 : u[i] = t[i + 1]
      /\ Head(t) = t[1]
  BY <1>1
<1> HIDE DEF u
<1>3. \A i \in DOMAIN t : Shown(t[i]) => t[i].depth \in Nat
  BY <1>2, MessageFacts
<1>4. 1 \in DOMAIN t /\ \A i \in DOMAIN u : i \in Nat /\ i + 1 \in DOMAIN t /\ 1 < i + 1 /\ u[i] = t[i + 1]
  BY <1>2
<1>5. \A j \in DOMAIN t : j = 1 \/ (j - 1 \in DOMAIN u /\ u[j - 1] = t[j])
  <2> TAKE j \in DOMAIN t
  <2>1. j = 1 \/ (j - 1 \in 1 .. Len(t) - 1 /\ (j - 1) + 1 = j)
    BY <1>2
  <2> QED
    BY <1>2, <2>1
<1>6. Shown(Head(t)) => f <= Head(t).depth /\ Head(t).depth <= e
  BY <1>1, <1>2, <1>4 DEF Between
<1>7. g \in Nat /\ g <= e /\ f <= g
  BY <1>1, <1>2, <1>3, <1>4, <1>6
<1>8. Ordered(u)
  <2>1. ASSUME NEW i \in DOMAIN u, NEW j \in DOMAIN u, j < i, Shown(u[i]), Shown(u[j])
        PROVE  u[j].depth <= u[i].depth /\ (IsDelta(u[j]) => u[j].depth < u[i].depth)
    <3>1. i + 1 \in DOMAIN t /\ j + 1 \in DOMAIN t /\ j + 1 < i + 1
      BY <1>4, <2>1
    <3>2. u[i] = t[i + 1] /\ u[j] = t[j + 1]
      BY <1>4
    <3> QED
      BY <1>1, <2>1, <3>1, <3>2 DEF Ordered
  <2> QED
    BY <2>1 DEF Ordered
<1>9. Between(g, u, e)
  <2>1. ASSUME NEW i \in DOMAIN u, Shown(u[i])
        PROVE  g <= u[i].depth /\ u[i].depth <= e
    <3>1. i + 1 \in DOMAIN t /\ 1 < i + 1 /\ u[i] = t[i + 1]
      BY <1>4
    <3>2. f <= t[i + 1].depth /\ t[i + 1].depth <= e
      BY <1>1, <2>1, <3>1 DEF Between
    <3>3. Shown(t[1]) => t[1].depth <= t[i + 1].depth
      BY <1>1, <1>4, <2>1, <3>1 DEF Ordered
    <3> QED
      BY <1>2, <3>1, <3>2, <3>3
  <2> QED
    BY <2>1 DEF Between
<1>10. ASSUME NEW i, NEW j \in Nat, NEW x \in Nat, Reached(f, t, i, x), i = j + 1
       PROVE  Reached(g, u, j, x)
  <2>1. CASE f >= x
    BY <1>1, <1>7, <2>1 DEF Reached
  <2>2. CASE \E k \in DOMAIN t : k < i /\ Shown(t[k]) /\ t[k].depth >= x
    <3>1. PICK k \in DOMAIN t : k < i /\ Shown(t[k]) /\ t[k].depth >= x
      BY <2>2
    <3>2. CASE k = 1
      BY <1>2, <3>1, <3>2 DEF Reached
    <3>3. CASE k - 1 \in DOMAIN u /\ u[k - 1] = t[k]
      <4>1. k - 1 < j
        BY <1>2, <1>10, <3>1
      <4> QED
        BY <3>1, <3>3, <4>1 DEF Reached
    <3> QED
      BY <1>5, <3>2, <3>3
  <2> QED
    BY <1>10, <2>1, <2>2 DEF Reached
<1>11. Unbroken(g, u)
  <2>1. ASSUME NEW i \in DOMAIN u, IsDelta(u[i])
        PROVE  Reached(g, u, i, u[i].depth - 1)
    <3>1. i \in Nat /\ i + 1 \in DOMAIN t /\ u[i] = t[i + 1]
      BY <1>4
    <3>2. Reached(f, t, i + 1, t[i + 1].depth - 1)
      BY <1>1, <2>1, <3>1 DEF Unbroken
    <3>3. u[i].depth \in Nat
      BY <1>3, <2>1, <3>1 DEF IsDelta, Shown
    <3>4. CASE u[i].depth - 1 \in Nat
      BY <1>10, <3>1, <3>2, <3>4
    <3>5. CASE u[i].depth = 0
      BY <1>7, <3>5 DEF Reached
    <3> QED
      BY <3>3, <3>4, <3>5
  <2> QED
    BY <2>1 DEF Unbroken
<1>12. Reached(g, u, Len(u) + 1, e)
  <2>1. Len(t) + 1 = (Len(u) + 1) + 1 /\ Len(u) + 1 \in Nat
    BY <1>2
  <2> QED
    BY <1>1, <1>10, <2>1
<1>13. Settled(g, u, e, G)
  BY <1>1, <1>2, <1>7, <1>8, <1>9, <1>11, <1>12 DEF Settled, Chain
<1>14. IsDelta(Head(t)) => f >= Head(t).depth - 1
  <2>1. ASSUME IsDelta(t[1])
        PROVE  f >= t[1].depth - 1
    <3>1. Reached(f, t, 1, t[1].depth - 1)
      BY <1>1, <1>4, <2>1 DEF Unbroken
    <3>2. ~ \E j \in DOMAIN t : j < 1
      BY <1>2
    <3> QED
      BY <3>1, <3>2 DEF Reached
  <2> QED
    BY <1>2, <2>1
<1>15. IsDelta(Head(t)) => \A i \in DOMAIN u : Shown(u[i]) => Head(t).depth < u[i].depth
  <2>1. IsDelta(t[1]) => Shown(t[1])
    BY DEF IsDelta, Shown
  <2> QED
    BY <1>1, <1>2, <1>4, <2>1 DEF Ordered
<1> QED
  BY <1>2, <1>4, <1>6, <1>13, <1>14, <1>15 DEF u

-----------------------------------------------------------------------------
(* The steps.                                                              *)

(* A step that changes neither the stream nor the book leaves the history it
   agrees with as it is.                                                   *)
LEMMA StreamKept ==
  ASSUME NEW num \in [Nat -> Nat], Sound(num), TypeOK',
         UNCHANGED <<depth, births, last_depth_sequence, left, seen, connected>>,
         sequence' >= sequence,
         wire' \o queue' = wire \o queue,
         ~connected => queue' = << >> /\ wire' = << >>,
         Pair' # latest' => Pair # latest,
         Pairs(num)', Judged'
  PROVE  Sound(num)'
<1>1. Counting' /\ Numbered(num)' /\ Offline'
  <2>1. Counting'
    <3>1. sequence' \in Nat /\ sequence \in Nat /\ last_depth_sequence \in Nat
      BY DEF Sound, TypeOK
    <3> QED
      BY <3>1 DEF Sound, Counting
  <2>2. Numbered(num)'
    BY DEF Sound, Numbered, SameBook
  <2>3. Offline'
    BY DEF Offline
  <2> QED
    BY <2>1, <2>2, <2>3
<1>2. Streaming(num)'
  <2>1. CASE connected
    <3>1. \A m \in Fitting(num) : m \in Fitting(num)'
      BY DEF Fitting, Fits, Known, Before
    <3>2. Settled(seen[1], wire \o queue, depth, Fitting(num))
      BY <2>1 DEF Sound, Streaming
    <3>3. \A i \in DOMAIN (wire \o queue) : (wire \o queue)[i] \in Fitting(num)
      <4>1. wire \o queue \in Seq(Fitting(num))
        BY <3>2 DEF Settled, Chain
      <4> DEFINE t == wire \o queue
                 G == Fitting(num)
      <4>2. t \in Seq(G)
        BY <4>1
      <4> HIDE DEF t, G
      <4>3. \A i \in DOMAIN t : t[i] \in G
        BY <4>2
      <4> QED
        BY <4>3 DEF t, G
    <3>4. Settled(seen[1], wire \o queue, depth, Fitting(num)')
      BY <3>1, <3>2, <3>3, SettledIn
    <3> QED
      BY <3>4 DEF Streaming
  <2>2. CASE ~connected
    BY <2>2 DEF Streaming
  <2> QED
    BY <2>1, <2>2
<1> QED
  BY <1>1, <1>2 DEF Sound

(* A connection that ends takes the stream with it.                        *)
LEMMA TornIsSound ==
  ASSUME NEW num \in [Nat -> Nat], Sound(num), TypeOK', Torn,
         UNCHANGED <<server, market, lastDepthSequence, fetch, left, history>>,
         status' # "LIVE"
  PROVE  Sound(num)'
<1> USE DEF server, history
<1>1. Counting' /\ Numbered(num)' /\ Offline'
  BY DEF Sound, Counting, Numbered, Offline, SameBook, TypeOK, Torn
<1>2. Pairs(num)'
  BY DEF Sound, Pairs, Known, Answered
<1>3. Streaming(num)'
  BY DEF Streaming, Torn
<1>4. Judged'
  BY DEF Sound, Judged, Pair, Answered, Stray
<1> QED
  BY <1>1, <1>2, <1>3, <1>4 DEF Sound

(* A step that leaves the client alone keeps what it may conclude.         *)
LEMMA ClientKept ==
  ASSUME NEW num \in [Nat -> Nat], Sound(num),
         UNCHANGED <<depth, market, lastDepthSequence, status, fetch, left, history>>
  PROVE  Pairs(num)' /\ Judged' /\ (Pair' # latest' => Pair # latest)
<1> USE DEF history
<1>1. Pairs(num)'
  BY DEF Sound, Pairs, Known, Answered
<1>2. Judged'
  BY DEF Sound, Judged, Pair, Answered, Stray
<1> QED
  BY <1>1, <1>2 DEF Pair

(* The websocket sends a message, a fault is armed, or nothing happens.    *)
LEMMA PassiveSteps ==
  ASSUME NEW num \in [Nat -> Nat], Sound(num), TypeOK',
         Send \/ (\E mode \in Faults : Arm(mode)) \/ UNCHANGED vars
  PROVE  Sound(num)'
<1> USE DEF vars, server, channel, client, page, history
<1>1. /\ UNCHANGED <<depth, births, last_depth_sequence, left, seen, connected>>
      /\ UNCHANGED <<market, lastDepthSequence, status, fetch, history, sequence>>
  BY DEF Send, Arm
<1>2. sequence' >= sequence
  BY <1>1 DEF Sound, TypeOK
<1>3. /\ wire' \o queue' = wire \o queue
      /\ ~connected => queue' = << >> /\ wire' = << >>
  <2>1. CASE Send
    <3>1. queue \in Seq(Message) /\ wire \in Seq(Message) /\ queue # << >>
      BY <2>1 DEF Sound, TypeOK, Send
    <3> HIDE DEF Message
    <3>2. Append(wire, Head(queue)) \o Tail(queue) = wire \o queue
      BY <3>1, StreamSent
    <3> QED
      BY <2>1, <3>2 DEF Send
  <2>2. CASE ~Send
    <3>1. wire' = wire /\ queue' = queue
      BY <2>2 DEF Arm
    <3> QED
      BY <3>1 DEF Sound, Offline
  <2> QED
    BY <2>1, <2>2
<1>4. Pairs(num)' /\ Judged' /\ (Pair' # latest' => Pair # latest)
  BY <1>1, ClientKept
<1> HIDE DEF vars, server, channel, client, page, history
<1> QED
  BY <1>1, <1>2, <1>3, <1>4, StreamKept

(* A request asked for again, or the end of one.                           *)
LEMMA RequestSteps ==
  ASSUME NEW num \in [Nat -> Nat], Sound(num), TypeOK',
         Answer \/ DelayedResync \/ FailToRecover
  PROVE  Sound(num)'
<1> USE DEF server, channel, client, page, history
<1>1. /\ UNCHANGED <<depth, births, last_depth_sequence, sequence, left, seen, connected, wire, queue>>
      /\ UNCHANGED <<market, lastDepthSequence, latest, overtaken, strayed>>
      /\ status' = status \/ status' = "RESYNCING"
  BY DEF Answer, DelayedResync, FailToRecover, ResyncFrom
<1>2. \/ Answer /\ fetch' = Current /\ late' = FALSE
      \/ UNCHANGED <<fetch, late>>
      \/ fetch' \in {NoFetch, Asked} /\ late' = late
      \/ fetch' = left /\ left # NoFetch /\ late' = late
  BY DEF Answer, DelayedResync, FailToRecover, ResyncFrom
<1>3. /\ depth \in Nat /\ last_depth_sequence \in Nat
      /\ left \in {NoFetch} \cup Snapshot
      /\ num[depth] = last_depth_sequence
      /\ Pairs(num) /\ Judged
  BY DEF Sound, TypeOK, Numbered
<1>4. /\ Current \in Snapshot /\ Current.depth = depth
      /\ Current.sequence = last_depth_sequence
  BY <1>3, SnapshotOfFacts DEF Current
<1>5. seen[1] <= depth
  BY <1>3 DEF Pairs, Known
<1>6. Answered' => \/ fetch' = fetch /\ Answered /\ late' = late
                   \/ fetch'.depth = depth /\ fetch'.sequence = num[depth]
                   \/ fetch' = left /\ left # NoFetch /\ left \in Snapshot
  BY <1>2, <1>3, <1>4, RequestFacts DEF Answered
<1>7. Pairs(num)'
  <2>1. Answered' => Known(num, fetch.depth, fetch.sequence)'
    BY <1>1, <1>3, <1>6 DEF Pairs, Known
  <2> QED
    BY <1>1, <1>3, <2>1 DEF Pairs, Known
<1>8. Judged'
  <2>1. Answered' /\ ~late' /\ ~Stray(fetch)' => (seen[1] <= fetch.depth)'
    <3>1. CASE fetch' = fetch /\ Answered /\ late' = late
      BY <1>1, <1>3, <3>1 DEF Judged, Stray
    <3>2. CASE fetch'.depth = depth /\ fetch'.sequence = num[depth]
      BY <1>1, <1>5, <3>2
    <3>3. CASE fetch' = left /\ left # NoFetch /\ left \in Snapshot
      <4>1. left.depth <= left.depth
        BY <3>3, SnapshotFacts
      <4>2. Stray(fetch)'
        BY <1>1, <3>3, <4>1 DEF Stray
      <4> QED
        BY <4>2
    <3> QED
      BY <1>6, <3>1, <3>2, <3>3
  <2> QED
    BY <1>1, <1>3, <2>1 DEF Judged, Pair
<1>9. /\ sequence' >= sequence /\ wire' \o queue' = wire \o queue
      /\ ~connected => queue' = << >> /\ wire' = << >>
  BY <1>1 DEF Sound, TypeOK, Offline
<1>10. Pair' # latest' => Pair # latest
  BY <1>1 DEF Pair
<1> QED
  BY <1>1, <1>7, <1>8, <1>9, <1>10, StreamKept

(* The answer of a request becomes what the client shows.                  *)
LEMMA RecoverStep ==
  ASSUME NEW num \in [Nat -> Nat], Sound(num), TypeOK', Recover
  PROVE  Sound(num)'
<1> USE DEF server, channel, page, history
<1>1. /\ UNCHANGED <<depth, births, last_depth_sequence, sequence, left, seen, connected, wire, queue, late>>
      /\ market' = fetch.depth /\ lastDepthSequence' = fetch.sequence
      /\ fetch' = NoFetch /\ Answered
      /\ strayed' = Stray(fetch) /\ overtaken' = (late \/ strayed')
      /\ latest' = <<fetch.depth, fetch.sequence>>
  BY DEF Recover, ApplySnapshot
<1>2. Pairs(num) /\ Judged /\ left \in {NoFetch} \cup Snapshot /\ seen[1] \in Nat
  BY DEF Sound, TypeOK
<1>3. ~Answered'
  BY <1>1, RequestFacts DEF Answered
<1>4. Pairs(num)'
  BY <1>1, <1>2, <1>3 DEF Pairs, Known
<1>5. Pair' = latest'
  BY <1>1 DEF Pair
<1>6. fetch.depth \in Nat
  BY <1>1, SnapshotFacts DEF Answered
<1>7. Judged'
  <2>1. ~overtaken' => seen[1] <= fetch.depth
    BY <1>1, <1>2 DEF Judged
  <2>2. left # NoFetch /\ ~strayed' => left.depth < fetch.depth
    <3>1. left \in Snapshot => left.depth \in Nat
      BY SnapshotFacts
    <3>2. left # NoFetch /\ ~strayed' => ~(fetch.depth <= left.depth)
      BY <1>1 DEF Stray
    <3> QED
      BY <1>2, <1>6, <3>1, <3>2
  <2> QED
    BY <1>1, <1>3, <1>5, <2>1, <2>2 DEF Judged
<1>8. /\ sequence' >= sequence /\ wire' \o queue' = wire \o queue
      /\ ~connected => queue' = << >> /\ wire' = << >>
  BY <1>1 DEF Sound, TypeOK, Offline
<1> HIDE DEF server, channel, page, history
<1> QED
  BY <1>1, <1>4, <1>5, <1>7, <1>8, StreamKept

(* The edition the client has come to with the message it takes, and the
   stream behind it.                                                       *)
Came == IF Shown(Head(wire)) THEN Head(wire).depth ELSE seen[1]

Rest == Tail(wire \o queue)

(* What the client takes from the wire.                                    *)
LEMMA TakeFacts ==
  ASSUME NEW num \in [Nat -> Nat], Sound(num), Take
  PROVE  /\ wire' \o queue' = Rest
         /\ Head(wire) \in Fitting(num)
         /\ Shown(Head(wire)) => seen[1] <= Head(wire).depth /\ Head(wire).depth <= depth
         /\ IsDelta(Head(wire)) => seen[1] >= Head(wire).depth - 1
         /\ IsDelta(Head(wire)) =>
              \A i \in DOMAIN Rest : Shown(Rest[i]) => Head(wire).depth < Rest[i].depth
         /\ Settled(Came, Rest, depth, Fitting(num))
<1> DEFINE t == wire \o queue
           g == Came
           G == Fitting(num)
<1>1. /\ connected /\ wire # << >> /\ wire' = Tail(wire) /\ queue' = queue
      /\ wire \in Seq(Message) /\ queue \in Seq(Message)
  BY DEF Take, Sound, TypeOK
<1>2. t # << >> /\ Head(t) = Head(wire) /\ Tail(t) = Tail(wire) \o queue
  <2> HIDE DEF Message
  <2> QED
    BY <1>1, StreamTaken
<1>3. G \in SUBSET Message
  BY DEF Fitting
<1>4. Settled(seen[1], t, depth, G)
  BY <1>1 DEF Sound, Streaming
<1>5. g = IF Shown(Head(t)) THEN Head(t).depth ELSE seen[1]
  BY <1>2 DEF Came
<1> HIDE DEF t, G, g
<1>6. /\ Settled(g, Tail(t), depth, G)
      /\ Head(t) \in G
      /\ Shown(Head(t)) => seen[1] <= Head(t).depth /\ Head(t).depth <= depth
      /\ IsDelta(Head(t)) => seen[1] >= Head(t).depth - 1
      /\ IsDelta(Head(t)) =>
           \A i \in DOMAIN Tail(t) : Shown(Tail(t)[i]) => Head(t).depth < Tail(t)[i].depth
  BY <1>2, <1>3, <1>4, <1>5, HeadTaken
<1>7. Rest = Tail(t)
  BY DEF t, Rest
<1> QED
  BY <1>1, <1>2, <1>6, <1>7 DEF G, g

(* The rest of the stream is in order for what the client remembers now.   *)
LEMMA TakeStream ==
  ASSUME NEW num \in [Nat -> Nat], Sound(num), TypeOK', Take,
         seen'[1] = IF Shown(Head(wire)) THEN Head(wire).depth ELSE seen[1],
         IsDelta(Head(wire)) \/ (Pair' # latest' => Pair # latest /\ seen' = seen),
         Pairs(num)', Judged'
  PROVE  Sound(num)'
<1> DEFINE m == Head(wire)
           u == Rest
           G == Fitting(num)
<1>1. UNCHANGED <<depth, sequence, last_depth_sequence, births, connected, left>> /\ connected
  BY DEF Take, server, page
<1>2. Counting' /\ Numbered(num)' /\ Offline'
  BY <1>1 DEF Sound, Counting, Numbered, Offline, SameBook
<1>3. /\ wire' \o queue' = u
      /\ IsDelta(m) => \A i \in DOMAIN u : Shown(u[i]) => m.depth < u[i].depth
      /\ Settled(seen'[1], u, depth, G)
  <2>1. Came = seen'[1]
    BY DEF Came
  <2> QED
    BY <2>1, TakeFacts
<1> DEFINE Same == Pair' # latest' => Pair # latest /\ seen' = seen
<1>4. /\ \A i \in DOMAIN u : u[i] \in G
      /\ IsDelta(m) \/ Same
      /\ IsDelta(m) => seen'[1] = m.depth
  <2>1. u \in Seq(G)
    BY <1>3 DEF Settled, Chain
  <2>2. IsDelta(m) => Shown(m)
    BY DEF IsDelta, Shown
  <2>3. IsDelta(m) \/ Same
    OBVIOUS
  <2>4. IsDelta(m) => seen'[1] = m.depth
    BY <2>2
  <2> HIDE DEF u, G, m, Same
  <2> QED
    BY <2>1, <2>3, <2>4
<1> HIDE DEF u, m, Same
<1>5. ASSUME NEW x \in Fitting(num), IsDelta(m) /\ Shown(x) => m.depth < x.depth
      PROVE  x \in Fitting(num)'
  <2>1. x \in Message /\ (Shown(x) => Fits(num, x))
    BY DEF Fitting
  <2>2. ASSUME Shown(x)
        PROVE  Fits(num, x)'
    <3>1. /\ Known(num, x.depth, x.sequence)
          /\ left # NoFetch => left.depth < x.depth
          /\ IsDelta(x) => /\ 1 <= x.depth /\ x.previous_sequence = Before(num, x.depth)
                           /\ Pair # latest => seen[1] < x.depth
      BY <2>1, <2>2 DEF Fits
    <3>2. ASSUME Pair' # latest', IsDelta(x)
          PROVE  seen'[1] < x.depth
      <4>1. CASE IsDelta(m)
        BY <1>4, <1>5, <2>2, <4>1
      <4>2. CASE Same
        BY <3>1, <3>2, <4>2 DEF Same
      <4> QED
        BY <1>4, <4>1, <4>2
    <3>3. Known(num, x.depth, x.sequence)'
      BY <1>1, <3>1 DEF Known
    <3>4. Before(num, x.depth)' = Before(num, x.depth)
      BY <1>1 DEF Before
    <3> QED
      BY <1>1, <3>1, <3>2, <3>3, <3>4 DEF Fits
  <2> QED
    BY <2>1, <2>2 DEF Fitting
<1>7. \A i \in DOMAIN u : u[i] \in Fitting(num)'
  <2> TAKE i \in DOMAIN u
  <2>1. u[i] \in Fitting(num) /\ (IsDelta(m) /\ Shown(u[i]) => m.depth < u[i].depth)
    BY <1>3, <1>4
  <2> QED
    BY <1>5, <2>1
<1>6. Streaming(num)'
  <2>1. Settled(seen'[1], u, depth, Fitting(num)')
    BY <1>3, <1>7, SettledIn
  <2> QED
    BY <1>1, <1>3, <2>1 DEF Streaming
<1> QED
  BY <1>2, <1>6 DEF Sound

(* A trade shows nothing of the book.                                      *)
LEMMA ReceiveTradeStep ==
  ASSUME NEW num \in [Nat -> Nat], Sound(num), TypeOK', ReceiveTrade
  PROVE  Sound(num)'
<1>1. Take /\ ~Shown(Head(wire))
  BY DEF ReceiveTrade, Shown
<1>2. UNCHANGED <<depth, market, lastDepthSequence, status, fetch, left, history>>
  BY <1>1 DEF ReceiveTrade, Take, client, server, page
<1>3. Pairs(num)' /\ Judged' /\ (Pair' # latest' => Pair # latest)
  BY <1>2, ClientKept
<1>4. seen' = seen
  BY <1>2 DEF history
<1> QED
  BY <1>1, <1>3, <1>4, TakeStream

(* What the client knows of the depth it takes.                            *)
LEMMA TakenFits ==
  ASSUME NEW num \in [Nat -> Nat], Sound(num), Take, Shown(Head(wire))
  PROVE  /\ Head(wire) \in Message /\ Fits(num, Head(wire))
         /\ Known(num, Head(wire).depth, Head(wire).sequence)
         /\ Head(wire).depth \in Nat
         /\ seen[1] <= Head(wire).depth
         /\ left # NoFetch => left.depth < Head(wire).depth
         /\ IsDelta(Head(wire)) => seen[1] >= Head(wire).depth - 1
<1>1. /\ Head(wire) \in Fitting(num)
      /\ seen[1] <= Head(wire).depth
      /\ IsDelta(Head(wire)) => seen[1] >= Head(wire).depth - 1
  BY TakeFacts
<1>2. Head(wire) \in Message /\ Fits(num, Head(wire))
  BY <1>1 DEF Fitting
<1> QED
  BY <1>1, <1>2, MessageFacts DEF Fits

(* A snapshot makes the client know all that the websocket showed it.      *)
LEMMA ReceiveSnapshotStep ==
  ASSUME NEW num \in [Nat -> Nat], Sound(num), TypeOK', ReceiveSnapshot
  PROVE  Sound(num)'
<1> DEFINE m == Head(wire)
<1>1. Take /\ Shown(m)
  BY DEF ReceiveSnapshot, Shown
<1>2. /\ UNCHANGED <<depth, left, fetch>>
      /\ market' = m.depth /\ lastDepthSequence' = m.sequence
      /\ seen' = <<m.depth, m.sequence>> /\ latest' = seen' /\ late' = TRUE
  BY <1>1 DEF ReceiveSnapshot, ApplySnapshot, Take, server, page
<1>3. /\ Known(num, m.depth, m.sequence) /\ m.depth \in Nat
      /\ left # NoFetch => left.depth < m.depth
  BY <1>1, TakenFits
<1> HIDE DEF m
<1>4. Pairs(num)'
  BY <1>2, <1>3 DEF Sound, Pairs, Known, Answered
<1>5. Pair' = latest'
  BY <1>2 DEF Pair
<1>6. Judged'
  BY <1>2, <1>3, <1>5 DEF Judged
<1>7. seen'[1] = IF Shown(Head(wire)) THEN Head(wire).depth ELSE seen[1]
  BY <1>1, <1>2 DEF m
<1> QED
  BY <1>1, <1>4, <1>5, <1>6, <1>7, TakeStream

(* A delta the client does not apply, by a fault or for a gap.             *)
LEMMA PassedBy ==
  ASSUME NEW num \in [Nat -> Nat], Sound(num), TypeOK', TakeDelta,
         UNCHANGED <<market, lastDepthSequence, strayed>>, overtaken' = TRUE,
         UNCHANGED <<status, fetch>> \/ (status' = "RESYNCING" /\ fetch' = Asked)
  PROVE  Sound(num)'
<1> DEFINE m == Head(wire)
<1>1. Take /\ Shown(m) /\ IsDelta(m)
  BY DEF TakeDelta, Shown, IsDelta
<1>2. /\ UNCHANGED <<depth, left>>
      /\ seen' = <<m.depth, m.sequence>> /\ latest' = seen' /\ late' = TRUE
  BY <1>1 DEF TakeDelta, Take, server, page
<1>3. Known(num, m.depth, m.sequence)
  BY <1>1, TakenFits
<1> HIDE DEF m
<1>4. Pairs(num)'
  <2>1. Pairs(num) /\ (Answered' => Answered /\ fetch' = fetch)
    BY RequestFacts DEF Sound, Answered
  <2>2. seen'[1] = m.depth /\ seen'[2] = m.sequence
    BY <1>2
  <2> QED
    BY <1>2, <1>3, <2>1, <2>2 DEF Pairs, Known
<1>5. Judged'
  BY <1>2 DEF Sound, Judged
<1>6. seen'[1] = IF Shown(Head(wire)) THEN Head(wire).depth ELSE seen[1]
  BY <1>1, <1>2 DEF m
<1>7. IsDelta(Head(wire))
  BY <1>1 DEF m
<1> QED
  BY <1>1, <1>4, <1>5, <1>6, <1>7, TakeStream

(* A delta that is kept from the client.                                   *)
LEMMA InjectFaultStep ==
  ASSUME NEW num \in [Nat -> Nat], Sound(num), TypeOK', InjectFault
  PROVE  Sound(num)'
<1>1. TakeDelta /\ overtaken' = TRUE /\ strayed' = strayed
  BY DEF InjectFault
<1>2. /\ UNCHANGED <<market, lastDepthSequence>>
      /\ UNCHANGED <<status, fetch>> \/ (status' = "RESYNCING" /\ fetch' = Asked)
  BY DEF InjectFault, Resync, ResyncFrom, client
<1> QED
  BY <1>1, <1>2, PassedBy

(* A delta that follows what the client shows, or a gap.                   *)
LEMMA ReceiveDeltaStep ==
  ASSUME NEW num \in [Nat -> Nat], Sound(num), TypeOK', ReceiveDelta
  PROVE  Sound(num)'
<1> DEFINE m == Head(wire)
<1>1. TakeDelta /\ Take /\ Shown(m) /\ IsDelta(m)
  BY DEF ReceiveDelta, TakeDelta, Shown, IsDelta
<1>2. CASE Follows(m)
  <2>1. /\ UNCHANGED <<depth, left, fetch>>
        /\ market' = m.depth /\ lastDepthSequence' = m.sequence
        /\ seen' = <<m.depth, m.sequence>> /\ latest' = seen' /\ late' = TRUE
    BY <1>1, <1>2 DEF ReceiveDelta, TakeDelta, Take, server, page
  <2>2. /\ Known(num, m.depth, m.sequence) /\ m.depth \in Nat
        /\ left # NoFetch => left.depth < m.depth
    BY <1>1, TakenFits
  <2>3. IsDelta(Head(wire))
    BY <1>1
  <2> HIDE DEF m
  <2>4. Pairs(num)'
    BY <2>1, <2>2 DEF Sound, Pairs, Known, Answered
  <2>5. Judged'
    <3>1. Pair' = latest'
      BY <2>1 DEF Pair
    <3> QED
      BY <2>1, <2>2, <3>1 DEF Judged
  <2>6. seen'[1] = IF Shown(Head(wire)) THEN Head(wire).depth ELSE seen[1]
    BY <1>1, <2>1 DEF m
  <2> QED
    BY <1>1, <2>3, <2>4, <2>5, <2>6, TakeStream
<1>3. CASE ~Follows(m)
  <2>1. Resync /\ overtaken' = TRUE /\ strayed' = strayed
    BY <1>3 DEF ReceiveDelta
  <2>2. /\ UNCHANGED <<market, lastDepthSequence>>
        /\ UNCHANGED <<status, fetch>> \/ (status' = "RESYNCING" /\ fetch' = Asked)
    BY <2>1 DEF Resync, ResyncFrom, client
  <2> QED
    BY <1>1, <2>1, <2>2, PassedBy
<1> QED
  BY <1>2, <1>3

(* A connection begins with the book as it is.                             *)
LEMMA ConnectStep ==
  ASSUME NEW num \in [Nat -> Nat], Sound(num), TypeOK', Connect
  PROVE  Sound(num)'
<1>1. /\ ~connected /\ connected' /\ wire' = <<Current>> /\ queue' = queue
      /\ UNCHANGED <<depth, sequence, last_depth_sequence, births, left, seen>>
      /\ UNCHANGED <<depth, market, lastDepthSequence, status, fetch, left, history>>
  BY DEF Connect, Greeting, server, client, page, history
<1>2. /\ depth \in Nat /\ last_depth_sequence \in Nat /\ queue = << >>
      /\ left \in {NoFetch} \cup Snapshot
      /\ num[depth] = last_depth_sequence
      /\ Pairs(num) /\ Judged
  BY <1>1 DEF Sound, TypeOK, Offline, Numbered
<1>3. Counting' /\ Numbered(num)' /\ Offline'
  BY <1>1 DEF Sound, Counting, Numbered, Offline, SameBook
<1>4. Pairs(num)' /\ Judged' /\ (Pair' # latest' => Pair # latest)
  BY <1>1, ClientKept
<1>5. /\ Current \in Snapshot /\ Current.depth = depth /\ Current.sequence = last_depth_sequence
      /\ Current \in Message /\ Shown(Current) /\ ~IsDelta(Current)
  BY <1>2, SnapshotOfFacts, SnapshotFacts DEF Current
<1>c. PICK c \in Message : /\ c = Current /\ c.depth = depth /\ c.sequence = last_depth_sequence
                           /\ Shown(c) /\ ~IsDelta(c)
  BY <1>5
<1> DEFINE G == Fitting(num)'
           f == seen[1]
           e == depth
<1>6. f \in Nat /\ f <= e
  <2>1. seen[1] \in 0 .. depth
    BY <1>2 DEF Pairs, Known
  <2> QED
    BY <1>2, <2>1
<1>7. c \in G
  <2>1. Known(num, c.depth, c.sequence)'
    BY <1>1, <1>2, <1>c DEF Known
  <2>2. left' # NoFetch => left'.depth < c.depth
    BY <1>1, <1>2, <1>c DEF Pairs
  <2> QED
    BY <1>c, <2>1, <2>2 DEF Fitting, Fits
<1>8. G \in SUBSET Message
  BY DEF Fitting
<1>9. Chain(f, << >>, e, G)
  <2>1. << >> \in Seq(G) /\ DOMAIN << >> = {}
    OBVIOUS
  <2> HIDE DEF G, f, e
  <2> QED
    BY <1>2, <1>6, <2>1 DEF e, Chain, Ordered, Unbroken, Between
<1> HIDE DEF G, f, e
<1>10. Settled(f, Append(<< >>, c), e, G)
  <2>1. \A i \in DOMAIN << >> : IsDelta((<< >>)[i]) => (<< >>)[i].depth < e
    OBVIOUS
  <2>2. c.depth = e
    BY <1>c DEF e
  <2> QED
    BY <1>c, <1>6, <1>7, <1>8, <1>9, <2>1, <2>2, DepthAppended
<1>11. Append(<< >>, c) = <<c>> /\ <<c>> \o << >> = <<c>>
  OBVIOUS
<1>12. Streaming(num)'
  <2>1. wire' \o queue' = <<c>>
    BY <1>1, <1>2, <1>11, <1>c
  <2> QED
    BY <1>1, <1>10, <1>11, <2>1 DEF Streaming, G, f, e
<1> QED
  BY <1>3, <1>4, <1>12 DEF Sound

(* The connection breaks, or the effect that holds it ends.                *)
LEMMA DisposalSteps ==
  ASSUME NEW num \in [Nat -> Nat], Sound(num), TypeOK',
         \/ Disconnect \/ HealthAnswers \/ RetryBackend
         \/ \E result \in {"CHECKING", "TIMEOUT"} : HealthFails(result)
  PROVE  Sound(num)'
<1>1. /\ Torn /\ status' # "LIVE"
      /\ UNCHANGED <<server, market, lastDepthSequence, fetch, left, history>>
  <2>1. CASE Disconnect
    BY <2>1 DEF Disconnect, page
  <2>2. CASE HealthAnswers
    BY <2>2 DEF HealthAnswers, Dispose
  <2>3. CASE RetryBackend
    BY <2>3 DEF RetryBackend, Dispose
  <2>4. CASE \E result \in {"CHECKING", "TIMEOUT"} : HealthFails(result)
    BY <2>4 DEF HealthFails, Dispose
  <2> QED
    BY <2>1, <2>2, <2>3, <2>4
<1> QED
  BY <1>1, TornIsSound

-----------------------------------------------------------------------------
(* The steps of the book.                                                  *)

(* What is in a stream is in its parts.                                    *)
LEMMA StreamParts ==
  ASSUME NEW S, NEW G, NEW w \in Seq(S), NEW q \in Seq(S),
         \A i \in DOMAIN (w \o q) : (w \o q)[i] \in G
  PROVE  w \in Seq(G) /\ q \in Seq(G)
<1> DEFINE t == w \o q
<1>1. /\ t \in Seq(S) /\ Len(t) = Len(w) + Len(q)
      /\ \A i \in 1 .. Len(w) + Len(q) : t[i] = IF i <= Len(w) THEN w[i] ELSE q[i - Len(w)]
  BY ConcatProperties, Zenon
<1>2. \A i \in DOMAIN t : t[i] \in G
  OBVIOUS
<1> HIDE DEF t
<1>3. /\ Len(w) \in Nat /\ Len(q) \in Nat
      /\ w \in [1 .. Len(w) -> S] /\ q \in [1 .. Len(q) -> S]
      /\ DOMAIN t = 1 .. Len(w) + Len(q)
  BY <1>1
<1>4. \A i \in 1 .. Len(w) : w[i] \in G
  BY <1>1, <1>2, <1>3
<1>5. \A i \in 1 .. Len(q) : q[i] \in G
  <2> TAKE i \in 1 .. Len(q)
  <2>1. /\ i + Len(w) \in 1 .. Len(w) + Len(q) /\ ~(i + Len(w) <= Len(w))
        /\ (i + Len(w)) - Len(w) = i
    BY <1>3
  <2>2. t[i + Len(w)] = q[i]
    BY <1>1, <2>1
  <2> QED
    BY <1>2, <1>3, <2>1, <2>2
<1>6. w \in [1 .. Len(w) -> G] /\ q \in [1 .. Len(q) -> G]
  BY <1>3, <1>4, <1>5
<1> QED
  BY <1>3, <1>6

(* When the book comes to new editions, what is known of the old ones stays:
   num2 is num up to the edition of before.                                *)
LEMMA OldKept ==
  ASSUME NEW num \in [Nat -> Nat], Sound(num), NEW num2 \in [Nat -> Nat],
         \A e \in 0 .. depth : num2[e] = num[e],
         depth' \in Nat, depth <= depth',
         births' = births \/ births' = births \cup {depth}
  PROVE  /\ \A edition, number : Known(num, edition, number) => Known(num2, edition, number)'
         /\ \A edition \in 1 .. depth : Before(num2, edition)' = Before(num, edition)
<1>1. depth \in Nat
  BY DEF Sound, TypeOK
<1>2. ASSUME NEW edition, NEW number, Known(num, edition, number)
      PROVE  Known(num2, edition, number)'
  BY <1>1, <1>2 DEF Known
<1>3. ASSUME NEW edition \in 1 .. depth
      PROVE  Before(num2, edition)' = Before(num, edition)
  <2>1. edition - 1 \in 0 .. depth /\ edition - 1 # depth
    BY <1>1
  <2>2. edition - 1 \in births' <=> edition - 1 \in births
    BY <2>1
  <2> QED
    BY <2>1, <2>2 DEF Before
<1> QED
  BY <1>2, <1>3

(* So the messages of the stream stay in order.                            *)
LEMMA OldFits ==
  ASSUME NEW num \in [Nat -> Nat], Sound(num), NEW num2 \in [Nat -> Nat],
         \A e \in 0 .. depth : num2[e] = num[e],
         depth' \in Nat, depth <= depth',
         births' = births \/ births' = births \cup {depth},
         UNCHANGED <<left, seen, latest, market, lastDepthSequence>>,
         connected
  PROVE  /\ Settled(seen[1], wire \o queue, depth, Fitting(num2)')
         /\ wire \in Seq(Fitting(num2)') /\ queue \in Seq(Fitting(num2)')
<1> DEFINE G == Fitting(num)
           H == Fitting(num2)'
           t == wire \o queue
<1>1. depth \in Nat
  BY DEF Sound, TypeOK
<1>2. ASSUME NEW x \in G
      PROVE  x \in H
  <2>1. x \in Message /\ (Shown(x) => Fits(num, x))
    BY DEF Fitting
  <2>2. ASSUME Shown(x)
        PROVE  Fits(num2, x)'
    <3>1. Known(num, x.depth, x.sequence)
      BY <2>1, <2>2 DEF Fits
    <3>2. Known(num2, x.depth, x.sequence)'
      BY <3>1, OldKept
    <3>3. x.depth \in 0 .. depth
      BY <3>1 DEF Known
    <3>4. IsDelta(x) => x.depth \in 1 .. depth
      BY <1>1, <2>1, <2>2, <3>3 DEF Fits
    <3>5. IsDelta(x) => Before(num2, x.depth)' = Before(num, x.depth)
      BY <3>4, OldKept
    <3> QED
      BY <2>1, <2>2, <3>2, <3>5 DEF Fits, Pair
  <2> QED
    BY <2>1, <2>2 DEF Fitting
<1>3. Settled(seen[1], t, depth, G)
  BY DEF Sound, Streaming
<1>4. \A i \in DOMAIN t : t[i] \in H
  <2>1. t \in Seq(G)
    BY <1>3 DEF Settled, Chain
  <2> HIDE DEF t, G, H
  <2> QED
    BY <1>2, <2>1
<1>5. wire \in Seq(Message) /\ queue \in Seq(Message)
  BY DEF Sound, TypeOK
<1> HIDE DEF H, G
<1>6. wire \in Seq(H) /\ queue \in Seq(H)
  <2> HIDE DEF Message
  <2> QED
    BY <1>4, <1>5, StreamParts
<1> HIDE DEF t
<1>7. Settled(seen[1], t, depth, H)
  BY <1>3, <1>4, SettledIn
<1> QED
  BY <1>6, <1>7 DEF t, H

(* So does what the client remembers.                                      *)
LEMMA OldPairs ==
  ASSUME NEW num \in [Nat -> Nat], Sound(num), NEW num2 \in [Nat -> Nat],
         \A e \in 0 .. depth : num2[e] = num[e],
         depth' \in Nat, depth <= depth',
         births' = births \/ births' = births \cup {depth},
         UNCHANGED <<market, lastDepthSequence, status, fetch, left, history>>
  PROVE  Pairs(num2)' /\ Judged'
<1> USE DEF history
<1>1. \A edition, number : Known(num, edition, number) => Known(num2, edition, number)'
  BY OldKept
<1>2. Known(num2, market, lastDepthSequence)' /\ Known(num2, seen[1], seen[2])'
  <2>1. Known(num, market, lastDepthSequence) /\ Known(num, seen[1], seen[2])
    BY DEF Sound, Pairs
  <2> QED
    BY <1>1, <2>1 DEF Known
<1>3. Answered' => Known(num2, fetch.depth, fetch.sequence)'
  <2>1. Answered => Known(num, fetch.depth, fetch.sequence)
    BY DEF Sound, Pairs
  <2> QED
    BY <1>1, <2>1 DEF Known, Answered
<1>4. left' # NoFetch => left'.depth < depth' /\ Known(num2, left.depth, left.sequence)'
  <2>1. left # NoFetch => left.depth < depth /\ Known(num, left.depth, left.sequence)
    BY DEF Sound, Pairs
  <2>2. left # NoFetch => left.depth \in Nat /\ depth \in Nat
    BY SnapshotFacts DEF Sound, TypeOK
  <2> QED
    BY <1>1, <2>1, <2>2 DEF Known
<1>5. Judged'
  BY DEF Sound, Judged, Pair, Answered, Stray
<1> QED
  BY <1>2, <1>3, <1>4, <1>5 DEF Pairs

(* A new edition with a number of its own: a higher one, or of a new book.  *)
LEMMA NumberedOneMore ==
  ASSUME NEW num \in [Nat -> Nat], Sound(num),
         depth' = depth + 1, NEW number \in Nat, number > 0, last_depth_sequence' = number,
         \/ births' = births /\ number > last_depth_sequence
         \/ births' = births \cup {depth},
         NEW num2 \in [Nat -> Nat], num2[depth + 1] = number,
         \A e \in 0 .. depth : num2[e] = num[e]
  PROVE  Numbered(num2)'
<1>1. depth \in Nat /\ last_depth_sequence \in Nat /\ depth >= 1 /\ last_depth_sequence > 0
      /\ \A birth \in births : birth \in Nat /\ birth < depth
  BY DEF Sound, TypeOK, Counting
<1>2. /\ num[0] = 0 /\ num[depth] = last_depth_sequence
      /\ \A e \in 1 .. depth : num[e] > 0
      /\ \A e, f \in 0 .. depth : e < f /\ SameBook(e, f) => num[e] < num[f]
  BY DEF Sound, Numbered
<1>3. /\ num2 \in [Nat -> Nat] /\ num2[depth + 1] = number
      /\ \A e \in 0 .. depth : num2[e] = num[e]
  OBVIOUS
<1>4. \A e \in 0 .. depth + 1 : e \in Nat /\ (e = depth + 1 \/ e \in 0 .. depth)
  BY <1>1
<1>5. ASSUME NEW e \in 0 .. depth + 1, NEW f \in 0 .. depth + 1, e < f, SameBook(e, f)'
      PROVE  num2[e] < num2[f]
  <2>1. e \in 0 .. depth
    BY <1>1, <1>5
  <2>2. SameBook(e, f)
    BY <1>5 DEF SameBook
  <2>3. CASE f \in 0 .. depth
    BY <1>2, <1>3, <1>5, <2>1, <2>2, <2>3
  <2>4. CASE f = depth + 1
    <3>1. births' = births /\ number > last_depth_sequence
      BY <1>1, <1>5, <2>1, <2>4 DEF SameBook
    <3>2. num[e] <= num[depth]
      <4>1. CASE e = depth
        BY <1>1, <1>2, <4>1
      <4>2. CASE e < depth
        <5>1. SameBook(e, depth)
          BY <1>1, <2>1, <2>2, <2>4 DEF SameBook
        <5>2. depth \in 0 .. depth
          BY <1>1
        <5>3. num[e] < num[depth]
          BY <1>2, <2>1, <4>2, <5>1, <5>2
        <5> QED
          BY <1>1, <1>2, <2>1, <5>3
      <4> QED
        BY <1>1, <2>1, <4>1, <4>2
    <3>3. num[e] \in Nat
      BY <2>1
    <3> QED
      BY <1>1, <1>2, <1>3, <2>1, <2>4, <3>1, <3>2, <3>3
  <2> QED
    BY <1>4, <2>3, <2>4
<1>6. num2[0] = 0 /\ num2[depth'] = last_depth_sequence' /\ \A e \in 1 .. depth' : num2[e] > 0
  <2>1. 0 \in 0 .. depth
    BY <1>1
  <2>2. ASSUME NEW e \in 1 .. depth + 1
        PROVE  num2[e] > 0
    <3>1. e = depth + 1 \/ (e \in 1 .. depth /\ e \in 0 .. depth)
      BY <1>1
    <3> QED
      BY <1>2, <1>3, <3>1
  <2> QED
    BY <1>2, <1>3, <2>1, <2>2
<1>7. Numbered(num2)'
  <2>1. \A e, f \in 0 .. depth' : e < f /\ SameBook(e, f)' => num2[e] < num2[f]
    BY <1>5
  <2> QED
    BY <1>3, <1>6, <2>1 DEF Numbered
<1> QED
  BY <1>7

(* The editions of a book that is seeded.                                  *)
LEMMA NumberedSeeds ==
  ASSUME NEW num \in [Nat -> Nat], Sound(num), Reset,
         NEW num2, num2 = [e \in Nat |-> IF e <= depth THEN num[e] ELSE 2 * (e - depth)]
  PROVE  /\ num2 \in [Nat -> Nat] /\ Numbered(num2)'
         /\ \A k \in 1 .. Seeds : num2[depth + k] = 2 * k
         /\ \A e \in 0 .. depth : num2[e] = num[e]
<1>1. depth \in Nat /\ depth >= 1 /\ Seeds \in Nat /\ Seeds >= 1
      /\ \A birth \in births : birth \in Nat /\ birth < depth
  BY SeedsAssumption DEF Sound, TypeOK, Counting
<1>2. /\ num[0] = 0
      /\ \A e \in 1 .. depth : num[e] > 0
      /\ \A e, f \in 0 .. depth : e < f /\ SameBook(e, f) => num[e] < num[f]
  BY DEF Sound, Numbered
<1>3. /\ depth' = depth + Seeds /\ last_depth_sequence' = 2 * Seeds
      /\ births' = births \cup {depth}
  BY DEF Reset
<1>4. num2 \in [Nat -> Nat]
  <2>1. ASSUME NEW e \in Nat
        PROVE  (IF e <= depth THEN num[e] ELSE 2 * (e - depth)) \in Nat
    <3>1. CASE e <= depth
      BY <3>1
    <3>2. CASE ~(e <= depth)
      <4>1. e - depth \in Nat
        BY <1>1, <3>2
      <4> QED
        BY <3>2, <4>1
    <3> QED
      BY <3>1, <3>2
  <2> QED
    BY <2>1
<1>5. \A e \in Nat : /\ e <= depth => num2[e] = num[e]
                     /\ ~(e <= depth) => num2[e] = 2 * (e - depth)
  OBVIOUS
<1>6. \A k \in 1 .. Seeds : num2[depth + k] = 2 * k
  <2> TAKE k \in 1 .. Seeds
  <2>1. depth + k \in Nat /\ ~(depth + k <= depth) /\ (depth + k) - depth = k
    BY <1>1
  <2> QED
    BY <1>5, <2>1
<1>7. \A e \in 0 .. depth : num2[e] = num[e]
  BY <1>1, <1>5
<1>8. ASSUME NEW e \in 0 .. depth + Seeds, NEW f \in 0 .. depth + Seeds, e < f, SameBook(e, f)'
      PROVE  num2[e] < num2[f]
  <2>0. e \in Nat /\ f \in Nat
    BY <1>1
  <2>1. e <= depth <=> f <= depth
    BY <1>3, <1>8 DEF SameBook
  <2>2. CASE f <= depth
    <3>1. e \in 0 .. depth /\ f \in 0 .. depth
      BY <1>1, <2>0, <2>1, <2>2
    <3>2. SameBook(e, f)
      BY <1>3, <1>8 DEF SameBook
    <3> QED
      BY <1>2, <1>7, <1>8, <3>1, <3>2
  <2>3. CASE ~(f <= depth)
    <3>1. num2[e] = 2 * (e - depth) /\ num2[f] = 2 * (f - depth)
      BY <1>5, <2>0, <2>1, <2>3
    <3> QED
      BY <1>1, <1>8, <2>0, <3>1
  <2> QED
    BY <2>2, <2>3
<1>9. num2[0] = 0 /\ num2[depth'] = last_depth_sequence' /\ \A e \in 1 .. depth' : num2[e] > 0
  <2>1. 0 \in 0 .. depth /\ Seeds \in 1 .. Seeds
    BY <1>1
  <2>2. ASSUME NEW e \in 1 .. depth + Seeds
        PROVE  num2[e] > 0
    <3>1. e \in Nat /\ (e \in 1 .. depth \/ ~(e <= depth))
      BY <1>1
    <3>2. CASE e \in 1 .. depth
      BY <1>1, <1>2, <1>7, <3>2
    <3>3. CASE ~(e <= depth)
      <4>1. num2[e] = 2 * (e - depth)
        BY <1>5, <3>1, <3>3
      <4> QED
        BY <1>1, <3>1, <3>3, <4>1
    <3> QED
      BY <3>1, <3>2, <3>3
  <2> QED
    BY <1>2, <1>3, <1>6, <1>7, <2>1, <2>2
<1>10. Numbered(num2)'
  <2>1. \A e, f \in 0 .. depth' : e < f /\ SameBook(e, f)' => num2[e] < num2[f]
    BY <1>3, <1>8
  <2> QED
    BY <1>4, <1>9, <2>1 DEF Numbered
<1> QED
  BY <1>4, <1>6, <1>7, <1>10

(* A delta of the newest edition fits, if it names the number before it.   *)
LEMMA NewDeltaFits ==
  ASSUME NEW num \in [Nat -> Nat], Sound(num), NEW num2 \in [Nat -> Nat],
         depth' \in Nat, UNCHANGED <<left, seen, latest, market, lastDepthSequence>>,
         NEW edition \in Nat, depth < edition, edition <= depth',
         NEW m \in Message, IsDelta(m), m.depth = edition,
         m.sequence = num2[edition],
         m.previous_sequence = IF edition - 1 \in births' THEN 0 ELSE num2[edition - 1]
  PROVE  m \in Fitting(num2)'
<1>1. depth \in Nat /\ seen[1] \in 0 .. depth
      /\ (left # NoFetch => left.depth < depth /\ left.depth \in Nat)
  BY SnapshotFacts DEF Sound, TypeOK, Pairs, Known
<1>2. Known(num2, m.depth, m.sequence)'
  BY <1>1 DEF Known
<1>3. left' # NoFetch => left'.depth < m.depth
  BY <1>1
<1>4. 1 <= m.depth /\ seen'[1] < m.depth
  BY <1>1
<1>5. m.previous_sequence = Before(num2, m.depth)'
  BY DEF Before
<1> QED
  BY <1>2, <1>3, <1>4, <1>5 DEF Fitting, Fits

(* So does a snapshot of it.                                               *)
LEMMA NewSnapshotFits ==
  ASSUME NEW num \in [Nat -> Nat], Sound(num), NEW num2 \in [Nat -> Nat],
         depth' \in Nat, UNCHANGED left,
         NEW edition \in Nat, depth < edition, edition <= depth',
         NEW m \in Snapshot, m.depth = edition, m.sequence = num2[edition]
  PROVE  m \in Fitting(num2)'
<1>1. depth \in Nat /\ (left # NoFetch => left.depth < depth /\ left.depth \in Nat)
  BY SnapshotFacts DEF Sound, TypeOK, Pairs, Known
<1>2. Known(num2, m.depth, m.sequence)'
  BY <1>1 DEF Known
<1>3. left' # NoFetch => left'.depth < m.depth
  BY <1>1
<1>4. m \in Message /\ ~IsDelta(m)
  BY SnapshotFacts
<1> QED
  BY <1>2, <1>3, <1>4 DEF Fitting, Fits

(* A command that is refused.                                              *)
LEMMA RefusalStep ==
  ASSUME NEW num \in [Nat -> Nat], Sound(num), TypeOK', Command(<<"other">>)
  PROVE  Sound(num)'
<1> DEFINE kinds == <<"other">>
<1>1. Cardinality(Updates(kinds)) = 0
  <2>1. Updates(kinds) = {}
    BY DEF Updates
  <2> QED
    BY <2>1, FS_EmptySet
<1>2. sequence \in Nat /\ last_depth_sequence \in Nat /\ depth \in Nat /\ queue \in Queue
  BY DEF Sound, TypeOK, Queue
<1> DEFINE p == Project(kinds, sequence, last_depth_sequence, depth)
           snapshot == SnapshotOf(p.sequence, p.last, depth)
<1>3. /\ depth' = depth /\ sequence' = p.sequence /\ last_depth_sequence' = p.last
      /\ queue' = IF connected THEN Published(queue, p.messages, snapshot) ELSE queue
      /\ UNCHANGED <<births, connected, wire, client, fetch, page, history>>
  <2> DEFINE c == Cardinality(Updates(kinds))
             r == Project(kinds, sequence, last_depth_sequence, depth + c)
  <2>1. c = 0 /\ depth + c = depth /\ r = p
    BY <1>1, <1>2
  <2>2. /\ depth' = depth + c /\ sequence' = r.sequence /\ last_depth_sequence' = r.last
        /\ Subscribed(r.messages, SnapshotOf(r.sequence, r.last, depth'))
        /\ UNCHANGED <<births, connected, wire, client, fetch, page, history>>
    BY DEF Command
  <2> HIDE DEF c, r, p
  <2> QED
    BY <2>1, <2>2 DEF Subscribed
<1>4. p.sequence = sequence + 1 /\ p.last = last_depth_sequence /\ p.messages = << >>
  BY <1>2, RefusalProjected
<1> HIDE DEF p
<1>5. queue' = queue
  <2>1. snapshot \in Snapshot
    BY <1>2, <1>4, SnapshotOfFacts
  <2> HIDE DEF snapshot
  <2>2. Published(queue, << >>, snapshot) = queue
    BY <1>2, <2>1, PublishedNothing
  <2> QED
    BY <1>3, <1>4, <2>2
<1>6. /\ UNCHANGED <<depth, births, last_depth_sequence, left, seen, connected>>
      /\ UNCHANGED <<market, lastDepthSequence, status, fetch, history>>
      /\ sequence' >= sequence /\ wire' \o queue' = wire \o queue
      /\ ~connected => queue' = << >> /\ wire' = << >>
  <2>1. /\ UNCHANGED <<depth, births, connected, wire, queue>>
        /\ last_depth_sequence' = last_depth_sequence /\ sequence' >= sequence
    BY <1>2, <1>3, <1>4, <1>5
  <2>2. UNCHANGED <<left, seen, market, lastDepthSequence, status, fetch, history>>
    BY <1>3 DEF client, page, history
  <2>3. ~connected => queue = << >> /\ wire = << >>
    BY DEF Sound, Offline
  <2> QED
    BY <2>1, <2>2, <2>3
<1>7. Pairs(num)' /\ Judged' /\ (Pair' # latest' => Pair # latest)
  BY <1>6, ClientKept
<1> QED
  BY <1>6, <1>7, StreamKept

(* A command that updates the book.                                        *)
LEMMA UpdateStep ==
  ASSUME NEW num \in [Nat -> Nat], Sound(num), TypeOK',
         NEW kinds \in EventKinds, Updates(kinds) = {Len(kinds)}, Command(kinds)
  PROVE  \E num2 \in [Nat -> Nat] : Sound(num2)'
<1>1. Cardinality(Updates(kinds)) = 1
  BY FS_Singleton
<1>2. /\ sequence \in Nat /\ last_depth_sequence \in Nat /\ depth \in Nat /\ queue \in Queue
      /\ queue \in Seq(Message) /\ wire \in Seq(Message)
      /\ last_depth_sequence <= sequence /\ last_depth_sequence > 0
      /\ \A birth \in births : birth \in Nat /\ 1 <= birth /\ birth < depth
      /\ num[depth] = last_depth_sequence
      /\ left \in {NoFetch} \cup Snapshot
  BY DEF Sound, TypeOK, Queue, Counting, Numbered
<1> DEFINE edition == depth + 1
           p == Project(kinds, sequence, last_depth_sequence, edition)
           snapshot == SnapshotOf(p.sequence, p.last, edition)
<1>3. /\ depth' = edition /\ sequence' = p.sequence /\ last_depth_sequence' = p.last
      /\ queue' = IF connected THEN Published(queue, p.messages, snapshot) ELSE queue
      /\ UNCHANGED <<births, connected, wire, client, fetch, page, history>>
  BY <1>1 DEF Command, Subscribed
<1>4. edition \in Nat /\ depth < edition /\ edition - 1 = depth
  BY <1>2
<1>5. /\ p \in Projection
      /\ Len(kinds) \in Nat \ {0}
      /\ p.sequence = sequence + Len(kinds) /\ p.last = p.sequence
      /\ p.messages # << >>
      /\ \A k \in 1 .. Len(p.messages) - 1 : ~Shown(p.messages[k])
      /\ p.messages[Len(p.messages)]
           = [type |-> "book_delta", sequence |-> p.sequence,
              previous_sequence |-> last_depth_sequence, depth |-> edition]
  <2>1. IsUpdate(p, kinds, sequence, last_depth_sequence, edition)
    <3> HIDE DEF edition
    <3> QED
      BY <1>2, <1>4, UpdateProjected
  <2> HIDE DEF p, edition
  <2> QED
    BY <2>1 DEF IsUpdate
<1> DEFINE number == p.sequence
           messages == p.messages
<1> HIDE DEF p
<1>6. number \in Nat /\ number > last_depth_sequence /\ number > 0 /\ messages \in Seq(Message)
  <2>1. p.sequence \in Nat /\ p.messages \in Seq(Message)
    BY <1>5 DEF Projection
  <2>2. sequence + Len(kinds) > last_depth_sequence
    BY <1>2, <1>5
  <2> QED
    BY <1>2, <1>5, <2>1, <2>2
<1>7. PICK num2 : num2 = [num EXCEPT ![depth + 1] = number]
  OBVIOUS
<1>8. /\ num2 \in [Nat -> Nat] /\ Numbered(num2)'
      /\ num2[edition] = number
      /\ \A e \in 0 .. depth : num2[e] = num[e]
  <2>1. last_depth_sequence' = number /\ depth' = depth + 1 /\ births' = births
    BY <1>3, <1>5
  <2> HIDE DEF number
  <2>2. num2 \in [Nat -> Nat] /\ num2[depth + 1] = number
        /\ \A e \in 0 .. depth : num2[e] = num[e]
    <3>1. number \in Nat /\ depth \in Nat
      BY <1>2, <1>6
    <3> QED
      BY <1>7, <3>1
  <2>3. Numbered(num2)'
    BY <1>6, <2>1, <2>2, NumberedOneMore
  <2> QED
    BY <2>2, <2>3
<1>9. Counting' /\ Offline'
  <2>1. Counting'
    BY <1>2, <1>3, <1>5, <1>6 DEF Counting
  <2>2. Offline'
    BY <1>3 DEF Sound, Offline
  <2> QED
    BY <2>1, <2>2
<1>10. /\ UNCHANGED <<market, lastDepthSequence, status, fetch, left, history>>
       /\ UNCHANGED <<left, seen, latest, market, lastDepthSequence>>
       /\ depth' \in Nat /\ depth <= depth' /\ births' = births
  BY <1>2, <1>3 DEF client, page, history
<1>11. Pairs(num2)' /\ Judged'
  BY <1>8, <1>10, OldPairs
<1>12. ASSUME connected
       PROVE  Settled(seen[1], wire \o queue', edition, Fitting(num2)')
  <2> DEFINE H == Fitting(num2)'
             f == seen[1]
             n == Len(messages)
  <2>1. /\ Settled(f, wire \o queue, depth, H)
        /\ wire \in Seq(H) /\ queue \in Seq(H)
    BY <1>8, <1>10, <1>12, OldFits
  <2>2. H \in SUBSET Message
    BY DEF Fitting
  <2>3. PICK d \in Message : d = messages[n]
    <3>1. n \in 1 .. n /\ messages[n] \in Message
      <4>1. messages # << >> /\ messages \in Seq(Message)
        BY <1>5, <1>6
      <4> HIDE DEF Message, messages
      <4> QED
        BY <4>1
    <3> QED
      BY <3>1
  <2>4. /\ IsDelta(d) /\ d.depth = edition /\ d.sequence = num2[edition]
        /\ d.previous_sequence = last_depth_sequence
    BY <1>5, <1>8, <2>3 DEF IsDelta
  <2>6. d \in H
    <3>1. PICK e \in Nat : e = edition
      BY <1>4
    <3>2. /\ depth < e /\ e <= depth' /\ d.depth = e /\ d.sequence = num2[e]
      BY <1>3, <1>4, <2>4, <3>1
    <3>3. d.previous_sequence = IF e - 1 \in births' THEN 0 ELSE num2[e - 1]
      <4>1. e - 1 = depth /\ depth \notin births' /\ num2[depth] = last_depth_sequence
        BY <1>2, <1>3, <1>4, <1>8, <3>1
      <4> QED
        BY <2>4, <4>1
    <3>4. num2 \in [Nat -> Nat] /\ IsDelta(d) /\ depth' \in Nat
      BY <1>8, <1>10, <2>4
    <3> QED
      BY <1>10, <3>2, <3>3, <3>4, NewDeltaFits
  <2>7. snapshot \in Snapshot /\ snapshot.depth = edition /\ snapshot.sequence = num2[edition]
    <3>1. p.last \in Nat /\ p.last = num2[edition] /\ edition \in Nat
      BY <1>4, <1>5, <1>6, <1>8
    <3> HIDE DEF edition
    <3> QED
      BY <3>1, SnapshotOfFacts
  <2>8. snapshot \in H
    <3>1. PICK e \in Nat : e = edition
      BY <1>4
    <3>2. PICK s \in Snapshot : s = snapshot
      BY <2>7
    <3>3. depth < e /\ e <= depth' /\ s.depth = e /\ s.sequence = num2[e]
      BY <1>3, <1>4, <2>7, <3>1, <3>2
    <3>4. s \in H
      BY <1>8, <1>10, <3>3, NewSnapshotFits
    <3> QED
      BY <3>2, <3>4
  <2>9. \A k \in 1 .. n : messages[k] \in H
    <3> TAKE k \in 1 .. n
    <3>1. messages[k] \in Message /\ (k = n \/ k \in 1 .. n - 1)
      <4>1. messages \in Seq(Message)
        BY <1>6
      <4> HIDE DEF Message, messages
      <4> QED
        BY <4>1
    <3>2. CASE k = n
      BY <2>3, <2>6, <3>2
    <3>3. CASE k \in 1 .. n - 1
      <4>1. ~Shown(messages[k])
        BY <1>5, <3>3
      <4> QED
        BY <3>1, <4>1 DEF Fitting
    <3> QED
      BY <3>1, <3>2, <3>3
  <2>10. messages # << >> /\ \A k \in 1 .. n - 1 : ~Shown(messages[k])
    BY <1>5
  <2>11. IsDelta(messages[n]) /\ messages[n].depth = edition
    BY <2>3, <2>4
  <2>12. queue' = Published(queue, messages, snapshot)
    BY <1>3, <1>12
  <2> HIDE DEF H, f, snapshot, edition, messages
  <2>13. Ready(f, wire \o queue, edition, H)
    <3>1. Ready(f, wire \o queue, depth + 1, H)
      BY <2>1, <2>2, SettledIsReady
    <3> QED
      BY <3>1 DEF edition
  <2>14. Settled(f, wire \o Published(queue, messages, snapshot), edition, H)
    BY <1>2, <1>6, <2>1, <2>2, <2>7, <2>8, <2>9, <2>10, <2>11, <2>13, PublishedSettles DEF messages
  <2> QED
    BY <2>12, <2>14 DEF H, f
<1>13. Streaming(num2)'
  <2>1. wire' = wire /\ seen' = seen /\ connected' = connected
    BY <1>3, <1>10
  <2> HIDE DEF edition
  <2> QED
    BY <1>3, <1>12, <2>1 DEF Streaming
<1>14. Sound(num2)'
  BY <1>8, <1>9, <1>11, <1>13 DEF Sound
<1> QED
  BY <1>8, <1>14

(* A reset, and the seeds of the new book.                                 *)
LEMMA ResetStep ==
  ASSUME NEW num \in [Nat -> Nat], Sound(num), TypeOK', Reset
  PROVE  \E num2 \in [Nat -> Nat] : Sound(num2)'
<1>1. /\ depth \in Nat /\ queue \in Queue /\ Seeds \in Nat /\ Seeds >= 1
      /\ queue \in Seq(Message) /\ wire \in Seq(Message)
      /\ \A birth \in births : birth \in Nat /\ 1 <= birth /\ birth < depth
      /\ 1 <= depth
  BY SeedsAssumption DEF Sound, TypeOK, Queue, Counting
<1>2. /\ births' = births \cup {depth} /\ depth' = depth + Seeds
      /\ sequence' = 2 * Seeds /\ last_depth_sequence' = 2 * Seeds
      /\ queue' = IF connected THEN Seeded(queue, depth) ELSE queue
      /\ UNCHANGED <<connected, wire, client, fetch, page, history>>
  BY DEF Reset
<1>3. PICK num2 : num2 = [e \in Nat |-> IF e <= depth THEN num[e] ELSE 2 * (e - depth)]
  OBVIOUS
<1>4. /\ num2 \in [Nat -> Nat] /\ Numbered(num2)'
      /\ \A k \in 1 .. Seeds : num2[depth + k] = 2 * k
      /\ \A e \in 0 .. depth : num2[e] = num[e]
  BY <1>3, NumberedSeeds
<1>5. Counting' /\ Offline'
  <2>1. Counting'
    <3>1. 0 < 2 * Seeds /\ 2 * Seeds <= 2 * Seeds /\ 1 <= depth + Seeds
      BY <1>1
    <3>2. \A birth \in births \cup {depth} : 1 <= birth /\ birth < depth + Seeds
      <4> TAKE birth \in births \cup {depth}
      <4>1. depth \in Nat /\ 1 <= depth /\ Seeds \in Nat /\ Seeds >= 1
        BY <1>1
      <4>2. CASE birth = depth
        BY <4>1, <4>2
      <4>3. CASE birth \in births
        <5>1. birth \in Nat /\ 1 <= birth /\ birth < depth
          BY <1>1, <4>3
        <5> QED
          BY <4>1, <5>1
      <4> QED
        BY <4>2, <4>3
    <3> QED
      BY <1>2, <3>1, <3>2 DEF Counting
  <2>2. Offline'
    BY <1>2 DEF Sound, Offline
  <2> QED
    BY <2>1, <2>2
<1>6. /\ UNCHANGED <<market, lastDepthSequence, status, fetch, left, history>>
      /\ UNCHANGED <<left, seen, latest, market, lastDepthSequence>>
      /\ depth' \in Nat /\ depth <= depth' /\ births' = births \cup {depth}
  BY <1>1, <1>2 DEF client, page, history
<1>7. Pairs(num2)' /\ Judged'
  BY <1>4, <1>6, OldPairs
<1>8. ASSUME connected
      PROVE  Settled(seen[1], wire \o queue', depth + Seeds, Fitting(num2)')
  <2> DEFINE H == Fitting(num2)'
             f == seen[1]
  <2>1. /\ Settled(f, wire \o queue, depth, H)
        /\ wire \in Seq(H) /\ queue \in Seq(H)
    BY <1>4, <1>6, <1>8, OldFits
  <2>2. H \in SUBSET Message
    BY DEF Fitting
  <2>3. ASSUME NEW k \in 1 .. Seeds
        PROVE  SeedDelta(k, depth) \in H /\ AfterSeed(k, depth) \in H
    <3>1. SeedDelta(k, depth) \in Message /\ AfterSeed(k, depth) \in Snapshot
      BY <1>1, SeedMessages
    <3>2. PICK e \in Nat : e = depth + k
      BY <1>1
    <3>3. PICK d \in Message : d = SeedDelta(k, depth)
      BY <3>1
    <3>4. PICK s \in Snapshot : s = AfterSeed(k, depth)
      BY <3>1
    <3>5. depth < e /\ e <= depth' /\ num2[e] = 2 * k
      BY <1>1, <1>2, <1>4, <3>2
    <3>6. /\ IsDelta(d) /\ d.depth = e /\ d.sequence = num2[e]
          /\ d.previous_sequence = 2 * (k - 1)
      BY <3>2, <3>3, <3>5 DEF SeedDelta, IsDelta
    <3>7. s.depth = e /\ s.sequence = num2[e]
      BY <3>2, <3>4, <3>5 DEF AfterSeed, SnapshotOf
    <3>8. 2 * (k - 1) = IF e - 1 \in births' THEN 0 ELSE num2[e - 1]
      <4>1. CASE k = 1
        <5>1. e - 1 = depth /\ depth \in births'
          BY <1>1, <1>2, <3>2, <4>1
        <5> QED
          BY <4>1, <5>1
      <4>2. CASE k # 1
        <5>1. k - 1 \in 1 .. Seeds /\ e - 1 = depth + (k - 1) /\ e - 1 \notin births'
          BY <1>1, <1>2, <3>2, <4>2
        <5>2. num2[e - 1] = 2 * (k - 1)
          BY <1>4, <5>1
        <5> QED
          BY <5>1, <5>2
      <4> QED
        BY <4>1, <4>2
    <3>9. d \in H
      BY <1>4, <1>6, <3>5, <3>6, <3>8, NewDeltaFits
    <3>10. s \in H
      BY <1>4, <1>6, <3>5, <3>7, NewSnapshotFits
    <3> QED
      BY <3>3, <3>4, <3>9, <3>10
  <2>4. queue' = Seeded(queue, depth)
    BY <1>2, <1>8
  <2> HIDE DEF H, f
  <2>5. Settled(f, wire \o Seeded(queue, depth), depth + Seeds, H)
    BY <1>1, <2>1, <2>2, <2>3, SeededSettles
  <2> QED
    BY <2>4, <2>5 DEF H, f
<1>9. Streaming(num2)'
  <2>1. wire' = wire /\ seen' = seen /\ connected' = connected
    BY <1>2, <1>6
  <2> QED
    BY <1>2, <1>8, <2>1 DEF Streaming
<1>10. Sound(num2)'
  BY <1>4, <1>5, <1>7, <1>9 DEF Sound
<1> QED
  BY <1>4, <1>10

(* The user turns to another symbol.                                       *)
LEMMA SwitchStep ==
  ASSUME NEW num \in [Nat -> Nat], Sound(num), TypeOK',
         NEW number \in OtherNumbers, Switch(number)
  PROVE  \E num2 \in [Nat -> Nat] : Sound(num2)'
<1>1. /\ depth \in Nat /\ 1 <= depth /\ number \in Nat /\ number > 0
      /\ last_depth_sequence \in Nat
      /\ \A birth \in births : birth \in Nat /\ 1 <= birth /\ birth < depth
      /\ num[depth] = last_depth_sequence
  <2>1. number \in Nat \ {0}
    BY OtherAssumption
  <2>2. depth \in Nat /\ last_depth_sequence \in Nat /\ births \subseteq Nat
    BY DEF Sound, TypeOK
  <2>3. Counting /\ num[depth] = last_depth_sequence
    BY DEF Sound, Numbered
  <2> QED
    BY <2>1, <2>2, <2>3 DEF Counting
<1>2. /\ left = NoFetch /\ left' = Current
      /\ depth' = depth + 1 /\ births' = births \cup {depth}
      /\ sequence' = number /\ last_depth_sequence' = number
      /\ fetch' = IF fetch = Asked THEN Current ELSE fetch
      /\ connected' = FALSE /\ queue' = << >> /\ wire' = << >> /\ status' = "CONNECTING"
      /\ UNCHANGED <<market, lastDepthSequence, history>>
  BY DEF Switch, Dispose, Torn
<1>3. PICK num2 : num2 = [num EXCEPT ![depth + 1] = number]
  OBVIOUS
<1>4. /\ num2 \in [Nat -> Nat] /\ Numbered(num2)'
      /\ \A e \in 0 .. depth : num2[e] = num[e]
  <2>1. num2 \in [Nat -> Nat] /\ num2[depth + 1] = number
        /\ \A e \in 0 .. depth : num2[e] = num[e]
    BY <1>1, <1>3
  <2>2. Numbered(num2)'
    BY <1>1, <1>2, <2>1, NumberedOneMore
  <2> QED
    BY <2>1, <2>2
<1>5. Counting' /\ Offline' /\ Streaming(num2)'
  <2>1. \A birth \in births \cup {depth} : 1 <= birth /\ birth < depth + 1
    BY <1>1
  <2>2. Counting'
    BY <1>1, <1>2, <2>1 DEF Counting
  <2>3. Offline' /\ Streaming(num2)'
    BY <1>2 DEF Offline, Streaming
  <2> QED
    BY <2>2, <2>3
<1>6. \A e, k : Known(num, e, k) => Known(num2, e, k)'
  <2>1. depth' \in Nat /\ depth <= depth'
    BY <1>1, <1>2
  <2> QED
    BY <1>2, <1>4, <2>1, OldKept
<1>7. /\ Current \in Snapshot /\ Current.depth = depth /\ Current.sequence = last_depth_sequence
      /\ Current # NoFetch
  BY <1>1, SnapshotOfFacts, SnapshotFacts DEF Current
<1>8. Known(num, Current.depth, Current.sequence)
  BY <1>1, <1>7 DEF Known
<1>9. Answered' => Known(num, fetch'.depth, fetch'.sequence)
  <2>1. fetch' \in Snapshot => fetch' = Current \/ fetch' = fetch
    BY <1>2
  <2>2. fetch \in Snapshot => Known(num, fetch.depth, fetch.sequence)
    BY DEF Sound, Pairs, Answered
  <2> QED
    BY <1>8, <2>1, <2>2 DEF Answered
<1>10. Pairs(num2)'
  <2>1. Known(num, market, lastDepthSequence) /\ Known(num, seen[1], seen[2])
    BY DEF Sound, Pairs
  <2>2. Known(num2, market, lastDepthSequence)' /\ Known(num2, seen[1], seen[2])'
    BY <1>2, <1>6, <2>1 DEF Known, history
  <2>3. Answered' => Known(num2, fetch.depth, fetch.sequence)'
    BY <1>6, <1>9 DEF Known
  <2>4. left'.depth < depth' /\ Known(num2, left.depth, left.sequence)'
    <3>1. left'.depth = depth /\ Known(num, left'.depth, left'.sequence)
      BY <1>2, <1>7, <1>8
    <3>2. depth < depth'
      BY <1>1, <1>2
    <3> QED
      BY <1>6, <3>1, <3>2 DEF Known
  <2> QED
    BY <2>2, <2>3, <2>4 DEF Pairs
<1>11. Judged'
  <2>1. Answered' => Stray(fetch)'
    <3>1. Answered' => fetch'.depth <= depth
      BY <1>1, <1>9 DEF Known
    <3> QED
      BY <1>2, <1>7, <3>1 DEF Stray
  <2>2. Pair' # latest' => latest' = seen'
    BY <1>2 DEF Sound, Judged, Pair, history
  <2> QED
    BY <1>2, <2>1, <2>2 DEF Judged
<1>12. Sound(num2)'
  BY <1>4, <1>5, <1>10, <1>11 DEF Sound
<1> QED
  BY <1>4, <1>12

-----------------------------------------------------------------------------
(* The theorems.                                                           *)

(* The first state agrees with a history of the first book's one edition.  *)
LEMMA InitSound == Init => IInv
<1> SUFFICES ASSUME Init
             PROVE  IInv
  OBVIOUS
<1>1. Seeds \in Nat /\ Seeds >= 1 /\ 2 * Seeds \in Nat /\ 2 * Seeds > 0
  BY SeedsAssumption
<1>2. PICK num \in [Nat -> Nat] : num[0] = 0 /\ num[1] = 2 * Seeds
  <2> DEFINE first == [e \in Nat |-> IF e = 0 THEN 0 ELSE 2 * Seeds]
  <2>1. first \in [Nat -> Nat]
    BY <1>1
  <2>2. first[0] = 0 /\ first[1] = 2 * Seeds
    OBVIOUS
  <2> HIDE DEF first
  <2> QED
    BY <2>1, <2>2
<1>3. TypeOK
  BY InitTypes
<1>4. Counting /\ Offline /\ Streaming(num)
  BY <1>1 DEF Init, Counting, Offline, Streaming
<1>5. Numbered(num)
  <2>1. \A e, f \in 0 .. 1 : e < f => num[e] < num[f]
    <3>1. \A e \in 0 .. 1 : e = 0 \/ e = 1
      OBVIOUS
    <3> QED
      BY <1>1, <1>2, <3>1
  <2>2. \A e \in 1 .. 1 : e = 1
    OBVIOUS
  <2> QED
    BY <1>1, <1>2, <2>1, <2>2 DEF Init, Numbered
<1>6. Pairs(num)
  <2>1. ~Answered
    BY RequestFacts DEF Init, Answered
  <2> QED
    BY <1>2, <2>1 DEF Init, Pairs, Known
<1>7. Judged
  <2>1. ~Answered
    BY RequestFacts DEF Init, Answered
  <2> QED
    BY <2>1 DEF Init, Judged, Pair
<1>8. Sound(num)
  BY <1>2, <1>3, <1>4, <1>5, <1>6, <1>7 DEF Sound
<1> QED
  BY <1>2, <1>8 DEF IInv

(* Every step keeps the invariant.                                         *)
LEMMA NextSound ==
  ASSUME IInv, [Next]_vars
  PROVE  IInv'
<1>1. PICK num \in [Nat -> Nat] : Sound(num)
  BY DEF IInv
<1>2. TypeOK'
  BY <1>1, TypeNext DEF Sound
<1> DEFINE StillSound == \E num2 \in [Nat -> Nat] : Sound(num2)'
<1>3. Sound(num)' => StillSound
  OBVIOUS
<1>4. ASSUME NEW kinds \in EventKinds, Command(kinds)
      PROVE  StillSound
  <2>1. CASE kinds = <<"other">>
    BY <1>1, <1>2, <1>3, <1>4, <2>1, RefusalStep
  <2>2. CASE Updates(kinds) = {Len(kinds)}
    BY <1>1, <1>2, <1>4, <2>2, UpdateStep
  <2> QED
    BY <2>1, <2>2, EventKindsAssumption
<1>5. ASSUME Reset
      PROVE  StillSound
  BY <1>1, <1>2, <1>5, ResetStep
<1>6. ASSUME NEW number \in OtherNumbers, Switch(number)
      PROVE  StillSound
  BY <1>1, <1>2, <1>6, SwitchStep
<1>7. ASSUME Send \/ (\E mode \in Faults : Arm(mode)) \/ UNCHANGED vars
      PROVE  StillSound
  BY <1>1, <1>2, <1>3, <1>7, PassiveSteps
<1>8. ASSUME Answer \/ DelayedResync \/ FailToRecover
      PROVE  StillSound
  BY <1>1, <1>2, <1>3, <1>8, RequestSteps
<1>9. ASSUME Recover
      PROVE  StillSound
  BY <1>1, <1>2, <1>3, <1>9, RecoverStep
<1>10. ASSUME ReceiveTrade
       PROVE  StillSound
  BY <1>1, <1>2, <1>3, <1>10, ReceiveTradeStep
<1>11. ASSUME ReceiveSnapshot
       PROVE  StillSound
  BY <1>1, <1>2, <1>3, <1>11, ReceiveSnapshotStep
<1>12. ASSUME InjectFault
       PROVE  StillSound
  BY <1>1, <1>2, <1>3, <1>12, InjectFaultStep
<1>13. ASSUME ReceiveDelta
       PROVE  StillSound
  BY <1>1, <1>2, <1>3, <1>13, ReceiveDeltaStep
<1>14. ASSUME Connect
       PROVE  StillSound
  BY <1>1, <1>2, <1>3, <1>14, ConnectStep
<1>15. ASSUME \/ Disconnect \/ HealthAnswers \/ RetryBackend
              \/ \E result \in {"CHECKING", "TIMEOUT"} : HealthFails(result)
       PROVE  StillSound
  BY <1>1, <1>2, <1>3, <1>15, DisposalSteps
<1> HIDE DEF StillSound
<1>16. Next => StillSound
  BY <1>4, <1>5, <1>6, <1>7, <1>8, <1>9, <1>10, <1>11, <1>12, <1>13, <1>14, <1>15 DEF Next
<1>17. StillSound
  BY <1>7, <1>16
<1> QED
  BY <1>17 DEF StillSound, IInv

(* The invariant holds throughout.                                         *)
LEMMA Invariant == Spec => []IInv
<1>1. Init => IInv
  BY InitSound
<1>2. IInv /\ [Next]_vars => IInv'
  BY NextSound
<1> QED
  BY <1>1, <1>2, PTL DEF Spec

(* A stream with nothing in it leaves the client with the book's edition.  *)
LEMMA EmptySettles ==
  ASSUME NEW num \in [Nat -> Nat], Sound(num), connected, queue = << >>, wire = << >>
  PROVE  seen[1] = depth /\ seen[2] = last_depth_sequence
<1> DEFINE t == wire \o queue
<1>1. Settled(seen[1], t, depth, Fitting(num)) /\ DOMAIN t = {}
  BY DEF Sound, Streaming
<1> HIDE DEF t
<1>2. seen[1] >= depth
  BY <1>1 DEF Settled, Reached
<1>3. seen[1] \in 0 .. depth /\ seen[2] = num[seen[1]] /\ depth \in Nat
      /\ num[depth] = last_depth_sequence
  BY DEF Sound, TypeOK, Pairs, Known, Numbered
<1>4. PICK edition \in Nat : edition = seen[1]
  BY <1>3
<1>5. edition = depth
  <2>1. edition >= depth
    BY <1>2, <1>4
  <2>2. edition \in 0 .. depth
    BY <1>3, <1>4
  <2>3. depth \in Nat
    BY <1>3
  <2> QED
    BY <2>1, <2>2, <2>3
<1>6. seen[2] = num[edition]
  BY <1>3, <1>4
<1> QED
  BY <1>3, <1>4, <1>5, <1>6

(* Whatever the broker clears, and wherever a command's messages overflow the
   queue, the newest depth reaches the subscriber (publish, the loop of
   websocket_market).                                                      *)
THEOREM NewestDepthArrives == Spec => []NewestArrives
<1>1. IInv => NewestArrives
  <2>1. ASSUME NEW num \in [Nat -> Nat], Sound(num), connected, queue = << >>, wire = << >>
        PROVE  seen = <<depth, last_depth_sequence>>
    <3>1. seen[1] = depth /\ seen[2] = last_depth_sequence
      BY <2>1, EmptySettles
    <3>2. seen \in Nat \X Nat
      BY <2>1 DEF Sound, TypeOK
    <3> QED
      BY <3>1, <3>2
  <2> QED
    BY <2>1 DEF IInv, NewestArrives
<1> QED
  BY <1>1, Invariant, PTL

(* A live client with nothing on its way shows the book, unless a depth went
   past it; and the book of the symbol it turned to, unless the answer of an
   old request came last (useMarket.ts).                                   *)
THEOREM LiveClientsAreCurrent == Spec => []CurrentUnlessOvertaken
<1>1. IInv => CurrentUnlessOvertaken
  <2>1. ASSUME NEW num \in [Nat -> Nat], Sound(num), Quiet, status = "LIVE"
        PROVE  /\ ~overtaken => market = depth /\ lastDepthSequence = last_depth_sequence
               /\ left # NoFetch /\ ~strayed => market > left.depth
    <3>1. seen[1] = depth
      BY <2>1, EmptySettles DEF Quiet
    <3>2. /\ market \in 0 .. depth /\ lastDepthSequence = num[market]
          /\ num[depth] = last_depth_sequence /\ depth \in Nat
      BY <2>1 DEF Sound, TypeOK, Pairs, Known, Numbered
    <3>3. ~overtaken => seen[1] <= market
      BY <2>1 DEF Sound, Judged
    <3>4. left # NoFetch /\ ~strayed => left.depth < market
      BY <2>1 DEF Sound, Judged
    <3>5. left # NoFetch => left.depth \in Nat
      BY <2>1, SnapshotFacts DEF Sound, TypeOK
    <3> QED
      BY <3>1, <3>2, <3>3, <3>4, <3>5
  <2> QED
    BY <2>1 DEF IInv, CurrentUnlessOvertaken
<1> QED
  BY <1>1, Invariant, PTL

(* Within a book, a number is of one edition only.                         *)
LEMMA NumbersTell ==
  ASSUME NEW num \in [Nat -> Nat], Sound(num),
         NEW old \in 0 .. depth, NEW edition \in 1 .. depth,
         old # edition, SameBook(old, edition), num[old] = Before(num, edition)
  PROVE  old = edition - 1 /\ num[old] = num[edition - 1]
<1>1. /\ depth \in Nat
      /\ \A birth \in births : birth \in Nat
      /\ \A e \in 1 .. depth : num[e] > 0
      /\ \A e, f \in 0 .. depth : e < f /\ SameBook(e, f) => num[e] < num[f]
  BY DEF Sound, TypeOK, Counting, Numbered
<1> DEFINE before == edition - 1
<1>2. /\ before \in 0 .. depth /\ before < edition /\ before \in Nat /\ old \in Nat
      /\ edition \in Nat /\ before + 1 = edition
  BY <1>1
<1>3. CASE before \in births
  <2>1. num[old] = 0
    BY <1>3 DEF Before
  <2>2. old > before
    BY <1>2, <1>3 DEF SameBook
  <2>3. old \in 1 .. depth
    BY <1>1, <1>2, <2>2
  <2> QED
    BY <1>1, <2>1, <2>3
<1>4. CASE before \notin births
  <2>1. num[old] = num[before]
    BY <1>4 DEF Before
  <2> HIDE DEF before
  <2>2. CASE old < before
    <3>1. SameBook(old, before)
      <4>1. ASSUME NEW birth \in births
            PROVE  old <= birth <=> before <= birth
        <5>1. birth \in Nat /\ (old <= birth <=> edition <= birth)
          BY <1>1 DEF SameBook
        <5> QED
          BY <1>2, <2>2, <5>1
      <4> QED
        BY <4>1 DEF SameBook
    <3>2. num[old] < num[before]
      BY <1>1, <1>2, <2>2, <3>1
    <3> QED
      BY <1>2, <2>1, <3>2
  <2>3. CASE before < old
    <3>1. SameBook(before, old)
      <4>1. ASSUME NEW birth \in births
            PROVE  before <= birth <=> old <= birth
        <5>1. birth \in Nat /\ (old <= birth <=> edition <= birth) /\ birth # before
          BY <1>1, <1>4 DEF SameBook
        <5> QED
          BY <1>2, <2>3, <5>1
      <4> QED
        BY <4>1 DEF SameBook
    <3>2. num[before] < num[old]
      BY <1>1, <1>2, <2>3, <3>1
    <3> QED
      BY <1>2, <2>1, <3>2
  <2>4. old = before
    BY <1>2, <2>2, <2>3
  <2> QED
    BY <2>1, <2>4 DEF before
<1> QED
  BY <1>3, <1>4

(* The client applies a delta only over the last depth that reached it:
   whatever was dropped, delayed or discarded before, a number of one book
   names one edition, and the stream has no hole but where the client saw it
   (applyDelta in useMarket.ts).                                           *)
THEOREM NoDeltaIsBlind == Spec => NoBlindDelta
<1> DEFINE Step == ReceiveDelta /\ market' # market /\ SameBook(market, market')
                     => <<market, lastDepthSequence>> = latest
<1>1. IInv /\ [Next]_vars => [Step]_vars
  <2> SUFFICES ASSUME IInv, ReceiveDelta, market' # market, SameBook(market, market')
               PROVE  <<market, lastDepthSequence>> = latest
    OBVIOUS
  <2>1. PICK num \in [Nat -> Nat] : Sound(num)
    BY DEF IInv
  <2> DEFINE m == Head(wire)
  <2>2. Take /\ Shown(m) /\ IsDelta(m) /\ Follows(m) /\ market' = m.depth
    BY DEF ReceiveDelta, TakeDelta, Shown, IsDelta, Resync, ResyncFrom, client
  <2>3. /\ Fits(num, m) /\ Known(num, m.depth, m.sequence) /\ m.depth \in Nat
        /\ seen[1] <= m.depth /\ seen[1] >= m.depth - 1
    BY <2>1, <2>2, TakenFits
  <2>4. /\ 1 <= m.depth /\ m.previous_sequence = Before(num, m.depth)
        /\ Pair # latest => seen[1] < m.depth
    BY <2>2, <2>3 DEF Fits
  <2>5. /\ market \in 0 .. depth /\ lastDepthSequence = num[market] /\ m.depth \in 1 .. depth
        /\ seen[2] = num[seen[1]] /\ seen[1] \in Nat
        /\ Pair # latest => latest = seen
        /\ seen \in Nat \X Nat
    <3>1. market \in 0 .. depth /\ lastDepthSequence = num[market]
      BY <2>1 DEF Sound, Pairs, Known
    <3>2. seen[1] \in 0 .. depth /\ seen[2] = num[seen[1]]
      BY <2>1 DEF Sound, Pairs, Known
    <3>3. depth \in Nat /\ seen \in Nat \X Nat
      BY <2>1 DEF Sound, TypeOK
    <3>4. Pair # latest => latest = seen
      BY <2>1 DEF Sound, Judged
    <3>5. m.depth \in 0 .. depth
      BY <2>3 DEF Known
    <3> HIDE DEF m
    <3>6. m.depth \in 1 .. depth
      BY <2>4, <3>3, <3>5
    <3>7. seen[1] \in Nat
      BY <3>3
    <3> QED
      BY <3>1, <3>2, <3>3, <3>4, <3>6, <3>7
  <2>6. num[market] = Before(num, m.depth)
    BY <2>2, <2>4, <2>5 DEF Follows
  <2> HIDE DEF m
  <2>7. market # m.depth /\ SameBook(market, m.depth)
    BY <2>2
  <2>8. market = m.depth - 1
    BY <2>1, <2>5, <2>6, <2>7, NumbersTell
  <2>9. ASSUME Pair # latest
        PROVE  FALSE
    <3>1. seen[1] = market
      BY <2>3, <2>4, <2>5, <2>8, <2>9
    <3>2. seen = <<market, lastDepthSequence>>
      BY <2>5, <3>1
    <3> QED
      BY <2>5, <2>9, <3>2 DEF Pair
  <2> QED
    BY <2>9 DEF Pair
<1>2. Spec => [][IInv /\ [Next]_vars]_vars
  BY Invariant, PTL DEF Spec
<1>3. Spec => [][Step]_vars
  BY <1>1, Invariant, PTL DEF Spec
<1> QED
  BY <1>3 DEF NoBlindDelta
=============================================================================
