------------------------- MODULE SymbolWorkerProofs -------------------------
(***************************************************************************)
(* The worker answers truthfully, for any number of commands and any       *)
(* capacity.  What makes that inductive: a command not yet submitted is in *)
(* no queue and did not run, so the fresh future that submit creates can   *)
(* not be of a command that has run already.                               *)
(***************************************************************************)
EXTENDS SymbolWorker, SequenceTheorems, WellFoundedInduction, TLAPS

IdleIsNowhere ==
  \A c \in Commands : submitter[c] = "idle" => c \notin ToSet(handled) \cup ToSet(queue)

IInv == TypeOK /\ AnswersAreTrue /\ IdleIsNowhere

(* The elements of a sequence, of one that grew, and of two in a row.      *)
LEMMA ToSetFacts ==
  ASSUME NEW s \in Seq(Commands), NEW t \in Seq(Commands), NEW c \in Commands
  PROVE  /\ ToSet(Append(s, c)) = ToSet(s) \cup {c}
         /\ ToSet(s \o t) = ToSet(s) \cup ToSet(t)
         /\ ToSet(s) \subseteq Commands
<1>1. ToSet(Append(s, c)) = ToSet(s) \cup {c}
  <2>1. /\ Len(s) \in Nat /\ DOMAIN Append(s, c) = 1 .. Len(s) + 1 /\ DOMAIN s = 1 .. Len(s)
        /\ Append(s, c)[Len(s) + 1] = c
        /\ \A i \in 1 .. Len(s) : Append(s, c)[i] = s[i]
    OBVIOUS
  <2>2. 1 .. Len(s) + 1 = (1 .. Len(s)) \cup {Len(s) + 1}
    BY <2>1
  <2> HIDE <2>2
  <2>3. ASSUME NEW x PROVE x \in ToSet(Append(s, c)) <=> x \in ToSet(s) \cup {c}
    <3>1. x \in ToSet(Append(s, c)) <=> \E i \in 1 .. Len(s) + 1 : Append(s, c)[i] = x
      BY <2>1, Zenon DEF ToSet
    <3>2. x \in ToSet(s) <=> \E i \in 1 .. Len(s) : s[i] = x
      BY <2>1, Zenon DEF ToSet
    <3> QED
      BY <2>1, <2>2, <3>1, <3>2, Zenon
  <2> QED
    BY <2>3
<1>2. ToSet(s \o t) = ToSet(s) \cup ToSet(t)
  <2> DEFINE u == s \o t
  <2>1. /\ u \in Seq(Commands) /\ Len(u) = Len(s) + Len(t)
        /\ \A i \in 1 .. Len(s) + Len(t) :
             u[i] = IF i <= Len(s) THEN s[i] ELSE t[i - Len(s)]
    BY ConcatProperties, Zenon
  <2> HIDE DEF u
  <2>2. /\ Len(s) \in Nat /\ Len(t) \in Nat /\ DOMAIN u = 1 .. Len(s) + Len(t)
        /\ DOMAIN s = 1 .. Len(s) /\ DOMAIN t = 1 .. Len(t)
    BY <2>1
  <2>3. ASSUME NEW i \in DOMAIN u PROVE u[i] \in ToSet(s) \cup ToSet(t)
    <3>1. i <= Len(s) => i \in DOMAIN s /\ u[i] = s[i]
      BY <2>1, <2>2
    <3>2. ~(i <= Len(s)) => i - Len(s) \in DOMAIN t /\ u[i] = t[i - Len(s)]
      BY <2>1, <2>2
    <3> QED
      BY <3>1, <3>2, Zenon DEF ToSet
  <2>4. ASSUME NEW i \in DOMAIN s PROVE s[i] \in ToSet(u)
    <3>1. i \in DOMAIN u /\ u[i] = s[i]
      BY <2>1, <2>2
    <3> QED
      BY <3>1, Zenon DEF ToSet
  <2>5. ASSUME NEW i \in DOMAIN t PROVE t[i] \in ToSet(u)
    <3>1. i + Len(s) \in DOMAIN u /\ u[i + Len(s)] = t[i]
      BY <2>1, <2>2
    <3> QED
      BY <3>1, Zenon DEF ToSet
  <2>6. ToSet(u) = ToSet(s) \cup ToSet(t)
    <3>1. /\ \A x : x \in ToSet(u) <=> \E i \in DOMAIN u : u[i] = x
          /\ \A x : x \in ToSet(s) <=> \E i \in DOMAIN s : s[i] = x
          /\ \A x : x \in ToSet(t) <=> \E i \in DOMAIN t : t[i] = x
      BY Zenon DEF ToSet
    <3> QED
      BY <2>3, <2>4, <2>5, <3>1, Zenon
  <2> QED
    BY <2>6 DEF u
<1>3. ToSet(s) \subseteq Commands
  BY DEF ToSet
<1> QED
  BY <1>1, <1>2, <1>3

(* The worker takes a part of the queue from its front and leaves the rest. *)
LEMMA LastHandledInQueue ==
  ASSUME TypeOK
  PROVE  LastHandled \in 0 .. Len(queue)
<1>1. queue \in Seq(Commands) /\ Len(queue) \in Nat
  BY DEF TypeOK
<1>2. CASE Undeliverable = {}
  BY <1>1, <1>2 DEF LastHandled
<1>3. CASE Undeliverable # {}
  <2>1. Undeliverable \subseteq 1 .. Len(queue)
    BY <1>1 DEF Undeliverable
  <2>2. PICK m \in Undeliverable : \A j \in Undeliverable : m <= j
    <3> DEFINE R == OpToRel(<, Nat)
    <3>1. Undeliverable \subseteq Nat
      BY <1>1, <2>1
    <3>2. IsWellFoundedOn(R, Nat)
      BY NatLessThanWellFounded, Zenon
    <3>3. \A x, y \in Nat : y < x => <<y, x>> \in R
      BY DEF OpToRel
    <3> HIDE DEF R
    <3>4. PICK m \in Undeliverable : \A j \in Undeliverable : ~(<<j, m>> \in R)
      BY <1>3, <3>1, <3>2, WFMin, Zenon
    <3>5. \A j \in Undeliverable : ~(j < m)
      BY <3>1, <3>3, <3>4, Zenon
    <3> QED
      BY <3>1, <3>5
  <2>3. LastHandled \in Undeliverable
    BY <1>3, <2>2, Zenon DEF LastHandled
  <2> QED
    BY <1>1, <2>1, <2>3
<1> QED
  BY <1>2, <1>3

(* The application starts with nothing submitted.                          *)
LEMMA InitInv == Init => IInv
<1> SUFFICES ASSUME Init PROVE IInv
  OBVIOUS
<1>1. TypeOK
  BY StartsAssumption, CapacityAssumption DEF Init, TypeOK
<1>2. AnswersAreTrue
  BY DEF Init, AnswersAreTrue, ToSet
<1>3. IdleIsNowhere
  BY DEF Init, IdleIsNowhere, ToSet
<1> QED
  BY <1>1, <1>2, <1>3 DEF IInv

(* A command is put into the queue, at once or when there is room.         *)
LEMMA EnqueueKeeps ==
  ASSUME IInv, NEW c \in Commands, Room, Enqueued(c),
         future' = future \/ (submitter[c] = "idle" /\ future' = [future EXCEPT ![c] = "pending"]),
         UNCHANGED <<orphans, worker, handled, starts>>
  PROVE  IInv'
<1> USE DEF IInv
<1>1. TypeOK'
  BY CapacityAssumption DEF TypeOK, Enqueued, Room
<1>2. AnswersAreTrue'
  <2>1. submitter[c] = "idle" => c \notin ToSet(handled)
    BY DEF IdleIsNowhere
  <2>2. future \in [Commands -> {"none", "pending", "result", "exception", "cancelled"}]
    BY DEF TypeOK
  <2>3. ToSet(handled)' = ToSet(handled)
    BY DEF ToSet
  <2> HIDE DEF IInv
  <2>4. \A d \in Commands : future'[d] = future[d] \/ (d = c /\ submitter[c] = "idle" /\ future'[d] = "pending")
    BY <2>2
  <2>5. AnswersAreTrue
    BY DEF IInv
  <2> QED
    BY <2>1, <2>3, <2>4, <2>5 DEF AnswersAreTrue
<1>3. IdleIsNowhere'
  <2>1. ToSet(queue') = ToSet(queue) \cup {c}
    BY ToSetFacts DEF TypeOK, Enqueued
  <2>2. \A d \in Commands : submitter'[d] = "idle" => submitter[d] = "idle" /\ d # c
    BY DEF TypeOK, Enqueued
  <2> QED
    BY <2>1, <2>2 DEF IdleIsNowhere, ToSet
<1> QED
  BY <1>1, <1>2, <1>3

(* One turn of the worker.                                                 *)
LEMMA DrainKeeps ==
  ASSUME IInv, Drain
  PROVE  IInv'
<1> DEFINE batch == SubSeq(queue, 1, LastHandled)
           rest == SubSeq(queue, LastHandled + 1, Len(queue))
<1>1. /\ handled' = handled \o batch
      /\ future' = [c \in Commands |-> IF c \in ToSet(batch) THEN Resolved(c) ELSE future[c]]
      /\ queue' = rest
      /\ worker' \in {"running", "dead"}
      /\ UNCHANGED <<submitter, orphans, accepted, starts>>
  BY DEF Drain, OldestFirst
<1>2. /\ queue \in Seq(Commands) /\ handled \in Seq(Commands) /\ Len(queue) \in Nat
      /\ LastHandled \in 0 .. Len(queue) /\ Len(queue) <= Capacity
  BY LastHandledInQueue DEF IInv, TypeOK
<1>3. /\ batch \in Seq(Commands) /\ rest \in Seq(Commands)
      /\ Len(batch) = LastHandled /\ Len(rest) = Len(queue) - LastHandled
      /\ \A i \in 1 .. Len(batch) : batch[i] = queue[i]
      /\ \A i \in 1 .. Len(rest) : rest[i] = queue[LastHandled + i]
  BY <1>2
<1> HIDE DEF batch, rest
<1>4. Len(rest) <= Capacity
  BY <1>2, <1>3, CapacityAssumption
<1>5. ToSet(batch) \subseteq ToSet(queue) /\ ToSet(rest) \subseteq ToSet(queue)
  <2>1. \A i \in DOMAIN batch : i \in DOMAIN queue /\ batch[i] = queue[i]
    BY <1>2, <1>3
  <2>2. \A i \in DOMAIN rest : LastHandled + i \in DOMAIN queue /\ rest[i] = queue[LastHandled + i]
    <3> TAKE i \in DOMAIN rest
    <3>1. i \in 1 .. Len(rest) /\ DOMAIN queue = 1 .. Len(queue)
      BY <1>2, <1>3
    <3>2. LastHandled + i \in 1 .. Len(queue)
      BY <1>2, <1>3, <3>1
    <3> QED
      BY <1>3, <3>1, <3>2
  <2> QED
    BY <2>1, <2>2, Zenon DEF ToSet
<1>6. CASE Commands = {}
  <2>1. queue = << >>
    BY <1>2, <1>6
  <2> QED
    BY <2>1 DEF Drain
<1>7. ASSUME NEW d \in Commands PROVE IInv'
  <2>1. ToSet(handled') = ToSet(handled) \cup ToSet(batch)
    BY <1>1, <1>2, <1>3, ToSetFacts
  <2>2. TypeOK'
    <3>1. future' \in [Commands -> {"none", "pending", "result", "exception", "cancelled"}]
      BY <1>1 DEF IInv, TypeOK, Resolved
    <3>2. handled' \in Seq(Commands) /\ queue' \in Seq(Commands) /\ Len(queue') <= Capacity
      BY <1>1, <1>2, <1>3, <1>4, ConcatProperties
    <3> QED
      BY <1>1, <3>1, <3>2 DEF IInv, TypeOK
  <2>3. AnswersAreTrue'
    <3>1. ASSUME NEW c \in Commands
          PROVE  /\ future'[c] \in {"result", "exception"} =>
                      c \in ToSet(handled') /\ (future'[c] = "exception" <=> c \in Failing)
                 /\ c \in ToSet(handled') => future'[c] # "pending"
      <4>1. /\ future[c] \in {"result", "exception"} =>
                 c \in ToSet(handled) /\ (future[c] = "exception" <=> c \in Failing)
            /\ c \in ToSet(handled) => future[c] # "pending"
        BY DEF IInv, AnswersAreTrue
      <4>2. future'[c] = IF c \in ToSet(batch) THEN Resolved(c) ELSE future[c]
        BY <1>1
      <4> QED
        BY <2>1, <4>1, <4>2 DEF Resolved
    <3>2. ToSet(handled)' = ToSet(handled')
      BY DEF ToSet
    <3> QED
      BY <3>1, <3>2 DEF AnswersAreTrue
  <2>4. IdleIsNowhere'
    <3>1. \A c \in Commands : submitter'[c] = "idle" => c \notin ToSet(handled') \cup ToSet(queue')
      BY <1>1, <1>5, <2>1 DEF IInv, IdleIsNowhere
    <3>2. ToSet(handled)' = ToSet(handled') /\ ToSet(queue)' = ToSet(queue')
      BY DEF ToSet
    <3> QED
      BY <3>1, <3>2 DEF IdleIsNowhere
  <2> QED
    BY <2>2, <2>3, <2>4 DEF IInv
<1> QED
  BY <1>6, <1>7

(* Every step of the worker and of its submitters keeps the invariant.     *)
LEMMA NextInv == IInv /\ [Next]_vars => IInv'
<1> SUFFICES ASSUME IInv, [Next]_vars PROVE IInv'
  OBVIOUS
<1>1. ASSUME NEW c \in Commands, Submit(c) PROVE IInv'
  <2>1. CASE Room /\ Enqueued(c)
    BY <1>1, <2>1, EnqueueKeeps DEF Submit
  <2>2. CASE ~Room /\ submitter' = [submitter EXCEPT ![c] = "putting"] /\ UNCHANGED <<queue, accepted>>
    <3>1. TypeOK'
      BY <1>1, <2>2 DEF IInv, TypeOK, Submit
    <3>2. IdleIsNowhere'
      BY <1>1, <2>2 DEF IInv, TypeOK, IdleIsNowhere, Submit, ToSet
    <3>3. AnswersAreTrue'
      <4>1. \A d \in Commands : d # c => future'[d] = future[d]
        BY <1>1 DEF Submit, IInv, TypeOK
      <4>2. future'[c] = "pending" /\ c \notin ToSet(handled)
        BY <1>1 DEF Submit, IInv, TypeOK, IdleIsNowhere
      <4>3. ToSet(handled)' = ToSet(handled)
        BY <1>1 DEF Submit, ToSet
      <4> QED
        BY <4>1, <4>2, <4>3 DEF IInv, AnswersAreTrue
    <3> QED
      BY <3>1, <3>2, <3>3 DEF IInv
  <2> QED
    BY <1>1, <2>1, <2>2 DEF Submit
<1>2. ASSUME NEW c \in Commands, PutLater(c) PROVE IInv'
  BY <1>2, EnqueueKeeps DEF PutLater
<1>3. ASSUME NEW c \in Commands, Receive(c) \/ Cancel(c) PROVE IInv'
  <2>1. TypeOK'
    BY <1>3 DEF IInv, TypeOK, Receive, Cancel
  <2>2. IdleIsNowhere'
    BY <1>3 DEF IInv, TypeOK, IdleIsNowhere, Receive, Cancel, ToSet
  <2>3. AnswersAreTrue'
    <3>1. \A d \in Commands : future'[d] = future[d] \/ future'[d] = "cancelled"
      BY <1>3 DEF IInv, TypeOK, Receive, Cancel
    <3>2. ToSet(handled)' = ToSet(handled)
      BY <1>3 DEF Receive, Cancel, ToSet
    <3> QED
      BY <3>1, <3>2 DEF IInv, AnswersAreTrue
  <2> QED
    BY <2>1, <2>2, <2>3 DEF IInv
<1>4. CASE Stop \/ UNCHANGED vars
  BY <1>4 DEF IInv, TypeOK, AnswersAreTrue, IdleIsNowhere, Stop, vars, ToSet
<1>5. CASE Start
  <2>1. TypeOK'
    <3>1. starts' \in 0 .. MaxStarts
      BY <1>5, StartsAssumption DEF IInv, TypeOK, Start
    <3>2. orphans' \subseteq Commands
      BY <1>5 DEF IInv, TypeOK, Start, ToSet
    <3> QED
      BY <1>5, <3>1, <3>2, CapacityAssumption DEF IInv, TypeOK, Start
  <2>2. IdleIsNowhere' /\ AnswersAreTrue'
    BY <1>5 DEF IInv, AnswersAreTrue, IdleIsNowhere, Start, ToSet
  <2> QED
    BY <2>1, <2>2 DEF IInv
<1> QED
  BY <1>1, <1>2, <1>3, <1>4, <1>5, DrainKeeps DEF Next

(* SymbolWorker keeps its queue, futures and task within their types.      *)
THEOREM TypeCorrect == Spec => []TypeOK
<1>1. IInv => TypeOK
  BY DEF IInv
<1> QED
  BY InitInv, NextInv, <1>1, PTL DEF Spec

(* _run answers truthfully: a result only of a command that ran, an error
   only of one that raised, and no command that ran stays unanswered,
   whoever is cancelled, stopped or restarted meanwhile.                   *)
THEOREM AnswersAreAlwaysTrue == Spec => []AnswersAreTrue
<1>1. IInv => AnswersAreTrue
  BY DEF IInv
<1> QED
  BY InitInv, NextInv, <1>1, PTL DEF Spec

-----------------------------------------------------------------------------
(* The order of service.  A command enters a queue once, and only a command
   that was submitted is lost with a queue.                                *)
OnceAccepted ==
  /\ \A i, j \in DOMAIN accepted : accepted[i] = accepted[j] => i = j
  /\ \A i \in DOMAIN accepted : submitter[accepted[i]] \notin {"idle", "putting"}
  /\ \A c \in orphans : submitter[c] # "idle"

(* place says where in accepted each command of served stands, and that
   those it leaves out are the ones lost with a queue.                     *)
Matches(place, served, acc, lost) ==
  /\ place \in [DOMAIN served -> DOMAIN acc]
  /\ \A i, j \in DOMAIN served : i < j => place[i] < place[j]
  /\ \A i \in DOMAIN served : served[i] = acc[place[i]]
  /\ {place[i] : i \in DOMAIN served} = {k \in DOMAIN acc : acc[k] \notin lost}

(* The property in these terms, before and after a step.                   *)
LEMMA ServedIsMatched ==
  /\ ServedInOrder <=> \E place : Matches(place, handled \o queue, accepted, orphans)
  /\ ServedInOrder' <=> \E place : Matches(place, handled' \o queue', accepted', orphans')
  BY DEF ServedInOrder, Matches

(* A command that joins both sequences.                                    *)
LEMMA MatchAppended ==
  ASSUME NEW served \in Seq(Commands), NEW acc \in Seq(Commands), NEW lost,
         NEW place, Matches(place, served, acc, lost),
         NEW c \in Commands, c \notin lost
  PROVE  \E p : Matches(p, Append(served, c), Append(acc, c), lost)
<1> DEFINE n == Len(served)
           m == Len(acc)
           f == Append(served, c)
           g == Append(acc, c)
           q == [i \in 1 .. n + 1 |-> IF i <= n THEN place[i] ELSE m + 1]
<1>1. /\ n \in Nat /\ m \in Nat /\ DOMAIN served = 1 .. n /\ DOMAIN acc = 1 .. m
      /\ DOMAIN f = 1 .. n + 1 /\ DOMAIN g = 1 .. m + 1
      /\ f[n + 1] = c /\ \A i \in 1 .. n : f[i] = served[i]
      /\ g[m + 1] = c /\ \A i \in 1 .. m : g[i] = acc[i]
  OBVIOUS
<1>2. /\ \A i \in 1 .. n : place[i] \in 1 .. m
      /\ \A i, j \in 1 .. n : i < j => place[i] < place[j]
      /\ \A i \in 1 .. n : served[i] = acc[place[i]]
      /\ {place[i] : i \in 1 .. n} = {k \in 1 .. m : acc[k] \notin lost}
  BY <1>1 DEF Matches
<1> HIDE DEF n, m, f, g
<1>3. /\ q[n + 1] = m + 1 /\ \A i \in 1 .. n : q[i] = place[i]
      /\ \A i \in 1 .. n + 1 : i \in 1 .. n \/ i = n + 1
      /\ \A k \in 1 .. m + 1 : k \in 1 .. m \/ k = m + 1
      /\ n + 1 \in 1 .. n + 1 /\ m + 1 \in 1 .. m + 1
      /\ \A i \in 1 .. n : i \in 1 .. n + 1
      /\ \A k \in 1 .. m : k \in 1 .. m + 1 /\ k < m + 1
  BY <1>1
<1>4. q \in [DOMAIN f -> DOMAIN g]
  BY <1>1, <1>2, <1>3
<1>5. ASSUME NEW i \in DOMAIN f, NEW j \in DOMAIN f, i < j PROVE q[i] < q[j]
  <2>1. i \in 1 .. n
    BY <1>1, <1>5
  <2>2. j \in 1 .. n \/ j = n + 1
    BY <1>1, <1>3
  <2> HIDE DEF q
  <2> QED
    BY <1>2, <1>3, <1>5, <2>1, <2>2
<1>6. \A i \in DOMAIN f : f[i] = g[q[i]]
  <2> HIDE DEF q
  <2> QED
    BY <1>1, <1>2, <1>3
<1>7. {q[i] : i \in DOMAIN f} = {k \in DOMAIN g : g[k] \notin lost}
  <2> HIDE DEF q
  <2>1. ASSUME NEW i \in DOMAIN f PROVE q[i] \in {k \in DOMAIN g : g[k] \notin lost}
    <3>1. CASE i = n + 1
      BY <1>1, <1>3, <3>1
    <3>2. CASE i \in 1 .. n
      <4>1. place[i] \in {k \in 1 .. m : acc[k] \notin lost}
        BY <1>2, <3>2
      <4> QED
        BY <1>1, <1>3, <3>2, <4>1
    <3> QED
      BY <1>1, <1>3, <3>1, <3>2
  <2>2. ASSUME NEW k \in DOMAIN g, g[k] \notin lost PROVE \E i \in DOMAIN f : q[i] = k
    <3>1. CASE k = m + 1
      BY <1>1, <1>3, <3>1
    <3>2. CASE k \in 1 .. m
      <4>1. k \in {place[i] : i \in 1 .. n}
        BY <1>1, <1>2, <2>2, <3>2
      <4>2. PICK i \in 1 .. n : place[i] = k
        BY <4>1
      <4> QED
        BY <1>1, <1>3, <4>2
    <3> QED
      BY <1>1, <1>3, <3>1, <3>2
  <2> QED
    BY <2>1, <2>2
<1> HIDE DEF q
<1>8. Matches(q, f, g, lost)
  BY <1>4, <1>5, <1>6, <1>7 DEF Matches
<1> QED
  BY <1>8 DEF f, g

(* A queue that is lost, with the commands on their way into it.           *)
LEMMA MatchCut ==
  ASSUME NEW s \in Seq(Commands), NEW t \in Seq(Commands), NEW acc \in Seq(Commands),
         NEW lost, NEW place, Matches(place, s \o t, acc, lost),
         \A i, j \in DOMAIN acc : acc[i] = acc[j] => i = j,
         NEW more, \A i \in DOMAIN acc : acc[i] \notin more
  PROVE  \E p : Matches(p, s, acc, lost \cup ToSet(t) \cup more)
<1> DEFINE u == s \o t
           n == Len(s)
           q == [i \in 1 .. n |-> place[i]]
           gone == lost \cup ToSet(t) \cup more
<1>1. /\ n \in Nat /\ Len(t) \in Nat /\ DOMAIN s = 1 .. n /\ DOMAIN t = 1 .. Len(t)
      /\ DOMAIN u = 1 .. n + Len(t)
      /\ \A i \in 1 .. n : u[i] = s[i]
      /\ \A i \in 1 .. Len(t) : u[n + i] = t[i]
  <2>1. /\ u \in Seq(Commands) /\ Len(u) = n + Len(t)
        /\ \A i \in 1 .. n + Len(t) : u[i] = IF i <= n THEN s[i] ELSE t[i - n]
    BY ConcatProperties, Zenon
  <2> HIDE DEF u
  <2>2. \A i \in 1 .. Len(t) : n + i \in 1 .. n + Len(t) /\ ~(n + i <= n) /\ (n + i) - n = i
    OBVIOUS
  <2> QED
    BY <2>1, <2>2
<1>2. /\ \A i \in DOMAIN u : place[i] \in DOMAIN acc
      /\ \A i, j \in DOMAIN u : i < j => place[i] < place[j]
      /\ \A i \in DOMAIN u : u[i] = acc[place[i]]
      /\ {place[i] : i \in DOMAIN u} = {k \in DOMAIN acc : acc[k] \notin lost}
  BY DEF Matches
<1> HIDE DEF u, n
<1>3. \A i \in 1 .. n : i \in DOMAIN u
  BY <1>1
<1>4. \A i \in 1 .. Len(t) : n + i \in DOMAIN u
  BY <1>1
<1>5. \A i \in DOMAIN u : i \in 1 .. n \/ \E j \in 1 .. Len(t) : i = n + j
  <2> TAKE i \in DOMAIN u
  <2>1. i \in 1 .. n \/ (i - n \in 1 .. Len(t) /\ i = n + (i - n))
    BY <1>1
  <2> QED
    BY <2>1
<1>6. q \in [DOMAIN s -> DOMAIN acc]
  BY <1>1, <1>2, <1>3
<1>7. /\ \A i, j \in DOMAIN s : i < j => q[i] < q[j]
      /\ \A i \in DOMAIN s : s[i] = acc[q[i]]
  BY <1>1, <1>2, <1>3
<1>8. ASSUME NEW i \in DOMAIN s PROVE acc[q[i]] \notin gone
  <2>1. q[i] = place[i] /\ i \in DOMAIN u /\ place[i] \in DOMAIN acc
    BY <1>1, <1>2, <1>3
  <2>2. acc[place[i]] \notin lost
    <3>1. place[i] \in {k \in DOMAIN acc : acc[k] \notin lost}
      BY <1>2, <2>1
    <3> QED
      BY <3>1
  <2>3. acc[place[i]] \notin ToSet(t)
    <3> SUFFICES ASSUME acc[place[i]] \in ToSet(t) PROVE FALSE
      OBVIOUS
    <3>1. PICK j \in 1 .. Len(t) : t[j] = acc[place[i]]
      BY <1>1, Zenon DEF ToSet
    <3>2. n + j \in DOMAIN u /\ place[n + j] \in DOMAIN acc /\ acc[place[n + j]] = acc[place[i]]
      BY <1>1, <1>2, <1>4, <3>1
    <3>3. place[n + j] = place[i]
      BY <2>1, <3>2
    <3>4. i < n + j
      BY <1>1
    <3>5. place[i] < place[n + j] /\ place[i] \in Nat
      BY <1>2, <2>1, <3>2, <3>4
    <3> QED
      BY <3>3, <3>5
  <2> QED
    BY <2>1, <2>2, <2>3
<1>9. ASSUME NEW k \in DOMAIN acc, acc[k] \notin gone PROVE \E i \in DOMAIN s : q[i] = k
  <2>1. k \in {place[i] : i \in DOMAIN u}
    BY <1>2, <1>9
  <2>2. PICK i \in DOMAIN u : place[i] = k
    BY <2>1
  <2>3. CASE i \in 1 .. n
    BY <1>1, <2>2, <2>3
  <2>4. ASSUME NEW j \in 1 .. Len(t), i = n + j PROVE FALSE
    <3>1. acc[k] = t[j]
      BY <1>1, <1>2, <2>2, <2>4
    <3>2. t[j] \in ToSet(t)
      BY <1>1, <2>4, Zenon DEF ToSet
    <3> QED
      BY <1>9, <3>1, <3>2
  <2> QED
    BY <1>5, <2>3, <2>4
<1> HIDE DEF q, gone
<1>10. {q[i] : i \in DOMAIN s} = {k \in DOMAIN acc : acc[k] \notin gone}
  <2>1. \A i \in DOMAIN s : q[i] \in DOMAIN acc
    BY <1>6
  <2> QED
    BY <1>8, <1>9, <2>1
<1>11. Matches(q, s, acc, gone)
  BY <1>6, <1>7, <1>10 DEF Matches
<1> QED
  BY <1>11 DEF gone

(* A command enters the queue behind all others.                           *)
LEMMA EnqueueServes ==
  ASSUME IInv, OnceAccepted, ServedInOrder,
         NEW c \in Commands, Enqueued(c), submitter[c] \in {"idle", "putting"},
         c \notin orphans, UNCHANGED <<orphans, handled>>
  PROVE  OnceAccepted' /\ ServedInOrder'
<1>1. /\ accepted \in Seq(Commands) /\ queue \in Seq(Commands) /\ handled \in Seq(Commands)
      /\ submitter \in [Commands -> {"idle", "putting", "waiting", "cancelled", "answered"}]
      /\ orphans \subseteq Commands
  BY DEF IInv, TypeOK
<1>2. /\ queue' = Append(queue, c) /\ accepted' = Append(accepted, c)
      /\ submitter' = [submitter EXCEPT ![c] = "waiting"]
  BY DEF Enqueued
<1>3. /\ DOMAIN accepted = 1 .. Len(accepted) /\ Len(accepted) \in Nat
      /\ DOMAIN accepted' = 1 .. Len(accepted) + 1
      /\ accepted'[Len(accepted) + 1] = c
      /\ \A i \in 1 .. Len(accepted) : accepted'[i] = accepted[i]
  BY <1>1, <1>2
<1>4. \A i \in DOMAIN accepted' : i \in DOMAIN accepted \/ i = Len(accepted) + 1
  BY <1>3
<1>5. \A i \in DOMAIN accepted : accepted[i] \in Commands /\ accepted[i] # c
  BY <1>1 DEF OnceAccepted
<1>6. OnceAccepted'
  <2>1. \A i, j \in DOMAIN accepted' : accepted'[i] = accepted'[j] => i = j
    BY <1>3, <1>4, <1>5 DEF OnceAccepted
  <2>2. \A i \in DOMAIN accepted' : submitter'[accepted'[i]] \notin {"idle", "putting"}
    BY <1>1, <1>2, <1>3, <1>4, <1>5 DEF OnceAccepted
  <2>3. \A d \in orphans' : submitter'[d] # "idle"
    BY <1>1, <1>2 DEF OnceAccepted
  <2> QED
    BY <2>1, <2>2, <2>3 DEF OnceAccepted
<1>7. PICK place : Matches(place, handled \o queue, accepted, orphans)
  BY ServedIsMatched
<1>8. handled' \o queue' = Append(handled \o queue, c)
  <2>1. handled \o Append(queue, c) = Append(handled \o queue, c)
    BY <1>1
  <2> QED
    BY <1>2, <2>1
<1>9. ServedInOrder'
  <2>1. handled \o queue \in Seq(Commands)
    BY <1>1, ConcatProperties
  <2>2. \E p : Matches(p, Append(handled \o queue, c), Append(accepted, c), orphans)
    BY <1>1, <1>7, <2>1, MatchAppended
  <2> QED
    BY <1>2, <1>8, <2>2, ServedIsMatched
<1> QED
  BY <1>6, <1>9

(* A turn of the worker takes from the front of the queue what it handles.  *)
LEMMA DrainServes ==
  ASSUME IInv, Drain
  PROVE  handled' \o queue' = handled \o queue
<1> DEFINE n == LastHandled
           batch == SubSeq(queue, 1, n)
           rest == SubSeq(queue, n + 1, Len(queue))
<1>1. handled' = handled \o batch /\ queue' = rest
  BY DEF Drain, OldestFirst
<1>2. /\ queue \in Seq(Commands) /\ handled \in Seq(Commands) /\ Len(queue) \in Nat
      /\ n \in 0 .. Len(queue)
  BY LastHandledInQueue DEF IInv, TypeOK
<1> HIDE DEF n
<1>3. /\ batch \in Seq(Commands) /\ rest \in Seq(Commands)
      /\ Len(batch) = n /\ Len(rest) = Len(queue) - n
      /\ \A i \in 1 .. n : batch[i] = queue[i]
      /\ \A i \in 1 .. Len(queue) - n : rest[i] = queue[n + i]
  BY <1>2
<1> HIDE DEF batch, rest
<1>4. batch \o rest = queue
  <2> DEFINE u == batch \o rest
  <2>0. batch \in Seq(Commands) /\ rest \in Seq(Commands)
    BY <1>3
  <2>9. /\ u \in Seq(Commands) /\ Len(u) = Len(batch) + Len(rest)
        /\ \A i \in 1 .. Len(batch) + Len(rest) :
             u[i] = IF i <= Len(batch) THEN batch[i] ELSE rest[i - Len(batch)]
    BY <2>0, ConcatProperties, Zenon
  <2> HIDE DEF u
  <2>1. /\ u \in Seq(Commands) /\ Len(u) = n + (Len(queue) - n)
        /\ \A i \in 1 .. n + (Len(queue) - n) : u[i] = IF i <= n THEN batch[i] ELSE rest[i - n]
    BY <1>3, <2>9
  <2>2. \A i \in 1 .. Len(queue) : u[i] = queue[i]
    <3> TAKE i \in 1 .. Len(queue)
    <3>1. CASE i <= n
      BY <1>2, <1>3, <2>1, <3>1
    <3>2. CASE ~(i <= n)
      <4>1. i - n \in 1 .. Len(queue) - n /\ n + (i - n) = i
        BY <1>2, <3>2
      <4>2. u[i] = rest[i - n]
        BY <1>2, <2>1, <3>2
      <4> QED
        BY <1>3, <4>1, <4>2
    <3> QED
      BY <3>1, <3>2
  <2>3. Len(u) = Len(queue)
    BY <1>2, <2>1
  <2>4. u = queue
    BY <1>2, <2>1, <2>2, <2>3
  <2> QED
    BY <2>4 DEF u
<1>5. (handled \o batch) \o rest = handled \o (batch \o rest)
  <2>1. handled \in Seq(Commands) /\ batch \in Seq(Commands) /\ rest \in Seq(Commands)
    BY <1>2, <1>3
  <2>2. \A s, t, u \in Seq(Commands) : (s \o t) \o u = s \o (t \o u)
    BY ConcatAssociative
  <2> QED
    BY <2>1, <2>2, Zenon
<1> QED
  BY <1>1, <1>4, <1>5

(* A restart loses the queue and what is on its way into it.               *)
LEMMA StartServes ==
  ASSUME IInv, OnceAccepted, ServedInOrder, Start
  PROVE  OnceAccepted' /\ ServedInOrder'
<1> DEFINE more == {c \in Commands : submitter[c] = "putting"}
<1>1. /\ accepted \in Seq(Commands) /\ queue \in Seq(Commands) /\ handled \in Seq(Commands)
      /\ orphans \subseteq Commands
  BY DEF IInv, TypeOK
<1>2. /\ queue' = << >> /\ orphans' = orphans \cup ToSet(queue) \cup more
      /\ accepted' = accepted /\ handled' = handled /\ submitter' = submitter
  BY DEF Start
<1>3. \A c \in orphans' : submitter[c] # "idle"
  <2>1. \A c \in ToSet(queue) : c \in Commands /\ submitter[c] # "idle"
    BY <1>1 DEF IInv, IdleIsNowhere, ToSet
  <2> QED
    BY <1>2, <2>1 DEF OnceAccepted
<1>4. OnceAccepted'
  BY <1>2, <1>3 DEF OnceAccepted
<1>5. PICK place : Matches(place, handled \o queue, accepted, orphans)
  BY ServedIsMatched
<1>6. \A i \in DOMAIN accepted : accepted[i] \notin more
  BY DEF OnceAccepted
<1> HIDE DEF more
<1>7. \E p : Matches(p, handled, accepted, orphans \cup ToSet(queue) \cup more)
  BY <1>1, <1>5, <1>6, MatchCut DEF OnceAccepted
<1>8. handled' \o queue' = handled
  BY <1>1, <1>2
<1> QED
  BY <1>2, <1>4, <1>7, <1>8, ServedIsMatched

(* Every step keeps the order of service.                                  *)
LEMMA OrderStep ==
  IInv /\ OnceAccepted /\ ServedInOrder /\ [Next]_vars => OnceAccepted' /\ ServedInOrder'
<1> SUFFICES ASSUME IInv, OnceAccepted, ServedInOrder, [Next]_vars
             PROVE  OnceAccepted' /\ ServedInOrder'
  OBVIOUS
<1>1. /\ submitter \in [Commands -> {"idle", "putting", "waiting", "cancelled", "answered"}]
      /\ accepted \in Seq(Commands) /\ orphans \subseteq Commands
  BY DEF IInv, TypeOK
<1>2. ASSUME UNCHANGED <<accepted, orphans>>, handled' \o queue' = handled \o queue,
             \A c \in Commands : submitter'[c] = "idle" => submitter[c] = "idle",
             \A c \in Commands : submitter'[c] = "putting" =>
                                   submitter[c] \in {"idle", "putting"}
      PROVE  OnceAccepted' /\ ServedInOrder'
  <2>1. \A i \in DOMAIN accepted : accepted[i] \in Commands
    BY <1>1
  <2>2. OnceAccepted'
    BY <1>1, <1>2, <2>1 DEF OnceAccepted
  <2> QED
    BY <1>2, <2>2, ServedIsMatched
<1>3. ASSUME NEW c \in Commands, Submit(c) PROVE OnceAccepted' /\ ServedInOrder'
  <2>1. CASE Room /\ Enqueued(c)
    <3>1. c \notin orphans /\ submitter[c] = "idle" /\ UNCHANGED <<orphans, handled>>
      BY <1>3 DEF Submit, OnceAccepted
    <3> QED
      BY <2>1, <3>1, EnqueueServes
  <2>2. CASE ~Room /\ submitter' = [submitter EXCEPT ![c] = "putting"]
             /\ UNCHANGED <<queue, accepted>>
    <3>1. UNCHANGED <<handled, orphans>> /\ submitter[c] = "idle"
      BY <1>3 DEF Submit
    <3> QED
      BY <1>1, <1>2, <2>2, <3>1
  <2> QED
    BY <1>3, <2>1, <2>2 DEF Submit
<1>4. ASSUME NEW c \in Commands, PutLater(c) PROVE OnceAccepted' /\ ServedInOrder'
  BY <1>4, EnqueueServes DEF PutLater
<1>5. ASSUME NEW c \in Commands, Receive(c) \/ Cancel(c)
      PROVE  OnceAccepted' /\ ServedInOrder'
  BY <1>1, <1>2, <1>5 DEF Receive, Cancel
<1>6. CASE Drain
  <2>1. UNCHANGED <<submitter, accepted, orphans>>
    BY <1>6 DEF Drain
  <2> QED
    BY <1>2, <1>6, <2>1, DrainServes
<1>7. CASE Stop \/ UNCHANGED vars
  BY <1>2, <1>7 DEF Stop, vars
<1>8. CASE Start
  BY <1>8, StartServes
<1> QED
  BY <1>3, <1>4, <1>5, <1>6, <1>7, <1>8 DEF Next

(* _run serves the commands in the order they entered the queue, each once
   and none passed over, for any number of commands and any capacity, across
   blocked puts, cancelled submitters, a dead worker and restarts.          *)
THEOREM ServiceIsInOrder == Spec => []ServedInOrder
<1>1. Init => OnceAccepted /\ ServedInOrder
  <2> SUFFICES ASSUME Init PROVE OnceAccepted /\ ServedInOrder
    OBVIOUS
  <2>1. /\ accepted = << >> /\ handled = << >> /\ queue = << >> /\ orphans = {}
        /\ handled \o queue = << >> /\ DOMAIN << >> = {}
    BY DEF Init
  <2>2. OnceAccepted
    BY <2>1 DEF OnceAccepted
  <2>3. Matches(<< >>, << >>, << >>, {})
    <3>1. << >> \in [{} -> {}]
      OBVIOUS
    <3> QED
      BY <2>1, <3>1 DEF Matches
  <2>4. \E place : Matches(place, handled \o queue, accepted, orphans)
    BY <2>1, <2>3
  <2> QED
    BY <2>2, <2>4, ServedIsMatched
<1> QED
  BY <1>1, InitInv, NextInv, OrderStep, PTL DEF Spec

=============================================================================
