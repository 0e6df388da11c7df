---------------------------- MODULE Surveillance ----------------------------
(***************************************************************************)
(* backend/limitx/analytics/surveillance.py: the alerts that a scan of the *)
(* last events of a book raises.  Of the events those are here that a scan *)
(* reads; their numbers count the others too.  No two have one number, so  *)
(* the lists of the code are sets here, in the order of the numbers.  The  *)
(* logical time of an event is its number, in microseconds.                *)
(***************************************************************************)
EXTENDS Integers, FiniteSetsExt

CONSTANTS
  Window,      \* how many events a scan looks at
  Thresholds,  \* the numbers in the rules
  Unknown      \* "unknown": the name orders accepted before the window go by; accounts may have it

ASSUME WindowAssumption == Window \in Nat \ {0}
ASSUME ThresholdsAssumption ==
  Thresholds \in [adds : Nat \ {0}, cancel_percent : Nat, replacements : Nat \ {0},
                  large : Nat, quick : Nat, quick_cancels : Nat \ {0},
                  limit_adds : Nat \ {0}, prices : Nat, layer_percent : Nat,
                  levels : Nat, swept : Nat]

(* Mutant: the first events of the window's size.                          *)
EarliestEvents(events, number) == {e \in events : e.sequence <= Window}

Recent(events, number) == {e \in events : e.sequence > number - Window}

OfType(recent, type) == {e \in recent : e.type = type}

Adds(recent, account) == {e \in OfType(recent, "ORDER_ACCEPTED") : e.account = account}

Orders(events) == {e.id : e \in events}

(* Mutant: whose order it is, is looked up among the adds of all accounts.  *)
AboutAnyone(recent, type, account) ==
  {e \in OfType(recent, type) : e.id \in Orders(OfType(recent, "ORDER_ACCEPTED"))}

Placed(recent, id) == id \in Orders(OfType(recent, "ORDER_ACCEPTED"))

(* An event of an order that was accepted before the window is Unknown's,
   and the account of that name is charged with it.                         *)
About(recent, type, account) ==
  {e \in OfType(recent, type) :
     \/ e.id \in Orders(Adds(recent, account))
     \/ account = Unknown /\ ~Placed(recent, e.id)}

LastOf(events, n) ==
  {e \in events : Cardinality({f \in events : f.sequence > e.sequence}) < n}

Alert(rule, participant, evidence, count, of) ==
  [rule |-> rule, participant |-> participant, evidence |-> evidence,
   count |-> count, of |-> of]

AtLeast(part, percent, whole) == 100 * part >= percent * whole

HighCancelRatio(recent, account) ==
  LET adds == Adds(recent, account)
      cancels == About(recent, "ORDER_CANCELLED", account)
  IN {a \in {Alert("HIGH_CANCEL_RATIO", account, LastOf(adds, 3) \cup LastOf(cancels, 3),
                   Cardinality(cancels), Cardinality(adds))} :
        /\ a.of >= Thresholds.adds
        /\ AtLeast(a.count, Thresholds.cancel_percent, a.of)}

RapidReplacement(recent, account) ==
  LET replacements == About(recent, "ORDER_MODIFIED", account)
  IN {a \in {Alert("RAPID_REPLACEMENT", account, LastOf(replacements, 6),
                   Cardinality(replacements), Cardinality(replacements))} :
        a.count >= Thresholds.replacements}

(* A cancellation is that of a remainder as well as a user's.              *)
QuickCancels(recent, account) ==
  {add \in Adds(recent, account) :
     /\ add.limit /\ add.quantity >= Thresholds.large
     /\ \E e \in OfType(recent, "ORDER_CANCELLED") :
          e.id = add.id /\ e.sequence - add.sequence <= Thresholds.quick}

SpoofingLike(recent, account) ==
  LET quick == QuickCancels(recent, account)
  IN {a \in {Alert("SPOOFING_LIKE_QUICK_CANCEL", account, LastOf(quick, 6),
                   Cardinality(quick), Cardinality(quick))} :
        a.count >= Thresholds.quick_cancels}

LayeringLike(recent, account) ==
  LET adds == Adds(recent, account)
      limits == {e \in adds : e.limit}
      cancels == About(recent, "ORDER_CANCELLED", account)
  IN {a \in {Alert("LAYERING_LIKE_BURST", account, LastOf(limits, 6),
                   Cardinality(cancels), Cardinality(adds))} :
        /\ Cardinality(limits) >= Thresholds.limit_adds
        /\ Cardinality({e.price : e \in limits}) >= Thresholds.prices
        /\ AtLeast(a.count, Thresholds.layer_percent, a.of)}

(* The trades of one taker, of one command or of several.                  *)
LargeSweep(recent, id) ==
  LET sweep == {e \in OfType(recent, "TRADE_EXECUTED") : e.id = id}
      first == CHOOSE e \in sweep : \A f \in sweep : e.sequence <= f.sequence
      swept == MapThenSumSet(LAMBDA e : e.quantity, sweep)
  IN {a \in {Alert("LARGE_SWEEP", first.account, LastOf(sweep, 8), swept, swept)} :
        /\ Cardinality({e.price : e \in sweep}) >= Thresholds.levels
        /\ a.count >= Thresholds.swept}

(* scan().                                                                 *)
Alerts(events, number) ==
  LET recent == Recent(events, number)
      accounts == {e.account : e \in OfType(recent, "ORDER_ACCEPTED")}
  IN (UNION {HighCancelRatio(recent, a) \cup RapidReplacement(recent, a)
               \cup SpoofingLike(recent, a) \cup LayeringLike(recent, a) : a \in accounts})
     \cup (UNION {LargeSweep(recent, id) : id \in Orders(OfType(recent, "TRADE_EXECUTED"))})
=============================================================================
