---------------------------- MODULE Explanation -----------------------------
(***************************************************************************)
(* What backend/limitx/analytics/explain.py tells a user of an order: the  *)
(* book with the journal's events that mention each order, and the         *)
(* sentence that is chosen from them and from the order's state.           *)
(*                                                                         *)
(* An event is its type, or the reason it carries where there is one.      *)
(* Trades are those of the book; a book has one journal.                   *)
(***************************************************************************)
EXTENDS OrderBook, SequencesExt

VARIABLE evidence   \* the events that mention an order, trades left out

Policies == {"UNFILLED_REMAINDER", "SELF_TRADE_PREVENTION"}
Reasons == {"FOK_NOT_FILLABLE", "POST_ONLY_WOULD_TRADE"}
Events == {"ORDER_ACCEPTED", "ORDER_REJECTED", "RISK_REJECTED", "ORDER_MODIFIED",
           "CANCEL_REJECTED", "MODIFY_REJECTED", "USER_REQUEST"} \cup Policies \cup Reasons

Mentioned(id, event) == evidence' = [evidence EXCEPT ![id] = Append(@, event)]

-----------------------------------------------------------------------------
(* The events of the journal.                                              *)

ReasonOf(id, r) ==
  IF Invalid(id, r) THEN "ORDER_REJECTED"
  ELSE IF r.tif = "FOK" THEN "FOK_NOT_FILLABLE" ELSE "POST_ONLY_WOULD_TRADE"

CommandWithEvents ==
  \E id \in OrderIds :
    \/ \E r \in Requests :
         \/ Accept(id, r) /\ Mentioned(id, "ORDER_ACCEPTED")
         \/ RejectSubmit(id, r) /\ Mentioned(id, ReasonOf(id, r))
    \/ \E r \in RiskRequests : RejectByRisk(id, r) /\ Mentioned(id, "RISK_REJECTED")
    \/ \E who \in Accounts \cup {None} :
         \/ Cancel(id, who) /\ Mentioned(id, "USER_REQUEST")
         \/ RejectCancel(id, who) /\ Mentioned(id, "CANCEL_REJECTED")
    \/ \E who \in Accounts \cup {None}, q \in ModifyQuantities, p \in ModifyPrices :
         \/ /\ ModifyInPlace(id, who, q, p) \/ ModifyAndRequeue(id, who, q, p)
            /\ Mentioned(id, "ORDER_MODIFIED")
         \/ RejectModify(id, who, q, p) /\ Mentioned(id, "MODIFY_REJECTED")

MatchWithEvents ==
  \/ PreventSelfTrade /\ Mentioned(incoming, "SELF_TRADE_PREVENTION")
  \/ CancelRemainder /\ Mentioned(incoming, "UNFILLED_REMAINDER")
  \/ (Trade \/ CompleteFilled \/ RestRemainder) /\ UNCHANGED evidence

ExplainedInit == Init /\ evidence = [id \in OrderIds |-> << >>]

ExplainedSpec ==
  ExplainedInit /\ [][CommandWithEvents \/ MatchWithEvents]_<<vars, evidence>>

-----------------------------------------------------------------------------
(* explain_order.                                                          *)

Traded(id) == \E k \in DOMAIN trades : id \in {trades[k].maker, trades[k].taker}

Refusals(id) ==
  SelectSeq(evidence[id], LAMBDA e : e \in {"ORDER_REJECTED", "RISK_REJECTED"} \cup Reasons)

Rejection(id) == IF Refusals(id) = << >> THEN "none" ELSE Head(Refusals(id))

IsLive(id) == Known(id) /\ orders[id].status \notin Terminal

IsCancelled(id) == Known(id) /\ orders[id].status = "CANCELLED"

Lifecycle(id) ==
  CASE Traded(id) /\ IsLive(id) /\ orders[id].remaining > 0 -> "traded, rests"
    [] Traded(id) /\ IsCancelled(id) -> "traded, remainder cancelled by time in force"
    [] Traded(id) /\ ~IsLive(id) /\ ~IsCancelled(id) -> "traded"
    [] ~Traded(id) /\ IsLive(id) -> "rests"
    [] ~Traded(id) /\ IsCancelled(id) -> "rested, cancelled by its user"
    [] OTHER -> "no execution"

Sentence(id) ==
  CASE Rejection(id) \in Reasons \cup {"RISK_REJECTED"} -> Rejection(id)
    [] OTHER -> Lifecycle(id)

-----------------------------------------------------------------------------
(* "the lifecycle service deterministically explains FOK eligible quantity,
   [...] IOC remainder cancellation, [...] and direct cancellation from
   journal facts" (docs/ai-grounding.md:29): an order said to have been
   cancelled by its time in force, or by its user, was.                    *)
CancellationsExplained ==
  incoming = None =>
    \A id \in OrderIds :
      /\ Sentence(id) = "traded, remainder cancelled by time in force" =>
           Contains(evidence[id], "UNFILLED_REMAINDER")
      /\ Sentence(id) = "rested, cancelled by its user" =>
           Contains(evidence[id], "USER_REQUEST")
=============================================================================
