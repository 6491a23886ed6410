----------------------------- MODULE OrderQuery -----------------------------
(***************************************************************************)
(* What the master order-entry stream of an account does for the drop      *)
(* copy: it sends the queries that are pending in the slots of module      *)
(* Request and commits them when they have been answered (OrderEntryUsdM;  *)
(* OrderEntryCoinM is the same line by line).                              *)
(*                                                                         *)
(* The REST client calls back exactly once for a request, with an answer   *)
(* or, when the request timed out or the connection broke, with an error.  *)
(* Whether the rate limiter lets a request pass is not determined here: a  *)
(* timer that may not send is a step that changes nothing.                 *)
(***************************************************************************)
EXTENDS Request, Naturals, FiniteSets

ASSUME OrderFinite == IsFiniteSet(Order)

VARIABLES
    order_entry_status,             \* connection_status_
    download_stale_orders_counter,  \* download_stale_orders_counter_
    asked,                          \* the orders whose query is under way
    fills_asked                     \* the query for fills is under way

orderQueryVars ==
    <<order_entry_status, download_stale_orders_counter, asked, fills_asked>>

\* How a query ends: a row for the order, no row, or an error.
Outcome == {"row", "empty", "error"}

OrderQueryInit ==
    /\ order_entry_status = "DISCONNECTED"
    /\ download_stale_orders_counter = 0
    /\ asked = {}
    /\ fills_asked = FALSE

OrderQueryTypeOK ==
    /\ order_entry_status \in {"DISCONNECTED", "READY"}
    /\ download_stale_orders_counter \in Nat
    /\ asked \in SUBSET Order
    /\ fills_asked \in BOOLEAN

-----------------------------------------------------------------------------
OrderEntryConnected ==
    /\ Alive
    /\ order_entry_status = "DISCONNECTED"
    /\ order_entry_status' = "READY"
    /\ UNCHANGED <<download_stale_orders_counter, asked, fills_asked,
                   requestVars, cacheVars, fatal>>

OrderEntryDisconnected ==
    /\ Alive
    /\ order_entry_status = "READY"
    /\ order_entry_status' = "DISCONNECTED"
    /\ UNCHANGED <<download_stale_orders_counter, asked, fills_asked,
                   requestVars, cacheVars, fatal>>

\* The noted orders are cleared once their queries are sent.
\* Mutant: they are kept.
ClearDetailsForgotten == UNCHANGED details_stale_orders

ClearDetails == details_stale_orders' = {}

\* check_request_queue(), first half: one query per order that was noted and
\* that the cache still knows.
SendStaleOrders ==
    /\ Alive
    /\ order_entry_status = "READY"
    /\ stale_orders.pending
    /\ RequestReady
    /\ stale_orders' = Taken(stale_orders)
    /\ LET found == details_stale_orders \ forgotten
       IN  /\ asked' = asked \union found
           /\ download_stale_orders_counter' =
                download_stale_orders_counter + Cardinality(found)
    /\ ClearDetails
    /\ UNCHANGED <<order_entry_status, fills_asked, trades, cacheVars, fatal>>

\* check_request_queue(), second half.  It is reached in the same call, but
\* ready() is false when the first half has just sent something.
SendTrades ==
    /\ Alive
    /\ order_entry_status = "READY"
    /\ trades.pending
    /\ RequestReady
    /\ trades' = Taken(trades)
    /\ fills_asked' = TRUE
    /\ UNCHANGED <<order_entry_status, download_stale_orders_counter, asked,
                   stale_orders, details_stale_orders, cacheVars, fatal>>

\* The last answer commits the request.
\* Mutant: every answer does.
AfterAnswerAlways(slot) == Committed(slot)

AfterAnswer(slot) ==
    IF download_stale_orders_counter = 1 THEN Committed(slot) ELSE slot

\* Whatever the outcome of a query was, it is counted down.
\* Mutant: an error returns early.
CountDownIfAnswered(outcome) ==
    /\ IF outcome = "error"
       THEN UNCHANGED <<download_stale_orders_counter, stale_orders>>
       ELSE /\ download_stale_orders_counter' = download_stale_orders_counter - 1
            /\ stale_orders' = AfterAnswer(stale_orders)
    /\ UNCHANGED fatal

CountDown(outcome) ==
    IF download_stale_orders_counter > 0
    THEN /\ download_stale_orders_counter' = download_stale_orders_counter - 1
         /\ stale_orders' = AfterAnswer(stale_orders)
         /\ UNCHANGED fatal
    ELSE /\ fatal' = "counter"
         /\ UNCHANGED <<download_stale_orders_counter, stale_orders>>

\* get_order_ack(): only a row says what became of the order.
GetOrderAck(order, outcome) ==
    /\ Alive
    /\ order \in asked
    /\ outcome # "error" => order_entry_status = "READY"
    /\ asked' = asked \ {order}
    /\ Dispatch(IF outcome = "row" THEN {order} ELSE {})
    /\ CountDown(outcome)
    /\ UNCHANGED <<order_entry_status, fills_asked, trades,
                   details_stale_orders, forgotten>>

\* get_user_fills_ack(): the answer is only logged.
\* Mutant: the counter of the other query is decremented here as well.
GetUserFillsAckCounts ==
    /\ Alive
    /\ fills_asked
    /\ fills_asked' = FALSE
    /\ trades' = Committed(trades)
    /\ download_stale_orders_counter' = download_stale_orders_counter - 1
    /\ UNCHANGED <<order_entry_status, asked, stale_orders, details_stale_orders,
                   cacheVars, fatal>>

GetUserFillsAck ==
    /\ Alive
    /\ fills_asked
    /\ fills_asked' = FALSE
    /\ trades' = Committed(trades)
    /\ UNCHANGED <<order_entry_status, download_stale_orders_counter, asked,
                   stale_orders, details_stale_orders, cacheVars, fatal>>

OrderQueryNext ==
    \/ OrderEntryConnected
    \/ OrderEntryDisconnected
    \/ SendStaleOrders
    \/ SendTrades
    \/ \E order \in Order, outcome \in Outcome : GetOrderAck(order, outcome)
    \/ GetUserFillsAck
=============================================================================
