--------------------------- MODULE OrderRecovery ---------------------------
(***************************************************************************)
(* Recovery of lost orders for one account: the drop copy, the master      *)
(* order-entry stream, and the request slots and the order cache they      *)
(* share.  The gateway runs on one thread: a step is one callback.         *)
(***************************************************************************)
EXTENDS DropCopy, OrderQuery

vars == <<dropCopyVars, orderQueryVars, requestVars, cacheVars, fatal>>

Init == RequestInit /\ DropCopyInit /\ OrderQueryInit

CacheNext == \E order \in Order : LoseTrack(order) \/ Forget(order)

Next ==
    \/ DropCopyNext /\ UNCHANGED orderQueryVars
    \/ OrderQueryNext /\ UNCHANGED dropCopyVars
    \/ CacheNext /\ UNCHANGED <<dropCopyVars, orderQueryVars>>

Spec == Init /\ [][Next]_vars

-----------------------------------------------------------------------------
(* Safety.                                                                 *)

TypeOK == RequestTypeOK /\ DropCopyTypeOK /\ OrderQueryTypeOK

\* The order set and the request slot go together: an order that was noted is
\* one that a pending request will query.  The drop copy writes the two at
\* different times (drop_copy_usd_m.cpp:270 and :219), and an order that was
\* noted without a request would never be asked for: noting it again is no
\* news (drop_copy_usd_m.cpp:534).
NoOrphan == details_stale_orders # {} => stale_orders.pending

\* The counter is the number of queries under way, so that the request is
\* committed by the last answer and by no other (order_entry_usd_m.cpp:720).
CounterMatches == download_stale_orders_counter = Cardinality(asked)

\* Neither log::fatal("Unexpected") is ever reached: not the one of the drop
\* copy when an answer finds orders still noted (drop_copy_usd_m.cpp:514),
\* nor the one of the order entry when there is nothing to count down
\* (order_entry_usd_m.cpp:723).
NoUnexpected == fatal \notin {"details", "counter"}

QueryStarts == asked' \ asked # {} \/ (fills_asked' /\ ~fills_asked)

\* Queries are sent only when the answers to all earlier ones, for orders and
\* for fills, have been received (request.cpp:19).
OneQueryAtATime == [][QueryStarts => asked = {} /\ ~fills_asked]_vars

GoesOn(state, nexts) == download = state /\ download' \in nexts

\* The download leaves a query behind only when it has been answered: no lost
\* order is still to be asked for or being asked for when the stream goes on
\* from GET_STALE_ORDERS, no fills are awaited when it goes on from GET_TRADES
\* (drop_copy_usd_m.cpp:503-527).
DownloadWaits ==
    [][/\ GoesOn("GET_STALE_ORDERS", {"GET_TRADES", "DONE"})
            => details_stale_orders = {} /\ asked = {}
       /\ GoesOn("GET_TRADES", {"DONE"}) => ~trades.pending /\ ~fills_asked]_vars

\* The cache has dropped every order that was to be queried: nothing was sent,
\* and no answer will commit the request (order_entry_usd_m.cpp:823).
Emptied == stale_orders.waiting /\ download_stale_orders_counter = 0

\* What a download that waits for a query waits for: that it is sent, that it
\* is answered, or that the timer sees the answer.
StaleOrdersMove ==
    stale_orders.pending \/ asked # {} \/ HasResponse(stale_orders) \/ Emptied

TradesMove == trades.pending \/ fills_asked \/ HasResponse(trades)

\* No session comes to a halt on its way to READY, whatever earlier sessions left
\* in download, slots and counter: a request of the session is under way, or the
\* download is in a state whose query moves on; and a query that may not be sent
\* yet waits for another that will be answered.  The slots outlive the session,
\* nothing else would ever tell the download (drop_copy_usd_m.cpp:161, 503-527;
\* request.cpp:19; order_entry_usd_m.cpp:714-728).  Emptied is the one dead end.
NeverStuck ==
    /\ Alive /\ socket = "up" /\ connection_status # "READY" =>
         \/ \E id \in RequestId : session[id] = "sent"
         \/ download = "GET_STALE_ORDERS" /\ StaleOrdersMove
         \/ download = "GET_TRADES" /\ TradesMove
    /\ ~RequestReady => asked # {} \/ fills_asked \/ Emptied

\* What the comment at drop_copy_usd_m.cpp:270 asks for, the stale orders are
\* checked before the download is told, read for the session as a whole: a
\* stream that is READY has checked them since it subscribed.
ReadyAfterStaleCheck ==
    connection_status = "READY" => session["AOP"] \in {"answered", "refused"}

\* The inductive invariant behind the safety properties.  Besides NoOrphan and
\* CounterMatches it says who is being served: a slot waits exactly while its
\* query is under way (the order query may also wait for orders that the cache
\* has dropped, see CanVanish), the two never wait together, a slot that has
\* been answered does not wait, and a subscription that is under way is what
\* the download waits for.
IInv ==
    /\ TypeOK
    /\ NoOrphan
    /\ CounterMatches
    /\ NoUnexpected
    /\ asked # {} => stale_orders.waiting
    /\ fills_asked <=> trades.waiting
    /\ ~(stale_orders.waiting /\ trades.waiting)
    /\ stale_orders.answered => ~stale_orders.waiting
    /\ trades.answered => ~trades.waiting
    /\ session["AOP"] = "sent" => download = "SUBSCRIBE_AOP"

-----------------------------------------------------------------------------
(* Liveness.                                                               *)

\* What the environment does to the gateway that it may do only finitely often
\* for the recovery to complete.
Disturbance ==
    \/ socket # "closing" /\ Disconnected
    \/ AuthAck(FALSE)
    \/ OrderEntryDisconnected
    \/ \E order \in Order : GetOrderAck(order, "empty") \/ GetOrderAck(order, "error")
    \/ \E order \in Order : Forget(order)

\* The framework's event loop delivers every callback and every timer, the
\* exchange answers every request, the rate limiter lets a request that is
\* made again and again pass in the end.
Fairness ==
    /\ WF_vars(Connected /\ UNCHANGED orderQueryVars)
    /\ WF_vars(SocketReady /\ UNCHANGED orderQueryVars)
    /\ WF_vars(socket = "closing" /\ Disconnected /\ UNCHANGED orderQueryVars)
    /\ WF_vars(\E success \in BOOLEAN : AuthAck(success) /\ UNCHANGED orderQueryVars)
    /\ WF_vars(\E success \in BOOLEAN : AopAck(success) /\ UNCHANGED orderQueryVars)
    /\ WF_vars(DropCopyTimer(TRUE) /\ UNCHANGED orderQueryVars)
    /\ WF_vars(OrderEntryConnected /\ UNCHANGED dropCopyVars)
    /\ SF_vars(SendStaleOrders /\ UNCHANGED dropCopyVars)
    /\ SF_vars(SendTrades /\ UNCHANGED dropCopyVars)
    /\ WF_vars(\E order \in Order, outcome \in Outcome :
                 GetOrderAck(order, outcome) /\ UNCHANGED dropCopyVars)
    /\ WF_vars(GetUserFillsAck /\ UNCHANGED dropCopyVars)

LiveSpec == Spec /\ Fairness

EventuallyCalm == <>[][~Disturbance]_vars /\ <>[]~Emptied

\* Once the connections hold, the login is accepted and the queries are
\* answered, the stream becomes READY and stays so: no state of the download
\* waits for an answer that nobody will notice or for a request that nobody
\* will send, whatever state the disturbances left the slots in, unless there
\* was nothing left to query.
BecomesReady == EventuallyCalm => <>[](connection_status = "READY")

\* ... and an order the cache has lost track of is found again, even if orders
\* keep getting lost.
LostOrdersAreFound ==
    EventuallyCalm => \A order \in Order : order \in stale ~> order \notin stale
=============================================================================
