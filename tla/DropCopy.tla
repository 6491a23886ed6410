------------------------------ MODULE DropCopy ------------------------------
(***************************************************************************)
(* The drop-copy stream of one account: DropCopyUsdM, and DropCopyCoinM    *)
(* whose connection handling is the same line by line.                     *)
(*                                                                         *)
(* One web-socket.  A session is Connected, Ready, login, subscribe to     *)
(* accounts-orders-positions (AOP), query the orders whose state is        *)
(* unknown, query the fills, READY.  core::Download2 drives the last four: *)
(* begin() enters the first state, the download() callback of a state      *)
(* returns how many answers the state waits for, check(s) counts one if s  *)
(* is the current state, and the next state is entered when none are left. *)
(* The queries themselves are sent by the order-entry stream, through the  *)
(* slots of module Request, and it is the timer that notices the answers.  *)
(*                                                                         *)
(* Clocks are abstracted to the outcome of a comparison: the timer is told *)
(* whether the next check for stale orders is due.  logon_timeout_ is      *)
(* written and never read, the ping changes nothing: both are left out.    *)
(***************************************************************************)
EXTENDS Request

CONSTANTS
    RetryLogon,     \* flag experimental.retry_logon
    TradesLookback  \* whether flag download.trades_lookback is non-zero

ASSUME DropCopyAssumption == RetryLogon \in BOOLEAN /\ TradesLookback \in BOOLEAN

VARIABLES
    socket,            \* the web-socket, as the client's callbacks tell it
    session,           \* the two requests of a session, by request id
    connection_status, \* connection_status_
    download           \* download_.state()

dropCopyVars == <<socket, session, connection_status, download>>

Socket == {"down", "connected", "up", "closing"}
RequestId == {"AUTH", "AOP"}
Progress == {"idle", "sent", "answered", "refused"}
ConnectionStatus == {"DISCONNECTED", "LOGIN_SENT", "DOWNLOADING", "READY"}
State == {"UNDEFINED", "SUBSCRIBE_AOP", "GET_STALE_ORDERS", "GET_TRADES", "DONE"}
UpdateType == {"SNAPSHOT", "INCREMENTAL"}

NewSession == [id \in RequestId |-> "idle"]

DropCopyInit ==
    /\ socket = "down"
    /\ session = NewSession
    /\ connection_status = "DISCONNECTED"
    /\ download = "UNDEFINED"

DropCopyTypeOK ==
    /\ socket \in Socket
    /\ session \in [RequestId -> Progress]
    /\ connection_status \in ConnectionStatus
    /\ download \in State

-----------------------------------------------------------------------------
(* The download() callback, one operator per state that is entered.  Each  *)
(* determines download, connection_status and the slots it may request.    *)

EnterSubscribeAop ==
    /\ download' = "SUBSCRIBE_AOP"
    /\ connection_status' = "DOWNLOADING"
    /\ session' = [session EXCEPT !["AUTH"] = "answered", !["AOP"] = "sent"]

EnterDone ==
    /\ download' = "DONE"
    /\ connection_status' = "READY"

\* No fills are asked for when there is no look-back.
EnterGetTrades ==
    \/ /\ TradesLookback
       /\ download' = "GET_TRADES"
       /\ connection_status' = "DOWNLOADING"
       /\ trades' = Requested(trades)
    \/ /\ ~TradesLookback
       /\ EnterDone
       /\ UNCHANGED trades

\* The noted orders as the download finds them: they were collected before.
\* Mutant: the download is told first.
NotedOrdersToldFirst == details_stale_orders

NotedOrders == details_stale_orders'

\* No orders are asked for when none are lost.
EnterGetStaleOrders ==
    \/ /\ NotedOrders # {}
       /\ download' = "GET_STALE_ORDERS"
       /\ connection_status' = "DOWNLOADING"
       /\ stale_orders' = Requested(stale_orders)
       /\ UNCHANGED trades
    \/ /\ NotedOrders = {}
       /\ EnterGetTrades
       /\ UNCHANGED stale_orders

-----------------------------------------------------------------------------
(* The web-socket client's callbacks.                                      *)

Connected ==
    /\ Alive
    /\ socket = "down"
    /\ socket' = "connected"
    /\ UNCHANGED <<session, connection_status, download, requestVars, cacheVars, fatal>>

\* The handler sends the login.
SocketReady ==
    /\ Alive
    /\ socket = "connected"
    /\ socket' = "up"
    /\ connection_status' = "LOGIN_SENT"
    /\ session' = [session EXCEPT !["AUTH"] = "sent"]
    /\ UNCHANGED <<download, requestVars, cacheVars, fatal>>

\* Answers that are still under way are lost with the socket.  The download
\* keeps its state.
Disconnected ==
    /\ Alive
    /\ socket # "down"
    /\ socket' = "down"
    /\ session' = NewSession
    /\ connection_status' = "DISCONNECTED"
    /\ UNCHANGED <<download, requestVars, cacheVars, fatal>>

\* The answer to the login.
AuthAck(success) ==
    /\ Alive
    /\ socket = "up"
    /\ session["AUTH"] = "sent"
    /\ \/ /\ success
          /\ EnterSubscribeAop
          /\ UNCHANGED <<socket, fatal>>
       \/ /\ ~success
          /\ session' = [session EXCEPT !["AUTH"] = "refused"]
          /\ socket' = IF RetryLogon THEN "closing" ELSE socket
          /\ fatal' = IF RetryLogon THEN fatal ELSE "logon"
          /\ UNCHANGED <<download, connection_status>>
    /\ UNCHANGED <<requestVars, cacheVars>>

\* check_stale_orders() without a trace: the stale orders are noted.
CollectStaleOrders == details_stale_orders' = details_stale_orders \union stale

\* The answer to the subscription.  A refused one is only logged.  The stale
\* orders are collected before the download is told.
AopAck(success) ==
    /\ Alive
    /\ socket = "up"
    /\ session["AOP"] = "sent"
    /\ session' = [session EXCEPT !["AOP"] = IF success THEN "answered" ELSE "refused"]
    /\ CollectStaleOrders
    /\ IF download = "SUBSCRIBE_AOP"
       THEN EnterGetStaleOrders
       ELSE UNCHANGED <<download, connection_status, stale_orders, trades>>
    /\ UNCHANGED <<socket, cacheVars, fatal>>

\* An AOP message lists orders that are open and orders that are complete.
\* A snapshot is read for the open ones only.
AopMessage(type, open, complete) ==
    /\ Alive
    /\ socket = "up"
    /\ session["AOP"] \in {"sent", "answered"}
    /\ open \intersect complete = {}
    /\ Dispatch(IF type = "SNAPSHOT" THEN open ELSE open \union complete)
    /\ UNCHANGED <<dropCopyVars, requestVars, forgotten, fatal>>

-----------------------------------------------------------------------------
(* The timer.                                                              *)

\* check_request_queue(): the answers the download waits for have arrived.
CheckRequestQueue ==
    \/ /\ download = "GET_STALE_ORDERS"
       /\ HasResponse(stale_orders)
       /\ IF details_stale_orders = {}
          THEN EnterGetTrades /\ UNCHANGED fatal
          ELSE fatal' = "details" /\ UNCHANGED <<download, connection_status, trades>>
    \/ /\ download = "GET_TRADES"
       /\ HasResponse(trades)
       /\ EnterDone
       /\ UNCHANGED <<trades, fatal>>
    \/ /\ download = "GET_STALE_ORDERS" => ~HasResponse(stale_orders)
       /\ download = "GET_TRADES" => ~HasResponse(trades)
       /\ UNCHANGED <<download, connection_status, trades, fatal>>

\* Orders that were not noted before are requested.
\* Mutant: the request is forgotten.
RequestNever == UNCHANGED stale_orders

RequestIfNew ==
    stale_orders' = IF stale \subseteq details_stale_orders
                    THEN stale_orders ELSE Requested(stale_orders)

\* check_stale_orders(trace_info): orders that got lost since the last check
\* are noted and requested.  The first half of the timer may just have made
\* the stream ready.
CheckStaleOrders(due) ==
    IF fatal' = "none" /\ connection_status' = "READY" /\ due
    THEN /\ CollectStaleOrders
         /\ RequestIfNew
    ELSE UNCHANGED <<details_stale_orders, stale_orders>>

DropCopyTimer(due) ==
    /\ Alive
    /\ socket = "up"
    /\ CheckRequestQueue
    /\ CheckStaleOrders(due)
    /\ UNCHANGED <<socket, session, cacheVars>>

-----------------------------------------------------------------------------
DropCopyNext ==
    \/ Connected
    \/ SocketReady
    \/ Disconnected
    \/ \E success \in BOOLEAN : AuthAck(success) \/ AopAck(success)
    \/ \E type \in UpdateType, open, complete \in SUBSET Order :
          AopMessage(type, open, complete)
    \/ \E due \in BOOLEAN : DropCopyTimer(due)
=============================================================================
