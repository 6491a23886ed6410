--------------------------- MODULE OrderLifecycle ---------------------------
(***************************************************************************)
(* One order from the request to the last report, with everything that     *)
(* tells the order-management cache about it: the answers over REST, which *)
(* are late, lost or pending only, the accounts-orders-positions feed,     *)
(* whose messages are lost when the connection is, its snapshots, and the  *)
(* queries for lost orders.  The order is one that a client creates, or    *)
(* one that was there before the gateway was started.                      *)
(*                                                                         *)
(* The exchange numbers what happens to an order in transactTimeNs.  The   *)
(* cache keeps the newer of two updates (index.rst:239), and takes an      *)
(* order for stale unless the feed has confirmed it since it was           *)
(* subscribed, or a query sent since then.  When the queries are sent, and *)
(* that every order that was noted is queried, is the subject of           *)
(* OrderRecovery.                                                          *)
(***************************************************************************)
EXTENDS OrderReports, Sequences

CONSTANTS
    Quantity,     \* of the order
    ValueFactor,  \* Currency::value_factor (COIN-M)
    Short,        \* how short the position is before the order
    Owing         \* the positions to which a negative balance is assigned

ASSUME QuantityAssumption == Quantity \in Nat \ {0}
ASSUME ValueFactorAssumption == ValueFactor \in Nat \ {0}
ASSUME PositionAssumption == Short \in Int /\ Owing \subseteq Int

VARIABLES
    api,         \* shared_.api.type
    security,    \* whether the product is in the security table (COIN-M)
    own,         \* whether the order was created by a client of this gateway
    exchange,    \* the order at the exchange
    cancelling,  \* a cancel was accepted
    before,      \* the position before the order
    travelling,  \* the requests on their way to the exchange
    replies,     \* the answers on their way back
    query_old,   \* the query under way was sent in an earlier session of the feed
    feed,        \* the session of the feed
    view,        \* the order in the order-management cache
    confirmed,   \* since the feed was subscribed
    noted,       \* the order is in details_stale_orders
    fills,       \* the download of fills in this session
    told,        \* the quantity in the fills that were told as new
    position,    \* the position that was told last, long less short
    funds,       \* ... and the balance
    gap          \* auxiliary: the feed was down since the order is there

exchangeVars == <<exchange, cancelling, before>>
omsVars == <<view, confirmed>>
vars == <<api, security, own, exchangeVars, travelling, replies, query_old, feed, omsVars,
          noted, fills, told, position, funds, gap>>

None == [none |-> TRUE]

Order(status, cum, time) ==
    [ordStatus |-> status, cumQty |-> cum, leavesQty |-> Quantity - cum,
     transactTimeNs |-> time, tradeType |-> "NONE",
     execStatus |-> "NEW", execQty |-> 0]

Init ==
    /\ api \in {"USD_M", "COIN_M"}
    /\ security = FALSE
    /\ own = FALSE
    /\ exchange \in {None, Order("NEW", 0, 2)}
    /\ cancelling = FALSE
    /\ before = -Short
    /\ travelling = {}
    /\ replies = {}
    /\ query_old = FALSE
    /\ feed = [up |-> FALSE, queue |-> <<>>]
    /\ view = None
    /\ confirmed = FALSE
    /\ noted = FALSE
    /\ fills = "none"
    /\ told = 0
    /\ position = 0
    /\ funds = 0
    /\ gap = FALSE

-----------------------------------------------------------------------------
(* Messages of the exchange.                                               *)

\* What kind of trade: one that is expected, and any other.
ExecStatus == {"TAKER_FILL", "ABORTED"}

\* The terms of the order do not matter here, see OrderTerms.
Message(order) ==
    [ordStatus |-> order.ordStatus, cumQty |-> order.cumQty, leavesQty |-> order.leavesQty,
     transactTimeNs |-> order.transactTimeNs, tradeType |-> order.tradeType,
     execStatus |-> order.execStatus, execQty |-> order.execQty, execID |-> 1,
     side |-> "BUY", posSide |-> "MERGED", ordType |-> "LIMIT",
     timeInForce |-> "GOOD_TILL_CANCEL",
     price |-> 1, stopPx |-> 0, priceRp |-> 1, stopPxRp |-> 0,
     priceEp |-> PriceFactor, stopPxEp |-> 0]

\* What is assigned to a position of so many units.
Assigned(quantity) ==
    CASE quantity \in Owing -> -1
      [] quantity < 0 -> -3 * quantity
      [] OTHER -> 3 * quantity

PositionItem(quantity) ==
    [side |-> CASE quantity > 0 -> "BUY" [] quantity < 0 -> "SELL" [] OTHER -> "NONE",
     assignedPosBalanceRv |-> Assigned(quantity),
     assignedPosBalanceEv |-> Assigned(quantity) * ValueFactor]

\* What is left on the account.
Balance(quantity) == 10 - quantity

AccountItem(quantity) ==
    [accountBalanceRv |-> Balance(quantity), accountBalanceEv |-> Balance(quantity) * ValueFactor]

Filled == IF exchange = None THEN 0 ELSE exchange.cumQty

Aop(type, order, quantity) ==
    [type |-> type,
     orders |-> IF order = None THEN {} ELSE {Message(order)},
     positions |-> {PositionItem(quantity)},
     accounts |-> {AccountItem(quantity)}]

Push(order) ==
    feed' = IF feed.up
            THEN [feed EXCEPT !.queue = Append(@,
                    Aop("INCREMENTAL", order, before + order.cumQty))]
            ELSE feed

-----------------------------------------------------------------------------
(* The exchange.                                                           *)

Open == exchange # None /\ exchange.ordStatus \in {"NEW", "PARTIALLY_FILLED"}

Happens(order) ==
    /\ exchange' = order
    /\ gap' = (gap \/ ~feed.up)
    /\ UNCHANGED <<api, security, own, before, query_old, omsVars, noted, fills, told, position, funds>>

\* The answers to a create and to a cancel say that they are pending.
ExecuteCreate ==
    /\ "create" \in travelling
    /\ travelling' = travelling \ {"create"}
    /\ Happens(Order("CREATED", 0, 1))
    /\ replies' = replies \union {[type |-> "create", order |-> exchange']}
    /\ UNCHANGED <<cancelling, feed>>

Book ==
    /\ exchange # None
    /\ exchange.ordStatus = "CREATED"
    /\ Happens(Order("NEW", 0, 2))
    /\ Push(exchange')
    /\ UNCHANGED <<cancelling, travelling, replies>>

\* A trade, of a kind that the gateway expects, or of another.
Fill ==
    /\ Open
    /\ \E execStatus \in ExecStatus :
          LET cum == exchange.cumQty + 1
              status == IF cum = Quantity THEN "FILLED" ELSE "PARTIALLY_FILLED"
          IN  Happens([Order(status, cum, exchange.transactTimeNs + 1)
                          EXCEPT !.tradeType = "TRADE", !.execStatus = execStatus,
                                 !.execQty = 1])
    /\ Push(exchange')
    /\ UNCHANGED <<cancelling, travelling, replies>>

\* A cancel of an order that is not open is refused.
ExecuteCancel ==
    /\ "cancel" \in travelling
    /\ travelling' = travelling \ {"cancel"}
    /\ \/ /\ Open
          /\ cancelling' = TRUE
          /\ Happens([exchange EXCEPT !.transactTimeNs = @ + 1])
          /\ replies' = replies \union {[type |-> "cancel", order |-> exchange']}
       \/ /\ ~Open
          /\ Happens(exchange)
          /\ UNCHANGED <<cancelling, replies>>
    /\ UNCHANGED feed

Canceled ==
    /\ Open
    /\ cancelling
    /\ Happens(Order("CANCELED", exchange.cumQty, exchange.transactTimeNs + 1))
    /\ Push(exchange')
    /\ UNCHANGED <<cancelling, travelling, replies>>

ExecuteQuery ==
    /\ "query" \in travelling
    /\ travelling' = travelling \ {"query"}
    /\ replies' = replies \union {[type |-> "query", order |-> exchange]}
    /\ UNCHANGED <<query_old, api, security, own, exchangeVars, feed, omsVars, noted, fills, told,
                   position, funds, gap>>

-----------------------------------------------------------------------------
(* The order-management cache (external).                                   *)

ViewComplete == view # None /\ Complete(view.order_status)

Stale == (own \/ view # None) /\ ~confirmed /\ ~ViewComplete

\* The newer of what is known and of what is told.
Kept(update) ==
    IF view # None /\ view.time >= update.update_time_utc THEN view
    ELSE [order_status |-> update.order_status,
          traded |-> update.traded_quantity,
          time |-> update.update_time_utc]

-----------------------------------------------------------------------------
(* Order entry.                                                            *)

CanCreate == api = "COIN_M" => security

OrdersCreate ==
    /\ exchange = None
    /\ ~own
    /\ CanCreate
    /\ own' = TRUE
    /\ travelling' = travelling \union {"create"}
    /\ UNCHANGED <<query_old, api, security, exchangeVars, replies, feed, omsVars, noted, fills,
                   told, position, funds, gap>>

\* Once, while the cache takes the order for open.
OrdersCancel ==
    /\ ~cancelling
    /\ own \/ view # None
    /\ ~ViewComplete
    /\ travelling' = travelling \union {"cancel"}
    /\ UNCHANGED <<query_old, api, security, own, exchangeVars, replies, feed, omsVars, noted,
                   fills, told, position, funds, gap>>

\* What the answers tell the cache.
Ack(reply) ==
    LET m == Message(reply.order)
    IN  CASE api = "USD_M" /\ reply.type = "create" -> CreateAckUsdM(m)
          [] api = "USD_M" /\ reply.type = "cancel" -> CancelAckUsdM(m)
          [] api = "USD_M" /\ reply.type = "query" -> GetOrderAckUsdM(m)
          [] api = "COIN_M" /\ reply.type = "create" -> CreateAckCoinM(m)
          [] api = "COIN_M" /\ reply.type = "cancel" -> CancelAckCoinM(m)
          [] api = "COIN_M" /\ reply.type = "query" -> GetOrderAckCoinM(m)

OrderAck(reply) ==
    /\ reply.order # None
    /\ replies' = replies \ {reply}
    /\ view' = Kept(Ack(reply))
    /\ confirmed' = (confirmed \/ (reply.type = "query" /\ feed.up /\ ~query_old))
    /\ UNCHANGED <<query_old, api, security, own, exchangeVars, travelling, feed, noted, fills,
                   told, position, funds, gap>>

\* A failure, or an answer without rows.
ErrorAck(reply) ==
    /\ replies' = replies \ {reply}
    /\ UNCHANGED <<query_old, api, security, own, exchangeVars, travelling, feed, omsVars, noted,
                   fills, told, position, funds, gap>>

\* The queries for lost orders and for fills, one at a time.
GetOrder ==
    /\ noted
    /\ noted' = FALSE
    /\ "query" \notin travelling
    /\ \A reply \in replies : reply.type # "query"
    /\ travelling' = travelling \union {"query"}
    /\ query_old' = ~feed.up
    /\ UNCHANGED <<api, security, own, exchangeVars, replies, feed, omsVars, fills, told,
                   position, funds, gap>>

\* The answer is written to the log.
GetUserFills ==
    /\ feed.up
    /\ ~noted
    /\ fills = "none"
    /\ fills' = "asked"
    /\ UNCHANGED <<query_old, api, security, own, exchangeVars, travelling, replies, feed, omsVars,
                   noted, told, position, funds, gap>>

GetUserFillsAck ==
    /\ fills = "asked"
    /\ fills' = "answered"
    /\ UNCHANGED <<query_old, api, security, own, exchangeVars, travelling, replies, feed, omsVars,
                   noted, told, position, funds, gap>>

-----------------------------------------------------------------------------
(* The drop copy and the products.                                          *)

\* find_security()
Found == api = "COIN_M" => security

FeedOrder(m, type) ==
    IF api = "USD_M" THEN FeedOrderUsdM(m, type) ELSE FeedOrderCoinM(m, type)

FeedTrade(m, type) ==
    IF api = "USD_M" THEN TradeUpdateUsdM(m, type) ELSE TradeUpdateCoinM(m, type)

\* The orders of a message that are told.
Reported(message) ==
    IF Found THEN {m \in message.orders : ~Skipped(m, message.type)} ELSE {}

\* The fills of these orders that are told as new.
NewFills(message) ==
    {trade \in {FeedTrade(m, message.type) : m \in {m \in Reported(message) : IsTrade(m)}} :
        trade.update_type = "INCREMENTAL"}

Positions(message) ==
    IF ~Found THEN {}
    ELSE UNION {IF api = "USD_M" THEN PositionsUsdM(m) ELSE PositionsCoinM(m) :
                    m \in message.positions}

\* find_currency(): the same download brings products and currencies.
Funds(message) ==
    IF ~Found THEN {}
    ELSE {IF api = "USD_M" THEN FundsUsdM(m) ELSE FundsCoinM(m, ValueFactor) :
            m \in message.accounts}

\* A trade that is not expected ends the process: nothing comes after it.
AccountsOrdersPositions ==
    /\ feed.queue # <<>>
    /\ \A m \in Reported(Head(feed.queue)) : ~Unexpected(m)
    /\ feed' = [feed EXCEPT !.queue = Tail(@)]
    /\ LET message == Head(feed.queue)
       IN  /\ \/ /\ Reported(message) = {}
                 /\ UNCHANGED omsVars
              \/ \E m \in Reported(message) :
                    /\ view' = Kept(FeedOrder(m, message.type))
                    /\ confirmed' = TRUE
           /\ told' = told + (IF NewFills(message) = {} THEN 0 ELSE 1)
           /\ position' \in IF Positions(message) = {} THEN {position}
                            ELSE {p.long - p.short : p \in Positions(message)}
           /\ funds' \in IF Funds(message) = {} THEN {funds} ELSE Funds(message)
    /\ UNCHANGED <<query_old, api, security, own, exchangeVars, travelling, replies, noted, fills, gap>>

\* The feed is subscribed: the stale orders are noted, the snapshot is on its
\* way.
Subscribed ==
    /\ ~feed.up
    /\ feed' = [up |-> TRUE,
                queue |-> <<Aop("SNAPSHOT", exchange, before + Filled)>>]
    /\ noted' = (noted \/ Stale)
    /\ UNCHANGED <<query_old, api, security, own, exchangeVars, travelling, replies, omsVars, fills,
                   told, position, funds, gap>>

\* What was not delivered is lost.
Disconnected ==
    /\ feed.up
    /\ feed' = [up |-> FALSE, queue |-> <<>>]
    /\ confirmed' = FALSE
    /\ fills' = "none"
    /\ gap' = (gap \/ (own /\ view = None) \/ exchange # None)
    /\ query_old' = TRUE
    /\ UNCHANGED <<api, security, own, exchangeVars, travelling, replies, view, noted,
                   told, position, funds>>

\* The timer.
CheckStaleOrders ==
    /\ feed.up
    /\ Stale
    /\ noted' = TRUE
    /\ UNCHANGED <<query_old, api, security, own, exchangeVars, travelling, replies, feed, omsVars,
                   fills, told, position, funds, gap>>

ProductsAck ==
    /\ security' = TRUE
    /\ UNCHANGED <<query_old, api, own, exchangeVars, travelling, replies, feed, omsVars, noted,
                   fills, told, position, funds, gap>>

Next ==
    \/ ExecuteCreate \/ Book \/ Fill \/ ExecuteCancel \/ Canceled \/ ExecuteQuery
    \/ OrdersCreate \/ OrdersCancel
    \/ \E reply \in replies : OrderAck(reply) \/ ErrorAck(reply)
    \/ GetOrder \/ GetUserFills \/ GetUserFillsAck
    \/ AccountsOrdersPositions \/ Subscribed \/ Disconnected
    \/ CheckStaleOrders \/ ProductsAck

Spec == Init /\ [][Next]_vars
-----------------------------------------------------------------------------
\* Nothing is on its way, and nothing is known to be missing.
Quiet ==
    /\ feed.up
    /\ feed.queue = <<>>
    /\ travelling = {}
    /\ replies = {}
    /\ ~noted
    /\ ~Stale

\* USD-M knows every product.  COIN-M knows those of the orders it lets pass.
Translated == api = "USD_M" \/ own

\* When all is told, the cache has the order as the exchange has it, whatever
\* was late, lost, skipped or told twice: snapshots leave out complete orders,
\* answers are older than the feed, and COIN-M drops what it cannot scale
\* (drop_copy_usd_m.cpp:344, drop_copy_coin_m.cpp:444, order_entry_coin_m.cpp:255).
ViewAgrees ==
    Quiet /\ Translated =>
        IF view = None
        THEN exchange = None \/ Complete(MapOrderStatus(exchange.ordStatus))
        ELSE /\ view.order_status = MapOrderStatus(exchange.ordStatus)
             /\ view.traded = exchange.cumQty

\* Long or short.
Signed(quantity) == IF quantity < 0 THEN -Assigned(quantity) ELSE Assigned(quantity)

\* ... and the clients know the funds and, with USD-M, the position, by what is
\* assigned to it (index.rst:244, "Positions are not reported as lots") unless
\* that is negative; with COIN-M from the first fill on, since the snapshot may
\* have come before the currencies.  Nothing is said of the position with COIN-M,
\* whose unit is open (drop_copy_usd_m.cpp:313-333, 437-462;
\* drop_copy_coin_m.cpp:310-337, 508 "scale ???").
AccountAgrees ==
    Quiet /\ (api = "USD_M" \/ (own /\ Filled > 0)) =>
        /\ funds = Balance(before + Filled)
        /\ api = "USD_M" /\ before + Filled \notin Owing => position = Signed(before + Filled)

\* A fill is told as new at most once, and exactly once if the feed was never
\* down since the order is there, although snapshots repeat the last execution
\* of an order (drop_copy_usd_m.cpp:394-433).
FillsToldOnce ==
    /\ told <= Filled
    /\ Quiet /\ own /\ ~gap => told = Filled

\* An order that is complete never comes back to life, in whatever order the
\* answers, the feed and the queries tell of it: every path carries the time of
\* the event and not that of the report (update_time_utc).
NeverBack ==
    [][ViewComplete => ViewComplete']_vars

\* The inductive invariant behind NeverBack: whatever is on its way to the cache,
\* or in it, happened to the order at the exchange no later than what the
\* exchange has, and an end that is told of is the end the exchange has.
ExchangeOrder ==
    [ordStatus : {"CREATED", "NEW", "PARTIALLY_FILLED", "FILLED", "CANCELED"},
     cumQty : Int, leavesQty : Int, transactTimeNs : Int,
     tradeType : {"NONE", "TRADE"}, execStatus : {"NEW"} \union ExecStatus, execQty : Int]

AopMessage ==
    {Aop(type, order, quantity) : type \in {"SNAPSHOT", "INCREMENTAL"},
                                  order \in ExchangeOrder \union {None}, quantity \in Int}

Ended == exchange # None /\ exchange.ordStatus \in {"FILLED", "CANCELED"}

Happened(status, time) ==
    /\ exchange # None
    /\ time <= exchange.transactTimeNs
    /\ Complete(status) => Ended /\ time = exchange.transactTimeNs

HasHappened(m) == Happened(MapOrderStatus(m.ordStatus), m.transactTimeNs)

IInv ==
    /\ exchange \in ExchangeOrder \union {None}
    /\ before \in Int
    /\ exchange # None /\ exchange.ordStatus = "CREATED" => exchange.transactTimeNs = 1
    /\ "create" \in travelling => exchange = None
    /\ feed \in [up : BOOLEAN, queue : Seq(AopMessage)]
    /\ \A i \in DOMAIN feed.queue : \A m \in feed.queue[i].orders : HasHappened(m)
    /\ \A reply \in replies :
         /\ reply.order \in ExchangeOrder \union {None}
         /\ reply.type \in {"create", "cancel", "query"}
         /\ reply.order # None => HasHappened(reply.order)
    /\ api \in {"USD_M", "COIN_M"}
    /\ view # None => view.time \in Int /\ Happened(view.order_status, view.time)

\* "download open orders" (drop_copy_coin_m.cpp:349): when the snapshot has been
\* delivered, an order that is open is known.
OpenOrdersDownloaded == Quiet /\ Open => view # None
=============================================================================
