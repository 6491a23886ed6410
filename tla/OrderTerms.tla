----------------------------- MODULE OrderTerms -----------------------------
(***************************************************************************)
(* The terms of one order on their way from the client to the exchange and *)
(* back: encoded into a request, kept by the exchange, reported over each  *)
(* of the four paths, and used again to name the order in a query or a     *)
(* cancel.  The exchange echoes what it was sent; a price it was not sent  *)
(* it reports as zero, and as nothing in the answer to a COIN-M query.     *)
(***************************************************************************)
EXTENDS Encoder, OrderReports

CONSTANT Price  \* the prices a client may ask for

ASSUME PriceAssumption == Price \subseteq Nat \ {0}

VARIABLES
    api,       \* shared_.api.type
    create,    \* the client's CreateOrder
    order,     \* what the order-management cache knows of the order
    exchange,  \* what the exchange keeps: the parameters it was sent
    reports,   \* the updates the gateway made, by path
    trades,    \* the TradeUpdates it made
    named      \* the last request about the order: a query or a cancel

vars == <<api, create, order, exchange, reports, trades, named>>

None == [none |-> TRUE]

Path == {"create_ack", "cancel_ack", "get_order_ack", "feed"}

\* The framework lets pass what the exchange can be asked for.
CreateOrder ==
    [side : {"BUY", "SELL"},
     position_effect : {"UNDEFINED", "OPEN", "CLOSE"},
     order_type : {"MARKET", "LIMIT"},
     time_in_force : {"GTC", "IOC", "FOK"},
     post_only : BOOLEAN,
     reduce_only : BOOLEAN,
     price : Price \union {NaN},
     stop_price : Price \union {NaN}]

RequestId == "request_id"
ExternalId == "external_order_id"

Init ==
    /\ api \in {"USD_M", "COIN_M"}
    /\ create = None
    /\ order = None
    /\ exchange = None
    /\ reports = [path \in Path |-> None]
    /\ trades = {}
    /\ named = None

OrZero(price) == IF price = NaN THEN 0 ELSE price

\* The exchange's message about the order.
MessageUsdM ==
    LET p == exchange.parameters
    IN  [side |-> p.side, posSide |-> p.posSide, ordType |-> p.ordType,
         timeInForce |-> p.timeInForce, ordStatus |-> "NEW",
         leavesQty |-> 1, cumQty |-> 0, transactTimeNs |-> 1,
         tradeType |-> "TRADE", execStatus |-> "TAKER_FILL",
         execID |-> 1, execQty |-> 1,
         priceRp |-> OrZero(exchange.rp.price), stopPxRp |-> OrZero(exchange.rp.stop)]

MessageCoinM ==
    LET p == exchange.parameters
        ep == [price |-> OrZero(exchange.ep.price), stop |-> OrZero(exchange.ep.stop)]
    IN  [side |-> p.side, posSide |-> p.posSide, ordType |-> p.ordType,
         timeInForce |-> p.timeInForce, ordStatus |-> "NEW",
         leavesQty |-> 1, cumQty |-> 0, transactTimeNs |-> 1,
         tradeType |-> "TRADE", execStatus |-> "TAKER_FILL",
         execID |-> 1, execQty |-> 1,
         priceEp |-> ep.price, stopPxEp |-> ep.stop,
         price |-> Unscaled(ep.price), stopPx |-> Unscaled(ep.stop)]

\* The answer to a query has no real price.
QueryMessageCoinM == [MessageCoinM EXCEPT !.price = NaN]

Update(path) ==
    CASE api = "USD_M" /\ path = "create_ack" -> CreateAckUsdM(MessageUsdM)
      [] api = "USD_M" /\ path = "cancel_ack" -> CancelAckUsdM(MessageUsdM)
      [] api = "USD_M" /\ path = "get_order_ack" -> GetOrderAckUsdM(MessageUsdM)
      [] api = "USD_M" /\ path = "feed" -> FeedOrderUsdM(MessageUsdM, "INCREMENTAL")
      [] api = "COIN_M" /\ path = "create_ack" -> CreateAckCoinM(MessageCoinM)
      [] api = "COIN_M" /\ path = "cancel_ack" -> CancelAckCoinM(MessageCoinM)
      [] api = "COIN_M" /\ path = "get_order_ack" -> GetOrderAckCoinM(QueryMessageCoinM)
      [] api = "COIN_M" /\ path = "feed" -> FeedOrderCoinM(MessageCoinM, "INCREMENTAL")

Create(request) ==
    /\ create = None
    /\ create' = request
    /\ exchange' = IF api = "USD_M" THEN OrdersCreateUsdM(request, RequestId)
                                    ELSE OrdersCreateCoinM(request, RequestId)
    /\ order' = [client_order_id |-> RequestId, external_order_id |-> "",
                 side |-> request.side, position_effect |-> request.position_effect]
    /\ UNCHANGED <<api, reports, trades, named>>

\* The cache learns the exchange's identifier from any report; the side of the
\* position is in none, what the client said is kept.
Report(path) ==
    /\ create # None
    /\ reports' = [reports EXCEPT ![path] = Update(path)]
    /\ order' = [order EXCEPT !.external_order_id = ExternalId]
    /\ UNCHANGED <<api, create, exchange, trades, named>>

Trade ==
    /\ create # None
    /\ trades' = {IF api = "USD_M" THEN TradeUpdateUsdM(MessageUsdM, "INCREMENTAL")
                                   ELSE TradeUpdateCoinM(MessageCoinM, "INCREMENTAL")}
    /\ UNCHANGED <<api, create, order, exchange, reports, named>>

CancelOrder ==
    /\ create # None
    /\ named' = IF api = "USD_M" THEN OrdersCancelUsdM(order) ELSE OrdersCancelCoinM(order)
    /\ UNCHANGED <<api, create, order, exchange, reports, trades>>

GetOrder ==
    /\ create # None
    /\ named' = IF api = "USD_M" THEN OrderQueryUsdM(order) ELSE OrderQueryCoinM(order)
    /\ UNCHANGED <<api, create, order, exchange, reports, trades>>

Next ==
    \/ \E request \in CreateOrder : Create(request)
    \/ \E path \in Path : Report(path)
    \/ Trade
    \/ CancelOrder
    \/ GetOrder

Spec == Init /\ [][Next]_vars
-----------------------------------------------------------------------------
Reported == {path \in Path : reports[path] # None}

\* Whatever the path, a report says what the client asked for: the maps to the
\* exchange and back undo each other, and prices are scaled on the way out
\* exactly where they are on the way in (encoder.cpp:44-70, map.cpp, the
\* OrderUpdates of order_entry_* and drop_copy_*).  A price may be missing.
TermsKept ==
    \A path \in Reported :
        LET report == reports[path]
        IN  /\ report.side = create.side
            /\ report.order_type = create.order_type
            /\ report.time_in_force =
                 IF create.post_only THEN "GTC" ELSE create.time_in_force
            /\ create.price # NaN => report.price \in {create.price, NaN}

\* A USD-M fill opens or closes a position exactly as the order was asked to:
\* the side of the position that is sent with the order and the side of the
\* order give it back (map.cpp:202-247, 429-460; drop_copy_usd_m.cpp:421).
EffectKept ==
    api = "USD_M" => \A trade \in trades : trade.position_effect = create.position_effect

\* A cancel or a query names the order the exchange has, before the exchange's
\* identifier is known and after, and a cancel the side of its position
\* (encoder.cpp:167-205, 214-236).
OrderFound ==
    named # None =>
        /\ named.order \in {[clOrdID |-> exchange.parameters.clOrdID],
                            [orderID |-> ExternalId]}
        /\ "posSide" \in DOMAIN named => named.posSide = exchange.parameters.posSide

\* The scaled fields of COIN-M are real values times the price factor
\* (test/json_orders_create_ack.cpp:27-28): an order with a stop price is
\* reported with that stop price.
StopPriceKept ==
    \A path \in Reported :
        create.stop_price # NaN => reports[path].stop_price \in {create.stop_price, NaN}
=============================================================================
