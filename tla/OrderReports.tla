---------------------------- MODULE OrderReports ----------------------------
(***************************************************************************)
(* What the gateway tells the order-management cache about an order: the   *)
(* OrderUpdate it makes of each message of the exchange that has one.      *)
(* There are four such messages: the answers to a create and to a cancel,  *)
(* the answer to a query, and an item of the accounts-orders-positions     *)
(* feed.                                                                   *)
(*                                                                         *)
(* A message is a record with the fields of the JSON schema that an update *)
(* is made from.  USD-M has real prices (priceRp), COIN-M scaled prices    *)
(* (priceEp), to which the answers over REST add the real one (price).     *)
(***************************************************************************)
EXTENDS Map, Security

\* The fields that every path fills in the same way.
OrderUpdate(m, price, stop_price, update_type) ==
    [side |-> MapJsonSide(m.side),
     order_type |-> MapJsonOrderType(m.ordType),
     time_in_force |-> MapJsonTimeInForce(m.timeInForce),
     order_status |-> MapOrderStatus(m.ordStatus),
     price |-> price,
     stop_price |-> stop_price,
     remaining_quantity |-> m.leavesQty,
     traded_quantity |-> m.cumQty,
     update_time_utc |-> m.transactTimeNs,
     position_effect |-> "UNDEFINED",
     update_type |-> update_type]

CreateAckUsdM(m) == OrderUpdate(m, m.priceRp, m.stopPxRp, "INCREMENTAL")

CancelAckUsdM(m) == OrderUpdate(m, m.priceRp, m.stopPxRp, "INCREMENTAL")

\* Mutant: an answer counts as of the time it is received.
GetOrderAckUsdMStamped(m) ==
    [OrderUpdate(m, m.priceRp, NaN, "SNAPSHOT") EXCEPT !.update_time_utc = @ + 100]

GetOrderAckUsdM(m) == OrderUpdate(m, m.priceRp, NaN, "SNAPSHOT")

CreateAckCoinM(m) == OrderUpdate(m, m.price, m.stopPx, "INCREMENTAL")

CancelAckCoinM(m) == OrderUpdate(m, m.price, m.stopPx, "INCREMENTAL")

\* The one answer of the four that is told as an increment by COIN-M only.
GetOrderAckCoinM(m) == OrderUpdate(m, m.price, NaN, "INCREMENTAL")

FeedOrderUsdM(m, type) ==
    OrderUpdate(m, m.priceRp, m.stopPxRp, MapEventType(type))

FeedOrderCoinM(m, type) ==
    OrderUpdate(m, Unscaled(m.priceEp), Unscaled(m.stopPxEp), MapEventType(type))

\* is_order_complete() of the framework.
Complete(order_status) == order_status \in {"COMPLETED", "REJECTED", "CANCELED"}

\* An item of a snapshot is skipped if the order is complete.
\* Mutant: an item of an increment is skipped, too.
SkippedAlways(m, type) == Complete(MapOrderStatus(m.ordStatus))

Skipped(m, type) ==
    MapEventType(type) = "SNAPSHOT" /\ Complete(MapOrderStatus(m.ordStatus))

-----------------------------------------------------------------------------
(* An item of the feed that is about a trade is told as a TradeUpdate, too. *)

TradeUpdate(m, position_effect, type) ==
    [side |-> MapJsonSide(m.side),
     position_effect |-> position_effect,
     external_trade_id |-> m.execID,
     quantity |-> m.execQty,
     update_type |-> MapEventType(type)]

IsTrade(m) == m.tradeType = "TRADE"

\* log::fatal: there is no such trade.
Unexpected(m) == IsTrade(m) /\ m.execStatus \notin {"TAKER_FILL", "MAKER_FILL"}

TradeUpdateUsdM(m, type) ==
    TradeUpdate(m, MapPosSideAndSide(m.posSide, m.side), type)

TradeUpdateCoinM(m, type) == TradeUpdate(m, "UNDEFINED", type)

-----------------------------------------------------------------------------
(* ... and an item about a position as a PositionUpdate.                    *)

\* Mutant: a short position is told as a long one.
PositionLong(side, balance) == [long |-> balance, short |-> 0]

Position(side, balance) ==
    [long |-> IF MapJsonSide(side) = "BUY" THEN balance ELSE 0,
     short |-> IF MapJsonSide(side) = "SELL" THEN balance ELSE 0]

KnownPosition(side, balance) == IF balance < 0 THEN {} ELSE {Position(side, balance)}

\* A negative balance has been seen, it is not told.
PositionsUsdM(m) == KnownPosition(m.side, m.assignedPosBalanceRv)

\* The scaled balance is told as it is ("scale ???").
PositionsCoinM(m) == KnownPosition(m.side, m.assignedPosBalanceEv)

-----------------------------------------------------------------------------
(* An item about an account is told as a FundsUpdate: the balance.          *)

FundsUsdM(m) == m.accountBalanceRv

FundsCoinM(m, value_factor) == m.accountBalanceEv \div value_factor
=============================================================================
