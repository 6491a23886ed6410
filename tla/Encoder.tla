------------------------------- MODULE Encoder -------------------------------
(***************************************************************************)
(* protocol/json/encoder.cpp: the query strings of the order requests, as  *)
(* records with one field per parameter.  A parameter that is left out of  *)
(* the string has no field, or NaN where it is a price.                    *)
(***************************************************************************)
EXTENDS Map, Security

\* map_time_in_force(): an order that must not take is POST_ONLY whatever its
\* time in force.
TimeInForceOf(create) ==
    IF create.post_only THEN "POST_ONLY" ELSE MapTimeInForce(create.time_in_force)

\* What both APIs send in the same way.
CreateParameters(create, request_id) ==
    [clOrdID |-> request_id,
     side |-> MapSide(create.side),
     posSide |-> MapPositionEffectAndSide(create.position_effect, create.side),
     ordType |-> MapOrderType(create.order_type),
     timeInForce |-> TimeInForceOf(create),
     reduceOnly |-> create.reduce_only]

Prices(price, stop) == [price |-> price, stop |-> stop]

OrdersCreateUsdM(create, request_id) ==
    [parameters |-> CreateParameters(create, request_id),
     rp |-> Prices(create.price, create.stop_price)]

\* Mutant: the price is not scaled either.
OrdersCreateCoinMUnscaled(create, request_id) ==
    [parameters |-> CreateParameters(create, request_id),
     ep |-> Prices(create.price, create.stop_price)]

\* The price is scaled, the stop price is not.
OrdersCreateCoinM(create, request_id) ==
    [parameters |-> CreateParameters(create, request_id),
     ep |-> Prices(Scaled(create.price), create.stop_price)]

\* An order is named by the exchange's identifier once that is known.
OrderName(order) ==
    IF order.external_order_id = ""
    THEN [clOrdID |-> order.client_order_id]
    ELSE [orderID |-> order.external_order_id]

OrdersCancelCoinM(order) == [order |-> OrderName(order)]

\* Mutant: the side of the position is left to the exchange.
OrdersCancelUsdMMerged(order) == [order |-> OrderName(order), posSide |-> "MERGED"]

OrdersCancelUsdM(order) ==
    [order |-> OrderName(order),
     posSide |-> MapPositionEffectAndSide(order.position_effect, order.side)]

OrderQueryCoinM(order) == [order |-> OrderName(order)]

OrderQueryUsdM(order) == [order |-> OrderName(order)]
=============================================================================
