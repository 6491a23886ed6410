------------------------------- MODULE Parser -------------------------------
(***************************************************************************)
(* protocol/json/parser.cpp (COIN-M) and parser_2.cpp (USD-M): which of    *)
(* the handlers a message of a web-socket is given to.  A message is known *)
(* by its fields, of which those of the other API are not looked at.       *)
(***************************************************************************)

CONSTANT AllowUnknown  \* --experimental_allow_unknown_event_types

ASSUME AllowUnknownAssumption == AllowUnknown \in BOOLEAN

\* The fields with a bit in the mask, and the message each is read as.
Common ==
    {<<"index_market24h", "IndexMarket24h">>, <<"position_info", "PositionInfo">>}

CoinM ==
    {<<"book", "Book">>, <<"trades", "Trades">>, <<"market24h", "Market24h">>,
     <<"kline", "Kline">>}
        \union {<<field, "AccountsOrdersPositions">> :
                  field \in {"accounts", "orders", "positions"}}
        \union Common

\* Mutant: the bit of the trades is left with the field of COIN-M.
UsdMTrades ==
    {<<"orderbook_p", "Orderbook">>, <<"trades", "Trades2">>,
     <<"market24h_p", "Market24h2">>, <<"kline_p", "Kline2">>}
        \union Common

UsdM ==
    {<<"orderbook_p", "Orderbook">>, <<"trades_p", "Trades2">>,
     <<"market24h_p", "Market24h2">>, <<"kline_p", "Kline2">>}
        \union {<<field, "AccountsOrdersPositions2">> :
                  field \in {"accounts_p", "orders_p", "positions_p"}}
        \union Common

\* A message with an id answers a request: a ping, unless the error or the
\* result is an object.
Dispatch(table, message) ==
    LET mask == {entry \in table : entry[1] \in message.fields}
    IN  CASE "id" \in message.fields -> {IF message.object THEN "Ack" ELSE "Pong"}
          [] "id" \notin message.fields /\ mask # {} -> {entry[2] : entry \in mask}
          [] OTHER -> {IF AllowUnknown THEN "unknown" ELSE "fatal"}
=============================================================================
