-------------------------- MODULE MarketFeedProofs --------------------------
(***************************************************************************)
(* Proofs about module MarketFeed, for any prices, quantities, factors and *)
(* bounds.                                                                 *)
(***************************************************************************)
EXTENDS MarketFeed, TLAPS

LEMMA InvariantInit == Init => IInv
  BY DEF Init, IInv, ReferenceFirst

\* An answer to a ping is for no handler of a topic.
LEMMA PongOnly ==
    /\ Handlers(Answer(FALSE)) = {"Pong"}
    /\ "Pong" \notin {"Orderbook", "Book", "Trades2", "Trades", "Market24h2", "Market24h"}
  <1>1. "id" \in Answer(FALSE).fields /\ ~Answer(FALSE).object
    BY DEF Answer
  <1>2. \A table : Dispatch(table, Answer(FALSE)) = {"Pong"}
    BY <1>1 DEF Dispatch
  <1>3. QED
    BY <1>2 DEF Handlers

\* So what is published is of a symbol that is on the list.
LEMMA HandledIsListed ==
    ASSUME IInv, NEW usd_m, NEW coin_m, Handles(usd_m, coin_m),
           usd_m \in {"Orderbook", "Trades2", "Market24h2"},
           coin_m \in {"Book", "Trades", "Market24h"}
    PROVE  listed # "nobody"
  <1> SUFFICES ASSUME listed = "nobody" PROVE FALSE
    OBVIOUS
  <1>1. queue \in Seq({Answer(FALSE)}) /\ queue # <<>>
    BY DEF IInv, Handles
  <1>2. Head(queue) = Answer(FALSE)
    <2> DEFINE A == Answer(FALSE)
    <2>1. queue \in Seq({A}) /\ queue # <<>>
      BY <1>1
    <2> HIDE DEF A
    <2>2. Head(queue) \in {A}
      BY <2>1
    <2>3. QED
      BY <2>2 DEF A
  <1>3. {"Pong"} = {IF api = "USD_M" THEN usd_m ELSE coin_m}
    BY <1>2, PongOnly DEF Handles
  <1>4. QED
    BY <1>3

\* A step that publishes, if COIN-M has the table or else changes nothing, keeps
\* the invariant.
LEMMA PublishStep ==
    ASSUME IInv, listed # "nobody",
           UNCHANGED <<api, productVars, reference>>,
           api = "COIN_M" /\ ~security => UNCHANGED <<book, trades, statistics>>
    PROVE  IInv'
  BY DEF IInv, ReferenceFirst, productVars

\* A step that publishes nothing and adds nothing to an unknown symbol keeps it.
LEMMA OtherStep ==
    ASSUME IInv, UNCHANGED <<api, productVars, reference, trades, statistics>>,
           book' \in {book, {}},
           listed = "nobody" => subscribed' = {} /\ queue' \in Seq({Answer(FALSE)})
    PROVE  IInv'
  BY DEF IInv, ReferenceFirst, productVars

LEMMA ExchangeStep == ASSUME IInv, Exchange PROVE IInv'
  <1>1. ASSUME NEW topic \in Topic, NEW message, Push(topic, message), subscribed' = subscribed
        PROVE  listed = "nobody" => subscribed' = {} /\ queue' \in Seq({Answer(FALSE)})
    BY <1>1 DEF IInv, Push
  <1>2. ASSUME NEW side \in Side, NEW price \in Price, NEW quantity \in 0 .. MaxQuantity,
               Quote(side, price, quantity)
        PROVE  IInv'
    BY <1>1, <1>2, OtherStep DEF Quote, sessionVars, publishedVars, Topic
  <1>3. ASSUME NEW side \in {"BUY", "SELL"}, NEW price \in Price,
               NEW quantity \in 1 .. MaxQuantity, Execute(side, price, quantity)
        PROVE  IInv'
    BY <1>1, <1>3, OtherStep DEF Execute, sessionVars, publishedVars, Topic
  <1>4. CASE SendBook
    BY <1>1, <1>4, OtherStep DEF SendBook, sessionVars, publishedVars, Topic
  <1>5. CASE SendStatistics
    BY <1>1, <1>5, OtherStep DEF SendStatistics, sessionVars, publishedVars, Topic
  <1>6. CASE SendPong
    <2>1. <<Answer(FALSE)>> \in Seq({Answer(FALSE)})
      OBVIOUS
    <2>2. listed = "nobody" => subscribed' = {} /\ queue' \in Seq({Answer(FALSE)})
      BY <1>6, <2>1 DEF SendPong, sessionVars, IInv
    <2>3. QED
      BY <1>6, <2>2, OtherStep DEF SendPong, sessionVars, publishedVars
  <1>7. QED
    BY <1>2, <1>3, <1>4, <1>5, <1>6 DEF Exchange

LEMMA GatewayStep ==
    ASSUME IInv, Orderbook \/ TradeSummary \/ StatisticsUpdate \/ Ack \/ Pong
    PROVE  IInv'
  <1>1. CASE Orderbook
    <2>1. listed # "nobody"
      BY <1>1, HandledIsListed DEF Orderbook
    <2>2. QED
      BY <1>1, <2>1, PublishStep DEF Orderbook, Handles, Found, IInv
  <1>2. CASE TradeSummary
    <2>1. listed # "nobody"
      BY <1>2, HandledIsListed DEF TradeSummary
    <2>2. QED
      BY <1>2, <2>1, PublishStep DEF TradeSummary, Handles, Found, IInv
  <1>3. CASE StatisticsUpdate
    <2>1. listed # "nobody"
      BY <1>3, HandledIsListed DEF StatisticsUpdate
    <2>2. QED
      BY <1>3, <2>1, PublishStep DEF StatisticsUpdate, Handles, Found, IInv
  <1>4. CASE Ack \/ Pong
    <2>1. queue' = Tail(queue) /\ queue # <<>>
      BY <1>4 DEF Ack, Pong, Handles
    <2>2. listed = "nobody" => queue' \in Seq({Answer(FALSE)})
      BY <2>1 DEF IInv
    <2>3. QED
      BY <1>4, <2>2, OtherStep DEF Ack, Pong, Handles, sessionVars, IInv
  <1>5. QED
    BY <1>1, <1>2, <1>3, <1>4

LEMMA InvariantStep == IInv /\ [Next]_vars => IInv'
  <1> SUFFICES ASSUME IInv, [Next]_vars PROVE IInv'
    OBVIOUS
  <1>1. CASE Exchange
    BY <1>1, ExchangeStep
  <1>2. CASE Ready
    BY <1>2, OtherStep DEF Ready, publishedVars, IInv
  <1>3. CASE Disconnected
    BY <1>3, OtherStep DEF Disconnected
  <1>4. ASSUME NEW topic \in Topic, Subscribed(topic) PROVE IInv'
    BY <1>4, OtherStep DEF Subscribed, publishedVars
  <1>5. CASE ProductsAck
    <2>1. reference' # None
      BY <1>5 DEF ProductsAck, ReferenceDataUsdM, ReferenceDataCoinM, None
    <2>2. QED
      BY <1>5, <2>1 DEF ProductsAck, IInv, ReferenceFirst, sessionVars
  <1>6. CASE Subscribe
    BY <1>6 DEF Subscribe, IInv, ReferenceFirst, publishedVars
  <1>7. CASE Orderbook \/ TradeSummary \/ StatisticsUpdate \/ Ack \/ Pong
    BY <1>7, GatewayStep
  <1>8. CASE UNCHANGED vars
    BY <1>8 DEF vars, publishedVars, sessionVars, productVars, IInv, ReferenceFirst
  <1>9. QED
    BY <1>1, <1>2, <1>3, <1>4, <1>5, <1>6, <1>7, <1>8 DEF Next

\* Whatever the order of subscriptions, products, sessions and messages, nothing
\* is published of a symbol before its reference data, unless a client of USD-M
\* has asked for it.
THEOREM PublishedAfterReference == Spec => []ReferenceFirst
  <1>1. IInv => ReferenceFirst
    BY DEF IInv
  <1>2. QED
    BY <1>1, InvariantInit, InvariantStep, PTL DEF Spec

-----------------------------------------------------------------------------
(* The messages.                                                            *)

EventType == {"SNAPSHOT", "INCREMENTAL"}

\* Levels as the exchange sends them: the quantity 0 removes one.
Quoted == [side : Side, price : Price, quantity : 0 .. MaxQuantity]

Answers == {Answer(TRUE), Answer(FALSE)}

BookMessages == {BookMessage(type, changed) : type \in EventType, changed \in SUBSET Quoted}

Increment(trade) == TradesMessage("INCREMENTAL", <<trade>>)

TradesMessages ==
    {Increment(trade) : trade \in Trade} \union {TradesMessage("SNAPSHOT", items) : items \in Seq(Trade)}

StatisticsMessages == {Market24hMessage(count) : count \in Nat}

Messages == Answers \union BookMessages \union TradesMessages \union StatisticsMessages

BookHandler == IF api = "USD_M" THEN "Orderbook" ELSE "Book"
TradesHandler == IF api = "USD_M" THEN "Trades2" ELSE "Trades"
StatisticsHandler == IF api = "USD_M" THEN "Market24h2" ELSE "Market24h"

\* The entries of the table whose field the message has.
Mask(table, message) == {entry \in table : entry[1] \in message.fields}

\* A message with the field of one handler is given to that handler.
LEMMA DispatchOne ==
    ASSUME NEW table, NEW message, NEW pair, "id" \notin message.fields,
           Mask(table, message) = {pair}
    PROVE  Dispatch(table, message) = {pair[2]}
  <1> DEFINE mask == {entry \in table : entry[1] \in message.fields}
  <1>1. mask = {pair}
    BY DEF Mask
  <1> HIDE DEF mask
  <1>2. {entry[2] : entry \in mask} = {pair[2]} /\ mask # {}
    BY <1>1
  <1>3. QED
    BY <1>2 DEF Dispatch, mask

\* Each message has the field of one handler.
LEMMA BookHandled ==
    ASSUME api \in {"USD_M", "COIN_M"}, NEW message \in BookMessages
    PROVE  Handlers(message) = {BookHandler}
  <1>1. PICK type \in EventType, changed \in SUBSET Quoted : message = BookMessage(type, changed)
    BY DEF BookMessages
  <1>2. message.fields = Data("orderbook_p", "book") \union {"type", "symbol", "sequence", "depth"}
    BY <1>1 DEF BookMessage
  <1>3. CASE api = "USD_M"
    <2>1. message.fields = {"timestamp", "orderbook_p", "type", "symbol", "sequence", "depth"}
      BY <1>2, <1>3 DEF Data
    <2>2. Mask(UsdM, message) = {<<"orderbook_p", "Orderbook">>}
      BY <2>1 DEF Mask, UsdM, Common
    <2>3. "id" \notin message.fields
      BY <2>1
    <2>4. Dispatch(UsdM, message) = {<<"orderbook_p", "Orderbook">>[2]}
      BY <2>2, <2>3, DispatchOne
    <2>5. QED
      BY <1>3, <2>4 DEF Handlers, BookHandler
  <1>4. CASE api = "COIN_M"
    <2>1. message.fields = {"timestamp", "book", "type", "symbol", "sequence", "depth"}
      BY <1>2, <1>4 DEF Data
    <2>2. Mask(CoinM, message) = {<<"book", "Book">>}
      BY <2>1 DEF Mask, CoinM, Common
    <2>3. "id" \notin message.fields
      BY <2>1
    <2>4. Dispatch(CoinM, message) = {<<"book", "Book">>[2]}
      BY <2>2, <2>3, DispatchOne
    <2>5. QED
      BY <1>4, <2>4 DEF Handlers, BookHandler
  <1>5. QED
    BY <1>3, <1>4

LEMMA TradesHandled ==
    ASSUME api \in {"USD_M", "COIN_M"}, NEW message \in TradesMessages
    PROVE  Handlers(message) = {TradesHandler}
  <1>1. message.fields = Data("trades_p", "trades") \union {"type", "symbol", "sequence"}
    <2>1. \A type, items : TradesMessage(type, items).fields
             = Data("trades_p", "trades") \union {"type", "symbol", "sequence"}
      BY DEF TradesMessage
    <2>2. QED
      BY <2>1 DEF TradesMessages, Increment
  <1>2. CASE api = "USD_M"
    <2>1. message.fields = {"timestamp", "trades_p", "type", "symbol", "sequence"}
      BY <1>1, <1>2 DEF Data
    <2>2. Mask(UsdM, message) = {<<"trades_p", "Trades2">>}
      BY <2>1 DEF Mask, UsdM, Common
    <2>3. "id" \notin message.fields
      BY <2>1
    <2>4. Dispatch(UsdM, message) = {<<"trades_p", "Trades2">>[2]}
      BY <2>2, <2>3, DispatchOne
    <2>5. QED
      BY <1>2, <2>4 DEF Handlers, TradesHandler
  <1>3. CASE api = "COIN_M"
    <2>1. message.fields = {"timestamp", "trades", "type", "symbol", "sequence"}
      BY <1>1, <1>3 DEF Data
    <2>2. Mask(CoinM, message) = {<<"trades", "Trades">>}
      BY <2>1 DEF Mask, CoinM, Common
    <2>3. "id" \notin message.fields
      BY <2>1
    <2>4. Dispatch(CoinM, message) = {<<"trades", "Trades">>[2]}
      BY <2>2, <2>3, DispatchOne
    <2>5. QED
      BY <1>3, <2>4 DEF Handlers, TradesHandler
  <1>4. QED
    BY <1>2, <1>3

LEMMA StatisticsHandled ==
    ASSUME api \in {"USD_M", "COIN_M"}, NEW message \in StatisticsMessages
    PROVE  Handlers(message) = {StatisticsHandler}
  <1>1. message.fields = Data("market24h_p", "market24h")
    BY DEF StatisticsMessages, Market24hMessage
  <1>2. CASE api = "USD_M"
    <2>1. message.fields = {"timestamp", "market24h_p"}
      BY <1>1, <1>2 DEF Data
    <2>2. Mask(UsdM, message) = {<<"market24h_p", "Market24h2">>}
      BY <2>1 DEF Mask, UsdM, Common
    <2>3. "id" \notin message.fields
      BY <2>1
    <2>4. Dispatch(UsdM, message) = {<<"market24h_p", "Market24h2">>[2]}
      BY <2>2, <2>3, DispatchOne
    <2>5. QED
      BY <1>2, <2>4 DEF Handlers, StatisticsHandler
  <1>3. CASE api = "COIN_M"
    <2>1. message.fields = {"timestamp", "market24h"}
      BY <1>1, <1>3 DEF Data
    <2>2. Mask(CoinM, message) = {<<"market24h", "Market24h">>}
      BY <2>1 DEF Mask, CoinM, Common
    <2>3. "id" \notin message.fields
      BY <2>1
    <2>4. Dispatch(CoinM, message) = {<<"market24h", "Market24h">>[2]}
      BY <2>2, <2>3, DispatchOne
    <2>5. QED
      BY <1>3, <2>4 DEF Handlers, StatisticsHandler
  <1>4. QED
    BY <1>2, <1>3

LEMMA AnswerHandled ==
    ASSUME NEW message \in Answers
    PROVE  \E handler \in {"Ack", "Pong"} : Handlers(message) = {handler}
  <1>1. "id" \in message.fields
    BY DEF Answers, Answer
  <1>2. QED
    BY <1>1 DEF Handlers, Dispatch

\* The framework's handler of a topic is given messages of that topic only.
LEMMA HandledBook ==
    ASSUME api \in {"USD_M", "COIN_M"}, NEW message \in Messages,
           Handlers(message) = {BookHandler}
    PROVE  message \in BookMessages
  BY TradesHandled, StatisticsHandled, AnswerHandled
  DEF Messages, BookHandler, TradesHandler, StatisticsHandler

LEMMA HandledTrades ==
    ASSUME api \in {"USD_M", "COIN_M"}, NEW message \in Messages,
           Handlers(message) = {TradesHandler}
    PROVE  message \in TradesMessages
  BY BookHandled, StatisticsHandled, AnswerHandled
  DEF Messages, BookHandler, TradesHandler, StatisticsHandler

LEMMA HandledStatistics ==
    ASSUME api \in {"USD_M", "COIN_M"}, NEW message \in Messages,
           Handlers(message) = {StatisticsHandler}
    PROVE  message \in StatisticsMessages
  BY BookHandled, TradesHandled, AnswerHandled
  DEF Messages, BookHandler, TradesHandler, StatisticsHandler

-----------------------------------------------------------------------------
(* Scaling is undone.                                                       *)

LEMMA ProductQuotient ==
    ASSUME NEW x \in Nat, NEW n \in Nat \ {0}
    PROVE  x * n \in Nat /\ (x * n) \div n = x
  <1>1. x * n \in Nat
    OBVIOUS
  <1>2. QED
    OBVIOUS

LEMMA UnscaledScaled ==
    ASSUME NEW price \in Nat
    PROVE  Unscaled(Scaled(price)) = price /\ Unscaled(PriceFactor * price) = price
  <1> DEFINE ep == price * PriceFactor
  <1>1. ep \in Nat /\ ep \div PriceFactor = price
    BY PriceFactorAssumption, ProductQuotient
  <1>2. PriceFactor * price = ep
    BY PriceFactorAssumption
  <1>3. price # NaN /\ Scaled(price) = ep
    BY DEF Scaled, NaN
  <1> HIDE DEF ep
  <1>4. ep # NaN
    BY <1>1 DEF NaN
  <1>5. QED
    BY <1>1, <1>2, <1>3, <1>4 DEF Unscaled

-----------------------------------------------------------------------------
(* What the gateway makes of a message.                                     *)

ReadLevel(level) == [level EXCEPT !.price = Unscaled(@), !.quantity = @ \div QuantityFactor]

ReadTrade(trade) ==
    [trade EXCEPT !.side = MapJsonSide(@), !.price = Unscaled(@),
                  !.quantity = @ \div QuantityFactor]

LEMMA LevelRead ==
    ASSUME NEW side, NEW price, NEW quantity
    PROVE  ReadLevel([side |-> side, price |-> price, quantity |-> quantity])
             = [side |-> side, price |-> Unscaled(price), quantity |-> quantity \div QuantityFactor]
  <1> DEFINE level == [side |-> side, price |-> price, quantity |-> quantity]
             new_price == Unscaled(level.price)
             new_quantity == level.quantity \div QuantityFactor
             one == [level EXCEPT !.price = new_price]
             two == [one EXCEPT !.quantity = new_quantity]
  <1>1. new_price = Unscaled(price) /\ new_quantity = quantity \div QuantityFactor
    OBVIOUS
  <1>2. ReadLevel(level) = two
    BY DEF ReadLevel
  <1> HIDE DEF new_price, new_quantity
  <1>3. one = [side |-> side, price |-> new_price, quantity |-> quantity]
    OBVIOUS
  <1> HIDE DEF one
  <1>4. two = [side |-> side, price |-> new_price, quantity |-> new_quantity]
    BY <1>3
  <1>5. QED
    BY <1>1, <1>2, <1>4

LEMMA TradeRead ==
    ASSUME NEW number, NEW side, NEW price, NEW quantity
    PROVE  ReadTrade([number |-> number, side |-> side, price |-> price, quantity |-> quantity])
             = [number |-> number, side |-> MapJsonSide(side), price |-> Unscaled(price),
                quantity |-> quantity \div QuantityFactor]
  <1> DEFINE trade == [number |-> number, side |-> side, price |-> price, quantity |-> quantity]
             new_side == MapJsonSide(trade.side)
             new_price == Unscaled(trade.price)
             new_quantity == trade.quantity \div QuantityFactor
             one == [trade EXCEPT !.side = new_side]
             two == [one EXCEPT !.price = new_price]
             three == [two EXCEPT !.quantity = new_quantity]
  <1>1. /\ new_side = MapJsonSide(side) /\ new_price = Unscaled(price)
        /\ new_quantity = quantity \div QuantityFactor
    OBVIOUS
  <1>2. ReadTrade(trade) = three
    BY DEF ReadTrade
  <1> HIDE DEF new_side, new_price, new_quantity
  <1>3. one = [number |-> number, side |-> new_side, price |-> price, quantity |-> quantity]
    OBVIOUS
  <1> HIDE DEF one
  <1>4. two = [number |-> number, side |-> new_side, price |-> new_price, quantity |-> quantity]
    BY <1>3
  <1> HIDE DEF two
  <1>5. three = [number |-> number, side |-> new_side, price |-> new_price,
                 quantity |-> new_quantity]
    BY <1>4
  <1>6. QED
    BY <1>1, <1>2, <1>5

LEMMA LevelTranslated ==
    ASSUME api \in {"USD_M", "COIN_M"}, NEW level \in Quoted
    PROVE  IF api = "USD_M" THEN Wire(level) = level ELSE ReadLevel(Wire(level)) = level
  <1>1. level.price \in Nat /\ level.quantity \in Nat
    <2>1. level.price \in Price /\ level.quantity \in 0 .. MaxQuantity
      BY DEF Quoted
    <2>2. level.price \in Nat
      BY <2>1, PriceAssumption
    <2>3. level.quantity \in Nat
      BY <2>1, BoundAssumption
    <2>4. QED
      BY <2>2, <2>3
  <1>2. Unscaled(Scaled(level.price)) = level.price
    BY <1>1, UnscaledScaled
  <1>3. (level.quantity * QuantityFactor) \div QuantityFactor = level.quantity
    BY <1>1, QuantityFactorAssumption, ProductQuotient
  <1>4. CASE api = "USD_M"
    BY <1>4 DEF Wire
  <1>5. CASE api = "COIN_M"
    <2> DEFINE price == Scaled(level.price)
               quantity == level.quantity * QuantityFactor
    <2>1. Wire(level) = [level EXCEPT !.price = price, !.quantity = quantity]
      BY <1>5 DEF Wire
    <2>2. Unscaled(price) = level.price /\ quantity \div QuantityFactor = level.quantity
      BY <1>2, <1>3
    <2> HIDE DEF price, quantity
    <2>3. level = [side |-> level.side, price |-> level.price, quantity |-> level.quantity]
      BY DEF Quoted
    <2>4. Wire(level) = [side |-> level.side, price |-> price, quantity |-> quantity]
      BY <2>1, <2>3
    <2>5. ReadLevel(Wire(level)) = level
      BY <2>2, <2>3, <2>4, LevelRead
    <2>6. QED
      BY <1>5, <2>5
  <1>6. QED
    BY <1>4, <1>5

LEMMA BookTranslated ==
    ASSUME api \in {"USD_M", "COIN_M"}, NEW type, NEW changed \in SUBSET Quoted
    PROVE  /\ api = "USD_M" => LevelsUsdM(BookMessage(type, changed)) = changed
           /\ api = "COIN_M" => LevelsCoinM(BookMessage(type, changed)) = changed
  <1> DEFINE message == BookMessage(type, changed)
  <1>1. message.levels = {Wire(level) : level \in changed}
    BY DEF BookMessage
  <1> HIDE DEF message
  <1>2. CASE api = "USD_M"
    <2>1. \A level \in changed : Wire(level) = level
      BY <1>2, LevelTranslated
    <2>2. LevelsUsdM(message) = changed
      BY <1>1, <2>1 DEF LevelsUsdM
    <2>3. QED
      BY <1>2, <2>2 DEF message
  <1>3. CASE api = "COIN_M"
    <2>1. \A level \in changed : ReadLevel(Wire(level)) = level
      BY <1>3, LevelTranslated
    <2>2. LevelsCoinM(message) = {ReadLevel(level) : level \in message.levels}
      BY DEF LevelsCoinM, ReadLevel
    <2>3. LevelsCoinM(message) = changed
      BY <1>1, <2>1, <2>2
    <2>4. QED
      BY <1>3, <2>3 DEF message
  <1>4. QED
    BY <1>2, <1>3

LEMMA TradeTranslated ==
    ASSUME api \in {"USD_M", "COIN_M"}, NEW trade \in Trade
    PROVE  /\ api = "USD_M" => TradesUsdM(Increment(trade)) = <<trade>>
           /\ api = "COIN_M" => TradesCoinM(Increment(trade)) = <<trade>>
  <1> DEFINE message == Increment(trade)
             wire == WireTrade(trade)
  <1>1. message.type = "INCREMENTAL" /\ message.trades = [i \in DOMAIN <<trade>> |-> WireTrade(<<trade>>[i])]
    BY DEF Increment, TradesMessage
  <1>2. message.trades = <<wire>>
    BY <1>1
  <1>3. /\ trade = [number |-> trade.number, side |-> trade.side, price |-> trade.price,
                    quantity |-> trade.quantity]
        /\ trade.side \in {"BUY", "SELL"} /\ trade.price \in Nat /\ trade.quantity \in Nat
    <2>1. /\ trade = [number |-> trade.number, side |-> trade.side, price |-> trade.price,
                      quantity |-> trade.quantity]
          /\ trade.side \in {"BUY", "SELL"} /\ trade.price \in Price
          /\ trade.quantity \in 1 .. MaxQuantity
      BY DEF Trade
    <2>2. trade.price \in Nat
      BY <2>1, PriceAssumption
    <2>3. trade.quantity \in Nat
      BY <2>1, BoundAssumption
    <2>4. QED
      BY <2>1, <2>2, <2>3
  <1>4. MapJsonSide(trade.side) = trade.side
    BY <1>3 DEF MapJsonSide
  <1> HIDE DEF message
  <1>5. TradesOf(message) = <<wire>>
    BY <1>1, <1>2 DEF TradesOf
  <1>6. CASE api = "USD_M"
    <2>1. wire = trade
      BY <1>6 DEF WireTrade
    <2> HIDE DEF wire
    <2>2. [trade EXCEPT !.side = MapJsonSide(trade.side)] = trade
      BY <1>3, <1>4
    <2>3. TradesUsdM(message) = [i \in DOMAIN <<wire>> |-> [<<wire>>[i] EXCEPT !.side = MapJsonSide(<<wire>>[i].side)]]
      BY <1>2, <1>5 DEF TradesUsdM
    <2>4. TradesUsdM(message) = <<trade>>
      BY <2>1, <2>2, <2>3
    <2>5. QED
      BY <1>6, <2>4 DEF message
  <1>7. CASE api = "COIN_M"
    <2>1. Unscaled(Scaled(trade.price)) = trade.price
      BY <1>3, UnscaledScaled
    <2> DEFINE price == Scaled(trade.price)
               quantity == trade.quantity * QuantityFactor
    <2>2. quantity \div QuantityFactor = trade.quantity
      BY <1>3, QuantityFactorAssumption, ProductQuotient
    <2>3. wire = [trade EXCEPT !.price = price, !.quantity = quantity]
      BY <1>7 DEF WireTrade
    <2> HIDE DEF wire, price, quantity
    <2>4. wire = [number |-> trade.number, side |-> trade.side, price |-> price,
                  quantity |-> quantity]
      BY <1>3, <2>3
    <2>5. ReadTrade(wire) = trade
      BY <1>3, <1>4, <2>1, <2>2, <2>4, TradeRead DEF price
    <2>6. TradesCoinM(message) = [i \in DOMAIN <<wire>> |-> ReadTrade(<<wire>>[i])]
      BY <1>2, <1>5 DEF TradesCoinM, ReadTrade
    <2>7. TradesCoinM(message) = <<trade>>
      BY <2>5, <2>6
    <2>8. QED
      BY <1>7, <2>7 DEF message
  <1>8. QED
    BY <1>6, <1>7

\* A snapshot of trades is dropped.
LEMMA LastTradesDropped ==
    ASSUME NEW items
    PROVE  /\ TradesUsdM(TradesMessage("SNAPSHOT", items)) = <<>>
           /\ TradesCoinM(TradesMessage("SNAPSHOT", items)) = <<>>
  <1> DEFINE message == TradesMessage("SNAPSHOT", items)
  <1>1. TradesOf(message) = <<>>
    BY DEF TradesOf, TradesMessage
  <1> HIDE DEF message
  <1>2. TradesUsdM(message) = <<>>
    BY <1>1 DEF TradesUsdM
  <1>3. TradesCoinM(message) = <<>>
    BY <1>1 DEF TradesCoinM
  <1>4. QED
    BY <1>2, <1>3 DEF message

\* The prices of the day are published as the exchange has them.
LEMMA DayTranslated ==
    ASSUME api \in {"USD_M", "COIN_M"}, NEW count \in Nat, NEW type \in PriceType
    PROVE  /\ api = "USD_M" => StatisticsUsdM(Market24hMessage(count).day)[type] = Day(count)[type]
           /\ api = "COIN_M" => StatisticsCoinM(Market24hMessage(count).day)[type] = Day(count)[type]
  <1> DEFINE day == Day(count)
             wire == Market24hMessage(count).day
  <1>1. CASE api = "USD_M"
    BY <1>1 DEF Market24hMessage, WireDay, StatisticsUsdM
  <1>2. CASE api = "COIN_M"
    <2>1. type \in DOMAIN day /\ day[type] \in Nat
      BY DEF Day, PriceType
    <2>2. wire = [t \in DOMAIN day |-> IF t \in PriceType THEN Scaled(day[t])
                                      ELSE QuantityFactor * day[t]]
      BY <1>2 DEF Market24hMessage, WireDay
    <2> HIDE DEF day, wire
    <2>3. type \in DOMAIN wire /\ wire[type] = Scaled(day[type])
      BY <2>1, <2>2
    <2>4. StatisticsCoinM(wire)[type] = Unscaled(wire[type])
      BY <2>3 DEF StatisticsCoinM
    <2>5. StatisticsCoinM(wire)[type] = day[type]
      BY <2>1, <2>3, <2>4, UnscaledScaled
    <2>6. QED
      BY <1>2, <2>5 DEF day, wire
  <1>3. QED
    BY <1>1, <1>2

-----------------------------------------------------------------------------
(* Types: what is on its way was sent by the exchange, and each message is *)
(* understood.                                                             *)

\* The inductive invariant behind TypeOK and Understood, and the base of those
\* of book, trades and statistics.
FeedInv ==
    /\ TypeOK
    /\ queue \in Seq(Messages)
    /\ since \in 0 .. Len(done)
    /\ subscribed \ early # {} => Known

\* A level is changed by a message as it is by the exchange; a message without
\* levels changes nothing.
Applied(type, changed, from) ==
    IF changed = {} THEN from ELSE Set(IF type = "SNAPSHOT" THEN {} ELSE from, changed)

LEMMA QueueTaken ==
    ASSUME FeedInv, queue # <<>>
    PROVE  /\ Head(queue) \in Messages /\ Tail(queue) \in Seq(Messages)
           /\ Head(queue) = queue[1] /\ 1 \in DOMAIN queue
           /\ Len(Tail(queue)) = Len(queue) - 1
           /\ \A i \in DOMAIN Tail(queue) : i + 1 \in DOMAIN queue /\ Tail(queue)[i] = queue[i + 1]
           /\ \A i \in DOMAIN queue : i # 1 => i - 1 \in DOMAIN Tail(queue) /\ Tail(queue)[i - 1] = queue[i]
  <1> DEFINE M == Messages
  <1>1. queue \in Seq(M)
    BY DEF FeedInv
  <1> HIDE DEF M
  <1>2. QED
    BY <1>1 DEF M

LEMMA Api == FeedInv => api \in {"USD_M", "COIN_M"}
  BY DEF FeedInv, TypeOK

LEMMA OrderbookTaken ==
    ASSUME FeedInv, Orderbook
    PROVE  \E type \in EventType, changed \in SUBSET Quoted :
              /\ Head(queue) = BookMessage(type, changed)
              /\ book' = IF Known THEN Applied(type, changed, book) ELSE book
  <1>1. Head(queue) \in BookMessages
    <2>1. queue # <<>> /\ Handlers(Head(queue)) = {BookHandler}
      BY DEF Orderbook, Handles, BookHandler
    <2>2. QED
      BY <2>1, Api, QueueTaken, HandledBook
  <1>2. PICK type \in EventType, changed \in SUBSET Quoted : Head(queue) = BookMessage(type, changed)
    BY <1>1 DEF BookMessages
  <1>3. ASSUME NEW message, message = BookMessage(type, changed), NEW set,
               MarketByPriceUpdate(message, set)
        PROVE  book' = Applied(type, set, book)
    <2>1. message.type = type
      BY <1>3 DEF BookMessage
    <2>2. MapMessageType(type) = type
      BY DEF MapMessageType, EventType
    <2>3. QED
      BY <1>3, <2>1, <2>2 DEF MarketByPriceUpdate, Applied
  <1>4. CASE api = "USD_M"
    <2>1. MarketByPriceUpdate(Head(queue), changed)
      BY <1>2, <1>4, BookTranslated DEF Orderbook
    <2>2. QED
      BY <1>2, <1>3, <1>4, <2>1 DEF Known
  <1>5. CASE api = "COIN_M" /\ security
    <2>1. MarketByPriceUpdate(Head(queue), changed)
      BY <1>2, <1>5, BookTranslated DEF Orderbook, Found
    <2>2. QED
      BY <1>2, <1>3, <1>5, <2>1 DEF Known
  <1>6. CASE api = "COIN_M" /\ ~security
    <2>1. book' = book
      BY <1>6 DEF Orderbook, Found
    <2>2. QED
      BY <1>2, <1>6, <2>1 DEF Known
  <1>7. QED
    BY <1>4, <1>5, <1>6, Api

LEMMA TradesTaken ==
    ASSUME FeedInv, TradeSummary
    PROVE  \/ /\ \E trade \in Trade :
                    /\ Head(queue) = Increment(trade)
                    /\ trades' = IF Known THEN Append(trades, trade) ELSE trades
           \/ /\ \E items \in Seq(Trade) : Head(queue) = TradesMessage("SNAPSHOT", items)
              /\ trades' = trades
  <1>1. Head(queue) \in TradesMessages
    <2>1. queue # <<>> /\ Handlers(Head(queue)) = {TradesHandler}
      BY DEF TradeSummary, Handles, TradesHandler
    <2>2. QED
      BY <2>1, Api, QueueTaken, HandledTrades
  <1>2. trades \in Seq(Trade)
    BY DEF FeedInv, TypeOK
  <1>3. trades' = CASE api = "USD_M" -> trades \o TradesUsdM(Head(queue))
                    [] api = "COIN_M" /\ security -> trades \o TradesCoinM(Head(queue))
                    [] OTHER -> trades
    BY DEF TradeSummary, Found
  <1>4. ASSUME NEW trade \in Trade, Head(queue) = Increment(trade)
        PROVE  trades' = IF Known THEN Append(trades, trade) ELSE trades
    <2>1. trades \o <<trade>> = Append(trades, trade)
      BY <1>2
    <2>2. /\ api = "USD_M" => TradesUsdM(Head(queue)) = <<trade>>
          /\ api = "COIN_M" => TradesCoinM(Head(queue)) = <<trade>>
      BY <1>4, Api, TradeTranslated
    <2>3. QED
      BY <1>3, <2>1, <2>2, Api DEF Known
  <1>5. ASSUME NEW items \in Seq(Trade), Head(queue) = TradesMessage("SNAPSHOT", items)
        PROVE  trades' = trades
    <2>1. trades \o <<>> = trades
      BY <1>2
    <2>2. TradesUsdM(Head(queue)) = <<>> /\ TradesCoinM(Head(queue)) = <<>>
      BY <1>5, LastTradesDropped
    <2>3. QED
      BY <1>3, <2>1, <2>2, Api
  <1>6. QED
    BY <1>1, <1>4, <1>5 DEF TradesMessages

LEMMA StatisticsTaken ==
    ASSUME FeedInv, StatisticsUpdate
    PROVE  \E count \in Nat :
              /\ Head(queue) = Market24hMessage(count)
              /\ IF Known THEN \A type \in PriceType : statistics'[type] = Day(count)[type]
                 ELSE statistics' = statistics
  <1>1. Head(queue) \in StatisticsMessages
    <2>1. queue # <<>> /\ Handlers(Head(queue)) = {StatisticsHandler}
      BY DEF StatisticsUpdate, Handles, StatisticsHandler
    <2>2. QED
      BY <2>1, Api, QueueTaken, HandledStatistics
  <1>2. PICK count \in Nat : Head(queue) = Market24hMessage(count)
    BY <1>1 DEF StatisticsMessages
  <1>3. \A type \in PriceType :
           /\ api = "USD_M" => StatisticsUsdM(Head(queue).day)[type] = Day(count)[type]
           /\ api = "COIN_M" => StatisticsCoinM(Head(queue).day)[type] = Day(count)[type]
    BY <1>2, Api, DayTranslated
  <1>4. statistics' = CASE api = "USD_M" -> StatisticsUsdM(Head(queue).day)
                        [] api = "COIN_M" /\ security -> StatisticsCoinM(Head(queue).day)
                        [] OTHER -> statistics
    BY DEF StatisticsUpdate, Found
  <1>5. IF Known THEN \A type \in PriceType : statistics'[type] = Day(count)[type]
        ELSE statistics' = statistics
    BY <1>3, <1>4, Api DEF Known
  <1>6. QED
    BY <1>2, <1>5

LEMMA SameMessage ==
    ASSUME api' = api
    PROVE  /\ \A type, changed : BookMessage(type, changed)' = BookMessage(type, changed)
           /\ \A type, items : TradesMessage(type, items)' = TradesMessage(type, items)
           /\ \A count : Market24hMessage(count)' = Market24hMessage(count)
  BY DEF BookMessage, TradesMessage, Market24hMessage, Data, Wire, WireTrade, WireDay

LEMMA SameMessages == ASSUME api' = api PROVE Messages' = Messages
  <1>1. /\ \A type, changed : BookMessage(type, changed)' = BookMessage(type, changed)
        /\ \A type, items : TradesMessage(type, items)' = TradesMessage(type, items)
        /\ \A count : Market24hMessage(count)' = Market24hMessage(count)
    BY SameMessage
  <1>2. BookMessages' = BookMessages
    BY <1>1 DEF BookMessages
  <1>3. \A trade : Increment(trade)' = Increment(trade)
    BY <1>1 DEF Increment
  <1>4. TradesMessages' = TradesMessages
    BY <1>1, <1>3 DEF TradesMessages
  <1>5. StatisticsMessages' = StatisticsMessages
    BY <1>1 DEF StatisticsMessages
  <1>6. QED
    BY <1>2, <1>4, <1>5 DEF Messages

LEMMA LevelsQuoted == Level \subseteq Quoted
  <1>1. 1 .. MaxQuantity \subseteq 0 .. MaxQuantity
    BY BoundAssumption
  <1>2. QED
    BY <1>1 DEF Level, Quoted

LEMMA SetType ==
    ASSUME NEW from \in SUBSET Level, NEW changed \in SUBSET Quoted
    PROVE  Set(from, changed) \in SUBSET Level
  <1>1. \A level \in Quoted : level.quantity > 0 => level \in Level
    <2> SUFFICES ASSUME NEW level \in Quoted, level.quantity > 0 PROVE level \in Level
      OBVIOUS
    <2>1. /\ level.side \in Side /\ level.price \in Price /\ level.quantity \in 0 .. MaxQuantity
          /\ level = [side |-> level.side, price |-> level.price, quantity |-> level.quantity]
      BY DEF Quoted
    <2>2. level.quantity \in 1 .. MaxQuantity
      BY <2>1, BoundAssumption
    <2>3. QED
      BY <2>1, <2>2 DEF Level
  <1>2. QED
    BY <1>1 DEF Set, Without

LEMMA AppliedType ==
    ASSUME NEW type, NEW from \in SUBSET Level, NEW changed \in SUBSET Quoted
    PROVE  Applied(type, changed, from) \in SUBSET Level
  <1>1. {} \in SUBSET Level
    OBVIOUS
  <1>2. QED
    BY <1>1, SetType DEF Applied

\* What the exchange sends is a message, and is sent if there is room.
LEMMA MessageTypes ==
    ASSUME FeedInv
    PROVE  /\ \A topic \in Topic : Snapshot(topic) \in Messages
           /\ \A level \in Quoted : BookMessage("INCREMENTAL", {level}) \in Messages
           /\ \A trade \in Trade : TradesMessage("INCREMENTAL", <<trade>>) \in Messages
           /\ Answer(TRUE) \in Messages /\ Answer(FALSE) \in Messages
  <1>1. levels \in SUBSET Quoted /\ done \in Seq(Trade) /\ Len(done) \in Nat
    BY LevelsQuoted DEF FeedInv, TypeOK
  <1>2. BookMessage("SNAPSHOT", levels) \in BookMessages
    BY <1>1 DEF BookMessages, EventType
  <1>3. TradesMessage("SNAPSHOT", done) \in TradesMessages
    BY <1>1 DEF TradesMessages
  <1>4. Market24hMessage(Len(done)) \in StatisticsMessages
    BY <1>1 DEF StatisticsMessages
  <1>5. \A topic \in Topic : Snapshot(topic) \in Messages
    BY <1>2, <1>3, <1>4 DEF Snapshot, Topic, Messages
  <1>6. \A level \in Quoted : BookMessage("INCREMENTAL", {level}) \in BookMessages
    BY DEF BookMessages, EventType
  <1>7. \A trade \in Trade : TradesMessage("INCREMENTAL", <<trade>>) \in TradesMessages
    BY DEF TradesMessages, Increment
  <1>8. QED
    BY <1>5, <1>6, <1>7 DEF Messages, Answers

LEMMA Pushed ==
    ASSUME FeedInv, Room, NEW topic, NEW message \in Messages, Push(topic, message)
    PROVE  /\ queue' \in Seq(Messages) /\ Len(queue') \in 0 .. MaxQueue
           /\ queue' = queue \/ (topic \in subscribed /\ queue' = Append(queue, message))
  <1> DEFINE M == Messages
  <1>1. queue \in Seq(M) /\ message \in M /\ Len(queue) \in 0 .. MaxQueue
    BY DEF FeedInv, TypeOK
  <1> HIDE DEF M
  <1>2. queue' = queue \/ (topic \in subscribed /\ queue' = Append(queue, message))
    BY DEF Push
  <1>3. queue' \in Seq(M) /\ Len(queue') \in 0 .. MaxQueue
    BY <1>1, <1>2, BoundAssumption DEF Room
  <1>4. QED
    BY <1>2, <1>3 DEF M

LEMMA FeedInit == Init => FeedInv
  <1> SUFFICES ASSUME Init PROVE FeedInv
    OBVIOUS
  <1>1. Len(queue) \in 0 .. MaxQueue /\ queue \in Seq(Messages)
    BY BoundAssumption DEF Init
  <1>2. done \in Seq(Trade) /\ trades \in Seq(Trade) /\ since \in 0 .. Len(done)
    BY DEF Init
  <1>3. QED
    BY <1>1, <1>2 DEF Init, FeedInv, TypeOK

\* A step that only takes or adds messages of the kind there are.
LEMMA FeedKept ==
    ASSUME FeedInv, UNCHANGED <<api, item, done>>,
           security' \in BOOLEAN, security => security',
           listed' \in {"nobody", "client", "products"}, up' \in BOOLEAN,
           subscribed' \in SUBSET Topic, early' \in SUBSET subscribed',
           subscribed' \ early' # {} => Known',
           queue' \in Seq(Messages), Len(queue') \in 0 .. MaxQueue,
           levels' \in SUBSET Level, book' \in SUBSET Level, trades' \in Seq(Trade),
           since' \in 0 .. Len(done)
    PROVE  FeedInv'
  BY SameMessages DEF FeedInv, TypeOK

LEMMA FeedExchange == ASSUME FeedInv, Exchange PROVE FeedInv'
  <1> USE DEF productVars, sessionVars, publishedVars, exchangeVars
  <1>0. /\ levels \in SUBSET Level /\ book \in SUBSET Level /\ trades \in Seq(Trade)
        /\ done \in Seq(Trade) /\ Len(done) \in Nat /\ since \in 0 .. Len(done)
        /\ security \in BOOLEAN /\ listed \in {"nobody", "client", "products"} /\ up \in BOOLEAN
        /\ subscribed \in SUBSET Topic /\ early \in SUBSET subscribed
        /\ subscribed \ early # {} => Known
    BY DEF FeedInv, TypeOK
  <1>1. ASSUME NEW side \in Side, NEW price \in Price, NEW quantity \in 0 .. MaxQuantity,
               Quote(side, price, quantity)
        PROVE  FeedInv'
    <2> DEFINE level == [side |-> side, price |-> price, quantity |-> quantity]
    <2>1. level \in Quoted
      BY DEF Quoted
    <2>2. levels' = Set(levels, {level}) /\ Room
          /\ Push("orderbook", BookMessage("INCREMENTAL", {level}))
      BY <1>1 DEF Quote
    <2>3. UNCHANGED <<api, productVars, sessionVars, item, done, publishedVars>>
      BY <1>1 DEF Quote
    <2> HIDE DEF level
    <2>4. levels' \in SUBSET Level
      BY <1>0, <2>1, <2>2, SetType
    <2>5. queue' \in Seq(Messages) /\ Len(queue') \in 0 .. MaxQueue
      BY <2>1, <2>2, MessageTypes, Pushed
    <2>6. QED
      BY <1>0, <2>3, <2>4, <2>5, FeedKept DEF Known
  <1>2. ASSUME NEW side \in {"BUY", "SELL"}, NEW price \in Price,
               NEW quantity \in 1 .. MaxQuantity, Execute(side, price, quantity)
        PROVE  FeedInv'
    <2> DEFINE trade == [number |-> Len(done) + 1, side |-> side, price |-> price,
                         quantity |-> quantity]
    <2>1. trade \in Trade
      <3>1. Len(done) + 1 \in 1 .. MaxTrades
        BY <1>0, <1>2, BoundAssumption DEF Execute
      <3>2. QED
        BY <3>1 DEF Trade
    <2>2. done' = Append(done, trade) /\ Room
          /\ Push("trade", TradesMessage("INCREMENTAL", <<trade>>))
      BY <1>2 DEF Execute
    <2>3. UNCHANGED <<api, productVars, sessionVars, item, levels, publishedVars>>
      BY <1>2 DEF Execute
    <2> HIDE DEF trade
    <2>4. done' \in Seq(Trade) /\ since \in 0 .. Len(done')
      BY <1>0, <2>1, <2>2
    <2>5. queue' \in Seq(Messages) /\ Len(queue') \in 0 .. MaxQueue
      BY <2>1, <2>2, MessageTypes, Pushed
    <2>6. Messages' = Messages /\ Known' = Known
      BY <2>3, SameMessages DEF Known
    <2>7. QED
      BY <2>3, <2>4, <2>5, <2>6 DEF FeedInv, TypeOK
  <1>3. CASE SendBook
    <2>1. queue' \in Seq(Messages) /\ Len(queue') \in 0 .. MaxQueue
      BY <1>3, MessageTypes, Pushed DEF SendBook, Snapshot, Topic
    <2>2. QED
      BY <1>0, <1>3, <2>1, FeedKept DEF SendBook, Known
  <1>4. CASE SendStatistics
    <2>1. queue' \in Seq(Messages) /\ Len(queue') \in 0 .. MaxQueue
      BY <1>4, MessageTypes, Pushed DEF SendStatistics, Snapshot, Topic
    <2>2. QED
      BY <1>0, <1>4, <2>1, FeedKept DEF SendStatistics, Known
  <1>5. CASE SendPong
    <2> DEFINE A == Answer(FALSE)
    <2>1. queue' = <<A>> /\ A \in Messages
      BY <1>5, MessageTypes DEF SendPong
    <2> HIDE DEF A
    <2>2. queue' \in Seq(Messages) /\ Len(queue') \in 0 .. MaxQueue
      BY <2>1, BoundAssumption
    <2>3. QED
      BY <1>0, <1>5, <2>2, FeedKept DEF SendPong, Known
  <1>6. QED
    BY <1>1, <1>2, <1>3, <1>4, <1>5 DEF Exchange

LEMMA FeedGateway ==
    ASSUME FeedInv, Orderbook \/ TradeSummary \/ StatisticsUpdate \/ Ack \/ Pong
    PROVE  FeedInv'
  <1> USE DEF productVars, sessionVars, exchangeVars
  <1>1. /\ queue # <<>> /\ queue' = Tail(queue)
        /\ UNCHANGED <<api, productVars, sessionVars, exchangeVars, reference>>
    BY DEF Orderbook, TradeSummary, StatisticsUpdate, Ack, Pong, Handles
  <1>2. queue' \in Seq(Messages) /\ Len(queue') \in 0 .. MaxQueue
    <2>1. Len(queue) \in Nat /\ Len(queue) <= MaxQueue
      BY BoundAssumption DEF FeedInv, TypeOK
    <2>2. Len(queue') = Len(queue) - 1 /\ queue' \in Seq(Messages) /\ Len(queue') \in Nat
      BY <1>1, QueueTaken
    <2>3. QED
      BY <2>1, <2>2, BoundAssumption
  <1>3. book' \in SUBSET Level
    <2>1. CASE Orderbook
      BY <2>1, OrderbookTaken, AppliedType DEF FeedInv, TypeOK
    <2>2. CASE book' = book
      BY <2>2 DEF FeedInv, TypeOK
    <2>3. QED
      BY <2>1, <2>2 DEF TradeSummary, StatisticsUpdate, Ack, Pong
  <1>4. trades' \in Seq(Trade)
    <2>1. trades \in Seq(Trade)
      BY DEF FeedInv, TypeOK
    <2>2. CASE TradeSummary
      BY <2>1, <2>2, TradesTaken
    <2>3. CASE trades' = trades
      BY <2>1, <2>3
    <2>4. QED
      BY <2>2, <2>3 DEF Orderbook, StatisticsUpdate, Ack, Pong
  <1>5. QED
    BY <1>1, <1>2, <1>3, <1>4, FeedKept DEF FeedInv, TypeOK, Known

LEMMA FeedSubscribed == ASSUME FeedInv, NEW topic \in Topic, Subscribed(topic) PROVE FeedInv'
  <1> DEFINE A == Answer(TRUE)
             B == Snapshot(topic)
  <1>1. queue' = queue \o <<A, B>> /\ queue = <<>> /\ A \in Messages /\ B \in Messages
    BY MessageTypes DEF Subscribed
  <1> HIDE DEF A, B
  <1>2. queue' = <<A, B>>
    BY <1>1
  <1>3. queue' \in Seq(Messages) /\ Len(queue') \in 0 .. MaxQueue
    BY <1>1, <1>2, BoundAssumption
  <1>4. /\ subscribed' = subscribed \union {topic}
        /\ early' = IF Known THEN early ELSE early \union {topic}
        /\ topic \notin subscribed
        /\ since' = IF topic = "trade" THEN Len(done) ELSE since
        /\ UNCHANGED <<api, productVars, up, exchangeVars, publishedVars>>
    BY DEF Subscribed
  <1>5. subscribed' \in SUBSET Topic /\ early' \in SUBSET subscribed'
        /\ (subscribed' \ early' # {} => Known')
    BY <1>4 DEF FeedInv, TypeOK, Known, productVars
  <1>6. since' \in 0 .. Len(done)
    BY <1>4 DEF FeedInv, TypeOK
  <1>7. QED
    BY <1>3, <1>4, <1>5, <1>6, FeedKept
    DEF FeedInv, TypeOK, productVars, exchangeVars, publishedVars

LEMMA FeedStep == FeedInv /\ [Next]_vars => FeedInv'
  <1> SUFFICES ASSUME FeedInv, [Next]_vars PROVE FeedInv'
    OBVIOUS
  <1> USE DEF productVars, sessionVars, publishedVars, exchangeVars
  <1>1. CASE Exchange
    BY <1>1, FeedExchange
  <1>2. CASE Ready
    BY <1>2, FeedKept DEF Ready, FeedInv, TypeOK, Known
  <1>3. CASE Disconnected
    <2>1. queue' \in Seq(Messages) /\ Len(queue') \in 0 .. MaxQueue /\ since' \in 0 .. Len(done)
      BY <1>3, BoundAssumption DEF Disconnected, FeedInv, TypeOK
    <2>2. QED
      BY <1>3, <2>1, FeedKept DEF Disconnected, FeedInv, TypeOK
  <1>4. ASSUME NEW topic \in Topic, Subscribed(topic) PROVE FeedInv'
    BY <1>4, FeedSubscribed
  <1>5. CASE ProductsAck
    BY <1>5, FeedKept DEF ProductsAck, FeedInv, TypeOK, Known
  <1>6. CASE Subscribe
    BY <1>6, FeedKept DEF Subscribe, FeedInv, TypeOK, Known
  <1>7. CASE Orderbook \/ TradeSummary \/ StatisticsUpdate \/ Ack \/ Pong
    BY <1>7, FeedGateway
  <1>8. CASE UNCHANGED vars
    BY <1>8, FeedKept DEF vars, FeedInv, TypeOK, Known
  <1>9. QED
    BY <1>1, <1>2, <1>3, <1>4, <1>5, <1>6, <1>7, <1>8 DEF Next

\* Every message that is on its way is given to one handler, and not to the end
\* of the process.
LEMMA FeedUnderstood == FeedInv => Understood
  <1> SUFFICES ASSUME FeedInv, NEW i \in DOMAIN queue
               PROVE  \E handler \in {"Orderbook", "Book", "Trades2", "Trades", "Market24h2",
                                      "Market24h", "Ack", "Pong"} :
                         /\ Handlers(queue[i]) = {handler}
                         /\ handler \in {"Trades2", "Trades"} => ~Unexpected(queue[i])
    BY DEF Understood
  <1>1. queue[i] \in Messages
    BY DEF FeedInv
  <1>2. \A message \in TradesMessages : ~Unexpected(message)
    <2>1. \A type, items : ~Unexpected(TradesMessage(type, items))
      BY DEF Unexpected, TradesMessage, Data
    <2>2. QED
      BY <2>1 DEF TradesMessages, Increment
  <1>3. QED
    BY <1>1, <1>2, Api, BookHandled, TradesHandled, StatisticsHandled, AnswerHandled
    DEF Messages, BookHandler, TradesHandler, StatisticsHandler

\* The state of the feed keeps its type, for any prices, quantities and bounds.
THEOREM TypeCorrect == Spec => []TypeOK
  <1>1. FeedInv => TypeOK
    BY DEF FeedInv
  <1>2. QED
    BY <1>1, FeedInit, FeedStep, PTL DEF Spec

\* No message of the exchange is left to no handler, or to two of them, whatever
\* sessions and subscriptions came before it.
THEOREM EveryMessageUnderstood == Spec => []Understood
  BY FeedInit, FeedStep, FeedUnderstood, PTL DEF Spec

-----------------------------------------------------------------------------
(* The statistics.                                                          *)

\* No message is of two kinds.
LEMMA Kinds ==
    ASSUME api \in {"USD_M", "COIN_M"}
    PROVE  /\ Answers \intersect BookMessages = {} /\ Answers \intersect TradesMessages = {}
           /\ Answers \intersect StatisticsMessages = {}
           /\ BookMessages \intersect TradesMessages = {}
           /\ BookMessages \intersect StatisticsMessages = {}
           /\ TradesMessages \intersect StatisticsMessages = {}
  BY BookHandled, TradesHandled, StatisticsHandled, AnswerHandled
  DEF BookHandler, TradesHandler, StatisticsHandler

\* What a step puts on its way.
NewMessage(message) ==
    \/ message \in Answers \union BookMessages \union TradesMessages
    \/ message = Market24hMessage(Len(done))

LEMMA SnapshotIsNew ==
    ASSUME FeedInv, NEW topic \in Topic
    PROVE  NewMessage(Snapshot(topic))
  <1>1. BookMessage("SNAPSHOT", levels) \in BookMessages
    BY LevelsQuoted DEF BookMessages, EventType, FeedInv, TypeOK
  <1>2. TradesMessage("SNAPSHOT", done) \in TradesMessages
    BY DEF TradesMessages, FeedInv, TypeOK
  <1>3. QED
    BY <1>1, <1>2 DEF Snapshot, NewMessage, Topic

LEMMA AppendedOne ==
    ASSUME FeedInv, NEW message \in Messages, queue' \in {queue, Append(queue, message)},
           NEW i \in DOMAIN queue'
    PROVE  (\E j \in DOMAIN queue : queue'[i] = queue[j]) \/ queue'[i] = message
  <1> DEFINE M == Messages
  <1>1. queue \in Seq(M) /\ message \in M
    BY DEF FeedInv
  <1> HIDE DEF M
  <1>2. QED
    BY <1>1

LEMMA QueueStep ==
    ASSUME FeedInv, [Next]_vars, NEW i \in DOMAIN queue'
    PROVE  (\E j \in DOMAIN queue : queue'[i] = queue[j]) \/ NewMessage(queue'[i])
  <1>1. ASSUME NEW side \in Side, NEW price \in Price, NEW quantity \in 0 .. MaxQuantity,
               Quote(side, price, quantity)
        PROVE  (\E j \in DOMAIN queue : queue'[i] = queue[j]) \/ NewMessage(queue'[i])
    <2> DEFINE level == [side |-> side, price |-> price, quantity |-> quantity]
    <2>1. level \in Quoted
      BY DEF Quoted
    <2>2. Push("orderbook", BookMessage("INCREMENTAL", {level})) /\ Room
      BY <1>1 DEF Quote
    <2> HIDE DEF level
    <2> DEFINE message == BookMessage("INCREMENTAL", {level})
    <2>3. message \in BookMessages /\ message \in Messages
      BY <2>1 DEF BookMessages, EventType, Messages
    <2>4. queue' \in {queue, Append(queue, message)}
      BY <2>2, <2>3, Pushed
    <2> HIDE DEF message
    <2>5. QED
      BY <2>3, <2>4, AppendedOne DEF NewMessage
  <1>2. ASSUME NEW side \in {"BUY", "SELL"}, NEW price \in Price,
               NEW quantity \in 1 .. MaxQuantity, Execute(side, price, quantity)
        PROVE  (\E j \in DOMAIN queue : queue'[i] = queue[j]) \/ NewMessage(queue'[i])
    <2> DEFINE trade == [number |-> Len(done) + 1, side |-> side, price |-> price,
                         quantity |-> quantity]
    <2>1. trade \in Trade
      <3>1. Len(done) + 1 \in 1 .. MaxTrades
        BY <1>2, BoundAssumption DEF Execute, FeedInv, TypeOK
      <3>2. QED
        BY <3>1 DEF Trade
    <2>2. Push("trade", TradesMessage("INCREMENTAL", <<trade>>)) /\ Room
      BY <1>2 DEF Execute
    <2> HIDE DEF trade
    <2> DEFINE message == TradesMessage("INCREMENTAL", <<trade>>)
    <2>3. message \in TradesMessages /\ message \in Messages
      BY <2>1 DEF TradesMessages, Increment, Messages
    <2>4. queue' \in {queue, Append(queue, message)}
      BY <2>2, <2>3, Pushed
    <2> HIDE DEF message
    <2>5. QED
      BY <2>3, <2>4, AppendedOne DEF NewMessage
  <1>3. ASSUME NEW topic \in Topic, Push(topic, Snapshot(topic)), Room
        PROVE  (\E j \in DOMAIN queue : queue'[i] = queue[j]) \/ NewMessage(queue'[i])
    <2>1. Snapshot(topic) \in Messages
      BY MessageTypes
    <2>2. queue' \in {queue, Append(queue, Snapshot(topic))}
      BY <1>3, <2>1, Pushed
    <2>3. QED
      BY <2>1, <2>2, AppendedOne, SnapshotIsNew
  <1>4. CASE SendBook \/ SendStatistics
    <2>1. \E topic \in Topic : Push(topic, Snapshot(topic)) /\ Room
      BY <1>4 DEF SendBook, SendStatistics, Snapshot, Topic
    <2>2. QED
      BY <1>3, <2>1
  <1>5. CASE SendPong
    <2> DEFINE A == Answer(FALSE)
    <2>1. queue' = <<A>> /\ A \in Answers
      BY <1>5 DEF SendPong, Answers
    <2> HIDE DEF A
    <2>2. QED
      BY <2>1 DEF NewMessage
  <1>6. ASSUME NEW topic \in Topic, Subscribed(topic)
        PROVE  (\E j \in DOMAIN queue : queue'[i] = queue[j]) \/ NewMessage(queue'[i])
    <2> DEFINE A == Answer(TRUE)
               B == Snapshot(topic)
    <2>1. queue' = queue \o <<A, B>> /\ queue = <<>> /\ A \in Answers /\ NewMessage(B)
      BY <1>6, SnapshotIsNew DEF Subscribed, Answers
    <2> HIDE DEF A, B
    <2>2. queue' = <<A, B>>
      BY <2>1
    <2>3. queue'[i] \in {A, B}
      BY <2>2
    <2>4. NewMessage(A)
      BY <2>1 DEF NewMessage
    <2>5. QED
      BY <2>1, <2>3, <2>4
  <1>7. CASE Orderbook \/ TradeSummary \/ StatisticsUpdate \/ Ack \/ Pong
    <2>1. queue # <<>> /\ queue' = Tail(queue)
      BY <1>7 DEF Orderbook, TradeSummary, StatisticsUpdate, Ack, Pong, Handles
    <2>2. QED
      BY <2>1, QueueTaken
  <1>8. CASE Ready \/ ProductsAck \/ Subscribe \/ UNCHANGED vars
    BY <1>8 DEF Ready, ProductsAck, Subscribe, vars, sessionVars
  <1>9. CASE Disconnected
    BY <1>9 DEF Disconnected
  <1>10. QED
    BY <1>1, <1>2, <1>4, <1>5, <1>6, <1>7, <1>8, <1>9 DEF Next, Exchange

\* The statistics on their way were the exchange's, too.
StatisticsInv ==
    /\ \A i \in DOMAIN queue, count \in Nat :
          queue[i] = Market24hMessage(count) => count \in 0 .. Len(done)
    /\ DayAgrees

LEMMA CountTold ==
    ASSUME api \in {"USD_M", "COIN_M"}, NEW count \in Nat, NEW other \in Nat,
           Market24hMessage(count) = Market24hMessage(other)
    PROVE  count = other
  <1>1. Day(count)["OPEN_PRICE"] = Day(other)["OPEN_PRICE"]
    <2>1. "OPEN_PRICE" \in PriceType
      BY DEF PriceType
    <2>2. QED
      BY <2>1, DayTranslated
  <1>2. 10 + count = 10 + other
    BY <1>1 DEF Day
  <1>3. QED
    BY <1>2

LEMMA StatisticsStep ==
    ASSUME FeedInv, StatisticsInv, [Next]_vars
    PROVE  StatisticsInv'
  <1>1. api' = api /\ Len(done) \in Nat /\ Len(done') \in Nat /\ Len(done) <= Len(done')
    <2>1. api' = api /\ (done' = done \/ \E trade : done' = Append(done, trade))
      BY DEF Next, Exchange, Quote, Execute, SendBook, SendStatistics, SendPong, Ready, Disconnected,
             Subscribed, ProductsAck, Subscribe, Orderbook, TradeSummary, StatisticsUpdate, Ack, Pong,
             Handles, vars, exchangeVars
    <2>2. done \in Seq(Trade) /\ done' \in Seq(Trade)
      BY FeedStep DEF FeedInv, TypeOK
    <2>3. QED
      BY <2>1, <2>2
  <1>2. ASSUME NEW i \in DOMAIN queue', NEW count \in Nat, queue'[i] = Market24hMessage(count)'
        PROVE  count \in 0 .. Len(done')
    <2>1. queue'[i] = Market24hMessage(count)
      BY <1>1, <1>2, SameMessage
    <2>2. CASE \E j \in DOMAIN queue : queue'[i] = queue[j]
      <3>1. count \in 0 .. Len(done)
        BY <2>1, <2>2 DEF StatisticsInv
      <3>2. QED
        BY <1>1, <3>1
    <2>3. CASE NewMessage(queue'[i])
      <3>1. queue'[i] \in StatisticsMessages
        BY <2>1 DEF StatisticsMessages
      <3>2. queue'[i] = Market24hMessage(Len(done))
        BY <2>3, <3>1, Api, Kinds DEF NewMessage
      <3>3. count = Len(done)
        BY <1>1, <2>1, <3>2, Api, CountTold
      <3>4. QED
        BY <1>1, <3>3
    <2>4. QED
      BY <2>2, <2>3, QueueStep
  <1>3. DayAgrees'
    <2>1. CASE statistics' = statistics
      BY <1>1, <2>1 DEF StatisticsInv, DayAgrees
    <2>2. CASE StatisticsUpdate
      <3>1. PICK count \in Nat :
               /\ Head(queue) = Market24hMessage(count)
               /\ IF Known THEN \A type \in PriceType : statistics'[type] = Day(count)[type]
                  ELSE statistics' = statistics
        BY <2>2, StatisticsTaken
      <3>2. queue # <<>>
        BY <2>2 DEF StatisticsUpdate, Handles
      <3>3. count \in 0 .. Len(done)
        BY <3>1, <3>2, QueueTaken DEF StatisticsInv
      <3>4. count \in 0 .. Len(done')
        BY <1>1, <3>3
      <3>5. QED
        BY <2>1, <3>1, <3>4 DEF DayAgrees
    <2>3. QED
      BY <2>1, <2>2
      DEF Next, Exchange, Quote, Execute, SendBook, SendStatistics, SendPong, Ready, Disconnected,
          Subscribed, ProductsAck, Subscribe, Orderbook, TradeSummary, Ack, Pong, vars, publishedVars
  <1>4. QED
    BY <1>2, <1>3 DEF StatisticsInv

\* The published prices of the day are those of one moment of the exchange, every
\* one unscaled, for any price factor and any number of trades.
THEOREM DayIsReal == Spec => []DayAgrees
  <1>1. Init => StatisticsInv
    BY DEF Init, StatisticsInv, DayAgrees
  <1>2. StatisticsInv => DayAgrees
    BY DEF StatisticsInv
  <1>3. FeedInv /\ StatisticsInv /\ [Next]_vars => StatisticsInv'
    BY StatisticsStep
  <1>4. QED
    BY <1>1, <1>2, <1>3, FeedInit, FeedStep, PTL DEF Spec

-----------------------------------------------------------------------------
(* The trades.                                                              *)

Told(number) == \E k \in DOMAIN trades : trades[k].number = number

OnItsWay(i, trade) == queue[i] = Increment(trade)

Coming(number) == \E i \in DOMAIN queue, trade \in Trade : OnItsWay(i, trade) /\ trade.number = number

\* Published trades, trades on their way and trades at the exchange follow each
\* other in the order of their numbers, and of those since the subscription none
\* is missing.
TradesInv ==
    /\ \A n \in DOMAIN done : done[n].number = n
    /\ \A k \in DOMAIN trades : trades[k].number \in DOMAIN done /\ trades[k] = done[trades[k].number]
    /\ \A j, k \in DOMAIN trades : j < k => trades[j].number < trades[k].number
    /\ \A i \in DOMAIN queue, trade \in Trade :
          OnItsWay(i, trade) => trade.number \in DOMAIN done /\ trade = done[trade.number]
    /\ \A i, j \in DOMAIN queue, trade, later \in Trade :
          i < j /\ OnItsWay(i, trade) /\ OnItsWay(j, later) => trade.number < later.number
    /\ \A i \in DOMAIN queue, trade \in Trade, k \in DOMAIN trades :
          OnItsWay(i, trade) => trades[k].number < trade.number
    /\ "trade" \in subscribed \ early =>
         \A number \in since + 1 .. Len(done) : Told(number) \/ Coming(number)

LEMMA TradeTold ==
    ASSUME api \in {"USD_M", "COIN_M"}, NEW trade \in Trade, NEW other \in Trade,
           Increment(trade) = Increment(other)
    PROVE  trade = other
  <1>1. <<trade>> = <<other>>
    BY TradeTranslated
  <1>2. QED
    BY <1>1

LEMMA SnapshotIsNoIncrement ==
    ASSUME NEW items, NEW trade
    PROVE  TradesMessage("SNAPSHOT", items) # Increment(trade)
  <1>1. TradesMessage("SNAPSHOT", items).type = "SNAPSHOT"
    BY DEF TradesMessage
  <1>2. Increment(trade).type = "INCREMENTAL"
    BY DEF Increment, TradesMessage
  <1>3. QED
    BY <1>1, <1>2

\* A step that neither executes nor publishes: the trades on their way move on
\* by so many places, and may be lost with the subscription.
LEMMA TradesMove ==
    ASSUME FeedInv, TradesInv, UNCHANGED <<api, done, trades>>, queue' \in Seq(Messages),
           NEW places \in 0 .. 1,
           \A i \in DOMAIN queue', trade \in Trade :
              queue'[i] = Increment(trade) =>
                 i + places \in DOMAIN queue /\ queue[i + places] = Increment(trade),
           "trade" \in subscribed' \ early' =>
              \/ since' = Len(done)
              \/ /\ "trade" \in subscribed \ early /\ since' = since
                 /\ \A i \in DOMAIN queue, trade \in Trade :
                       queue[i] = Increment(trade) =>
                          i - places \in DOMAIN queue' /\ queue'[i - places] = Increment(trade)
    PROVE  TradesInv'
  <1>1. \A trade : Increment(trade)' = Increment(trade)
    BY SameMessage DEF Increment
  <1>2. \A i \in DOMAIN queue', trade \in Trade :
           OnItsWay(i, trade)' => i + places \in DOMAIN queue /\ OnItsWay(i + places, trade)
    BY <1>1 DEF OnItsWay
  <1>3. \A i \in DOMAIN queue' : i \in Nat
    <2> DEFINE M == Messages
    <2>1. queue' \in Seq(M)
      OBVIOUS
    <2> HIDE DEF M
    <2>2. QED
      BY <2>1
  <1>4. \A i, j \in DOMAIN queue', trade, later \in Trade :
          i < j /\ OnItsWay(i, trade)' /\ OnItsWay(j, later)' => trade.number < later.number
    BY <1>2, <1>3 DEF TradesInv
  <1>5. "trade" \in subscribed' \ early' =>
          \A number \in since' + 1 .. Len(done') : Told(number)' \/ Coming(number)'
    <2> SUFFICES ASSUME "trade" \in subscribed' \ early', NEW number \in since' + 1 .. Len(done)
                 PROVE  Told(number)' \/ Coming(number)'
      OBVIOUS
    <2>1. Len(done) \in Nat
      BY DEF FeedInv, TypeOK
    <2>2. since' # Len(done)
      BY <2>1
    <2>3. /\ "trade" \in subscribed \ early /\ since' = since
          /\ \A i \in DOMAIN queue, trade \in Trade :
                queue[i] = Increment(trade) =>
                   i - places \in DOMAIN queue' /\ queue'[i - places] = Increment(trade)
      BY <2>2
    <2>4. Told(number) \/ Coming(number)
      BY <2>3 DEF TradesInv
    <2>5. Coming(number) => Coming(number)'
      BY <1>1, <2>3 DEF Coming, OnItsWay
    <2>6. QED
      BY <2>4, <2>5 DEF Told
  <1>6. QED
    BY <1>2, <1>4, <1>5 DEF TradesInv

\* The exchange executes: the trade is the last on its way, if it is sent.
LEMMA TradesExecute ==
    ASSUME FeedInv, TradesInv, NEW side \in {"BUY", "SELL"}, NEW price \in Price,
           NEW quantity \in 1 .. MaxQuantity, Execute(side, price, quantity)
    PROVE  TradesInv'
  <1> DEFINE new == [number |-> Len(done) + 1, side |-> side, price |-> price,
                     quantity |-> quantity]
  <1>1. /\ done \in Seq(Trade) /\ Len(done) \in Nat /\ since \in 0 .. Len(done)
        /\ trades \in Seq(Trade) /\ api \in {"USD_M", "COIN_M"} /\ Len(done) + 1 \in 1 .. MaxTrades
    BY BoundAssumption DEF FeedInv, TypeOK, Execute
  <1>2. new \in Trade /\ new.number = Len(done) + 1
    BY <1>1 DEF Trade
  <1>3. /\ done' = Append(done, new) /\ Push("trade", Increment(new)) /\ Room
        /\ UNCHANGED <<api, trades, subscribed, early, since>>
    BY DEF Execute, sessionVars, publishedVars, Increment
  <1> HIDE DEF new
  <1>4. Increment(new) \in Messages
    BY <1>2 DEF Messages, TradesMessages
  <1> DEFINE M == Messages
             message == Increment(new)
  <1>5. queue \in Seq(M) /\ message \in M
    BY <1>4 DEF FeedInv
  <1>6. \A trade : Increment(trade)' = Increment(trade)
    BY <1>3, SameMessage DEF Increment
  <1>7. /\ Len(done') = Len(done) + 1 /\ DOMAIN done' = 1 .. Len(done) + 1
        /\ done'[Len(done) + 1] = new
        /\ \A n \in DOMAIN done : n \in DOMAIN done' /\ done'[n] = done[n] /\ n <= Len(done)
    BY <1>1, <1>2, <1>3
  <1>8. queue' = IF "trade" \in subscribed THEN Append(queue, message) ELSE queue
    BY <1>3 DEF Push
  <1>9. /\ \A i \in DOMAIN queue' :
             \/ i \in DOMAIN queue /\ queue'[i] = queue[i]
             \/ i = Len(queue) + 1 /\ queue'[i] = message /\ \A j \in DOMAIN queue' : j <= i
        /\ \A i \in DOMAIN queue : i \in DOMAIN queue' /\ queue'[i] = queue[i] /\ i \in Nat /\ i <= Len(queue)
        /\ "trade" \in subscribed => Len(queue) + 1 \in DOMAIN queue' /\ queue'[Len(queue) + 1] = message
        /\ Len(queue) \in Nat
    <2> HIDE DEF M, message
    <2>1. QED
      BY <1>5, <1>8
  <1>10. \A trade \in Trade : message = Increment(trade) => trade = new
    BY <1>1, <1>2, TradeTold
  <1> HIDE DEF M, message
  <1>11. \A i \in DOMAIN queue', trade \in Trade :
            OnItsWay(i, trade)' =>
              \/ i \in DOMAIN queue /\ OnItsWay(i, trade)
              \/ i = Len(queue) + 1 /\ trade = new
    BY <1>6, <1>9, <1>10 DEF OnItsWay
  <1>12. \A n \in DOMAIN done' : done'[n].number = n
    <2>1. \A n \in DOMAIN done : done[n].number = n
      BY DEF TradesInv
    <2>2. DOMAIN done = 1 .. Len(done)
      BY <1>1
    <2>3. \A n \in 1 .. Len(done) + 1 : n = Len(done) + 1 \/ n \in 1 .. Len(done)
      BY <1>1
    <2>4. QED
      BY <1>2, <1>7, <2>1, <2>2, <2>3, Zenon
  <1>13. \A k \in DOMAIN trades' : trades'[k].number \in DOMAIN done' /\ trades'[k] = done'[trades'[k].number]
    BY <1>3, <1>7 DEF TradesInv
  <1>14. \A j, k \in DOMAIN trades' : j < k => trades'[j].number < trades'[k].number
    BY <1>3 DEF TradesInv
  <1>15. \A i \in DOMAIN queue', trade \in Trade :
            OnItsWay(i, trade)' => trade.number \in DOMAIN done' /\ trade = done'[trade.number]
    BY <1>1, <1>2, <1>7, <1>11 DEF TradesInv
  <1>16. \A i, j \in DOMAIN queue', trade, later \in Trade :
            i < j /\ OnItsWay(i, trade)' /\ OnItsWay(j, later)' => trade.number < later.number
    <2> SUFFICES ASSUME NEW i \in DOMAIN queue', NEW j \in DOMAIN queue', NEW trade \in Trade,
                        NEW later \in Trade, i < j, OnItsWay(i, trade)', OnItsWay(j, later)'
                 PROVE  trade.number < later.number
      OBVIOUS
    <2>1. i \in DOMAIN queue /\ OnItsWay(i, trade)
      BY <1>9, <1>11
    <2>2. trade.number \in 1 .. Len(done)
      BY <1>1, <2>1 DEF TradesInv
    <2>3. CASE j \in DOMAIN queue /\ OnItsWay(j, later)
      BY <2>1, <2>3 DEF TradesInv
    <2>4. CASE later = new
      BY <1>1, <1>2, <2>2, <2>4
    <2>5. QED
      BY <1>11, <2>3, <2>4
  <1>17. \A i \in DOMAIN queue', trade \in Trade, k \in DOMAIN trades' :
            OnItsWay(i, trade)' => trades'[k].number < trade.number
    <2> SUFFICES ASSUME NEW i \in DOMAIN queue', NEW trade \in Trade, NEW k \in DOMAIN trades,
                        OnItsWay(i, trade)'
                 PROVE  trades[k].number < trade.number
      BY <1>3
    <2>1. trades[k].number \in 1 .. Len(done)
      BY <1>1 DEF TradesInv
    <2>2. CASE trade = new
      BY <1>1, <1>2, <2>1, <2>2
    <2>3. CASE i \in DOMAIN queue /\ OnItsWay(i, trade)
      BY <2>3 DEF TradesInv
    <2>4. QED
      BY <1>11, <2>2, <2>3
  <1>18. "trade" \in subscribed' \ early' =>
            \A number \in since' + 1 .. Len(done') : Told(number)' \/ Coming(number)'
    <2> SUFFICES ASSUME "trade" \in subscribed \ early, NEW number \in since + 1 .. Len(done) + 1
                 PROVE  Told(number)' \/ Coming(number)'
      BY <1>3, <1>7
    <2>1. CASE number = Len(done) + 1
      BY <1>2, <1>6, <1>9, <2>1 DEF Coming, OnItsWay, message
    <2>2. CASE number \in since + 1 .. Len(done)
      <3>1. Told(number) \/ Coming(number)
        BY <2>2 DEF TradesInv
      <3>2. Coming(number) => Coming(number)'
        BY <1>6, <1>9 DEF Coming, OnItsWay
      <3>3. Told(number) => Told(number)'
        BY <1>3 DEF Told
      <3>4. QED
        BY <3>1, <3>2, <3>3
    <2>3. QED
      BY <1>1, <2>1, <2>2
  <1>19. QED
    BY <1>12, <1>13, <1>14, <1>15, <1>16, <1>17, <1>18 DEF TradesInv

\* The gateway publishes: the first on its way becomes the last that was told.
LEMMA TradesPublish ==
    ASSUME FeedInv, TradesInv, TradeSummary, NEW trade \in Trade,
           Head(queue) = Increment(trade),
           trades' = IF Known THEN Append(trades, trade) ELSE trades
    PROVE  TradesInv'
  <1>1. /\ queue # <<>> /\ queue' = Tail(queue)
        /\ UNCHANGED <<api, done, subscribed, early, since>>
    BY DEF TradeSummary, Handles, sessionVars, exchangeVars
  <1>2. \A t : Increment(t)' = Increment(t)
    BY <1>1, SameMessage DEF Increment
  <1>3. /\ 1 \in DOMAIN queue /\ OnItsWay(1, trade)
        /\ \A i \in DOMAIN queue' : i \in Nat /\ i + 1 \in DOMAIN queue /\ 1 < i + 1 /\ queue'[i] = queue[i + 1]
        /\ \A i \in DOMAIN queue : i # 1 => i - 1 \in DOMAIN queue' /\ queue'[i - 1] = queue[i]
    <2> DEFINE M == Messages
    <2>1. queue \in Seq(M)
      BY DEF FeedInv
    <2> HIDE DEF M
    <2>2. \A i \in DOMAIN queue' : i \in Nat /\ 1 < i + 1
      BY <1>1, <2>1
    <2>3. QED
      BY <1>1, <2>2, QueueTaken DEF OnItsWay
  <1>4. /\ trades \in Seq(Trade) /\ done \in Seq(Trade) /\ api \in {"USD_M", "COIN_M"}
        /\ Len(done) \in Nat /\ since \in 0 .. Len(done)
    BY DEF FeedInv, TypeOK
  <1>5. \A i \in DOMAIN queue', t \in Trade :
           OnItsWay(i, t)' => i + 1 \in DOMAIN queue /\ OnItsWay(i + 1, t)
    BY <1>2, <1>3 DEF OnItsWay
  <1>6. \A i, j \in DOMAIN queue', t, later \in Trade :
           i < j /\ OnItsWay(i, t)' /\ OnItsWay(j, later)' => t.number < later.number
    BY <1>3, <1>5 DEF TradesInv
  <1>7. \A i \in DOMAIN queue', t \in Trade :
           OnItsWay(i, t)' => t.number \in DOMAIN done' /\ t = done'[t.number]
    BY <1>1, <1>5 DEF TradesInv
  <1>8. \A i \in DOMAIN queue', t \in Trade : OnItsWay(i, t)' => trade.number < t.number
    BY <1>3, <1>5 DEF TradesInv
  <1>9. /\ \A k \in DOMAIN trades' :
              \/ k \in DOMAIN trades /\ trades'[k] = trades[k]
              \/ trades'[k] = trade /\ \A j \in DOMAIN trades' : j < k => j \in DOMAIN trades
        /\ \A k \in DOMAIN trades : k \in DOMAIN trades' /\ trades'[k] = trades[k]
        /\ Known => \E k \in DOMAIN trades' : trades'[k] = trade
        /\ \A j, k \in DOMAIN trades' : j < k => j \in DOMAIN trades
    <2>1. CASE Known
      <3>1. trades' = Append(trades, trade) /\ Len(trades) \in Nat
        BY <1>4, <2>1
      <3>2. Len(trades) + 1 \in DOMAIN trades' /\ trades'[Len(trades) + 1] = trade
        BY <1>4, <3>1
      <3>3. \A k \in DOMAIN trades' : \/ k \in DOMAIN trades /\ trades'[k] = trades[k]
                                      \/ k = Len(trades) + 1 /\ trades'[k] = trade
        BY <1>4, <3>1
      <3>4. \A k \in DOMAIN trades : k \in DOMAIN trades' /\ trades'[k] = trades[k]
        BY <1>4, <3>1
      <3>5. \A j, k \in DOMAIN trades' : j < k => j \in DOMAIN trades
        BY <1>4, <3>1
      <3>6. QED
        BY <3>2, <3>3, <3>4, <3>5
    <2>2. CASE ~Known
      BY <2>2
    <2>3. QED
      BY <2>1, <2>2
  <1>10. trade.number \in DOMAIN done /\ trade = done[trade.number]
    BY <1>3 DEF TradesInv
  <1>11. \A k \in DOMAIN trades : trades[k].number < trade.number
    BY <1>3 DEF TradesInv
  <1>12. \A k \in DOMAIN trades' : trades'[k].number \in DOMAIN done' /\ trades'[k] = done'[trades'[k].number]
    BY <1>1, <1>9, <1>10 DEF TradesInv
  <1>13. \A j, k \in DOMAIN trades' : j < k => trades'[j].number < trades'[k].number
    <2> SUFFICES ASSUME NEW j \in DOMAIN trades', NEW k \in DOMAIN trades', j < k
                 PROVE  trades'[j].number < trades'[k].number
      OBVIOUS
    <2>1. j \in DOMAIN trades /\ trades'[j] = trades[j]
      BY <1>9
    <2>2. CASE k \in DOMAIN trades /\ trades'[k] = trades[k]
      BY <2>1, <2>2 DEF TradesInv
    <2>3. CASE trades'[k] = trade
      BY <1>11, <2>1, <2>3
    <2>4. QED
      BY <1>9, <2>2, <2>3
  <1>14. \A i \in DOMAIN queue', t \in Trade, k \in DOMAIN trades' :
            OnItsWay(i, t)' => trades'[k].number < t.number
    <2> SUFFICES ASSUME NEW i \in DOMAIN queue', NEW t \in Trade, NEW k \in DOMAIN trades',
                        OnItsWay(i, t)'
                 PROVE  trades'[k].number < t.number
      OBVIOUS
    <2>1. CASE k \in DOMAIN trades /\ trades'[k] = trades[k]
      BY <1>5, <2>1 DEF TradesInv
    <2>2. CASE trades'[k] = trade
      BY <1>8, <2>2
    <2>3. QED
      BY <1>9, <2>1, <2>2
  <1>15. "trade" \in subscribed' \ early' =>
            \A number \in since' + 1 .. Len(done') : Told(number)' \/ Coming(number)'
    <2> SUFFICES ASSUME "trade" \in subscribed \ early, NEW number \in since + 1 .. Len(done)
                 PROVE  Told(number)' \/ Coming(number)'
      BY <1>1
    <2>1. Known
      BY DEF FeedInv
    <2>2. CASE Told(number)
      BY <1>9, <2>2 DEF Told
    <2>3. ASSUME NEW i \in DOMAIN queue, NEW t \in Trade, OnItsWay(i, t), t.number = number
          PROVE  Told(number)' \/ Coming(number)'
      <3>1. CASE i = 1
        <4>1. t = trade
          BY <1>4, <2>3, <3>1, <1>3, TradeTold DEF OnItsWay
        <4>2. QED
          BY <1>9, <2>1, <2>3, <4>1 DEF Told
      <3>2. CASE i # 1
        BY <1>2, <1>3, <2>3, <3>2 DEF Coming, OnItsWay
      <3>3. QED
        BY <3>1, <3>2
    <2>4. Told(number) \/ Coming(number)
      BY DEF TradesInv
    <2>5. QED
      BY <2>2, <2>3, <2>4 DEF Coming
  <1>16. QED
    BY <1>1, <1>6, <1>7, <1>12, <1>13, <1>14, <1>15 DEF TradesInv

LEMMA NoTradePushed ==
    ASSUME FeedInv, TradesInv, NEW message \in Messages, message \notin {Increment(t) : t \in Trade},
           queue' \in {queue, Append(queue, message)},
           UNCHANGED <<api, done, trades, subscribed, early, since>>
    PROVE  TradesInv'
  <1> DEFINE M == Messages
  <1>1. queue \in Seq(M) /\ message \in M
    BY DEF FeedInv
  <1> HIDE DEF M
  <1>2. queue' \in Seq(M)
    BY <1>1
  <1>3. \A i \in DOMAIN queue : i \in DOMAIN queue' /\ queue'[i] = queue[i] /\ i \in Nat
    BY <1>1
  <1>4. \A i \in DOMAIN queue' : \/ i \in DOMAIN queue /\ queue'[i] = queue[i]
                                 \/ queue'[i] = message
    BY <1>1
  <1>5. \A i \in DOMAIN queue', trade \in Trade :
           queue'[i] = Increment(trade) => i + 0 \in DOMAIN queue /\ queue[i + 0] = Increment(trade)
    BY <1>3, <1>4
  <1>6. \A i \in DOMAIN queue, trade \in Trade :
           queue[i] = Increment(trade) => i - 0 \in DOMAIN queue' /\ queue'[i - 0] = Increment(trade)
    BY <1>3
  <1>7. 0 \in 0 .. 1
    OBVIOUS
  <1>8. QED
    BY <1>2, <1>5, <1>6, <1>7, TradesMove DEF M

LEMMA NoTradeTaken ==
    ASSUME FeedInv, TradesInv, queue # <<>>, Head(queue) \notin {Increment(t) : t \in Trade},
           queue' = Tail(queue),
           UNCHANGED <<api, done, trades, subscribed, early, since>>
    PROVE  TradesInv'
  <1>1. queue' \in Seq(Messages)
    BY QueueTaken
  <1>2. \A i \in DOMAIN queue', trade \in Trade :
           queue'[i] = Increment(trade) => i + 1 \in DOMAIN queue /\ queue[i + 1] = Increment(trade)
    BY QueueTaken
  <1>3. \A i \in DOMAIN queue, trade \in Trade :
           queue[i] = Increment(trade) => i - 1 \in DOMAIN queue' /\ queue'[i - 1] = Increment(trade)
    BY QueueTaken
  <1>4. 1 \in 0 .. 1
    OBVIOUS
  <1>5. QED
    BY <1>1, <1>2, <1>3, <1>4, TradesMove

LEMMA NoTradeMoves ==
    ASSUME FeedInv, TradesInv, UNCHANGED <<api, done, trades>>, queue' \in Seq(Messages),
           \A i \in DOMAIN queue' : queue'[i] \notin {Increment(t) : t \in Trade},
           \/ queue = <<>> \/ subscribed' = {},
           "trade" \in subscribed' \ early' =>
              since' = Len(done) \/ ("trade" \in subscribed \ early /\ since' = since)
    PROVE  TradesInv'
  <1>1. \A i \in DOMAIN queue', trade \in Trade :
           queue'[i] = Increment(trade) => i + 0 \in DOMAIN queue /\ queue[i + 0] = Increment(trade)
    OBVIOUS
  <1>2. "trade" \in subscribed' \ early' =>
          \A i \in DOMAIN queue, trade \in Trade :
            queue[i] = Increment(trade) => i - 0 \in DOMAIN queue' /\ queue'[i - 0] = Increment(trade)
    OBVIOUS
  <1>3. 0 \in 0 .. 1
    OBVIOUS
  <1>4. QED
    BY <1>1, <1>2, <1>3, TradesMove

\* Of the messages only the increments are.
LEMMA NoIncrement ==
    ASSUME FeedInv, NEW message,
           \/ message \in Answers \union BookMessages \union StatisticsMessages
           \/ \E items : message = TradesMessage("SNAPSHOT", items)
    PROVE  message \notin {Increment(t) : t \in Trade}
  <1>1. {Increment(t) : t \in Trade} \subseteq TradesMessages
    BY DEF TradesMessages
  <1>2. CASE message \in Answers \union BookMessages \union StatisticsMessages
    BY <1>1, <1>2, Api, Kinds
  <1>3. CASE \E items : message = TradesMessage("SNAPSHOT", items)
    BY <1>3, SnapshotIsNoIncrement
  <1>4. QED
    BY <1>2, <1>3

LEMMA SnapshotNoIncrement ==
    ASSUME FeedInv, NEW topic \in Topic
    PROVE  Snapshot(topic) \notin {Increment(t) : t \in Trade}
  <1>1. BookMessage("SNAPSHOT", levels) \in BookMessages
    BY LevelsQuoted DEF BookMessages, EventType, FeedInv, TypeOK
  <1>2. Market24hMessage(Len(done)) \in StatisticsMessages
    BY DEF StatisticsMessages, FeedInv, TypeOK
  <1>3. \/ Snapshot(topic) \in BookMessages \union StatisticsMessages
        \/ Snapshot(topic) = TradesMessage("SNAPSHOT", done)
    BY <1>1, <1>2 DEF Snapshot, Topic
  <1>4. QED
    BY <1>3, NoIncrement

LEMMA TradesExchange == ASSUME FeedInv, TradesInv, Exchange PROVE TradesInv'
  <1> USE DEF sessionVars, publishedVars, exchangeVars
  <1>1. ASSUME NEW side \in Side, NEW price \in Price, NEW quantity \in 0 .. MaxQuantity,
               Quote(side, price, quantity)
        PROVE  TradesInv'
    <2> DEFINE level == [side |-> side, price |-> price, quantity |-> quantity]
               message == BookMessage("INCREMENTAL", {level})
    <2>1. level \in Quoted
      BY DEF Quoted
    <2>2. Push("orderbook", message) /\ Room
          /\ UNCHANGED <<api, done, trades, subscribed, early, since>>
      BY <1>1 DEF Quote
    <2> HIDE DEF level
    <2>3. message \in BookMessages /\ message \in Messages
      BY <2>1 DEF BookMessages, EventType, Messages
    <2> HIDE DEF message
    <2>4. QED
      BY <2>2, <2>3, Pushed, NoIncrement, NoTradePushed
  <1>2. ASSUME NEW side \in {"BUY", "SELL"}, NEW price \in Price,
               NEW quantity \in 1 .. MaxQuantity, Execute(side, price, quantity)
        PROVE  TradesInv'
    BY <1>2, TradesExecute
  <1>3. CASE SendBook \/ SendStatistics
    <2>1. PICK topic \in Topic : Push(topic, Snapshot(topic)) /\ Room
      BY <1>3 DEF SendBook, SendStatistics, Snapshot, Topic
    <2>2. Snapshot(topic) \in Messages
      BY MessageTypes
    <2>3. UNCHANGED <<api, done, trades, subscribed, early, since>>
      BY <1>3 DEF SendBook, SendStatistics
    <2>4. QED
      BY <2>1, <2>2, <2>3, Pushed, SnapshotNoIncrement, NoTradePushed
  <1>4. CASE SendPong
    <2> DEFINE A == Answer(FALSE)
               M == Messages
    <2>1. queue' = <<A>> /\ queue = <<>> /\ A \in Answers /\ A \in M
          /\ UNCHANGED <<api, done, trades, subscribed, early, since>>
      BY <1>4 DEF SendPong, Answers, Messages
    <2> HIDE DEF A, M
    <2>2. queue' \in Seq(M) /\ \A i \in DOMAIN queue' : queue'[i] = A
      BY <2>1
    <2>3. A \notin {Increment(t) : t \in Trade}
      BY <2>1, NoIncrement
    <2>4. QED
      BY <2>1, <2>2, <2>3, NoTradeMoves DEF M
  <1>5. QED
    BY <1>1, <1>2, <1>3, <1>4 DEF Exchange

LEMMA TradesGateway ==
    ASSUME FeedInv, TradesInv, Orderbook \/ TradeSummary \/ StatisticsUpdate \/ Ack \/ Pong
    PROVE  TradesInv'
  <1>1. /\ queue # <<>> /\ queue' = Tail(queue)
        /\ UNCHANGED <<api, done, subscribed, early, since>>
    BY DEF Orderbook, TradeSummary, StatisticsUpdate, Ack, Pong, Handles, sessionVars, exchangeVars
  <1>2. CASE TradeSummary
    <2>1. CASE \E trade \in Trade :
                 /\ Head(queue) = Increment(trade)
                 /\ trades' = IF Known THEN Append(trades, trade) ELSE trades
      BY <1>2, <2>1, TradesPublish
    <2>2. CASE /\ \E items \in Seq(Trade) : Head(queue) = TradesMessage("SNAPSHOT", items)
               /\ trades' = trades
      BY <1>1, <2>2, NoIncrement, NoTradeTaken
    <2>3. QED
      BY <1>2, <2>1, <2>2, TradesTaken
  <1>3. ASSUME Orderbook \/ StatisticsUpdate \/ Ack \/ Pong PROVE TradesInv'
    <2>1. \E handler \in {"Orderbook", "Book", "Market24h2", "Market24h", "Ack", "Pong"} :
             Handlers(Head(queue)) = {handler}
      BY <1>3 DEF Orderbook, StatisticsUpdate, Ack, Pong, Handles
    <2>2. Head(queue) \notin TradesMessages
      BY <2>1, Api, TradesHandled DEF TradesHandler
    <2>3. Head(queue) \notin {Increment(t) : t \in Trade}
      BY <2>2 DEF TradesMessages
    <2>4. trades' = trades
      BY <1>3 DEF Orderbook, StatisticsUpdate, Ack, Pong
    <2>5. QED
      BY <1>1, <2>3, <2>4, NoTradeTaken
  <1>4. QED
    BY <1>2, <1>3

LEMMA TradesSubscribed ==
    ASSUME FeedInv, TradesInv, NEW topic \in Topic, Subscribed(topic)
    PROVE  TradesInv'
  <1> DEFINE A == Answer(TRUE)
             B == Snapshot(topic)
             M == Messages
  <1>1. queue' = queue \o <<A, B>> /\ queue = <<>> /\ A \in M /\ B \in M /\ A \in Answers
    BY MessageTypes DEF Subscribed, Answers
  <1>2. A \notin {Increment(t) : t \in Trade}
    BY <1>1, NoIncrement
  <1>3. B \notin {Increment(t) : t \in Trade}
    BY SnapshotNoIncrement
  <1> HIDE DEF A, B, M
  <1>4. queue' \in Seq(M) /\ \A i \in DOMAIN queue' : queue'[i] \in {A, B}
    BY <1>1
  <1>5. /\ subscribed' = subscribed \union {topic} /\ early' \in {early, early \union {topic}}
        /\ since' = IF topic = "trade" THEN Len(done) ELSE since
        /\ UNCHANGED <<api, done, trades>>
    BY DEF Subscribed, exchangeVars, publishedVars
  <1>6. "trade" \in subscribed' \ early' =>
           since' = Len(done) \/ ("trade" \in subscribed \ early /\ since' = since)
    BY <1>5
  <1>7. QED
    BY <1>1, <1>2, <1>3, <1>4, <1>5, <1>6, NoTradeMoves DEF M

LEMMA TradesStep == FeedInv /\ TradesInv /\ [Next]_vars => TradesInv'
  <1> SUFFICES ASSUME FeedInv, TradesInv, [Next]_vars PROVE TradesInv'
    OBVIOUS
  <1> USE DEF sessionVars, publishedVars, exchangeVars
  <1>1. CASE Exchange
    BY <1>1, TradesExchange
  <1>2. CASE Orderbook \/ TradeSummary \/ StatisticsUpdate \/ Ack \/ Pong
    BY <1>2, TradesGateway
  <1>3. ASSUME NEW topic \in Topic, Subscribed(topic) PROVE TradesInv'
    BY <1>3, TradesSubscribed
  <1>4. CASE Disconnected
    BY <1>4, NoTradeMoves DEF Disconnected
  <1>5. CASE Ready \/ ProductsAck \/ Subscribe \/ UNCHANGED vars
    <2>1. UNCHANGED <<api, done, trades, subscribed, early, since, queue>>
      BY <1>5 DEF Ready, ProductsAck, Subscribe, vars
    <2>2. \A t : Increment(t)' = Increment(t)
      BY <2>1, SameMessage DEF Increment
    <2>3. QED
      BY <2>1, <2>2 DEF TradesInv, Told, Coming, OnItsWay
  <1>6. QED
    BY <1>1, <1>2, <1>3, <1>4, <1>5 DEF Next

\* Whatever sessions come and go, trades are published once, in order, as the
\* exchange executed them, and none that was sent in the session is left out.
THEOREM TradesPublishedOnce == Spec => []TradesPublished
  <1>1. Init => TradesInv
    BY DEF Init, TradesInv
  <1>2. FeedInv /\ TradesInv => TradesPublished
    <2> SUFFICES ASSUME FeedInv, TradesInv PROVE TradesPublished
      OBVIOUS
    <2>1. queue = <<>> => \A number : ~Coming(number)
      BY DEF Coming
    <2>2. QED
      BY <2>1 DEF TradesInv, TradesPublished, Told
  <1>3. QED
    BY <1>1, <1>2, TradesStep, FeedInit, FeedStep, PTL DEF Spec

-----------------------------------------------------------------------------
(* The book.                                                                *)

\* How a message takes the book of the exchange from one state to the next.  A
\* snapshot without levels, which is not published, takes an empty book only.
Follows(message, from, to) ==
    \/ /\ message = BookMessage("SNAPSHOT", to)
       /\ to = {} => from = {}
    \/ \E level \in Quoted :
          /\ message = BookMessage("INCREMENTAL", {level})
          /\ to = Set(from, {level})
    \/ message \notin BookMessages /\ to = from

Histories == [1 .. Len(queue) + 1 -> SUBSET Level]

\* The states of the book between what is published and what the exchange has,
\* one before each message on its way and one after the last.
History(history) ==
    /\ history[1] = book
    /\ history[Len(queue) + 1] = levels
    /\ \A i \in DOMAIN queue : Follows(queue[i], history[i], history[i + 1])

\* The inductive invariant behind BookAgrees.
BookInv ==
    /\ "orderbook" \in subscribed \ early => \E history \in Histories : History(history)
    /\ "orderbook" \notin subscribed =>
         book = {} /\ \A i \in DOMAIN queue : queue[i] \notin BookMessages

LEMMA SameFollows ==
    ASSUME api' = api
    PROVE  \A message, from, to : Follows(message, from, to)' = Follows(message, from, to)
  <1>1. \A type, changed : BookMessage(type, changed)' = BookMessage(type, changed)
    BY SameMessage
  <1>2. BookMessages' = BookMessages
    BY <1>1 DEF BookMessages
  <1>3. \A message, from, to : Follows(message, from, to)' <=> Follows(message, from, to)
    BY <1>1, <1>2 DEF Follows
  <1>4. \A message, from, to : Follows(message, from, to)' \in BOOLEAN
                              /\ Follows(message, from, to) \in BOOLEAN
    BY DEF Follows
  <1>5. QED
    BY <1>3, <1>4

\* The levels of the exchange are a book as they are.
LEMMA SetOfLevels == ASSUME NEW to \in SUBSET Level PROVE Set({}, to) = to
  <1>1. \A level \in Level : level.quantity > 0
    <2> SUFFICES ASSUME NEW level \in Level PROVE level.quantity > 0
      OBVIOUS
    <2>1. level.quantity \in 1 .. MaxQuantity
      BY DEF Level
    <2>2. QED
      BY <2>1, BoundAssumption
  <1>2. QED
    BY <1>1 DEF Set, Without

\* A message is told apart by its type and its levels.
LEMMA BookTold ==
    ASSUME api \in {"USD_M", "COIN_M"}, NEW type, NEW changed \in SUBSET Quoted,
           NEW other, NEW levels_of_other \in SUBSET Quoted,
           BookMessage(type, changed) = BookMessage(other, levels_of_other)
    PROVE  type = other /\ changed = levels_of_other
  <1>1. BookMessage(type, changed).type = type /\ BookMessage(other, levels_of_other).type = other
    BY DEF BookMessage
  <1>2. changed = levels_of_other
    BY BookTranslated
  <1>3. QED
    BY <1>1, <1>2

\* The gateway follows the exchange, in either API.
LEMMA GatewayFollows ==
    ASSUME FeedInv, Orderbook, Known, NEW to \in SUBSET Level, Follows(Head(queue), book, to)
    PROVE  book' = to
  <1>1. PICK type \in EventType, changed \in SUBSET Quoted :
           /\ Head(queue) = BookMessage(type, changed)
           /\ book' = Applied(type, changed, book)
    BY OrderbookTaken
  <1>2. Head(queue) \in BookMessages
    BY <1>1 DEF BookMessages
  <1>3. CASE Head(queue) = BookMessage("SNAPSHOT", to) /\ (to = {} => book = {})
    <2>1. type = "SNAPSHOT" /\ changed = to
      BY <1>1, <1>3, Api, BookTold, LevelsQuoted
    <2>2. QED
      BY <1>1, <1>3, <2>1, SetOfLevels DEF Applied
  <1>4. ASSUME NEW level \in Quoted, Head(queue) = BookMessage("INCREMENTAL", {level}),
               to = Set(book, {level})
        PROVE  book' = to
    <2>1. type = "INCREMENTAL" /\ changed = {level}
      BY <1>1, <1>4, Api, BookTold
    <2>2. QED
      BY <1>1, <1>4, <2>1 DEF Applied
  <1>5. QED
    BY <1>2, <1>3, <1>4 DEF Follows

\* A message is added to those on their way, and the history gets a state more.
LEMMA HistoryGrows ==
    ASSUME FeedInv, levels' \in SUBSET Level, UNCHANGED <<api, book>>,
           NEW message \in Messages, queue' = Append(queue, message),
           NEW history \in Histories, History(history),
           Follows(message, levels, levels')
    PROVE  \E h \in Histories' : History(h)'
  <1> DEFINE M == Messages
             S == SUBSET Level
             n == Len(queue)
  <1>1. queue \in Seq(M) /\ message \in M /\ n \in Nat /\ levels \in S /\ levels' \in S
    BY DEF FeedInv, TypeOK
  <1> HIDE DEF M
  <1>2. /\ DOMAIN queue = 1 .. n /\ DOMAIN queue' = 1 .. n + 1 /\ Len(queue') = n + 1
        /\ queue'[n + 1] = message
        /\ \A i \in 1 .. n : queue'[i] = queue[i]
    BY <1>1
  <1> HIDE DEF n, S
  <1>0. PICK h : h = [i \in 1 .. n + 1 + 1 |-> IF i = n + 1 + 1 THEN levels' ELSE history[i]]
    OBVIOUS
  <1>3. history \in [1 .. n + 1 -> S] /\ history[1] = book /\ history[n + 1] = levels
    BY DEF Histories, History, n, S
  <1>4. h \in [1 .. n + 1 + 1 -> S]
    BY <1>0, <1>1, <1>3
  <1>5. h \in Histories'
    BY <1>2, <1>4 DEF Histories, S
  <1>6. h[1] = book /\ h[n + 1 + 1] = levels' /\ h[n + 1] = levels
    BY <1>0, <1>1, <1>3
  <1>7. \A i \in 1 .. n : h[i] = history[i] /\ h[i + 1] = history[i + 1]
    BY <1>0, <1>1
  <1>8. \A i \in 1 .. n + 1 : Follows(queue'[i], h[i], h[i + 1])
    <2> SUFFICES ASSUME NEW i \in 1 .. n + 1 PROVE Follows(queue'[i], h[i], h[i + 1])
      OBVIOUS
    <2>1. CASE i = n + 1
      <3>1. queue'[i] = message /\ h[i] = levels /\ h[i + 1] = levels'
        BY <1>2, <1>6, <2>1
      <3>2. QED
        BY <3>1
    <2>2. CASE i \in 1 .. n
      <3>1. Follows(queue[i], history[i], history[i + 1])
        BY <1>2, <2>2 DEF History
      <3>2. queue'[i] = queue[i] /\ h[i] = history[i] /\ h[i + 1] = history[i + 1]
        BY <1>2, <1>7, <2>2
      <3>3. QED
        BY <3>1, <3>2
    <2>3. i = n + 1 \/ i \in 1 .. n
      BY <1>1
    <2>4. QED
      BY <2>1, <2>2, <2>3
  <1>9. \A i \in 1 .. n + 1 : Follows(queue[i], h[i], h[i + 1])'
    BY <1>8, SameFollows
  <1>10. History(h)'
    BY <1>2, <1>6, <1>9 DEF History
  <1>11. QED
    BY <1>5, <1>10

\* The first message is taken, and the first state of the history left behind.
LEMMA HistoryShrinks ==
    ASSUME FeedInv, UNCHANGED <<api, levels>>, queue # <<>>, queue' = Tail(queue),
           NEW history \in Histories, History(history), book' = history[2]
    PROVE  \E h \in Histories' : History(h)'
  <1> DEFINE M == Messages
             S == SUBSET Level
             n == Len(queue)
  <1>1. queue \in Seq(M) /\ n \in Nat /\ n # 0
    BY DEF FeedInv
  <1> HIDE DEF M
  <1>2. /\ DOMAIN queue = 1 .. n /\ DOMAIN queue' = 1 .. n - 1 /\ Len(queue') = n - 1
        /\ \A i \in 1 .. n - 1 : queue'[i] = queue[i + 1]
    BY <1>1
  <1> HIDE DEF n, S
  <1>0. PICK h : h = [i \in 1 .. n - 1 + 1 |-> history[i + 1]]
    OBVIOUS
  <1>3. history \in [1 .. n + 1 -> S] /\ history[n + 1] = levels
    BY DEF Histories, History, n, S
  <1>4. h \in [1 .. n - 1 + 1 -> S]
    BY <1>0, <1>1, <1>3
  <1>5. h \in Histories'
    BY <1>2, <1>4 DEF Histories, S
  <1>6. h[1] = book' /\ h[n - 1 + 1] = levels'
    BY <1>0, <1>1, <1>3
  <1>7. \A i \in 1 .. n - 1 : h[i] = history[i + 1] /\ h[i + 1] = history[i + 1 + 1]
    BY <1>0, <1>1
  <1>8. \A i \in 1 .. n - 1 : Follows(queue[i + 1], history[i + 1], history[i + 1 + 1])
    BY <1>1, <1>2 DEF History
  <1>9. \A i \in 1 .. n - 1 : Follows(queue'[i], h[i], h[i + 1])
    BY <1>2, <1>7, <1>8
  <1>10. \A i \in 1 .. n - 1 : Follows(queue[i], h[i], h[i + 1])'
    BY <1>9, SameFollows
  <1>11. History(h)'
    BY <1>2, <1>6, <1>10 DEF History
  <1>12. QED
    BY <1>5, <1>11

\* What is not about the book adds a state equal to the last.
LEMMA NoBookPushed ==
    ASSUME FeedInv, BookInv, UNCHANGED <<api, book, levels, subscribed, early>>,
           NEW message \in Messages, message \notin BookMessages,
           queue' \in {queue, Append(queue, message)}
    PROVE  BookInv'
  <1> DEFINE M == Messages
  <1>1. BookMessages' = BookMessages
    BY SameMessage DEF BookMessages
  <1>2. ASSUME "orderbook" \in subscribed \ early PROVE \E h \in Histories' : History(h)'
    <2>1. PICK history \in Histories : History(history)
      BY <1>2 DEF BookInv
    <2>2. CASE queue' = queue
      BY <2>1, <2>2, SameFollows DEF Histories, History
    <2>3. CASE queue' = Append(queue, message)
      <3>1. Follows(message, levels, levels') /\ levels' \in SUBSET Level
        BY DEF Follows, FeedInv, TypeOK
      <3>2. QED
        BY <2>1, <2>3, <3>1, HistoryGrows
    <2>4. QED
      BY <2>2, <2>3
  <1>3. ASSUME "orderbook" \notin subscribed, NEW i \in DOMAIN queue'
        PROVE  queue'[i] \notin BookMessages
    <2>1. queue \in Seq(M)
      BY DEF FeedInv
    <2> HIDE DEF M
    <2>2. (i \in DOMAIN queue /\ queue'[i] = queue[i]) \/ queue'[i] = message
      BY <2>1
    <2>3. QED
      BY <1>3, <2>2 DEF BookInv
  <1>4. QED
    BY <1>1, <1>2, <1>3 DEF BookInv

LEMMA BookQuote ==
    ASSUME FeedInv, FeedInv', BookInv, NEW side \in Side, NEW price \in Price,
           NEW quantity \in 0 .. MaxQuantity, Quote(side, price, quantity)
    PROVE  BookInv'
  <1> DEFINE level == [side |-> side, price |-> price, quantity |-> quantity]
             message == BookMessage("INCREMENTAL", {level})
  <1>1. level \in Quoted
    BY DEF Quoted
  <1>2. /\ Push("orderbook", message) /\ Room /\ levels' = Set(levels, {level})
        /\ UNCHANGED <<api, book, subscribed, early>>
    BY DEF Quote, sessionVars, publishedVars
  <1> HIDE DEF level
  <1>3. message \in BookMessages /\ message \in Messages
    BY <1>1 DEF BookMessages, EventType, Messages
  <1>4. Follows(message, levels, levels')
    BY <1>1, <1>2 DEF Follows
  <1> HIDE DEF message
  <1>5. CASE "orderbook" \in subscribed
    <2>1. queue' = Append(queue, message)
      BY <1>2, <1>5 DEF Push
    <2>2. levels' \in SUBSET Level
      BY DEF FeedInv, TypeOK
    <2>3. ASSUME "orderbook" \in subscribed \ early PROVE \E h \in Histories' : History(h)'
      <3>1. PICK history \in Histories : History(history)
        BY <2>3 DEF BookInv
      <3>2. QED
        BY <1>2, <1>3, <1>4, <2>1, <2>2, <3>1, HistoryGrows
    <2>4. QED
      BY <1>2, <1>5, <2>3 DEF BookInv
  <1>6. CASE "orderbook" \notin subscribed
    <2>1. queue' = queue
      BY <1>2, <1>6 DEF Push
    <2>2. BookMessages' = BookMessages
      BY <1>2, SameMessage DEF BookMessages
    <2>3. QED
      BY <1>2, <1>6, <2>1, <2>2 DEF BookInv
  <1>7. QED
    BY <1>5, <1>6

LEMMA BookSend ==
    ASSUME FeedInv, BookInv, SendBook
    PROVE  BookInv'
  <1> DEFINE message == BookMessage("SNAPSHOT", levels)
  <1>1. /\ "orderbook" \in subscribed /\ queue' = Append(queue, message)
        /\ UNCHANGED <<api, book, levels, subscribed, early>>
    BY DEF SendBook, Push, sessionVars, publishedVars, exchangeVars
  <1>2. message \in Messages
    BY LevelsQuoted DEF Messages, BookMessages, EventType, FeedInv, TypeOK
  <1>3. Follows(message, levels, levels') /\ levels' \in SUBSET Level
    BY <1>1 DEF Follows, FeedInv, TypeOK
  <1> HIDE DEF message
  <1>4. ASSUME "orderbook" \in subscribed \ early PROVE \E h \in Histories' : History(h)'
    <2>1. PICK history \in Histories : History(history)
      BY <1>4 DEF BookInv
    <2>2. QED
      BY <1>1, <1>2, <1>3, <2>1, HistoryGrows
  <1>5. QED
    BY <1>1, <1>4 DEF BookInv

LEMMA BookExchange == ASSUME FeedInv, FeedInv', BookInv, Exchange PROVE BookInv'
  <1> USE DEF sessionVars, publishedVars, exchangeVars
  <1>1. ASSUME NEW side \in Side, NEW price \in Price, NEW quantity \in 0 .. MaxQuantity,
               Quote(side, price, quantity)
        PROVE  BookInv'
    BY <1>1, BookQuote
  <1>2. ASSUME NEW side \in {"BUY", "SELL"}, NEW price \in Price,
               NEW quantity \in 1 .. MaxQuantity, Execute(side, price, quantity)
        PROVE  BookInv'
    <2> DEFINE trade == [number |-> Len(done) + 1, side |-> side, price |-> price,
                         quantity |-> quantity]
               message == Increment(trade)
    <2>1. trade \in Trade
      <3>1. Len(done) + 1 \in 1 .. MaxTrades
        BY <1>2, BoundAssumption DEF Execute, FeedInv, TypeOK
      <3>2. QED
        BY <3>1 DEF Trade
    <2>2. Push("trade", message) /\ Room /\ UNCHANGED <<api, book, levels, subscribed, early>>
      BY <1>2 DEF Execute, Increment
    <2> HIDE DEF trade
    <2>3. message \in TradesMessages /\ message \in Messages
      BY <2>1 DEF TradesMessages, Messages
    <2> HIDE DEF message
    <2>4. message \notin BookMessages
      BY <2>3, Api, Kinds
    <2>5. QED
      BY <2>2, <2>3, <2>4, Pushed, NoBookPushed
  <1>3. CASE SendBook
    BY <1>3, BookSend
  <1>4. CASE SendStatistics
    <2> DEFINE message == Market24hMessage(Len(done))
    <2>1. Push("market24h", message) /\ Room /\ UNCHANGED <<api, book, levels, subscribed, early>>
      BY <1>4 DEF SendStatistics
    <2>2. message \in StatisticsMessages /\ message \in Messages
      BY DEF StatisticsMessages, Messages, FeedInv, TypeOK
    <2> HIDE DEF message
    <2>3. message \notin BookMessages
      BY <2>2, Api, Kinds
    <2>4. QED
      BY <2>1, <2>2, <2>3, Pushed, NoBookPushed
  <1>5. CASE SendPong
    <2> DEFINE message == Answer(FALSE)
    <2>1. queue = <<>> /\ queue' = <<message>> /\ UNCHANGED <<api, book, levels, subscribed, early>>
      BY <1>5 DEF SendPong
    <2>2. message \in Answers /\ message \in Messages
      BY DEF Answers, Messages
    <2> HIDE DEF message
    <2>3. message \notin BookMessages
      BY <2>2, Api, Kinds
    <2>4. queue' = Append(queue, message)
      BY <2>1
    <2>5. QED
      BY <2>1, <2>2, <2>3, <2>4, NoBookPushed
  <1>6. QED
    BY <1>1, <1>2, <1>3, <1>4, <1>5 DEF Exchange

LEMMA BookGateway ==
    ASSUME FeedInv, BookInv, Orderbook \/ TradeSummary \/ StatisticsUpdate \/ Ack \/ Pong
    PROVE  BookInv'
  <1>1. /\ queue # <<>> /\ queue' = Tail(queue)
        /\ UNCHANGED <<api, levels, subscribed, early>>
    BY DEF Orderbook, TradeSummary, StatisticsUpdate, Ack, Pong, Handles, sessionVars, exchangeVars
  <1>2. ~Orderbook => book' = book /\ Head(queue) \notin BookMessages
    <2> SUFFICES ASSUME TradeSummary \/ StatisticsUpdate \/ Ack \/ Pong
                 PROVE  book' = book /\ Head(queue) \notin BookMessages
      OBVIOUS
    <2>1. \E handler \in {"Trades2", "Trades", "Market24h2", "Market24h", "Ack", "Pong"} :
             Handlers(Head(queue)) = {handler}
      BY DEF TradeSummary, StatisticsUpdate, Ack, Pong, Handles
    <2>2. QED
      BY <2>1, Api, BookHandled DEF BookHandler, TradeSummary, StatisticsUpdate, Ack, Pong
  <1>3. Orderbook => Head(queue) \in BookMessages
    BY OrderbookTaken DEF BookMessages
  <1>4. ASSUME "orderbook" \in subscribed \ early PROVE \E h \in Histories' : History(h)'
    <2>1. PICK history \in Histories : History(history)
      BY <1>4 DEF BookInv
    <2>2. Known
      BY <1>4 DEF FeedInv
    <2>3. Follows(Head(queue), book, history[2])
      <3>1. Head(queue) = queue[1] /\ 1 \in DOMAIN queue
        BY <1>1, QueueTaken
      <3>2. QED
        BY <2>1, <3>1 DEF History
    <2>4. history[2] \in SUBSET Level
      <3>1. Len(queue) \in Nat /\ Len(queue) # 0
        <4> DEFINE M == Messages
        <4>1. queue \in Seq(M)
          BY DEF FeedInv
        <4> HIDE DEF M
        <4>2. QED
          BY <1>1, <4>1
      <3>2. 2 \in 1 .. Len(queue) + 1
        BY <3>1
      <3>3. QED
        BY <2>1, <3>2 DEF Histories
    <2>5. book' = history[2]
      <3>1. CASE Orderbook
        BY <2>2, <2>3, <2>4, <3>1, GatewayFollows
      <3>2. CASE ~Orderbook
        <4>1. Head(queue) \notin BookMessages /\ book' = book
          BY <1>2, <3>2
        <4>2. BookMessage("SNAPSHOT", history[2]) \in BookMessages
          BY <2>4, LevelsQuoted DEF BookMessages, EventType
        <4>3. \A level \in Quoted : BookMessage("INCREMENTAL", {level}) \in BookMessages
          BY DEF BookMessages, EventType
        <4>4. QED
          BY <2>3, <4>1, <4>2, <4>3 DEF Follows
      <3>3. QED
        BY <3>1, <3>2
    <2>6. QED
      BY <1>1, <2>1, <2>5, HistoryShrinks
  <1>5. ASSUME "orderbook" \notin subscribed
        PROVE  book' = {} /\ \A i \in DOMAIN queue' : queue'[i] \notin BookMessages
    <2>1. \A i \in DOMAIN queue : queue[i] \notin BookMessages
      BY <1>5 DEF BookInv
    <2>2. ~Orderbook
      BY <1>1, <1>3, <2>1, QueueTaken
    <2>3. \A i \in DOMAIN queue' : i + 1 \in DOMAIN queue /\ queue'[i] = queue[i + 1]
      BY <1>1, QueueTaken
    <2>4. QED
      BY <1>2, <1>5, <2>1, <2>2, <2>3 DEF BookInv
  <1>6. BookMessages' = BookMessages
    BY <1>1, SameMessage DEF BookMessages
  <1>7. QED
    BY <1>1, <1>4, <1>5, <1>6 DEF BookInv

\* The answer and the snapshot of a topic are on their way, and nothing else.
LEMMA BookSubscribed ==
    ASSUME FeedInv, BookInv, NEW topic \in Topic, Subscribed(topic)
    PROVE  BookInv'
  <1> DEFINE A == Answer(TRUE)
             B == Snapshot(topic)
  <1>1. /\ queue' = queue \o <<A, B>> /\ queue = <<>> /\ topic \notin subscribed
        /\ subscribed' = subscribed \union {topic} /\ early' \in {early, early \union {topic}}
        /\ UNCHANGED <<api, book, levels>>
    BY DEF Subscribed, exchangeVars, publishedVars
  <1>2. A \notin BookMessages
    BY Api, Kinds DEF Answers
  <1>3. topic # "orderbook" => B \notin BookMessages
    <2>1. Market24hMessage(Len(done)) \in StatisticsMessages
      BY DEF StatisticsMessages, FeedInv, TypeOK
    <2>2. TradesMessage("SNAPSHOT", done) \in TradesMessages
      BY DEF TradesMessages, FeedInv, TypeOK
    <2>3. topic # "orderbook" => B \in StatisticsMessages \union TradesMessages
      BY <2>1, <2>2 DEF Snapshot, Topic
    <2>4. QED
      BY <2>3, Api, Kinds
  <1>4. topic = "orderbook" => B = BookMessage("SNAPSHOT", levels)
    BY DEF Snapshot
  <1> HIDE DEF A, B
  <1>5. /\ queue' = <<A, B>> /\ DOMAIN queue' = 1 .. 2 /\ Len(queue') + 1 = 3
        /\ queue'[1] = A /\ queue'[2] = B
    BY <1>1
  <1>6. BookMessages' = BookMessages
    BY <1>1, SameMessage DEF BookMessages
  <1>7. book \in SUBSET Level /\ levels \in SUBSET Level /\ early \in SUBSET subscribed
    BY DEF FeedInv, TypeOK
  <1>8. ASSUME "orderbook" \in subscribed' \ early' PROVE \E h \in Histories' : History(h)'
    <2>1. PICK h : h = [i \in 1 .. 3 |-> IF i = 3 THEN levels ELSE book]
      OBVIOUS
    <2>2. h \in [1 .. 3 -> SUBSET Level]
      BY <1>7, <2>1
    <2>3. h \in Histories'
      BY <1>5, <2>2 DEF Histories
    <2>4. h[1] = book /\ h[2] = book /\ h[3] = levels
      BY <2>1
    <2>5. Follows(A, book, book)
      BY <1>2 DEF Follows
    <2>6. Follows(B, book, levels)
      <3>1. CASE topic = "orderbook"
        <4>1. book = {}
          BY <1>1, <3>1 DEF BookInv
        <4>2. QED
          BY <1>4, <3>1, <4>1 DEF Follows
      <3>2. CASE topic # "orderbook"
        <4>1. PICK history \in Histories : History(history)
          BY <1>1, <1>8, <3>2 DEF BookInv
        <4>2. Len(queue) + 1 = 1
          BY <1>1
        <4>3. book = levels
          BY <4>1, <4>2 DEF History
        <4>4. QED
          BY <1>3, <3>2, <4>3 DEF Follows
      <3>3. QED
        BY <3>1, <3>2
    <2>7. Follows(queue'[1], h[1], h[1 + 1]) /\ Follows(queue'[2], h[2], h[2 + 1])
      BY <1>5, <2>4, <2>5, <2>6
    <2>8. \A i \in 1 .. 2 : Follows(queue'[i], h[i], h[i + 1])
      <3> SUFFICES ASSUME NEW i \in 1 .. 2 PROVE Follows(queue'[i], h[i], h[i + 1])
        OBVIOUS
      <3>1. i = 1 \/ i = 2
        OBVIOUS
      <3>2. QED
        BY <2>7, <3>1
    <2>9. \A i \in 1 .. 2 : Follows(queue[i], h[i], h[i + 1])'
      BY <1>1, <2>8, SameFollows
    <2>10. History(h)'
      BY <1>1, <1>5, <2>4, <2>9 DEF History
    <2>11. QED
      BY <2>3, <2>10
  <1>9. ASSUME "orderbook" \notin subscribed'
        PROVE  book' = {} /\ \A i \in DOMAIN queue' : queue'[i] \notin BookMessages
    <2>1. topic # "orderbook" /\ "orderbook" \notin subscribed
      BY <1>1, <1>9
    <2>2. queue'[1] \notin BookMessages /\ queue'[2] \notin BookMessages
      BY <1>2, <1>3, <1>5, <2>1
    <2>3. \A i \in 1 .. 2 : i = 1 \/ i = 2
      OBVIOUS
    <2>4. QED
      BY <1>1, <1>5, <2>1, <2>2, <2>3 DEF BookInv
  <1>10. QED
    BY <1>6, <1>8, <1>9 DEF BookInv

LEMMA BookStep == FeedInv /\ FeedInv' /\ BookInv /\ [Next]_vars => BookInv'
  <1> SUFFICES ASSUME FeedInv, FeedInv', BookInv, [Next]_vars PROVE BookInv'
    OBVIOUS
  <1> USE DEF sessionVars, publishedVars, exchangeVars
  <1>1. CASE Exchange
    BY <1>1, BookExchange
  <1>2. CASE Orderbook \/ TradeSummary \/ StatisticsUpdate \/ Ack \/ Pong
    BY <1>2, BookGateway
  <1>3. ASSUME NEW topic \in Topic, Subscribed(topic) PROVE BookInv'
    BY <1>3, BookSubscribed
  <1>4. CASE Disconnected
    BY <1>4 DEF Disconnected, BookInv
  <1>5. CASE Ready \/ ProductsAck \/ Subscribe \/ UNCHANGED vars
    <2>1. UNCHANGED <<api, book, levels, subscribed, early, queue>>
      BY <1>5 DEF Ready, ProductsAck, Subscribe, vars
    <2>2. BookMessages' = BookMessages
      BY <2>1, SameMessage DEF BookMessages
    <2>3. \A h : History(h) => History(h)'
      BY <2>1, SameFollows DEF History
    <2>4. Histories' = Histories
      BY <2>1 DEF Histories
    <2>5. QED
      BY <2>1, <2>2, <2>3, <2>4 DEF BookInv
  <1>6. QED
    BY <1>1, <1>2, <1>3, <1>4, <1>5 DEF Next

\* Whatever is quoted, sent, lost and subscribed again, and whatever the prices
\* are, the published book is that of the exchange once every message has come.
THEOREM BookIsTheExchanges == Spec => []BookAgrees
  <1>1. Init => BookInv
    BY DEF Init, BookInv
  <1>2. FeedInv /\ BookInv => BookAgrees
    <2> SUFFICES ASSUME BookInv, queue = <<>>, "orderbook" \in subscribed \ early
                 PROVE  book = levels
      BY DEF BookAgrees
    <2>1. PICK history \in Histories : History(history)
      BY DEF BookInv
    <2>2. Len(queue) + 1 = 1
      OBVIOUS
    <2>3. QED
      BY <2>1, <2>2 DEF History
  <1>3. QED
    BY <1>1, <1>2, BookStep, FeedInit, FeedStep, PTL DEF Spec

=============================================================================
