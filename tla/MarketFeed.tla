----------------------------- MODULE MarketFeed -----------------------------
(***************************************************************************)
(* What is published of one symbol: its order book, its trades and its     *)
(* statistics, from the messages of the exchange that market_data_usd_m    *)
(* and market_data_coin_m handle.  COIN-M scales them with the tables that *)
(* the products download fills (rest_coin_m.cpp), and has nothing to       *)
(* publish before.  The symbol comes with the products, or earlier from a  *)
(* client.  How subscriptions are queued and sent is the subject of        *)
(* SymbolDistribution; here the exchange receives them one by one.         *)
(***************************************************************************)
EXTENDS Products, Parser, Sequences

CONSTANTS
    Price,        \* the prices of the levels and of the trades
    MaxQuantity,  \* bound: the quantity of a level and of a trade
    MaxTrades,    \* bound: the number of trades
    MaxQueue      \* bound: the messages on their way

ASSUME PriceAssumption == Price \subseteq Nat \ {0}

\* A subscription puts two messages on their way at once.
ASSUME BoundAssumption == MaxQuantity \in Nat /\ MaxTrades \in Nat /\ MaxQueue \in Nat \ {0, 1}

VARIABLES
    api,         \* shared_.api.type
    item,        \* the product as the exchange describes it
    security,    \* whether the product is in the security table (COIN-M)
    reference,   \* the reference data that were published
    listed,      \* who put the symbol on the list of symbols
    up,          \* the web-socket
    queue,       \* the messages on their way to the gateway
    subscribed,  \* the topics the exchange sends in this session
    early,       \* auxiliary: those subscribed before COIN-M could scale them
    since,       \* auxiliary: the trades before the subscription
    levels,      \* the order book at the exchange
    done,        \* the trades at the exchange
    book,        \* the published book, as the framework keeps it
    trades,      \* the published trades
    statistics   \* the published statistics

exchangeVars == <<item, levels, done>>
publishedVars == <<reference, book, trades, statistics>>
sessionVars == <<up, subscribed, early, since>>
productVars == <<security, listed>>
vars == <<api, productVars, sessionVars, queue, exchangeVars, publishedVars>>

Topic == {"orderbook", "trade", "market24h"}

Side == {"bids", "asks"}
Level == [side : Side, price : Price, quantity : 1 .. MaxQuantity]
Trade ==
    [number : 1 .. MaxTrades, side : {"BUY", "SELL"}, price : Price, quantity : 1 .. MaxQuantity]

Item ==
    [type : {"PERPETUAL", "PERPETUAL_V2"}, status : {"LISTED", "DELISTED"}, steps : {1}]

None == [none |-> TRUE]

Init ==
    /\ api \in {"USD_M", "COIN_M"}
    /\ item \in Item
    /\ security = FALSE
    /\ reference = None
    /\ listed = "nobody"
    /\ up = FALSE
    /\ queue = <<>>
    /\ subscribed = {}
    /\ early = {}
    /\ since = 0
    /\ levels = {}
    /\ done = <<>>
    /\ book = {}
    /\ trades = <<>>
    /\ statistics = None

-----------------------------------------------------------------------------
(* Messages of the exchange.                                               *)

Wire(level) ==
    IF api = "USD_M" THEN level
    ELSE [level EXCEPT !.price = Scaled(@), !.quantity = @ * QuantityFactor]

WireTrade(trade) ==
    IF api = "USD_M" THEN trade
    ELSE [trade EXCEPT !.price = Scaled(@), !.quantity = @ * QuantityFactor]

Answer(object) == [fields |-> {"id", "error", "result"}, object |-> object]

Data(usd_m, coin_m) ==
    {"timestamp", IF api = "USD_M" THEN usd_m ELSE coin_m}

BookMessage(type, changed) ==
    [fields |-> Data("orderbook_p", "book") \union {"type", "symbol", "sequence", "depth"},
     type |-> type, levels |-> {Wire(level) : level \in changed}]

TradesMessage(type, items) ==
    [fields |-> Data("trades_p", "trades") \union {"type", "symbol", "sequence"},
     type |-> type, trades |-> [i \in DOMAIN items |-> WireTrade(items[i])]]

PriceType ==
    {"OPEN_PRICE", "HIGHEST_TRADED_PRICE", "LOWEST_TRADED_PRICE", "INDEX_VALUE",
     "SETTLEMENT_PRICE"}

\* The statistics of the day, all different and changed by every trade.
Day(count) ==
    [OPEN_PRICE |-> 10 + count, HIGHEST_TRADED_PRICE |-> 20 + count,
     LOWEST_TRADED_PRICE |-> 5 + count, INDEX_VALUE |-> 11 + count,
     SETTLEMENT_PRICE |-> 12 + count, TRADE_VOLUME |-> count,
     FUNDING_RATE |-> 2, OPEN_INTEREST |-> 3]

\* COIN-M scales all of them.  By what, the source leaves open for the volume and
\* the rates; the factor of the quantities stands for it.
WireDay(count) ==
    IF api = "USD_M" THEN Day(count)
    ELSE [type \in DOMAIN Day(count) |->
             IF type \in PriceType THEN Scaled(Day(count)[type])
             ELSE QuantityFactor * Day(count)[type]]

Market24hMessage(count) ==
    [fields |-> Data("market24h_p", "market24h"), day |-> WireDay(count)]

-----------------------------------------------------------------------------
(* The exchange (external).                                                *)

\* A message of a topic that is subscribed.
Push(topic, message) ==
    queue' = IF topic \in subscribed THEN Append(queue, message) ELSE queue

Room == Len(queue) < MaxQueue

\* A level is set, or removed with the quantity 0.
Without(from, changed) ==
    {level \in from : \A other \in changed :
        <<other.side, other.price>> # <<level.side, level.price>>}

Set(from, changed) ==
    Without(from, changed) \union {level \in changed : level.quantity > 0}

Quote(side, price, quantity) ==
    LET level == [side |-> side, price |-> price, quantity |-> quantity]
    IN  /\ Room
        /\ levels' = Set(levels, {level})
        /\ levels' # levels
        /\ Push("orderbook", BookMessage("INCREMENTAL", {level}))
        /\ UNCHANGED <<api, productVars, sessionVars, item, done, publishedVars>>

Execute(side, price, quantity) ==
    LET trade == [number |-> Len(done) + 1, side |-> side, price |-> price,
                  quantity |-> quantity]
    IN  /\ Room
        /\ Len(done) < MaxTrades
        /\ done' = Append(done, trade)
        /\ Push("trade", TradesMessage("INCREMENTAL", <<trade>>))
        /\ UNCHANGED <<api, productVars, sessionVars, item, levels, publishedVars>>

\* The statistics of the moment.
SendStatistics ==
    /\ Room
    /\ "market24h" \in subscribed
    /\ Push("market24h", Market24hMessage(Len(done)))
    /\ UNCHANGED <<api, productVars, sessionVars, exchangeVars, publishedVars>>

\* A book is sent whole from time to time.
SendBook ==
    /\ Room
    /\ "orderbook" \in subscribed
    /\ Push("orderbook", BookMessage("SNAPSHOT", levels))
    /\ UNCHANGED <<api, productVars, sessionVars, exchangeVars, publishedVars>>

\* A subscription is acknowledged, and its topic is sent as it is.
Snapshot(topic) ==
    CASE topic = "orderbook" -> BookMessage("SNAPSHOT", levels)
      [] topic = "trade" -> TradesMessage("SNAPSHOT", done)
      [] topic = "market24h" -> Market24hMessage(Len(done))

Known == api = "COIN_M" => security

Subscribed(topic) ==
    /\ up
    /\ listed # "nobody"
    /\ topic \notin subscribed
    /\ queue = <<>>
    /\ subscribed' = subscribed \union {topic}
    /\ early' = IF Known THEN early ELSE early \union {topic}
    /\ since' = IF topic = "trade" THEN Len(done) ELSE since
    /\ queue' = queue \o <<Answer(TRUE), Snapshot(topic)>>
    /\ UNCHANGED <<api, productVars, up, exchangeVars, publishedVars>>

\* The answer to a ping of the timer.
SendPong ==
    /\ up
    /\ queue = <<>>
    /\ queue' = <<Answer(FALSE)>>
    /\ UNCHANGED <<api, productVars, sessionVars, exchangeVars, publishedVars>>

Ready ==
    /\ ~up
    /\ up' = TRUE
    /\ UNCHANGED <<api, productVars, subscribed, early, since, queue, exchangeVars,
                   publishedVars>>

\* What was not delivered is lost.  The framework drops the book of a stream
\* that is disconnected.
Disconnected ==
    /\ up
    /\ up' = FALSE
    /\ subscribed' = {}
    /\ early' = {}
    /\ since' = 0
    /\ queue' = <<>>
    /\ book' = {}
    /\ UNCHANGED <<api, productVars, exchangeVars, reference, trades, statistics>>

-----------------------------------------------------------------------------
(* Where the symbol comes from.                                            *)

Discard ==
    IF api = "USD_M" THEN DiscardUsdM(item, FALSE) ELSE DiscardCoinM(item, FALSE)

\* A download of the products: COIN-M fills the table, discarded or not, before
\* the symbol is announced.
ProductsAck ==
    /\ security' = TRUE
    /\ reference' = IF api = "USD_M" THEN ReferenceDataUsdM(item, Discard)
                                     ELSE ReferenceDataCoinM(item, Discard)
    /\ listed' = IF listed = "nobody" /\ ~Discard THEN "products" ELSE listed
    /\ UNCHANGED <<api, sessionVars, queue, exchangeVars, book, trades, statistics>>

Subscribe ==
    /\ listed = "nobody"
    /\ listed' = "client"
    /\ UNCHANGED <<api, security, sessionVars, queue, exchangeVars, publishedVars>>

-----------------------------------------------------------------------------
(* The gateway: one message at a time.                                     *)

Handlers(message) == Dispatch(IF api = "USD_M" THEN UsdM ELSE CoinM, message)

\* The handler of the first message, in its USD-M and its COIN-M form.
Handles(usd_m, coin_m) ==
    /\ queue # <<>>
    /\ Handlers(Head(queue)) = {IF api = "USD_M" THEN usd_m ELSE coin_m}
    /\ queue' = Tail(queue)
    /\ UNCHANGED <<api, productVars, sessionVars, exchangeVars, reference>>

\* find_security().
\* Mutant: the table is not looked at.
FoundAlways == TRUE

Found == security

\* Mutant: the quantity is scaled like the price.
LevelsCoinMPrice(message) ==
    {[level EXCEPT !.price = Unscaled(@), !.quantity = Unscaled(@)] : level \in message.levels}

LevelsUsdM(message) == message.levels

LevelsCoinM(message) ==
    {[level EXCEPT !.price = Unscaled(@), !.quantity = @ \div QuantityFactor] :
        level \in message.levels}

\* A message without levels is not published.  The framework replaces the book
\* or changes it, level by level.
MarketByPriceUpdate(message, changed) ==
    book' = IF changed = {} THEN book
            ELSE Set(IF MapMessageType(message.type) = "SNAPSHOT" THEN {} ELSE book, changed)

Orderbook ==
    /\ Handles("Orderbook", "Book")
    /\ LET message == Head(queue)
       IN  CASE api = "USD_M" -> MarketByPriceUpdate(message, LevelsUsdM(message))
             [] api = "COIN_M" /\ Found -> MarketByPriceUpdate(message, LevelsCoinM(message))
             [] OTHER -> UNCHANGED book
    /\ UNCHANGED <<trades, statistics>>

\* Mutant: a snapshot of the last trades is published, too.
TradesOfEither(message) == message.trades

\* A snapshot of the last trades is dropped.
TradesOf(message) ==
    IF message.type = "INCREMENTAL" THEN message.trades ELSE <<>>

TradesUsdM(message) ==
    [i \in DOMAIN TradesOf(message) |->
        [message.trades[i] EXCEPT !.side = MapJsonSide(@)]]

TradesCoinM(message) ==
    [i \in DOMAIN TradesOf(message) |->
        [message.trades[i] EXCEPT !.side = MapJsonSide(@), !.price = Unscaled(@),
                                  !.quantity = @ \div QuantityFactor]]

\* log::fatal: COIN-M has no trades in real prices.
Unexpected(message) ==
    api = "COIN_M" /\ message.type = "INCREMENTAL" /\ "trades_p" \in message.fields

TradeSummary ==
    /\ Handles("Trades2", "Trades")
    /\ ~Unexpected(Head(queue))
    /\ LET message == Head(queue)
       IN  trades' = CASE api = "USD_M" -> trades \o TradesUsdM(message)
                       [] api = "COIN_M" /\ Found -> trades \o TradesCoinM(message)
                       [] OTHER -> trades
    /\ UNCHANGED <<book, statistics>>

StatisticsUsdM(day) == day

\* Mutant: the price of the last settlement is not scaled.
StatisticsCoinMSettlement(day) ==
    [type \in DOMAIN day |->
        IF type \in PriceType \ {"SETTLEMENT_PRICE"} THEN Unscaled(day[type]) ELSE day[type]]

\* Prices are unscaled; the volume and the rates are published as they come
\* ("convert ???").
StatisticsCoinM(day) ==
    [type \in DOMAIN day |->
        IF type \in PriceType THEN Unscaled(day[type]) ELSE day[type]]

StatisticsUpdate ==
    /\ Handles("Market24h2", "Market24h")
    /\ LET day == Head(queue).day
       IN  statistics' = CASE api = "USD_M" -> StatisticsUsdM(day)
                           [] api = "COIN_M" /\ Found -> StatisticsCoinM(day)
                           [] OTHER -> statistics
    /\ UNCHANGED <<book, trades>>

\* A subscription that is refused is logged, a pong is not looked at.
Ack ==
    /\ Handles("Ack", "Ack")
    /\ UNCHANGED <<book, trades, statistics>>

Pong ==
    /\ Handles("Pong", "Pong")
    /\ UNCHANGED <<book, trades, statistics>>

-----------------------------------------------------------------------------
Exchange ==
    \/ \E side \in Side, price \in Price, quantity \in 0 .. MaxQuantity :
          Quote(side, price, quantity)
    \/ \E side \in {"BUY", "SELL"}, price \in Price, quantity \in 1 .. MaxQuantity :
          Execute(side, price, quantity)
    \/ SendBook
    \/ SendStatistics
    \/ SendPong

Next ==
    \/ Exchange
    \/ Ready \/ Disconnected
    \/ \E topic \in Topic : Subscribed(topic)
    \/ ProductsAck \/ Subscribe
    \/ Orderbook \/ TradeSummary \/ StatisticsUpdate \/ Ack \/ Pong

Spec == Init /\ [][Next]_vars
-----------------------------------------------------------------------------
TypeOK ==
    /\ api \in {"USD_M", "COIN_M"}
    /\ item \in Item
    /\ security \in BOOLEAN
    /\ listed \in {"nobody", "client", "products"}
    /\ up \in BOOLEAN
    /\ subscribed \in SUBSET Topic
    /\ early \in SUBSET subscribed
    /\ Len(queue) \in 0 .. MaxQueue
    /\ levels \in SUBSET Level
    /\ book \in SUBSET Level
    /\ done \in Seq(Trade)
    /\ trades \in Seq(Trade)

\* When nothing is on its way, the published book is the book of the exchange,
\* after any number of snapshots, changes and sessions, although messages
\* without levels are not published, and with COIN-M in unscaled prices and
\* quantities (market_data_usd_m.cpp:236-285, market_data_coin_m.cpp:236-295).
\* A topic that was subscribed too early is left out: what came before the
\* products is gone.
BookAgrees ==
    queue = <<>> /\ "orderbook" \in subscribed \ early => book = levels

\* No trade is published twice, out of order or with another price or quantity,
\* although the exchange sends the last trades again in every session; and all those since
\* the topic was subscribed have been published when nothing is on its way
\* (market_data_usd_m.cpp:290, market_data_coin_m.cpp:301).
TradesPublished ==
    /\ \A i \in DOMAIN trades : trades[i] = done[trades[i].number]
    /\ \A i, j \in DOMAIN trades : i < j => trades[i].number < trades[j].number
    /\ queue = <<>> /\ "trade" \in subscribed \ early =>
         \A number \in since + 1 .. Len(done) :
            \E i \in DOMAIN trades : trades[i].number = number

\* The published prices of the day are, all together, those the exchange had at
\* one moment, in the unit of the prices of book and trades.  Nothing is said of
\* the volume and the rates, which are published in whatever unit they come
\* (market_data_usd_m.cpp:333-356, market_data_coin_m.cpp:353-382).
DayAgrees ==
    statistics # None =>
        \E count \in 0 .. Len(done) :
            \A type \in PriceType : statistics[type] = Day(count)[type]

\* Nothing is published of a symbol before its reference data, unless a client
\* of USD-M has asked for the symbol first: COIN-M cannot publish, and symbols
\* of the download are subscribed after it (rest_usd_m.cpp:321-333,
\* rest_coin_m.cpp:282-333, controller.cpp:200-214).
ReferenceFirst ==
    book # {} \/ trades # <<>> \/ statistics # None =>
        reference # None \/ (api = "USD_M" /\ listed = "client")

\* The inductive invariant behind ReferenceFirst: the tables and the reference
\* data come together, and of a symbol that nobody has put on the list there is
\* nothing but the answers to pings.
IInv ==
    /\ api \in {"USD_M", "COIN_M"}
    /\ listed \in {"nobody", "client", "products"}
    /\ security => reference # None
    /\ listed = "products" => security
    /\ listed = "nobody" =>
         /\ subscribed = {}
         /\ queue \in Seq({Answer(FALSE)})
         /\ book = {} /\ trades = <<>> /\ statistics = None
    /\ ReferenceFirst

\* Every message of the topics, and every answer, is given to exactly one
\* handler, one that does not end the process (parser.cpp:45-167,
\* parser_2.cpp:45-167, market_data_usd_m.cpp:404-415).
Understood ==
    \A i \in DOMAIN queue :
        \E handler \in {"Orderbook", "Book", "Trades2", "Trades", "Market24h2", "Market24h",
                        "Ack", "Pong"} :
            /\ Handlers(queue[i]) = {handler}
            /\ handler \in {"Trades2", "Trades"} => ~Unexpected(queue[i])
=============================================================================
