-------------------------- MODULE OrderTermsProofs --------------------------
(***************************************************************************)
(* Proofs about module OrderTerms, for any prices and any price factor.    *)
(***************************************************************************)
EXTENDS OrderTerms, TLAPS

-----------------------------------------------------------------------------
(* The maps to the exchange and back.                                       *)

LEMMA SideKept ==
    ASSUME NEW side \in {"BUY", "SELL"}
    PROVE  MapJsonSide(MapSide(side)) = side
  BY DEF MapJsonSide, MapSide

LEMMA OrderTypeKept ==
    ASSUME NEW type \in {"MARKET", "LIMIT"}
    PROVE  MapJsonOrderType(MapOrderType(type)) = type
  BY DEF MapJsonOrderType, MapOrderType

\* An order that must not take comes back as one that stays: the exchange has
\* a time in force for it, the framework a flag.
LEMMA TimeInForceKept ==
    ASSUME NEW request \in CreateOrder
    PROVE  MapJsonTimeInForce(TimeInForceOf(request))
             = IF request.post_only THEN "GTC" ELSE request.time_in_force
  <1>1. request.time_in_force \in {"GTC", "IOC", "FOK"} /\ request.post_only \in BOOLEAN
    BY DEF CreateOrder
  <1>2. MapJsonTimeInForce("POST_ONLY") = "GTC"
    BY DEF MapJsonTimeInForce, Internal
  <1>3. \A time_in_force \in {"GTC", "IOC", "FOK"} :
            MapJsonTimeInForce(MapTimeInForce(time_in_force)) = time_in_force
    BY DEF MapJsonTimeInForce, MapTimeInForce, Internal
  <1>4. QED
    BY <1>1, <1>2, <1>3 DEF TimeInForceOf

\* The side of the position and the side of the order give the effect back.
LEMMA PositionEffectKept ==
    ASSUME NEW side \in {"BUY", "SELL"},
           NEW effect \in {"UNDEFINED", "OPEN", "CLOSE"}
    PROVE  MapPosSideAndSide(MapPositionEffectAndSide(effect, side), MapSide(side)) = effect
  <1>1. MapSide(side) = side
    BY DEF MapSide
  <1>2. CASE effect = "UNDEFINED"
    BY <1>1, <1>2 DEF MapPosSideAndSide, MapPositionEffectAndSide
  <1>3. CASE effect = "OPEN"
    BY <1>1, <1>3 DEF MapPosSideAndSide, MapPositionEffectAndSide
  <1>4. CASE effect = "CLOSE"
    BY <1>1, <1>4 DEF MapPosSideAndSide, MapPositionEffectAndSide
  <1>5. QED
    BY <1>2, <1>3, <1>4

-----------------------------------------------------------------------------
(* Prices.                                                                  *)

LEMMA ProductQuotient ==
    ASSUME NEW x \in Nat, NEW n \in Nat \ {0}
    PROVE  x * n \in Nat /\ (x * n) \div n = x
  <1>1. x * n \in Nat
    OBVIOUS
  <1>2. QED
    OBVIOUS

\* A price that was scaled, sent, reported and unscaled is the same price.
LEMMA PriceKept ==
    ASSUME NEW price \in Price
    PROVE  /\ OrZero(price) = price
           /\ Unscaled(OrZero(Scaled(price))) = price
  <1> DEFINE ep == price * PriceFactor
  <1>1. price \in Nat /\ price # NaN
    BY PriceAssumption DEF NaN
  <1>2. ep \in Nat /\ ep \div PriceFactor = price
    BY <1>1, PriceFactorAssumption, ProductQuotient
  <1>3. Scaled(price) = ep
    BY <1>1 DEF Scaled
  <1> HIDE DEF ep
  <1>4. ep # NaN
    BY <1>2 DEF NaN
  <1>5. QED
    BY <1>1, <1>2, <1>3, <1>4 DEF OrZero, Unscaled

-----------------------------------------------------------------------------
(* The invariant.                                                           *)

\* What the exchange is sent for a request.
Sent(request) ==
    IF api = "USD_M" THEN OrdersCreateUsdM(request, RequestId)
                     ELSE OrdersCreateCoinM(request, RequestId)

\* What the cache may know of the order of a request.
Known(request) ==
    [client_order_id : {RequestId}, external_order_id : {"", ExternalId},
     side : {request.side}, position_effect : {request.position_effect}]

\* The requests about an order.
Naming(known) ==
    IF api = "USD_M" THEN {OrdersCancelUsdM(known), OrderQueryUsdM(known)}
                     ELSE {OrdersCancelCoinM(known), OrderQueryCoinM(known)}

TradeOf ==
    IF api = "USD_M" THEN TradeUpdateUsdM(MessageUsdM, "INCREMENTAL")
                     ELSE TradeUpdateCoinM(MessageCoinM, "INCREMENTAL")

\* Nothing is known before the client asks.
NothingAsked ==
    /\ exchange = None
    /\ order = None
    /\ reports = [path \in Path |-> None]
    /\ trades = {}
    /\ named = None

\* Afterwards the exchange keeps what was sent, the cache what was asked, and
\* all that is told or asked was made of these.
AllFromRequest ==
    /\ create \in CreateOrder
    /\ exchange = Sent(create)
    /\ order \in Known(create)
    /\ reports \in [Path -> {None} \union {Update(path) : path \in Path}]
    /\ \A path \in Path : reports[path] \in {None, Update(path)}
    /\ trades \subseteq {TradeOf}
    /\ named # None => \E known \in Known(create) : named \in Naming(known)

TermsInv ==
    /\ api \in {"USD_M", "COIN_M"}
    /\ IF create = None THEN NothingAsked ELSE AllFromRequest

-----------------------------------------------------------------------------
(* The invariant is inductive.                                              *)

LEMMA NotNone ==
    ASSUME NEW request \in CreateOrder
    PROVE  request # None
  <1>1. "side" \in DOMAIN request
    BY DEF CreateOrder
  <1>2. "side" \notin DOMAIN None
    BY DEF None
  <1>3. QED
    BY <1>1, <1>2

LEMMA TermsInit == Init => TermsInv
  BY DEF Init, TermsInv, NothingAsked

\* What the exchange tells depends on what it keeps.
LEMMA MessagesSame ==
    ASSUME UNCHANGED <<api, exchange>>
    PROVE  /\ MessageUsdM' = MessageUsdM
           /\ MessageCoinM' = MessageCoinM
           /\ TradeOf' = TradeOf
           /\ \A path \in Path : Update(path)' = Update(path)
           /\ \A request : Sent(request)' = Sent(request)
           /\ \A known : Naming(known)' = Naming(known)
  <1>1. api' = api /\ exchange' = exchange
    OBVIOUS
  <1>2. MessageUsdM' = MessageUsdM
    BY <1>1 DEF MessageUsdM
  <1>3. MessageCoinM' = MessageCoinM
    BY <1>1 DEF MessageCoinM
  <1>4. QueryMessageCoinM' = QueryMessageCoinM
    BY <1>3 DEF QueryMessageCoinM
  <1>5. TradeOf' = TradeOf
    BY <1>1, <1>2, <1>3 DEF TradeOf
  <1>6. ASSUME NEW path \in Path
        PROVE  Update(path)' = Update(path)
    BY <1>1, <1>2, <1>3, <1>4 DEF Update
  <1>7. (\A request : Sent(request)' = Sent(request)) /\ (\A known : Naming(known)' = Naming(known))
    BY <1>1 DEF Sent, Naming
  <1>8. QED
    BY <1>2, <1>3, <1>5, <1>6, <1>7

LEMMA TermsCreate ==
    ASSUME TermsInv, NEW request \in CreateOrder, Create(request)
    PROVE  TermsInv'
  <1>1. NothingAsked /\ api' = api /\ create' = request /\ create' # None
    BY NotNone DEF TermsInv, Create
  <1>2. exchange' = Sent(request) /\ Sent(request)' = Sent(request)
    BY <1>1 DEF Create, Sent
  <1>3. order' \in Known(request)
    BY DEF Create, Known
  <1>4. reports' = [path \in Path |-> None] /\ trades' = {} /\ named' = None
    BY <1>1 DEF Create, NothingAsked
  <1>5. AllFromRequest'
    <2>1. create' \in CreateOrder /\ exchange' = Sent(create)' /\ order' \in Known(create)'
      BY <1>1, <1>2, <1>3 DEF Known, Sent
    <2>2. /\ reports' \in [Path -> {None} \union {Update(path)' : path \in Path}]
          /\ \A path \in Path : reports'[path] \in {None, Update(path)'}
      BY <1>4
    <2>3. QED
      BY <1>4, <2>1, <2>2 DEF AllFromRequest
  <1>6. QED
    BY <1>1, <1>5 DEF TermsInv

\* Steps after the client asked change neither the request nor what was sent.
LEMMA TermsRequested ==
    ASSUME TermsInv, create # None, UNCHANGED <<api, create, exchange>>
    PROVE  /\ create' # None /\ api' \in {"USD_M", "COIN_M"}
           /\ create' \in CreateOrder /\ exchange' = Sent(create)'
           /\ Known(create)' = Known(create)
           /\ \A known : Naming(known)' = Naming(known)
           /\ \A path \in Path : Update(path)' = Update(path)
           /\ TradeOf' = TradeOf
           /\ AllFromRequest
  <1>1. api' = api /\ create' = create /\ exchange' = exchange /\ AllFromRequest
        /\ api \in {"USD_M", "COIN_M"}
    BY DEF TermsInv
  <1>2. Known(create)' = Known(create) /\ Sent(create)' = Sent(create)
    BY <1>1 DEF Known, Sent
  <1>3. exchange = Sent(create) /\ create \in CreateOrder
    BY <1>1 DEF AllFromRequest
  <1>4. QED
    BY <1>1, <1>2, <1>3, MessagesSame

LEMMA TermsReport ==
    ASSUME TermsInv, NEW path \in Path, Report(path)
    PROVE  TermsInv'
  <1>1. create # None /\ UNCHANGED <<api, create, exchange, trades, named>>
    BY DEF Report
  <1>2. /\ create' # None /\ api' \in {"USD_M", "COIN_M"}
        /\ create' \in CreateOrder /\ exchange' = Sent(create)'
        /\ Known(create)' = Known(create)
        /\ \A known : Naming(known)' = Naming(known)
        /\ \A p \in Path : Update(p)' = Update(p)
        /\ TradeOf' = TradeOf
        /\ AllFromRequest
    BY <1>1, TermsRequested
  <1>3. order' \in Known(create)'
    <2>1. order \in Known(create) /\ order' = [order EXCEPT !.external_order_id = ExternalId]
      BY <1>2 DEF Report, AllFromRequest
    <2>2. order' \in Known(create)
      BY <2>1 DEF Known
    <2>3. QED
      BY <1>2, <2>2
  <1>4. \A p \in Path : reports'[p] \in {None, Update(p)'}
    <2>1. reports' = [reports EXCEPT ![path] = Update(path)] /\ DOMAIN reports = Path
          /\ \A p \in Path : reports[p] \in {None, Update(p)}
      BY <1>2 DEF Report, AllFromRequest
    <2>2. \A p \in Path : reports'[p] \in {None, Update(p)}
      BY <2>1
    <2>3. QED
      BY <1>2, <2>2
  <1>5. reports' \in [Path -> {None} \union {Update(p)' : p \in Path}]
    <2>1. reports' = [p \in Path |-> reports'[p]]
      BY <1>2 DEF Report, AllFromRequest
    <2>2. \A p \in Path : reports'[p] \in {None} \union {Update(q)' : q \in Path}
      BY <1>4
    <2>3. QED
      BY <2>1, <2>2
  <1>6. trades' \subseteq {TradeOf'}
    BY <1>1, <1>2 DEF AllFromRequest
  <1>7. named' # None => \E known \in Known(create)' : named' \in Naming(known)'
    BY <1>1, <1>2 DEF AllFromRequest
  <1>8. QED
    BY <1>2, <1>3, <1>4, <1>5, <1>6, <1>7 DEF TermsInv, AllFromRequest

LEMMA TermsTrade ==
    ASSUME TermsInv, Trade
    PROVE  TermsInv'
  <1>1. create # None /\ UNCHANGED <<api, create, order, exchange, reports, named>>
    BY DEF Trade
  <1>2. /\ create' # None /\ api' \in {"USD_M", "COIN_M"}
        /\ create' \in CreateOrder /\ exchange' = Sent(create)'
        /\ Known(create)' = Known(create)
        /\ \A known : Naming(known)' = Naming(known)
        /\ \A p \in Path : Update(p)' = Update(p)
        /\ TradeOf' = TradeOf
        /\ AllFromRequest
    BY <1>1, TermsRequested
  <1>3. trades' \subseteq {TradeOf'}
    BY <1>2 DEF Trade, TradeOf
  <1>4. /\ reports' \in [Path -> {None} \union {Update(p)' : p \in Path}]
        /\ \A p \in Path : reports'[p] \in {None, Update(p)'}
    <2>1. /\ reports \in [Path -> {None} \union {Update(p) : p \in Path}]
          /\ \A p \in Path : reports[p] \in {None, Update(p)}
      BY <1>2 DEF AllFromRequest
    <2>2. {Update(p)' : p \in Path} = {Update(p) : p \in Path}
      BY <1>2
    <2>3. QED
      BY <1>1, <1>2, <2>1, <2>2
  <1>5. order' \in Known(create)' /\ (named' # None => \E known \in Known(create)' : named' \in Naming(known)')
    BY <1>1, <1>2 DEF AllFromRequest
  <1>6. QED
    BY <1>2, <1>3, <1>4, <1>5 DEF TermsInv, AllFromRequest

\* A cancel or a query is made of what the cache knows.
LEMMA TermsNamed ==
    ASSUME TermsInv, CancelOrder \/ GetOrder
    PROVE  TermsInv'
  <1>1. create # None /\ UNCHANGED <<api, create, order, exchange, reports, trades>>
    BY DEF CancelOrder, GetOrder
  <1>2. /\ create' # None /\ api' \in {"USD_M", "COIN_M"}
        /\ create' \in CreateOrder /\ exchange' = Sent(create)'
        /\ Known(create)' = Known(create)
        /\ \A known : Naming(known)' = Naming(known)
        /\ \A p \in Path : Update(p)' = Update(p)
        /\ TradeOf' = TradeOf
        /\ AllFromRequest
    BY <1>1, TermsRequested
  <1>3. order \in Known(create) /\ trades \subseteq {TradeOf}
        /\ reports \in [Path -> {None} \union {Update(p) : p \in Path}]
        /\ \A p \in Path : reports[p] \in {None, Update(p)}
    BY <1>2 DEF AllFromRequest
  <1>4. named' \in Naming(order)
    BY DEF CancelOrder, GetOrder, Naming
  <1>5. {Update(p)' : p \in Path} = {Update(p) : p \in Path}
    BY <1>2
  <1>6. /\ reports' \in [Path -> {None} \union {Update(p)' : p \in Path}]
        /\ \A p \in Path : reports'[p] \in {None, Update(p)'}
    BY <1>1, <1>2, <1>3, <1>5
  <1>7. order' \in Known(create)' /\ trades' \subseteq {TradeOf'}
    BY <1>1, <1>2, <1>3
  <1>8. \E known \in Known(create)' : named' \in Naming(known)'
    BY <1>2, <1>3, <1>4
  <1>9. QED
    BY <1>2, <1>6, <1>7, <1>8 DEF TermsInv, AllFromRequest

LEMMA TermsStutter ==
    ASSUME TermsInv, UNCHANGED vars
    PROVE  TermsInv'
  <1>1. CASE create = None
    BY <1>1 DEF TermsInv, NothingAsked, vars
  <1>2. CASE create # None
    <2>1. UNCHANGED <<api, create, order, exchange, reports, trades, named>>
      BY DEF vars
    <2>2. /\ create' # None /\ api' \in {"USD_M", "COIN_M"}
          /\ create' \in CreateOrder /\ exchange' = Sent(create)'
          /\ Known(create)' = Known(create)
          /\ \A known : Naming(known)' = Naming(known)
          /\ \A p \in Path : Update(p)' = Update(p)
          /\ TradeOf' = TradeOf
          /\ AllFromRequest
      BY <1>2, <2>1, TermsRequested
    <2>3. {Update(p)' : p \in Path} = {Update(p) : p \in Path}
      BY <2>2
    <2>4. /\ reports' \in [Path -> {None} \union {Update(p)' : p \in Path}]
          /\ \A p \in Path : reports'[p] \in {None, Update(p)'}
      BY <2>1, <2>2, <2>3 DEF AllFromRequest
    <2>5. /\ order' \in Known(create)' /\ trades' \subseteq {TradeOf'}
          /\ named' # None => \E known \in Known(create)' : named' \in Naming(known)'
      BY <2>1, <2>2 DEF AllFromRequest
    <2>6. QED
      BY <2>2, <2>4, <2>5 DEF TermsInv, AllFromRequest
  <1>3. QED
    BY <1>1, <1>2

LEMMA TermsAlways == Spec => []TermsInv
  <1>1. TermsInv /\ [Next]_vars => TermsInv'
    <2> SUFFICES ASSUME TermsInv, [Next]_vars
                 PROVE  TermsInv'
      OBVIOUS
    <2>1. CASE \E request \in CreateOrder : Create(request)
      BY <2>1, TermsCreate
    <2>2. CASE \E path \in Path : Report(path)
      BY <2>2, TermsReport
    <2>3. CASE Trade
      BY <2>3, TermsTrade
    <2>4. CASE CancelOrder \/ GetOrder
      BY <2>4, TermsNamed
    <2>5. CASE UNCHANGED vars
      BY <2>5, TermsStutter
    <2>6. QED
      BY <2>1, <2>2, <2>3, <2>4, <2>5 DEF Next
  <1>2. QED
    BY <1>1, TermsInit, PTL DEF Spec

-----------------------------------------------------------------------------
(* What a report says.                                                      *)

LEMMA Parameters ==
    ASSUME api \in {"USD_M", "COIN_M"}, AllFromRequest
    PROVE  /\ exchange.parameters = CreateParameters(create, RequestId)
           /\ api = "USD_M" => exchange.rp = Prices(create.price, create.stop_price)
           /\ api = "COIN_M" => exchange.ep = Prices(Scaled(create.price), create.stop_price)
  BY DEF AllFromRequest, Sent, OrdersCreateUsdM, OrdersCreateCoinM

\* Each path fills in an update from the exchange's message.
LEMMA UpdateFields ==
    ASSUME NEW m, NEW price, NEW stop_price, NEW type
    PROVE  LET update == OrderUpdate(m, price, stop_price, type)
           IN  /\ update.side = MapJsonSide(m.side)
               /\ update.order_type = MapJsonOrderType(m.ordType)
               /\ update.time_in_force = MapJsonTimeInForce(m.timeInForce)
               /\ update.price = price
  BY DEF OrderUpdate

\* Whatever the path, the same parameters come back.
LEMMA MessageParameters ==
    ASSUME exchange.parameters = CreateParameters(create, RequestId),
           NEW m \in {MessageUsdM, MessageCoinM, QueryMessageCoinM}
    PROVE  /\ m.side = MapSide(create.side)
           /\ m.posSide = MapPositionEffectAndSide(create.position_effect, create.side)
           /\ m.ordType = MapOrderType(create.order_type)
           /\ m.timeInForce = TimeInForceOf(create)
  <1>1. CASE m = MessageUsdM
    BY <1>1 DEF MessageUsdM, CreateParameters
  <1>2. CASE m = MessageCoinM
    BY <1>2 DEF MessageCoinM, CreateParameters
  <1>3. CASE m = QueryMessageCoinM
    <2>1. /\ m.side = MessageCoinM.side /\ m.posSide = MessageCoinM.posSide
          /\ m.ordType = MessageCoinM.ordType /\ m.timeInForce = MessageCoinM.timeInForce
      BY <1>3 DEF QueryMessageCoinM, MessageCoinM
    <2>2. QED
      BY <2>1 DEF MessageCoinM, CreateParameters
  <1>4. QED
    BY <1>1, <1>2, <1>3

\* An update is made of one of the messages, with the price it gives.
MadeOf(update, m, price) ==
    \E stop_price, type : update = OrderUpdate(m, price, stop_price, type)

LEMMA Made ==
    ASSUME NEW m, NEW price, NEW stop_price, NEW type
    PROVE  MadeOf(OrderUpdate(m, price, stop_price, type), m, price)
  BY DEF MadeOf

LEMMA UpdateOfUsdM ==
    ASSUME api = "USD_M", NEW path \in Path
    PROVE  MadeOf(Update(path), MessageUsdM, MessageUsdM.priceRp)
  <1>1. CASE path = "create_ack"
    <2>1. Update(path) = CreateAckUsdM(MessageUsdM)
      BY <1>1 DEF Update
    <2>2. QED
      BY <2>1, Made DEF CreateAckUsdM
  <1>2. CASE path = "cancel_ack"
    <2>1. Update(path) = CancelAckUsdM(MessageUsdM)
      BY <1>2 DEF Update
    <2>2. QED
      BY <2>1, Made DEF CancelAckUsdM
  <1>3. CASE path = "get_order_ack"
    <2>1. Update(path) = GetOrderAckUsdM(MessageUsdM)
      BY <1>3 DEF Update
    <2>2. QED
      BY <2>1, Made DEF GetOrderAckUsdM
  <1>4. CASE path = "feed"
    <2>1. Update(path) = FeedOrderUsdM(MessageUsdM, "INCREMENTAL")
      BY <1>4 DEF Update
    <2>2. QED
      BY <2>1, Made DEF FeedOrderUsdM
  <1>5. QED
    BY <1>1, <1>2, <1>3, <1>4 DEF Path

LEMMA UpdateOfCoinM ==
    ASSUME api = "COIN_M", NEW path \in Path
    PROVE  \/ MadeOf(Update(path), MessageCoinM, MessageCoinM.price)
           \/ MadeOf(Update(path), MessageCoinM, Unscaled(MessageCoinM.priceEp))
           \/ MadeOf(Update(path), QueryMessageCoinM, QueryMessageCoinM.price)
  <1>1. CASE path = "create_ack"
    <2>1. Update(path) = CreateAckCoinM(MessageCoinM)
      BY <1>1 DEF Update
    <2>2. QED
      BY <2>1, Made DEF CreateAckCoinM
  <1>2. CASE path = "cancel_ack"
    <2>1. Update(path) = CancelAckCoinM(MessageCoinM)
      BY <1>2 DEF Update
    <2>2. QED
      BY <2>1, Made DEF CancelAckCoinM
  <1>3. CASE path = "get_order_ack"
    <2>1. Update(path) = GetOrderAckCoinM(QueryMessageCoinM)
      BY <1>3 DEF Update
    <2>2. QED
      BY <2>1, Made DEF GetOrderAckCoinM
  <1>4. CASE path = "feed"
    <2>1. Update(path) = FeedOrderCoinM(MessageCoinM, "INCREMENTAL")
      BY <1>4 DEF Update
    <2>2. QED
      BY <2>1, Made DEF FeedOrderCoinM
  <1>5. QED
    BY <1>1, <1>2, <1>3, <1>4 DEF Path

\* A price that was asked for is told as it was asked for, or not at all.
LEMMA MessagePrices ==
    ASSUME api \in {"USD_M", "COIN_M"}, AllFromRequest, create.price # NaN
    PROVE  /\ api = "USD_M" => MessageUsdM.priceRp = create.price
           /\ api = "COIN_M" => /\ MessageCoinM.price = create.price
                               /\ QueryMessageCoinM.price = NaN
                               /\ Unscaled(MessageCoinM.priceEp) = create.price
  <1>1. create.price \in Price
    BY DEF AllFromRequest, CreateOrder
  <1>2. OrZero(create.price) = create.price /\ Unscaled(OrZero(Scaled(create.price))) = create.price
    BY <1>1, PriceKept
  <1>3. CASE api = "USD_M"
    <2>1. exchange.rp.price = create.price
      BY <1>3, Parameters DEF Prices
    <2>2. QED
      BY <1>2, <1>3, <2>1 DEF MessageUsdM
  <1>4. CASE api = "COIN_M"
    <2>1. exchange.ep.price = Scaled(create.price)
      BY <1>4, Parameters DEF Prices
    <2>2. MessageCoinM.price = create.price /\ Unscaled(MessageCoinM.priceEp) = create.price
      BY <1>2, <2>1 DEF MessageCoinM
    <2>3. QueryMessageCoinM.price = NaN
      BY DEF QueryMessageCoinM, MessageCoinM
    <2>4. QED
      BY <1>4, <2>2, <2>3
  <1>5. QED
    BY <1>3, <1>4

-----------------------------------------------------------------------------
(* The theorems.                                                            *)

\* For every request and every path a report says what the client asked for:
\* the maps of map.cpp undo each other, and a price is scaled on the way out
\* exactly where it is on the way in (encoder.cpp:44-70, the OrderUpdates of
\* order_entry_* and drop_copy_*).
THEOREM EveryReportTrue == Spec => []TermsKept
  <1>1. TermsInv => TermsKept
    <2> SUFFICES ASSUME TermsInv, NEW path \in Reported
                 PROVE  /\ reports[path].side = create.side
                        /\ reports[path].order_type = create.order_type
                        /\ reports[path].time_in_force =
                             IF create.post_only THEN "GTC" ELSE create.time_in_force
                        /\ create.price # NaN => reports[path].price \in {create.price, NaN}
      BY DEF TermsKept
    <2>1. api \in {"USD_M", "COIN_M"} /\ path \in Path /\ reports[path] # None
      BY DEF TermsInv, Reported
    <2>2. AllFromRequest
      BY <2>1 DEF TermsInv, NothingAsked
    <2>3. create \in CreateOrder /\ reports[path] = Update(path)
      BY <2>1, <2>2 DEF AllFromRequest
    <2>4. create.side \in {"BUY", "SELL"} /\ create.order_type \in {"MARKET", "LIMIT"}
      BY <2>3 DEF CreateOrder
    <2>5. PICK m, price :
              /\ m \in {MessageUsdM, MessageCoinM, QueryMessageCoinM}
              /\ MadeOf(Update(path), m, price)
              /\ create.price # NaN => price \in {create.price, NaN}
      BY <2>1, <2>2, UpdateOfUsdM, UpdateOfCoinM, MessagePrices
    <2>6. /\ reports[path].side = MapJsonSide(m.side)
          /\ reports[path].order_type = MapJsonOrderType(m.ordType)
          /\ reports[path].time_in_force = MapJsonTimeInForce(m.timeInForce)
          /\ reports[path].price = price
      BY <2>3, <2>5, UpdateFields DEF MadeOf
    <2>7. /\ m.side = MapSide(create.side)
          /\ m.ordType = MapOrderType(create.order_type)
          /\ m.timeInForce = TimeInForceOf(create)
      BY <2>1, <2>2, <2>5, Parameters, MessageParameters
    <2>8. QED
      BY <2>3, <2>4, <2>5, <2>6, <2>7, SideKept, OrderTypeKept, TimeInForceKept
  <1>2. QED
    BY <1>1, TermsAlways, PTL

\* For every request a USD-M fill opens or closes a position exactly as the
\* order was asked to (map.cpp:202-247, 429-460; drop_copy_usd_m.cpp:421).
THEOREM EveryFillHasTheEffect == Spec => []EffectKept
  <1>1. TermsInv => EffectKept
    <2> SUFFICES ASSUME TermsInv, api = "USD_M", NEW trade \in trades
                 PROVE  trade.position_effect = create.position_effect
      BY DEF EffectKept
    <2>1. AllFromRequest
      BY DEF TermsInv, NothingAsked
    <2>2. trade = TradeOf /\ create \in CreateOrder
      BY <2>1 DEF AllFromRequest
    <2>3. trade.position_effect = MapPosSideAndSide(MessageUsdM.posSide, MessageUsdM.side)
      BY <2>2 DEF TradeOf, TradeUpdateUsdM, TradeUpdate
    <2>4. /\ MessageUsdM.side = MapSide(create.side)
          /\ MessageUsdM.posSide = MapPositionEffectAndSide(create.position_effect, create.side)
      BY <2>1, Parameters, MessageParameters
    <2>5. create.side \in {"BUY", "SELL"} /\ create.position_effect \in {"UNDEFINED", "OPEN", "CLOSE"}
      BY <2>2 DEF CreateOrder
    <2>6. QED
      BY <2>3, <2>4, <2>5, PositionEffectKept
  <1>2. QED
    BY <1>1, TermsAlways, PTL

\* A cancel or a query names the order the exchange has, before its identifier
\* is known and after, and a cancel the side of its position
\* (encoder.cpp:167-205, 214-236).
THEOREM EveryRequestNamesTheOrder == Spec => []OrderFound
  <1>1. TermsInv => OrderFound
    <2> SUFFICES ASSUME TermsInv, named # None
                 PROVE  /\ named.order \in {[clOrdID |-> exchange.parameters.clOrdID],
                                            [orderID |-> ExternalId]}
                        /\ "posSide" \in DOMAIN named
                             => named.posSide = exchange.parameters.posSide
      BY DEF OrderFound
    <2>1. AllFromRequest /\ api \in {"USD_M", "COIN_M"}
      BY DEF TermsInv, NothingAsked
    <2>2. PICK known \in Known(create) : named \in Naming(known)
      BY <2>1 DEF AllFromRequest
    <2>3. /\ exchange.parameters.clOrdID = RequestId
          /\ exchange.parameters.posSide
               = MapPositionEffectAndSide(create.position_effect, create.side)
      BY <2>1, Parameters DEF CreateParameters
    <2>4. OrderName(known) \in {[clOrdID |-> RequestId], [orderID |-> ExternalId]}
      BY <2>2 DEF Known, OrderName
    <2>5. known.side = create.side /\ known.position_effect = create.position_effect
      BY <2>2 DEF Known
    <2>6. CASE named = OrdersCancelUsdM(known)
      <3>1. named.order = OrderName(known)
            /\ named.posSide = MapPositionEffectAndSide(create.position_effect, create.side)
        BY <2>5, <2>6 DEF OrdersCancelUsdM
      <3>2. QED
        BY <2>3, <2>4, <3>1
    <2>7. CASE named \in {OrderQueryUsdM(known), OrdersCancelCoinM(known), OrderQueryCoinM(known)}
      <3>1. named = [order |-> OrderName(known)]
        BY <2>7 DEF OrderQueryUsdM, OrdersCancelCoinM, OrderQueryCoinM
      <3>2. named.order = OrderName(known) /\ "posSide" \notin DOMAIN named
        BY <3>1
      <3>3. QED
        BY <2>3, <2>4, <3>2
    <2>8. QED
      BY <2>2, <2>6, <2>7 DEF Naming
  <1>2. QED
    BY <1>1, TermsAlways, PTL
=============================================================================
