------------------------ MODULE OrderLifecycleProofs ------------------------
(***************************************************************************)
(* Proofs about module OrderLifecycle, for any quantity and any factors.   *)
(***************************************************************************)
EXTENDS OrderLifecycle, TLAPS

-----------------------------------------------------------------------------
(* The messages.                                                            *)

\* The orders that the exchange writes are orders of the exchange.
LEMMA OrderType ==
    ASSUME NEW status \in {"CREATED", "NEW", "PARTIALLY_FILLED", "FILLED", "CANCELED"},
           NEW cum \in Int, NEW time \in Int
    PROVE  /\ Order(status, cum, time) \in ExchangeOrder
           /\ Order(status, cum, time).ordStatus = status
           /\ Order(status, cum, time).transactTimeNs = time
           /\ Order(status, cum, time) # None
  BY QuantityAssumption DEF Order, ExchangeOrder, ExecStatus, None

\* No order is mistaken for the absence of one.
LEMMA OrderIsSome == ASSUME NEW order \in ExchangeOrder PROVE order # None
  BY DEF ExchangeOrder, None

\* A message tells the status of the order and the time it happened at.
LEMMA MessageTells ==
    ASSUME NEW order \in ExchangeOrder
    PROVE  /\ Message(order).ordStatus = order.ordStatus
           /\ Message(order).transactTimeNs = order.transactTimeNs
           /\ order.transactTimeNs \in Int
  BY DEF Message, ExchangeOrder

LEMMA AopOrders ==
    ASSUME NEW message \in AopMessage, NEW m \in message.orders
    PROVE  \E order \in ExchangeOrder : m = Message(order)
  <1>1. PICK type \in {"SNAPSHOT", "INCREMENTAL"}, order \in ExchangeOrder \union {None},
            quantity \in Int : message = Aop(type, order, quantity)
    BY DEF AopMessage
  <1>2. message.orders = IF order = None THEN {} ELSE {Message(order)}
    BY <1>1 DEF Aop
  <1>3. QED
    BY <1>1, <1>2

LEMMA OneOrder ==
    ASSUME NEW message \in AopMessage, NEW a \in message.orders, NEW b \in message.orders
    PROVE  a = b
  <1>1. PICK type \in {"SNAPSHOT", "INCREMENTAL"}, order \in ExchangeOrder \union {None},
            quantity \in Int : message = Aop(type, order, quantity)
    BY DEF AopMessage
  <1>2. message.orders = IF order = None THEN {} ELSE {Message(order)}
    BY <1>1 DEF Aop
  <1>3. QED
    BY <1>2

\* What the exchange sends about an order has happened.
LEMMA AopHappened ==
    ASSUME NEW type \in {"SNAPSHOT", "INCREMENTAL"}, NEW quantity \in Int,
           NEW order \in ExchangeOrder \union {None},
           order # None => HasHappened(order)
    PROVE  /\ Aop(type, order, quantity) \in AopMessage
           /\ \A m \in Aop(type, order, quantity).orders : HasHappened(m)
  <1>1. Aop(type, order, quantity) \in AopMessage
    BY DEF AopMessage
  <1>2. Aop(type, order, quantity).orders = IF order = None THEN {} ELSE {Message(order)}
    BY DEF Aop
  <1>3. ASSUME order # None PROVE HasHappened(Message(order))
    BY <1>3, MessageTells DEF HasHappened
  <1>4. QED
    BY <1>1, <1>2, <1>3

-----------------------------------------------------------------------------
(* Time goes on at the exchange, until the order has ended.                 *)

Advances ==
    /\ exchange # None =>
         exchange' # None /\ exchange'.transactTimeNs >= exchange.transactTimeNs
    /\ Ended => exchange' = exchange

\* What has happened stays so.
LEMMA HappenedStays ==
    ASSUME exchange \in ExchangeOrder \union {None}, exchange' \in ExchangeOrder \union {None},
           Advances,
           NEW status, NEW time \in Int, Happened(status, time)
    PROVE  Happened(status, time)'
  <1>1. exchange \in ExchangeOrder /\ exchange' \in ExchangeOrder
    BY DEF Happened, Advances
  <1>2. exchange.transactTimeNs \in Int /\ exchange'.transactTimeNs \in Int
    BY <1>1 DEF ExchangeOrder
  <1>3. time <= exchange'.transactTimeNs
    BY <1>2 DEF Happened, Advances
  <1>4. CASE Complete(status)
    BY <1>3, <1>4 DEF Happened, Advances, Ended
  <1>5. CASE ~Complete(status)
    BY <1>3, <1>5 DEF Happened, Advances
  <1>6. QED
    BY <1>4, <1>5

\* The order as it is has happened.
LEMMA NowHappened == ASSUME exchange \in ExchangeOrder PROVE HasHappened(exchange)
  <1>1. exchange.transactTimeNs \in Int
    BY DEF ExchangeOrder
  <1>2. Complete(MapOrderStatus(exchange.ordStatus)) => Ended
    BY OrderIsSome DEF Complete, MapOrderStatus, Ended, ExchangeOrder
  <1>3. QED
    BY <1>1, <1>2, OrderIsSome DEF HasHappened, Happened

LEMMA InvariantInit == Init => IInv
  <1> SUFFICES ASSUME Init PROVE IInv
    OBVIOUS
  <1>1. Order("NEW", 0, 2) \in ExchangeOrder /\ Order("NEW", 0, 2).ordStatus = "NEW"
    BY OrderType
  <1>2. exchange \in ExchangeOrder \union {None} /\ before \in Int
    BY <1>1, PositionAssumption DEF Init
  <1>3. exchange # None => exchange.ordStatus = "NEW"
    BY <1>1 DEF Init
  <1>4. feed \in [up : BOOLEAN, queue : Seq(AopMessage)] /\ DOMAIN feed.queue = {}
    BY DEF Init
  <1>5. QED
    BY <1>2, <1>3, <1>4 DEF Init, IInv

\* A step of the exchange: what it writes has happened, and so has all that
\* had before.
LEMMA ExchangeStep ==
    ASSUME IInv, Advances,
           exchange' \in ExchangeOrder,
           exchange'.ordStatus = "CREATED" => exchange'.transactTimeNs = 1,
           "create" \notin travelling',
           UNCHANGED <<api, before, view>>,
           feed' = feed \/ Push(exchange'),
           NEW type \in {"create", "cancel"},
           replies' \in {replies, replies \union {[type |-> type, order |-> exchange']}}
    PROVE  IInv'
  <1>0. PICK new \in ExchangeOrder : new = exchange'
    OBVIOUS
  <1>1. HasHappened(new)'
    <2>1. new.transactTimeNs \in Int
      BY DEF ExchangeOrder
    <2>2. Complete(MapOrderStatus(new.ordStatus)) => Ended'
      BY <1>0, OrderIsSome DEF Complete, MapOrderStatus, Ended, ExchangeOrder
    <2>3. QED
      BY <1>0, <2>1, <2>2, OrderIsSome DEF HasHappened, Happened
  <1>2. \A order \in ExchangeOrder : HasHappened(order) => HasHappened(order)'
    BY HappenedStays, MessageTells DEF IInv, HasHappened
  <1>3. \A order \in ExchangeOrder : HasHappened(Message(order)) => HasHappened(Message(order))'
    BY HappenedStays, MessageTells DEF IInv, HasHappened
  <1>4. \A reply \in replies' :
          /\ reply.order \in ExchangeOrder \union {None}
          /\ reply.type \in {"create", "cancel", "query"}
          /\ reply.order # None => HasHappened(reply.order)'
    <2> SUFFICES ASSUME NEW reply \in replies'
                 PROVE  /\ reply.order \in ExchangeOrder \union {None}
                        /\ reply.type \in {"create", "cancel", "query"}
                        /\ reply.order # None => HasHappened(reply.order)'
      OBVIOUS
    <2>1. CASE reply \in replies
      BY <1>2, <2>1 DEF IInv
    <2>2. CASE reply = [type |-> type, order |-> new]
      BY <1>1, <2>2
    <2>3. QED
      BY <1>0, <2>1, <2>2
  <1>5. ASSUME NEW i \in DOMAIN feed.queue, NEW m \in feed.queue[i].orders
        PROVE  HasHappened(m)'
    <2>1. feed.queue[i] \in AopMessage
      BY DEF IInv
    <2>2. PICK order \in ExchangeOrder : m = Message(order)
      BY <2>1, AopOrders
    <2>3. QED
      BY <1>3, <2>2 DEF IInv
  <1>6. /\ feed' \in [up : BOOLEAN, queue : Seq(AopMessage)]
        /\ \A i \in DOMAIN feed'.queue : \A m \in feed'.queue[i].orders : HasHappened(m)'
    <2>1. CASE feed' = feed
      BY <1>5, <2>1 DEF IInv
    <2>2. CASE feed' # feed
      <3> DEFINE message == Aop("INCREMENTAL", new, before + new.cumQty)
      <3>1. before + new.cumQty \in Int
        BY DEF IInv, ExchangeOrder
      <3>2. message \in AopMessage
        BY <3>1 DEF AopMessage
      <3>3. \A m \in message.orders : HasHappened(m)'
        <4>1. message.orders = {Message(new)}
          BY OrderIsSome DEF Aop
        <4>2. HasHappened(Message(new))'
          BY <1>1, MessageTells DEF HasHappened
        <4>3. QED
          BY <4>1, <4>2
      <3>4. feed' = [feed EXCEPT !.queue = Append(feed.queue, message)]
        BY <1>0, <2>2 DEF Push
      <3> HIDE DEF message
      <3>5. /\ Append(feed.queue, message) \in Seq(AopMessage)
            /\ feed.queue \in Seq(AopMessage)
            /\ feed \in [up : BOOLEAN, queue : Seq(AopMessage)]
        BY <3>2 DEF IInv
      <3>6. /\ feed' \in [up : BOOLEAN, queue : Seq(AopMessage)]
            /\ feed'.queue = Append(feed.queue, message)
        BY <3>4, <3>5
      <3>7. \A i \in DOMAIN feed'.queue : \/ i \in DOMAIN feed.queue /\ feed'.queue[i] = feed.queue[i]
                                        \/ feed'.queue[i] = message
        BY <3>2, <3>5, <3>6
      <3>8. QED
        BY <1>5, <3>3, <3>6, <3>7
    <2>3. QED
      BY <2>1, <2>2
  <1>7. view' # None => view'.time \in Int /\ Happened(view.order_status, view.time)'
    <2>1. ASSUME view # None PROVE Happened(view.order_status, view.time)'
      BY <2>1, HappenedStays DEF IInv
    <2>2. QED
      BY <2>1 DEF IInv
  <1>8. QED
    BY <1>4, <1>6, <1>7 DEF IInv

-----------------------------------------------------------------------------
(* The steps of the exchange.                                               *)

\* The events that the feed tells of: a later order, with one execution more or
\* with none.
LEMMA Events ==
    ASSUME IInv, Book \/ Fill \/ Canceled
    PROVE  /\ exchange # None /\ exchange \in ExchangeOrder /\ exchange' \in ExchangeOrder
           /\ exchange'.ordStatus # "CREATED"
           /\ exchange'.transactTimeNs = exchange.transactTimeNs + 1
           /\ \/ exchange'.tradeType = "TRADE" /\ exchange'.cumQty = exchange.cumQty + 1
              \/ /\ exchange'.tradeType # "TRADE"
                 /\ exchange.ordStatus = "CREATED" => exchange'.cumQty = 0
                 /\ exchange.ordStatus # "CREATED" => exchange'.cumQty = exchange.cumQty
           /\ Push(exchange') /\ gap' = (gap \/ ~feed.up)
           /\ UNCHANGED <<api, security, own, before, travelling, replies, query_old, view,
                          confirmed, told, position, funds>>
  <1> USE DEF Happens, omsVars
  <1>1. exchange # None
    BY DEF Book, Fill, Canceled, Open
  <1>2. exchange \in ExchangeOrder /\ exchange.transactTimeNs \in Int /\ exchange.cumQty \in Int
    BY <1>1 DEF IInv, ExchangeOrder
  <1>3. CASE Book
    <2>1. exchange' = Order("NEW", 0, 2) /\ exchange.ordStatus = "CREATED"
      BY <1>3 DEF Book
    <2>2. exchange.transactTimeNs = 1
      BY <1>1, <2>1 DEF IInv
    <2>3. exchange'.tradeType = "NONE" /\ exchange'.cumQty = 0
      BY <2>1 DEF Order
    <2>4. QED
      BY <1>1, <1>2, <1>3, <2>1, <2>2, <2>3, OrderType DEF Book
  <1>4. CASE Fill
    <2> DEFINE cum == exchange.cumQty + 1
               status == IF cum = Quantity THEN "FILLED" ELSE "PARTIALLY_FILLED"
               time == exchange.transactTimeNs + 1
    <2>1. PICK execStatus \in ExecStatus :
            exchange' = [ordStatus |-> status, cumQty |-> cum, leavesQty |-> Quantity - cum,
                         transactTimeNs |-> time, tradeType |-> "TRADE",
                         execStatus |-> execStatus, execQty |-> 1]
      BY <1>4 DEF Fill, Order
    <2>2. cum \in Int /\ Quantity - cum \in Int /\ time \in Int
      BY <1>2, QuantityAssumption
    <2>3. /\ exchange' \in ExchangeOrder /\ exchange'.ordStatus # "CREATED"
          /\ exchange'.transactTimeNs = exchange.transactTimeNs + 1
          /\ exchange'.cumQty = exchange.cumQty + 1 /\ exchange'.tradeType = "TRADE"
      BY <2>1, <2>2 DEF ExchangeOrder
    <2>4. QED
      BY <1>1, <1>2, <1>4, <2>3 DEF Fill
  <1>5. CASE Canceled
    <2>1. /\ exchange' = Order("CANCELED", exchange.cumQty, exchange.transactTimeNs + 1)
          /\ exchange.ordStatus # "CREATED"
      BY <1>5 DEF Canceled, Open
    <2>2. exchange'.tradeType = "NONE" /\ exchange'.cumQty = exchange.cumQty
      BY <2>1 DEF Order
    <2>3. exchange.transactTimeNs + 1 \in Int
      BY <1>2
    <2>4. QED
      BY <1>1, <1>2, <1>5, <2>1, <2>2, <2>3, OrderType DEF Canceled
  <1>6. QED
    BY <1>3, <1>4, <1>5

\* A cancel that is accepted changes the time of the order alone.
LEMMA CancelAccepted ==
    ASSUME IInv, ExecuteCancel, exchange' # exchange
    PROVE  /\ exchange # None /\ exchange \in ExchangeOrder /\ exchange' \in ExchangeOrder
           /\ exchange'.ordStatus = exchange.ordStatus /\ exchange.ordStatus # "CREATED"
           /\ exchange'.cumQty = exchange.cumQty
           /\ exchange'.transactTimeNs = exchange.transactTimeNs + 1
           /\ replies' = replies \union {[type |-> "cancel", order |-> exchange']}
  <1>1. /\ exchange # None /\ exchange.ordStatus # "CREATED"
        /\ exchange' = [exchange EXCEPT !.transactTimeNs = exchange.transactTimeNs + 1]
        /\ replies' = replies \union {[type |-> "cancel", order |-> exchange']}
    BY DEF ExecuteCancel, Open, Happens
  <1>2. exchange \in ExchangeOrder /\ exchange.transactTimeNs \in Int
    BY <1>1 DEF IInv, ExchangeOrder
  <1>3. /\ exchange' \in ExchangeOrder /\ exchange'.ordStatus = exchange.ordStatus
        /\ exchange'.cumQty = exchange.cumQty
        /\ exchange'.transactTimeNs = exchange.transactTimeNs + 1
    BY <1>1, <1>2 DEF ExchangeOrder
  <1>4. QED
    BY <1>1, <1>2, <1>3

\* ... and one that is refused changes nothing.
LEMMA CancelRefused ==
    ASSUME IInv, ExecuteCancel, exchange' = exchange
    PROVE  replies' = replies
  <1>1. CASE Open
    <2>1. exchange # None /\ exchange \in ExchangeOrder
      BY <1>1 DEF Open, IInv
    <2>2. exchange' = [exchange EXCEPT !.transactTimeNs = exchange.transactTimeNs + 1]
      BY <1>1 DEF ExecuteCancel, Happens
    <2>3. exchange'.transactTimeNs = exchange.transactTimeNs + 1
      BY <2>1, <2>2 DEF ExchangeOrder
    <2>4. QED
      BY <2>1, <2>3 DEF ExchangeOrder
  <1>2. CASE ~Open
    BY <1>2 DEF ExecuteCancel
  <1>3. QED
    BY <1>1, <1>2

LEMMA ExchangeSteps ==
    ASSUME IInv, ExecuteCreate \/ Book \/ Fill \/ ExecuteCancel \/ Canceled
    PROVE  IInv' /\ UNCHANGED view
  <1> USE DEF Happens, omsVars
  <1>1. CASE ExecuteCreate
    <2>1. exchange = None /\ exchange' = Order("CREATED", 0, 1)
      BY <1>1 DEF ExecuteCreate, IInv
    <2>2. exchange' \in ExchangeOrder /\ exchange'.transactTimeNs = 1
      BY <2>1, OrderType
    <2>3. Advances
      BY <2>1 DEF Advances, Ended
    <2>4. replies' = replies \union {[type |-> "create", order |-> exchange']}
      BY <1>1 DEF ExecuteCreate
    <2>5. QED
      BY <1>1, <2>2, <2>3, <2>4, ExchangeStep DEF ExecuteCreate
  <1>2. CASE Book \/ Fill \/ Canceled
    <2>1. /\ exchange # None /\ exchange \in ExchangeOrder /\ exchange' \in ExchangeOrder
          /\ exchange'.ordStatus # "CREATED"
          /\ exchange'.transactTimeNs = exchange.transactTimeNs + 1
          /\ Push(exchange')
          /\ UNCHANGED <<api, before, travelling, replies, view>>
      BY <1>2, Events
    <2>2. Advances
      <3>1. ~Ended
        BY <1>2 DEF Book, Fill, Canceled, Open, Ended
      <3>2. QED
        BY <2>1, <3>1, OrderIsSome DEF Advances, ExchangeOrder
    <2>3. "create" \notin travelling'
      BY <2>1 DEF IInv
    <2>4. QED
      BY <2>1, <2>2, <2>3, ExchangeStep
  <1>3. CASE ExecuteCancel
    <2>1. CASE exchange' # exchange
      <3>1. /\ exchange # None /\ exchange \in ExchangeOrder /\ exchange' \in ExchangeOrder
            /\ exchange'.ordStatus # "CREATED"
            /\ exchange'.transactTimeNs = exchange.transactTimeNs + 1
            /\ replies' = replies \union {[type |-> "cancel", order |-> exchange']}
        BY <1>3, <2>1, CancelAccepted
      <3>2. Advances
        <4>1. ~Ended
          BY <1>3, <2>1 DEF ExecuteCancel, Open, Ended
        <4>2. QED
          BY <3>1, <4>1, OrderIsSome DEF Advances, ExchangeOrder
      <3>3. "create" \notin travelling'
        BY <1>3, <3>1 DEF ExecuteCancel, IInv
      <3>4. QED
        BY <1>3, <3>1, <3>2, <3>3, ExchangeStep DEF ExecuteCancel
    <2>2. CASE exchange' = exchange
      <3>1. UNCHANGED <<api, exchange, before, feed, replies, view>>
        BY <1>3, <2>2, CancelRefused DEF ExecuteCancel
      <3>2. "create" \in travelling' => "create" \in travelling
        BY <1>3 DEF ExecuteCancel
      <3>3. QED
        BY <3>1, <3>2 DEF IInv, HasHappened, Happened, Ended
    <2>3. QED
      BY <2>1, <2>2
  <1>4. QED
    BY <1>1, <1>2, <1>3

-----------------------------------------------------------------------------
(* What the gateway tells.                                                  *)

\* Whichever path tells of the order, the cache afterwards has something that
\* has happened, and keeps what is complete.
LEMMA KeptHappened ==
    ASSUME IInv, NEW update, update.update_time_utc \in Int,
           Happened(update.order_status, update.update_time_utc)
    PROVE  /\ Kept(update).time \in Int
           /\ Happened(Kept(update).order_status, Kept(update).time)
           /\ ViewComplete => Kept(update) = view
  <1>1. exchange.transactTimeNs \in Int
    BY DEF IInv, Happened, ExchangeOrder
  <1>2. ViewComplete => view # None /\ view.time >= update.update_time_utc
    BY <1>1 DEF ViewComplete, IInv, Happened
  <1>3. QED
    BY <1>2 DEF Kept, IInv

\* The paths differ in the prices, not in the status and its time.
LEMMA AckTells ==
    ASSUME IInv, NEW reply \in replies, reply.order # None
    PROVE  /\ Ack(reply).order_status = MapOrderStatus(reply.order.ordStatus)
           /\ Ack(reply).update_time_utc = reply.order.transactTimeNs
           /\ reply.order.transactTimeNs \in Int
  <1>1. reply.order \in ExchangeOrder
    BY DEF IInv
  <1>2. /\ api \in {"USD_M", "COIN_M"}
        /\ reply.type \in {"create", "cancel", "query"}
    BY DEF IInv
  <1>3. /\ Ack(reply).order_status = MapOrderStatus(Message(reply.order).ordStatus)
        /\ Ack(reply).update_time_utc = Message(reply.order).transactTimeNs
    BY <1>2 DEF Ack, OrderUpdate, CreateAckUsdM, CancelAckUsdM, GetOrderAckUsdM,
                CreateAckCoinM, CancelAckCoinM, GetOrderAckCoinM
  <1>4. QED
    BY <1>1, <1>3, MessageTells

LEMMA FeedTells ==
    ASSUME NEW m, NEW type
    PROVE  /\ FeedOrder(m, type).order_status = MapOrderStatus(m.ordStatus)
           /\ FeedOrder(m, type).update_time_utc = m.transactTimeNs
  BY DEF FeedOrder, FeedOrderUsdM, FeedOrderCoinM, OrderUpdate

\* A step of the gateway: what is on its way was on its way or has happened.
LEMMA GatewayStep ==
    ASSUME IInv, UNCHANGED <<api, exchange, before>>,
           "create" \in travelling' => exchange = None,
           feed' \in [up : BOOLEAN, queue : Seq(AopMessage)],
           \A i \in DOMAIN feed'.queue : \A m \in feed'.queue[i].orders : HasHappened(m),
           \A reply \in replies' :
              \/ reply \in replies
              \/ reply = [type |-> "query", order |-> exchange],
           view' # None => view'.time \in Int /\ Happened(view'.order_status, view'.time)
    PROVE  IInv'
  <1>1. exchange # None => HasHappened(exchange)
    BY NowHappened DEF IInv
  <1>2. \A reply \in replies' :
          /\ reply.order \in ExchangeOrder \union {None}
          /\ reply.type \in {"create", "cancel", "query"}
          /\ reply.order # None => HasHappened(reply.order)
    BY <1>1 DEF IInv
  <1>3. QED
    BY <1>2 DEF IInv, HasHappened, Happened, Ended

LEMMA OrderAckStep ==
    ASSUME IInv, NEW reply \in replies, OrderAck(reply)
    PROVE  IInv' /\ (ViewComplete => view' = view)
  <1>1. /\ Ack(reply).update_time_utc \in Int
        /\ Happened(Ack(reply).order_status, Ack(reply).update_time_utc)
    BY AckTells DEF OrderAck, IInv, HasHappened
  <1>2. view' = Kept(Ack(reply))
    BY DEF OrderAck
  <1>3. view' # None => view'.time \in Int /\ Happened(view'.order_status, view'.time)
    BY <1>1, <1>2, KeptHappened
  <1>4. IInv'
    BY <1>3, GatewayStep DEF OrderAck, exchangeVars, IInv
  <1>5. QED
    BY <1>1, <1>2, <1>4, KeptHappened

LEMMA FeedStep ==
    ASSUME IInv, AccountsOrdersPositions
    PROVE  IInv' /\ (ViewComplete => view' = view)
  <1> DEFINE message == Head(feed.queue)
  <1>1. /\ feed.queue \in Seq(AopMessage) /\ feed.queue # <<>>
        /\ feed \in [up : BOOLEAN, queue : Seq(AopMessage)]
    BY DEF AccountsOrdersPositions, IInv
  <1>2. /\ 1 \in DOMAIN feed.queue /\ message = feed.queue[1] /\ message \in AopMessage
        /\ Tail(feed.queue) \in Seq(AopMessage)
    BY <1>1
  <1>3. ASSUME NEW m \in message.orders
        PROVE  m.transactTimeNs \in Int /\ HasHappened(m)
    <2>1. PICK order \in ExchangeOrder : m = Message(order)
      BY <1>2, AopOrders
    <2>2. m.transactTimeNs \in Int
      BY <2>1, MessageTells
    <2>3. QED
      BY <1>2, <2>2 DEF IInv
  <1>4. \/ view' = view
        \/ \E m \in message.orders : view' = Kept(FeedOrder(m, message.type))
    BY DEF AccountsOrdersPositions, Reported, omsVars
  <1>5. /\ view' # None => view'.time \in Int /\ Happened(view'.order_status, view'.time)
        /\ ViewComplete => view' = view
    <2>1. CASE view' = view
      BY <2>1 DEF IInv
    <2>2. ASSUME NEW m \in message.orders, view' = Kept(FeedOrder(m, message.type))
          PROVE  /\ view' # None => view'.time \in Int /\ Happened(view'.order_status, view'.time)
                 /\ ViewComplete => view' = view
      <3>1. /\ FeedOrder(m, message.type).update_time_utc \in Int
            /\ Happened(FeedOrder(m, message.type).order_status,
                        FeedOrder(m, message.type).update_time_utc)
        BY <1>3, FeedTells DEF HasHappened
      <3>2. QED
        BY <2>2, <3>1, KeptHappened
    <2>3. QED
      BY <1>4, <2>1, <2>2
  <1>6. feed' = [feed EXCEPT !.queue = Tail(feed.queue)]
    BY DEF AccountsOrdersPositions
  <1>7. /\ feed' \in [up : BOOLEAN, queue : Seq(AopMessage)]
        /\ feed'.queue = Tail(feed.queue)
    BY <1>1, <1>2, <1>6
  <1>8. \A i \in DOMAIN feed'.queue : \A m \in feed'.queue[i].orders : HasHappened(m)
    <2>1. \A i \in DOMAIN feed'.queue :
            i + 1 \in DOMAIN feed.queue /\ feed'.queue[i] = feed.queue[i + 1]
      BY <1>1, <1>7
    <2>2. QED
      BY <2>1 DEF IInv
  <1>9. IInv'
    BY <1>5, <1>7, <1>8, GatewayStep DEF AccountsOrdersPositions, exchangeVars, IInv
  <1>10. QED
    BY <1>5, <1>9

LEMMA SubscribedStep == ASSUME IInv, Subscribed PROVE IInv' /\ UNCHANGED view
  <1>1. exchange # None => HasHappened(exchange)
    BY NowHappened DEF IInv
  <1>2. before + Filled \in Int
    BY DEF IInv, Filled, ExchangeOrder
  <1> DEFINE message == Aop("SNAPSHOT", exchange, before + Filled)
  <1>3. message \in AopMessage /\ \A m \in message.orders : HasHappened(m)
    BY <1>1, <1>2, AopHappened DEF IInv
  <1>4. feed' = [up |-> TRUE, queue |-> <<message>>]
    BY DEF Subscribed
  <1> HIDE DEF message
  <1>5. feed' \in [up : BOOLEAN, queue : Seq(AopMessage)]
    BY <1>3, <1>4
  <1>6. \A i \in DOMAIN feed'.queue : feed'.queue[i] = message
    BY <1>4
  <1>7. \A i \in DOMAIN feed'.queue : \A m \in feed'.queue[i].orders : HasHappened(m)
    BY <1>3, <1>6
  <1>8. view' # None => view'.time \in Int /\ Happened(view'.order_status, view'.time)
    BY DEF Subscribed, omsVars, IInv
  <1>9. QED
    BY <1>5, <1>7, <1>8, GatewayStep DEF Subscribed, exchangeVars, omsVars, IInv

\* The other steps of the gateway tell nothing and take nothing from the feed.
LEMMA OtherSteps ==
    ASSUME IInv,
           \/ ExecuteQuery \/ OrdersCreate \/ OrdersCancel
           \/ \E reply \in replies : ErrorAck(reply)
           \/ GetOrder \/ GetUserFills \/ GetUserFillsAck
           \/ Disconnected \/ CheckStaleOrders \/ ProductsAck
           \/ UNCHANGED vars
    PROVE  IInv' /\ UNCHANGED view
  <1>1. /\ UNCHANGED <<api, exchange, before, view>>
        /\ feed' \in {feed, [up |-> FALSE, queue |-> <<>>]}
        /\ "create" \in travelling' => exchange = None
        /\ \A reply \in replies' :
              reply \in replies \/ reply = [type |-> "query", order |-> exchange]
    BY DEF IInv, ExecuteQuery, OrdersCreate, OrdersCancel, ErrorAck, GetOrder, GetUserFills,
           GetUserFillsAck, Disconnected, CheckStaleOrders, ProductsAck, vars, exchangeVars, omsVars
  <1>2. /\ feed' \in [up : BOOLEAN, queue : Seq(AopMessage)]
        /\ \A i \in DOMAIN feed'.queue : \A m \in feed'.queue[i].orders : HasHappened(m)
    <2>1. CASE feed' = feed
      BY <2>1 DEF IInv
    <2>2. CASE feed' = [up |-> FALSE, queue |-> <<>>]
      BY <2>2
    <2>3. QED
      BY <1>1, <2>1, <2>2
  <1>3. view' # None => view'.time \in Int /\ Happened(view'.order_status, view'.time)
    BY <1>1 DEF IInv
  <1>4. QED
    BY <1>1, <1>2, <1>3, GatewayStep

LEMMA InvariantStep == IInv /\ [Next]_vars => IInv' /\ (ViewComplete => view' = view)
  <1> SUFFICES ASSUME IInv, [Next]_vars PROVE IInv' /\ (ViewComplete => view' = view)
    OBVIOUS
  <1>1. CASE ExecuteCreate \/ Book \/ Fill \/ ExecuteCancel \/ Canceled
    BY <1>1, ExchangeSteps
  <1>2. ASSUME NEW reply \in replies, OrderAck(reply)
        PROVE  IInv' /\ (ViewComplete => view' = view)
    BY <1>2, OrderAckStep
  <1>3. CASE AccountsOrdersPositions
    BY <1>3, FeedStep
  <1>4. CASE Subscribed
    BY <1>4, SubscribedStep
  <1>5. CASE \/ ExecuteQuery \/ OrdersCreate \/ OrdersCancel
             \/ \E reply \in replies : ErrorAck(reply)
             \/ GetOrder \/ GetUserFills \/ GetUserFillsAck
             \/ Disconnected \/ CheckStaleOrders \/ ProductsAck
             \/ UNCHANGED vars
    BY <1>5, OtherSteps
  <1>6. QED
    BY <1>1, <1>2, <1>3, <1>4, <1>5 DEF Next

\* A complete order stays as it is, in whatever order answers, feed and queries
\* tell of it, whatever was lost in between, and for any quantity.
THEOREM CompleteForGood == Spec => NeverBack
  <1>1. IInv /\ [Next]_vars => IInv'
    BY InvariantStep
  <1>2. IInv /\ [Next]_vars => [ViewComplete => ViewComplete']_vars
    BY InvariantStep DEF ViewComplete
  <1>3. QED
    BY <1>1, <1>2, InvariantInit, PTL DEF Spec, NeverBack

-----------------------------------------------------------------------------
(* The fills.                                                               *)

\* The message tells of the execution that makes so many filled.
Brings(message, number) ==
    /\ message.type = "INCREMENTAL"
    /\ \E m \in message.orders : IsTrade(m) /\ m.cumQty = number

\* The inductive invariant behind FillsToldOnce: the executions that are on their
\* way follow the one that was told last, in their order; and if the feed was
\* never down, none of them is missing.
FillsInv ==
    /\ told \in 0 .. Filled
    /\ exchange # None /\ exchange.ordStatus = "CREATED" => exchange.cumQty = 0
    /\ \A i \in DOMAIN feed.queue, number \in Int :
          Brings(feed.queue[i], number) => number \in told + 1 .. Filled
    /\ \A i, j \in DOMAIN feed.queue, a, b \in Int :
          i < j /\ Brings(feed.queue[i], a) /\ Brings(feed.queue[j], b) => a < b
    /\ own => Found
    /\ own /\ ~gap =>
         /\ exchange # None => feed.up
         /\ \A number \in told + 1 .. Filled :
               \E i \in DOMAIN feed.queue : Brings(feed.queue[i], number)

LEMMA FilledType == IInv => Filled \in Int
  BY OrderIsSome DEF IInv, Filled, ExchangeOrder

\* A message about the order brings its last execution, unless it is a snapshot.
LEMMA AopBrings ==
    ASSUME NEW type, NEW order \in ExchangeOrder, NEW quantity, NEW number
    PROVE  Brings(Aop(type, order, quantity), number)
             <=> type = "INCREMENTAL" /\ order.tradeType = "TRADE" /\ order.cumQty = number
  <1>1. /\ Aop(type, order, quantity).type = type
        /\ Aop(type, order, quantity).orders = {Message(order)}
    BY OrderIsSome DEF Aop
  <1>2. Message(order).tradeType = order.tradeType /\ Message(order).cumQty = order.cumQty
    BY DEF Message
  <1>3. QED
    BY <1>1, <1>2 DEF Brings, IsTrade

LEMMA BringsOne ==
    ASSUME NEW message \in AopMessage, NEW a, NEW b, Brings(message, a), Brings(message, b)
    PROVE  a = b
  BY OneOrder DEF Brings

\* What is told as new is what the message brings, once the product is known.
LEMMA NewFillsTold ==
    ASSUME NEW message \in AopMessage
    PROVE  /\ NewFills(message) # {} => \E number \in Int : Brings(message, number)
           /\ Found /\ (\E number \in Int : Brings(message, number)) => NewFills(message) # {}
  <1>1. message.type \in {"SNAPSHOT", "INCREMENTAL"}
    BY DEF AopMessage, Aop
  <1>2. \A m \in message.orders : m.cumQty \in Int
    BY AopOrders DEF Message, ExchangeOrder
  <1>3. \A m : FeedTrade(m, message.type).update_type = MapEventType(message.type)
    BY DEF FeedTrade, TradeUpdateUsdM, TradeUpdateCoinM, TradeUpdate
  <1>4. MapEventType(message.type) = message.type
    BY <1>1 DEF MapEventType
  <1>5. Reported(message) \subseteq message.orders
    BY DEF Reported
  <1>6. Found /\ message.type = "INCREMENTAL" => Reported(message) = message.orders
    BY <1>4 DEF Reported, Skipped
  <1>7. ASSUME NewFills(message) # {} PROVE \E number \in Int : Brings(message, number)
    <2>1. PICK m \in Reported(message) : IsTrade(m) /\ MapEventType(message.type) = "INCREMENTAL"
      BY <1>3, <1>7 DEF NewFills
    <2>2. QED
      BY <1>2, <1>4, <1>5, <2>1 DEF Brings
  <1>8. ASSUME Found, NEW number \in Int, Brings(message, number) PROVE NewFills(message) # {}
    <2>1. PICK m \in message.orders : IsTrade(m) /\ message.type = "INCREMENTAL"
      BY <1>8 DEF Brings
    <2>2. m \in Reported(message)
      BY <1>6, <1>8, <2>1
    <2>3. FeedTrade(m, message.type) \in NewFills(message)
      BY <1>3, <1>4, <2>1, <2>2 DEF NewFills
    <2>4. QED
      BY <2>3
  <1>9. QED
    BY <1>7, <1>8

LEMMA Pushed ==
    ASSUME IInv, Push(exchange'), exchange' \in ExchangeOrder
    PROVE  LET message == Aop("INCREMENTAL", exchange', before + exchange'.cumQty)
           IN  /\ message \in AopMessage
               /\ feed'.up = feed.up
               /\ ~feed.up => feed' = feed
               /\ feed.up =>
                    /\ Len(feed'.queue) = Len(feed.queue) + 1
                    /\ DOMAIN feed'.queue = 1 .. Len(feed.queue) + 1
                    /\ DOMAIN feed.queue = 1 .. Len(feed.queue)
                    /\ Len(feed.queue) \in Nat
                    /\ feed'.queue[Len(feed.queue) + 1] = message
                    /\ \A i \in DOMAIN feed.queue : feed'.queue[i] = feed.queue[i]
  <1> DEFINE message == Aop("INCREMENTAL", exchange', before + exchange'.cumQty)
  <1>1. before + exchange'.cumQty \in Int
    BY DEF IInv, ExchangeOrder
  <1>2. message \in AopMessage
    BY <1>1 DEF AopMessage
  <1>3. feed' = IF feed.up THEN [feed EXCEPT !.queue = Append(feed.queue, message)] ELSE feed
    BY DEF Push
  <1> HIDE DEF message
  <1>4. feed \in [up : BOOLEAN, queue : Seq(AopMessage)]
    BY DEF IInv
  <1>5. feed.up => feed'.up = feed.up /\ feed'.queue = Append(feed.queue, message)
    BY <1>3, <1>4
  <1>6. ~feed.up => feed' = feed
    BY <1>3
  <1>7. feed.queue \in Seq(AopMessage)
    BY <1>4
  <1>8. QED
    BY <1>2, <1>5, <1>6, <1>7 DEF message

\* An event at the exchange that the feed tells of.
LEMMA FillsPushed ==
    ASSUME IInv, IInv', FillsInv, exchange # None, exchange' \in ExchangeOrder,
           exchange'.ordStatus # "CREATED", Push(exchange'),
           \/ exchange'.tradeType = "TRADE" /\ exchange'.cumQty = exchange.cumQty + 1
           \/ exchange'.tradeType # "TRADE" /\ exchange'.cumQty = exchange.cumQty,
           gap' = (gap \/ ~feed.up), UNCHANGED <<api, security, own, told>>
    PROVE  FillsInv'
  <1> DEFINE message == Aop("INCREMENTAL", exchange', before + exchange'.cumQty)
             last == Len(feed.queue) + 1
  <1>1. \A number : Brings(message, number)
                      <=> exchange'.tradeType = "TRADE" /\ exchange'.cumQty = number
    BY AopBrings
  <1>2. /\ feed'.up = feed.up
        /\ ~feed.up => feed' = feed
        /\ feed.up =>
             /\ DOMAIN feed'.queue = 1 .. last /\ DOMAIN feed.queue = 1 .. last - 1 /\ last \in Nat \ {0}
             /\ feed'.queue[last] = message
             /\ \A i \in DOMAIN feed.queue : feed'.queue[i] = feed.queue[i]
    BY Pushed
  <1> HIDE DEF message, last
  <1>3. /\ Filled \in Int /\ Filled' = exchange'.cumQty /\ Filled' \in {Filled, Filled + 1}
        /\ exchange'.tradeType = "TRADE" <=> Filled' = Filled + 1
    <2>1. exchange' # None
      BY OrderIsSome
    <2>2. QED
      BY <2>1, FilledType DEF Filled
  <1>4. told' \in 0 .. Filled'
    BY <1>3 DEF FillsInv
  <1>5. ASSUME NEW i \in DOMAIN feed'.queue, NEW number \in Int, Brings(feed'.queue[i], number)
        PROVE  /\ number \in told + 1 .. Filled'
               /\ i \in DOMAIN feed.queue => Brings(feed.queue[i], number) /\ number <= Filled
               /\ i \notin DOMAIN feed.queue =>
                    feed.up /\ i = last /\ number = Filled + 1
    <2>1. CASE i \in DOMAIN feed.queue
      <3>1. Brings(feed.queue[i], number)
        BY <1>2, <1>5, <2>1
      <3>2. number \in told + 1 .. Filled
        BY <2>1, <3>1 DEF FillsInv
      <3>3. told \in Int
        BY <1>3 DEF FillsInv
      <3>4. QED
        BY <1>3, <2>1, <3>1, <3>2, <3>3
    <2>2. CASE i \notin DOMAIN feed.queue
      <3>1. feed.up
        BY <1>2, <2>2
      <3>2. i = last
        BY <1>2, <2>2, <3>1
      <3>3. number = Filled + 1 /\ Filled' = Filled + 1
        BY <1>1, <1>2, <1>3, <1>5, <3>1, <3>2
      <3>4. QED
        BY <1>3, <2>2, <3>1, <3>2, <3>3 DEF FillsInv
    <2>3. QED
      BY <2>1, <2>2
  <1>6. ASSUME NEW i \in DOMAIN feed'.queue, NEW j \in DOMAIN feed'.queue,
               NEW a \in Int, NEW b \in Int,
               i < j, Brings(feed'.queue[i], a), Brings(feed'.queue[j], b)
        PROVE  a < b
    <2>1. i \in DOMAIN feed.queue
      <3>1. CASE feed.up
        <4>1. i \in 1 .. last /\ j \in 1 .. last
          BY <1>2, <3>1
        <4>2. QED
          BY <1>2, <1>6, <3>1, <4>1
      <3>2. CASE ~feed.up
        BY <1>2, <3>2
      <3>3. QED
        BY <3>1, <3>2
    <2>2. Brings(feed.queue[i], a) /\ a <= Filled
      BY <1>5, <1>6, <2>1
    <2>3. CASE j \in DOMAIN feed.queue
      <3>1. Brings(feed.queue[j], b)
        BY <1>5, <1>6, <2>3
      <3>2. QED
        BY <1>6, <2>1, <2>2, <2>3, <3>1 DEF FillsInv
    <2>4. CASE j \notin DOMAIN feed.queue
      <3>1. b = Filled + 1
        BY <1>5, <1>6, <2>4
      <3>2. QED
        BY <1>3, <2>2, <3>1
    <2>5. QED
      BY <2>3, <2>4
  <1>7. ASSUME own, ~gap'
        PROVE  /\ feed'.up
               /\ \A number \in told + 1 .. Filled' :
                     \E i \in DOMAIN feed'.queue : Brings(feed'.queue[i], number)
    <2>1. feed.up /\ ~gap
      BY <1>7
    <2>2. ASSUME NEW number \in told + 1 .. Filled'
          PROVE  \E i \in DOMAIN feed'.queue : Brings(feed'.queue[i], number)
      <3>1. number \in told + 1 .. Filled \/ (number = Filled' /\ Filled' = Filled + 1)
        BY <1>3 DEF FillsInv
      <3>2. CASE number \in told + 1 .. Filled
        <4>1. PICK i \in DOMAIN feed.queue : Brings(feed.queue[i], number)
          BY <1>7, <2>1, <3>2 DEF FillsInv
        <4>2. i \in DOMAIN feed'.queue /\ feed'.queue[i] = feed.queue[i]
          BY <1>2, <2>1
        <4>3. QED
          BY <4>1, <4>2
      <3>3. CASE number = Filled' /\ Filled' = Filled + 1
        <4>1. Brings(message, number)
          BY <1>1, <1>3, <3>3
        <4>2. last \in DOMAIN feed'.queue /\ feed'.queue[last] = message
          BY <1>2, <2>1
        <4>3. QED
          BY <4>1, <4>2
      <3>4. QED
        BY <3>1, <3>2, <3>3
    <2>3. QED
      BY <1>2, <2>1, <2>2
  <1>8. own => Found'
    BY DEF FillsInv, Found
  <1>9. QED
    BY <1>4, <1>5, <1>6, <1>7, <1>8 DEF FillsInv, Brings

\* The exchange and what was told stay: what is missing may only grow less.
LEMMA FillsKept ==
    ASSUME FillsInv, UNCHANGED <<api, feed, told, own>>, security => security',
           gap' = (gap \/ ~feed.up), Filled' = Filled,
           exchange' # None /\ exchange'.ordStatus = "CREATED" => exchange'.cumQty = 0
    PROVE  FillsInv'
  <1>1. own' => Found'
    BY DEF FillsInv, Found
  <1>2. own' /\ ~gap' => own /\ ~gap /\ feed.up
    OBVIOUS
  <1>3. \A message, number : Brings(message, number)' = Brings(message, number)
    BY DEF Brings
  <1>4. QED
    BY <1>1, <1>2, <1>3 DEF FillsInv

LEMMA FillsExchange ==
    ASSUME IInv, IInv', FillsInv, ExecuteCreate \/ Book \/ Fill \/ ExecuteCancel \/ Canceled
    PROVE  FillsInv'
  <1> USE DEF Happens
  <1>1. CASE ExecuteCreate
    <2>1. exchange = None /\ exchange' = Order("CREATED", 0, 1)
      BY <1>1 DEF ExecuteCreate, IInv
    <2>2. exchange'.cumQty = 0 /\ exchange' # None
      BY <2>1, OrderType DEF Order
    <2>3. QED
      BY <1>1, <2>1, <2>2, FillsKept DEF ExecuteCreate, Filled
  <1>2. CASE Book \/ Fill \/ Canceled
    BY <1>2, Events, FillsPushed DEF FillsInv
  <1>3. CASE ExecuteCancel
    <2>1. exchange' = exchange \/ (exchange' # None /\ exchange # None /\ exchange'.cumQty = exchange.cumQty
                                  /\ exchange'.ordStatus # "CREATED")
      BY <1>3, CancelAccepted, OrderIsSome
    <2>2. Filled' = Filled /\ (exchange' # None /\ exchange'.ordStatus = "CREATED" => exchange'.cumQty = 0)
      BY <2>1 DEF Filled, FillsInv
    <2>3. QED
      BY <1>3, <2>2, FillsKept DEF ExecuteCancel
  <1>4. QED
    BY <1>1, <1>2, <1>3

\* The first message is taken: it brings the execution after the one told last.
LEMMA FillsTaken ==
    ASSUME IInv, FillsInv, AccountsOrdersPositions
    PROVE  FillsInv'
  <1> DEFINE message == Head(feed.queue)
  <1>1. /\ feed.queue \in Seq(AopMessage) /\ feed.queue # <<>>
        /\ feed \in [up : BOOLEAN, queue : Seq(AopMessage)]
        /\ feed' = [feed EXCEPT !.queue = Tail(feed.queue)]
    BY DEF AccountsOrdersPositions, IInv
  <1>2. /\ 1 \in DOMAIN feed.queue /\ message = feed.queue[1] /\ message \in AopMessage
        /\ feed'.queue = Tail(feed.queue) /\ feed'.up = feed.up
        /\ DOMAIN feed.queue \subseteq Nat \ {0} /\ DOMAIN feed'.queue \subseteq Nat \ {0}
        /\ \A i \in DOMAIN feed'.queue :
              i + 1 \in DOMAIN feed.queue /\ feed'.queue[i] = feed.queue[i + 1]
        /\ \A i \in DOMAIN feed.queue :
              i # 1 => i - 1 \in DOMAIN feed'.queue /\ feed'.queue[i - 1] = feed.queue[i]
    BY <1>1
  <1>3. told' = told + (IF NewFills(message) = {} THEN 0 ELSE 1)
        /\ UNCHANGED <<api, security, own, exchange, gap>>
    BY DEF AccountsOrdersPositions, exchangeVars
  <1>4. Filled' = Filled /\ Filled \in Int /\ told \in Int
    BY <1>3, FilledType DEF Filled, FillsInv
  <1> HIDE DEF message
  <1>5. CASE NewFills(message) = {}
    <2>1. told' = told
      BY <1>3, <1>4, <1>5
    <2>2. ASSUME own', ~gap'
          PROVE  /\ exchange' # None => feed'.up
                 /\ \A number \in told' + 1 .. Filled' :
                       \E i \in DOMAIN feed'.queue : Brings(feed'.queue[i], number)
      <3>1. own /\ ~gap /\ Found
        BY <1>3, <2>2 DEF FillsInv
      <3>2. ASSUME NEW number \in told + 1 .. Filled
            PROVE  \E i \in DOMAIN feed'.queue : Brings(feed'.queue[i], number)
        <4>1. PICK i \in DOMAIN feed.queue : Brings(feed.queue[i], number)
          BY <3>1 DEF FillsInv
        <4>2. i # 1
          BY <1>2, <1>4, <1>5, <3>1, <4>1, NewFillsTold
        <4>3. QED
          BY <1>2, <4>1, <4>2
      <3>3. QED
        BY <1>2, <1>3, <1>4, <2>1, <3>1, <3>2 DEF FillsInv
    <2>3. QED
      BY <1>2, <1>3, <1>4, <2>1, <2>2 DEF FillsInv, Found
  <1>6. CASE NewFills(message) # {}
    <2>1. told' = told + 1
      BY <1>3, <1>6
    <2>2. PICK first \in Int : Brings(feed.queue[1], first)
      BY <1>2, <1>6, NewFillsTold
    <2>3. first \in told + 1 .. Filled
      BY <1>2, <2>2 DEF FillsInv
    <2>4. ASSUME NEW i \in DOMAIN feed'.queue, NEW number \in Int, Brings(feed'.queue[i], number)
          PROVE  number \in told' + 1 .. Filled'
      <3>1. i + 1 \in DOMAIN feed.queue /\ Brings(feed.queue[i + 1], number) /\ 1 < i + 1
        BY <1>2, <2>4
      <3>2. first < number /\ number \in told + 1 .. Filled
        BY <1>2, <2>2, <3>1 DEF FillsInv
      <3>3. QED
        BY <1>4, <2>1, <2>3, <3>2
    <2>5. ASSUME own', ~gap'
          PROVE  /\ exchange' # None => feed'.up
                 /\ \A number \in told' + 1 .. Filled' :
                       \E i \in DOMAIN feed'.queue : Brings(feed'.queue[i], number)
      <3>1. own /\ ~gap
        BY <1>3, <2>5
      <3>2. first = told + 1
        <4>1. PICK i \in DOMAIN feed.queue : Brings(feed.queue[i], told + 1)
          BY <1>4, <2>3, <3>1 DEF FillsInv
        <4>2. CASE i = 1
          BY <1>2, <2>2, <4>1, <4>2, BringsOne
        <4>3. CASE i # 1
          <5>1. 1 < i /\ told + 1 \in Int
            BY <1>2, <1>4, <4>3
          <5>2. first < told + 1
            BY <1>2, <2>2, <4>1, <5>1 DEF FillsInv
          <5>3. QED
            BY <1>4, <2>3, <5>2
        <4>4. QED
          BY <4>2, <4>3
      <3>3. ASSUME NEW number \in told' + 1 .. Filled
            PROVE  \E i \in DOMAIN feed'.queue : Brings(feed'.queue[i], number)
        <4>1. number \in told + 1 .. Filled /\ number # first
          BY <1>4, <2>1, <3>2, <3>3
        <4>2. PICK i \in DOMAIN feed.queue : Brings(feed.queue[i], number)
          BY <3>1, <4>1 DEF FillsInv
        <4>3. i # 1
          BY <1>2, <2>2, <4>1, <4>2, BringsOne
        <4>4. QED
          BY <1>2, <4>2, <4>3
      <3>4. QED
        BY <1>2, <1>3, <1>4, <3>1, <3>3 DEF FillsInv
    <2>6. told' \in 0 .. Filled'
      BY <1>4, <2>1, <2>3 DEF FillsInv
    <2>7. \A i, j \in DOMAIN feed'.queue, a, b \in Int :
             i < j /\ Brings(feed'.queue[i], a) /\ Brings(feed'.queue[j], b) => a < b
      <3> SUFFICES ASSUME NEW i \in DOMAIN feed'.queue, NEW j \in DOMAIN feed'.queue,
                          NEW a \in Int, NEW b \in Int,
                          i < j, Brings(feed'.queue[i], a), Brings(feed'.queue[j], b)
                   PROVE  a < b
        OBVIOUS
      <3>1. /\ i + 1 \in DOMAIN feed.queue /\ Brings(feed.queue[i + 1], a)
            /\ j + 1 \in DOMAIN feed.queue /\ Brings(feed.queue[j + 1], b)
            /\ i + 1 < j + 1
        BY <1>2
      <3>2. QED
        BY <3>1 DEF FillsInv
    <2>8. QED
      BY <1>2, <1>3, <1>4, <2>4, <2>5, <2>6, <2>7 DEF FillsInv, Found
  <1>7. QED
    BY <1>5, <1>6

\* The feed is subscribed again: a snapshot brings no execution.
LEMMA FillsSubscribed ==
    ASSUME IInv, FillsInv, Subscribed
    PROVE  FillsInv'
  <1> DEFINE message == Aop("SNAPSHOT", exchange, before + Filled)
  <1>1. /\ ~feed.up /\ feed' = [up |-> TRUE, queue |-> <<message>>]
        /\ UNCHANGED <<api, security, own, exchange, told, gap>>
    BY DEF Subscribed, exchangeVars
  <1>2. \A number : ~Brings(message, number)
    BY DEF Brings, Aop
  <1> HIDE DEF message
  <1>3. feed'.up /\ \A i \in DOMAIN feed'.queue : feed'.queue[i] = message
    BY <1>1
  <1>4. Filled' = Filled
    BY <1>1 DEF Filled
  <1>5. own /\ ~gap => told + 1 .. Filled = {}
    <2> SUFFICES ASSUME own, ~gap PROVE told + 1 .. Filled = {}
      OBVIOUS
    <2>1. exchange = None
      BY <1>1 DEF FillsInv
    <2>2. Filled = 0 /\ told = 0
      BY <2>1 DEF Filled, FillsInv
    <2>3. QED
      BY <2>2
  <1>6. QED
    BY <1>1, <1>2, <1>3, <1>4, <1>5 DEF FillsInv, Found

\* What was on its way is lost, and so are the executions in it.
LEMMA FillsDisconnected ==
    ASSUME IInv, FillsInv, Disconnected
    PROVE  FillsInv'
  <1>1. /\ feed' = [up |-> FALSE, queue |-> <<>>]
        /\ gap' = (gap \/ (own /\ view = None) \/ exchange # None)
        /\ UNCHANGED <<api, security, own, exchange, told, view>>
    BY DEF Disconnected, exchangeVars
  <1>2. DOMAIN feed'.queue = {}
    BY <1>1
  <1>3. Filled' = Filled
    BY <1>1 DEF Filled
  <1>4. own => gap'
    BY <1>1 DEF IInv, Happened
  <1>5. QED
    BY <1>1, <1>2, <1>3, <1>4 DEF FillsInv, Found

LEMMA FillsOther ==
    ASSUME FillsInv, UNCHANGED <<api, exchange, feed, told, gap>>, security => security',
           own' = own \/ (own' = TRUE /\ exchange = None /\ CanCreate)
    PROVE  FillsInv'
  <1>1. Filled' = Filled
    BY DEF Filled
  <1>2. own' => Found'
    BY DEF FillsInv, Found, CanCreate
  <1>3. own' /\ ~own => told + 1 .. Filled = {} /\ exchange = None
    <2> SUFFICES ASSUME exchange = None PROVE told + 1 .. Filled = {}
      OBVIOUS
    <2>1. Filled = 0 /\ told = 0
      BY DEF Filled, FillsInv
    <2>2. QED
      BY <2>1
  <1>4. own' /\ ~gap' =>
           /\ exchange # None => feed.up
           /\ \A number \in told + 1 .. Filled :
                 \E i \in DOMAIN feed.queue : Brings(feed.queue[i], number)
    BY <1>3 DEF FillsInv
  <1>5. QED
    BY <1>1, <1>2, <1>4 DEF FillsInv

LEMMA FillsStep == IInv /\ IInv' /\ FillsInv /\ [Next]_vars => FillsInv'
  <1> SUFFICES ASSUME IInv, IInv', FillsInv, [Next]_vars PROVE FillsInv'
    OBVIOUS
  <1> USE DEF exchangeVars
  <1>1. CASE ExecuteCreate \/ Book \/ Fill \/ ExecuteCancel \/ Canceled
    BY <1>1, FillsExchange
  <1>2. CASE AccountsOrdersPositions
    BY <1>2, FillsTaken
  <1>3. CASE Subscribed
    BY <1>3, FillsSubscribed
  <1>4. CASE Disconnected
    BY <1>4, FillsDisconnected
  <1>5. CASE OrdersCreate
    BY <1>5, FillsOther DEF OrdersCreate
  <1>6. CASE \/ ExecuteQuery \/ OrdersCancel
             \/ \E reply \in replies : OrderAck(reply) \/ ErrorAck(reply)
             \/ GetOrder \/ GetUserFills \/ GetUserFillsAck
             \/ CheckStaleOrders \/ ProductsAck
             \/ UNCHANGED vars
    <2>1. UNCHANGED <<api, exchange, feed, told, gap>> /\ own' = own /\ security' \in {security, TRUE}
      BY <1>6
      DEF ExecuteQuery, OrdersCancel, OrderAck, ErrorAck, GetOrder, GetUserFills,
          GetUserFillsAck, CheckStaleOrders, ProductsAck, vars
    <2>2. security => security'
      BY <2>1
    <2>3. QED
      BY <2>1, <2>2, FillsOther
  <1>7. QED
    BY <1>1, <1>2, <1>3, <1>4, <1>5, <1>6 DEF Next

LEMMA FillsInit == Init => FillsInv
  <1> SUFFICES ASSUME Init PROVE FillsInv
    OBVIOUS
  <1>1. Order("NEW", 0, 2).cumQty = 0 /\ Order("NEW", 0, 2).ordStatus = "NEW"
    BY DEF Order
  <1>2. Filled = 0
    BY <1>1 DEF Init, Filled
  <1>3. DOMAIN feed.queue = {}
    BY DEF Init
  <1>4. QED
    BY <1>1, <1>2, <1>3 DEF Init, FillsInv

\* No fill is told twice as new, whatever sessions and snapshots repeat it; and
\* each was told if the feed was never down.
THEOREM EachFillOnce == Spec => []FillsToldOnce
  <1>1. Init => FillsInv
    BY FillsInit
  <1>2. IInv /\ FillsInv => FillsToldOnce
    <2> SUFFICES ASSUME IInv, FillsInv PROVE FillsToldOnce
      OBVIOUS
    <2>1. Filled \in Int /\ told \in 0 .. Filled
      BY FilledType DEF FillsInv
    <2>2. ASSUME Quiet, own, ~gap PROVE told = Filled
      <3>1. \A number \in told + 1 .. Filled : FALSE
        BY <2>2 DEF FillsInv, Quiet
      <3>2. QED
        BY <2>1, <3>1
    <2>3. QED
      BY <2>1, <2>2 DEF FillsToldOnce
  <1>3. IInv /\ [Next]_vars => IInv'
    BY InvariantStep
  <1>4. QED
    BY <1>1, <1>2, <1>3, FillsStep, InvariantInit, PTL DEF Spec

-----------------------------------------------------------------------------
(* Funds and position.                                                      *)

Tells(message, quantity) ==
    /\ message.positions = {PositionItem(quantity)}
    /\ message.accounts = {AccountItem(quantity)}

\* When the clients are to know them, see AccountAgrees.
Owed == api = "USD_M" \/ (own /\ Filled > 0)

PositionOwed == api = "USD_M" /\ before + Filled \notin Owing

\* The inductive invariant behind AccountAgrees: the last message of the session
\* has them as they are, or it was told.
AccountInv ==
    feed.up /\ Owed =>
        /\ feed.queue = <<>> =>
             /\ funds = Balance(before + Filled)
             /\ PositionOwed => position = Signed(before + Filled)
        /\ feed.queue # <<>> => Tells(feed.queue[Len(feed.queue)], before + Filled)

LEMMA ProductQuotient ==
    ASSUME NEW x \in Int, NEW n \in Nat \ {0}
    PROVE  (x * n) \div n = x
  OBVIOUS

\* A side and a size give the position back, long or short; scaled funds give
\* the balance back.
LEMMA ItemsTold ==
    ASSUME api \in {"USD_M", "COIN_M"}, Found, NEW message, NEW quantity \in Int,
           Tells(message, quantity)
    PROVE  /\ api = "USD_M" /\ quantity \notin Owing =>
                /\ Positions(message) # {}
                /\ \A p \in Positions(message) : p.long - p.short = Signed(quantity)
           /\ Funds(message) = {Balance(quantity)}
  <1>1. ASSUME api = "USD_M", quantity \notin Owing
        PROVE  /\ Positions(message) # {}
               /\ \A p \in Positions(message) : p.long - p.short = Signed(quantity)
    <2> DEFINE item == PositionItem(quantity)
               balance == Assigned(quantity)
    <2>1. balance \in Int /\ balance >= 0 /\ item.assignedPosBalanceRv = balance
      BY <1>1 DEF PositionItem, Assigned
    <2>2. Position(item.side, balance).long - Position(item.side, balance).short
            = Signed(quantity)
      BY <1>1 DEF PositionItem, Assigned, Signed, Position, MapJsonSide
    <2>3. message.positions = {item}
      BY DEF Tells
    <2> HIDE DEF item, balance
    <2>4. PositionsUsdM(item) = {Position(item.side, balance)}
      BY <2>1 DEF PositionsUsdM, KnownPosition
    <2>5. Positions(message) = {Position(item.side, balance)}
      BY <1>1, <2>3, <2>4 DEF Positions
    <2>6. QED
      BY <2>2, <2>5
  <1>4. Funds(message) = {Balance(quantity)}
    <2> DEFINE account == AccountItem(quantity)
    <2>1. message.accounts = {account}
      BY DEF Tells
    <2>2. account.accountBalanceRv = Balance(quantity)
          /\ account.accountBalanceEv = Balance(quantity) * ValueFactor
      BY DEF AccountItem
    <2>3. Balance(quantity) \in Int
      BY DEF Balance
    <2>4. (Balance(quantity) * ValueFactor) \div ValueFactor = Balance(quantity)
      BY <2>3, ProductQuotient, ValueFactorAssumption
    <2>5. FundsUsdM(account) = Balance(quantity) /\ FundsCoinM(account, ValueFactor) = Balance(quantity)
      BY <2>2, <2>4 DEF FundsUsdM, FundsCoinM
    <2> HIDE DEF account
    <2>6. Funds(message) = {IF api = "USD_M" THEN FundsUsdM(account) ELSE FundsCoinM(account, ValueFactor)}
      BY <2>1 DEF Funds
    <2>7. QED
      BY <2>5, <2>6
  <1>5. QED
    BY <1>1, <1>4

\* Every message of the exchange is about a quantity.
LEMMA AopTells ==
    ASSUME NEW type, NEW order, NEW quantity
    PROVE  Tells(Aop(type, order, quantity), quantity)
  BY DEF Aop, Tells

LEMMA AccountPushed ==
    ASSUME IInv, AccountInv, exchange' \in ExchangeOrder, Push(exchange'),
           UNCHANGED <<api, own, before, position, funds>>
    PROVE  AccountInv'
  <1> DEFINE message == Aop("INCREMENTAL", exchange', before + exchange'.cumQty)
  <1>1. Filled' = exchange'.cumQty
    <2>1. exchange' # None
      BY OrderIsSome
    <2>2. QED
      BY <2>1 DEF Filled
  <1>2. Tells(message, before + Filled')
    BY <1>1, AopTells
  <1>3. /\ feed'.up = feed.up
        /\ feed.up => /\ Len(feed'.queue) = Len(feed.queue) + 1
                      /\ feed'.queue[Len(feed.queue) + 1] = message
                      /\ Len(feed.queue) \in Nat
    BY Pushed
  <1> HIDE DEF message
  <1>4. ASSUME feed.up PROVE feed'.queue # <<>> /\ feed'.queue[Len(feed'.queue)] = message
    <2>1. Len(feed'.queue) # 0
      BY <1>3, <1>4
    <2>2. QED
      BY <1>3, <1>4, <2>1
  <1>5. QED
    BY <1>2, <1>3, <1>4 DEF AccountInv, Tells

LEMMA AccountKept ==
    ASSUME AccountInv, UNCHANGED <<api, before, feed, position, funds>>, Filled' = Filled,
           own' = own \/ Filled = 0
    PROVE  AccountInv'
  <1>1. Owed' => Owed
    BY DEF Owed
  <1>2. QED
    BY <1>1 DEF AccountInv, PositionOwed, Tells

LEMMA AccountExchange ==
    ASSUME IInv, IInv', FillsInv, AccountInv,
           ExecuteCreate \/ Book \/ Fill \/ ExecuteCancel \/ Canceled
    PROVE  AccountInv'
  <1> USE DEF Happens
  <1>1. CASE ExecuteCreate
    <2>1. exchange = None /\ exchange' = Order("CREATED", 0, 1)
      BY <1>1 DEF ExecuteCreate, IInv
    <2>2. exchange'.cumQty = 0 /\ exchange' # None
      BY <2>1, OrderType DEF Order
    <2>3. QED
      BY <1>1, <2>1, <2>2, AccountKept DEF ExecuteCreate, Filled
  <1>2. CASE Book \/ Fill \/ Canceled
    BY <1>2, Events, AccountPushed
  <1>3. CASE ExecuteCancel
    <2>1. \/ exchange' = exchange
          \/ exchange' # None /\ exchange # None /\ exchange'.cumQty = exchange.cumQty
      BY <1>3, CancelAccepted, OrderIsSome
    <2>2. Filled' = Filled
      BY <2>1 DEF Filled
    <2>3. QED
      BY <1>3, <2>2, AccountKept DEF ExecuteCancel
  <1>4. QED
    BY <1>1, <1>2, <1>3

LEMMA AccountTaken ==
    ASSUME IInv, FillsInv, AccountInv, AccountsOrdersPositions
    PROVE  AccountInv'
  <1> DEFINE message == Head(feed.queue)
  <1>1. /\ feed.queue \in Seq(AopMessage) /\ feed.queue # <<>>
        /\ feed \in [up : BOOLEAN, queue : Seq(AopMessage)]
        /\ feed' = [feed EXCEPT !.queue = Tail(feed.queue)]
    BY DEF AccountsOrdersPositions, IInv
  <1>2. /\ feed'.queue = Tail(feed.queue) /\ feed'.up = feed.up
    BY <1>1
  <1>3. /\ feed'.queue = <<>> => message = feed.queue[Len(feed.queue)]
        /\ feed'.queue # <<>> => feed'.queue[Len(feed'.queue)] = feed.queue[Len(feed.queue)]
    BY <1>1, <1>2
  <1>4. /\ position' \in IF Positions(message) = {} THEN {position}
                          ELSE {p.long - p.short : p \in Positions(message)}
        /\ funds' \in IF Funds(message) = {} THEN {funds} ELSE Funds(message)
        /\ UNCHANGED <<api, own, exchange, before>>
    BY DEF AccountsOrdersPositions, exchangeVars
  <1> HIDE DEF message
  <1>5. Filled' = Filled /\ before + Filled \in Int
    BY <1>4, FilledType DEF Filled, IInv
  <1>6. Owed' = Owed
    BY <1>4, <1>5 DEF Owed
  <1>7. ASSUME feed'.up, Owed PROVE Tells(feed.queue[Len(feed.queue)], before + Filled) /\ Found
    BY <1>1, <1>2, <1>7 DEF AccountInv, FillsInv, Owed, Found
  <1>8. ASSUME feed'.up, Owed, feed'.queue = <<>>
        PROVE  /\ funds' = Balance(before + Filled)
               /\ PositionOwed => position' = Signed(before + Filled)
    <2>1. Found /\ Tells(message, before + Filled)
      BY <1>3, <1>7, <1>8
    <2>2. /\ PositionOwed =>
               /\ Positions(message) # {}
               /\ \A p \in Positions(message) : p.long - p.short = Signed(before + Filled)
          /\ Funds(message) = {Balance(before + Filled)}
      BY <1>5, <2>1, ItemsTold DEF IInv, PositionOwed
    <2>3. QED
      BY <1>4, <2>2
  <1>9. PositionOwed' = PositionOwed
    BY <1>4, <1>5 DEF PositionOwed
  <1>10. QED
    BY <1>3, <1>4, <1>5, <1>6, <1>7, <1>8, <1>9 DEF AccountInv, Tells

LEMMA AccountSubscribed ==
    ASSUME AccountInv, Subscribed
    PROVE  AccountInv'
  <1> DEFINE message == Aop("SNAPSHOT", exchange, before + Filled)
  <1>1. feed' = [up |-> TRUE, queue |-> <<message>>] /\ UNCHANGED <<before, exchange>>
    BY DEF Subscribed, exchangeVars
  <1>2. Tells(message, before + Filled)
    BY AopTells
  <1> HIDE DEF message
  <1>3. feed'.queue # <<>> /\ feed'.queue[Len(feed'.queue)] = message
    BY <1>1
  <1>4. QED
    BY <1>1, <1>2, <1>3 DEF AccountInv, Filled, Tells

LEMMA AccountStep == IInv /\ IInv' /\ FillsInv /\ AccountInv /\ [Next]_vars => AccountInv'
  <1> SUFFICES ASSUME IInv, IInv', FillsInv, AccountInv, [Next]_vars PROVE AccountInv'
    OBVIOUS
  <1> USE DEF exchangeVars
  <1>1. CASE ExecuteCreate \/ Book \/ Fill \/ ExecuteCancel \/ Canceled
    BY <1>1, AccountExchange
  <1>2. CASE AccountsOrdersPositions
    BY <1>2, AccountTaken
  <1>3. CASE Subscribed
    BY <1>3, AccountSubscribed
  <1>4. CASE Disconnected
    BY <1>4 DEF Disconnected, AccountInv
  <1>5. CASE \/ ExecuteQuery \/ OrdersCreate \/ OrdersCancel
             \/ \E reply \in replies : OrderAck(reply) \/ ErrorAck(reply)
             \/ GetOrder \/ GetUserFills \/ GetUserFillsAck
             \/ CheckStaleOrders \/ ProductsAck
             \/ UNCHANGED vars
    <2>1. UNCHANGED <<api, exchange, before, feed, position, funds>>
          /\ (own' = own \/ exchange = None)
      BY <1>5
      DEF ExecuteQuery, OrdersCreate, OrdersCancel, OrderAck, ErrorAck, GetOrder, GetUserFills,
          GetUserFillsAck, CheckStaleOrders, ProductsAck, vars
    <2>2. Filled' = Filled /\ (exchange = None => Filled = 0)
      BY <2>1 DEF Filled
    <2>3. QED
      BY <2>1, <2>2, AccountKept
  <1>6. QED
    BY <1>1, <1>2, <1>3, <1>4, <1>5 DEF Next

\* Whatever sessions and products come when, the clients know the funds and, with
\* USD-M, the position once every message has come, for any factors, any position
\* and any positions whose balance is not told.
THEOREM AccountKnown == Spec => []AccountAgrees
  <1>1. Init => AccountInv
    BY DEF Init, AccountInv
  <1>2. AccountInv => AccountAgrees
    BY DEF AccountInv, AccountAgrees, Owed, PositionOwed, Quiet
  <1>3. IInv /\ [Next]_vars => IInv'
    BY InvariantStep
  <1>4. QED
    BY <1>1, <1>2, <1>3, FillsInit, FillsStep, AccountStep, InvariantInit, PTL DEF Spec

-----------------------------------------------------------------------------
(* The order in the cache.                                                  *)

\* The orders of a message that are told once the product is known.
Untold(message) == {m \in message.orders : ~Skipped(m, message.type)}

OnItsWay == UNION {feed.queue[i].orders : i \in DOMAIN feed.queue}

Awaited == UNION {Untold(feed.queue[i]) : i \in DOMAIN feed.queue}

\* What is said of the order is what the exchange has now.
Agrees(m) ==
    /\ MapOrderStatus(m.ordStatus) = MapOrderStatus(exchange.ordStatus)
    /\ m.cumQty = exchange.cumQty

\* The cache has something that happened then or later, or will be told so.
Covered(since) ==
    \/ view # None /\ view.time >= since
    \/ \E m \in Awaited : m.transactTimeNs >= since

\* The order has been as it is since then: what tells of that time or of a later
\* one tells the truth.  An order that was confirmed in this session of the feed,
\* or asked for in it, is told such a thing, or has been.
Since(since) ==
    /\ exchange # None => since <= exchange.transactTimeNs
    /\ \A m \in OnItsWay : m.transactTimeNs >= since => Agrees(m)
    /\ \A reply \in replies :
          reply.order # None /\ reply.order.transactTimeNs >= since => Agrees(reply.order)
    /\ view # None /\ view.time >= since =>
          view.order_status = MapOrderStatus(exchange.ordStatus) /\ view.traded = exchange.cumQty
    /\ Translated => (confirmed \/ Awaited # {} => Covered(since))
    /\ Translated /\ feed.up /\ ~query_old =>
         \A reply \in replies : reply.type = "query" /\ reply.order # None =>
            reply.order.transactTimeNs >= since \/ Covered(since)

NoQuery == "query" \notin travelling /\ \A reply \in replies : reply.type # "query"

\* The inductive invariant behind ViewAgrees.
ViewInv ==
    /\ ~feed.up => feed.queue = <<>> /\ ~confirmed
    /\ confirmed => view # None
    /\ "create" \in travelling => own
    /\ feed.up \/ query_old \/ NoQuery
    /\ \E since \in Int : Since(since)
    /\ api = "USD_M" /\ ~own /\ feed.up /\ exchange # None /\ ~Ended /\ view = None =>
         Awaited # {}

LEMMA MessageAgrees == \A order : Agrees(Message(order)) = Agrees(order)
  BY DEF Agrees, Message

LEMMA OnItsWayHappened ==
    ASSUME IInv, NEW m \in OnItsWay
    PROVE  m.transactTimeNs \in Int /\ HasHappened(m)
  <1>1. PICK i \in DOMAIN feed.queue : m \in feed.queue[i].orders
    BY DEF OnItsWay
  <1>2. feed.queue[i] \in AopMessage
    BY DEF IInv
  <1>3. PICK order \in ExchangeOrder : m = Message(order)
    BY <1>1, <1>2, AopOrders
  <1>4. m.transactTimeNs \in Int
    BY <1>3, MessageTells
  <1>5. QED
    BY <1>1, <1>4 DEF IInv

LEMMA RepliesHappened ==
    ASSUME IInv, NEW reply \in replies, reply.order # None
    PROVE  /\ reply.order \in ExchangeOrder /\ reply.order.transactTimeNs \in Int
           /\ HasHappened(reply.order)
  BY DEF IInv, ExchangeOrder

LEMMA AwaitedOnItsWay == Awaited \subseteq OnItsWay
  BY DEF Awaited, OnItsWay, Untold

\* Of an order that the exchange does not have, nothing is known.
LEMMA NothingKnown ==
    ASSUME IInv, exchange = None
    PROVE  /\ OnItsWay = {} /\ Awaited = {} /\ view = None
           /\ \A reply \in replies : reply.order = None
  <1>1. OnItsWay = {}
    BY OnItsWayHappened DEF HasHappened, Happened
  <1>2. QED
    BY <1>1, AwaitedOnItsWay DEF IInv, HasHappened, Happened

\* How the feed moves.
LEMMA WayPushed ==
    ASSUME IInv, Push(exchange'), exchange' \in ExchangeOrder
    PROVE  IF feed.up
           THEN /\ OnItsWay' = OnItsWay \union {Message(exchange')}
                /\ Awaited' = Awaited \union {Message(exchange')}
           ELSE feed' = feed /\ OnItsWay' = OnItsWay /\ Awaited' = Awaited
  <1> DEFINE message == Aop("INCREMENTAL", exchange', before + exchange'.cumQty)
             last == Len(feed.queue) + 1
  <1>1. /\ ~feed.up => feed' = feed
        /\ feed.up =>
             /\ DOMAIN feed'.queue = 1 .. last /\ DOMAIN feed.queue = 1 .. last - 1
             /\ last \in Nat \ {0}
             /\ feed'.queue[last] = message
             /\ \A i \in DOMAIN feed.queue : feed'.queue[i] = feed.queue[i]
    BY Pushed
  <1>2. message.orders = {Message(exchange')} /\ message.type = "INCREMENTAL"
    BY OrderIsSome DEF Aop
  <1>3. Untold(message) = {Message(exchange')}
    BY <1>2 DEF Untold, Skipped, MapEventType
  <1> HIDE DEF message, last
  <1>4. feed.up => /\ DOMAIN feed'.queue = DOMAIN feed.queue \union {last}
                   /\ last \notin DOMAIN feed.queue
    BY <1>1
  <1>5. ~feed.up => OnItsWay' = OnItsWay /\ Awaited' = Awaited
    BY <1>1 DEF OnItsWay, Awaited, Untold
  <1>6. ASSUME feed.up
        PROVE  /\ OnItsWay' = OnItsWay \union {Message(exchange')}
               /\ Awaited' = Awaited \union {Message(exchange')}
    <2>1. OnItsWay' = UNION {feed'.queue[i].orders : i \in DOMAIN feed'.queue}
          /\ Awaited' = UNION {Untold(feed'.queue[i]) : i \in DOMAIN feed'.queue}
      BY DEF OnItsWay, Awaited, Untold
    <2>2. OnItsWay' = OnItsWay \union {Message(exchange')}
      BY <1>1, <1>2, <1>4, <1>6, <2>1 DEF OnItsWay
    <2>3. Awaited' = Awaited \union {Message(exchange')}
      BY <1>1, <1>3, <1>4, <1>6, <2>1 DEF Awaited
    <2>4. QED
      BY <2>2, <2>3
  <1>7. QED
    BY <1>1, <1>5, <1>6

LEMMA WayTaken ==
    ASSUME IInv, AccountsOrdersPositions
    PROVE  /\ OnItsWay' \subseteq OnItsWay
           /\ Awaited' \subseteq Awaited
           /\ Awaited \subseteq Awaited' \union Untold(Head(feed.queue))
           /\ Head(feed.queue).orders \subseteq OnItsWay
           /\ Untold(Head(feed.queue)) \subseteq Awaited
           /\ \A a, b \in Head(feed.queue).orders : a = b
           /\ feed'.up = feed.up /\ feed.queue # <<>>
  <1> DEFINE message == Head(feed.queue)
  <1>1. /\ feed.queue \in Seq(AopMessage) /\ feed.queue # <<>>
        /\ feed \in [up : BOOLEAN, queue : Seq(AopMessage)]
        /\ feed' = [feed EXCEPT !.queue = Tail(feed.queue)]
    BY DEF AccountsOrdersPositions, IInv
  <1>2. /\ 1 \in DOMAIN feed.queue /\ message = feed.queue[1] /\ message \in AopMessage
        /\ feed'.queue = Tail(feed.queue) /\ feed'.up = feed.up
        /\ \A i \in DOMAIN feed'.queue :
              i + 1 \in DOMAIN feed.queue /\ feed'.queue[i] = feed.queue[i + 1]
        /\ \A i \in DOMAIN feed.queue :
              i # 1 => i - 1 \in DOMAIN feed'.queue /\ feed'.queue[i - 1] = feed.queue[i]
    BY <1>1
  <1> HIDE DEF message
  <1>3. OnItsWay' = UNION {feed'.queue[i].orders : i \in DOMAIN feed'.queue}
        /\ Awaited' = UNION {Untold(feed'.queue[i]) : i \in DOMAIN feed'.queue}
    BY DEF OnItsWay, Awaited, Untold
  <1>4. OnItsWay' \subseteq OnItsWay /\ message.orders \subseteq OnItsWay
    BY <1>2, <1>3 DEF OnItsWay
  <1>5. Awaited' \subseteq Awaited /\ Untold(message) \subseteq Awaited
    BY <1>2, <1>3 DEF Awaited
  <1>6. Awaited \subseteq Awaited' \union Untold(message)
    <2> SUFFICES ASSUME NEW m \in Awaited, m \notin Untold(message) PROVE m \in Awaited'
      OBVIOUS
    <2>1. PICK i \in DOMAIN feed.queue : m \in Untold(feed.queue[i])
      BY DEF Awaited
    <2>2. i # 1
      BY <1>2, <2>1
    <2>3. QED
      BY <1>2, <1>3, <2>1, <2>2
  <1>7. \A a, b \in message.orders : a = b
    BY <1>2, OneOrder
  <1>8. QED
    BY <1>1, <1>2, <1>4, <1>5, <1>6, <1>7 DEF message

LEMMA WaySubscribed ==
    ASSUME IInv, Subscribed
    PROVE  /\ OnItsWay' = IF exchange = None THEN {} ELSE {Message(exchange)}
           /\ Awaited' = IF exchange = None \/ Ended THEN {} ELSE {Message(exchange)}
  <1> DEFINE message == Aop("SNAPSHOT", exchange, before + Filled)
  <1>1. feed' = [up |-> TRUE, queue |-> <<message>>]
    BY DEF Subscribed
  <1>2. message.orders = IF exchange = None THEN {} ELSE {Message(exchange)}
    BY DEF Aop
  <1>3. Untold(message) = IF exchange = None \/ Ended THEN {} ELSE {Message(exchange)}
    <2>1. exchange # None =>
            (Skipped(Message(exchange), "SNAPSHOT") <=> Complete(MapOrderStatus(exchange.ordStatus)))
      BY DEF Skipped, MapEventType, Message
    <2>2. exchange # None => (Complete(MapOrderStatus(exchange.ordStatus)) <=> Ended)
      BY DEF Complete, MapOrderStatus, Ended, IInv, ExchangeOrder
    <2>3. message.type = "SNAPSHOT"
      BY DEF Aop
    <2> HIDE DEF message
    <2>4. QED
      BY <1>2, <2>1, <2>2, <2>3 DEF Untold
  <1> HIDE DEF message
  <1>4. DOMAIN feed'.queue = {1} /\ feed'.queue[1] = message
    BY <1>1
  <1>5. OnItsWay' = UNION {feed'.queue[i].orders : i \in DOMAIN feed'.queue}
        /\ Awaited' = UNION {Untold(feed'.queue[i]) : i \in DOMAIN feed'.queue}
    BY DEF OnItsWay, Awaited, Untold
  <1>6. OnItsWay' = message.orders /\ Awaited' = Untold(message)
    BY <1>4, <1>5
  <1>7. QED
    BY <1>2, <1>3, <1>6

\* The paths differ in the prices, not in the quantity.
LEMMA AckTellsQuantity ==
    ASSUME IInv, NEW reply \in replies
    PROVE  Ack(reply).traded_quantity = reply.order.cumQty
  <1>1. /\ api \in {"USD_M", "COIN_M"}
        /\ reply.type \in {"create", "cancel", "query"}
    BY DEF IInv
  <1>2. Ack(reply).traded_quantity = Message(reply.order).cumQty
    BY <1>1 DEF Ack, OrderUpdate, CreateAckUsdM, CancelAckUsdM, GetOrderAckUsdM,
                CreateAckCoinM, CancelAckCoinM, GetOrderAckCoinM
  <1>3. QED
    BY <1>2 DEF Message

LEMMA FeedTellsQuantity ==
    ASSUME NEW m, NEW type
    PROVE  FeedOrder(m, type).traded_quantity = m.cumQty
  BY DEF FeedOrder, FeedOrderUsdM, FeedOrderCoinM, OrderUpdate

\* The cache has what it is told, or something newer.
LEMMA KeptNewer ==
    ASSUME IInv, NEW update, update.update_time_utc \in Int
    PROVE  /\ Kept(update) # None /\ Kept(update).time \in Int
           /\ Kept(update).time >= update.update_time_utc
           /\ view # None => Kept(update).time >= view.time
           /\ \/ view # None /\ Kept(update) = view
              \/ /\ Kept(update).order_status = update.order_status
                 /\ Kept(update).traded = update.traded_quantity
                 /\ Kept(update).time = update.update_time_utc
  <1>1. CASE view # None /\ view.time >= update.update_time_utc
    BY <1>1 DEF Kept, IInv
  <1>2. CASE ~(view # None /\ view.time >= update.update_time_utc)
    <2>1. Kept(update) = [order_status |-> update.order_status,
                          traded |-> update.traded_quantity,
                          time |-> update.update_time_utc]
      BY <1>2 DEF Kept
    <2>2. Kept(update) # None
      BY <2>1 DEF None
    <2>3. QED
      BY <1>2, <2>1, <2>2 DEF IInv
  <1>3. QED
    BY <1>1, <1>2

\* An event: the order is from now on as the feed tells it.
LEMMA ViewEvent ==
    ASSUME IInv, IInv', ViewInv, Book \/ Fill \/ Canceled
    PROVE  ViewInv'
  <1>1. /\ exchange # None /\ exchange \in ExchangeOrder /\ exchange' \in ExchangeOrder
        /\ exchange'.transactTimeNs = exchange.transactTimeNs + 1
        /\ Push(exchange')
        /\ UNCHANGED <<api, own, travelling, replies, query_old, view, confirmed>>
    BY Events
  <1>0. PICK new \in ExchangeOrder : new = exchange'
    BY <1>1
  <1>2. PICK since \in Int : since = exchange.transactTimeNs + 1
    BY <1>1 DEF ExchangeOrder
  <1>3. /\ exchange' # None /\ exchange'.transactTimeNs = since
        /\ Message(new).transactTimeNs = since /\ Agrees(Message(new))'
    BY <1>0, <1>1, <1>2, OrderIsSome DEF Message, Agrees
  <1>4. IF feed.up
        THEN /\ OnItsWay' = OnItsWay \union {Message(new)}
             /\ Awaited' = Awaited \union {Message(new)}
        ELSE feed' = feed /\ OnItsWay' = OnItsWay /\ Awaited' = Awaited
    BY <1>0, <1>1, WayPushed
  <1>5. \A m \in OnItsWay : ~(m.transactTimeNs >= since)
    BY <1>1, <1>2, OnItsWayHappened DEF HasHappened, Happened, ExchangeOrder
  <1>6. \A reply \in replies : reply.order # None => ~(reply.order.transactTimeNs >= since)
    <2> SUFFICES ASSUME NEW reply \in replies, reply.order # None
                 PROVE  ~(reply.order.transactTimeNs >= since)
      OBVIOUS
    <2>1. reply.order.transactTimeNs \in Int /\ HasHappened(reply.order)
      BY RepliesHappened
    <2>2. QED
      BY <1>1, <1>2, <2>1 DEF HasHappened, Happened, ExchangeOrder
  <1>7. view # None => ~(view.time >= since)
    BY <1>1, <1>2 DEF IInv, Happened, ExchangeOrder
  <1>8. feed'.up = feed.up /\ (feed.up => Covered(since)')
    <2>1. feed'.up = feed.up
      BY <1>1, Pushed
    <2>2. feed.up => Message(new) \in Awaited' /\ Message(new).transactTimeNs >= since
      BY <1>2, <1>3, <1>4
    <2>3. QED
      BY <2>1, <2>2 DEF Covered
  <1>9. ~feed.up => Awaited' = {} /\ ~confirmed
    BY <1>4 DEF ViewInv, Awaited
  <1>10. Since(since)'
    <2>1. \A m \in OnItsWay' : m.transactTimeNs >= since => Agrees(m)'
      BY <1>3, <1>4, <1>5
    <2>2. \A reply \in replies' :
             reply.order # None /\ reply.order.transactTimeNs >= since => Agrees(reply.order)'
      BY <1>1, <1>6
    <2>3. ~(view' # None /\ view'.time >= since)
      BY <1>1, <1>7
    <2>4. (confirmed' \/ Awaited' # {} => Covered(since)') /\ (feed'.up => Covered(since)')
      BY <1>1, <1>8, <1>9
    <2>5. exchange' # None => since <= exchange'.transactTimeNs
      BY <1>2, <1>3
    <2>6. QED
      BY <2>1, <2>2, <2>3, <2>4, <2>5 DEF Since
  <1>11. feed.up => Awaited' # {}
    BY <1>4
  <1>12. QED
    BY <1>1, <1>4, <1>8, <1>9, <1>10, <1>11 DEF ViewInv, NoQuery

\* Nothing is told, and the order stays as it is; a query may be answered.
LEMMA ViewKept ==
    ASSUME IInv, ViewInv, UNCHANGED <<api, exchange, feed, view, confirmed>>,
           own' = own \/ (own' = TRUE /\ exchange = None),
           "create" \in travelling' => own' \/ "create" \in travelling,
           feed.up \/ query_old' \/ NoQuery',
           replies' \subseteq replies \union {[type |-> "query", order |-> exchange]},
           \/ query_old' = query_old
           \/ \A reply \in replies' : reply.type # "query"
    PROVE  ViewInv'
  <1>1. Awaited' = Awaited /\ OnItsWay' = OnItsWay
    BY DEF Awaited, OnItsWay, Untold
  <1>2. \A since \in Int : Covered(since)' <=> Covered(since)
    BY <1>1 DEF Covered
  <1>3. \A m : Agrees(m)' <=> Agrees(m)
    BY DEF Agrees
  <1>4. PICK since \in Int : Since(since)
    BY DEF ViewInv
  <1>5. ASSUME NEW reply \in replies', reply.order # None
        PROVE  /\ reply.order.transactTimeNs >= since => Agrees(reply.order)
               /\ reply \in replies \/ reply.order.transactTimeNs >= since
    <2>1. CASE reply \in replies
      BY <1>4, <1>5, <2>1 DEF Since
    <2>2. CASE reply = [type |-> "query", order |-> exchange]
      <3>1. exchange \in ExchangeOrder /\ reply.order = exchange
        BY <1>5, <2>2 DEF IInv
      <3>2. exchange.transactTimeNs >= since
        BY <1>4, <1>5, <3>1 DEF Since, ExchangeOrder
      <3>3. QED
        BY <3>1, <3>2 DEF Agrees
    <2>3. QED
      BY <2>1, <2>2
  <1>6. Translated' => Translated \/ (OnItsWay = {} /\ Awaited = {} /\ view = None)
    BY NothingKnown DEF Translated
  <1>7. Translated' => (confirmed' \/ Awaited' # {} => Covered(since)')
    BY <1>1, <1>2, <1>4, <1>6 DEF Since, ViewInv
  <1>8. ASSUME Translated', feed'.up, ~query_old', NEW reply \in replies',
               reply.type = "query", reply.order # None
        PROVE  reply.order.transactTimeNs >= since \/ Covered(since)'
    <2>1. CASE reply \in replies
      <3>1. ~query_old
        BY <1>8
      <3>2. exchange # None
        BY <1>8, <2>1, NothingKnown
      <3>3. Translated
        BY <1>8, <3>2 DEF Translated
      <3>4. QED
        BY <1>2, <1>4, <1>8, <2>1, <3>1, <3>3 DEF Since
    <2>2. CASE reply \notin replies
      BY <1>5, <1>8, <2>2
    <2>3. QED
      BY <2>1, <2>2
  <1>9. Since(since)'
    <2>1. \A reply \in replies' :
             reply.order # None /\ reply.order.transactTimeNs >= since => Agrees(reply.order)'
      BY <1>3, <1>5
    <2>2. \A m \in OnItsWay' : m.transactTimeNs >= since => Agrees(m)'
      BY <1>1, <1>3, <1>4 DEF Since
    <2>3. QED
      BY <1>4, <1>7, <1>8, <2>1, <2>2 DEF Since
  <1>10. Ended' = Ended
    BY DEF Ended
  <1>11. QED
    BY <1>1, <1>9, <1>10 DEF ViewInv

\* An order that is created is not told of until it is asked for.
LEMMA ViewCreated ==
    ASSUME IInv, IInv', ViewInv, ExecuteCreate
    PROVE  ViewInv'
  <1>1. /\ exchange = None /\ exchange' = Order("CREATED", 0, 1) /\ own
        /\ replies' = replies \union {[type |-> "create", order |-> exchange']}
        /\ "create" \notin travelling'
        /\ "query" \in travelling' => "query" \in travelling
        /\ UNCHANGED <<api, own, feed, view, confirmed, query_old>>
    BY DEF ExecuteCreate, Happens, omsVars, IInv, ViewInv
  <1>2. exchange'.transactTimeNs = 1 /\ exchange' # None
    BY <1>1, OrderType
  <1>3. /\ OnItsWay = {} /\ Awaited = {} /\ view = None
        /\ \A reply \in replies : reply.order = None
    BY <1>1, NothingKnown
  <1>4. OnItsWay' = {} /\ Awaited' = {} /\ view' = None /\ ~confirmed'
    BY <1>1, <1>3 DEF OnItsWay, Awaited, Untold, ViewInv
  <1>5. PICK new : new = exchange'
    OBVIOUS
  <1>6. \A reply \in replies' : reply.order # None => reply.order = new /\ reply.type = "create"
    BY <1>1, <1>3, <1>5
  <1>7. Agrees(new)'
    BY <1>5 DEF Agrees
  <1>8. Since(1)'
    BY <1>2, <1>4, <1>6, <1>7 DEF Since
  <1>9. NoQuery => NoQuery'
    BY <1>1 DEF NoQuery
  <1>10. \E since \in Int : Since(since)'
    BY <1>8
  <1>11. QED
    BY <1>1, <1>4, <1>9, <1>10 DEF ViewInv

\* A cancel that is accepted changes the time of the order, which the feed does
\* not tell of.
LEMMA ViewCancelAccepted ==
    ASSUME IInv, IInv', ViewInv, ExecuteCancel, exchange' # exchange
    PROVE  ViewInv'
  <1>1. /\ exchange # None /\ exchange \in ExchangeOrder /\ exchange' \in ExchangeOrder
        /\ exchange'.ordStatus = exchange.ordStatus
        /\ exchange'.cumQty = exchange.cumQty
        /\ exchange'.transactTimeNs = exchange.transactTimeNs + 1
        /\ replies' = replies \union {[type |-> "cancel", order |-> exchange']}
    BY CancelAccepted
  <1>2. /\ UNCHANGED <<api, own, feed, view, confirmed, query_old>>
        /\ travelling' = travelling \ {"cancel"}
    BY DEF ExecuteCancel, Happens, omsVars
  <1>3. Awaited' = Awaited /\ OnItsWay' = OnItsWay
    BY <1>2 DEF Awaited, OnItsWay, Untold
  <1>4. \A since \in Int : Covered(since)' <=> Covered(since)
    BY <1>2, <1>3 DEF Covered
  <1>5. \A m : Agrees(m)' <=> Agrees(m)
    BY <1>1 DEF Agrees
  <1>6. PICK since \in Int : Since(since)
    BY DEF ViewInv
  <1>7. PICK new : new = exchange'
    OBVIOUS
  <1>8. Agrees(new)
    BY <1>1, <1>7 DEF Agrees
  <1>9. \A reply \in replies' : reply \in replies \/ reply = [type |-> "cancel", order |-> new]
    BY <1>1, <1>7
  <1>10. Since(since)'
    <2>1. \A reply \in replies' :
             reply.order # None /\ reply.order.transactTimeNs >= since => Agrees(reply.order)'
      BY <1>5, <1>6, <1>8, <1>9 DEF Since
    <2>2. \A m \in OnItsWay' : m.transactTimeNs >= since => Agrees(m)'
      BY <1>3, <1>5, <1>6 DEF Since
    <2>3. since <= exchange'.transactTimeNs
      BY <1>1, <1>6 DEF Since, ExchangeOrder
    <2>4. Translated' = Translated
      BY <1>2 DEF Translated
    <2>5. view' # None /\ view'.time >= since =>
            view'.order_status = MapOrderStatus(exchange'.ordStatus) /\ view'.traded = exchange'.cumQty
      BY <1>1, <1>2, <1>6 DEF Since
    <2>6. Translated' => (confirmed' \/ Awaited' # {} => Covered(since)')
      BY <1>2, <1>3, <1>4, <1>6, <2>4 DEF Since
    <2>7. Translated' /\ feed'.up /\ ~query_old' =>
            \A reply \in replies' : reply.type = "query" /\ reply.order # None =>
               reply.order.transactTimeNs >= since \/ Covered(since)'
      BY <1>2, <1>4, <1>6, <1>9, <2>4 DEF Since
    <2>8. QED
      BY <2>1, <2>2, <2>3, <2>5, <2>6, <2>7 DEF Since
  <1>11. NoQuery => NoQuery'
    BY <1>2, <1>9 DEF NoQuery
  <1>12. Ended' = Ended
    BY <1>1, OrderIsSome DEF Ended
  <1>13. QED
    BY <1>1, <1>2, <1>3, <1>10, <1>11, <1>12 DEF ViewInv

\* What the cache is told tells the truth if it is new, and nothing new is lost.
LEMMA ViewTold ==
    ASSUME IInv, UNCHANGED exchange, NEW since \in Int, Since(since),
           NEW update, update.update_time_utc \in Int, view' = Kept(update),
           update.update_time_utc >= since =>
              /\ update.order_status = MapOrderStatus(exchange.ordStatus)
              /\ update.traded_quantity = exchange.cumQty
    PROVE  /\ view' # None
           /\ update.update_time_utc >= since => view'.time >= since
           /\ view # None /\ view.time >= since => view'.time >= since
           /\ view'.time >= since =>
                /\ view'.order_status = MapOrderStatus(exchange'.ordStatus)
                /\ view'.traded = exchange'.cumQty
  <1>1. /\ view' # None /\ view'.time \in Int
        /\ view'.time >= update.update_time_utc
        /\ view # None => view'.time >= view.time /\ view.time \in Int
        /\ \/ view # None /\ view' = view
           \/ /\ view'.order_status = update.order_status
              /\ view'.traded = update.traded_quantity
              /\ view'.time = update.update_time_utc
    BY KeptNewer DEF IInv
  <1>2. QED
    BY <1>1 DEF Since

\* An answer is late, or tells how the order is.
LEMMA ViewAck ==
    ASSUME IInv, IInv', ViewInv, NEW reply \in replies, OrderAck(reply)
    PROVE  ViewInv'
  <1>1. /\ reply.order # None /\ replies' = replies \ {reply}
        /\ view' = Kept(Ack(reply))
        /\ confirmed' = (confirmed \/ (reply.type = "query" /\ feed.up /\ ~query_old))
        /\ UNCHANGED <<api, own, exchange, feed, query_old, travelling>>
    BY DEF OrderAck, exchangeVars
  <1>2. Awaited' = Awaited /\ OnItsWay' = OnItsWay
    BY <1>1 DEF Awaited, OnItsWay, Untold
  <1>3. \A m : Agrees(m)' <=> Agrees(m)
    BY <1>1 DEF Agrees
  <1>4. PICK since \in Int : Since(since)
    BY DEF ViewInv
  <1>5. /\ Ack(reply).update_time_utc \in Int
        /\ Ack(reply).update_time_utc = reply.order.transactTimeNs
        /\ Ack(reply).order_status = MapOrderStatus(reply.order.ordStatus)
        /\ Ack(reply).traded_quantity = reply.order.cumQty
    BY <1>1, AckTells, AckTellsQuantity
  <1>6. reply.order.transactTimeNs >= since => Agrees(reply.order)
    BY <1>1, <1>4 DEF Since
  <1>7. /\ view' # None
        /\ reply.order.transactTimeNs >= since => view'.time >= since
        /\ view # None /\ view.time >= since => view'.time >= since
        /\ view'.time >= since =>
             view'.order_status = MapOrderStatus(exchange'.ordStatus) /\ view'.traded = exchange'.cumQty
    BY <1>1, <1>4, <1>5, <1>6, ViewTold DEF Agrees
  <1>8. Covered(since) => Covered(since)'
    BY <1>2, <1>7 DEF Covered
  <1>9. reply.order.transactTimeNs >= since => Covered(since)'
    BY <1>7 DEF Covered
  <1>10. Translated' = Translated
    BY <1>1 DEF Translated
  <1>11. Translated' => (confirmed' \/ Awaited' # {} => Covered(since)')
    BY <1>1, <1>2, <1>4, <1>8, <1>9, <1>10 DEF Since
  <1>12. Since(since)'
    <2>1. \A r \in replies' :
             r.order # None /\ r.order.transactTimeNs >= since => Agrees(r.order)'
      BY <1>1, <1>3, <1>4 DEF Since
    <2>2. \A m \in OnItsWay' : m.transactTimeNs >= since => Agrees(m)'
      BY <1>2, <1>3, <1>4 DEF Since
    <2>3. Translated' /\ feed'.up /\ ~query_old' =>
            \A r \in replies' : r.type = "query" /\ r.order # None =>
               r.order.transactTimeNs >= since \/ Covered(since)'
      BY <1>1, <1>4, <1>8, <1>10 DEF Since
    <2>4. exchange' # None => since <= exchange'.transactTimeNs
      BY <1>1, <1>4 DEF Since
    <2>5. QED
      BY <1>7, <1>11, <2>1, <2>2, <2>3, <2>4 DEF Since
  <1>13. NoQuery => NoQuery'
    BY <1>1 DEF NoQuery
  <1>14. ~feed'.up => feed'.queue = <<>> /\ ~confirmed'
    BY <1>1 DEF ViewInv
  <1>15. QED
    BY <1>1, <1>7, <1>12, <1>13, <1>14 DEF ViewInv

\* The first message is taken: what it has is told, unless it is not awaited.
LEMMA ViewTaken ==
    ASSUME IInv, IInv', FillsInv, ViewInv, AccountsOrdersPositions
    PROVE  ViewInv'
  <1> DEFINE message == Head(feed.queue)
  <1>1. /\ OnItsWay' \subseteq OnItsWay
        /\ Awaited' \subseteq Awaited
        /\ Awaited \subseteq Awaited' \union Untold(message)
        /\ message.orders \subseteq OnItsWay
        /\ Untold(message) \subseteq Awaited
        /\ \A a, b \in message.orders : a = b
        /\ feed'.up = feed.up /\ feed.queue # <<>>
    BY WayTaken
  <1>2. /\ \/ Reported(message) = {} /\ UNCHANGED <<view, confirmed>>
           \/ \E m \in Reported(message) :
                 view' = Kept(FeedOrder(m, message.type)) /\ confirmed' = TRUE
        /\ UNCHANGED <<api, own, exchange, replies, query_old, travelling>>
    BY DEF AccountsOrdersPositions, exchangeVars, omsVars
  <1>3. Reported(message) = IF Found THEN Untold(message) ELSE {}
    BY DEF Reported, Untold
  <1>4. Translated => Found
    BY DEF Translated, Found, FillsInv
  <1>5. \A m \in Untold(message) : m \in message.orders
    BY DEF Untold
  <1> HIDE DEF message
  <1>6. feed.up /\ feed'.up
    BY <1>1 DEF ViewInv
  <1>7. \A m : Agrees(m)' <=> Agrees(m)
    BY <1>2 DEF Agrees
  <1>8. PICK since \in Int : Since(since)
    BY DEF ViewInv
  <1>9. Translated' = Translated
    BY <1>2 DEF Translated
  <1>10. ASSUME view' # None => (view'.time >= since =>
                  /\ view'.order_status = MapOrderStatus(exchange'.ordStatus)
                  /\ view'.traded = exchange'.cumQty),
                Translated /\ Covered(since) => Covered(since)',
                Translated /\ confirmed' => Covered(since)'
         PROVE  Since(since)'
    <2>1. \A r \in replies' :
             r.order # None /\ r.order.transactTimeNs >= since => Agrees(r.order)'
      BY <1>2, <1>7, <1>8 DEF Since
    <2>2. \A m \in OnItsWay' : m.transactTimeNs >= since => Agrees(m)'
      BY <1>1, <1>7, <1>8 DEF Since
    <2>3. Translated' /\ feed'.up /\ ~query_old' =>
            \A r \in replies' : r.type = "query" /\ r.order # None =>
               r.order.transactTimeNs >= since \/ Covered(since)'
      BY <1>2, <1>6, <1>8, <1>9, <1>10 DEF Since
    <2>4. exchange' # None => since <= exchange'.transactTimeNs
      BY <1>2, <1>8 DEF Since
    <2>5. Translated' => (confirmed' \/ Awaited' # {} => Covered(since)')
      BY <1>1, <1>8, <1>9, <1>10 DEF Since
    <2>6. QED
      BY <1>10, <2>1, <2>2, <2>3, <2>4, <2>5 DEF Since
  <1>11. CASE Reported(message) = {} /\ UNCHANGED <<view, confirmed>>
    <2>1. Translated => Awaited' = Awaited
      BY <1>1, <1>3, <1>4, <1>11
    <2>2. Translated /\ Covered(since) => Covered(since)'
      BY <1>11, <2>1 DEF Covered
    <2>3. Since(since)'
      BY <1>2, <1>8, <1>10, <1>11, <2>2 DEF Since
    <2>4. api = "USD_M" => Awaited' = Awaited
      BY <2>1 DEF Translated
    <2>5. QED
      BY <1>2, <1>6, <1>11, <2>3, <2>4 DEF ViewInv, NoQuery, Ended
  <1>12. ASSUME NEW m \in Reported(message),
                view' = Kept(FeedOrder(m, message.type)), confirmed' = TRUE
         PROVE  ViewInv'
    <2>1. m \in Untold(message) /\ m \in OnItsWay /\ m \in Awaited
      BY <1>1, <1>3, <1>5
    <2>2. /\ FeedOrder(m, message.type).update_time_utc = m.transactTimeNs
          /\ FeedOrder(m, message.type).update_time_utc \in Int
          /\ FeedOrder(m, message.type).order_status = MapOrderStatus(m.ordStatus)
          /\ FeedOrder(m, message.type).traded_quantity = m.cumQty
      BY <2>1, OnItsWayHappened, FeedTells, FeedTellsQuantity
    <2>3. m.transactTimeNs >= since => Agrees(m)
      BY <1>8, <2>1 DEF Since
    <2>4. /\ view' # None
          /\ m.transactTimeNs >= since => view'.time >= since
          /\ view # None /\ view.time >= since => view'.time >= since
          /\ view'.time >= since =>
               view'.order_status = MapOrderStatus(exchange'.ordStatus) /\ view'.traded = exchange'.cumQty
      BY <1>2, <1>8, <1>12, <2>2, <2>3, ViewTold DEF Agrees
    <2>5. Covered(since) => Covered(since)'
      <3>1. ASSUME NEW other \in Awaited, other.transactTimeNs >= since
            PROVE  other \in Awaited' \/ other = m
        BY <1>1, <1>5, <2>1
      <3>2. QED
        BY <2>4, <3>1 DEF Covered
    <2>6. Translated => Covered(since)
      BY <1>8, <2>1 DEF Since
    <2>7. Since(since)'
      BY <1>10, <2>4, <2>5, <2>6
    <2>8. QED
      BY <1>2, <1>6, <1>12, <2>4, <2>7 DEF ViewInv, NoQuery
  <1>13. QED
    BY <1>2, <1>11, <1>12

\* The feed is subscribed again: the order is awaited unless it has ended.
LEMMA ViewSubscribed ==
    ASSUME IInv, IInv', ViewInv, Subscribed
    PROVE  ViewInv'
  <1>1. /\ OnItsWay' = IF exchange = None THEN {} ELSE {Message(exchange)}
        /\ Awaited' = IF exchange = None \/ Ended THEN {} ELSE {Message(exchange)}
    BY WaySubscribed
  <1>2. /\ ~feed.up /\ feed'.up
        /\ UNCHANGED <<api, own, exchange, replies, query_old, travelling, view, confirmed>>
    BY DEF Subscribed, exchangeVars, omsVars
  <1>3. ~confirmed /\ (query_old \/ NoQuery)
    BY <1>2 DEF ViewInv
  <1>4. \A m : Agrees(m)' <=> Agrees(m)
    BY <1>2 DEF Agrees
  <1>5. PICK since \in Int : Since(since)
    BY DEF ViewInv
  <1>6. Message(exchange).transactTimeNs = exchange.transactTimeNs /\ Agrees(Message(exchange))
    BY DEF Message, Agrees
  <1>7. exchange # None => exchange.transactTimeNs >= since
    BY <1>5 DEF Since, IInv, ExchangeOrder
  <1>8. PICK m : m = Message(exchange)
    OBVIOUS
  <1>9. Since(since)'
    <2>1. \A r \in replies' :
             r.order # None /\ r.order.transactTimeNs >= since => Agrees(r.order)'
      BY <1>2, <1>4, <1>5 DEF Since
    <2>2. \A other \in OnItsWay' : other.transactTimeNs >= since => Agrees(other)'
      BY <1>1, <1>4, <1>6, <1>8
    <2>3. Awaited' # {} => Covered(since)'
      <3>1. Awaited' # {} => exchange # None /\ Awaited' = {m}
        BY <1>1, <1>8
      <3>2. exchange # None => m.transactTimeNs >= since
        BY <1>6, <1>7, <1>8
      <3>3. QED
        BY <3>1, <3>2 DEF Covered
    <2>4. ~query_old' => \A r \in replies' : r.type # "query"
      BY <1>2, <1>3 DEF NoQuery
    <2>5. exchange' # None => since <= exchange'.transactTimeNs
      BY <1>2, <1>5 DEF Since
    <2>6. view' # None /\ view'.time >= since =>
            view'.order_status = MapOrderStatus(exchange'.ordStatus) /\ view'.traded = exchange'.cumQty
      BY <1>2, <1>5 DEF Since
    <2>7. QED
      BY <1>2, <1>3, <2>1, <2>2, <2>3, <2>4, <2>5, <2>6 DEF Since
  <1>10. exchange' # None /\ ~Ended' => Awaited' # {}
    BY <1>1, <1>2 DEF Ended
  <1>11. QED
    BY <1>2, <1>3, <1>9, <1>10 DEF ViewInv

\* What was on its way is lost, and the order is not confirmed any more.
LEMMA ViewDisconnected ==
    ASSUME IInv, ViewInv, Disconnected
    PROVE  ViewInv'
  <1>1. /\ feed' = [up |-> FALSE, queue |-> <<>>] /\ confirmed' = FALSE /\ query_old' = TRUE
        /\ UNCHANGED <<api, own, exchange, replies, travelling, view>>
    BY DEF Disconnected, exchangeVars
  <1>2. ~feed'.up /\ feed'.queue = <<>> /\ OnItsWay' = {} /\ Awaited' = {}
    BY <1>1 DEF OnItsWay, Awaited, Untold
  <1>3. \A m : Agrees(m)' <=> Agrees(m)
    BY <1>1 DEF Agrees
  <1>4. PICK since \in Int : Since(since)
    BY DEF ViewInv
  <1>5. Since(since)'
    <2>1. \A r \in replies' :
             r.order # None /\ r.order.transactTimeNs >= since => Agrees(r.order)'
      BY <1>1, <1>3, <1>4 DEF Since
    <2>2. view' # None /\ view'.time >= since =>
            view'.order_status = MapOrderStatus(exchange'.ordStatus) /\ view'.traded = exchange'.cumQty
      BY <1>1, <1>4 DEF Since
    <2>3. exchange' # None => since <= exchange'.transactTimeNs
      BY <1>1, <1>4 DEF Since
    <2>4. QED
      BY <1>1, <1>2, <2>1, <2>2, <2>3 DEF Since
  <1>6. QED
    BY <1>1, <1>2, <1>5 DEF ViewInv

LEMMA ViewStep == IInv /\ IInv' /\ FillsInv /\ ViewInv /\ [Next]_vars => ViewInv'
  <1> SUFFICES ASSUME IInv, IInv', FillsInv, ViewInv, [Next]_vars PROVE ViewInv'
    OBVIOUS
  <1> USE DEF exchangeVars, omsVars
  <1>1. CASE Book \/ Fill \/ Canceled
    BY <1>1, ViewEvent
  <1>2. CASE ExecuteCreate
    BY <1>2, ViewCreated
  <1>3. CASE ExecuteCancel
    <2>1. CASE exchange' = exchange
      <3>1. /\ UNCHANGED <<api, own, feed, view, confirmed, query_old>>
            /\ travelling' \subseteq travelling /\ replies' \subseteq replies
        BY <1>3, <2>1, CancelRefused DEF ExecuteCancel, Happens
      <3>2. feed.up \/ query_old' \/ NoQuery'
        BY <3>1 DEF ViewInv, NoQuery
      <3>3. QED
        BY <2>1, <3>1, <3>2, ViewKept
    <2>2. CASE exchange' # exchange
      BY <1>3, <2>2, ViewCancelAccepted
    <2>3. QED
      BY <2>1, <2>2
  <1>4. ASSUME NEW reply \in replies, OrderAck(reply) PROVE ViewInv'
    BY <1>4, ViewAck
  <1>5. CASE AccountsOrdersPositions
    BY <1>5, ViewTaken
  <1>6. CASE Subscribed
    BY <1>6, ViewSubscribed
  <1>7. CASE Disconnected
    BY <1>7, ViewDisconnected
  <1>8. CASE ExecuteQuery
    <2>1. feed.up \/ query_old' \/ NoQuery'
      BY <1>8 DEF ExecuteQuery, ViewInv, NoQuery
    <2>2. QED
      BY <1>8, <2>1, ViewKept DEF ExecuteQuery
  <1>9. CASE GetOrder
    <2>1. feed.up \/ query_old'
      BY <1>9 DEF GetOrder
    <2>2. \A reply \in replies' : reply.type # "query"
      BY <1>9 DEF GetOrder
    <2>3. /\ UNCHANGED <<api, exchange, feed, view, confirmed, own, replies>>
          /\ "create" \in travelling' => "create" \in travelling
      BY <1>9 DEF GetOrder
    <2>4. QED
      BY <2>1, <2>2, <2>3, ViewKept
  <1>10. CASE OrdersCreate
    <2>1. /\ UNCHANGED <<api, exchange, feed, view, confirmed, query_old, replies>>
          /\ own' = TRUE /\ exchange = None
          /\ "query" \in travelling' => "query" \in travelling
      BY <1>10 DEF OrdersCreate
    <2>2. feed.up \/ query_old' \/ NoQuery'
      BY <2>1 DEF ViewInv, NoQuery
    <2>3. QED
      BY <2>1, <2>2, ViewKept
  <1>11. CASE \/ OrdersCancel \/ \E reply \in replies : ErrorAck(reply)
              \/ GetUserFills \/ GetUserFillsAck
              \/ CheckStaleOrders \/ ProductsAck
              \/ UNCHANGED vars
    <2>1. /\ UNCHANGED <<api, exchange, feed, view, confirmed, query_old, own>>
          /\ replies' \subseteq replies
          /\ travelling' \subseteq travelling \union {"cancel"}
      BY <1>11
      DEF OrdersCancel, ErrorAck, GetUserFills, GetUserFillsAck, CheckStaleOrders, ProductsAck, vars
    <2>2. feed.up \/ query_old' \/ NoQuery'
      BY <2>1 DEF ViewInv, NoQuery
    <2>3. QED
      BY <2>1, <2>2, ViewKept
  <1>12. QED
    BY <1>1, <1>2, <1>3, <1>4, <1>5, <1>6, <1>7, <1>8, <1>9, <1>10, <1>11 DEF Next

LEMMA ViewInit == Init => ViewInv
  <1> SUFFICES ASSUME Init PROVE ViewInv
    OBVIOUS
  <1>1. OnItsWay = {} /\ Awaited = {}
    BY DEF Init, OnItsWay, Awaited
  <1>2. exchange # None => exchange.transactTimeNs = 2
    BY OrderType DEF Init
  <1>3. Since(2)
    BY <1>1, <1>2 DEF Init, Since
  <1>4. QED
    BY <1>3 DEF Init, ViewInv, NoQuery

\* When all is told, the cache has the order as the exchange has it, whatever was
\* late, lost, skipped or told twice, for any quantity and any factors.
THEOREM CacheIsTheExchanges == Spec => []ViewAgrees
  <1>1. IInv /\ ViewInv => ViewAgrees
    <2> SUFFICES ASSUME IInv, ViewInv, Quiet, Translated
                 PROVE  IF view = None
                        THEN exchange = None \/ Complete(MapOrderStatus(exchange.ordStatus))
                        ELSE /\ view.order_status = MapOrderStatus(exchange.ordStatus)
                             /\ view.traded = exchange.cumQty
      BY DEF ViewAgrees
    <2>1. feed.up /\ Awaited = {} /\ ~Stale
      BY DEF Quiet, Awaited
    <2>2. PICK since \in Int : Since(since)
      BY DEF ViewInv
    <2>3. CASE view = None
      <3>1. ~confirmed /\ ~own
        BY <2>1, <2>3 DEF ViewInv, Stale, ViewComplete
      <3>2. api = "USD_M"
        BY <3>1 DEF Translated
      <3>3. exchange = None \/ Ended
        BY <2>1, <2>3, <3>1, <3>2 DEF ViewInv
      <3>4. Ended => Complete(MapOrderStatus(exchange.ordStatus))
        BY DEF Ended, Complete, MapOrderStatus
      <3>5. QED
        BY <2>3, <3>3, <3>4
    <2>4. CASE view # None
      <3>1. view.time >= since
        <4>1. CASE confirmed
          BY <2>1, <2>2, <4>1 DEF Since, Covered
        <4>2. CASE ViewComplete
          <5>1. exchange # None /\ view.time = exchange.transactTimeNs /\ view.time \in Int
            BY <2>4, <4>2 DEF ViewComplete, IInv, Happened
          <5>2. QED
            BY <2>2, <5>1 DEF Since
        <4>3. QED
          BY <2>1, <2>4, <4>1, <4>2 DEF Stale
      <3>2. QED
        BY <2>2, <2>4, <3>1 DEF Since
    <2>5. QED
      BY <2>3, <2>4
  <1>2. IInv /\ [Next]_vars => IInv'
    BY InvariantStep
  <1>3. QED
    BY <1>1, <1>2, ViewInit, ViewStep, FillsInit, FillsStep, InvariantInit, PTL DEF Spec
=============================================================================
