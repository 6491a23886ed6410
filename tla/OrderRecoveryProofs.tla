------------------------ MODULE OrderRecoveryProofs ------------------------
(***************************************************************************)
(* Proofs about module OrderRecovery: its type correctness and safety, for *)
(* any set of orders and any value of the flags.                           *)
(***************************************************************************)
EXTENDS OrderRecovery, FiniteSetTheorems, TLAPS

\* Slots stay slots.
LEMMA SlotTypes ==
    ASSUME NEW slot \in Slot
    PROVE  /\ NewSlot \in Slot
           /\ Requested(slot) \in Slot
           /\ Taken(slot) \in Slot
           /\ Committed(slot) \in Slot
  BY DEF Slot, NewSlot, Requested, Taken, Committed

\* What each operation does to the fields of a slot.
LEMMA SlotFields ==
    ASSUME NEW slot \in Slot
    PROVE  /\ Requested(slot).pending /\ ~Requested(slot).answered
           /\ Requested(slot).waiting = slot.waiting
           /\ ~Taken(slot).pending /\ Taken(slot).waiting /\ ~Taken(slot).answered
           /\ Committed(slot).pending = slot.pending
           /\ ~Committed(slot).waiting /\ Committed(slot).answered
  BY DEF Slot, Requested, Taken, Committed

\* A set of orders is finite, and its cardinality is a natural number.
LEMMA OrderSetFinite ==
    ASSUME NEW S \in SUBSET Order
    PROVE  IsFiniteSet(S) /\ Cardinality(S) \in Nat
  BY OrderFinite, FS_Subset, FS_CardinalityType

-----------------------------------------------------------------------------
\* The initial states satisfy the invariant.
LEMMA InitIInv == Init => IInv
  <1> SUFFICES ASSUME Init PROVE IInv
    OBVIOUS
  <1> USE DEF Init, RequestInit, DropCopyInit, OrderQueryInit
  <1>1. TypeOK
    BY DEF TypeOK, RequestTypeOK, DropCopyTypeOK, OrderQueryTypeOK, NewSlot, Slot,
           Fatal, Socket, RequestId, Progress, ConnectionStatus, State, NewSession
  <1>2. CounterMatches
    BY FS_EmptySet DEF CounterMatches
  <1>3. QED
    BY <1>1, <1>2 DEF IInv, NoOrphan, NoUnexpected, NewSlot, NewSession, RequestId

-----------------------------------------------------------------------------
(* Each step preserves the invariant.                                      *)

\* Types of the session after a request was sent or answered.
LEMMA SessionTypes ==
    ASSUME session \in [RequestId -> Progress], NEW p \in Progress, NEW q \in Progress
    PROVE  /\ [session EXCEPT !["AUTH"] = p] \in [RequestId -> Progress]
           /\ [session EXCEPT !["AOP"] = q] \in [RequestId -> Progress]
           /\ [session EXCEPT !["AUTH"] = p, !["AOP"] = q] \in [RequestId -> Progress]
           /\ [session EXCEPT !["AUTH"] = p]["AOP"] = session["AOP"]
           /\ [session EXCEPT !["AOP"] = q]["AOP"] = q
  BY DEF RequestId

\* The callbacks that touch neither the slots nor the orders.
LEMMA SocketSteps ==
    ASSUME IInv, UNCHANGED <<requestVars, cacheVars, orderQueryVars>>,
           \/ Connected
           \/ SocketReady
           \/ Disconnected
           \/ \E success \in BOOLEAN : AuthAck(success)
    PROVE  IInv'
  <1> USE DEF requestVars, cacheVars, orderQueryVars
  <1>1. TypeOK'
    BY SessionTypes DEF IInv, TypeOK, RequestTypeOK, DropCopyTypeOK, OrderQueryTypeOK,
       Connected, SocketReady, Disconnected, AuthAck, EnterSubscribeAop, NewSession,
       RequestId, Progress, Socket, State, ConnectionStatus, Fatal, NoUnexpected
  <1>2. NoUnexpected'
    BY DEF IInv, NoUnexpected, Connected, SocketReady, Disconnected, AuthAck
  <1>3. (session["AOP"] = "sent" => download = "SUBSCRIBE_AOP")'
    BY SessionTypes DEF IInv, TypeOK, DropCopyTypeOK, Connected, SocketReady, Disconnected,
       AuthAck, EnterSubscribeAop, NewSession, RequestId, Progress
  <1>4. QED
    BY <1>1, <1>2, <1>3 DEF IInv, NoOrphan, CounterMatches

\* The answer to the subscription notes the stale orders, and as the download
\* waits for nothing else it goes on to request them.
LEMMA AopAckStep ==
    ASSUME IInv, UNCHANGED orderQueryVars, NEW success \in BOOLEAN, AopAck(success)
    PROVE  IInv'
  <1> USE DEF orderQueryVars, cacheVars
  <1>1. download = "SUBSCRIBE_AOP" /\ EnterGetStaleOrders
    BY DEF IInv, AopAck
  <1>2. details_stale_orders' \in SUBSET Order
    BY DEF IInv, TypeOK, RequestTypeOK, AopAck, CollectStaleOrders
  <1>3. /\ session' \in [RequestId -> Progress]
        /\ session'["AOP"] # "sent"
    BY SessionTypes DEF IInv, TypeOK, DropCopyTypeOK, AopAck, Progress, RequestId
  <1>4. /\ stale_orders' \in {stale_orders, Requested(stale_orders)}
        /\ details_stale_orders' # {} => stale_orders' = Requested(stale_orders)
        /\ trades' \in {trades, Requested(trades)}
        /\ download' \in State /\ connection_status' \in ConnectionStatus
    BY <1>1 DEF EnterGetStaleOrders, EnterGetTrades, EnterDone, NotedOrders,
       State, ConnectionStatus
  <1>5. /\ stale_orders \in Slot /\ trades \in Slot
    BY DEF IInv, TypeOK, RequestTypeOK
  <1>6. TypeOK'
    BY <1>2, <1>3, <1>4, <1>5, SlotTypes DEF IInv, TypeOK, RequestTypeOK, DropCopyTypeOK,
       OrderQueryTypeOK, AopAck
  <1>7. NoOrphan' /\ NoUnexpected'
    BY <1>4, <1>5, SlotFields DEF IInv, NoOrphan, NoUnexpected, AopAck
  <1>8. QED
    BY <1>3, <1>4, <1>5, <1>6, <1>7, SlotFields DEF IInv, CounterMatches

\* An AOP message only removes flags.
LEMMA AopMessageStep ==
    ASSUME IInv, UNCHANGED orderQueryVars, NEW type \in UpdateType,
           NEW open \in SUBSET Order, NEW complete \in SUBSET Order,
           AopMessage(type, open, complete)
    PROVE  IInv'
  <1> USE DEF orderQueryVars, requestVars, dropCopyVars
  <1>1. stale' \in SUBSET Order
    BY DEF IInv, TypeOK, RequestTypeOK, AopMessage, Dispatch
  <1>2. TypeOK'
    BY <1>1 DEF IInv, TypeOK, RequestTypeOK, DropCopyTypeOK, OrderQueryTypeOK, AopMessage
  <1>3. QED
    BY <1>2 DEF IInv, NoOrphan, CounterMatches, NoUnexpected, AopMessage

\* The timer of the drop copy.  An answered request that is not pending again
\* finds no order noted, so the download goes on; what the second half notes it
\* also requests.
LEMMA DropCopyTimerStep ==
    ASSUME IInv, UNCHANGED orderQueryVars, NEW due \in BOOLEAN, DropCopyTimer(due)
    PROVE  IInv'
  <1> USE DEF orderQueryVars, cacheVars
  <1>1. /\ stale_orders \in Slot /\ trades \in Slot
        /\ details_stale_orders \in SUBSET Order /\ stale \in SUBSET Order
    BY DEF IInv, TypeOK, RequestTypeOK
  <1>2. /\ trades' \in {trades, Requested(trades)}
        /\ download' \in State /\ connection_status' \in ConnectionStatus
        /\ fatal' = fatal
        /\ download = "SUBSCRIBE_AOP" => download' = "SUBSCRIBE_AOP"
    <2>1. CASE download = "GET_STALE_ORDERS" /\ HasResponse(stale_orders)
      <3>1. details_stale_orders = {}
        BY <2>1 DEF IInv, NoOrphan, HasResponse
      <3>2. EnterGetTrades /\ UNCHANGED fatal
        BY <2>1, <3>1 DEF DropCopyTimer, CheckRequestQueue
      <3>3. QED
        BY <2>1, <3>2 DEF EnterGetTrades, EnterDone, State, ConnectionStatus
    <2>2. CASE download = "GET_TRADES" /\ HasResponse(trades)
      BY <2>2 DEF DropCopyTimer, CheckRequestQueue, EnterDone, State, ConnectionStatus
    <2>3. CASE /\ download = "GET_STALE_ORDERS" => ~HasResponse(stale_orders)
               /\ download = "GET_TRADES" => ~HasResponse(trades)
      BY <2>3 DEF IInv, TypeOK, DropCopyTypeOK, DropCopyTimer, CheckRequestQueue
    <2>4. QED
      BY <2>1, <2>2, <2>3
  <1>3. /\ details_stale_orders' \in SUBSET Order
        /\ stale_orders' \in {stale_orders, Requested(stale_orders)}
        /\ (details_stale_orders' # {})
              => (stale_orders' = Requested(stale_orders) \/ details_stale_orders # {})
    BY <1>1 DEF DropCopyTimer, CheckStaleOrders, CollectStaleOrders, RequestIfNew
  <1>4. TypeOK'
    BY <1>1, <1>2, <1>3, SlotTypes DEF IInv, TypeOK, RequestTypeOK, DropCopyTypeOK,
       OrderQueryTypeOK, DropCopyTimer
  <1>5. NoOrphan' /\ NoUnexpected'
    BY <1>1, <1>2, <1>3, SlotFields DEF IInv, NoOrphan, NoUnexpected
  <1>6. QED
    BY <1>1, <1>2, <1>3, <1>4, <1>5, SlotFields DEF IInv, CounterMatches, DropCopyTimer

LEMMA DropCopyStep ==
    ASSUME IInv, DropCopyNext, UNCHANGED orderQueryVars
    PROVE  IInv'
  <1>1. CASE \/ Connected \/ SocketReady \/ Disconnected
             \/ \E success \in BOOLEAN : AuthAck(success)
    <2>1. UNCHANGED <<requestVars, cacheVars>>
      BY <1>1 DEF Connected, SocketReady, Disconnected, AuthAck
    <2>2. QED
      BY <1>1, <2>1, SocketSteps
  <1>2. CASE \E success \in BOOLEAN : AopAck(success)
    BY <1>2, AopAckStep
  <1>3. CASE \E type \in UpdateType, open, complete \in SUBSET Order :
               AopMessage(type, open, complete)
    BY <1>3, AopMessageStep
  <1>4. CASE \E due \in BOOLEAN : DropCopyTimer(due)
    BY <1>4, DropCopyTimerStep
  <1>5. QED
    BY <1>1, <1>2, <1>3, <1>4 DEF DropCopyNext

-----------------------------------------------------------------------------
\* A batch is sent when nothing is under way, so the counter starts from zero.
LEMMA SendStaleOrdersStep ==
    ASSUME IInv, UNCHANGED dropCopyVars, SendStaleOrders
    PROVE  IInv'
  <1> USE DEF dropCopyVars, cacheVars
  <1> DEFINE found == details_stale_orders \ forgotten
  <1>1. stale_orders \in Slot /\ found \in SUBSET Order
    BY DEF IInv, TypeOK, RequestTypeOK
  <1>2. asked = {} /\ ~fills_asked /\ ~trades.waiting
    BY DEF IInv, SendStaleOrders, RequestReady, IsReady
  <1>3. download_stale_orders_counter = 0
    BY <1>2, FS_EmptySet DEF IInv, CounterMatches
  <1>4. Cardinality(found) \in Nat
    BY <1>1, OrderSetFinite
  <1>5. /\ asked' = found
        /\ download_stale_orders_counter' = Cardinality(found)
    BY <1>2, <1>3, <1>4 DEF SendStaleOrders
  <1>6. TypeOK'
    BY <1>1, <1>4, <1>5, SlotTypes DEF IInv, TypeOK, RequestTypeOK, DropCopyTypeOK,
       OrderQueryTypeOK, SendStaleOrders, ClearDetails
  <1>7. NoOrphan' /\ CounterMatches' /\ NoUnexpected'
    BY <1>5 DEF IInv, NoOrphan, CounterMatches, NoUnexpected, SendStaleOrders, ClearDetails
  <1>8. QED
    BY <1>1, <1>2, <1>6, <1>7, SlotFields DEF IInv, SendStaleOrders

\* An answer takes one order out of those asked for and one off the counter,
\* which reach nothing and zero together.
LEMMA GetOrderAckStep ==
    ASSUME IInv, UNCHANGED dropCopyVars,
           NEW order \in Order, NEW outcome \in Outcome, GetOrderAck(order, outcome)
    PROVE  IInv'
  <1> USE DEF dropCopyVars, cacheVars
  <1>1. /\ stale_orders \in Slot /\ asked \in SUBSET Order /\ order \in asked
        /\ asked' = asked \ {order}
        /\ stale_orders.waiting /\ ~trades.waiting
    BY DEF IInv, TypeOK, RequestTypeOK, OrderQueryTypeOK, GetOrderAck
  <1>2. /\ IsFiniteSet(asked) /\ Cardinality(asked) \in Nat
        /\ IsFiniteSet(asked') /\ Cardinality(asked') \in Nat
    BY <1>1, OrderSetFinite
  <1>3. Cardinality(asked') = Cardinality(asked) - 1
    BY <1>1, <1>2, FS_RemoveElement
  <1>4. download_stale_orders_counter = Cardinality(asked)
    BY DEF IInv, CounterMatches
  <1>5. download_stale_orders_counter > 0
    BY <1>2, <1>3, <1>4
  <1>6. /\ download_stale_orders_counter' = download_stale_orders_counter - 1
        /\ stale_orders' = AfterAnswer(stale_orders)
        /\ fatal' = fatal
    BY <1>5 DEF GetOrderAck, CountDown
  <1>7. download_stale_orders_counter = 1 => asked' = {}
    BY <1>2, <1>3, <1>4, FS_EmptySet
  <1>8. download_stale_orders_counter # 1 => stale_orders' = stale_orders
    BY <1>6 DEF AfterAnswer
  <1>9. stale_orders' \in {stale_orders, Committed(stale_orders)}
    BY <1>6 DEF AfterAnswer
  <1>10. stale' \in SUBSET Order
    BY DEF IInv, TypeOK, RequestTypeOK, GetOrderAck, Dispatch
  <1>11. TypeOK'
    BY <1>1, <1>2, <1>3, <1>4, <1>6, <1>9, <1>10, SlotTypes DEF IInv, TypeOK, RequestTypeOK,
       DropCopyTypeOK, OrderQueryTypeOK, GetOrderAck
  <1>12. NoOrphan' /\ CounterMatches' /\ NoUnexpected'
    BY <1>1, <1>3, <1>4, <1>6, <1>9, SlotFields
    DEF IInv, NoOrphan, CounterMatches, NoUnexpected, GetOrderAck
  <1>13. QED
    BY <1>1, <1>7, <1>8, <1>9, <1>11, <1>12, SlotFields DEF IInv, GetOrderAck

\* The other steps of the order entry leave the counter alone.
LEMMA OtherOrderQuerySteps ==
    ASSUME IInv, UNCHANGED dropCopyVars,
           OrderEntryConnected \/ OrderEntryDisconnected \/ SendTrades \/ GetUserFillsAck
    PROVE  IInv'
  <1> USE DEF dropCopyVars, cacheVars, requestVars, OrderEntryConnected,
              OrderEntryDisconnected, SendTrades, GetUserFillsAck
  <1>1. trades \in Slot
    BY DEF IInv, TypeOK, RequestTypeOK
  <1>2. TypeOK'
    BY <1>1, SlotTypes DEF IInv, TypeOK, RequestTypeOK, DropCopyTypeOK, OrderQueryTypeOK
  <1>3. NoOrphan' /\ CounterMatches' /\ NoUnexpected'
    BY DEF IInv, NoOrphan, CounterMatches, NoUnexpected
  <1>4. QED
    BY <1>1, <1>2, <1>3, SlotFields DEF IInv, RequestReady, IsReady

LEMMA OrderQueryStep ==
    ASSUME IInv, OrderQueryNext, UNCHANGED dropCopyVars
    PROVE  IInv'
  BY SendStaleOrdersStep, GetOrderAckStep, OtherOrderQuerySteps DEF OrderQueryNext

\* What the cache does by itself changes its flags only.
LEMMA CacheStep ==
    ASSUME IInv, CacheNext, UNCHANGED <<dropCopyVars, orderQueryVars>>
    PROVE  IInv'
  <1> USE DEF CacheNext, LoseTrack, Forget, dropCopyVars, orderQueryVars, requestVars
  <1>1. TypeOK'
    BY DEF IInv, TypeOK, RequestTypeOK, DropCopyTypeOK, OrderQueryTypeOK
  <1>2. QED
    BY <1>1 DEF IInv, NoOrphan, CounterMatches, NoUnexpected

LEMMA StutterStep ==
    ASSUME IInv, UNCHANGED vars
    PROVE  IInv'
  BY DEF vars, dropCopyVars, orderQueryVars, requestVars, cacheVars, IInv, TypeOK,
     RequestTypeOK, DropCopyTypeOK, OrderQueryTypeOK, NoOrphan, CounterMatches, NoUnexpected

LEMMA NextIInv == IInv /\ [Next]_vars => IInv'
  BY DropCopyStep, OrderQueryStep, CacheStep, StutterStep DEF Next

-----------------------------------------------------------------------------
(* The theorems.                                                           *)

\* The invariant holds in every reachable state.
THEOREM InductiveInvariant == Spec => []IInv
  BY InitIInv, NextIInv, PTL DEF Spec

\* Type correctness of the drop copy, the order query and what they share.
THEOREM TypeCorrect == Spec => []TypeOK
  <1>1. IInv => TypeOK
    BY DEF IInv
  <1>2. QED
    BY <1>1, InductiveInvariant, PTL

\* No lost order is noted without a request that will query it.
THEOREM OrphansNever == Spec => []NoOrphan
  <1>1. IInv => NoOrphan
    BY DEF IInv
  <1>2. QED
    BY <1>1, InductiveInvariant, PTL

\* The counter of the order entry is the number of queries under way.
THEOREM CounterCorrect == Spec => []CounterMatches
  <1>1. IInv => CounterMatches
    BY DEF IInv
  <1>2. QED
    BY <1>1, InductiveInvariant, PTL

\* Neither log::fatal("Unexpected") of the recovery is reachable.
THEOREM UnexpectedNever == Spec => []NoUnexpected
  <1>1. IInv => NoUnexpected
    BY DEF IInv
  <1>2. QED
    BY <1>1, InductiveInvariant, PTL

\* A query starts only when no other one is under way: both slots are ready,
\* and a slot waits as long as its query is under way.
THEOREM QueriesAlone == Spec => OneQueryAtATime
  <1>1. IInv /\ [Next]_vars => [QueryStarts => asked = {} /\ ~fills_asked]_vars
    <2> SUFFICES ASSUME IInv, Next, QueryStarts PROVE asked = {} /\ ~fills_asked
      OBVIOUS
    <2>1. CASE OrderQueryNext
      <3>1. SendStaleOrders \/ SendTrades
        BY <2>1 DEF OrderQueryNext, QueryStarts, OrderEntryConnected, OrderEntryDisconnected,
                    GetOrderAck, GetUserFillsAck
      <3>2. RequestReady
        BY <3>1 DEF SendStaleOrders, SendTrades
      <3>3. QED
        BY <3>2 DEF IInv, RequestReady, IsReady
    <2>2. CASE UNCHANGED orderQueryVars
      BY <2>2 DEF QueryStarts, orderQueryVars
    <2>3. QED
      BY <2>1, <2>2 DEF Next
  <1>2. QED
    BY <1>1, InductiveInvariant, PTL DEF Spec, OneQueryAtATime

\* The download goes on only when its request has been answered.  Only the
\* timer makes it go on from a query: the answer to the subscription comes in
\* another state, and the answer to the login starts over.
THEOREM DownloadNeverOvertakes == Spec => DownloadWaits
  <1> DEFINE A == /\ GoesOn("GET_STALE_ORDERS", {"GET_TRADES", "DONE"})
                       => details_stale_orders = {} /\ asked = {}
                  /\ GoesOn("GET_TRADES", {"DONE"}) => ~trades.pending /\ ~fills_asked
  <1>1. IInv /\ [Next]_vars => [A]_vars
    <2> SUFFICES ASSUME IInv, Next PROVE A
      OBVIOUS
    <2>1. CASE UNCHANGED download
      BY <2>1 DEF GoesOn
    <2>2. CASE \E due \in BOOLEAN : DropCopyTimer(due)
      <3>1. GoesOn("GET_STALE_ORDERS", {"GET_TRADES", "DONE"}) => HasResponse(stale_orders)
        BY <2>2 DEF GoesOn, DropCopyTimer, CheckRequestQueue
      <3>2. GoesOn("GET_TRADES", {"DONE"}) => HasResponse(trades)
        BY <2>2 DEF GoesOn, DropCopyTimer, CheckRequestQueue
      <3>3. QED
        BY <3>1, <3>2 DEF IInv, NoOrphan, HasResponse
    <2>3. CASE \E success \in BOOLEAN : AuthAck(success)
      BY <2>3 DEF AuthAck, EnterSubscribeAop, GoesOn
    <2>4. CASE \E success \in BOOLEAN : AopAck(success)
      BY <2>4 DEF AopAck, IInv, GoesOn
    <2>5. QED
      BY <2>1, <2>2, <2>3, <2>4 DEF Next, DropCopyNext, Connected, SocketReady, Disconnected,
         AopMessage, dropCopyVars
  <1>2. QED
    BY <1>1, InductiveInvariant, PTL DEF Spec, DownloadWaits

-----------------------------------------------------------------------------
(* Nothing comes to a halt.                                                *)

Used(slot) == slot.pending \/ slot.waiting \/ slot.answered

\* What NeverStuck needs besides IInv: a session that is up is at one of the
\* requests or in one of the queries of the download, and the download is in a
\* query only if it was requested; a slot that was used once is never unused
\* again, also when the session that used it is gone.
ProgressInv ==
    /\ Alive /\ socket = "up" /\ connection_status # "READY" =>
         \/ session["AUTH"] = "sent" \/ session["AOP"] = "sent"
         \/ download \in {"GET_STALE_ORDERS", "GET_TRADES"}
    /\ download = "GET_STALE_ORDERS" => Used(stale_orders)
    /\ download = "GET_TRADES" => Used(trades)

\* Whatever is done to a slot that was used leaves it used, and what was done to
\* it has used it.
LEMMA StaysUsed ==
    ASSUME NEW slot \in Slot
    PROVE  /\ Used(Requested(slot)) /\ Used(Taken(slot)) /\ Used(Committed(slot))
  BY SlotFields DEF Used

LEMMA ProgressInit == Init => ProgressInv
  BY DEF Init, DropCopyInit, ProgressInv

LEMMA SlotsStayUsed ==
    ASSUME IInv, [Next]_vars
    PROVE  /\ Used(stale_orders) => Used(stale_orders')
           /\ Used(trades) => Used(trades')
  <1>1. stale_orders \in Slot /\ trades \in Slot
    BY DEF IInv, TypeOK, RequestTypeOK
  <1>2. /\ stale_orders' \in {stale_orders, Requested(stale_orders), Taken(stale_orders),
                             Committed(stale_orders)}
        /\ trades' \in {trades, Requested(trades), Taken(trades), Committed(trades)}
    <2>1. CASE DropCopyNext
      <3>1. CASE \E success \in BOOLEAN : AopAck(success)
        BY <3>1 DEF AopAck, EnterGetStaleOrders, EnterGetTrades
      <3>2. CASE \E due \in BOOLEAN : DropCopyTimer(due)
        <4>1. PICK due \in BOOLEAN : CheckRequestQueue /\ CheckStaleOrders(due)
          BY <3>2 DEF DropCopyTimer
        <4>2. trades' \in {trades, Requested(trades)}
          BY <4>1 DEF CheckRequestQueue, EnterGetTrades
        <4>3. stale_orders' \in {stale_orders, Requested(stale_orders)}
          BY <4>1 DEF CheckStaleOrders, RequestIfNew
        <4>4. QED
          BY <4>2, <4>3
      <3>3. QED
        BY <2>1, <3>1, <3>2 DEF DropCopyNext, Connected, SocketReady, Disconnected, AuthAck,
           AopMessage, requestVars
    <2>2. CASE OrderQueryNext
      BY <2>2 DEF OrderQueryNext, OrderEntryConnected, OrderEntryDisconnected, SendStaleOrders,
         SendTrades, GetOrderAck, CountDown, AfterAnswer, GetUserFillsAck, requestVars
    <2>3. CASE CacheNext \/ UNCHANGED vars
      BY <2>3 DEF CacheNext, LoseTrack, Forget, vars, requestVars
    <2>4. QED
      BY <2>1, <2>2, <2>3 DEF Next
  <1>3. QED
    BY <1>1, <1>2, StaysUsed

LEMMA ProgressStep ==
    ASSUME IInv, ProgressInv, [Next]_vars
    PROVE  ProgressInv'
  <1>1. stale_orders \in Slot /\ trades \in Slot /\ session \in [RequestId -> Progress]
    BY DEF IInv, TypeOK, RequestTypeOK, DropCopyTypeOK
  <1>2. CASE UNCHANGED dropCopyVars /\ (Alive' => Alive)
    BY <1>2, SlotsStayUsed DEF ProgressInv, dropCopyVars
  <1>3. CASE Connected
    BY <1>3, SlotsStayUsed DEF Connected, ProgressInv
  <1>4. CASE SocketReady
    <2>1. session'["AUTH"] = "sent"
      BY <1>1, <1>4 DEF SocketReady, RequestId
    <2>2. QED
      BY <1>4, <2>1, SlotsStayUsed DEF SocketReady, ProgressInv
  <1>5. CASE Disconnected
    BY <1>5, SlotsStayUsed DEF Disconnected, ProgressInv
  <1>6. ASSUME NEW success \in BOOLEAN, AuthAck(success)
        PROVE  ProgressInv'
    <2>1. CASE success
      <3>1. download' = "SUBSCRIBE_AOP" /\ session'["AOP"] = "sent"
        BY <1>1, <1>6, <2>1 DEF AuthAck, EnterSubscribeAop, RequestId
      <3>2. QED
        BY <3>1 DEF ProgressInv
    <2>2. CASE ~success
      <3>1. (socket' = "closing" \/ fatal' = "logon") /\ download' = download
        BY <1>6, <2>2 DEF AuthAck
      <3>2. QED
        BY <3>1, SlotsStayUsed DEF ProgressInv, Alive
    <2>3. QED
      BY <2>1, <2>2
  <1>7. ASSUME NEW success \in BOOLEAN, AopAck(success)
        PROVE  ProgressInv'
    <2>1. EnterGetStaleOrders
      BY <1>7 DEF IInv, AopAck
    <2>2. \/ download' = "GET_STALE_ORDERS" /\ stale_orders' = Requested(stale_orders)
          \/ download' = "GET_TRADES" /\ trades' = Requested(trades)
          \/ download' = "DONE" /\ connection_status' = "READY"
      BY <2>1 DEF EnterGetStaleOrders, EnterGetTrades, EnterDone
    <2>3. QED
      BY <1>1, <2>2, StaysUsed DEF ProgressInv
  <1>8. ASSUME NEW due \in BOOLEAN, DropCopyTimer(due)
        PROVE  ProgressInv'
    <2>1. CheckRequestQueue /\ Alive /\ socket = "up" /\ UNCHANGED <<socket, session>>
      BY <1>8 DEF DropCopyTimer
    <2>2. \/ download' = "GET_TRADES" /\ trades' = Requested(trades)
          \/ download' = "DONE" /\ connection_status' = "READY"
          \/ UNCHANGED <<download, connection_status>>
      BY <2>1 DEF CheckRequestQueue, EnterGetTrades, EnterDone
    <2>3. CASE UNCHANGED <<download, connection_status>>
      BY <2>1, <2>3, SlotsStayUsed DEF ProgressInv
    <2>4. QED
      BY <1>1, <2>2, <2>3, StaysUsed DEF ProgressInv
  <1>9. QED
    <2>1. CASE DropCopyNext
      <3>1. CASE \E type \in UpdateType, open, complete \in SUBSET Order :
                   AopMessage(type, open, complete)
        BY <1>2, <3>1 DEF AopMessage, Alive
      <3>2. QED
        BY <2>1, <1>3, <1>4, <1>5, <1>6, <1>7, <1>8, <3>1 DEF DropCopyNext
    <2>2. CASE OrderQueryNext /\ UNCHANGED dropCopyVars
      <3>1. Alive
        BY <2>2 DEF OrderQueryNext, OrderEntryConnected, OrderEntryDisconnected, SendStaleOrders,
           SendTrades, GetOrderAck, GetUserFillsAck
      <3>2. QED
        BY <1>2, <2>2, <3>1
    <2>3. CASE CacheNext /\ UNCHANGED dropCopyVars
      BY <1>2, <2>3 DEF CacheNext, LoseTrack, Forget
    <2>4. CASE UNCHANGED vars
      BY <1>2, <2>4 DEF vars, Alive
    <2>5. QED
      BY <2>1, <2>2, <2>3, <2>4 DEF Next

\* A slot that was used and is not pending is served or has been answered, and
\* what is served is under way: only orders that the cache dropped are not.
LEMMA UsedMoves ==
    ASSUME IInv
    PROVE  /\ stale_orders.waiting => asked # {} \/ Emptied
           /\ Used(stale_orders) => StaleOrdersMove
           /\ Used(trades) => TradesMove
  <1>1. stale_orders.waiting => asked # {} \/ Emptied
    BY FS_EmptySet DEF IInv, CounterMatches, Emptied
  <1>2. QED
    BY <1>1 DEF IInv, Used, StaleOrdersMove, TradesMove, HasResponse

\* Whatever the number of orders and the history of sessions, no session comes to
\* a halt on its way to READY: this is the part of BecomesReady that does not
\* need fairness.
THEOREM SessionsGoOn == Spec => []NeverStuck
  <1>1. IInv /\ ProgressInv => NeverStuck
    <2> SUFFICES ASSUME IInv, ProgressInv PROVE NeverStuck
      OBVIOUS
    <2>1. ~RequestReady => asked # {} \/ fills_asked \/ Emptied
      BY UsedMoves DEF IInv, RequestReady, IsReady
    <2>2. ASSUME Alive, socket = "up", connection_status # "READY"
          PROVE  \/ \E id \in RequestId : session[id] = "sent"
                 \/ download = "GET_STALE_ORDERS" /\ StaleOrdersMove
                 \/ download = "GET_TRADES" /\ TradesMove
      BY <2>2, UsedMoves DEF ProgressInv, RequestId
    <2>3. QED
      BY <2>1, <2>2 DEF NeverStuck
  <1>2. QED
    BY <1>1, ProgressInit, ProgressStep, InitIInv, NextIInv, PTL DEF Spec
=============================================================================
