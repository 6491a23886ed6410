-------------------------- MODULE OrderEntryProofs --------------------------
(***************************************************************************)
(* Order entry implements ActionService, for any orders, symbols and       *)
(* number of requests.                                                     *)
(***************************************************************************)
EXTENDS OrderEntry, TLAPS

\* Creates, modifications and cancels are told apart by their type; those of an
\* order from the cancels of a symbol, too.
LEMMA ActionTypes ==
    /\ OrderAction \subseteq Action
    /\ \A order \in Order : CreateOrder(order) \in OrderAction
    /\ \A order \in Order, version \in 2 .. MaxVersion :
         /\ ModifyOrder(order, version) \in OrderAction
         /\ CancelOrder(order, version) \in OrderAction
    /\ \A of \in Symbol, call \in 1 .. MaxCalls :
         /\ CancelAllOrders(of, call) \in Action \ OrderAction
         /\ CancelAllOrders(of, call).type = "CANCEL_ALL_ORDERS"
         /\ CancelAllOrders(of, call).id = of
         /\ CancelAllOrders(of, call).version = call
    /\ \A action \in OrderAction : action.type # "CANCEL_ALL_ORDERS"
    /\ \A action \in Action \ OrderAction :
         /\ action.type = "CANCEL_ALL_ORDERS"
         /\ action.version \in 1 .. MaxCalls
<1>1. /\ \A order \in Order : CreateOrder(order).type = "CREATE_ORDER"
      /\ \A order \in Order, version \in 2 .. MaxVersion :
           /\ ModifyOrder(order, version).type = "MODIFY_ORDER"
           /\ CancelOrder(order, version).type = "CANCEL_ORDER"
      /\ \A of \in Symbol, call \in 1 .. MaxCalls :
           /\ CancelAllOrders(of, call).type = "CANCEL_ALL_ORDERS"
           /\ CancelAllOrders(of, call).id = of
           /\ CancelAllOrders(of, call).version = call
  BY DEF CreateOrder, ModifyOrder, CancelOrder, CancelAllOrders, Act
<1>2. \A action \in OrderAction : action.type # "CANCEL_ALL_ORDERS"
  BY <1>1 DEF OrderAction
<1>3. \A of \in Symbol, call \in 1 .. MaxCalls :
        CancelAllOrders(of, call) \in Action \ OrderAction
  BY <1>1, <1>2 DEF Action, CancelAll
<1>4. \A action \in CancelAll :
        action.type = "CANCEL_ALL_ORDERS" /\ action.version \in 1 .. MaxCalls
  BY <1>1 DEF CancelAll
<1> QED
  BY <1>1, <1>2, <1>3, <1>4 DEF Action, OrderAction

\* What is asked for again is something else.
LEMMA IsNew ==
    ASSUME NEW order \in Order, NEW version \in Nat, NEW type,
           Act(type, order, version) \in OrderAction,
           IsNextVersion(order, version)
    PROVE  Act(type, order, version) \notin sent \union thrown
<1>1. Act(type, order, version).id = order /\ Act(type, order, version).version = version
  BY DEF Act
<1> QED
  BY <1>1 DEF IsNextVersion

\* ... and so is a further cancel of all orders.
LEMMA IsNewCall ==
    ASSUME IInv, NEW symbols \in SUBSET Symbol, calls < MaxCalls
    PROVE  /\ {CancelAllOrders(of, calls + 1) : of \in symbols} \in SUBSET (Action \ OrderAction)
           /\ \A action \in {CancelAllOrders(of, calls + 1) : of \in symbols} :
                /\ action \notin sent \union thrown
                /\ action.version = calls + 1
<1>1. calls + 1 \in 1 .. MaxCalls /\ calls \in Nat
  BY MaxCallsAssumption DEF IInv, TypeOK
<1>2. \A of \in symbols : /\ CancelAllOrders(of, calls + 1) \in Action \ OrderAction
                          /\ CancelAllOrders(of, calls + 1).version = calls + 1
  BY <1>1, ActionTypes
<1>3. \A of \in symbols : CancelAllOrders(of, calls + 1) \notin sent \union thrown
  BY <1>1, <1>2 DEF IInv
<1> QED
  BY <1>2, <1>3

\* The calls and what they cover when actions are sent on or refused.
CallStep(actions) ==
    /\ calls' \in calls .. MaxCalls
    /\ covered' \in SUBSET Order
    /\ \A action \in actions \ OrderAction : action.version <= calls'

LEMMA SendOnce ==
    ASSUME IInv, NEW actions \in SUBSET Action,
           actions \intersect (sent \union thrown) = {},
           Send(actions, actions),
           CallStep(actions)
    PROVE  IInv'
<1>1. \A action \in Action :
        exchange'[action] = IF action \in actions THEN "travelling" ELSE exchange[action]
  BY DEF Send
<1>2. \A action \in actions : action \in Action \ (sent \union thrown \union waiting)
  BY DEF IInv
<1>3. TypeOK'
  BY MaxCallsAssumption
     DEF IInv, TypeOK, Send, CallStep, fixedVars, connectionVars, answerVars
<1>4. (thrown \intersect sent = {})' /\ (waiting \subseteq sent)'
  BY <1>2 DEF IInv, Send
<1>5. \A action \in Action : (exchange[action] = "none" <=> action \notin sent)'
  BY <1>1, <1>2 DEF IInv, Send
<1>6. \A action \in OrderAction :
        /\ (answer[action] # "none" <=> action \in sent \ waiting)'
        /\ (answer[action] # "twice")'
        /\ (answer[action] = "ACCEPTED" => exchange[action] = "done")'
        /\ (answer[action] = "REFUSED" => exchange[action] = "refused")'
  BY <1>1, <1>2, ActionTypes DEF IInv, Send, answerVars
<1>7. \A action \in (sent \union thrown) \ OrderAction : action.version <= calls'
  BY ActionTypes, MaxCallsAssumption DEF IInv, TypeOK, CallStep
<1>8. (\A action \in (sent \union thrown) \ OrderAction : action.version <= calls)'
  BY <1>7 DEF Send, CallStep
<1> QED
  BY <1>3, <1>4, <1>5, <1>6, <1>8 DEF IInv

LEMMA ThrowOnce ==
    ASSUME IInv, NEW actions \in SUBSET Action,
           actions \intersect (sent \union thrown) = {},
           Throw(actions),
           CallStep(actions)
    PROVE  IInv'
<1>1. TypeOK'
  BY MaxCallsAssumption
     DEF IInv, TypeOK, Throw, CallStep, fixedVars, connectionVars, answerVars, exchangeVars
<1>2. \A action \in (sent \union thrown) \ OrderAction : action.version <= calls'
  BY ActionTypes, MaxCallsAssumption DEF IInv, TypeOK, CallStep
<1>3. (\A action \in (sent \union thrown) \ OrderAction : action.version <= calls)'
  BY <1>2 DEF Throw, CallStep
<1> QED
  BY <1>1, <1>3 DEF IInv, Throw, answerVars, exchangeVars

LEMMA ReturnOnce ==
    ASSUME IInv, NEW request \in OrderAction, NEW result \in Result,
           NEW status \in Status,
           Return(request, result),
           status = "ACCEPTED" => exchange[request] = "done",
           status = "REFUSED" => exchange[request] = "refused",
           answer' = Told(request, status),
           UNCHANGED failures
    PROVE  IInv'
<1>1. /\ request \in waiting /\ waiting' = waiting \ {request}
      /\ UNCHANGED <<api, symbol, ready, security, halted, calls, thrown, sent, covered,
                     exchange, cancelled>>
  BY DEF Return, fixedVars, connectionVars, exchangeVars
<1>2. answer[request] = "none"
  BY <1>1 DEF IInv
<1>3. answer' = [answer EXCEPT ![request] = status]
  BY <1>2 DEF Told, IInv, TypeOK
<1>4. TypeOK'
  BY <1>1, <1>3 DEF IInv, TypeOK
<1>5. status # "none" /\ status # "twice"
  BY DEF Status, Unknown
<1>6. \A action \in OrderAction :
        /\ (answer[action] # "none" <=> action \in sent \ waiting)'
        /\ (answer[action] # "twice")'
        /\ (answer[action] = "ACCEPTED" => exchange[action] = "done")'
        /\ (answer[action] = "REFUSED" => exchange[action] = "refused")'
  BY <1>1, <1>3, <1>5 DEF IInv, TypeOK
<1> QED
  BY <1>1, <1>4, <1>6 DEF IInv

LEMMA TrueStatus ==
    ASSUME NEW request \in Action, NEW result \in Result, Possible(request, result)
    PROVE  /\ ProcessResponse(result) \in Status
           /\ ProcessResponse(result) = "ACCEPTED" => exchange[request] = "done"
           /\ ProcessResponse(result) = "REFUSED" => exchange[request] = "refused"
BY DEF Possible, ProcessResponse, Status, Unknown, Result

LEMMA InvariantInit == Init => IInv
<1> SUFFICES ASSUME Init PROVE IInv
  OBVIOUS
<1>1. TypeOK
  <2>1. answer \in [OrderAction -> Status \union {"none", "twice"}]
    BY DEF Init
  <2>2. exchange \in [Action -> {"none", "travelling", "done", "refused"}]
    BY DEF Init
  <2>3. calls \in 0 .. MaxCalls /\ failures \in Nat
    BY MaxCallsAssumption DEF Init
  <2> QED
    BY <2>1, <2>2, <2>3, Zenon DEF Init, TypeOK
<1>2. \A action \in OrderAction : answer[action] = "none"
  BY DEF Init
<1>3. \A action \in Action : exchange[action] = "none"
  BY DEF Init
<1>4. thrown = {} /\ sent = {} /\ waiting = {}
  BY DEF Init
<1> QED
  BY <1>1, <1>2, <1>3, <1>4 DEF IInv

LEMMA InvariantStep == IInv /\ [Next]_vars => IInv'
<1> SUFFICES ASSUME IInv, [Next]_vars PROVE IInv'
  OBVIOUS
<1>0. calls \in Nat /\ calls <= MaxCalls /\ covered \in SUBSET Order
  BY MaxCallsAssumption DEF IInv, TypeOK
<1>1. CASE Connected \/ Disconnected
  BY <1>1 DEF Connected, Disconnected, fixedVars, callVars, answerVars, exchangeVars,
              IInv, TypeOK
<1>2. CASE \E order \in Order : ProductsAck(order)
  BY <1>2 DEF ProductsAck, fixedVars, callVars, answerVars, exchangeVars, IInv, TypeOK
<1>3. ASSUME NEW action \in OrderAction, action \notin sent \union thrown,
             \/ Send({action}, {action}) /\ UNCHANGED <<calls, covered>>
             \/ Throw({action}) /\ UNCHANGED calls
      PROVE  IInv'
  <2>1. {action} \in SUBSET Action /\ {action} \intersect (sent \union thrown) = {}
    BY <1>3, ActionTypes
  <2>2. CallStep({action})
    BY <1>0, <1>3, MaxCallsAssumption DEF CallStep, Throw
  <2> QED
    BY <1>3, <2>1, <2>2, SendOnce, ThrowOnce
<1>4. CASE \E order \in Order : OrdersCreate(order)
  <2> PICK order \in Order : OrdersCreate(order)
    BY <1>4
  <2>1. CreateOrder(order) \in OrderAction /\ CreateOrder(order) \notin sent \union thrown
    BY ActionTypes, IsNew DEF OrdersCreate, CreateOrder
  <2> QED
    BY <2>1, <1>3 DEF OrdersCreate, CreateOrder
<1>5. ASSUME NEW order \in Order, NEW version \in 2 .. MaxVersion,
             OrdersModify(order, version) \/ OrdersCancel(order, version)
      PROVE  IInv'
  <2>1. /\ ModifyOrder(order, version) \in OrderAction
        /\ ModifyOrder(order, version) \notin sent \union thrown
        /\ CancelOrder(order, version) \in OrderAction
        /\ CancelOrder(order, version) \notin sent \union thrown
    BY <1>5, ActionTypes, IsNew, MaxVersionAssumption
       DEF OrdersModify, OrdersCancel, ModifyOrder, CancelOrder
  <2>2. CASE OrdersModify(order, version)
    BY <1>3, <2>1, <2>2 DEF OrdersModify
  <2>3. CASE OrdersCancel(order, version)
    BY <1>3, <2>1, <2>3 DEF OrdersCancel, CancelCallback, CancelOrder
  <2> QED
    BY <1>5, <2>2, <2>3
<1>6. ASSUME NEW symbols \in SUBSET Symbol, OrdersAll(symbols)
      PROVE  IInv'
  <2> DEFINE actions == {CancelAllOrders(of, calls + 1) : of \in symbols}
  <2>1. calls < MaxCalls /\ calls' = calls + 1
    BY <1>6 DEF OrdersAll
  <2>2. /\ actions \in SUBSET (Action \ OrderAction)
        /\ \A action \in actions : action \notin sent \union thrown /\ action.version = calls + 1
    BY <2>1, IsNewCall
  <2>3. \/ /\ Send(actions, actions)
           /\ covered' = covered \union
                 {order \in Order : answer[CreateOrder(order)] = "ACCEPTED"}
        \/ Throw(actions)
    BY <1>6, <2>1 DEF OrdersAll
  <2> HIDE DEF actions
  <2>4. CallStep(actions)
    <3>1. calls' \in calls .. MaxCalls
      BY <1>0, <2>1, MaxCallsAssumption
    <3>2. covered' \in SUBSET Order
      BY <1>0, <2>3 DEF Throw
    <3> QED
      BY <1>0, <2>1, <2>2, <3>1, <3>2 DEF CallStep
  <2>5. actions \in SUBSET Action /\ actions \intersect (sent \union thrown) = {}
    BY <2>2
  <2> QED
    BY <2>3, <2>4, <2>5, SendOnce, ThrowOnce
<1>7. ASSUME NEW action \in Action, Execute(action) \/ Refuse(action)
      PROVE  IInv'
  <2>1. /\ UNCHANGED <<api, symbol, ready, security, halted, calls, thrown, sent, waiting,
                       covered, answer, failures>>
        /\ exchange[action] = "travelling"
    BY <1>7 DEF Execute, Refuse, gatewayVars, fixedVars, connectionVars, callVars, answerVars
  <2>2. /\ exchange' \in [Action -> {"none", "travelling", "done", "refused"}]
        /\ exchange'[action] \in {"done", "refused"}
        /\ \A other \in Action \ {action} : exchange'[other] = exchange[other]
    BY <1>7 DEF Execute, Refuse, IInv, TypeOK
  <2>3. cancelled' \in SUBSET Order
    BY <1>7 DEF Execute, Refuse, CancelledBy, IInv, TypeOK
  <2>4. TypeOK'
    BY <2>1, <2>2, <2>3 DEF IInv, TypeOK
  <2>5. \A other \in Action : exchange'[other] = "none" <=> exchange[other] = "none"
    BY <2>1, <2>2
  <2>6. \A other \in OrderAction :
          /\ answer[other] = "ACCEPTED" => exchange'[other] = "done"
          /\ answer[other] = "REFUSED" => exchange'[other] = "refused"
    BY <2>1, <2>2, ActionTypes DEF IInv
  <2> QED
    BY <2>1, <2>4, <2>5, <2>6 DEF IInv
<1>8. ASSUME NEW request \in waiting, Response(request)
      PROVE  IInv'
  <2>0. request \in Action
    BY DEF IInv, TypeOK
  <2>1. PICK result \in Result : \/ OrdersCreateAck(request, result)
                                 \/ OrdersCancelAck(request, result)
                                 \/ OrdersAllAck(request, result)
    BY <1>8 DEF Response
  <2>2. CASE OrdersCreateAck(request, result) \/ OrdersCancelAck(request, result)
    <3>1. request \in OrderAction
      BY <2>0, <2>2, ActionTypes DEF OrdersCreateAck, OrdersCancelAck
    <3>2. Return(request, result) /\ Possible(request, result)
      BY <2>2 DEF OrdersCreateAck, OrdersCancelAck, Return
    <3> QED
      BY <2>0, <2>2, <3>1, <3>2, TrueStatus, ReturnOnce DEF OrdersCreateAck, OrdersCancelAck
  <2>3. CASE OrdersAllAck(request, result)
    <3>1. request \notin OrderAction
      BY <2>3, ActionTypes DEF OrdersAllAck
    <3>2. /\ waiting' = waiting \ {request}
          /\ UNCHANGED <<api, symbol, ready, security, halted, calls, thrown, sent, covered,
                         exchange, cancelled, answer>>
          /\ failures' = failures \/ failures' = failures + 1
      BY <2>3 DEF OrdersAllAck, Return, fixedVars, connectionVars, exchangeVars
    <3>3. TypeOK'
      BY <3>2 DEF IInv, TypeOK
    <3>4. \A action \in OrderAction : action \in (sent \ waiting)' <=> action \in sent \ waiting
      BY <3>1, <3>2
    <3> QED
      BY <3>2, <3>3, <3>4 DEF IInv
  <2> QED
    BY <2>1, <2>2, <2>3
<1>9. CASE \E request \in waiting : Halt(request)
  BY <1>9 DEF Halt, fixedVars, connectionVars, callVars, answerVars, exchangeVars, IInv, TypeOK
<1>10. CASE UNCHANGED vars
  BY <1>10 DEF vars, gatewayVars, fixedVars, connectionVars, callVars, answerVars,
               exchangeVars, IInv, TypeOK
<1> QED
  BY <1>1, <1>2, <1>4, <1>5, <1>6, <1>7, <1>8, <1>9, <1>10 DEF Next, Calls

-----------------------------------------------------------------------------
(* The refinement.  The mapped state of an action changes only where its   *)
(* name says.                                                              *)

LEMMA RefinementInit == Init => Service!Init
BY ActionTypes DEF Init, Service!Init, State

\* Where neither what was thrown or sent nor the answers change, the mapped
\* state does not.
LEMMA SameState ==
    ASSUME UNCHANGED <<thrown, sent, answer>>
    PROVE  \A action \in OrderAction : State(action)' = State(action)
BY DEF State

LEMMA RefinementStep == IInv /\ [Next]_vars => [Service!Next]_(Service!vars)
<1> SUFFICES ASSUME IInv, [Next]_vars PROVE [Service!Next]_(Service!vars)
  OBVIOUS
<1> USE DEF Service!vars
<1>1. CASE UNCHANGED <<thrown, sent, answer, exchange>>
  BY <1>1, SameState
<1>2. ASSUME NEW action \in OrderAction, action \notin sent \union thrown,
             Send({action}, {action})
      PROVE  Service!Next
  <2>1. \A other \in OrderAction :
          State(other)' = IF other = action THEN "open" ELSE State(other)
    BY <1>2, ActionTypes DEF Send, State, IInv, answerVars
  <2>2. State(action) = "none"
    BY <1>2, ActionTypes DEF State, IInv
  <2>3. {other \in OrderAction : exchange[other] = "done"}' =
        {other \in OrderAction : exchange[other] = "done"}
    BY <1>2, ActionTypes DEF Send, IInv
  <2> QED
    BY <2>1, <2>2, <2>3 DEF Service!Next, Service!Open, Service!Becomes
<1>3. ASSUME NEW action \in OrderAction, action \notin sent \union thrown, Throw({action})
      PROVE  Service!Next
  <2>1. \A other \in OrderAction :
          State(other)' = IF other = action THEN "thrown" ELSE State(other)
    BY <1>3 DEF Throw, State, answerVars
  <2>2. State(action) = "none"
    BY <1>3, ActionTypes DEF State, IInv
  <2>3. UNCHANGED exchange
    BY <1>3 DEF Throw, exchangeVars
  <2> QED
    BY <2>1, <2>2, <2>3 DEF Service!Next, Service!Throw, Service!Becomes
<1>4. ASSUME NEW action \in Action, Execute(action) \/ Refuse(action)
      PROVE  [Service!Next]_(Service!vars)
  <2>1. UNCHANGED <<thrown, sent, answer>> /\ exchange[action] = "travelling"
    BY <1>4 DEF Execute, Refuse, gatewayVars, callVars, answerVars
  <2>2. CASE action \in OrderAction /\ Execute(action)
    <3>1. {other \in OrderAction : exchange[other] = "done"}' =
          {other \in OrderAction : exchange[other] = "done"} \union {action}
      BY <2>2, ActionTypes DEF Execute, IInv, TypeOK
    <3>2. State(action) \in {"open"} \union Unknown
      BY <2>1, <2>2, ActionTypes DEF State, IInv, TypeOK, Status, Unknown
    <3>3. Service!Do(action)
      BY <2>1, <2>2, <3>1, <3>2, SameState DEF Service!Do
    <3> QED
      BY <2>2, <3>3 DEF Service!Next
  <2>3. CASE action \notin OrderAction \/ Refuse(action)
    <3>1. {other \in OrderAction : exchange[other] = "done"}' =
          {other \in OrderAction : exchange[other] = "done"}
      BY <1>4, <2>1, <2>3, ActionTypes DEF Execute, Refuse, IInv, TypeOK
    <3> QED
      BY <2>1, <3>1, SameState
  <2> QED
    BY <1>4, <2>2, <2>3
<1>5. ASSUME NEW request \in waiting, NEW result \in Result, request \in OrderAction,
             Return(request, result),
             answer' = Told(request, ProcessResponse(result))
      PROVE  Service!Next
  <2> DEFINE status == ProcessResponse(result)
  <2>1. /\ status \in Status
        /\ status = "ACCEPTED" => exchange[request] = "done"
        /\ status = "REFUSED" => exchange[request] = "refused"
    BY <1>5, TrueStatus, ActionTypes DEF Return
  <2>2. answer[request] = "none" /\ request \in sent \ thrown
    BY <1>5, ActionTypes DEF IInv
  <2>3. answer' = [answer EXCEPT ![request] = status]
    BY <1>5, <2>2, ActionTypes DEF Told, IInv, TypeOK
  <2>4. State(request) = "open"
    BY <2>2 DEF State
  <2>5. UNCHANGED <<thrown, sent, exchange>>
    BY <1>5 DEF Return, exchangeVars
  <2>6. \A other \in OrderAction :
          State(other)' = IF other = request THEN status ELSE State(other)
    BY <2>1, <2>2, <2>3, <2>5, ActionTypes DEF State, IInv, TypeOK, Status, Unknown
  <2>7. Service!Answer(request, status)
    BY <1>5, <2>1, <2>4, <2>5, <2>6 DEF Service!Answer, Service!Becomes
  <2>8. status \in Service!Known \union Unknown
    BY <2>1 DEF Status, Service!Known
  <2> QED
    BY <1>5, <2>7, <2>8 DEF Service!Next
<1>6. ASSUME NEW request \in waiting, NEW result \in Result,
             OrdersAllAck(request, result)
      PROVE  [Service!Next]_(Service!vars)
  <2> UNCHANGED <<thrown, sent, answer, exchange>>
    BY <1>6 DEF OrdersAllAck, Return, exchangeVars
  <2> QED
    BY <1>1
<1>7. ASSUME NEW symbols \in SUBSET Symbol, OrdersAll(symbols)
      PROVE  [Service!Next]_(Service!vars)
  <2> DEFINE actions == {CancelAllOrders(of, calls + 1) : of \in symbols}
  <2>1. calls < MaxCalls /\ (Send(actions, actions) \/ Throw(actions))
    BY <1>7 DEF OrdersAll
  <2>2. actions \intersect OrderAction = {}
    BY <2>1, IsNewCall
  <2> HIDE DEF actions
  <2>3. \A other \in OrderAction : /\ State(other)' = State(other)
                                   /\ exchange'[other] = exchange[other]
    BY <2>1, <2>2, ActionTypes DEF Send, Throw, State, answerVars, exchangeVars
  <2> QED
    BY <2>3
<1>8. CASE \E order \in Order : OrdersCreate(order)
  BY <1>8, <1>2, <1>3, ActionTypes, IsNew DEF OrdersCreate, CreateOrder
<1>9. CASE \E order \in Order, version \in 2 .. MaxVersion :
             OrdersModify(order, version) \/ OrdersCancel(order, version)
  <2> PICK order \in Order, version \in 2 .. MaxVersion :
             OrdersModify(order, version) \/ OrdersCancel(order, version)
    BY <1>9
  <2>0. version \in Nat
    BY MaxVersionAssumption
  <2>1. CASE OrdersModify(order, version)
    BY <2>0, <2>1, <1>3, ActionTypes, IsNew DEF OrdersModify, ModifyOrder
  <2>2. CASE OrdersCancel(order, version)
    BY <2>0, <2>2, <1>2, <1>3, ActionTypes, IsNew
       DEF OrdersCancel, CancelOrder, CancelCallback
  <2> QED
    BY <2>1, <2>2
<1>10. CASE \E request \in waiting : Response(request)
  <2> PICK request \in waiting, result \in Result :
             \/ OrdersCreateAck(request, result)
             \/ OrdersCancelAck(request, result)
             \/ OrdersAllAck(request, result)
    BY <1>10 DEF Response
  <2>1. CASE OrdersCreateAck(request, result) \/ OrdersCancelAck(request, result)
    <3>1. request \in OrderAction
      BY <2>1, ActionTypes DEF OrdersCreateAck, OrdersCancelAck, IInv, TypeOK
    <3> QED
      BY <2>1, <3>1, <1>5 DEF OrdersCreateAck, OrdersCancelAck
  <2>2. CASE OrdersAllAck(request, result)
    BY <2>2, <1>6
  <2> QED
    BY <2>1, <2>2
<1>11. CASE \/ Connected \/ Disconnected \/ \E order \in Order : ProductsAck(order)
            \/ \E request \in waiting : Halt(request)
  <2> UNCHANGED <<thrown, sent, answer, exchange>>
    BY <1>11 DEF Connected, Disconnected, ProductsAck, Halt, callVars, answerVars, exchangeVars
  <2> QED
    BY <1>1
<1>12. CASE Calls
  BY <1>7, <1>8, <1>9, <1>12 DEF Calls
<1>13. CASE \E action \in Action : Execute(action) \/ Refuse(action)
  BY <1>4, <1>13
<1>14. CASE UNCHANGED vars
  BY <1>1, <1>14 DEF vars, gatewayVars, callVars, answerVars, exchangeVars
<1> QED
  BY <1>10, <1>11, <1>12, <1>13, <1>14 DEF Next

\* The variables have their types.
THEOREM TypeCorrect == Spec => []TypeOK
<1>1. IInv => TypeOK
  BY DEF IInv
<1> QED
  BY InvariantInit, InvariantStep, <1>1, PTL DEF Spec

\* Each create and cancel is answered at most once, under its own version, and
\* an answer that says what became of it is true.
THEOREM Truth == Spec => AnswersAreTrue
  BY InvariantInit, InvariantStep, RefinementInit, RefinementStep, PTL
     DEF Spec, AnswersAreTrue, Service!Spec

-----------------------------------------------------------------------------
(* The cancels of all orders.                                              *)

LEMMA CoveredInit == Init => CoveredInv
BY DEF Init, CoveredInv

\* A step that leaves what is known of the requests of the covered orders.
LEMMA CoveredKept ==
    ASSUME IInv, CoveredInv,
           UNCHANGED <<symbol, covered>>,
           sent \subseteq sent',
           cancelled \subseteq cancelled',
           failures' = 0 => failures = 0,
           \A order \in covered :
              exchange[CreateOrder(order)] = "done" => exchange'[CreateOrder(order)] = "done",
           \A action \in Action \ OrderAction :
              action \in sent =>
                 /\ exchange'[action] = exchange[action]
                 /\ action \in waiting => action \in waiting'
    PROVE  CoveredInv'
<1> SUFFICES ASSUME NEW order \in covered
             PROVE  (/\ exchange[CreateOrder(order)] = "done"
                     /\ \E call \in 1 .. MaxCalls :
                           Covers(CancelAllOrders(symbol[order], call), order))'
  BY DEF CoveredInv
<1>1. PICK call \in 1 .. MaxCalls : Covers(CancelAllOrders(symbol[order], call), order)
  BY DEF CoveredInv
<1> DEFINE action == CancelAllOrders(symbol[order], call)
<1>2. action \in Action \ OrderAction
  BY ActionTypes DEF IInv, TypeOK
<1>3. Covers(action, order)
  BY <1>1
<1>4. action' = action
  OBVIOUS
<1>5. action' = CancelAllOrders(symbol'[order], call)
  OBVIOUS
<1> HIDE DEF action
<1>6. Covers(action, order)'
  BY <1>2, <1>3, <1>4 DEF Covers
<1> QED
  BY <1>5, <1>6 DEF CoveredInv

\* A covered order was created, so what is sent anew is something else.
LEMMA CoveredCreated ==
    ASSUME IInv, CoveredInv, NEW order \in covered
    PROVE  /\ CreateOrder(order) \in OrderAction
           /\ CreateOrder(order) \in sent
           /\ exchange[CreateOrder(order)] = "done"
BY ActionTypes DEF IInv, TypeOK, CoveredInv

LEMMA CoveredStep == IInv /\ CoveredInv /\ [Next]_vars => CoveredInv'
<1> SUFFICES ASSUME IInv, CoveredInv, [Next]_vars PROVE CoveredInv'
  OBVIOUS
<1>1. CASE UNCHANGED <<symbol, covered, sent, waiting, failures, exchange, cancelled>>
  BY <1>1, CoveredKept
<1>2. ASSUME NEW action \in OrderAction, action \notin sent \union thrown,
             \/ Send({action}, {action}) /\ UNCHANGED <<calls, covered>>
             \/ Throw({action}) /\ UNCHANGED calls
      PROVE  CoveredInv'
  <2>1. CASE Throw({action})
    BY <1>1, <2>1 DEF Throw, fixedVars, answerVars, exchangeVars
  <2>2. CASE Send({action}, {action}) /\ UNCHANGED <<calls, covered>>
    <3>1. /\ UNCHANGED <<symbol, covered, failures, cancelled>>
          /\ sent \subseteq sent' /\ waiting \subseteq waiting'
      BY <2>2 DEF Send, fixedVars, answerVars
    <3>2. \A other \in Action : other # action => exchange'[other] = exchange[other]
      BY <2>2 DEF Send
    <3>3. \A order \in covered : exchange'[CreateOrder(order)] = exchange[CreateOrder(order)]
      BY <1>2, <3>2, CoveredCreated, ActionTypes
    <3> QED
      BY <3>1, <3>2, <3>3, CoveredKept
  <2> QED
    BY <1>2, <2>1, <2>2
<1>3. CASE \E order \in Order : OrdersCreate(order)
  BY <1>2, <1>3, ActionTypes, IsNew DEF OrdersCreate, CreateOrder
<1>4. ASSUME NEW order \in Order, NEW version \in 2 .. MaxVersion,
             OrdersModify(order, version) \/ OrdersCancel(order, version)
      PROVE  CoveredInv'
  <2>1. /\ ModifyOrder(order, version) \in OrderAction
        /\ ModifyOrder(order, version) \notin sent \union thrown
        /\ CancelOrder(order, version) \in OrderAction
        /\ CancelOrder(order, version) \notin sent \union thrown
    BY <1>4, ActionTypes, IsNew, MaxVersionAssumption
       DEF OrdersModify, OrdersCancel, ModifyOrder, CancelOrder
  <2>2. CASE OrdersModify(order, version)
    BY <1>2, <2>1, <2>2 DEF OrdersModify
  <2>3. CASE OrdersCancel(order, version)
    BY <1>2, <2>1, <2>3 DEF OrdersCancel, CancelCallback, CancelOrder
  <2> QED
    BY <1>4, <2>2, <2>3
<1>5. ASSUME NEW symbols \in SUBSET Symbol, OrdersAll(symbols)
      PROVE  CoveredInv'
  <2> DEFINE actions == {CancelAllOrders(of, calls + 1) : of \in symbols}
  <2>1. CASE Throw(actions)
    BY <1>1, <2>1 DEF Throw, fixedVars, answerVars, exchangeVars
  <2>2. CASE /\ HasOrders(symbols)
             /\ Send(actions, actions)
             /\ covered' = covered \union
                   {order \in Order : answer[CreateOrder(order)] = "ACCEPTED"}
    <3>1. calls < MaxCalls /\ calls + 1 \in 1 .. MaxCalls
      BY <1>5, MaxCallsAssumption DEF OrdersAll, IInv, TypeOK
    <3>2. /\ actions \in SUBSET (Action \ OrderAction)
          /\ \A action \in actions : action \notin sent
      BY <3>1, IsNewCall
    <3>3. ASSUME NEW order \in Order, answer[CreateOrder(order)] = "ACCEPTED"
          PROVE  /\ exchange[CreateOrder(order)] = "done"
                 /\ CancelAllOrders(symbol[order], calls + 1) \in actions
      <4>1. CreateOrder(order) \in sent /\ exchange[CreateOrder(order)] = "done"
        BY <3>3, ActionTypes DEF IInv
      <4> QED
        BY <2>2, <4>1 DEF HasOrders
    <3>4. /\ UNCHANGED <<symbol, failures, cancelled>>
          /\ sent' = sent \union actions /\ waiting' = waiting \union actions
      BY <2>2 DEF Send, fixedVars, answerVars
    <3>5. \A action \in Action :
            exchange'[action] = IF action \in actions THEN "travelling" ELSE exchange[action]
      BY <2>2 DEF Send
    <3> HIDE DEF actions
    <3> SUFFICES ASSUME NEW order \in covered'
                 PROVE  (/\ exchange[CreateOrder(order)] = "done"
                         /\ \E call \in 1 .. MaxCalls :
                               Covers(CancelAllOrders(symbol[order], call), order))'
      BY DEF CoveredInv
    <3>6. order \in Order /\ exchange[CreateOrder(order)] = "done"
      BY <2>2, <3>3, CoveredCreated DEF IInv, TypeOK
    <3>7. exchange'[CreateOrder(order)] = "done"
      BY <3>2, <3>5, <3>6, ActionTypes
    <3>8. CASE order \in covered
      <4>1. PICK call \in 1 .. MaxCalls : Covers(CancelAllOrders(symbol[order], call), order)
        BY <3>8 DEF CoveredInv
      <4> DEFINE action == CancelAllOrders(symbol[order], call)
      <4>2. action \in Action /\ Covers(action, order)
        BY <3>6, <4>1, ActionTypes DEF IInv, TypeOK
      <4>3. CancelAllOrders(symbol'[order], call) = action
        BY <3>4
      <4> HIDE DEF action
      <4>4. /\ action \in sent'
            /\ exchange'[action] = "done" => order \in cancelled'
            /\ action \notin waiting' /\ failures' = 0 => exchange'[action] = "done"
        BY <3>2, <3>4, <3>5, <4>2 DEF Covers
      <4> QED
        BY <3>7, <4>3, <4>4 DEF Covers
    <3>9. CASE answer[CreateOrder(order)] = "ACCEPTED"
      <4> DEFINE action == CancelAllOrders(symbol[order], calls + 1)
      <4>1. action \in actions
        BY <3>3, <3>6, <3>9
      <4>2. CancelAllOrders(symbol'[order], calls + 1) = action
        BY <3>4
      <4> HIDE DEF action
      <4>3. /\ action \in sent'
            /\ exchange'[action] = "done" => order \in cancelled'
            /\ action \notin waiting' /\ failures' = 0 => exchange'[action] = "done"
        BY <3>2, <3>4, <3>5, <4>1
      <4> QED
        BY <3>1, <3>7, <4>2, <4>3 DEF Covers
    <3> QED
      BY <2>2, <3>8, <3>9
  <2> QED
    BY <1>5, <2>1, <2>2 DEF OrdersAll
<1>6. ASSUME NEW other \in Action, Execute(other) \/ Refuse(other)
      PROVE  CoveredInv'
  <2>1. /\ UNCHANGED <<symbol, covered, sent, waiting, failures>>
        /\ exchange[other] = "travelling"
        /\ cancelled \subseteq cancelled'
    BY <1>6 DEF Execute, Refuse, gatewayVars, fixedVars, callVars, answerVars
  <2>2. \A action \in Action : action # other => exchange'[action] = exchange[action]
    BY <1>6 DEF Execute, Refuse, IInv, TypeOK
  <2> SUFFICES ASSUME NEW order \in covered
               PROVE  (/\ exchange[CreateOrder(order)] = "done"
                       /\ \E call \in 1 .. MaxCalls :
                             Covers(CancelAllOrders(symbol[order], call), order))'
    BY <2>1 DEF CoveredInv
  <2>3. exchange'[CreateOrder(order)] = "done"
    BY <2>1, <2>2, CoveredCreated, ActionTypes
  <2>4. PICK call \in 1 .. MaxCalls : Covers(CancelAllOrders(symbol[order], call), order)
    BY DEF CoveredInv
  <2> DEFINE action == CancelAllOrders(symbol[order], call)
  <2>5. /\ action \in Action /\ Covers(action, order) /\ order \in Order
        /\ action.type = "CANCEL_ALL_ORDERS" /\ action.id = symbol[order]
    BY <2>4, ActionTypes DEF IInv, TypeOK
  <2>6. CancelAllOrders(symbol'[order], call) = action
    BY <2>1
  <2> HIDE DEF action
  <2>7. exchange'[action] = "done" => order \in cancelled'
    <3>1. CASE action # other
      BY <2>1, <2>2, <2>5, <3>1 DEF Covers
    <3>2. CASE action = other /\ Execute(other)
      <4>1. order \in cancelled \/ Open(order)
        BY CoveredCreated DEF Open
      <4> QED
        BY <2>5, <3>2, <4>1 DEF Execute, CancelledBy
    <3>3. CASE action = other /\ Refuse(other)
      BY <2>5, <3>3 DEF Refuse, IInv, TypeOK
    <3> QED
      BY <1>6, <3>1, <3>2, <3>3
  <2>8. action \notin waiting /\ failures = 0 => exchange'[action] = "done"
    BY <2>1, <2>2, <2>5 DEF Covers
  <2> QED
    BY <2>1, <2>3, <2>5, <2>6, <2>7, <2>8 DEF Covers
<1>7. ASSUME NEW request \in waiting, NEW result \in Result,
             OrdersCreateAck(request, result) \/ OrdersCancelAck(request, result)
      PROVE  CoveredInv'
  <2>1. /\ UNCHANGED <<symbol, covered, sent, failures, exchange, cancelled>>
        /\ waiting' = waiting \ {request}
        /\ request.type # "CANCEL_ALL_ORDERS"
    BY <1>7 DEF OrdersCreateAck, OrdersCancelAck, Return, fixedVars, exchangeVars
  <2>2. \A action \in Action \ OrderAction : action # request
    BY <2>1, ActionTypes
  <2> QED
    BY <2>1, <2>2, CoveredKept
<1>8. ASSUME NEW request \in waiting, NEW result \in Result, OrdersAllAck(request, result)
      PROVE  CoveredInv'
  <2>1. /\ UNCHANGED <<symbol, covered, sent, exchange, cancelled>>
        /\ waiting' = waiting \ {request}
        /\ failures' = IF IsFailure(result) THEN failures + 1 ELSE failures
        /\ Possible(request, result)
    BY <1>8 DEF OrdersAllAck, Return, fixedVars, exchangeVars
  <2>2. failures' = 0 => failures = 0 /\ ~IsFailure(result)
    BY <2>1 DEF IInv, TypeOK
  <2>3. ~IsFailure(result) => exchange[request] = "done"
    <3>1. request \in Action
      BY DEF IInv, TypeOK
    <3> QED
      BY <2>1, <3>1, TrueStatus DEF IsFailure
  <2> SUFFICES ASSUME NEW order \in covered
               PROVE  (/\ exchange[CreateOrder(order)] = "done"
                       /\ \E call \in 1 .. MaxCalls :
                             Covers(CancelAllOrders(symbol[order], call), order))'
    BY <2>1 DEF CoveredInv
  <2>4. PICK call \in 1 .. MaxCalls : Covers(CancelAllOrders(symbol[order], call), order)
    BY DEF CoveredInv
  <2> DEFINE action == CancelAllOrders(symbol[order], call)
  <2>5. Covers(action, order)
    BY <2>4
  <2>6. CancelAllOrders(symbol'[order], call) = action
    BY <2>1
  <2> HIDE DEF action
  <2>7. /\ action \in sent'
        /\ exchange'[action] = "done" => order \in cancelled'
        /\ action \notin waiting' /\ failures' = 0 => exchange'[action] = "done"
    BY <2>1, <2>2, <2>3, <2>5 DEF Covers
  <2> QED
    BY <2>1, <2>6, <2>7, CoveredCreated DEF Covers
<1>9. CASE \E request \in waiting : Response(request)
  BY <1>7, <1>8, <1>9 DEF Response
<1>10. CASE \/ Connected \/ Disconnected \/ \E order \in Order : ProductsAck(order)
            \/ \E request \in waiting : Halt(request)
            \/ UNCHANGED vars
  BY <1>1, <1>10
     DEF Connected, Disconnected, ProductsAck, Halt, vars, gatewayVars, fixedVars,
         callVars, answerVars, exchangeVars
<1> QED
  BY <1>3, <1>4, <1>5, <1>6, <1>9, <1>10 DEF Next, Calls

\* However many symbols there are and whichever of the requests fail, a client
\* that was told of no failure has had its orders cancelled.
THEOREM Silence == Spec => []SilenceMeansCancelled
<1>1. IInv /\ CoveredInv => SilenceMeansCancelled
  <2> SUFFICES ASSUME IInv, CoveredInv, waiting \intersect CancelAll = {}, failures = 0,
                      NEW order \in covered
               PROVE  order \in cancelled
    BY DEF SilenceMeansCancelled
  <2>1. PICK call \in 1 .. MaxCalls : Covers(CancelAllOrders(symbol[order], call), order)
    BY DEF CoveredInv
  <2>2. CancelAllOrders(symbol[order], call) \in CancelAll
    BY DEF CancelAll, IInv, TypeOK
  <2> QED
    BY <2>1, <2>2 DEF Covers
<1> QED
  BY InvariantInit, InvariantStep, CoveredInit, CoveredStep, <1>1, PTL DEF Spec
=============================================================================
