----------------------------- MODULE OrderEntry -----------------------------
(***************************************************************************)
(* Order actions over the order-entry connections of one account           *)
(* (controller.cpp, order_entry_usd_m.cpp, order_entry_coin_m.cpp): from   *)
(* the client's call to the request, and from whatever comes back to the   *)
(* answer.  Requests of consecutive actions go over different connections, *)
(* so the exchange sees them in any order, and it may see one only after   *)
(* the gateway has given up waiting.                                       *)
(*                                                                         *)
(* An action is named by what the answer will be matched with: the type of *)
(* the request, the order and the version the framework numbers the        *)
(* requests of an order with.  A cancel of all orders is a request per     *)
(* symbol, and its failures are told without a name.                       *)
(***************************************************************************)
EXTENDS Naturals

CONSTANTS
    Order,
    Symbol,
    MaxVersion,  \* bound: the last request of an order
    MaxCalls     \* bound: how often all orders are cancelled

ASSUME MaxVersionAssumption == MaxVersion \in Nat \ {0}
ASSUME MaxCallsAssumption == MaxCalls \in Nat

VARIABLES
    api,        \* shared_.api.type
    symbol,     \* the symbol of each order
    ready,      \* whether a connection of the account is ready
    security,   \* the orders whose product is in the security table
    halted,     \* log::fatal, or an assertion, has ended the process
    calls,      \* how often all orders were cancelled
    thrown,     \* the actions refused by an exception
    sent,       \* the actions sent on
    waiting,    \* the requests under way: what the callbacks have captured
    answer,     \* the status an action was answered with
    failures,   \* the failures to cancel all orders that were told
    covered,    \* auxiliary: the orders that were open when all were cancelled
    exchange,   \* what the exchange does with a request
    cancelled   \* the orders the exchange has cancelled

fixedVars == <<api, symbol>>
connectionVars == <<ready, security>>
callVars == <<calls, thrown, sent, waiting, covered>>
answerVars == <<answer, failures>>
gatewayVars == <<fixedVars, connectionVars, halted, callVars, answerVars>>
exchangeVars == <<exchange, cancelled>>
vars == <<gatewayVars, exchangeVars>>

Act(type, id, version) == [type |-> type, id |-> id, version |-> version]

CreateOrder(order) == Act("CREATE_ORDER", order, 1)
ModifyOrder(order, version) == Act("MODIFY_ORDER", order, version)
CancelOrder(order, version) == Act("CANCEL_ORDER", order, version)
CancelAllOrders(of, call) == Act("CANCEL_ALL_ORDERS", of, call)

OrderAction ==
    {CreateOrder(order) : order \in Order}
        \union {ModifyOrder(order, version) : order \in Order, version \in 2 .. MaxVersion}
        \union {CancelOrder(order, version) : order \in Order, version \in 2 .. MaxVersion}

CancelAll == {CancelAllOrders(of, call) : of \in Symbol, call \in 1 .. MaxCalls}

Action == OrderAction \union CancelAll

\* REJECTED comes with an error.  Error::UNKNOWN leaves the reason open, which
\* is told apart from a refusal that has a reason, REFUSED.  NETWORK stands for
\* what NetworkError::request_status() says.
Unknown == {"REJECTED", "ERROR", "NETWORK"}
Status == {"ACCEPTED", "REFUSED"} \union Unknown

Init ==
    /\ api \in {"USD_M", "COIN_M"}
    /\ symbol \in [Order -> Symbol]
    /\ ready = FALSE
    /\ security = {}
    /\ halted = FALSE
    /\ calls = 0
    /\ thrown = {}
    /\ sent = {}
    /\ waiting = {}
    /\ answer = [action \in OrderAction |-> "none"]
    /\ failures = 0
    /\ covered = {}
    /\ exchange = [action \in Action |-> "none"]
    /\ cancelled = {}

-----------------------------------------------------------------------------
(* Connections come and go, products come.                                 *)

\* The first connection to become ready, the last one to be lost.
Connected ==
    /\ ~halted
    /\ ready' = TRUE
    /\ UNCHANGED <<fixedVars, security, halted, callVars, answerVars, exchangeVars>>

Disconnected ==
    /\ ~halted
    /\ ready' = FALSE
    /\ UNCHANGED <<fixedVars, security, halted, callVars, answerVars, exchangeVars>>

\* The products have been downloaded.
ProductsAck(order) ==
    /\ ~halted
    /\ security' = security \union {order}
    /\ UNCHANGED <<fixedVars, ready, halted, callVars, answerVars, exchangeVars>>

-----------------------------------------------------------------------------
(* Calls of the clients.                                                    *)

\* The framework numbers the requests of an order.
IsNextVersion(order, version) ==
    /\ \A action \in sent \union thrown :
          action \in OrderAction /\ action.id = order => action.version < version
    /\ version > 1 =>
         /\ CreateOrder(order) \in sent
         /\ \E action \in (sent \union thrown) \intersect OrderAction :
               action.id = order /\ action.version = version - 1

\* Controller::get_order_entry() returns a connection exactly if one is ready,
\* see RoundRobin.
CanSend == ready

Send(actions, callbacks) ==
    /\ ~halted
    /\ sent' = sent \union actions
    /\ waiting' = waiting \union callbacks
    /\ exchange' = [action \in Action |->
                      IF action \in actions THEN "travelling" ELSE exchange[action]]
    /\ UNCHANGED <<fixedVars, connectionVars, halted, thrown, answerVars, cancelled>>

Throw(actions) ==
    /\ ~halted
    /\ thrown' = thrown \union actions
    /\ UNCHANGED <<fixedVars, connectionVars, halted, sent, waiting, covered, answerVars,
                   exchangeVars>>

\* COIN-M must know the product to scale the price.
CanCreateUsdM == CanSend
CanCreateCoinM(order) == CanSend /\ order \in security

CanCreate(order) ==
    IF api = "USD_M" THEN CanCreateUsdM ELSE CanCreateCoinM(order)

\* The callback of a create supposes that its version is 1.
OrdersCreate(order) ==
    LET action == CreateOrder(order)
    IN  /\ IsNextVersion(order, 1)
        /\ \/ CanCreate(order) /\ Send({action}, {Act("CREATE_ORDER", order, 1)})
                               /\ UNCHANGED <<calls, covered>>
           \/ ~CanCreate(order) /\ Throw({action}) /\ UNCHANGED calls

\* Neither exchange lets an order be modified.
OrdersModify(order, version) ==
    /\ IsNextVersion(order, version)
    /\ Throw({ModifyOrder(order, version)})
    /\ UNCHANGED calls

\* Mutant: it takes the version for that of the create, too.
CancelCallbackFirst(order, version) == Act("CANCEL_ORDER", order, 1)

CancelCallback(order, version) == Act("CANCEL_ORDER", order, version)

OrdersCancel(order, version) ==
    LET action == CancelOrder(order, version)
    IN  /\ IsNextVersion(order, version)
        /\ \/ CanSend /\ Send({action}, {CancelCallback(order, version)})
                       /\ UNCHANGED <<calls, covered>>
           \/ ~CanSend /\ Throw({action}) /\ UNCHANGED calls

\* get_all_order_symbols(): the symbols of the orders the cache has, those of
\* its clients and others it was told of.
HasOrders(symbols) ==
    \A order \in Order : CreateOrder(order) \in sent => symbol[order] \in symbols

\* A request for each symbol with orders; if there is none, nothing is done and
\* nothing is told.
OrdersAll(symbols) ==
    /\ calls < MaxCalls
    /\ calls' = calls + 1
    /\ LET actions == {CancelAllOrders(of, calls') : of \in symbols}
       IN  \/ /\ CanSend
              /\ HasOrders(symbols)
              /\ Send(actions, actions)
              /\ covered' = covered \union
                    {order \in Order : answer[CreateOrder(order)] = "ACCEPTED"}
           \/ ~CanSend /\ Throw(actions)

-----------------------------------------------------------------------------
(* The exchange.  A request that it refuses leaves nothing behind.          *)

\* An order is there to be cancelled if its create was seen first.
Open(order) == exchange[CreateOrder(order)] = "done" /\ order \notin cancelled

Exists(action) == action.type = "CANCEL_ORDER" => Open(action.id)

CancelledBy(action) ==
    {order \in Order :
        /\ Open(order)
        /\ \/ action.type = "CANCEL_ORDER" /\ action.id = order
           \/ action.type = "CANCEL_ALL_ORDERS" /\ action.id = symbol[order]}

Execute(action) ==
    /\ exchange[action] = "travelling"
    /\ Exists(action)
    /\ exchange' = [exchange EXCEPT ![action] = "done"]
    /\ cancelled' = cancelled \union CancelledBy(action)
    /\ UNCHANGED gatewayVars

Refuse(action) ==
    /\ exchange[action] = "travelling"
    /\ exchange' = [exchange EXCEPT ![action] = "refused"]
    /\ UNCHANGED <<cancelled, gatewayVars>>

-----------------------------------------------------------------------------
(* What comes back: the category of the HTTP status, and of the body of a  *)
(* success; or that nothing came.                                          *)

\* The code of the body is one guess_error() has an error for, or another.
Result == {"ok", "code", "other_code", "garbled", "informational", "rate_limited",
           "client_error", "server_error", "network"}

\* What an answer means at the exchange: the code of a body and a limit that is
\* reached are its refusal, the other errors are those of whatever is in front
\* of it, a timeout for one, and leave open what becomes of the request.
Possible(action, result) ==
    CASE result = "ok" -> exchange[action] = "done"
      [] result \in {"code", "other_code", "rate_limited"} -> exchange[action] = "refused"
      [] result = "garbled" -> exchange[action] \in {"done", "refused"}
      [] OTHER -> TRUE

\* Mutant: a failure of the server is told like a limit that is reached.
ProcessResponseLimited(result) ==
    CASE result = "ok" -> "ACCEPTED"
      [] result \in {"code", "rate_limited", "server_error"} -> "REFUSED"
      [] result \in {"other_code", "client_error"} -> "REJECTED"
      [] result = "network" -> "NETWORK"
      [] OTHER -> "ERROR"

\* process_response() with the success handler of the request: a message that
\* cannot be parsed or is not expected throws.
ProcessResponse(result) ==
    CASE result = "ok" -> "ACCEPTED"
      [] result \in {"code", "rate_limited"} -> "REFUSED"
      [] result \in {"other_code", "client_error", "server_error"} -> "REJECTED"
      [] result = "network" -> "NETWORK"
      [] OTHER -> "ERROR"

\* Mutant: a failure of the network is told to nobody.
ToldUnlessNetwork(request, status) ==
    IF status = "NETWORK" THEN answer ELSE [answer EXCEPT ![request] = status]

Told(request, status) ==
    [answer EXCEPT ![request] = IF @ = "none" THEN status ELSE "twice"]

Return(request, result) ==
    /\ ~halted
    /\ request \in waiting
    /\ Possible(request, result)
    /\ waiting' = waiting \ {request}
    /\ UNCHANGED <<fixedVars, connectionVars, halted, calls, thrown, sent, covered, exchangeVars>>

OrdersCreateAck(request, result) ==
    /\ request.type = "CREATE_ORDER"
    /\ Return(request, result)
    /\ answer' = Told(request, ProcessResponse(result))
    /\ UNCHANGED failures

OrdersCancelAck(request, result) ==
    /\ request.type = "CANCEL_ORDER"
    /\ Return(request, result)
    /\ answer' = Told(request, ProcessResponse(result))
    /\ UNCHANGED failures

\* handle_error() of orders_all_ack() is called for all but a success.  It names
\* neither the symbol nor the request, and calls every failure a refusal.
\* Mutant: a refusal, of no orders to cancel, is taken for a success.
IsFailureUnlessRefused(result) == ProcessResponse(result) \notin {"ACCEPTED", "REFUSED"}

IsFailure(result) == ProcessResponse(result) # "ACCEPTED"

\* A success is told to nobody.
OrdersAllAck(request, result) ==
    /\ request.type = "CANCEL_ALL_ORDERS"
    /\ Return(request, result)
    /\ failures' = IF IsFailure(result) THEN failures + 1 ELSE failures
    /\ UNCHANGED answer

\* A redirection ends the process, and so does a conflict (409) in a build with
\* assertions; without them it is a client error like any other.
Halt(request) ==
    /\ ~halted
    /\ request \in waiting
    /\ halted' = TRUE
    /\ UNCHANGED <<fixedVars, connectionVars, callVars, answerVars, exchangeVars>>

-----------------------------------------------------------------------------
Calls ==
    \/ \E order \in Order : OrdersCreate(order)
    \/ \E order \in Order, version \in 2 .. MaxVersion :
          OrdersModify(order, version) \/ OrdersCancel(order, version)
    \/ \E symbols \in SUBSET Symbol : OrdersAll(symbols)

\* The REST client calls back.
Response(request) ==
    \E result \in Result :
        \/ OrdersCreateAck(request, result)
        \/ OrdersCancelAck(request, result)
        \/ OrdersAllAck(request, result)

Next ==
    \/ Connected
    \/ Disconnected
    \/ \E order \in Order : ProductsAck(order)
    \/ Calls
    \/ \E action \in Action : Execute(action) \/ Refuse(action)
    \/ \E request \in waiting : Response(request) \/ Halt(request)

Spec == Init /\ [][Next]_vars

\* ... once for every request, with an answer or with a failure.
Fairness == \A action \in Action : WF_vars(Response(action))

LiveSpec == Spec /\ Fairness
-----------------------------------------------------------------------------
TypeOK ==
    /\ api \in {"USD_M", "COIN_M"}
    /\ symbol \in [Order -> Symbol]
    /\ ready \in BOOLEAN
    /\ security \in SUBSET Order
    /\ halted \in BOOLEAN
    /\ calls \in 0 .. MaxCalls
    /\ thrown \in SUBSET Action
    /\ sent \in SUBSET Action
    /\ waiting \in SUBSET Action
    /\ answer \in [OrderAction -> Status \union {"none", "twice"}]
    /\ failures \in Nat
    /\ covered \in SUBSET Order
    /\ exchange \in [Action -> {"none", "travelling", "done", "refused"}]
    /\ cancelled \in SUBSET Order

\* The state of an action as the client sees it.
State(action) ==
    CASE action \in thrown -> "thrown"
      [] action \in sent /\ answer[action] = "none" -> "open"
      [] OTHER -> answer[action]

Service == INSTANCE ActionService WITH
    Action <- OrderAction,
    state <- [action \in OrderAction |-> State(action)],
    done <- {action \in OrderAction : exchange[action] = "done"}

\* Order entry keeps the promise of ActionService: each create and cancel is
\* refused or answered once, with its own version, ACCEPTED only if the exchange
\* has carried it out, REJECTED with an error of its own only if it never did
\* and never will.  REJECTED with Error::UNKNOWN promises nothing: after a 504
\* the order may be there all the same
\* (order_entry_usd_m.cpp:265-296, 511-542, 834-881).
AnswersAreTrue == Service!Spec

\* ... and none is left without an answer, unless the process ends.
AnswersCome == <>halted \/ Service!Fairness

\* Cancelling all orders is not acknowledged when it succeeds, and its failures
\* have no name, so a client can only count: when no request is under way and no
\* failure was ever told, every order that was accepted before one of the calls
\* has been cancelled, although each call is a request per symbol of which some
\* may fail, or no request at all (order_entry_usd_m.cpp:603-676).
SilenceMeansCancelled ==
    waiting \intersect CancelAll = {} /\ failures = 0 => covered \subseteq cancelled

\* The inductive invariant behind AnswersAreTrue: a request is under way
\* exactly while its action is open, the exchange has heard of what was sent and
\* of nothing else, and the answers are true.
IInv ==
    /\ TypeOK
    /\ thrown \intersect sent = {}
    /\ waiting \subseteq sent
    /\ \A action \in Action : exchange[action] = "none" <=> action \notin sent
    /\ \A action \in OrderAction :
         /\ answer[action] # "none" <=> action \in sent \ waiting
         /\ answer[action] # "twice"
         /\ answer[action] = "ACCEPTED" => exchange[action] = "done"
         /\ answer[action] = "REFUSED" => exchange[action] = "refused"
    /\ \A action \in (sent \union thrown) \ OrderAction : action.version <= calls

\* ... and behind SilenceMeansCancelled: an order that was accepted before a call
\* has a request that either cancels it, is still under way, or has failed.
Covers(action, order) ==
    /\ action \in sent
    /\ exchange[action] = "done" => order \in cancelled
    /\ action \notin waiting /\ failures = 0 => exchange[action] = "done"

CoveredInv ==
    \A order \in covered :
        /\ exchange[CreateOrder(order)] = "done"
        /\ \E call \in 1 .. MaxCalls : Covers(CancelAllOrders(symbol[order], call), order)
=============================================================================
