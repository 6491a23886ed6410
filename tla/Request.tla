------------------------------- MODULE Request -------------------------------
(***************************************************************************)
(* What the streams of one account share (gateway/request.hpp): two        *)
(* request slots and the set of lost orders to be queried.  The drop copy  *)
(* fills them, the master order-entry stream empties them.                 *)
(*                                                                         *)
(* The order-management cache is a part of the server framework.  All that *)
(* matters here is which orders it flags as stale, i.e. not confirmed by   *)
(* the exchange, and which ones it has dropped: get_all_stale_orders()     *)
(* enumerates the first, find_order() fails for the second, and an         *)
(* OrderUpdate dispatched for an order removes its flag.                   *)
(***************************************************************************)
EXTENDS LimitRequest

CONSTANTS
    Order,     \* the orders of the account, pairs (user_id, order_id)
    CanVanish  \* whether the cache may drop an order that is to be queried

ASSUME CanVanishAssumption == CanVanish \in BOOLEAN

VARIABLES
    stale_orders,          \* slot: query the lost orders
    trades,                \* slot: query the user's fills
    details_stale_orders,  \* the lost orders the next query is about
    stale,                 \* the orders the cache flags as stale
    forgotten,             \* the orders the cache has dropped
    fatal                  \* which log::fatal ended the process, if any

requestVars == <<stale_orders, trades, details_stale_orders>>
cacheVars == <<stale, forgotten>>

Fatal == {"none", "logon", "details", "counter"}

\* The process runs as long as no log::fatal was reached.
Alive == fatal = "none"

RequestInit ==
    /\ stale_orders = NewSlot
    /\ trades = NewSlot
    /\ details_stale_orders = {}
    /\ stale = {}
    /\ forgotten = {}
    /\ fatal = "none"

RequestTypeOK ==
    /\ stale_orders \in Slot
    /\ trades \in Slot
    /\ details_stale_orders \in SUBSET Order
    /\ stale \in SUBSET Order
    /\ forgotten \in SUBSET Order
    /\ fatal \in Fatal

\* Mutant: one of the two is enough.
RequestReadyEither == IsReady(stale_orders) \/ IsReady(trades)

\* ready(): neither kind of query is being served.
RequestReady == IsReady(stale_orders) /\ IsReady(trades)

\* OrderUpdates are dispatched for these orders.
Dispatch(orders) == stale' = stale \ orders

\* What became of an order is no longer known: the cache flags it when the
\* stream that reported it is lost or when a request for it fails.
LoseTrack(order) ==
    /\ Alive
    /\ order \notin stale \union forgotten
    /\ stale' = stale \union {order}
    /\ UNCHANGED <<requestVars, forgotten, fatal>>

\* The cache drops an order.
Forget(order) ==
    /\ Alive
    /\ CanVanish
    /\ order \notin forgotten
    /\ forgotten' = forgotten \union {order}
    /\ stale' = stale \ {order}
    /\ UNCHANGED <<requestVars, fatal>>
=============================================================================
