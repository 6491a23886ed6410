# Formal model of the Phemex futures gateway

TLA+ modules, TLC configurations and TLAPS proofs for `roq-phemex-futures`, a
gateway that connects clients of a trading framework to the Phemex exchange.
Source paths below are relative to `src/src/roq/phemex_futures/`.

## The system

The gateway is one process with one thread. A framework (not part of the
repository: event loop, web-socket and REST clients, order-management cache)
calls its handlers, one at a time; what is concurrent is the *order* of these
callbacks. Sockets break and come back, answers are late, fail or are lost, and
timers run in between. For every API there are two copies of each stream,
`*_usd_m` and `*_coin_m`. Their control flow is the same; they differ in the
fields they read, in the scaling of prices, and in that COIN-M needs the tables
of the products download before it can translate anything. The modules about
control are written from `usd_m`; those about contents have both, chosen by the
variable `api`.

| Component | State | Operations | Talks to |
|---|---|---|---|
| Drop copy (`gateway/drop_copy_*`), one per account | connection status, download state, timeouts | connect, login, subscribe to accounts-orders-positions (AOP), download, timer, AOP messages | request slots; order cache; clients |
| Order entry (`gateway/order_entry_*`), N per account, the first is the master | connection status, counter of queries | order actions and their answers; the master's timer sends the queries | request slots; order cache; clients |
| Request (`gateway/request.*`), one per account | two slots, the set of lost orders to query | request, check_pending, commit, has_response | drop copy fills, master empties |
| Controller (`gateway/controller.*`) | streams, `all_symbols`, round-robin index | dispatch of events and actions, symbol updates, creation of streams | everything |
| Products download (`gateway/rest_*`) | connection status, download, COIN-M tables | connect, request, answer, error | controller (`SymbolsUpdate`); all COIN-M streams |
| Market data (`gateway/market_data_*`), one per slice of symbols | connection status, queue of subscriptions | connect, subscribe, timer, publish | rate limiter, controller, clients |
| Throttle (`tools/throttle.*`) | headers of the current response, back-off times | begin, header, end of a response | all REST connections |
| Encoder, maps, parsers (`protocol/json`) | none | formatting and reading of messages | streams |
| Account, crypto, API tables, configuration, flags, applications, bridges | none, or fixed at the start | | |

What makes each correct, and what is hard about it:

- *Recovery of lost orders* (drop copy, master, slots). An order is lost when
  nobody knows what became of it. The drop copy notes lost orders in a set and
  requests a query, the master sends one query per order, answers are counted,
  the last one commits the request, the timer of the drop copy notices and the
  stream goes on to READY. Four state machines share three pieces of state and
  none of it is reset when a socket breaks. Correct means: no noted order is
  orphaned, neither `log::fatal("Unexpected")` is reached, the counter is right
  whatever fails, queries do not overlap, the download does not overtake its
  answers, the stream becomes READY, lost orders are found.
- *Order actions* (order entry). Consecutive actions of an order go over
  different connections and arrive in any order; an answer may be a timeout of
  a request that is carried out later. Correct means: each action is refused or
  answered exactly once, under its own version, and what the answer says is
  true as far as it says something: REJECTED with `Error::UNKNOWN`, which is what
  a 504 becomes, leaves open what became of the action. A cancel of all orders is
  a request per symbol, or none, its success is told to nobody and its failures
  without a name: correct means that a client that has heard of no failure may
  rely on its orders being gone.
- *The order as the clients see it* (order entry, drop copy). Four paths tell of
  an order, with different fields, scales and delays: the answers to a create,
  to a cancel and to a query, and the feed. Correct means: each path reports the
  terms the client asked for; when all is told, the cache has the order, the
  funds and the position as the exchange has them; no fill is told twice; a
  complete order stays complete.
- *Symbols* (products download, controller, market data). Symbols come from two
  sources, at any time, while streams connect, send their queues or break.
  Correct means: every session subscribes every topic of every symbol of its
  slice exactly once, slices partition the symbols, no download is ended by the
  answer to an earlier one, every symbol is served in the end.
- *Market data*. Snapshots come again in every session; COIN-M prices must be
  unscaled with a table that may not be there yet. Correct means: the published
  book is the exchange's book, no trade is published twice, the prices of the day
  are those of one moment, nothing comes before the reference data, and no
  message is given to the wrong handler, which would end the process.
- *Routing*. Connections come and go between two order actions. Correct means:
  no connection that stays ready is passed over, NotReady is thrown only when
  none is ready.
- *Throttle*. Headers of responses are collected in one place for all
  connections, times are announced by headers and by status 429. Correct means:
  every 429 has a back-off, and back-offs do not add up. What a header promises
  the source leaves open: it is a number of seconds and is kept as a point in time.

`PROJECT.json` lists the hazards with their lines and the properties that cover
them, or the reason why none does.

## Modules

| Module | Models | Notes |
|---|---|---|
| `LimitRequest` | `core::limit::Request` (external) | a slot as a record `pending, waiting, answered` |
| `Request` | `gateway/request.*` and the part of the order cache that matters | `stale` is what `get_all_stale_orders` enumerates, `forgotten` what `find_order` no longer finds; `fatal` is set where the code calls `log::fatal` |
| `DropCopy` | `gateway/drop_copy_*`: session and download | one action per callback; the `Enter...` operators are the branches of `download()` |
| `OrderQuery` | the master's part of `gateway/order_entry_*` | `asked` and `fills_asked` are the REST requests under way |
| `OrderRecovery` | composition of the two, properties, fairness | |
| `OrderRecoveryProofs` | theorems about `OrderRecovery` | |
| `ActionService` | what clients are promised about an order action | abstract: open or thrown, done or not, answered once |
| `OrderEntry` | `gateway/order_entry_*`: create, modify, cancel, cancel all, `process_response()` | implements `ActionService` |
| `OrderEntryProofs` | theorems about `OrderEntry`, the refinement among them | |
| `Map` | `protocol/json/map.cpp` | the enumerations on their way to the exchange and back |
| `Security` | `tools/security.hpp`, scaling of COIN-M prices | constant `PriceFactor` |
| `Encoder` | `protocol/json/encoder.cpp` | a request as the record of its parameters |
| `OrderReports` | the `OrderUpdate`s, `TradeUpdate`s, positions and funds of `order_entry_*` and `drop_copy_*` | one operator per path and API |
| `OrderTerms` | one order, from the client's call over the exchange to each report and the next request | composes `Encoder` and `OrderReports` |
| `OrderTermsProofs` | theorems about `OrderTerms` | |
| `OrderLifecycle` | one order over time, with the cache, the feed, the answers and the queries | composes `OrderReports` with what `OrderRecovery` and `OrderEntry` do |
| `OrderLifecycleProofs` | theorems about `OrderLifecycle` | |
| `Parser` | `protocol/json/parser.cpp`, `parser_2.cpp` | a message is the set of its fields; `Dispatch` gives its handlers |
| `Products` | the products answer of `gateway/rest_*` | what is discarded, reference data, COIN-M tables |
| `MarketFeed`, `MarketFeedProofs` | `gateway/market_data_*`: what is published | composes `Products` and `Parser` |
| `RoundRobin`, `RoundRobinProofs` | `Controller::OrderEntryRR` | |
| `Throttle`, `ThrottleProofs` | `tools::Throttle` | |
| `Symbols` | `core::Symbols` (external) | |
| `MarketData` | `gateway/market_data_*`: sessions and subscriptions | a stream is a record; `sent` is auxiliary |
| `Rest` | `gateway/rest_*`: connection and download | `unheard` is auxiliary |
| `SymbolDistribution` | the controller's part and the composition of the three | |
| `SymbolDistributionProofs` | theorems about `SymbolDistribution`, lemmas about lists, slices and messages | |

An action is a whole handler. So the timer of the drop copy is one action,
`DropCopyTimer`: the check of the slots, which may make the stream ready, and
then the check for lost orders, which runs if the stream is ready *by then*.
The order within a handler is kept where it matters: `NotedOrders` is primed in
`DropCopy` because `check_stale_orders()` runs before the download is told.
`SendStaleOrders` and `SendTrades` are the two halves of
`check_request_queue()` of the master; both are reached in one call, but the
gate `ready()` is shut for the second once the first has sent something, and
open for it if the first has not, so that one call is one of the two actions
or, when the rate limiter refuses or nothing is pending, no step. The one case
in which a call takes both halves is a first half that finds all noted orders
dropped by the cache: it takes the slot as well, and the gate is shut too.

The system is cut along what its parts share. Whether the queries for lost
orders are sent is a matter of slots and sessions and is settled in
`OrderRecovery`, where an order has no contents. `OrderLifecycle` uses that
result: there `GetOrder` and `CheckStaleOrders` may happen whenever an order is
noted or stale, and the question is what the answers do to the cache.
`OrderTerms` has no time and every combination of terms; `OrderLifecycle` has
time and one set of terms. In the same way `MarketFeed` receives the
subscriptions that `SymbolDistribution` shows to be sent, and `OrderEntry`
reduces the connections to whether one is ready, which is what `RoundRobin`
shows `get_order_entry()` to depend on.

A definition that carries `Mutant:` in its comment is a wrong version of the
definition after it, kept to show that the properties notice.

### What is assumed of the framework and of the exchange

- `core::limit::Request`: `request()` marks the slot; `check_pending(f)` calls
  `f` if the slot is marked, `ready()` holds and the rate limiter agrees, and
  from then on the slot is not ready until `commit()`; `has_response()` holds
  after a commit until the next request.
- `core::Download2`: `begin()` enters the first state from any state; a state
  waits for as many answers as its callback returned; `check(s)` and `retry(s)`
  do nothing unless `s` is the current state.
- The REST client calls back exactly once for each request, with an answer or
  with an error, also after a timeout or a disconnect, and reports failures in
  no other way. A success of the products download arrives only while connected.
- `refresh()` holds exactly while the web-socket is up (after `Ready`, before
  `Disconnected`).
- `core::Symbols` appends, cuts the list into slices of fixed size, and
  positions are positions in the whole list.
- The dispatcher calls the clients and does not throw. It numbers the requests
  of an order, 1 for the create, and lets pass only the enumeration values the
  exchange has a counterpart for.
- The order-management cache keeps the newer of two updates of an order, by
  `update_time_utc` (`index.rst:239`). It takes an order for stale unless the
  feed, or a query that was sent since the feed was subscribed, has confirmed
  it. It drops the books of a stream that is disconnected.
- The exchange has carried out an action when it answers 2xx with code 0, and
  never will when it answers 2xx with another code, or 403 or 429, the limits it
  enforces. Of any other 4xx and of every 5xx, of a body that cannot be read and of a
  network error nothing follows: they may come from what is in front of the
  exchange, and the action may still be carried out.
- An order whose create was accepted is open until it is cancelled: fills, which
  end an order as well, are the matter of `OrderLifecycle`. A cancel
  of all orders of a symbol that the exchange carries out cancels what is open.
- `get_all_order_symbols()` names the symbols of the orders that clients have
  sent, and perhaps others.
- The exchange numbers what happens to an order by `transactTimeNs`,
  begins a subscription with a snapshot, and echoes the terms of an order.
- A redirect ends the process (`log::fatal` in every `process_response`), in
  `OrderEntry` by `Halt`; elsewhere it is left out, as are binary messages, which
  end the process too.

### Abstractions

Clocks are the outcomes of comparisons (is the next check due), except in
`Throttle`. Messages carry what the properties tell apart: in `OrderRecovery`
an AOP message says which orders it reports as open and which as complete and
an answer to a query is a row, no row or an error; in `OrderEntry` an answer is
the category of its HTTP status and body; in `Parser` a message is the set of
its top-level fields; in `OrderReports` and `MarketFeed` it is a record of the
fields the handlers read. Texts are model values or short strings, prices and
quantities natural numbers, NaN a value of its own. `execStatus` has a value
that is expected and one, `ABORTED`, that stands for all that are not. Where the
source leaves open by what a field of COIN-M is scaled ("scale ???",
"convert ???": the position, the volume, the rates), the model scales it on the
wire, passes it on as the code does, and no property claims anything of it.
Pings, latencies, metrics
and logging are left out.

## Runs

| Run | Configuration | Shows |
|---|---|---|
| `recovery` | 2 orders, the cache may drop orders, login retried, look-back | `TypeOK`, `NoOrphan`, `CounterMatches`, `NoUnexpected`, `NeverStuck`, `OneQueryAtATime`, `DownloadWaits`, `BecomesReady`, `LostOrdersAreFound` |
| `order_entry` | 1 order, 2 symbols, 2 versions, one cancel of all, both APIs | `TypeOK`, `SilenceMeansCancelled`, the refinement `AnswersAreTrue`, liveness `AnswersCome` |
| `order_terms` | every combination of terms, one price | `TermsKept`, `EffectKept`, `OrderFound` |
| `lifecycle` | an order of two units, filled in two parts, from a short position, both APIs | `ViewAgrees`, `AccountAgrees`, `FillsToldOnce`, `NeverBack` |
| `symbols` | 3 symbols, 2 of them products, slices of 2, client errors | `TypeOK`, `SubscribedOnce`, `SlicesPartition`, `NothingMissed`, `SymbolsServed` |
| `market_feed` | one price on two sides, 2 trades, 2 messages under way | `TypeOK`, `BookAgrees`, `TradesPublished`, `DayAgrees`, `ReferenceFirst`, `Understood` |
| `round_robin` | 4 connections | `TypeOK`, `NotPassedOver`, `ThrowsOnlyIfNoneReady` |
| `throttle` | 2 connections, responses overlap | `TypeOK`, `BackoffBounded` |
| `early_ready` | expected violation | a session READY that is not logged in |
| `second_429` | expected violation | a second 429 sets no back-off |
| `stop_price` | expected violation | the stop price of a COIN-M order is not scaled |
| `open_orders` | expected violation | an open COIN-M order of the snapshot is dropped for good |

### Bounds

- `recovery`: two orders give a query under way and an order that is noted, or
  lost, meanwhile; the counter takes each value the code tells apart (0, 1,
  more). Nothing else is bounded, the state space is finite. The safety
  properties are proved for every number of orders and every value of the flags.
- `order_entry`: two versions (`MaxVersion`) give a create and a later action
  that races with it, or is refused; an order's actions meet those of no other
  order, so one order is enough. One cancel of all (`MaxCalls`) over two symbols
  gives no request, a request for the order's symbol, one for another, or both, of
  which one may fail. All safety properties are proved for any number of each.
- `order_terms`: the maps are finite and taken whole; of a price it matters only
  whether it is scaled, so one price and NaN do. The step that takes a report
  may be repeated, so that reports and requests meet in each order.
- `lifecycle`: two units give a partial fill; the order is created by a client
  or was there before; a cancel may race with each fill. One cancel is enough,
  a second one is refused. The position begins one unit short (`Short`), is flat
  after one fill and long after the other, with a balance that is negative in
  the last state (`Owing`): what is told is short, flat and then nothing. Sessions
  are not bounded.
- `symbols`: slices of two with three symbols give a full slice, a slice that
  grows and a stream that is created late, two products an answer that is out of
  date: sent before one was listed, read in a later download. At most nine
  messages are queued.
- `market_feed`: one price on each side, set and removed, gives snapshots with
  no level, one and two; two trades give an old one and a new one. `MaxQueue`
  bounds the messages under way at two, so that a snapshot and a change, or a
  change and an answer, are under way together; sessions are not bounded.
- `throttle` has a clock that begins at `Start`, after the largest header
  (the clock counts from 1970, a header is seconds), and is bounded by `MaxTime`;
  four ticks let a default back-off of two expire and be followed by another
  response.
- `round_robin`: `waited` is bounded by the property itself.

No two runs differ only in a flag. `RetryLogon` FALSE and `TradesLookback`
FALSE are covered by the theorems, the latter also by `early_ready`.

### Findings

1. **READY before login** (`early_ready`, `gateway/drop_copy_usd_m.cpp:161`).
   `Disconnected` leaves the download in its state. A session breaks while the
   download is in GET_STALE_ORDERS; the query is answered; the next session's
   socket is up, its login under way; the timer sees state and answer and tells
   the download, which ends in READY. When the login is answered the download
   begins again, so the status goes back to DOWNLOADING.
2. **Second 429** (`second_429`, `tools/throttle.cpp:147`). The default
   back-off is set only if no back-off was ever set.
3. **Stop price** (`stop_price`, `protocol/json/encoder.cpp:72`). A COIN-M
   request has `priceEp` multiplied by the price factor and `stopPxEp` as it is.
4. **Open orders** (`open_orders`, `gateway/drop_copy_coin_m.cpp:446`). An order
   of the snapshot whose product is not yet known is logged and forgotten; the
   snapshot is what "download open orders" relies on. The cache does not know
   the order, so that the check for stale orders does not ask for it either.

Seen as well, without a run of their own: a refused login ends the process
unless `experimental.retry_logon` is set (`gateway/drop_copy_usd_m.cpp:261`),
where `index.rst:233-235` says that the gateway disconnects and tries again; and
the answer with the fills is logged and not published
(`gateway/order_entry_usd_m.cpp:810`), where `flags/rest.json:71` speaks of a
download of fills. `FillsToldOnce` therefore demands only that fills since the
feed was up are told.

### Fairness

`OrderRecovery!Fairness`: weak fairness for the callbacks of the client, for
the answers of the exchange and for the timer with a check that is due, because
the event loop runs timers forever and nothing else can take these steps away
for good. *Strong* fairness for `SendStaleOrders` and `SendTrades`: they are
enabled only while the shared gate is open, each can be shut out by the other
again and again, and the code offers both the gate in every timer. The liveness
properties hold under `EventuallyCalm`: from some time on no connection breaks,
no login is refused, every query gets a row and the cache drops nothing, and
the master is not left with a slot for which it sent nothing (`Emptied`, a dead
end of the code: `order_entry_usd_m.cpp:823`). The assumption restricts the
environment and that one state only; whatever else the disturbances left in
slots, counter and download remains. Orders may be lost forever.

`SymbolDistribution!Fairness` has weak fairness for reconnects, answers and the
timer's sending; its calm excludes disconnects and failed downloads from some
time on, and a download that is never heard of again because it ended with a
client error other than 403 and 429 (`unheard`, `gateway/rest_usd_m.cpp:370`).

`OrderEntry!Fairness` is weak fairness of the callback for each request, which
the REST client owes whether or not the exchange answers. `AnswersCome` is the
fairness of `ActionService`: an action that is open is answered.

## Proofs

`OrderRecoveryProofs` proves, for every finite set of orders and every value of
the three Boolean constants (`OrderFinite`, `CanVanishAssumption`,
`DropCopyAssumption`), that `IInv` is inductive, and from it:

| Theorem | Property |
|---|---|
| `TypeCorrect` | `TypeOK` |
| `OrphansNever` | `NoOrphan` |
| `CounterCorrect` | `CounterMatches` |
| `UnexpectedNever` | `NoUnexpected` |
| `QueriesAlone` | `OneQueryAtATime` |
| `DownloadNeverOvertakes` | `DownloadWaits` |
| `SessionsGoOn` | `NeverStuck` |

None of the properties is inductive. `NoUnexpected` needs to know that an
answered slot with orders noted is impossible, hence `NoOrphan`, and that an
answer finds the counter positive, hence `CounterMatches`; `NoOrphan` at the
acknowledgement of the subscription needs to know that the download is then in
SUBSCRIBE_AOP (otherwise orders would be noted and not requested), which is the
last conjunct of `IInv`; `CounterMatches` needs that a batch is sent only when
none is under way, which the conjuncts about the slots give. The proof has one
step per action.

`NeverStuck` is the part of `BecomesReady` that is a safety property, and so
holds for every set of orders: a session that is up and not READY waits for an
answer that is under way, for a query that is to be sent, or for the timer to
see an answer that came. Nothing resets the slots when a session ends, so it
needs `ProgressInv`: a slot that was used once is always pending, served or
answered; with `CounterMatches` a slot that is served has a query under way, but
for the dead end `Emptied`.

`OrderEntryProofs` proves, for every set of orders and symbols and every number
of versions and calls (`MaxVersionAssumption`, `MaxCallsAssumption`):

| Theorem | Property |
|---|---|
| `TypeCorrect` | `TypeOK` |
| `Truth` | `AnswersAreTrue`: `OrderEntry` implements `ActionService` |
| `Silence` | `SilenceMeansCancelled` |

The refinement rests on `IInv`: requests under way are exactly the open actions,
which is what makes an answer a step from "open" and never a second answer; the
exchange has heard of exactly what was sent, which is what makes `Execute` a
step of an action that is open or of one whose answer left it open; and the
answers are true, which rules out that an action told to be REJECTED with an
error of its own is carried out later. Nothing is proved of REJECTED with
`Error::UNKNOWN`: `ActionService` lets such an action be carried out still.
`SilenceMeansCancelled` needs more, `CoveredInv`: for every order that was
accepted before a call there is a request of one of the calls, for its symbol,
that has cancelled it, or is under way, or has failed and been told. It is a
property of all requests of a client together, since a failure cannot be told
from another. `RefinementInit` and `RefinementStep` are the two halves; the step is
a case per action of `OrderEntry`, each of which is a step of `ActionService`
or a stutter.

`SymbolDistributionProofs` proves all four safety properties of the symbols, for
every finite set of symbols, every subset of them as products and every size of
the slices (`SymbolFinite`, `ProductAssumption`, `MaxPerStreamAssumption`):

| Theorem | Property |
|---|---|
| `TypeCorrect` | `TypeOK` |
| `EverySubscriptionOnce` | `SubscribedOnce` |
| `SlicesAreAPartition` | `SlicesPartition` |
| `DownloadComplete` | `NothingMissed` |

`IInv` has three parts. `DownloadInv`: each request that is not overdue was sent
when everything wanted was listed. `ListInv`: the list has every known symbol
once, and there is a stream for each of its slices. `StreamInv`: a stream that
is not connected has nothing left in its queue, which is why a new session
begins clean. The step that matters is `SymbolsUpdate` while a stream is
connected: what the slice gains, counted from the old length of the list, is
appended to the queue; the lemmas `SliceGrows` and `MessagesConcat` show
that the old subscriptions and these are those of the new slice. The partition
comes from the uniqueness of the quotient of a position.

`OrderTermsProofs` proves all three properties of `OrderTerms`, for every set of
prices and every price factor (`PriceAssumption`, `PriceFactorAssumption`):

| Theorem | Property |
|---|---|
| `EveryReportTrue` | `TermsKept` |
| `EveryFillHasTheEffect` | `EffectKept` |
| `EveryRequestNamesTheOrder` | `OrderFound` |

The maps are finite and are taken case by case (`SideKept`, `OrderTypeKept`,
`TimeInForceKept`, `PositionEffectKept`); the prices are not, and `PriceKept`
shows that a price that was scaled, echoed and unscaled is the same price.
`TermsInv` says that the exchange keeps what was sent for the request, and that
all that was told or asked since was made of it; the rest follows from the
state, path by path.

`OrderLifecycleProofs` proves all four properties of `OrderLifecycle`, for every
quantity and value factor and any position before the order:

| Theorem | Property |
|---|---|
| `CompleteForGood` | `NeverBack` |
| `EachFillOnce` | `FillsToldOnce` |
| `AccountKnown` | `AccountAgrees` |
| `CacheIsTheExchanges` | `ViewAgrees` |

`NeverBack` rests on `IInv`: whatever is under way, in an answer, a query or the
feed, and whatever the cache holds, happened at the exchange no later than what
the exchange has now, and a report of the end is a report of *the* end; so no
later update is newer than a complete one without being complete.

The three others say something only of a state in which nothing is on its way;
their invariants say what is owed as long as something is.

- `FillsInv`: the executions on their way come after the last one told and in
  their order; if the feed was never down since the order is there, none is
  missing between the one told and the one the exchange has.
- `AccountInv`: the last message of the session has the position and the balance
  of the exchange, or, if none is on its way, they were told. With COIN-M this
  holds from the first fill on, and for the balance only: the unit of a COIN-M
  position is not known. A position with a negative balance is not told, which
  is why the theorem leaves it out as long as the balance is negative.
- `ViewInv`: there is a time since when the order has been at the exchange as it
  is now. Whatever tells of that time or of a later one, on whatever path, tells
  the truth; and an order that was confirmed in this session of the feed, or is
  about to be, has such a report in the cache or on the feed. The cache takes an
  update unless it is older than what it has, so that once nothing is under way
  it has a report of that time or later, and that one is true.

`MarketFeedProofs` proves all six properties of `MarketFeed`, for every set of
prices, all quantities and factors, any number of trades and any length of the
queue (`PriceAssumption`, `PriceFactorAssumption`, `QuantityFactorAssumption`,
`BoundAssumption`):

| Theorem | Property |
|---|---|
| `TypeCorrect` | `TypeOK` |
| `PublishedAfterReference` | `ReferenceFirst` |
| `EveryMessageUnderstood` | `Understood` |
| `DayIsReal` | `DayAgrees` |
| `TradesPublishedOnce` | `TradesPublished` |
| `BookIsTheExchanges` | `BookAgrees` |

`IInv` says that COIN-M tables and reference data come together, and that of a
symbol nobody has listed nothing is under way but the answers to pings.
`FeedInv` adds that every message under way is one the exchange sends, so that
the parser finds its handler, and that whoever subscribed in time has the tables
it takes to read them. `StatisticsInv` says that each message of the statistics
has those of one moment; that a price survives scaling is `UnscaledScaled`. `TradesInv` says that the trades published, the
increments under way and the trades at the exchange follow one another in the
order of their numbers, and that of those since the subscription none is missing.
`BookAgrees` needs a history: `BookInv` says that there is a sequence of states
of the book, one before each message under way and one after the last, of which
the first is the published book and the last that of the exchange, and each
message leads from its state to the next (`Follows`). A step of the exchange adds
a state at the end, a message that is read takes the first one away, and a
subscription begins a new sequence.

`RoundRobinProofs` proves all three properties of the routing for every number
of connections. `NotPassedOver`: a connection that has waited k times is at most
N - 1 - k positions ahead of the index, and every choice that passes it by
brings the index nearer. `ThrowsOnlyIfNoneReady`: some offset leads the scan to
any given connection, and the least offset that leads to a ready one is where
the scan stops.

`ThrottleProofs` proves `TypeCorrect` (`TypeOK`) and `Bounded` (`BackoffBounded`)
for any connections and headers and for responses that overlap in any way, from
`ThrottleAssumption`: the clock is past any number of seconds a header has.

Only model-checked: the liveness properties (`BecomesReady`,
`LostOrdersAreFound`, `AnswersCome`, `SymbolsServed`), which are out of the
prover's reach. Every safety property that a passing run checks is proved. The
bounds of the runs (`MaxQueue`, `MaxTrades`, `MaxQuantity`) are constants of the
theorems, too, so that these hold whatever the bounds are; each is as weak as
the models need, `BoundAssumption` asks for room for two messages because the
exchange may answer a subscription with two.

## Not modelled

- The controller's `Start`, `Stop`, `Timer` and `Control`, which are handed on
  to every stream and keep nothing.
- Account and crypto, stateless; API tables, configuration and flags, constants;
  the applications and the two bridges, start-up code; the JSON schemas, from
  which the message classes are generated.
- Binary messages, and redirects of other than order actions, which end the process; `orders_replace_*` of
  the encoder and of order entry, which nothing calls.
- The margin mode and the liquidity of a fill, which no property tells apart.
- The rate limiter, so that nothing is said of what waits for it.
- Klines, which are subscribed and only logged.
- The order-management cache, the clients, the event loop and the rate limiter,
  which belong to the framework and appear only by what is assumed of them.

## What could come next

A subscription service that `SymbolDistribution` implements; `OrderLifecycle`
with two orders and orders that are modified by the exchange.
