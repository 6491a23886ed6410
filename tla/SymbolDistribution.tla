------------------------- MODULE SymbolDistribution -------------------------
(***************************************************************************)
(* From the exchange's products to the market-data subscriptions: the REST *)
(* stream downloads the products, the controller appends those that are    *)
(* new to the list of symbols and creates streams as they are needed, and  *)
(* every stream subscribes the symbols of its slice.  Symbols also come    *)
(* from the clients.                                                       *)
(***************************************************************************)
EXTENDS MarketData, Rest, FiniteSets, SequencesExt

ASSUME ProductAssumption == Product \subseteq Symbol

ASSUME SymbolFinite == IsFiniteSet(Symbol)

VARIABLE all_symbols  \* shared_.all_symbols

vars == <<symbols, market_data, all_symbols, listed, restVars>>

Init ==
    /\ RestInit
    /\ symbols = <<>>
    /\ market_data = <<>>
    /\ all_symbols = {}

\* Streams are created until there is one for every slice.
\* Mutant: there is one for every slice that is full.
StreamsFull(list) ==
    LET needed == Len(list) \div MaxPerStream
    IN  IF Len(market_data) < needed THEN needed ELSE Len(market_data)

Streams(list) ==
    IF Len(market_data) < Size(list) THEN Size(list) ELSE Len(market_data)

\* The symbols that are not known yet.
\* Mutant: none of them is looked up.
AllOf(items) == items

NewOf(items) == items \ all_symbols

\* operator()(SymbolsUpdate): the symbols are appended, streams are created,
\* and all streams are told where the new symbols begin.
SymbolsUpdate(items) ==
    \E new \in SetToSeqs(NewOf(items)) :
        /\ symbols' = symbols \o new
        /\ all_symbols' = all_symbols \union items
        /\ market_data' =
             [i \in 1 .. Streams(symbols') |->
                IF i <= Len(market_data)
                THEN Subscribed(market_data[i], i - 1, symbols', Len(symbols))
                ELSE NewStream]

\* A client subscribes symbols, listed or not.
Subscribe(items) ==
    /\ SymbolsUpdate(items)
    /\ UNCHANGED <<listed, restVars>>

RestNext ==
    \/ RestConnected
    \/ RestDisconnected
    \/ \E request \in requests :
          ProductsAckSkipped(request) \/ ProductsError(request) \/ ProductsClientError(request)
    \/ \E product \in Product : List(product)

Products ==
    \E request \in requests, products \in SUBSET listed :
        /\ ProductsAck(request, products)
        /\ SymbolsUpdate(products)

Next ==
    \/ RestNext /\ UNCHANGED <<symbols, market_data, all_symbols>>
    \/ Products
    \/ \E items \in SUBSET Symbol \ {{}} : Subscribe(items)
    \/ /\ \E i \in DOMAIN market_data :
             MarketDataReady(i) \/ MarketDataDisconnected(i) \/ CheckSubscribeQueue(i)
       /\ UNCHANGED <<all_symbols, listed, restVars>>

Spec == Init /\ [][Next]_vars

-----------------------------------------------------------------------------
(* Safety.                                                                 *)

TypeOK ==
    /\ RestTypeOK
    /\ symbols \in SeqOf(Symbol, Cardinality(Symbol))
    /\ market_data \in Seq(Stream)
    /\ all_symbols \in SUBSET Symbol

\* In every session a stream subscribes each topic of each symbol of its slice
\* exactly once, in the order of the list: what it has sent and what waits in
\* the queue are together just that, whether a symbol became known before the
\* session, during it, or while the queue was being sent, and nothing is left
\* of the session before (market_data_usd_m.cpp:164-168, :175-180, :193-197).
SubscribedOnce ==
    \A i \in DOMAIN market_data :
        LET stream == market_data[i]
        IN  IF stream.connection_status = "READY"
            THEN stream.sent \o stream.queue = Messages(GetSlice(symbols, i - 1, 0))
            ELSE stream.queue = <<>>

\* Every known symbol is in the slice of exactly one of the streams that
\* exist, and only once in it, whoever made it known first
\* (rest_usd_m.cpp:325, controller.cpp:204, :283-300).
SlicesPartition ==
    LET slices == [i \in DOMAIN market_data |-> ToSet(GetSlice(symbols, i - 1, 0))]
    IN  /\ \A symbol \in all_symbols :
               Cardinality({i \in DOMAIN market_data : symbol \in slices[i]}) = 1
        /\ \A i \in DOMAIN market_data :
               Cardinality(slices[i]) = Len(GetSlice(symbols, i - 1, 0))

\* A download that is done has brought everything that was listed when it
\* began: it was not ended by the answer to an earlier one
\* (rest_usd_m.cpp:234).
NothingMissed == download = "DONE" => wanted \subseteq all_symbols

\* What makes these invariants hold.  Whatever the download is to bring was
\* listed when its requests were sent, also when one of them repeats an
\* earlier one.
DownloadInv ==
    /\ RestTypeOK
    /\ wanted \subseteq listed
    /\ Downloading =>
          \A request \in requests : ~request.overdue => wanted \subseteq request.products
    /\ NothingMissed

\* The list has every known symbol once, and there are streams for all of it.
ListInv ==
    /\ symbols \in Seq(Symbol)
    /\ all_symbols = ToSet(symbols)
    /\ \A j, k \in 1 .. Len(symbols) : symbols[j] = symbols[k] => j = k
    /\ Size(symbols) <= Len(market_data)

\* A stream that is not connected has sent nothing and has nothing to send.
StreamInv ==
    /\ market_data \in Seq(Stream)
    /\ \A i \in DOMAIN market_data :
          market_data[i].connection_status = "DISCONNECTED" => market_data[i] = NewStream
    /\ SubscribedOnce

IInv == DownloadInv /\ ListInv /\ StreamInv

-----------------------------------------------------------------------------
(* Liveness.                                                               *)

Disturbance ==
    \/ RestDisconnected
    \/ \E request \in requests : ProductsError(request)
    \/ \E i \in DOMAIN market_data : MarketDataDisconnected(i)

\* The framework reconnects and runs the timers, the exchange answers, and the
\* rate limiter lets a message pass in the end.
Fairness ==
    /\ WF_vars(RestConnected /\ UNCHANGED <<symbols, market_data, all_symbols>>)
    /\ WF_vars(Products)
    /\ WF_vars(/\ \E request \in requests : ProductsAckSkipped(request)
               /\ UNCHANGED <<symbols, market_data, all_symbols>>)
    /\ \A i \in 1 .. Cardinality(Symbol) :
          /\ WF_vars(/\ i \in DOMAIN market_data
                     /\ MarketDataReady(i)
                     /\ UNCHANGED <<all_symbols, listed, restVars>>)
          /\ WF_vars(/\ i \in DOMAIN market_data
                     /\ CheckSubscribeQueue(i)
                     /\ UNCHANGED <<all_symbols, listed, restVars>>)

LiveSpec == Spec /\ Fairness

EventuallyCalm == <>[][~Disturbance]_vars /\ <>[]~unheard

\* The exchange has been sent all subscriptions of a symbol.
Served(symbol) ==
    \E i \in DOMAIN market_data :
        /\ market_data[i].connection_status = "READY"
        /\ \A j \in DOMAIN Topics : <<symbol, Topics[j]>> \in ToSet(market_data[i].sent)

\* Once the connections hold and the exchange answers, every symbol a client
\* asked for or a download is to bring gets all its subscriptions, unless the
\* answer to the download was a client error: no handler hears of it, and the
\* download waits for the connection to be lost (rest_usd_m.cpp:370).
SymbolsServed ==
    EventuallyCalm =>
        \A symbol \in Symbol :
            symbol \in all_symbols \union wanted ~> Served(symbol)
=============================================================================
