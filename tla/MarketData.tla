----------------------------- MODULE MarketData -----------------------------
(***************************************************************************)
(* The market-data streams: MarketDataUsdM, and MarketDataCoinM whose      *)
(* connection handling is the same line by line.  A stream is READY as     *)
(* soon as its web-socket is, subscribes the symbols of its slice, and is  *)
(* told of symbols that become known later.  The messages wait in a queue  *)
(* from which the timer sends as many as the rate limiter lets pass.       *)
(*                                                                         *)
(* A message is a symbol with a topic; what the exchange sends back does   *)
(* not change the state of a stream and is left out.                       *)
(***************************************************************************)
EXTENDS Symbols

CONSTANT Symbol

VARIABLES
    symbols,     \* shared_.symbols, in the order they became known
    market_data  \* market_data_: connection_status_ and subscribe_queue_ of
                 \* each stream, and (auxiliary) what was sent in its session

Topics == <<"orderbook", "trade", "market24h">>

Message == Symbol \X {"orderbook", "trade", "market24h"}

\* subscribe(symbols): the messages for a list of symbols.
Messages(list) ==
    LET n == Len(Topics)
    IN  [i \in 1 .. n * Len(list) |->
            <<list[1 + ((i - 1) \div n)], Topics[1 + ((i - 1) % n)]>>]

Stream == [connection_status : {"DISCONNECTED", "READY"},
           queue : Seq(Message), sent : Seq(Message)]

NewStream == [connection_status |-> "DISCONNECTED", queue |-> <<>>, sent |-> <<>>]

\* subscribe(start_from) of the stream with this index.  A stream that is not
\* ready ignores it, it will subscribe its whole slice.
Subscribed(stream, index, list, start_from) ==
    IF stream.connection_status = "READY"
    THEN [stream EXCEPT !.queue = @ \o Messages(GetSlice(list, index, start_from))]
    ELSE stream

SetStream(i, stream) == market_data' = [market_data EXCEPT ![i] = stream]

MarketDataReady(i) ==
    /\ market_data[i].connection_status = "DISCONNECTED"
    /\ SetStream(i, Subscribed([market_data[i] EXCEPT !.connection_status = "READY"],
                               i - 1, symbols, 0))
    /\ UNCHANGED symbols

\* Mutant: the queue survives the session.
LostStreamKeepsQueue(stream) == [NewStream EXCEPT !.queue = stream.queue]

LostStream(stream) == NewStream

MarketDataDisconnected(i) ==
    /\ market_data[i].connection_status = "READY"
    /\ SetStream(i, LostStream(market_data[i]))
    /\ UNCHANGED symbols

\* The timer: check_subscribe_queue() sends the first n messages.
CheckSubscribeQueue(i) ==
    /\ market_data[i].connection_status = "READY"
    /\ LET queue == market_data[i].queue
       IN  \E n \in 1 .. Len(queue) :
              SetStream(i, [market_data[i] EXCEPT
                  !.queue = SubSeq(queue, n + 1, Len(queue)),
                  !.sent = @ \o SubSeq(queue, 1, n)])
    /\ UNCHANGED symbols
=============================================================================
