------------------------------ MODULE Symbols ------------------------------
(***************************************************************************)
(* core::Symbols, the list of all symbols in the order they became known,  *)
(* cut into slices of which every market-data stream serves one.  It is a  *)
(* class of the framework whose source is not part of the repository,      *)
(* modelled from its uses:                                                 *)
(*                                                                         *)
(*   controller   (symbols) -> [size, start_from], how many slices there   *)
(*                are now and where the symbols just appended begin        *)
(*   market data  get_slice(index, start_from), those symbols of a slice   *)
(*                that are at start_from or behind                         *)
(***************************************************************************)
EXTENDS Naturals, Sequences

CONSTANT MaxPerStream  \* --ws_max_subscriptions_per_stream

ASSUME MaxPerStreamAssumption == MaxPerStream \in Nat \ {0}

Size(list) == (Len(list) + MaxPerStream - 1) \div MaxPerStream

GetSlice(list, index, start_from) ==
    LET first == index * MaxPerStream
        last == first + MaxPerStream
    IN  SubSeq(list,
               1 + IF first < start_from THEN start_from ELSE first,
               IF last < Len(list) THEN last ELSE Len(list))
=============================================================================
