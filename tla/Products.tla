------------------------------ MODULE Products ------------------------------
(***************************************************************************)
(* What an item of the products download means (rest_usd_m.cpp,            *)
(* rest_coin_m.cpp): whether the product is served, and the reference data *)
(* that are published of it.                                               *)
(***************************************************************************)
EXTENDS Map, Security

CONSTANT QuantityFactor  \* Security::quantity_factor, a power of ten

ASSUME QuantityFactorAssumption == QuantityFactor \in Nat \ {0}

\* discard_helper(): each API serves its own type of product, while listed, and
\* unless the configuration discards the symbol.
DiscardUsdM(item, discard_symbol) ==
    \/ item.type # "PERPETUAL_V2"
    \/ item.status # "LISTED"
    \/ discard_symbol

DiscardCoinM(item, discard_symbol) ==
    \/ item.type # "PERPETUAL"
    \/ item.status # "LISTED"
    \/ discard_symbol

\* The step size of the volume, as the number of steps in one unit: USD-M is
\* told, COIN-M has it from the precision of the quantity.
ReferenceDataUsdM(item, discard) ==
    [security_type |-> MapType(item.type), steps |-> item.steps, discard |-> discard]

ReferenceDataCoinM(item, discard) ==
    [security_type |-> MapType(item.type), steps |-> QuantityFactor, discard |-> discard]
=============================================================================
