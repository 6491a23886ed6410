------------------------------ MODULE Security ------------------------------
(***************************************************************************)
(* tools/security.hpp: what is known of a COIN-M product.  Prices are      *)
(* whole numbers of ticks; COIN-M prices travel as whole numbers, too      *)
(* (Ep), which are the price times the price factor.                       *)
(***************************************************************************)
EXTENDS Integers

CONSTANT PriceFactor  \* Security::price_factor, a power of ten

ASSUME PriceFactorAssumption == PriceFactor \in Nat \ {0}

\* No price.
NaN == -1

Scaled(price) == IF price = NaN THEN NaN ELSE price * PriceFactor

\* Exact for what the exchange sends.
Unscaled(ep) == IF ep = NaN THEN NaN ELSE ep \div PriceFactor
=============================================================================
