CONSTANTS
    PriceFactor = 10
    Price = {20}
SPECIFICATION Spec
INVARIANTS TermsKept EffectKept OrderFound
