CONSTANTS
    W = 6
    SIGN = 32
    HALF = 8
    D = 2
    Args <- MCArgs
    Exponents <- MCExponents
SPECIFICATION Spec
INVARIANTS DivTruncates OverflowExact ConversionsExact
