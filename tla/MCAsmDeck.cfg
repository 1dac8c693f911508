SPECIFICATION Spec
CONSTANTS
    Assemblies <- MCAssemblies
    NoSym = "none"
    ESDCARD = 3
    TXTCARD = 5
    RLDCARD = 16
INVARIANTS SymbolsReadBack TextReadBack RelocationsReadBack PunchedInPlace
