SPECIFICATION Spec
CONSTANTS
    Assemblies <- EndAssemblies
    NoSym = "none"
    ESDCARD = 3
    TXTCARD = 5
    RLDCARD = 16
INVARIANT EndNamesSection
