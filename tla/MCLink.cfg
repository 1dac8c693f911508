CONSTANTS
    Names <- MCNames
    Blank = " "
    MAXESD = 5
    Decks <- MCDecks
    Jobs <- MCJobs
    NoName = "none"
SPECIFICATION LinkSpec
INVARIANTS DefinerUsed RefusedWithReason StrongDiagnosed FirstKept RefusalExact
PROPERTIES OnlyHardens
