CONSTANTS
    Names <- MCNames
    Blank = " "
    MAXESD = 4
    Decks <- MCDecks
    Jobs <- MCJobs
    NoName = "none"
SPECIFICATION FairSpec
INVARIANTS SearchClosed OnlyNeeded CleanDefinerPreferred NeverTwice
PROPERTIES ImplementsLibraryCall Termination
