CONSTANTS
    MAXTEXT = 16
    Layouts <- MCLayouts
    Tables <- MCTables
    Pairs <- MCPairs
    NoPair = NoPair
    RLDMAX = 20
    CESDMAX = 3
    Builds <- MCBuilds
SPECIFICATION ModSpec
INVARIANTS CesdReadsBack TextWritten IdsAccount FetchReadsItems EndedOnce
