CONSTANTS
    Names <- MCNames
    Blank = " "
    MAXESD = 5
    AllowUnresolved = TRUE
    MOD_ARCH_MAX = 48
    NoName = "none"
    EntryNames = {"none", "C"}
    Inputs <- MCInputs
SPECIFICATION LaySpec
INVARIANTS TextInPlace AdconsRight WarnedExactly CommonsApart EndEntryInPlace
