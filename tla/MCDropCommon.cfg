CONSTANTS
    Names <- MCNames
    Blank = " "
    MAXESD = 5
    AllowUnresolved = TRUE
    MOD_ARCH_MAX = 48
    NoName = "none"
    EntryNames = {"none"}
    Inputs <- DropCommonInputs
SPECIFICATION LaySpec
INVARIANTS TextInPlace
