SPECIFICATION Spec
CONSTANTS
    Programs <- MCPrograms
    CsectNames = {"A", "B"}
    DsectNames = {"D"}
    ComNames = {"C"}
    PrivateCode = "PC"
    NoSect = "none"
    Literals <- MCLiterals
    LitSize <- MCLitSize
    LitAlgn <- MCLitAlgn
    NoLit = "nolit"
INVARIANTS PassesAgree SectionsApart TextInSection NothingOverwritten
