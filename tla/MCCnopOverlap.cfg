SPECIFICATION Spec
CONSTANTS
    Programs <- CnopPrograms
    CsectNames = {"A", "B"}
    DsectNames = {"D"}
    ComNames = {"C"}
    PrivateCode = "PC"
    NoSect = "none"
    Literals <- MCLiterals
    LitSize <- MCLitSize
    LitAlgn <- MCLitAlgn
    NoLit = "nolit"
INVARIANT SectionsApart
