SPECIFICATION Spec
CONSTANTS
    MaxPc = 6
    MaxWord = 3
    MaxReg = 2
    CountMod = 3
    WordAnd <- BitAnd
    WordOr <- BitOr
    Programs <- AllPrograms
INVARIANTS
    TypeOK
    PromotionSafe
    SlotsAccounted
PROPERTIES
    FetchSpec
    IssueComesCloser
