SPECIFICATION ConformanceSpec
CONSTANTS
    MaxPc = 31
    MaxWord = 15
    MaxReg = 31
    CountMod = 64
    WordAnd <- BitAnd
    WordOr <- BitOr
    Programs <- EdgecaseProgram
INVARIANTS
    OriginalSlotRuns
