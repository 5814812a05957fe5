SPECIFICATION ConformanceSpec
CONSTANTS
    MaxPc = 7
    MaxWord = 3
    MaxReg = 2
    CountMod = 1
    WordAnd <- BitAnd
    WordOr <- BitOr
    Programs <- MCPrograms
INVARIANTS
    CountsBranchesOnce
    FilledSlotsFlow
PROPERTIES
    ImplementsDelayedBranch
    WaitsOneCycle
    KeepsIssuing
