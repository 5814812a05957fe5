SPECIFICATION BenchSpec
CONSTANTS
    MaxPc = 127
    MaxWord = 255
    MaxReg = 31
    CountMod = 81
    WordAnd <- BitAnd
    WordOr <- BitOr
    Programs <- MCPrograms
INVARIANTS
    MatchesWaveform
    MeetsTestbench
CHECK_DEADLOCK FALSE
