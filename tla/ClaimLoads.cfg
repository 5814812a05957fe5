SPECIFICATION ConformanceSpec
CONSTANTS
    MaxPc = 7
    MaxWord = 15
    MaxReg = 2
    CountMod = 64
    WordAnd <- BitAnd
    WordOr <- BitOr
    Programs <- StoreLoad
PROPERTIES
    LoadsReadTheirAddress
