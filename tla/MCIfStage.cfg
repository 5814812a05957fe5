SPECIFICATION Spec
CONSTANTS
    MaxPc = 3
    INST_NOP = 0
    Instr <- MCInstr
    Programs <- MCPrograms
INVARIANTS
    TypeOK
    Coherent
    Contiguous
PROPERTIES
    StarvesOnlyOnRedirect
    ImplementsStream
