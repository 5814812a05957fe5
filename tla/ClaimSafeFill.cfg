SPECIFICATION ChainSpec
CONSTANTS
    Registers = {"a", "b", "c"}
    Labels = {"L"}
    Immediates = {1}
    Sources <- LoopHead
    Simulated = {}
    MaxControls = 2
    max_cycles = 6
INVARIANTS
    ComputesTheSame
CHECK_DEADLOCK FALSE
