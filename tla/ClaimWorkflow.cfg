SPECIFICATION ChainSpec
CONSTANTS
    Registers = {"$t0", "$t1", "$s0", "$v0", "$zero"}
    Labels = {"start", "loop", "exit"}
    Immediates = {1, 10}
    Sources <- ExampleAutoInput
    Simulated = {}
    MaxControls = 2
    max_cycles = 6
INVARIANTS
    ScheduledIsSimulated
CHECK_DEADLOCK FALSE
