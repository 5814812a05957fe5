SPECIFICATION FairChainSpec
CONSTANTS
    Registers = {"a", "b", "c"}
    Labels = {"L", "M"}
    Immediates = {1}
    Sources <- SmallSources
    Simulated <- Runs
    MaxControls = 2
    max_cycles = 6
INVARIANTS
    TypeOK
    NothingLost
    ManualSlotsKept
    TargetsFollow
    EachBranchDecided
    RulesKeepMeaning
    LabelsLead
    SlotsAsWritten
    PrintedIsReadBack
    RunTypeOK
    PendingMeansInSlot
    TimelineIsEarliest
PROPERTIES
    MovesAreSafe
    DecisionsStayTrue
    ImplementsOneSlot
    Terminates
    StepsRunOut
    SimulatorEnds
CHECK_DEADLOCK FALSE
