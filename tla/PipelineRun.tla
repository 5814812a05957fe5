---------------------------- MODULE PipelineRun ----------------------------
(***************************************************************************)
(* src/pipeline_sim.cpp, runPipeline as a state machine: one step is one   *)
(* iteration of the loop over pc.  The timeline, which is the output, is   *)
(* kept in executed_program with the cycle and the stalls of each entry.   *)
(***************************************************************************)
EXTENDS PipelineSim

CONSTANT max_cycles     \* instructions that are executed at most

ASSUME MaxCyclesAssumption == max_cycles \in Nat

VARIABLES
    program,
    machine,                \* pc, branch_pending, ..., registers, memory
    scoreboard,             \* next_if_cycle, reg_ready_cycle, memory_ready_cycle
    instructions_executed,
    executed_program,
    diagnostics,            \* kinds of diagnostics that were raised
    finished

run_vars == <<program, machine, scoreboard, instructions_executed, executed_program,
              diagnostics, finished>>

\* What is kept of an executed instruction.
TimelineEntry == [inst : InstructionSet, if_cycle : Nat, stalls : Nat]

\* The registers and memory of the code hold 0.
ColdMachine ==
    [StartMachine EXCEPT !.registers = [r \in Registers |-> <<"li", 0>>],
                         !.memory = <<"li", 0>>]

RunStart(p) ==
    /\ program = p
    /\ machine = ColdMachine /\ scoreboard = StartScoreboard
    /\ instructions_executed = 0 /\ executed_program = <<>> /\ diagnostics = {}
    /\ finished = FALSE

RunInit == \E p \in Seq(InstructionSet) : RunStart(p)

-----------------------------------------------------------------------------

Running == ~finished /\ machine.pc \in DOMAIN program
inst == program[machine.pc]

WithinBudgetInclusive == instructions_executed <= max_cycles
WithinBudget == instructions_executed < max_cycles

\* What every iteration does.
Iterate(taken) ==
    /\ WithinBudget
    /\ machine' = Step(program, machine, taken)
    /\ scoreboard' = scheduleInstruction(scoreboard, inst)
    /\ executed_program' =
         Append(executed_program, [inst |-> inst, if_cycle |-> scoreboard'.next_if_cycle,
                                   stalls |-> stall_cycles(scoreboard, inst)])
    /\ UNCHANGED <<program, finished>>

Plain ==
    /\ Running /\ ~isControl(inst)
    /\ Iterate(FALSE)
    /\ instructions_executed' = instructions_executed + 1
    /\ UNCHANGED diagnostics

Control ==
    /\ Running /\ isControl(inst)
    /\ \E taken \in Outcomes(machine, inst) : Iterate(taken)
    /\ instructions_executed' = instructions_executed + 1
    /\ diagnostics' = diagnostics \cup
         IF isBranch(inst) /\ inst.target_index = 0 THEN {"unresolved target"} ELSE {}

\* The remark at the end on a branch whose slot was not executed.
Pending == IF machine.branch_pending THEN {"target pending"} ELSE {}

ExhaustBudgetAndGoOn ==
    /\ Running /\ ~WithinBudget
    /\ diagnostics' = diagnostics \cup {"budget"} \cup Pending
    /\ UNCHANGED <<program, machine, scoreboard, instructions_executed, executed_program,
                   finished>>

ExhaustBudget ==
    /\ Running /\ ~WithinBudget
    /\ diagnostics' = diagnostics \cup {"budget"} \cup Pending
    /\ finished' = TRUE
    /\ UNCHANGED <<program, machine, scoreboard, instructions_executed, executed_program>>

Leave ==
    /\ ~finished /\ machine.pc \notin DOMAIN program
    /\ diagnostics' = diagnostics \cup Pending
    /\ finished' = TRUE
    /\ UNCHANGED <<program, machine, scoreboard, instructions_executed, executed_program>>

RunNext == Plain \/ Control \/ ExhaustBudget \/ Leave

RunSpec == RunInit /\ [][RunNext]_run_vars
=============================================================================
