----------------------------- MODULE ToolChain ------------------------------
(***************************************************************************)
(* src/schedule_tool.cpp and src/pipeline_sim_main.cpp, as README.md runs  *)
(* them: schedule_tool reads a source, schedules it and prints the result; *)
(* then pipeline_sim reads the source itself, or what was printed, and     *)
(* runs it.  Both mains go on whatever the parser remarks.                 *)
(***************************************************************************)
EXTENDS PassEquivalence, SimConformance, Parser

CONSTANTS
    Sources,    \* files given to schedule_tool
    Simulated   \* those of them that are given to pipeline_sim, too

ASSUME SourcesAssumption ==
    \A file \in Sources : file \in Seq(LineSet) /\ \A k \in DOMAIN file : WellNamed(file[k])

VARIABLES
    source,
    tool        \* the program that is running

chain_vars == <<source, tool, vars, run_vars>>

ChainInit ==
    /\ source \in Sources /\ tool = "schedule_tool"
    /\ Start(parseAssemblyString(source).instructions)
    /\ RunStart(<<>>)

Schedule == tool = "schedule_tool" /\ Next /\ UNCHANGED <<source, tool, run_vars>>

Files == {source, Printed(instructions)}

Simulate ==
    /\ tool = "schedule_tool" /\ returned /\ source \in Simulated
    /\ tool' = "pipeline_sim"
    /\ \E file \in Files : program' = parseAssemblyString(file).instructions
    /\ UNCHANGED <<source, vars, machine, scoreboard, instructions_executed,
                   executed_program, diagnostics, finished>>

Run == tool = "pipeline_sim" /\ RunNext /\ UNCHANGED <<source, tool, vars>>

ChainNext == Schedule \/ Simulate \/ Run

ChainSpec == ChainInit /\ [][ChainNext]_chain_vars

\* Each tool is one sequential process, which goes on until it ends.
FairChainSpec == ChainSpec /\ WF_chain_vars(Schedule \/ Run)

-----------------------------------------------------------------------------
(* Reading.  What the parser makes of a source is in `input'; neither ever *)
(* changes, so it is enough to look at them in the beginning.              *)

AtStart == i = 1 /\ ~returned

IsInstruction(line) == ~IsBlank(line) /\ ~IsLabel(line)
InstructionLines == {k \in DOMAIN source : IsInstruction(source[k])}
InstructionLinesBefore(k) == Cardinality({l \in InstructionLines : l < k})

\* The position in the program of the instruction from line k.
PositionOf(k) ==
    CHOOSE n \in DOMAIN input :
        /\ ~input[n].label_only
        /\ Cardinality({m \in 1 .. n - 1 : ~input[m].label_only}) = InstructionLinesBefore(k)

\* parser.cpp:142: whoever jumps to a label comes to the instruction that follows
\* it in the source, also when it shares that instruction with other labels, or
\* stands at the end.  Of a label that is there twice the last one counts.
LabelsLead ==
    AtStart =>
    \A k \in DOMAIN source :
        IsLabel(source[k]) /\ (\A l \in k + 1 .. Len(source) : source[l] # source[k])
          => LET n == LabelPosition(input, source[k].label)
             IN  /\ n # 0
                 /\ Cardinality({m \in 1 .. n - 1 : ~input[m].label_only})
                        = InstructionLinesBefore(k)

\* parser.cpp:142: the instruction that the programmer wrote behind a control
\* instruction is in its delay slot, unless two labels or more stand between.
SlotsAsWritten ==
    AtStart =>
    \A k, l \in InstructionLines :
        /\ isControl(input[PositionOf(k)])
        /\ InstructionLinesBefore(l) = InstructionLinesBefore(k) + 1
        /\ Cardinality({m \in k .. l : IsLabel(source[m])}) <= 1
        => PositionOf(l) = PositionOf(k) + 1

-----------------------------------------------------------------------------
(* Writing and reading again.                                              *)

InlineLabel(inst_) == hasLabel(inst_) /\ ~inst_.label_only

\* As in `add a, b, ,', whose third operand the parser reads but not again.
LastOperandEmpty(inst_) == EndsEmpty(PrintedOperands(inst_))

\* instruction.cpp:154: what schedule_tool prints reads back as the program it
\* has, or, where an instruction has a label or nothing for its last operand, not
\* without a remark.
PrintedIsReadBack ==
    returned /\ tool = "schedule_tool" =>
      LET again == parseAssemblyString(Printed(instructions))
      IN  IF \E n \in DOMAIN instructions :
                InlineLabel(instructions[n]) \/ LastOperandEmpty(instructions[n])
          THEN again.diagnosed
          ELSE Texts(again.instructions) = Texts(instructions)

\* README.md:47 simulates the printed program to compare it with another one,
\* "to verify that manual and automatic schedules produce identical architectural
\* effects", so what is simulated is what was scheduled.
ScheduledIsSimulated ==
    returned => Texts(parseAssemblyString(Printed(instructions)).instructions)
                    = Texts(instructions)

\* pipeline_sim.cpp:134: the simulator ends, whatever loops the program has and
\* wherever its jumps go, because the budget counts every kind of instruction.
SimulatorEnds == tool = "pipeline_sim" ~> finished
=============================================================================
