--------------------------- MODULE SimConformance ---------------------------
(***************************************************************************)
(* What src/pipeline_sim.cpp promises: it follows a machine with one delay *)
(* slot, its timeline is that of a pipeline that issues as early as the    *)
(* operands allow, and it remarks on a pending branch only when cut short. *)
(***************************************************************************)
EXTENDS PipelineRun

\* The locals of runPipeline, and what ties them together: one entry of the
\* timeline for each instruction counted, and no more than the budget.
RunTypeOK ==
    /\ program \in Seq(InstructionSet)
    /\ DOMAIN machine = {"pc", "branch_pending", "branch_target", "branch_delay_slot",
                         "registers", "memory"}
    /\ machine.pc \in Nat \ {0} /\ machine.branch_pending \in BOOLEAN
    /\ machine.branch_target \in Nat /\ machine.branch_delay_slot \in Nat
    /\ machine.branch_pending => machine.branch_target # 0
    /\ scoreboard \in [next_if_cycle : Nat, memory_ready_cycle : Nat,
                       reg_ready : [Registers \cup {""} -> Nat]]
    /\ executed_program \in Seq(TimelineEntry)
    /\ instructions_executed = Len(executed_program)
    /\ instructions_executed <= max_cycles
    /\ diagnostics \subseteq {"unresolved target", "target pending", "budget"}
    /\ finished \in BOOLEAN

\* pipeline_sim.cpp:203: while a target is pending the slot of that branch is
\* executed, and there is one.  So only the budget can end a run in between, and
\* the last remark never comes without the remark on the budget.
PendingMeansInSlot ==
    /\ machine.branch_pending =>
           machine.pc = machine.branch_delay_slot /\ machine.pc \in DOMAIN program
    /\ "target pending" \in diagnostics => "budget" \in diagnostics

-----------------------------------------------------------------------------
(* Timing.                                                                 *)

\* The first cycle in which the result of an entry can be read in ID.
Ready(entry) == entry.if_cycle + (IF entry.inst.opcode = "lw" THEN 4 ELSE 3)

\* Whether entry n could be fetched in cycle c: after its predecessor, and such
\* that no operand is read before an earlier entry has produced it.
CanFetch(n, c) ==
    /\ n > 1 => c > executed_program[n - 1].if_cycle
    /\ \A m \in 1 .. n - 1 :
           definedRegister(executed_program[m].inst)
               \cap usedRegisters(executed_program[n].inst) # {}
             => Ready(executed_program[m]) <= c + 1

\* pipeline_sim.cpp:29: every instruction is fetched in the first cycle in which
\* it can be, in the order of execution.  The scoreboard keeps one cycle for each
\* register, which a later definition overwrites, and still no operand is read too
\* early; and its rule for memory never delays anything.
TimelineIsEarliest ==
    \A n \in DOMAIN executed_program :
        LET c == executed_program[n].if_cycle
        IN  CanFetch(n, c) /\ ~(c > 1 /\ CanFetch(n, c - 1))

-----------------------------------------------------------------------------
(* Order of execution.                                                     *)

OneSlot == INSTANCE OneDelaySlot WITH
    pc <- machine.pc,
    npc <- IF machine.branch_pending THEN machine.branch_target ELSE machine.pc + 1

\* A control instruction in the slot of a branch that is about to be taken: its
\* target replaces that of the branch, which then never happens.
BranchForgotten ==
    /\ Running /\ isControl(inst)
    /\ machine.branch_pending /\ machine.branch_target # machine.pc + 1

\* A jump without a target goes to its slot, which so is executed twice.
JumpToSlot == Running /\ isJump(inst) /\ inst.target_index = 0

\* pipeline_sim.cpp:132: the simulator executes what a machine with one delay
\* slot executes, with two exceptions.
ImplementsOneSlot == [][BranchForgotten \/ JumpToSlot \/ OneSlot!Next]_machine
=============================================================================
