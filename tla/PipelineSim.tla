---------------------------- MODULE PipelineSim ----------------------------
(***************************************************************************)
(* src/pipeline_sim.cpp, runPipeline: the machine with one delay slot that *)
(* gives a program of the tool chain its meaning.  A machine state is a    *)
(* record, and Step is one iteration of the loop over pc.                  *)
(*                                                                         *)
(* Values are terms over the initial contents of the registers and of      *)
(* memory: what executeArithmetic and an addition compute is kept as the   *)
(* operation and its operands, and which way a branch goes is a parameter. *)
(* Two programs that agree on terms agree on every int, and whatever code  *)
(* in front of them left in the registers, which the code starts at 0.     *)
(* The cycle numbers do not depend on values; scheduleInstruction computes *)
(* them.                                                                   *)
(***************************************************************************)
EXTENDS Instruction

StartMachine ==
    [pc |-> 1, branch_pending |-> FALSE, branch_target |-> 0, branch_delay_slot |-> 0,
     registers |-> [r \in Registers |-> <<"initial", r>>], memory |-> <<"initial", "memory">>]

readRegister(m, r) == IF r = "" THEN <<"li", 0>> ELSE m.registers[r]
writeRegister(m, r, value) == IF r = "" THEN m ELSE [m EXCEPT !.registers[r] = value]

\* Arithmetic, a load or a store; a nop changes nothing.
Execute(m, inst) ==
    LET lhs == readRegister(m, inst.rs)
        rhs == readRegister(m, inst.rt)
    IN  CASE inst.opcode = "addi" ->
                writeRegister(m, inst.rt, <<"addi", lhs, inst.immediate>>)
          [] inst.opcode = "li" -> writeRegister(m, inst.rt, <<"li", inst.immediate>>)
          [] inst.opcode \in RdArithmetic ->
                writeRegister(m, IF inst.rd = "" THEN inst.rt ELSE inst.rd,
                              <<inst.opcode, lhs, rhs>>)
          [] inst.opcode = "lw" ->
                writeRegister(m, inst.rt, <<"lw", m.memory, lhs, inst.immediate>>)
          [] inst.opcode = "sw" ->
                [m EXCEPT !.memory = <<"sw", m.memory, lhs, inst.immediate, rhs>>]
          [] OTHER -> m

BranchTargetInSlot(inst, pc, taken) ==
    IF (taken \/ isJump(inst)) /\ inst.target_index # 0 THEN inst.target_index ELSE pc + 1

\* An unresolved branch falls through, an unresolved jump goes to its own slot.
BranchTarget(inst, pc, taken) ==
    CASE isJump(inst) -> IF inst.target_index = 0 THEN pc + 1 ELSE inst.target_index
      [] OTHER        -> IF taken /\ inst.target_index # 0 THEN inst.target_index ELSE pc + 2

StepPendingWithoutSlot(program, m, taken) ==
    LET inst == program[m.pc]
        target == BranchTarget(inst, m.pc, taken)
    IN  CASE isControl(inst) ->
                [m EXCEPT !.branch_pending = TRUE, !.branch_target = target,
                          !.branch_delay_slot = m.pc + 1,
                          !.pc = IF m.pc = Len(program) THEN target ELSE m.pc + 1]
          [] ~isControl(inst) /\ m.branch_pending /\ m.pc = m.branch_delay_slot ->
                [Execute(m, inst) EXCEPT !.branch_pending = FALSE, !.pc = m.branch_target]
          [] OTHER -> [Execute(m, inst) EXCEPT !.pc = m.pc + 1]

Step(program, m, taken) ==
    LET inst == program[m.pc]
        target == BranchTarget(inst, m.pc, taken)
    IN  CASE isControl(inst) /\ m.pc = Len(program) ->
                [m EXCEPT !.branch_pending = FALSE, !.branch_target = target,
                          !.branch_delay_slot = m.pc + 1, !.pc = target]
          [] isControl(inst) /\ m.pc < Len(program) ->
                [m EXCEPT !.branch_pending = TRUE, !.branch_target = target,
                          !.branch_delay_slot = m.pc + 1, !.pc = m.pc + 1]
          [] ~isControl(inst) /\ m.branch_pending /\ m.pc = m.branch_delay_slot ->
                [Execute(m, inst) EXCEPT !.branch_pending = FALSE, !.pc = m.branch_target]
          [] OTHER -> [Execute(m, inst) EXCEPT !.pc = m.pc + 1]

\* Which ways a branch may go: either, unless its operands are the same term or
\* two different constants.
Outcomes(m, inst) ==
    LET lhs == readRegister(m, inst.rs)
        rhs == readRegister(m, inst.rt)
    IN  IF isJump(inst) THEN {TRUE}
        ELSE CASE lhs = rhs                               -> {inst.opcode = "beq"}
               [] lhs # rhs /\ {lhs[1], rhs[1]} = {"li"} -> {inst.opcode = "bne"}
               [] OTHER                                   -> BOOLEAN

-----------------------------------------------------------------------------
(* The five stages.  An instruction that is fetched in cycle c is in ID in *)
(* c + 1, in EX in c + 2, in MEM in c + 3 and in WB in c + 4.              *)

StartScoreboard ==
    [next_if_cycle |-> 0, memory_ready_cycle |-> 0,
     reg_ready |-> [r \in Registers \cup {""} |-> 0]]

\* Cycles that an instruction waits for registers and memory.
stall_cycles(scoreboard, inst) ==
    LET if_cycle == scoreboard.next_if_cycle + 1
        needed == {scoreboard.reg_ready[r] - (if_cycle + 1) : r \in usedRegisters(inst)}
                  \cup (IF isMemory(inst) THEN {scoreboard.memory_ready_cycle - (if_cycle + 3)}
                        ELSE {})
    IN  CHOOSE s \in needed \cup {0} : \A n \in needed \cup {0} : n <= s

scheduleLoadsAsArithmetic(scoreboard, inst) ==
    LET if_cycle == scoreboard.next_if_cycle + 1 + stall_cycles(scoreboard, inst)
    IN  [next_if_cycle |-> if_cycle,
         memory_ready_cycle |-> IF isMemory(inst) THEN if_cycle + 4
                                ELSE scoreboard.memory_ready_cycle,
         reg_ready |-> [r \in Registers \cup {""} |->
                          IF r \in definedRegister(inst) THEN if_cycle + 3
                          ELSE scoreboard.reg_ready[r]]]

scheduleInstruction(scoreboard, inst) ==
    LET if_cycle == scoreboard.next_if_cycle + 1 + stall_cycles(scoreboard, inst)
        ready_cycle == if_cycle + (IF inst.opcode = "lw" THEN 4 ELSE 3)
    IN  [next_if_cycle |-> if_cycle,
         memory_ready_cycle |-> IF isMemory(inst) THEN if_cycle + 4
                                ELSE scoreboard.memory_ready_cycle,
         reg_ready |-> [r \in Registers \cup {""} |->
                          IF r \in definedRegister(inst) THEN ready_cycle
                          ELSE scoreboard.reg_ready[r]]]
=============================================================================
