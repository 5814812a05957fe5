------------------------- MODULE PipelineRun_proofs -------------------------
(***************************************************************************)
(* Proofs about runPipeline for every program, budget and set of names.    *)
(***************************************************************************)
EXTENDS SimConformance, Integers, TLAPS

-----------------------------------------------------------------------------
(* Instructions.                                                           *)

\* Only the operands rs and rt are read, and "" is no register.
LEMMA UsedAreOperands ==
    ASSUME NEW x \in InstructionSet
    PROVE  usedRegisters(x) \subseteq {x.rs, x.rt} \ {""}
BY DEF usedRegisters

\* Only rd and rt are written.
LEMMA DefinedAreOperands ==
    ASSUME NEW x \in InstructionSet
    PROVE  definedRegister(x) \subseteq {x.rd, x.rt}
BY DEF definedRegister, ArithmeticOps, RdArithmetic

-----------------------------------------------------------------------------
(* The scoreboard.                                                         *)

Scoreboards == [next_if_cycle : Nat, memory_ready_cycle : Nat,
                reg_ready : [Registers \cup {""} -> Nat]]

\* What is among three integers and 0, and has 0, has a greatest element.
LEMMA GreatestOfFour ==
    ASSUME NEW a \in Int, NEW b \in Int, NEW c \in Int,
           NEW S, S \subseteq {a, b, c, 0}, 0 \in S
    PROVE  \E s \in S : \A n \in S : n <= s
<1>1. \A x \in {a, b, c, 0} : x \in Int
  OBVIOUS
<1>2. PICK s \in S : (a \in S => a <= s) /\ (b \in S => b <= s)
  <2>1. CASE a \in S /\ b \in S
    <3>1. a <= b \/ b <= a
      OBVIOUS
    <3> QED  BY <2>1, <3>1
  <2>2. CASE ~(a \in S /\ b \in S)
    BY <2>2
  <2> QED  BY <2>1, <2>2
<1>3. PICK t \in S : s <= t /\ (c \in S => c <= t)
  BY <1>1
<1>4. PICK u \in S : t <= u /\ 0 <= u
  BY <1>1
<1>5. \A n \in S : n <= u
  BY <1>1, <1>2, <1>3, <1>4
<1> QED  BY <1>5

\* An instruction waits until its operands are ready in ID and memory in MEM, and
\* not a cycle longer.
LEMMA StallFacts ==
    ASSUME NEW sb \in Scoreboards, NEW x \in InstructionSet
    PROVE  LET c == sb.next_if_cycle + 1
               s == stall_cycles(sb, x)
           IN  /\ s \in Nat
               /\ \A r \in usedRegisters(x) : sb.reg_ready[r] <= c + s + 1
               /\ isMemory(x) => sb.memory_ready_cycle <= c + s + 3
               /\ \/ s = 0
                  \/ \E r \in usedRegisters(x) : sb.reg_ready[r] = c + s + 1
                  \/ isMemory(x) /\ sb.memory_ready_cycle = c + s + 3
<1> DEFINE c == sb.next_if_cycle + 1
           R == {sb.reg_ready[r] - (c + 1) : r \in usedRegisters(x)}
           M == IF isMemory(x) THEN {sb.memory_ready_cycle - (c + 3)} ELSE {}
           S == (R \cup M) \cup {0}
           s == stall_cycles(sb, x)
<1> HIDE DEF R, M, S, s
<1>1. c \in Nat /\ sb.memory_ready_cycle \in Nat
  <2>1. sb.next_if_cycle \in Nat /\ sb.memory_ready_cycle \in Nat
    BY DEF Scoreboards
  <2> QED  BY <2>1
<1>2. \A r \in usedRegisters(x) : r \in {x.rs, x.rt} /\ sb.reg_ready[r] \in Nat
  <2>1. x.rs \in Registers \cup {""} /\ x.rt \in Registers \cup {""}
    BY DEF InstructionSet
  <2>2. \A r \in Registers \cup {""} : sb.reg_ready[r] \in Nat
    BY DEF Scoreboards
  <2> QED  BY <2>1, <2>2, UsedAreOperands
<1>3. \A n \in S : n \in Int
  BY <1>1, <1>2 DEF S, R, M
<1>4. \E t \in S : \A n \in S : n <= t
  <2>1. PICK a \in Int : x.rs \in usedRegisters(x) => a = sb.reg_ready[x.rs] - (c + 1)
    BY <1>1, <1>2
  <2>2. PICK b \in Int : x.rt \in usedRegisters(x) => b = sb.reg_ready[x.rt] - (c + 1)
    BY <1>1, <1>2
  <2>3. PICK d \in Int : isMemory(x) => d = sb.memory_ready_cycle - (c + 3)
    BY <1>1
  <2>4. S \subseteq {a, b, d, 0}
    <3>1. R \subseteq {a, b}
      BY <1>2, <2>1, <2>2 DEF R
    <3>2. M \subseteq {d}
      BY <2>3 DEF M
    <3> QED  BY <3>1, <3>2 DEF S
  <2>5. 0 \in S
    BY DEF S
  <2> QED  BY <2>4, <2>5, GreatestOfFour
<1>5. s = CHOOSE t \in S : \A n \in S : n <= t
  BY DEF stall_cycles, s, S, R, M, c
<1>6. s \in S /\ \A n \in S : n <= s
  BY <1>4, <1>5
<1>7. s \in Nat
  <2>1. 0 \in S
    BY DEF S
  <2> QED  BY <1>3, <1>6, <2>1
<1>8. \A r \in usedRegisters(x) : sb.reg_ready[r] - (c + 1) <= s
  BY <1>6 DEF S, R
<1>9. isMemory(x) => sb.memory_ready_cycle - (c + 3) <= s
  BY <1>6 DEF S, M
<1>10. s = 0 \/ s \in R \/ s \in M
  BY <1>6 DEF S
<1> HIDE DEF c
<1>11. \A r \in usedRegisters(x) : sb.reg_ready[r] <= c + s + 1
  BY <1>1, <1>2, <1>7, <1>8
<1>12. isMemory(x) => sb.memory_ready_cycle <= c + s + 3
  BY <1>1, <1>7, <1>9
<1>13. s \in R => \E r \in usedRegisters(x) : sb.reg_ready[r] = c + s + 1
  BY <1>1, <1>2, <1>7 DEF R
<1>14. s \in M => isMemory(x) /\ sb.memory_ready_cycle = c + s + 3
  BY <1>1, <1>7 DEF M
<1> QED  BY <1>7, <1>10, <1>11, <1>12, <1>13, <1>14 DEF s, c

\* The scoreboard after an instruction.
LEMMA ScheduleFacts ==
    ASSUME NEW sb \in Scoreboards, NEW x \in InstructionSet
    PROVE  LET next == scheduleInstruction(sb, x)
               c == sb.next_if_cycle + 1 + stall_cycles(sb, x)
           IN  /\ next \in Scoreboards
               /\ next.next_if_cycle = c
               /\ next.memory_ready_cycle
                    = IF isMemory(x) THEN c + 4 ELSE sb.memory_ready_cycle
               /\ \A r \in Registers \cup {""} :
                     next.reg_ready[r] = IF r \in definedRegister(x)
                                         THEN c + (IF x.opcode = "lw" THEN 4 ELSE 3)
                                         ELSE sb.reg_ready[r]
<1> DEFINE s == stall_cycles(sb, x)
           c == sb.next_if_cycle + 1 + s
           next == scheduleInstruction(sb, x)
           ready == [r \in Registers \cup {""} |->
                       IF r \in definedRegister(x) THEN c + (IF x.opcode = "lw" THEN 4 ELSE 3)
                       ELSE sb.reg_ready[r]]
<1>1. s \in Nat
  BY StallFacts
<1>2. sb.next_if_cycle \in Nat /\ sb.memory_ready_cycle \in Nat
  BY DEF Scoreboards
<1>3. \A r \in Registers \cup {""} : sb.reg_ready[r] \in Nat
  BY DEF Scoreboards
<1> HIDE DEF s
<1> HIDE DEF next, ready
<1>4. c \in Nat /\ c + 3 \in Nat /\ c + 4 \in Nat
  BY <1>1, <1>2
<1> HIDE DEF c
<1>5. ready \in [Registers \cup {""} -> Nat]
  <2>1. \A r \in Registers \cup {""} :
            (IF r \in definedRegister(x) THEN c + (IF x.opcode = "lw" THEN 4 ELSE 3)
             ELSE sb.reg_ready[r]) \in Nat
    <3> TAKE r \in Registers \cup {""}
    <3>1. sb.reg_ready[r] \in Nat
      BY <1>3
    <3> QED  BY <3>1, <1>4
  <2> QED  BY <2>1 DEF ready
<1>6. next = [next_if_cycle |-> c,
              memory_ready_cycle |-> IF isMemory(x) THEN c + 4 ELSE sb.memory_ready_cycle,
              reg_ready |-> ready]
  BY DEF scheduleInstruction, next, ready, c, s
<1>7. (IF isMemory(x) THEN c + 4 ELSE sb.memory_ready_cycle) \in Nat
  BY <1>2, <1>4
<1>8. next \in Scoreboards
  BY <1>4, <1>5, <1>6, <1>7 DEF Scoreboards
<1>9. /\ next.next_if_cycle = c
      /\ next.memory_ready_cycle = IF isMemory(x) THEN c + 4 ELSE sb.memory_ready_cycle
      /\ next.reg_ready = ready
  BY <1>6
<1> QED  BY <1>8, <1>9 DEF ready, next, c, s

-----------------------------------------------------------------------------
(* One iteration.                                                          *)

Fields == {"pc", "branch_pending", "branch_target", "branch_delay_slot",
           "registers", "memory"}

\* Arithmetic, loads and stores leave the program counter and what is pending.
LEMMA ExecuteKeeps ==
    ASSUME NEW m, DOMAIN m = Fields, NEW x
    PROVE  LET n == Execute(m, x)
           IN  /\ DOMAIN n = Fields
               /\ n.pc = m.pc /\ n.branch_pending = m.branch_pending
               /\ n.branch_target = m.branch_target
               /\ n.branch_delay_slot = m.branch_delay_slot
<1> DEFINE Keeps(n) == /\ DOMAIN n = Fields
                       /\ n.pc = m.pc /\ n.branch_pending = m.branch_pending
                       /\ n.branch_target = m.branch_target
                       /\ n.branch_delay_slot = m.branch_delay_slot
<1> SUFFICES Keeps(Execute(m, x))
  OBVIOUS
<1>1. \A r, v : Keeps(writeRegister(m, r, v))
  BY DEF writeRegister, Fields
<1>2. \A v : Keeps([m EXCEPT !.memory = v])
  BY DEF Fields
<1>3. Keeps(m)
  OBVIOUS
<1> HIDE DEF Keeps
<1>4. CASE x.opcode \in ArithmeticOps
  BY <1>1, <1>4 DEF Execute, ArithmeticOps, RdArithmetic
<1>5. CASE x.opcode = "lw"
  BY <1>1, <1>5 DEF Execute, RdArithmetic
<1>6. CASE x.opcode = "sw"
  BY <1>2, <1>6 DEF Execute, RdArithmetic
<1>7. CASE x.opcode \notin ArithmeticOps \cup {"lw", "sw"}
  BY <1>3, <1>7 DEF Execute, ArithmeticOps
<1> QED  BY <1>4, <1>5, <1>6, <1>7

\* How a machine m goes on to n when it executes x, with a slot if there is one: a
\* control instruction sets its target and its slot, or jumps at once if it has no
\* slot; in a slot execution turns to the target; and otherwise goes on.
GoesOn(m, x, n, target, slot) ==
    /\ DOMAIN n = Fields
    /\ isControl(x) =>
          /\ n.branch_target = target /\ n.branch_delay_slot = m.pc + 1
          /\ IF slot THEN n.pc = m.pc + 1 /\ n.branch_pending = TRUE
             ELSE n.pc = target /\ n.branch_pending = FALSE
    /\ ~isControl(x) =>
          /\ n.branch_target = m.branch_target
          /\ n.branch_delay_slot = m.branch_delay_slot
          /\ IF m.branch_pending /\ m.pc = m.branch_delay_slot
             THEN n.pc = m.branch_target /\ n.branch_pending = FALSE
             ELSE n.pc = m.pc + 1 /\ n.branch_pending = m.branch_pending

\* A step of the simulator is of that kind.
LEMMA StepFacts ==
    ASSUME NEW p, NEW m, DOMAIN m = Fields, NEW taken,
           Len(p) \in Nat, m.pc \in 1 .. Len(p)
    PROVE  GoesOn(m, p[m.pc], Step(p, m, taken), BranchTarget(p[m.pc], m.pc, taken),
                  m.pc # Len(p))
<1> DEFINE x == p[m.pc]
           n == Step(p, m, taken)
           target == BranchTarget(x, m.pc, taken)
<1> HIDE DEF x, n, target
<1> SUFFICES GoesOn(m, x, n, target, m.pc # Len(p))
  BY DEF x, n, target
<1>1. CASE isControl(x) /\ m.pc = Len(p)
  <2>1. n = [m EXCEPT !.branch_pending = FALSE, !.branch_target = target,
                      !.branch_delay_slot = m.pc + 1, !.pc = target]
    BY <1>1 DEF Step, x, n, target
  <2> QED  BY <1>1, <2>1 DEF Fields, GoesOn
<1>2. CASE isControl(x) /\ m.pc # Len(p)
  <2>1. n = [m EXCEPT !.branch_pending = TRUE, !.branch_target = target,
                      !.branch_delay_slot = m.pc + 1, !.pc = m.pc + 1]
    BY <1>2 DEF Step, x, n, target
  <2> QED  BY <1>2, <2>1 DEF Fields, GoesOn
<1>3. CASE ~isControl(x) /\ m.branch_pending /\ m.pc = m.branch_delay_slot
  <2>1. n = [Execute(m, x) EXCEPT !.branch_pending = FALSE, !.pc = m.branch_target]
    BY <1>3 DEF Step, x, n
  <2> QED  BY <1>3, <2>1, ExecuteKeeps DEF Fields, GoesOn
<1>4. CASE ~isControl(x) /\ ~(m.branch_pending /\ m.pc = m.branch_delay_slot)
  <2>1. n = [Execute(m, x) EXCEPT !.pc = m.pc + 1]
    BY <1>4 DEF Step, x, n
  <2> QED  BY <1>4, <2>1, ExecuteKeeps DEF Fields, GoesOn
<1> QED  BY <1>1, <1>2, <1>3, <1>4

\* A target is a position, whether it is resolved or not.
LEMMA BranchTargetType ==
    ASSUME NEW x \in InstructionSet, NEW pc \in Nat, NEW taken
    PROVE  BranchTarget(x, pc, taken) \in Nat \ {0}
<1>1. x.target_index \in Nat
  BY DEF InstructionSet
<1> QED  BY <1>1 DEF BranchTarget

-----------------------------------------------------------------------------
(* An iteration.                                                           *)

\* A result can be read three or four cycles after the fetch.
LEMMA ReadyFacts ==
    ASSUME NEW e \in TimelineEntry
    PROVE  /\ e.inst \in InstructionSet /\ e.if_cycle \in Nat
           /\ Ready(e) = e.if_cycle + (IF e.inst.opcode = "lw" THEN 4 ELSE 3)
           /\ Ready(e) \in Nat
           /\ e.if_cycle + 3 <= Ready(e) /\ Ready(e) <= e.if_cycle + 4
<1>1. e.inst \in InstructionSet /\ e.if_cycle \in Nat
  BY DEF TimelineEntry
<1> QED  BY <1>1 DEF Ready

\* The instruction at pc is one.
LEMMA InstType ==
    ASSUME RunTypeOK, Running
    PROVE  /\ inst \in InstructionSet /\ Len(program) \in Nat
           /\ machine.pc \in 1 .. Len(program) /\ inst = program[machine.pc]
<1>1. program \in Seq(InstructionSet) /\ machine.pc \in DOMAIN program
  BY DEF RunTypeOK, Running
<1> QED  BY <1>1 DEF inst

Cycle == scoreboard.next_if_cycle + 1 + stall_cycles(scoreboard, inst)
Entry == [inst |-> inst, if_cycle |-> Cycle, stalls |-> stall_cycles(scoreboard, inst)]

\* An iteration puts one entry behind the others.
LEMMA IterateAppends ==
    ASSUME RunTypeOK, Running, NEW taken, Iterate(taken)
    PROVE  /\ Entry \in TimelineEntry /\ Entry.inst = inst /\ Entry.if_cycle = Cycle
           /\ executed_program' = Append(executed_program, Entry)
           /\ executed_program' \in Seq(TimelineEntry)
           /\ Len(executed_program') = Len(executed_program) + 1
<1>1. scoreboard \in Scoreboards /\ executed_program \in Seq(TimelineEntry)
  BY DEF RunTypeOK, Scoreboards
<1>2. inst \in InstructionSet
  BY InstType
<1>3. stall_cycles(scoreboard, inst) \in Nat
  BY <1>1, <1>2, StallFacts
<1>4. scoreboard.next_if_cycle \in Nat
  BY <1>1 DEF Scoreboards
<1>5. Cycle \in Nat
  BY <1>3, <1>4 DEF Cycle
<1>6. Entry \in TimelineEntry /\ Entry.inst = inst /\ Entry.if_cycle = Cycle
  BY <1>2, <1>3, <1>5 DEF Entry, TimelineEntry
<1>7. scoreboard'.next_if_cycle = Cycle
  BY <1>1, <1>2, ScheduleFacts DEF Iterate, Cycle
<1>8. executed_program' = Append(executed_program, Entry)
  BY <1>7 DEF Iterate, Entry
<1> QED  BY <1>1, <1>6, <1>8

\* An iteration is one step of the machine.
LEMMA IterateSteps ==
    ASSUME RunTypeOK, Running, NEW taken, Iterate(taken)
    PROVE  /\ BranchTarget(inst, machine.pc, taken) \in Nat \ {0}
           /\ program' = program
           /\ Len(program) \in Nat /\ machine.pc \in 1 .. Len(program)
           /\ GoesOn(machine, inst, machine', BranchTarget(inst, machine.pc, taken),
                     machine.pc # Len(program))
<1>1. DOMAIN machine = Fields /\ machine.pc \in Nat
  BY DEF RunTypeOK, Fields
<1>2. /\ inst \in InstructionSet /\ Len(program) \in Nat
      /\ machine.pc \in 1 .. Len(program) /\ inst = program[machine.pc]
  BY InstType
<1>3. machine' = Step(program, machine, taken) /\ program' = program
  BY DEF Iterate
<1>4. BranchTarget(inst, machine.pc, taken) \in Nat \ {0}
  BY <1>1, <1>2, BranchTargetType
<1>5. GoesOn(machine, program[machine.pc], Step(program, machine, taken),
             BranchTarget(program[machine.pc], machine.pc, taken),
             machine.pc # Len(program))
  BY <1>1, <1>2, StepFacts
<1> QED  BY <1>2, <1>3, <1>4, <1>5

\* The locals of runPipeline stay what they are through an iteration.
LEMMA IterateTypes ==
    ASSUME RunTypeOK, Running, NEW taken, Iterate(taken)
    PROVE  /\ program' \in Seq(InstructionSet)
           /\ DOMAIN machine' = Fields
           /\ machine'.pc \in Nat \ {0} /\ machine'.branch_pending \in BOOLEAN
           /\ machine'.branch_target \in Nat /\ machine'.branch_delay_slot \in Nat
           /\ machine'.branch_pending => machine'.branch_target # 0
           /\ scoreboard' \in Scoreboards
           /\ executed_program' \in Seq(TimelineEntry)
           /\ Len(executed_program') = Len(executed_program) + 1
           /\ finished' \in BOOLEAN
<1>1. /\ machine.pc \in Nat \ {0} /\ machine.branch_pending \in BOOLEAN
      /\ machine.branch_target \in Nat /\ machine.branch_delay_slot \in Nat
      /\ machine.branch_pending => machine.branch_target # 0
      /\ DOMAIN machine = Fields
  BY DEF RunTypeOK, Fields
<1> DEFINE target == BranchTarget(inst, machine.pc, taken)
<1> HIDE DEF target
<1>2. /\ target \in Nat \ {0} /\ DOMAIN machine' = Fields
      /\ isControl(inst) =>
            /\ machine'.branch_target = target
            /\ machine'.branch_delay_slot = machine.pc + 1
            /\ machine'.pc = target \/ machine'.pc = machine.pc + 1
            /\ machine'.branch_pending \in BOOLEAN
  BY IterateSteps DEF target, GoesOn
<1>3. ~isControl(inst) =>
            /\ machine'.branch_target = machine.branch_target
            /\ machine'.branch_delay_slot = machine.branch_delay_slot
            /\ \/ machine'.pc = machine.pc + 1 /\ machine'.branch_pending = machine.branch_pending
               \/ /\ machine.branch_pending /\ machine'.branch_pending = FALSE
                  /\ machine'.pc = machine.branch_target
  BY IterateSteps DEF GoesOn
<1>4. /\ machine'.pc \in Nat \ {0} /\ machine'.branch_pending \in BOOLEAN
      /\ machine'.branch_target \in Nat /\ machine'.branch_delay_slot \in Nat
      /\ machine'.branch_pending => machine'.branch_target # 0
  <2>1. CASE isControl(inst)
    BY <1>1, <1>2, <2>1
  <2>2. CASE ~isControl(inst)
    <3>1. CASE machine'.pc = machine.pc + 1 /\ machine'.branch_pending = machine.branch_pending
      BY <1>1, <1>3, <2>2, <3>1
    <3>2. CASE /\ machine.branch_pending /\ machine'.branch_pending = FALSE
               /\ machine'.pc = machine.branch_target
      BY <1>1, <1>3, <2>2, <3>2
    <3> QED  BY <1>3, <2>2, <3>1, <3>2
  <2> QED  BY <2>1, <2>2
<1>5. scoreboard' \in Scoreboards
  <2>1. scoreboard \in Scoreboards
    BY DEF RunTypeOK, Scoreboards
  <2> QED  BY <2>1, InstType, ScheduleFacts DEF Iterate
<1>6. program' \in Seq(InstructionSet) /\ finished' \in BOOLEAN
  BY DEF Iterate, RunTypeOK
<1> QED  BY <1>2, <1>4, <1>5, <1>6, IterateAppends

-----------------------------------------------------------------------------
(* Types and what is pending.                                              *)

\* Every step keeps the types.
LEMMA TypesKept ==
    ASSUME RunTypeOK, [RunNext]_run_vars
    PROVE  RunTypeOK'
<1>1. /\ instructions_executed = Len(executed_program) /\ Len(executed_program) \in Nat
      /\ instructions_executed <= max_cycles
      /\ diagnostics \subseteq {"unresolved target", "target pending", "budget"}
  <2>1. executed_program \in Seq(TimelineEntry)
    BY DEF RunTypeOK
  <2>2. Len(executed_program) \in Nat
    BY <2>1
  <2> QED  BY <2>2, Zenon DEF RunTypeOK
<1>2. ASSUME Running, NEW taken, Iterate(taken),
             instructions_executed' = instructions_executed + 1,
             diagnostics' \subseteq {"unresolved target", "target pending", "budget"}
      PROVE  RunTypeOK'
  <2>1. /\ instructions_executed' = Len(executed_program')
        /\ instructions_executed' <= max_cycles
    <3>1. Len(executed_program') = Len(executed_program) + 1
      BY <1>2, IterateTypes
    <3>2. instructions_executed < max_cycles
      BY <1>2 DEF Iterate, WithinBudget
    <3>3. /\ instructions_executed' = instructions_executed + 1
          /\ instructions_executed = Len(executed_program)
          /\ Len(executed_program) \in Nat
      BY <1>1, <1>2, Zenon
    <3> QED  BY <3>1, <3>2, <3>3, MaxCyclesAssumption
  <2>2. /\ program' \in Seq(InstructionSet)
        /\ DOMAIN machine' = Fields
        /\ machine'.pc \in Nat \ {0} /\ machine'.branch_pending \in BOOLEAN
        /\ machine'.branch_target \in Nat /\ machine'.branch_delay_slot \in Nat
        /\ machine'.branch_pending => machine'.branch_target # 0
        /\ scoreboard' \in Scoreboards
        /\ executed_program' \in Seq(TimelineEntry)
        /\ finished' \in BOOLEAN
    BY <1>2, IterateTypes
  <2> QED  BY <1>2, <2>1, <2>2, Zenon DEF RunTypeOK, Scoreboards, Fields
<1>3. CASE Plain
  BY <1>1, <1>2, <1>3 DEF Plain
<1>4. CASE Control
  <2>1. PICK taken \in Outcomes(machine, inst) : Iterate(taken)
    BY <1>4 DEF Control
  <2> QED  BY <1>1, <1>2, <1>4, <2>1 DEF Control
<1>5. CASE ExhaustBudget
  <2>1. /\ diagnostics' \subseteq {"unresolved target", "target pending", "budget"}
        /\ finished' \in BOOLEAN
    BY <1>1, <1>5 DEF ExhaustBudget, Pending
  <2> QED  BY <1>5, <2>1 DEF ExhaustBudget, RunTypeOK
<1>6. CASE Leave
  <2>1. /\ diagnostics' \subseteq {"unresolved target", "target pending", "budget"}
        /\ finished' \in BOOLEAN
    BY <1>1, <1>6 DEF Leave, Pending
  <2> QED  BY <1>6, <2>1 DEF Leave, RunTypeOK
<1>7. CASE UNCHANGED run_vars
  BY <1>7 DEF run_vars, RunTypeOK
<1> QED  BY <1>3, <1>4, <1>5, <1>6, <1>7 DEF RunNext

\* Every step keeps execution in the slot of what is pending.
LEMMA PendingKept ==
    ASSUME RunTypeOK, PendingMeansInSlot, [RunNext]_run_vars
    PROVE  PendingMeansInSlot'
<1>1. DOMAIN program = 1 .. Len(program) /\ machine.branch_pending \in BOOLEAN
  <2>1. program \in Seq(InstructionSet) /\ machine.branch_pending \in BOOLEAN
    BY DEF RunTypeOK
  <2> QED  BY <2>1
<1>2. ASSUME Running, NEW taken, Iterate(taken)
      PROVE  machine'.branch_pending =>
                machine'.pc = machine'.branch_delay_slot /\ machine'.pc \in DOMAIN program'
  <2>1. /\ program' = program /\ Len(program) \in Nat /\ machine.pc \in 1 .. Len(program)
        /\ GoesOn(machine, inst, machine', BranchTarget(inst, machine.pc, taken),
                  machine.pc # Len(program))
    BY <1>2, IterateSteps
  <2>2. CASE isControl(inst)
    <3> SUFFICES ASSUME machine'.branch_pending
                 PROVE  /\ machine'.pc = machine'.branch_delay_slot
                        /\ machine'.pc \in DOMAIN program'
      OBVIOUS
    <3>1. /\ machine.pc # Len(program) /\ machine'.pc = machine.pc + 1
          /\ machine'.branch_delay_slot = machine.pc + 1
      BY <2>1, <2>2 DEF GoesOn
    <3>2. machine.pc + 1 \in 1 .. Len(program)
      BY <2>1, <3>1
    <3> QED  BY <1>1, <2>1, <3>1, <3>2
  <2>3. CASE ~isControl(inst)
    BY <2>1, <2>3 DEF GoesOn, PendingMeansInSlot
  <2> QED  BY <2>2, <2>3
<1>3. CASE Plain
  BY <1>2, <1>3 DEF Plain, PendingMeansInSlot
<1>4. CASE Control
  <2>1. PICK taken \in Outcomes(machine, inst) : Iterate(taken)
    BY <1>4 DEF Control
  <2>2. Running
    BY <1>4 DEF Control
  <2>3. "target pending" \in diagnostics' => "target pending" \in diagnostics
    BY <1>4 DEF Control
  <2>4. diagnostics \subseteq diagnostics'
    BY <1>4 DEF Control
  <2> QED  BY <1>2, <2>1, <2>2, <2>3, <2>4 DEF PendingMeansInSlot
<1>5. CASE ExhaustBudget
  BY <1>5 DEF ExhaustBudget, PendingMeansInSlot
<1>6. CASE Leave
  BY <1>6 DEF Leave, Pending, PendingMeansInSlot
<1>7. CASE UNCHANGED run_vars
  BY <1>7 DEF run_vars, PendingMeansInSlot
<1> QED  BY <1>3, <1>4, <1>5, <1>6, <1>7 DEF RunNext

\* The locals at the start.
LEMMA StartTypes == RunInit => RunTypeOK /\ PendingMeansInSlot
<1> SUFFICES ASSUME NEW p \in Seq(InstructionSet), RunStart(p)
             PROVE  RunTypeOK /\ PendingMeansInSlot
  BY DEF RunInit
<1>0. DOMAIN machine = Fields
  BY DEF RunStart, ColdMachine, StartMachine, Fields
<1>1. /\ machine.pc = 1 /\ machine.branch_pending = FALSE
      /\ machine.branch_target = 0 /\ machine.branch_delay_slot = 0
  BY DEF RunStart, ColdMachine, StartMachine, Fields
<1>2. scoreboard \in Scoreboards
  BY DEF RunStart, StartScoreboard, Scoreboards
<1>3. /\ program \in Seq(InstructionSet) /\ executed_program \in Seq(TimelineEntry)
      /\ instructions_executed = Len(executed_program)
      /\ instructions_executed <= max_cycles
      /\ diagnostics = {} /\ finished = FALSE
  BY MaxCyclesAssumption DEF RunStart
<1>4. /\ machine.pc \in Nat \ {0} /\ machine.branch_pending \in BOOLEAN
      /\ machine.branch_target \in Nat /\ machine.branch_delay_slot \in Nat
      /\ machine.branch_pending => machine.branch_target # 0
  <2>1. 1 \in Nat \ {0} /\ 0 \in Nat
    OBVIOUS
  <2> QED  BY <1>1, <2>1, Zenon
<1>5. /\ diagnostics \subseteq {"unresolved target", "target pending", "budget"}
      /\ finished \in BOOLEAN
  BY <1>3
<1>6. RunTypeOK
  BY <1>0, <1>2, <1>3, <1>4, <1>5, Zenon DEF RunTypeOK, Scoreboards, Fields
<1>7. PendingMeansInSlot
  BY <1>1, <1>3 DEF PendingMeansInSlot
<1> QED  BY <1>6, <1>7

\* pipeline_sim.cpp:117: the locals of runPipeline keep their types, the timeline
\* has an entry for each instruction counted, and the budget is never exceeded.
THEOREM RunTypesCorrect == RunSpec => []RunTypeOK
<1>1. RunInit => RunTypeOK
  BY StartTypes
<1>2. RunTypeOK /\ [RunNext]_run_vars => RunTypeOK'
  BY TypesKept
<1> QED  BY <1>1, <1>2, PTL DEF RunSpec

\* pipeline_sim.cpp:203: a pending target means that its slot is next, so no
\* program, but only the budget, ends a run with a remark on a pending target.
THEOREM PendingOnlyInSlot == RunSpec => []PendingMeansInSlot
<1>1. RunInit => RunTypeOK /\ PendingMeansInSlot
  BY StartTypes
<1>2. RunTypeOK /\ PendingMeansInSlot /\ [RunNext]_run_vars
        => RunTypeOK' /\ PendingMeansInSlot'
  BY TypesKept, PendingKept
<1> QED  BY <1>1, <1>2, PTL DEF RunSpec

-----------------------------------------------------------------------------
(* Order of execution.                                                     *)

\* An iteration that is not one of the exceptions is a step of the machine with one
\* delay slot.
LEMMA IterateIsOneSlot ==
    ASSUME RunTypeOK, PendingMeansInSlot, Running, NEW taken, Iterate(taken),
           ~BranchForgotten, ~JumpToSlot
    PROVE  OneSlot!Next
<1> DEFINE pc == machine.pc
           npc == IF machine.branch_pending THEN machine.branch_target ELSE machine.pc + 1
           target == BranchTarget(inst, machine.pc, taken)
<1>1. /\ program' = program /\ Len(program) \in Nat /\ pc \in 1 .. Len(program)
      /\ GoesOn(machine, inst, machine', target, pc # Len(program))
      /\ inst = program[pc] /\ inst \in InstructionSet
  BY IterateSteps, InstType
<1>2. DOMAIN program = 1 .. Len(program) /\ machine.branch_pending \in BOOLEAN
  <2>1. program \in Seq(InstructionSet) /\ machine.branch_pending \in BOOLEAN
    BY DEF RunTypeOK
  <2> QED  BY <2>1
<1>3. CASE ~isControl(inst)
  <2>1. /\ machine'.pc = npc /\ machine'.branch_pending = FALSE
    BY <1>1, <1>2, <1>3 DEF GoesOn, PendingMeansInSlot
  <2>2. OneSlot!After(inst) = {npc + 1} /\ ~OneSlot!isControl(inst)
    BY <1>3 DEF OneSlot!After, OneSlot!isControl, OneSlot!isBranch, OneSlot!isJump,
                isControl, isBranch, isJump
  <2>3. OneSlot!Execute
    BY <1>1, <1>3, <2>1, <2>2 DEF OneSlot!Execute
  <2> QED  BY <1>1, <1>2, <2>3 DEF OneSlot!Next
<1>4. CASE isControl(inst)
  <2>1. npc = pc + 1
    BY <1>2, <1>4 DEF BranchForgotten
  <2>2. target \in OneSlot!After(inst)
    <3>1. npc + 1 = pc + 2
      BY <1>1, <2>1
    <3>2. OneSlot!After(inst) =
            IF inst.target_index = 0 THEN {npc + 1}
            ELSE {inst.target_index} \cup (IF isJump(inst) THEN {} ELSE {npc + 1})
      BY <1>4 DEF OneSlot!After, OneSlot!isControl, OneSlot!isBranch, OneSlot!isJump,
                  isControl, isBranch, isJump
    <3> HIDE DEF npc
    <3>3. CASE isJump(inst)
      BY <3>2, <3>3 DEF BranchTarget, JumpToSlot
    <3>4. CASE ~isJump(inst)
      BY <3>1, <3>2, <3>4 DEF BranchTarget
    <3> QED  BY <3>3, <3>4
  <2>3. CASE pc = Len(program)
    <3>1. machine'.pc = target /\ machine'.branch_pending = FALSE
      BY <1>1, <1>4, <2>3 DEF GoesOn
    <3>2. npc \notin DOMAIN program
      BY <1>1, <1>2, <2>1, <2>3
    <3>3. OneSlot!isControl(inst)
      BY <1>4 DEF OneSlot!isControl, OneSlot!isBranch, OneSlot!isJump,
                  isControl, isBranch, isJump
    <3>4. npc' = machine'.pc + 1
      BY <3>1
    <3>5. OneSlot!ExecuteWithoutSlot
      BY <1>1, <2>2, <3>1, <3>2, <3>3, <3>4 DEF OneSlot!ExecuteWithoutSlot
    <3> QED  BY <1>1, <1>2, <3>5 DEF OneSlot!Next
  <2>4. CASE pc # Len(program)
    <3>1. /\ machine'.pc = npc /\ machine'.branch_pending = TRUE
          /\ machine'.branch_target = target
      BY <1>1, <1>4, <2>1, <2>4 DEF GoesOn
    <3>2. npc \in DOMAIN program
      BY <1>1, <1>2, <2>1, <2>4
    <3>3. OneSlot!Execute
      BY <1>1, <2>2, <3>1, <3>2 DEF OneSlot!Execute
    <3> QED  BY <1>1, <1>2, <3>3 DEF OneSlot!Next
  <2> QED  BY <2>3, <2>4
<1> QED  BY <1>3, <1>4

\* pipeline_sim.cpp:134: for every program the simulator executes what a machine with
\* one delay slot executes, but for a control instruction in the slot of a taken branch
\* and a jump without a target.
THEOREM OneSlotImplemented == RunSpec => ImplementsOneSlot
<1>1. RunTypeOK /\ PendingMeansInSlot /\ [RunNext]_run_vars
        => [BranchForgotten \/ JumpToSlot \/ OneSlot!Next]_machine
  <2> SUFFICES ASSUME RunTypeOK, PendingMeansInSlot, [RunNext]_run_vars,
                      machine' # machine, ~BranchForgotten, ~JumpToSlot
               PROVE  OneSlot!Next
    OBVIOUS
  <2>1. CASE Plain
    BY <2>1, IterateIsOneSlot DEF Plain
  <2>2. CASE Control
    BY <2>2, IterateIsOneSlot DEF Control
  <2>3. ~ExhaustBudget /\ ~Leave /\ ~UNCHANGED run_vars
    BY DEF ExhaustBudget, Leave, run_vars
  <2> QED  BY <2>1, <2>2, <2>3 DEF RunNext
<1> QED  BY <1>1, RunTypesCorrect, PendingOnlyInSlot, PTL DEF RunSpec, ImplementsOneSlot

-----------------------------------------------------------------------------
(* Timing: a scoreboard sb, a timeline q, an instruction x that comes next. *)

\* CanFetch and TimelineIsEarliest of a timeline q.
CanFetchIn(q, n, c) ==
    /\ n > 1 => c > q[n - 1].if_cycle
    /\ \A m \in 1 .. n - 1 :
           definedRegister(q[m].inst) \cap usedRegisters(q[n].inst) # {}
             => Ready(q[m]) <= c + 1

EarliestIn(q) ==
    \A n \in DOMAIN q :
        /\ CanFetchIn(q, n, q[n].if_cycle)
        /\ ~(q[n].if_cycle > 1 /\ CanFetchIn(q, n, q[n].if_cycle - 1))

\* What a scoreboard remembers of a timeline: of each register the last definition,
\* which no earlier one outlasts, and of memory nothing that matters.
Follows(sb, q) ==
    /\ Len(q) = 0 => sb.next_if_cycle = 0
    /\ Len(q) # 0 => q[Len(q)].if_cycle = sb.next_if_cycle
    /\ sb.memory_ready_cycle <= sb.next_if_cycle + 4
    /\ \A n \in 1 .. Len(q) :
           /\ Ready(q[n]) <= sb.next_if_cycle + 4
           /\ \A r \in definedRegister(q[n].inst) : Ready(q[n]) <= sb.reg_ready[r]
    /\ \A r \in Registers \cup {""} :
           \/ sb.reg_ready[r] = 0
           \/ \E n \in 1 .. Len(q) : /\ r \in definedRegister(q[n].inst)
                                     /\ sb.reg_ready[r] = Ready(q[n])

\* The cycle in which x is fetched.
CycleOf(sb, x) == sb.next_if_cycle + 1 + stall_cycles(sb, x)

\* A register that an instruction uses or defines is one the scoreboard knows.
LEMMA OperandsKnown ==
    ASSUME NEW x \in InstructionSet
    PROVE  usedRegisters(x) \cup definedRegister(x) \subseteq Registers \cup {""}
<1>1. /\ x.rs \in Registers \cup {""} /\ x.rt \in Registers \cup {""}
      /\ x.rd \in Registers \cup {""}
  BY DEF InstructionSet
<1> QED  BY <1>1, UsedAreOperands, DefinedAreOperands

\* The memory interlock never delays: an access leaves memory free for the next
\* instruction.
LEMMA StallsForRegisters ==
    ASSUME NEW sb \in Scoreboards, NEW x \in InstructionSet,
           sb.memory_ready_cycle <= sb.next_if_cycle + 4
    PROVE  /\ CycleOf(sb, x) \in Nat /\ sb.next_if_cycle \in Nat
           /\ CycleOf(sb, x) > sb.next_if_cycle
           /\ \A r \in usedRegisters(x) : sb.reg_ready[r] <= CycleOf(sb, x) + 1
           /\ \/ CycleOf(sb, x) = sb.next_if_cycle + 1
              \/ \E r \in usedRegisters(x) : sb.reg_ready[r] = CycleOf(sb, x) + 1
<1> DEFINE s == stall_cycles(sb, x)
           c == sb.next_if_cycle + 1
<1>1. /\ s \in Nat
      /\ \A r \in usedRegisters(x) : sb.reg_ready[r] <= c + s + 1
      /\ \/ s = 0
         \/ \E r \in usedRegisters(x) : sb.reg_ready[r] = c + s + 1
         \/ isMemory(x) /\ sb.memory_ready_cycle = c + s + 3
  BY StallFacts
<1>2. sb.next_if_cycle \in Nat /\ sb.memory_ready_cycle \in Nat
  BY DEF Scoreboards
<1>3. CycleOf(sb, x) = c + s
  BY DEF CycleOf
<1> HIDE DEF s
<1>4. sb.memory_ready_cycle = c + s + 3 => s = 0
  BY <1>1, <1>2
<1>5. c + s \in Nat /\ c + s > sb.next_if_cycle /\ (s = 0 => c + s = c)
  BY <1>1, <1>2
<1> HIDE DEF c
<1>6. \/ c + s = c
      \/ \E r \in usedRegisters(x) : sb.reg_ready[r] = c + s + 1
  BY <1>1, <1>4, <1>5
<1> QED  BY <1>1, <1>2, <1>3, <1>5, <1>6 DEF c

\* A scoreboard sb that follows a timeline q, which is the earliest; an instruction x
\* that comes next, with its entry e; and the timeline t after it.
Extends(sb, q, x, e, t) ==
    /\ sb \in Scoreboards /\ x \in InstructionSet
    /\ q \in Seq(TimelineEntry) /\ e \in TimelineEntry
    /\ Follows(sb, q) /\ EarliestIn(q)
    /\ e.inst = x /\ e.if_cycle = CycleOf(sb, x)
    /\ t = Append(q, e)

\* What that says of the timelines, of which q has n entries.
Shape(sb, q, x, e, t, n) ==
    /\ n \in Nat /\ Len(t) = n + 1 /\ DOMAIN q = 1 .. n /\ DOMAIN t = 1 .. n + 1
    /\ t[n + 1] = e /\ e.inst = x
    /\ \A m \in 1 .. n : t[m] = q[m] /\ q[m] \in TimelineEntry
    /\ n + 1 \in 1 .. n + 1
    /\ \A m \in 1 .. n : m \in 1 .. n + 1
    /\ \A m \in 1 .. n + 1 : m = n + 1 \/ m \in 1 .. n
    /\ \A r \in Registers \cup {""} : sb.reg_ready[r] \in Nat

LEMMA ExtendsTypes ==
    ASSUME NEW sb, NEW q, NEW x, NEW e, NEW t, Extends(sb, q, x, e, t)
    PROVE  Shape(sb, q, x, e, t, Len(q))
<1> DEFINE n == Len(q)
<1>1. q \in Seq(TimelineEntry) /\ e \in TimelineEntry /\ t = Append(q, e) /\ e.inst = x
  BY DEF Extends
<1>2. n \in Nat /\ DOMAIN q = 1 .. n /\ \A m \in 1 .. n : q[m] \in TimelineEntry
  BY <1>1
<1>3. Len(t) = n + 1 /\ DOMAIN t = 1 .. n + 1 /\ t[n + 1] = e
  BY <1>1, <1>2
<1>4. \A m \in 1 .. n : t[m] = q[m]
  BY <1>1, <1>2
<1>5. \A r \in Registers \cup {""} : sb.reg_ready[r] \in Nat
  BY DEF Extends, Scoreboards
<1> HIDE DEF n
<1>6. /\ n + 1 \in 1 .. n + 1 /\ \A m \in 1 .. n : m \in 1 .. n + 1
      /\ \A m \in 1 .. n + 1 : m = n + 1 \/ m \in 1 .. n
  BY <1>2
<1> QED  BY <1>1, <1>2, <1>3, <1>4, <1>5, <1>6, Zenon DEF n, Shape

\* And of the cycles of the scoreboard.
LEMMA ExtendsCycles ==
    ASSUME NEW sb, NEW q, NEW x, NEW e, NEW t, Extends(sb, q, x, e, t)
    PROVE  /\ e.if_cycle \in Nat /\ sb.next_if_cycle \in Nat
           /\ sb.memory_ready_cycle \in Nat
           /\ sb.memory_ready_cycle <= sb.next_if_cycle + 4
           /\ e.if_cycle > sb.next_if_cycle
           /\ \A r \in usedRegisters(x) : sb.reg_ready[r] <= e.if_cycle + 1
           /\ \/ e.if_cycle = sb.next_if_cycle + 1
              \/ \E r \in usedRegisters(x) : sb.reg_ready[r] = e.if_cycle + 1
<1>1. /\ sb \in Scoreboards /\ x \in InstructionSet /\ e.if_cycle = CycleOf(sb, x)
      /\ sb.memory_ready_cycle <= sb.next_if_cycle + 4
  BY Zenon DEF Extends, Follows
<1>2. sb.memory_ready_cycle \in Nat
  BY <1>1 DEF Scoreboards
<1> QED  BY <1>1, <1>2, StallsForRegisters, Zenon

\* The new entry could be fetched in its cycle.
LEMMA EntryCanBeFetched ==
    ASSUME NEW sb, NEW q, NEW x, NEW e, NEW t, Extends(sb, q, x, e, t)
    PROVE  CanFetchIn(t, Len(q) + 1, e.if_cycle)
<1> DEFINE n == Len(q)
<1>1. /\ n \in Nat /\ t[n + 1] = e /\ e.inst = x
      /\ \A m \in 1 .. n : t[m] = q[m] /\ q[m] \in TimelineEntry
      /\ \A r \in Registers \cup {""} : sb.reg_ready[r] \in Nat
  <2>1. Shape(sb, q, x, e, t, Len(q))
    BY ExtendsTypes
  <2> QED  BY <2>1, Zenon DEF Shape
<1>2. /\ e.if_cycle \in Nat /\ e.if_cycle > sb.next_if_cycle
      /\ \A r \in usedRegisters(x) : sb.reg_ready[r] <= e.if_cycle + 1
  BY ExtendsCycles
<1>3. /\ n # 0 => q[n].if_cycle = sb.next_if_cycle
      /\ \A m \in 1 .. n :
            \A r \in definedRegister(q[m].inst) : Ready(q[m]) <= sb.reg_ready[r]
  BY Zenon DEF Extends, Follows
<1> HIDE DEF n
<1>n. n \in Nat
  BY <1>1, Zenon
<1>4. (n + 1) - 1 = n
  BY <1>n
<1>5. ASSUME n + 1 > 1
      PROVE  e.if_cycle > t[(n + 1) - 1].if_cycle
  <2>1. n # 0 /\ n \in 1 .. n
    BY <1>n, <1>5
  <2>2. t[n].if_cycle = sb.next_if_cycle
    BY <1>1, <1>3, <2>1
  <2> QED  BY <1>2, <1>4, <2>2
<1>6. ASSUME NEW m \in 1 .. n,
             definedRegister(t[m].inst) \cap usedRegisters(t[n + 1].inst) # {}
      PROVE  Ready(t[m]) <= e.if_cycle + 1
  <2>1. t[m] = q[m] /\ q[m] \in TimelineEntry
    BY <1>1
  <2>2. PICK r \in definedRegister(q[m].inst) : r \in usedRegisters(x)
    BY <1>1, <1>6, <2>1
  <2>3. Ready(q[m]) <= sb.reg_ready[r]
    BY <1>3, <2>2
  <2>4. sb.reg_ready[r] <= e.if_cycle + 1
    BY <1>2, <2>2
  <2>5. sb.reg_ready[r] \in Nat
    <3>1. x \in InstructionSet
      BY DEF Extends
    <3> QED  BY <1>1, <2>2, <3>1, OperandsKnown
  <2>6. Ready(q[m]) \in Nat
    BY <2>1, ReadyFacts
  <2> QED  BY <1>2, <2>1, <2>3, <2>4, <2>5, <2>6
<1> QED  BY <1>4, <1>5, <1>6 DEF CanFetchIn, n

\* It could not in the cycle before.
LEMMA EntryIsNotLate ==
    ASSUME NEW sb, NEW q, NEW x, NEW e, NEW t, Extends(sb, q, x, e, t), e.if_cycle > 1
    PROVE  ~CanFetchIn(t, Len(q) + 1, e.if_cycle - 1)
<1> DEFINE n == Len(q)
<1> SUFFICES ASSUME CanFetchIn(t, n + 1, e.if_cycle - 1)
             PROVE  FALSE
  OBVIOUS
<1>1. /\ n \in Nat /\ t[n + 1] = e /\ e.inst = x
      /\ \A m \in 1 .. n : t[m] = q[m] /\ q[m] \in TimelineEntry
  <2>1. Shape(sb, q, x, e, t, Len(q))
    BY ExtendsTypes
  <2> QED  BY <2>1, Zenon DEF Shape
<1>2. /\ e.if_cycle \in Nat /\ sb.next_if_cycle \in Nat
      /\ \/ e.if_cycle = sb.next_if_cycle + 1
         \/ \E r \in usedRegisters(x) : sb.reg_ready[r] = e.if_cycle + 1
  BY ExtendsCycles
<1>3. /\ n = 0 => sb.next_if_cycle = 0
      /\ n # 0 => q[n].if_cycle = sb.next_if_cycle
      /\ \A r \in Registers \cup {""} :
            \/ sb.reg_ready[r] = 0
            \/ \E m \in 1 .. n : /\ r \in definedRegister(q[m].inst)
                                 /\ sb.reg_ready[r] = Ready(q[m])
  BY Zenon DEF Extends, Follows
<1>4. /\ n + 1 > 1 => e.if_cycle - 1 > t[(n + 1) - 1].if_cycle
      /\ \A m \in 1 .. (n + 1) - 1 :
            definedRegister(t[m].inst) \cap usedRegisters(t[n + 1].inst) # {}
              => Ready(t[m]) <= (e.if_cycle - 1) + 1
  BY DEF CanFetchIn
<1> HIDE DEF n
<1>n. /\ n \in Nat /\ e.if_cycle \in Nat /\ sb.next_if_cycle \in Nat
      /\ n = 0 => sb.next_if_cycle = 0
  BY <1>1, <1>2, <1>3, Zenon
<1>5. (n + 1) - 1 = n /\ (e.if_cycle - 1) + 1 = e.if_cycle
  BY <1>n
<1>6. CASE e.if_cycle = sb.next_if_cycle + 1
  <2>1. n # 0
    BY <1>n, <1>6
  <2>2. n \in 1 .. n /\ n + 1 > 1
    BY <1>n, <2>1
  <2>3. t[n].if_cycle = sb.next_if_cycle
    BY <1>1, <1>3, <2>1, <2>2
  <2>4. e.if_cycle - 1 > t[n].if_cycle
    BY <1>4, <1>5, <2>2
  <2> QED  BY <1>2, <1>6, <2>3, <2>4
<1>7. CASE \E r \in usedRegisters(x) : sb.reg_ready[r] = e.if_cycle + 1
  <2>1. PICK r \in usedRegisters(x) : sb.reg_ready[r] = e.if_cycle + 1
    BY <1>7
  <2>2. r \in Registers \cup {""}
    <3>1. x \in InstructionSet
      BY DEF Extends
    <3> QED  BY <2>1, <3>1, OperandsKnown
  <2>3. sb.reg_ready[r] # 0
    BY <1>2, <2>1
  <2>4. PICK m \in 1 .. n : /\ r \in definedRegister(q[m].inst)
                            /\ sb.reg_ready[r] = Ready(q[m])
    BY <1>3, <2>2, <2>3
  <2>5. t[m] = q[m]
    BY <1>1
  <2>6. r \in definedRegister(t[m].inst) \cap usedRegisters(t[n + 1].inst)
    BY <1>1, <2>1, <2>4, <2>5
  <2>7. m \in 1 .. (n + 1) - 1
    BY <1>5
  <2>8. Ready(t[m]) <= (e.if_cycle - 1) + 1
    BY <1>4, <2>6, <2>7
  <2>9. Ready(t[m]) = e.if_cycle + 1
    BY <2>1, <2>4, <2>5
  <2> QED  BY <1>2, <1>5, <2>8, <2>9
<1> QED  BY <1>2, <1>6, <1>7

\* So the longer timeline is the earliest one.
LEMMA EarliestKept ==
    ASSUME NEW sb, NEW q, NEW x, NEW e, NEW t, Extends(sb, q, x, e, t)
    PROVE  EarliestIn(t)
<1> DEFINE n == Len(q)
<1>1. /\ n \in Nat /\ DOMAIN q = 1 .. n /\ DOMAIN t = 1 .. n + 1 /\ t[n + 1] = e
      /\ \A m \in 1 .. n : t[m] = q[m]
      /\ \A m \in 1 .. n + 1 : m = n + 1 \/ m \in 1 .. n
  <2>1. Shape(sb, q, x, e, t, Len(q))
    BY ExtendsTypes
  <2> QED  BY <2>1, Zenon DEF Shape
<1>2. /\ CanFetchIn(t, n + 1, t[n + 1].if_cycle)
      /\ ~(t[n + 1].if_cycle > 1 /\ CanFetchIn(t, n + 1, t[n + 1].if_cycle - 1))
  BY <1>1, EntryCanBeFetched, EntryIsNotLate, Zenon
<1> HIDE DEF n
<1>3. ASSUME NEW k \in 1 .. n
      PROVE  /\ CanFetchIn(t, k, t[k].if_cycle)
             /\ ~(t[k].if_cycle > 1 /\ CanFetchIn(t, k, t[k].if_cycle - 1))
  <2>1. /\ CanFetchIn(q, k, q[k].if_cycle)
        /\ ~(q[k].if_cycle > 1 /\ CanFetchIn(q, k, q[k].if_cycle - 1))
    BY <1>1, <1>3, Zenon DEF Extends, EarliestIn
  <2>2. /\ t[k] = q[k]
        /\ k > 1 => t[k - 1] = q[k - 1]
        /\ \A m \in 1 .. k - 1 : t[m] = q[m]
    <3>1. /\ k > 1 => k - 1 \in 1 .. n
          /\ \A m \in 1 .. k - 1 : m \in 1 .. n
      BY <1>1
    <3> QED  BY <1>1, <3>1
  <2>3. \A c : CanFetchIn(t, k, c) <=> CanFetchIn(q, k, c)
    BY <2>2 DEF CanFetchIn
  <2> QED  BY <2>1, <2>2, <2>3
<1>4. \A k \in DOMAIN t : k = n + 1 \/ k \in 1 .. n
  BY <1>1
<1> QED  BY <1>2, <1>3, <1>4, Zenon DEF EarliestIn

\* And the scoreboard follows it.
LEMMA FollowsKept ==
    ASSUME NEW sb, NEW q, NEW x, NEW e, NEW t, Extends(sb, q, x, e, t)
    PROVE  Follows(scheduleInstruction(sb, x), t)
<1> DEFINE n == Len(q)
           s == scheduleInstruction(sb, x)
<1>1. /\ n \in Nat /\ Len(t) = n + 1 /\ t[n + 1] = e /\ n + 1 \in 1 .. n + 1
      /\ \A m \in 1 .. n : t[m] = q[m] /\ q[m] \in TimelineEntry
      /\ \A m \in 1 .. n : m \in 1 .. n + 1
      /\ \A m \in 1 .. n + 1 : m = n + 1 \/ m \in 1 .. n
  <2>1. Shape(sb, q, x, e, t, Len(q))
    BY ExtendsTypes
  <2> QED  BY <2>1, Zenon DEF Shape
<1>2. /\ e.if_cycle \in Nat /\ sb.next_if_cycle \in Nat /\ sb.memory_ready_cycle \in Nat
      /\ sb.memory_ready_cycle <= sb.next_if_cycle + 4
      /\ e.if_cycle > sb.next_if_cycle
  BY ExtendsCycles
<1>3. /\ x \in InstructionSet /\ e.inst = x /\ e \in TimelineEntry
      /\ e.if_cycle = CycleOf(sb, x) /\ sb \in Scoreboards
  BY DEF Extends
<1>4. /\ s.next_if_cycle = e.if_cycle
      /\ s.memory_ready_cycle = IF isMemory(x) THEN e.if_cycle + 4
                                ELSE sb.memory_ready_cycle
      /\ \A r \in Registers \cup {""} :
            s.reg_ready[r] = IF r \in definedRegister(x)
                             THEN e.if_cycle + (IF x.opcode = "lw" THEN 4 ELSE 3)
                             ELSE sb.reg_ready[r]
  <2> DEFINE c == sb.next_if_cycle + 1 + stall_cycles(sb, x)
  <2>1. e.if_cycle = c
    BY <1>3 DEF CycleOf
  <2>2. /\ s.next_if_cycle = c
        /\ s.memory_ready_cycle = IF isMemory(x) THEN c + 4 ELSE sb.memory_ready_cycle
        /\ \A r \in Registers \cup {""} :
              s.reg_ready[r] = IF r \in definedRegister(x)
                               THEN c + (IF x.opcode = "lw" THEN 4 ELSE 3)
                               ELSE sb.reg_ready[r]
    BY <1>3, ScheduleFacts
  <2> QED  BY <2>1, <2>2, Zenon
<1>5. Ready(e) = e.if_cycle + (IF x.opcode = "lw" THEN 4 ELSE 3)
  BY <1>3 DEF Ready
<1>6. /\ \A m \in 1 .. n :
            /\ Ready(q[m]) <= sb.next_if_cycle + 4
            /\ \A r \in definedRegister(q[m].inst) : Ready(q[m]) <= sb.reg_ready[r]
      /\ \A r \in Registers \cup {""} :
            \/ sb.reg_ready[r] = 0
            \/ \E m \in 1 .. n : /\ r \in definedRegister(q[m].inst)
                                 /\ sb.reg_ready[r] = Ready(q[m])
  BY Zenon DEF Extends, Follows
<1> HIDE DEF n, s
<1>7. \A r \in Registers \cup {""} :
          s.reg_ready[r] = IF r \in definedRegister(x) THEN Ready(e) ELSE sb.reg_ready[r]
  BY <1>4, <1>5, Zenon
<1>8. s.memory_ready_cycle <= s.next_if_cycle + 4
  <2>1. /\ s.memory_ready_cycle = IF isMemory(x) THEN e.if_cycle + 4
                                  ELSE sb.memory_ready_cycle
        /\ s.next_if_cycle = e.if_cycle
    BY <1>4, Zenon
  <2> QED  BY <1>2, <2>1
<1>9. Ready(e) \in Nat /\ e.if_cycle + 3 <= Ready(e) /\ Ready(e) <= e.if_cycle + 4
  BY <1>3, ReadyFacts
<1>10. ASSUME NEW m \in 1 .. n
       PROVE  Ready(q[m]) \in Nat /\ Ready(q[m]) <= Ready(e) /\ Ready(q[m]) <= e.if_cycle + 4
  <2>1. Ready(q[m]) \in Nat
    BY <1>1, ReadyFacts
  <2>2. Ready(q[m]) <= sb.next_if_cycle + 4
    BY <1>6
  <2> QED  BY <1>2, <1>9, <2>1, <2>2
<1>11. ASSUME NEW m \in 1 .. n + 1
       PROVE  /\ Ready(t[m]) <= s.next_if_cycle + 4
              /\ \A r \in definedRegister(t[m].inst) : Ready(t[m]) <= s.reg_ready[r]
  <2>1. CASE m = n + 1
    <3>1. t[m] = e
      BY <1>1, <2>1
    <3>2. \A r \in definedRegister(x) : s.reg_ready[r] = Ready(e)
      BY <1>3, <1>7, OperandsKnown
    <3>3. s.next_if_cycle = e.if_cycle
      BY <1>4, Zenon
    <3>4. Ready(e) <= s.next_if_cycle + 4
      BY <1>9, <3>3
    <3>5. Ready(e) <= Ready(e)
      BY <1>9
    <3> QED  BY <1>3, <3>1, <3>2, <3>4, <3>5
  <2>2. CASE m \in 1 .. n
    <3>1. t[m] = q[m] /\ q[m].inst \in InstructionSet
      BY <1>1, <2>2, ReadyFacts
    <3>2. Ready(q[m]) <= s.next_if_cycle + 4
      BY <1>4, <1>10, <2>2
    <3>3. ASSUME NEW r \in definedRegister(q[m].inst)
          PROVE  Ready(q[m]) <= s.reg_ready[r]
      <4>1. r \in Registers \cup {""}
        BY <3>1, OperandsKnown
      <4>2. Ready(q[m]) <= sb.reg_ready[r]
        BY <1>6, <2>2
      <4> QED  BY <1>7, <1>10, <2>2, <4>1, <4>2
    <3> QED  BY <3>1, <3>2, <3>3
  <2> QED  BY <1>1, <2>1, <2>2
<1>12. ASSUME NEW r \in Registers \cup {""}
       PROVE  \/ s.reg_ready[r] = 0
              \/ \E m \in 1 .. n + 1 : /\ r \in definedRegister(t[m].inst)
                                       /\ s.reg_ready[r] = Ready(t[m])
  <2>1. CASE r \in definedRegister(x)
    <3>1. /\ n + 1 \in 1 .. n + 1 /\ r \in definedRegister(t[n + 1].inst)
          /\ s.reg_ready[r] = Ready(t[n + 1])
      BY <1>1, <1>3, <1>7, <2>1, Zenon
    <3> QED  BY <3>1
  <2>2. CASE r \notin definedRegister(x)
    BY <1>1, <1>6, <1>7, <2>2
  <2> QED  BY <2>1, <2>2
<1>13. n + 1 # 0
  BY <1>1
<1> QED  BY <1>1, <1>4, <1>8, <1>11, <1>12, <1>13, Zenon DEF Follows, s

-----------------------------------------------------------------------------
(* The inductive invariant of the timing.                                  *)

TimingInv == RunTypeOK /\ Follows(scoreboard, executed_program) /\ EarliestIn(executed_program)

\* An iteration keeps it.
LEMMA IterateKeepsTiming ==
    ASSUME TimingInv, Running, NEW taken, Iterate(taken)
    PROVE  Follows(scoreboard', executed_program') /\ EarliestIn(executed_program')
<1>1. RunTypeOK
  BY DEF TimingInv
<1>2. /\ scoreboard \in Scoreboards /\ executed_program \in Seq(TimelineEntry)
      /\ inst \in InstructionSet
  <2>1. scoreboard \in Scoreboards /\ executed_program \in Seq(TimelineEntry)
    BY <1>1, Zenon DEF RunTypeOK, Scoreboards
  <2> QED  BY <1>1, <2>1, InstType
<1>3. /\ Entry \in TimelineEntry /\ Entry.inst = inst
      /\ Entry.if_cycle = CycleOf(scoreboard, inst)
  BY <1>1, IterateAppends DEF Cycle, CycleOf
<1>4. executed_program' = Append(executed_program, Entry)
  BY <1>1, IterateAppends
<1>5. Extends(scoreboard, executed_program, inst, Entry, executed_program')
  BY <1>2, <1>3, <1>4, Zenon DEF Extends, TimingInv
<1>6. scoreboard' = scheduleInstruction(scoreboard, inst)
  BY DEF Iterate
<1> QED  BY <1>5, <1>6, EarliestKept, FollowsKept

\* Every step keeps it.
LEMMA TimingKept ==
    ASSUME TimingInv, [RunNext]_run_vars
    PROVE  TimingInv'
<1>1. RunTypeOK'
  BY TypesKept DEF TimingInv
<1>2. Follows(scoreboard', executed_program') /\ EarliestIn(executed_program')
  <2>1. CASE Plain
    BY <2>1, IterateKeepsTiming DEF Plain
  <2>2. CASE Control
    BY <2>2, IterateKeepsTiming DEF Control
  <2>3. CASE ExhaustBudget \/ Leave \/ UNCHANGED run_vars
    <3>1. scoreboard' = scoreboard /\ executed_program' = executed_program
      BY <2>3 DEF ExhaustBudget, Leave, run_vars
    <3> QED  BY <3>1 DEF TimingInv
  <2> QED  BY <2>1, <2>2, <2>3 DEF RunNext
<1> QED  BY <1>1, <1>2 DEF TimingInv

\* The empty timeline.
LEMMA StartTiming == RunInit => TimingInv
<1> SUFFICES ASSUME NEW p \in Seq(InstructionSet), RunStart(p)
             PROVE  Follows(scoreboard, executed_program) /\ EarliestIn(executed_program)
  BY StartTypes DEF RunInit, TimingInv
<1>1. /\ scoreboard.next_if_cycle = 0 /\ scoreboard.memory_ready_cycle = 0
      /\ \A r \in Registers \cup {""} : scoreboard.reg_ready[r] = 0
      /\ executed_program = <<>>
  BY DEF RunStart, StartScoreboard
<1>2. /\ Len(executed_program) = 0 /\ DOMAIN executed_program = {}
      /\ 1 .. Len(executed_program) = {}
  <2>1. executed_program = <<>>
    BY <1>1
  <2>2. Len(executed_program) = 0
    BY <2>1
  <2>3. DOMAIN executed_program = {}
    BY <2>1
  <2> QED  BY <2>2, <2>3
<1>3. Follows(scoreboard, executed_program)
  <2>1. scoreboard.memory_ready_cycle <= scoreboard.next_if_cycle + 4
    <3>1. scoreboard.next_if_cycle = 0 /\ scoreboard.memory_ready_cycle = 0
      BY <1>1
    <3> QED  BY <3>1
  <2> QED  BY <1>1, <1>2, <2>1, Zenon DEF Follows
<1>4. EarliestIn(executed_program)
  BY <1>2 DEF EarliestIn
<1> QED  BY <1>3, <1>4

\* pipeline_sim.cpp:29: for every program every instruction is fetched in the first
\* cycle in which it can be, and no operand is read too early.
THEOREM TimelineAlwaysEarliest == RunSpec => []TimelineIsEarliest
<1>1. TimingInv => TimelineIsEarliest
  BY DEF TimingInv, EarliestIn, CanFetchIn, TimelineIsEarliest, CanFetch
<1>2. TimingInv /\ [RunNext]_run_vars => TimingInv'
  BY TimingKept
<1> QED  BY <1>1, <1>2, StartTiming, PTL DEF RunSpec
=============================================================================
