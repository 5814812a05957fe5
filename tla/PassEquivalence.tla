-------------------------- MODULE PassEquivalence --------------------------
(***************************************************************************)
(* What src/scheduler.cpp owes its caller: the scheduled program computes  *)
(* what the given one computes on the machine of src/pipeline_sim.cpp, and *)
(* the four ways in which it does not.                                     *)
(***************************************************************************)
EXTENDS DelaySlotPass, PipelineSim, FiniteSets

CONSTANT MaxControls    \* executed control instructions a run is followed for

ASSUME MaxControlsAssumption == MaxControls \in Nat

-----------------------------------------------------------------------------
(* Runs.                                                                   *)

\* One more instruction of a run.  The registers and memory are looked at when
\* a delay slot is over, which is where a moved instruction has caught up, with
\* the operands of the control instruction in front of it.
Continue(program, outcomes, run) ==
    IF run.machine.pc > Len(program) \/ Len(run.seen) = MaxControls THEN run
    ELSE LET inst == program[run.machine.pc]
             next == Step(program, run.machine, outcomes[Len(run.seen) + 1])
             control == IF ~isControl(inst) THEN run.control
                        ELSE <<inst.opcode, readRegister(run.machine, inst.rs),
                               readRegister(run.machine, inst.rt)>>
             slot_over == /\ run.machine.branch_pending \/ isControl(inst)
                          /\ ~next.branch_pending
         IN  [machine |-> next, control |-> control,
              seen |-> IF slot_over
                       THEN Append(run.seen, <<control, next.registers, next.memory>>)
                       ELSE run.seen]

\* What a program does when its branches go as outcomes says, and what it leaves
\* behind if it ends.
Behaviour(program, outcomes) ==
    LET steps == (MaxControls + 1) * (Len(program) + 1)
        run[n \in 0 .. steps] ==
            IF n = 0 THEN [machine |-> StartMachine, control |-> <<>>, seen |-> <<>>]
            ELSE Continue(program, outcomes, run[n - 1])
        last == run[steps]
    IN  [seen |-> last.seen,
         result |-> IF Len(last.seen) = MaxControls THEN <<>>
                    ELSE <<last.machine.registers, last.machine.memory>>]

SameMeaning(p, q) ==
    \A outcomes \in [1 .. MaxControls -> BOOLEAN] :
        Behaviour(resolveTargets(p), outcomes) = Behaviour(resolveTargets(q), outcomes)

-----------------------------------------------------------------------------
(* Where the pass goes wrong.                                              *)

\* The instruction passes the label of the branch, so whoever jumps to the
\* label executes it, too.
MovesPastLabel == hasLabel(instructions[i])

\* The instruction had been moved into the slot of an earlier branch.
TakesFromSlot ==
    LET c == Nearest(Candidates(WithSlot, i))
    IN  c > 1 /\ isControl(instructions[c - 1])

\* The jump has no target and the machine goes on with its delay slot, which
\* then runs twice.
SlotOfUnresolvedJump ==
    /\ isJump(instructions[i])
    /\ LabelPosition(instructions, instructions[i].target_label) = 0

\* The line has no name where its result goes, like `add , b, c'.  The simulator
\* writes its last operand then, and the dependence test knows of no definition.
ResultUnnamed(inst) == inst.opcode \in RdArithmetic /\ inst.rd = "" /\ inst.rt # ""

MovesUnnamedResult ==
    LET c == Nearest(Candidates(WithSlot, i))
    IN  \E k \in c .. i - 1 : ResultUnnamed(instructions[k])

MoveDeviates ==
    /\ FillAutomatically
    /\ MovesPastLabel \/ TakesFromSlot \/ SlotOfUnresolvedJump \/ MovesUnnamedResult

-----------------------------------------------------------------------------
(* Correctness.                                                            *)

\* The program under work is a vector of well-formed instructions, and the loop
\* index stays within it or one behind it.
TypeOK ==
    /\ input \in Seq(InstructionSet) /\ instructions \in Seq(InstructionSet)
    /\ decisions \in Seq(DecisionSet)
    /\ i \in 1 .. Len(instructions) + 1
    /\ returned \in BOOLEAN

\* scheduler.cpp:194: a move keeps the meaning of the program, whichever way its
\* branches go, unless it is one of the four above.
MovesAreSafe ==
    [][instructions' # instructions =>
         SameMeaning(instructions, instructions') \/ MoveDeviates]_vars

\* An instruction apart from what the pass computes about it.
Text(inst) == [inst EXCEPT !.manually_filled = FALSE, !.target_index = 0]

Texts(program) == [n \in DOMAIN program |-> Text(program[n])]

\* scheduler.cpp:209: over the whole pass no instruction is lost or doubled by
\* the erase and the insert, and none but a nop is added.
NothingLost ==
    LET places(program, text) == {n \in DOMAIN program : Text(program[n]) = text}
        texts == {Text(input[n]) : n \in DOMAIN input}
                   \cup {Text(instructions[n]) : n \in DOMAIN instructions}
    IN  \A text \in texts :
            ~isNop(text) \/ hasLabel(text)
              => Cardinality(places(instructions, text)) = Cardinality(places(input, text))

\* How many control instructions the program has up to position b.
ControlsUpTo(program, b) == Cardinality({n \in 1 .. b : isControl(program[n])})

\* scheduler.cpp:173: behind the n-th control instruction stands in the result what
\* the programmer put there, if it is no nop, however the branches after it search
\* for candidates.
ManualSlotsKept ==
    returned =>
      \A b \in 1 .. Len(input) - 1 :
          isControl(input[b]) /\ ~isNop(input[b + 1]) =>
            \E c \in 1 .. Len(instructions) - 1 :
                /\ isControl(instructions[c])
                /\ ControlsUpTo(instructions, c) = ControlsUpTo(input, b)
                /\ Text(instructions[c]) = Text(input[b])
                /\ Text(instructions[c + 1]) = Text(input[b + 1])

\* scheduler.cpp:240: in the result every control instruction points at the
\* instruction it pointed at in the input, wherever that is now.
TargetsFollow ==
    returned =>
      \A n \in DOMAIN instructions :
          LET target == LabelPosition(input, instructions[n].target_label)
              index == instructions[n].target_index
          IN  isControl(instructions[n]) =>
                IF target = 0 THEN index = 0
                ELSE /\ index \in DOMAIN instructions
                     /\ Text(instructions[index]) = Text(input[target])

\* A decision as it will be read: it names a control instruction and what stands
\* behind it.
TrueOf(decision, program) ==
    LET b == decision.branch_index
        slot == program[b + 1]
    IN  /\ b + 1 \in DOMAIN program /\ isControl(program[b])
        /\ IF decision.outcome = "nop" THEN isNop(slot)
           ELSE Text(slot) = Text(decision.slot)

\* scheduler.cpp:217: the positions in the decisions stay right while the rest of
\* the program is moved about, and what they say stays true but for a slot whose
\* instruction is taken away again.
DecisionsStayTrue ==
    [][\A n \in DOMAIN decisions' :
          \/ TrueOf(decisions'[n], instructions')
          \/ n \in DOMAIN decisions /\ ~TrueOf(decisions[n], instructions)
          \/ n \in DOMAIN decisions /\ FillAutomatically /\ TakesFromSlot]_vars

\* README.md:40: the tool documents "decisions made for each branch instruction":
\* one for each, in the order of the program.
EachBranchDecided ==
    returned =>
      /\ {decisions[n].branch_index : n \in DOMAIN decisions}
             = {n \in DOMAIN instructions : isControl(instructions[n])}
      /\ \A m, n \in DOMAIN decisions :
             m < n => decisions[m].branch_index < decisions[n].branch_index

\* The pass returns, although it moves the branch it is looking at and makes the
\* vector it walks through longer.
Terminates == <>returned

Ahead(program, from) == {n \in from .. Len(program) : isControl(program[n])}

StepsLeft ==
    2 * Cardinality(Ahead(instructions, i)) + (Len(instructions) + 1 - i)
        + (IF returned THEN 0 ELSE 1)

\* scheduler.cpp:164: every iteration brings the end closer, also the one that moves the
\* branch to the front of the index, or makes room for a slot at the end: the loop takes
\* at most one step for each instruction and two for each control instruction.
StepsRunOut == [][StepsLeft' \in 0 .. StepsLeft - 1]_vars

\* README.md:5: slots are filled "with independent instructions when safe", so
\* the result does what the input does.
ComputesTheSame == returned => SameMeaning(input, instructions)

\* What a programmer can look for in a program before giving it to the pass: results
\* have names, jumps have targets, labels stand in front of no control instruction,
\* and between two of those is a label, unless the slot of the first is filled.
KeepsRules(program) ==
    /\ \A n \in 1 .. Len(program) :
          /\ ~ResultUnnamed(program[n])
          /\ isControl(program[n]) => ~hasLabel(program[n])
          /\ isJump(program[n]) => LabelPosition(program, program[n].target_label) # 0
    /\ \A m, n \in 1 .. Len(program) :
          m < n /\ isControl(program[m]) /\ isControl(program[n]) =>
             ~isNop(program[m + 1]) \/ \E k \in m + 1 .. n - 1 : hasLabel(program[k])

\* scheduler.cpp:160: for such a program the whole pass, in which every move works on
\* what the moves before it have left, does not change what the program does.
RulesKeepMeaning == returned /\ KeepsRules(input) => SameMeaning(input, instructions)
=============================================================================
