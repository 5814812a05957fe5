--------------------------- MODULE DelaySlotPass ---------------------------
(***************************************************************************)
(* src/scheduler.cpp, scheduleDelaySlots: one pass over the program that   *)
(* keeps the delay slot the programmer filled, or moves an earlier         *)
(* instruction into it, or leaves a nop.                                   *)
(*                                                                         *)
(* One step is one iteration of the loop over i; the last one resolves the *)
(* targets again.  A message in `decisions' is kept as what it says: which *)
(* of the three outcomes, at which position, with which instruction.       *)
(***************************************************************************)
EXTENDS Instruction

VARIABLES
    input,          \* the argument
    instructions,   \* result.instructions
    decisions,      \* result.decisions
    i,              \* the loop index
    returned

vars == <<input, instructions, decisions, i, returned>>

DecisionSet ==
    [branch_index : Nat, outcome : {"manual", "filled", "nop"}, slot : InstructionSet]

Decision(branch_index, outcome, slot) ==
    [branch_index |-> branch_index, outcome |-> outcome, slot |-> slot]

isAcceptableDelaySlotInstruction(inst) ==
    ~isControl(inst) /\ ~isNop(inst) /\ ~mayCauseException(inst)

DependenciesUnread(program, c, b) ==
    LET middle == {program[n] : n \in c + 1 .. b - 1}
        uses == UNION {usedRegisters(m) : m \in middle}
    IN  \/ \E m \in middle : isControl(m) \/ hasLabel(m)
        \/ definedRegister(program[c]) \cap (uses \cup usedRegisters(program[b])) # {}

\* Whether the instruction at c cannot be moved down past the one at b.
dependenciesBlockMoveBackward(program, c, b) ==
    LET candidate == program[c]
        middle == {program[n] : n \in c + 1 .. b - 1}
        defs_between == UNION {definedRegister(m) : m \in middle}
        uses_between == UNION {usedRegisters(m) : m \in middle}
    IN  \/ \E m \in middle : isControl(m) \/ hasLabel(m)
        \/ usedRegisters(candidate) \cap defs_between # {}
        \/ definedRegister(candidate)
             \cap (uses_between \cup defs_between \cup usedRegisters(program[b])) # {}
        \/ isMemory(candidate) /\ \E m \in middle : isMemory(m)

CandidatesInAnySlot(program, b) ==
    {c \in 1 .. b - 1 :
        /\ ~hasLabel(program[c])
        /\ isAcceptableDelaySlotInstruction(program[c])
        /\ ~dependenciesBlockMoveBackward(program, c, b)}

Candidates(program, b) ==
    {c \in 1 .. b - 1 :
        /\ ~hasLabel(program[c])
        /\ isAcceptableDelaySlotInstruction(program[c])
        /\ ~program[c].manually_filled
        /\ ~dependenciesBlockMoveBackward(program, c, b)}

\* The candidate the backward search comes to first.
Nearest(positions) == CHOOSE c \in positions : \A d \in positions : d <= c

\* The instruction at c goes behind the one at b.
MoveCopies(program, c, b) ==
    SubSeq(program, 1, b) \o <<program[c]>> \o SubSeq(program, b + 1, Len(program))

Move(program, c, b) ==
    SubSeq(program, 1, c - 1) \o SubSeq(program, c + 1, b) \o <<program[c]>>
        \o SubSeq(program, b + 1, Len(program))

-----------------------------------------------------------------------------

AtControl == i <= Len(instructions) /\ isControl(instructions[i])

SkipTwo ==
    /\ i <= Len(instructions) /\ ~isControl(instructions[i])
    /\ i' = i + 2
    /\ UNCHANGED <<input, instructions, decisions, returned>>

Skip ==
    /\ i <= Len(instructions) /\ ~isControl(instructions[i])
    /\ i' = i + 1
    /\ UNCHANGED <<input, instructions, decisions, returned>>

KeepManual ==
    /\ AtControl /\ i < Len(instructions) /\ ~isNop(instructions[i + 1])
    /\ instructions' = [instructions EXCEPT ![i + 1].manually_filled = TRUE]
    /\ decisions' = Append(decisions, Decision(i, "manual", instructions[i + 1]))
    /\ i' = i + 1
    /\ UNCHANGED <<input, returned>>

\* A slot for the branch at i: the nop behind it, or one at the end.
WithSlot ==
    IF i = Len(instructions) THEN Append(instructions, NopInstruction) ELSE instructions

SlotIsFree == AtControl /\ isNop(WithSlot[i + 1])

\* The nop that was in the slot stays behind the moved instruction.  The
\* branch has moved up by one, so the loop goes on behind it with the same i.
Fill(branch_index) ==
    LET c == Nearest(Candidates(WithSlot, i))
    IN  /\ instructions' = Move(WithSlot, c, i)
        /\ decisions' = Append(decisions, Decision(branch_index, "filled", WithSlot[c]))
        /\ i' = i
        /\ UNCHANGED <<input, returned>>

FillAndNameOldPlace == SlotIsFree /\ Candidates(WithSlot, i) # {} /\ Fill(i)
FillAutomatically == SlotIsFree /\ Candidates(WithSlot, i) # {} /\ Fill(i - 1)

LeaveNop ==
    /\ SlotIsFree
    /\ Candidates(WithSlot, i) = {}
    /\ instructions' = [WithSlot EXCEPT ![i + 1].opcode = "nop"]
    /\ UNCHANGED <<input, returned>>

UseNopAgain == LeaveNop /\ i' = i /\ UNCHANGED decisions
UseNopSilently == LeaveNop /\ i' = i + 1 /\ UNCHANGED decisions
UseNop ==
    /\ LeaveNop
    /\ decisions' = Append(decisions, Decision(i, "nop", NopInstruction))
    /\ i' = i + 1

ReturnUnresolved ==
    /\ i > Len(instructions) /\ ~returned
    /\ instructions' = instructions
    /\ returned' = TRUE
    /\ UNCHANGED <<input, decisions, i>>

Return ==
    /\ i > Len(instructions) /\ ~returned
    /\ instructions' = resolveTargets(instructions)
    /\ returned' = TRUE
    /\ UNCHANGED <<input, decisions, i>>

Next == Skip \/ KeepManual \/ FillAutomatically \/ UseNop \/ Return

Start(program) ==
    /\ input = program /\ instructions = program
    /\ decisions = <<>> /\ i = 1 /\ returned = FALSE

Init == \E program \in Seq(InstructionSet) : Start(program)

Spec == Init /\ [][Next]_vars

\* The pass is a function call in a thread of its own: nothing else can keep it
\* from taking its next step.
FairSpec == Spec /\ WF_vars(Next)
=============================================================================
