---------------------------- MODULE Instruction ----------------------------
(***************************************************************************)
(* include/instruction.h and src/instruction.cpp: the instruction record   *)
(* of the C++ tool chain and what it says of itself.                       *)
(*                                                                         *)
(* Register and label names are strings, "" when the parser left them      *)
(* empty.  A program is a sequence, so what the code calls index n is      *)
(* position n + 1 here; target_index 0 stands for an unset optional.  Of   *)
(* original_text, label_only keeps whether it is the label alone, which is *)
(* all toString asks.  Nothing reads has_immediate, which is left out.     *)
(***************************************************************************)
EXTENDS Naturals, Sequences

CONSTANTS
    Registers,  \* register names in use
    Labels,     \* label names in use
    Immediates  \* immediate operands in use

RdArithmetic == {"add", "sub", "mul", "div", "and", "or", "xor", "slt"}
ArithmeticOps == RdArithmetic \cup {"addi", "li"}
OpCode == ArithmeticOps \cup {"lw", "sw", "nop", "beq", "bne", "j", "label_only"}

InstructionSet ==
    [opcode : OpCode, label : Labels \cup {""},
     rd : Registers \cup {""}, rs : Registers \cup {""}, rt : Registers \cup {""},
     immediate : Immediates \cup {0}, label_only : BOOLEAN,
     target_label : Labels \cup {""}, target_index : Nat, manually_filled : BOOLEAN]

\* A default-constructed Instruction.
NopInstruction ==
    [opcode |-> "nop", label |-> "", rd |-> "", rs |-> "", rt |-> "", immediate |-> 0,
     label_only |-> FALSE, target_label |-> "", target_index |-> 0, manually_filled |-> FALSE]

isBranch(i) == i.opcode \in {"beq", "bne"}
isJump(i) == i.opcode = "j"
isControl(i) == isBranch(i) \/ isJump(i)
isMemory(i) == i.opcode \in {"lw", "sw"}
isNop(i) == i.opcode \in {"nop", "label_only"}
mayCauseException(i) == isMemory(i)
hasLabel(i) == i.label # ""

\* The register i defines, as a set of at most one.
definedRegister(i) ==
    CASE i.opcode = "lw"                                        -> {i.rt}
      [] i.opcode \in ArithmeticOps /\ i.rd # ""                -> {i.rd}
      [] i.opcode = "addi" /\ i.rd = "" /\ i.rt # ""            -> {i.rt}
      [] i.opcode = "li" /\ i.rd = ""                           -> {i.rt}
      [] OTHER                                                  -> {}

usedRegisters(i) ==
    (CASE i.opcode \in RdArithmetic \cup {"sw", "beq", "bne"} -> {i.rs, i.rt}
       [] i.opcode \in {"addi", "lw"}                         -> {i.rs}
       [] OTHER                                               -> {}) \ {""}

-----------------------------------------------------------------------------
(* Resolving targets: scheduler.cpp and parser.cpp do it alike.            *)

\* The position a label is bound to, the last one if it is bound twice.
LabelPosition(program, label) ==
    LET at == {n \in DOMAIN program : program[n].label = label}
    IN  IF label = "" \/ at = {} THEN 0 ELSE CHOOSE n \in at : \A m \in at : m <= n

resolveTargets(program) ==
    [n \in DOMAIN program |->
        LET inst == program[n]
        IN  IF isControl(inst)
            THEN [inst EXCEPT !.target_index = LabelPosition(program, inst.target_label)]
            ELSE inst]
=============================================================================
