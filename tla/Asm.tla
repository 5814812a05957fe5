-------------------------------- MODULE Asm --------------------------------
(***************************************************************************)
(* Writing programs for the runs: one constructor per instruction format,  *)
(* and word operators that TLC evaluates.                                  *)
(***************************************************************************)
EXTENDS Integers, Sequences, Bitwise

R(op, rd, rs, rt) == [op |-> op, rs |-> rs, rt |-> rt, rd |-> rd, imm |-> 0]
I(op, rt, rs, imm) == [op |-> op, rs |-> rs, rt |-> rt, rd |-> 0, imm |-> imm]
J(target) == [op |-> "j", rs |-> 0, rt |-> 0, rd |-> 0, imm |-> target]
Nop == R("nop", 0, 0, 0)

ADDI(rt, rs, imm) == I("addi", rt, rs, imm)
LW(rt, imm, rs) == I("lw", rt, rs, imm)
SW(rt, imm, rs) == I("sw", rt, rs, imm)
BEQ(rs, rt, offset) == I("beq", rt, rs, offset)
BNE(rs, rt, offset) == I("bne", rt, rs, offset)

\* The words from address 0 on, then nops.
Load(words, maxPc) ==
    [p \in 0 .. maxPc |-> IF p < Len(words) THEN words[p + 1] ELSE Nop]

BitAnd(a, b) == a & b
BitOr(a, b) == a | b
=============================================================================
