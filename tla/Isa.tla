-------------------------------- MODULE Isa --------------------------------
(***************************************************************************)
(* The instruction set of rtl/: what isa_defs.vh, id_stage.v, alu.v and    *)
(* branch_unit.v make of one instruction word.                             *)
(*                                                                         *)
(* A word is a record of its fields, opcode and funct joined in `op':      *)
(* "nop" is the all-zero word, "rtype" an R-type word with an unassigned   *)
(* funct, "none" an unassigned opcode.  The rd field of an I-type word     *)
(* (bits of its immediate) is never read, and a jump index is taken small  *)
(* enough (below 2^16) for its rs and rt fields to be zero.                *)
(*                                                                         *)
(* Addresses count words.  Machine words are 0 .. MaxWord, and arithmetic  *)
(* wraps at their width, as it does at 32 bits.                            *)
(***************************************************************************)
EXTENDS Integers

CONSTANTS
    MaxPc,          \* instruction addresses are 0 .. MaxPc
    MaxWord,        \* data words are 0 .. MaxWord
    MaxReg,         \* registers are 0 .. MaxReg
    WordAnd(_, _),  \* bitwise AND and OR of two words
    WordOr(_, _)

ASSUME SizeAssumption ==
    /\ MaxPc \in Nat /\ MaxReg \in Nat
    /\ MaxWord \in Nat \ {0}

Pc == 0 .. MaxPc
Word == 0 .. MaxWord
Reg == 0 .. MaxReg

ASSUME BitwiseAssumption ==
    \A a, b \in Word : WordAnd(a, b) \in Word /\ WordOr(a, b) \in Word

Arithmetic == {"add", "sub", "and", "or"}
RTypes == Arithmetic \cup {"nop", "rtype"}
Branches == {"beq", "bne"}
Opcodes == RTypes \cup Branches \cup {"addi", "lw", "sw", "j", "none"}

NOP == [op |-> "nop", rs |-> 0, rt |-> 0, rd |-> 0, imm |-> 0]

Immediates(op) ==
    CASE op \in {"addi", "lw", "sw"} -> -MaxWord .. MaxWord
      [] op \in Branches             -> -MaxPc .. MaxPc
      [] op = "j"                    -> Pc
      [] OTHER                       -> {0}

Instr ==
    {i \in [op : Opcodes, rs : Reg, rt : Reg, rd : Reg, imm : Int] :
        /\ i.imm \in Immediates(i.op)
        /\ i.op = "nop" => i = NOP
        /\ i.op = "j" => i.rs = 0 /\ i.rt = 0}

-----------------------------------------------------------------------------
(* Wrapping arithmetic.                                                    *)

Wrap(n, max) == IF n > max THEN n - (max + 1) ELSE IF n < 0 THEN n + (max + 1) ELSE n

PcAddUnwrapped(p, d) == p + d
PcAdd(p, d) == Wrap(p + d, MaxPc)
PcInc(p) == PcAdd(p, 1)

\* A sign-extended immediate as a word.
SignExtend(imm) == Wrap(imm, MaxWord)

-----------------------------------------------------------------------------
(* id_stage.v: the control signals of a word.                              *)

alu_src_immediate(i) == i.op \in {"addi", "lw", "sw"}
reg_dst_rd(i) == i.op \in RTypes
reg_write(i) == i.op \in Arithmetic \cup {"addi", "lw"}
mem_read(i) == i.op = "lw"
mem_write(i) == i.op = "sw"
branch_type(i) == IF i.op \in Branches \cup {"j"} THEN i.op ELSE "none"
is_branch_or_jump(i) == branch_type(i) # "none"

\* ex_stage.v: dest_reg_out
dest_reg(i) == IF reg_dst_rd(i) THEN i.rd ELSE i.rt

-----------------------------------------------------------------------------
(* alu.v, with the operation id_stage.v selects, and branch_unit.v.        *)

alu_result(i, rs_val, rt_val) ==
    LET b == IF alu_src_immediate(i) THEN SignExtend(i.imm) ELSE rt_val
    IN  CASE i.op = "and"                    -> WordAnd(rs_val, b)
          [] i.op = "or"                     -> WordOr(rs_val, b)
          [] i.op \in {"sub"} \cup Branches  -> Wrap(rs_val - b, MaxWord)
          [] OTHER                           -> Wrap(rs_val + b, MaxWord)

branch_taken(i, rs_val, rt_val) ==
    \/ i.op = "beq" /\ rs_val = rt_val
    \/ i.op = "bne" /\ rs_val # rt_val
    \/ i.op = "j"

branch_target(i, pc4) ==
    CASE i.op \in Branches -> PcAdd(pc4, i.imm)
      [] i.op = "j"        -> i.imm
      [] OTHER             -> PcInc(pc4)

(***************************************************************************)
(* cpu_pipeline.v: predicted_branch_target < id_pc_in.  The core adds the  *)
(* low half of a jump's index to its address too; with a small index that  *)
(* sum does not wrap, so no jump counts as backward, wherever it goes.     *)
(***************************************************************************)
branch_is_backward(i, pc, pc4) == i.op \in Branches /\ PcAdd(pc4, i.imm) < pc

\* data_memory.v: addr[31:2], the word a byte address falls in.
DataAddr == 0 .. MaxWord \div 4
data_index(addr) == addr \div 4
=============================================================================
