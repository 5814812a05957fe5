--------------------- MODULE DelaySlotScheduler_proofs ---------------------
(***************************************************************************)
(* Lemmas about the instruction set and the scheduler's decision, for      *)
(* every size of the machine: widths, and what a safe candidate is to the  *)
(* decoder.                                                                *)
(***************************************************************************)
EXTENDS DelaySlotScheduler, TLAPS

\* The fields of an instruction word have their ranges.
LEMMA InstrFields ==
    \A i \in Instr : /\ i.op \in Opcodes /\ i.imm \in Immediates(i.op)
                     /\ i.rs \in Reg /\ i.rt \in Reg /\ i.rd \in Reg
                     /\ i.op = "nop" => i = NOP
BY DEF Instr

\* The all-zero word is an instruction.
LEMMA NopType == NOP \in Instr
<1>1. Immediates("nop") = {0}
  BY DEF Immediates, Branches
<1> QED  BY <1>1, SizeAssumption DEF NOP, Instr, Opcodes, RTypes, Reg

\* Zero is a value of every width.
LEMMA ZeroTypes == 0 \in Pc /\ 0 \in Word /\ 0 \in Reg /\ 0 \in DataAddr
<1>1. MaxWord \div 4 \in Nat
  BY SizeAssumption
<1> QED  BY <1>1, SizeAssumption DEF Pc, Word, Reg, DataAddr

\* Address arithmetic stays in its width.
LEMMA PcTypes ==
    \A p \in Pc : PcInc(p) \in Pc /\ \A d \in -MaxPc .. MaxPc : PcAdd(p, d) \in Pc
BY SizeAssumption DEF Pc, PcInc, PcAdd, Wrap

\* A word address lies in the RAM.
LEMMA DataIndexType == \A a \in Word : data_index(a) \in DataAddr
BY SizeAssumption DEF Word, DataAddr, data_index

\* The ALU's result has the width of a word.
LEMMA AluType == \A i \in Instr : \A a, b \in Word : alu_result(i, a, b) \in Word
<1> SUFFICES ASSUME NEW i \in Instr, NEW a \in Word, NEW b \in Word
             PROVE  alu_result(i, a, b) \in Word
  OBVIOUS
<1>1. \A x, y \in Word : Wrap(x + y, MaxWord) \in Word /\ Wrap(x - y, MaxWord) \in Word
  BY SizeAssumption DEF Word, Wrap
<1>2. ASSUME alu_src_immediate(i) PROVE SignExtend(i.imm) \in Word
  <2>1. i.imm \in -MaxWord .. MaxWord
    BY <1>2, InstrFields DEF alu_src_immediate, Immediates, Branches
  <2> QED  BY <2>1, SizeAssumption DEF SignExtend, Wrap, Word
<1> DEFINE y == IF alu_src_immediate(i) THEN SignExtend(i.imm) ELSE b
<1>3. y \in Word
  BY <1>2
<1>4. alu_result(i, a, b) \in {WordAnd(a, y), WordOr(a, y), Wrap(a - y, MaxWord), Wrap(a + y, MaxWord)}
  BY DEF alu_result
<1> HIDE DEF y
<1> QED  BY <1>1, <1>3, <1>4, BitwiseAssumption

\* A branch target is an address.
LEMMA TargetType == \A i \in Instr : \A p \in Pc : branch_target(i, p) \in Pc
<1> SUFFICES ASSUME NEW i \in Instr, NEW p \in Pc PROVE branch_target(i, p) \in Pc
  OBVIOUS
<1>1. CASE i.op \in Branches
  <2>1. i.imm \in -MaxPc .. MaxPc
    BY <1>1, InstrFields DEF Immediates, Branches
  <2> QED  BY <1>1, <2>1, PcTypes DEF branch_target, Branches
<1>2. CASE i.op = "j"
  <2>1. i.imm \in Pc
    BY <1>2, InstrFields DEF Immediates, Branches
  <2> QED  BY <1>2, <2>1 DEF branch_target, Branches
<1>3. CASE i.op \notin Branches /\ i.op # "j"
  BY <1>3, PcTypes DEF branch_target
<1> QED  BY <1>1, <1>2, <1>3

\* The scheduler and the decoder, which each take an instruction word apart,
\* agree on what matters: a candidate that delay_slot_scheduler.v calls safe is
\* neither a control instruction nor a memory access to id_stage.v, and it will
\* not write a register that the branch reads.
THEOREM SafeCandidateInert ==
    ASSUME NEW i \in Instr, NEW rs \in Reg, NEW rt \in Reg, safe_candidate(i, rs, rt)
    PROVE  /\ ~is_branch_or_jump(i) /\ ~mem_read(i) /\ ~mem_write(i)
           /\ reg_write(i) => dest_reg(i) \notin {rs, rt} \ {0}
<1>1. CASE i = NOP
  BY <1>1 DEF NOP, is_branch_or_jump, branch_type, Branches, mem_read, mem_write,
              reg_write, Arithmetic
<1>2. CASE i # NOP
  <2>1. ~is_control(i) /\ ~is_memory_op(i)
    BY <1>2 DEF safe_candidate
  <2>2. ~is_branch_or_jump(i) /\ ~mem_read(i) /\ ~mem_write(i)
    BY <2>1 DEF is_control, is_memory_op, is_branch_or_jump, branch_type, Branches,
                mem_read, mem_write
  <2>3. ASSUME reg_write(i), dest_reg(i) # 0 PROVE dest_reg(i) \notin {rs, rt}
    <3>1. get_dest_reg(i) = dest_reg(i) /\ writes_register(i)
      BY <1>2, <2>1, <2>3 DEF reg_write, dest_reg, reg_dst_rd, get_dest_reg,
                              writes_register, RTypes, is_memory_op
    <3> QED  BY <1>2, <2>3, <3>1 DEF safe_candidate
  <2> QED  BY <2>2, <2>3
<1> QED  BY <1>1, <1>2
=============================================================================
