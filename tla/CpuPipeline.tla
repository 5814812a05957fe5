---------------------------- MODULE CpuPipeline ----------------------------
(***************************************************************************)
(* rtl/cpu_pipeline.v with the memories core_top.v attaches to it: the     *)
(* five-stage core whose scheduler fills delay slots at run time.  It      *)
(* composes IfStage and DelaySlotScheduler with the pipeline registers,    *)
(* forwarding, the load-use interlock and the slot-injection control.      *)
(*                                                                         *)
(* One step is one clock edge.  Every edge clocks the whole core; Wait,    *)
(* LoadUseBubble and Issue are the three ways it loads ID/EX, in the       *)
(* order of the if-chain of the code.  Wires are operators, named as in    *)
(* the code.  A pipeline register keeps the instruction in place of the    *)
(* control signals that id_stage.v derives from it.                        *)
(***************************************************************************)
EXTENDS DelaySlotScheduler

CONSTANTS
    Programs,   \* contents of instruction memory to consider
    CountMod    \* the statistics counters count modulo CountMod

ASSUME ProgramsAssumption == Programs \subseteq [Pc -> Instr]
ASSUME CountModAssumption == CountMod \in Nat \ {0}

VARIABLES
    imem,                                 \* instruction memory
    fetch_pc, slot0, slot1, if_reg,       \* if_stage.v, IF/ID included
    id_ex,                                \* ID/EX, with the slot decision
    slot_cycle_pending, slot_ex,          \* slot control behind EX
    ex_mem, mem_wb,                       \* EX/MEM and MEM/WB
    regs, dmem, rdata,                    \* register file, data RAM
    stats                                 \* stat_*_count

fetch_vars == <<imem, fetch_pc, slot0, slot1, if_reg>>
vars == <<fetch_vars, id_ex, slot_cycle_pending, slot_ex, ex_mem, mem_wb,
          regs, dmem, rdata, stats>>

SlotModes == {"manual", "auto", "nop"}
Count == 0 .. CountMod - 1

SlotChoice == [mode : SlotModes, auto_instr : Instr, auto_pc : Pc, manual_is_nop : BOOLEAN]
IdEx == [pc : Pc, pc4 : Pc, instr : Instr, rs_val : Word, rt_val : Word, slot : SlotChoice]
SlotEx == [mode : SlotModes, auto_instr : Instr, auto_pc : Pc, nominal_pc : Pc,
           manual_is_nop : BOOLEAN]
ExMem == [alu_result : Word, rt_value : Word, dest : Reg,
          reg_write : BOOLEAN, mem_read : BOOLEAN, mem_write : BOOLEAN]
MemWb == [alu_result : Word, data : Word, dest : Reg,
          reg_write : BOOLEAN, mem_to_reg : BOOLEAN]
Stats == [cycles : Count, branches : Count, manual : Count, auto : Count, nop : Count]

NoSlot == [mode |-> "manual", auto_instr |-> NOP, auto_pc |-> 0, manual_is_nop |-> FALSE]
IdExBubble == [pc |-> 0, pc4 |-> 0, instr |-> NOP, rs_val |-> 0, rt_val |-> 0,
               slot |-> NoSlot]
ExMemReset == [alu_result |-> 0, rt_value |-> 0, dest |-> 0,
               reg_write |-> FALSE, mem_read |-> FALSE, mem_write |-> FALSE]
MemWbReset == [alu_result |-> 0, data |-> 0, dest |-> 0,
               reg_write |-> FALSE, mem_to_reg |-> FALSE]
SlotExReset == [mode |-> "manual", auto_instr |-> NOP, auto_pc |-> 0, nominal_pc |-> 0,
                manual_is_nop |-> FALSE]

-----------------------------------------------------------------------------
(* ID: the fetched instruction, or the one injected into the delay slot.   *)

slot_inject_whenever_pending == slot_cycle_pending
slot_inject_active == slot_cycle_pending /\ slot_ex.mode # "manual"
slot_consumes_pc4 == slot_cycle_pending /\ slot_ex.mode = "auto"

id_in ==
    IF ~slot_inject_active THEN if_reg
    ELSE LET auto == slot_ex.mode = "auto"
             pc == IF auto THEN slot_ex.auto_pc ELSE slot_ex.nominal_pc
         IN  [pc |-> pc, pc4 |-> PcInc(pc),
              instr |-> IF auto THEN slot_ex.auto_instr ELSE NOP]

branch_id ==
    [valid |-> is_branch_or_jump(id_in.instr), pc |-> id_in.pc,
     rs |-> id_in.instr.rs, rt |-> id_in.instr.rt,
     backward |-> branch_is_backward(id_in.instr, id_in.pc, id_in.pc4)]

slot_id ==
    LET auto == auto_slot_use(branch_id, slot0, slot1)
    IN  [mode |-> CASE auto                                    -> "auto"
                    [] force_nop_slot(branch_id, slot0, slot1) -> "nop"
                    [] OTHER                                   -> "manual",
         auto_instr |-> IF auto THEN slot1.instr ELSE NOP,
         auto_pc |-> IF auto THEN slot1.pc ELSE 0,
         manual_is_nop |-> manual_slot_is_nop(branch_id, slot0)]

\* hazard_unit.v: ID needs what the load in EX has not fetched yet.
load_use_hazard ==
    /\ mem_read(id_ex.instr)
    /\ id_ex.instr.rt \in {id_in.instr.rs, id_in.instr.rt} \ {0}

scheduler_wait == wait_for_more_candidates(branch_id, slot0, slot1)

branch_id_fire_in_hazard == branch_id.valid /\ ~scheduler_wait
branch_id_fire == branch_id.valid /\ ~load_use_hazard /\ ~scheduler_wait

\* reg_file.v reads without a write-through of the word being written.
ReadReg(r) == IF r = 0 THEN 0 ELSE regs[r]

-----------------------------------------------------------------------------
(* EX: forwarding and branch resolution; WB.                               *)

wb_data == IF mem_wb.mem_to_reg THEN mem_wb.data ELSE mem_wb.alu_result

ForwardOldestFirst(r, val) ==
    CASE mem_wb.reg_write /\ mem_wb.dest # 0 /\ mem_wb.dest = r -> wb_data
      [] OTHER ->
         IF /\ ex_mem.reg_write /\ ~ex_mem.mem_read
            /\ ex_mem.dest # 0 /\ ex_mem.dest = r THEN ex_mem.alu_result ELSE val

Forward(r, val) ==
    CASE /\ ex_mem.reg_write /\ ~ex_mem.mem_read
         /\ ex_mem.dest # 0 /\ ex_mem.dest = r     -> ex_mem.alu_result
      [] OTHER ->
         IF mem_wb.reg_write /\ mem_wb.dest # 0 /\ mem_wb.dest = r THEN wb_data ELSE val

ex_rs_val == Forward(id_ex.instr.rs, id_ex.rs_val)
ex_rt_val == Forward(id_ex.instr.rt, id_ex.rt_val)

branch_event_valid == is_branch_or_jump(id_ex.instr)
branch_redirect == branch_taken(id_ex.instr, ex_rs_val, ex_rt_val)

-----------------------------------------------------------------------------
(* IF: the wires to if_stage.v.                                            *)

IfPins ==
    [stall    |-> load_use_hazard \/ slot_inject_active \/ scheduler_wait,
     flush    |-> slot_consumes_pc4,
     redirect |-> branch_redirect,
     target   |-> branch_target(id_ex.instr, id_ex.pc4),
     kill     |-> branch_id_fire /\ auto_slot_use(branch_id, slot0, slot1)]

Fetch == INSTANCE IfStage WITH INST_NOP <- NOP, pins <- IfPins, Programs <- [Pc -> Instr]

-----------------------------------------------------------------------------
(* The clocked blocks other than IF and ID/EX, the same at every edge.     *)

SlotControl ==
    /\ slot_cycle_pending' = branch_event_valid
    /\ slot_ex' = IF branch_event_valid
                  THEN [mode |-> id_ex.slot.mode, auto_instr |-> id_ex.slot.auto_instr,
                        auto_pc |-> id_ex.slot.auto_pc, nominal_pc |-> id_ex.pc4,
                        manual_is_nop |-> id_ex.slot.manual_is_nop]
                  ELSE slot_ex

Execute ==
    ex_mem' = [alu_result |-> alu_result(id_ex.instr, ex_rs_val, ex_rt_val),
               rt_value |-> ex_rt_val, dest |-> dest_reg(id_ex.instr),
               reg_write |-> reg_write(id_ex.instr), mem_read |-> mem_read(id_ex.instr),
               mem_write |-> mem_write(id_ex.instr)]

\* data_memory.v registers its output: what rdata answers is last cycle's address.
DataMemory ==
    LET a == data_index(ex_mem.alu_result)
    IN  /\ dmem' = IF ex_mem.mem_write THEN [dmem EXCEPT ![a] = ex_mem.rt_value] ELSE dmem
        /\ rdata' = dmem[a]

Memory ==
    mem_wb' = [alu_result |-> ex_mem.alu_result, data |-> rdata,
               dest |-> ex_mem.dest, reg_write |-> ex_mem.reg_write,
               mem_to_reg |-> ex_mem.mem_read]

WriteBack ==
    regs' = IF mem_wb.reg_write /\ mem_wb.dest # 0
            THEN [regs EXCEPT ![mem_wb.dest] = wb_data] ELSE regs

\* The counter a branch in EX is credited to.
SlotKindNopUncounted ==
    IF id_ex.slot.mode = "manual" /\ id_ex.slot.manual_is_nop THEN "none"
    ELSE id_ex.slot.mode

SlotKind ==
    IF id_ex.slot.mode = "manual" /\ id_ex.slot.manual_is_nop THEN "nop"
    ELSE id_ex.slot.mode

Statistics ==
    LET more(n) == IF n = CountMod - 1 THEN 0 ELSE n + 1
    IN  stats' = [c \in DOMAIN stats |->
                    IF \/ c = "cycles"
                       \/ branch_event_valid /\ c \in {"branches", SlotKind}
                    THEN more(stats[c]) ELSE stats[c]]

RestOfCore ==
    /\ imem' = imem
    /\ Fetch!Edge
    /\ SlotControl /\ Execute /\ DataMemory /\ Memory /\ WriteBack /\ Statistics

-----------------------------------------------------------------------------
(* The edges.                                                              *)

WaitWithBubble ==
    /\ scheduler_wait
    /\ id_ex' = IdExBubble
    /\ RestOfCore

\* The branch in ID waits for cand1.  ID/EX is held, not bubbled: what is in
\* EX goes on to EX/MEM and is executed again at the next edge.
Wait ==
    /\ scheduler_wait
    /\ id_ex' = id_ex
    /\ RestOfCore

LoadUseBubble ==
    /\ ~scheduler_wait /\ load_use_hazard
    /\ id_ex' = IdExBubble
    /\ RestOfCore

Issue ==
    /\ ~scheduler_wait /\ ~load_use_hazard
    /\ id_ex' = [pc |-> id_in.pc, pc4 |-> id_in.pc4, instr |-> id_in.instr,
                 rs_val |-> ReadReg(id_in.instr.rs), rt_val |-> ReadReg(id_in.instr.rt),
                 slot |-> slot_id]
    /\ RestOfCore

Clock == Wait \/ LoadUseBubble \/ Issue

\* An edge with reset asserted; instruction memory is a ROM and keeps its words.
Reset ==
    /\ imem' = imem
    /\ Fetch!Reset
    /\ id_ex' = IdExBubble
    /\ slot_cycle_pending' = FALSE /\ slot_ex' = SlotExReset
    /\ ex_mem' = ExMemReset /\ mem_wb' = MemWbReset
    /\ regs' = [r \in Reg |-> 0]
    /\ dmem' = [a \in DataAddr |-> 0] /\ rdata' = 0
    /\ stats' = [c \in {"cycles", "branches", "manual", "auto", "nop"} |-> 0]

Init ==
    /\ imem \in Programs
    /\ Fetch!ResetState
    /\ id_ex = IdExBubble
    /\ slot_cycle_pending = FALSE /\ slot_ex = SlotExReset
    /\ ex_mem = ExMemReset /\ mem_wb = MemWbReset
    /\ regs = [r \in Reg |-> 0]
    /\ dmem = [a \in DataAddr |-> 0] /\ rdata = 0
    /\ stats = [c \in {"cycles", "branches", "manual", "auto", "nop"} |-> 0]

Next == Clock \/ Reset

Spec == Init /\ [][Next]_vars

-----------------------------------------------------------------------------
(* Correctness.                                                            *)

\* Every register of the core holds a value of its width.
TypeOK ==
    /\ imem \in [Pc -> Instr] /\ fetch_pc \in Pc
    /\ slot0 \in Fetch!Slot /\ slot1 \in Fetch!Slot /\ if_reg \in Fetch!IfReg
    /\ id_ex \in IdEx
    /\ slot_cycle_pending \in BOOLEAN /\ slot_ex \in SlotEx
    /\ ex_mem \in ExMem /\ mem_wb \in MemWb
    /\ regs \in [Reg -> Word] /\ dmem \in [DataAddr -> Word] /\ rdata \in Word
    /\ stats \in Stats

\* cpu_pipeline.v uses if_stage.v as its clients must: it never flushes without
\* stalling, and never kills a candidate that is missing or that would not move
\* up, whatever branch, interlock and injection meet in one cycle.  Every edge
\* of the core is then a legal edge of the fetch unit.
FetchSpec == Fetch!Spec

\* What the decoder, which need not agree with the scheduler, makes of i.
Inert(i) == ~is_branch_or_jump(i) /\ ~mem_read(i) /\ ~mem_write(i)

\* The instruction a branch carries along for its slot, from its decode until
\* the injection two edges later, is the program's word at the address it will
\* be issued under; the decoder will take it for neither a memory access nor a
\* control instruction, and it will not write a register the branch reads.
PromotionSafe ==
    /\ id_ex.slot.mode = "auto" =>
         LET i == id_ex.slot.auto_instr
         IN  /\ is_branch_or_jump(id_ex.instr)
             /\ Inert(i) /\ i = imem[id_ex.slot.auto_pc]
             /\ reg_write(i) => dest_reg(i) \notin {id_ex.instr.rs, id_ex.instr.rt} \ {0}
    /\ slot_ex.mode = "auto" =>
         Inert(slot_ex.auto_instr) /\ slot_ex.auto_instr = imem[slot_ex.auto_pc]

\* How many edges may pass at most before the one that issues: a wait with a branch
\* in EX ends when its slot is injected, another one when the buffer is full, and an
\* interlock when the load has left EX.
EdgesToIssue ==
    (CASE ~scheduler_wait                      -> 0
       [] scheduler_wait /\ branch_event_valid -> 1
       [] OTHER                                -> IF slot0.valid THEN 1 ELSE 2)
    + (IF mem_read(id_ex.instr) THEN 1 ELSE 0)

\* Whatever branches, loads, injections and redirects meet, an edge that does not issue
\* is at most two edges away from one that does, and the next edge is closer: of three
\* edges in a row without reset one issues.
IssueComesCloser ==
    [][Wait \/ LoadUseBubble =>
         /\ EdgesToIssue \in 1 .. 2
         /\ EdgesToIssue' \in 0 .. EdgesToIssue - 1]_vars

\* The counters of filled slots add up to the counter of branches.
SlotsAccounted ==
    (stats.manual + stats.auto + stats.nop) % CountMod = stats.branches
=============================================================================
