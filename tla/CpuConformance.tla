--------------------------- MODULE CpuConformance ---------------------------
(***************************************************************************)
(* What programs the core executes as a delayed-branch machine with two    *)
(* slots.  The pipeline is mapped to DelayedBranch by asking what it would *)
(* have done once every instruction that has left EX is written back, and  *)
(* which three instructions EX will see next.                              *)
(*                                                                         *)
(* The core departs from the architecture in a small number of situations. *)
(* Each has a name below; `faithful' turns false the first time one is met *)
(* and stays so until reset.                                               *)
(***************************************************************************)
EXTENDS CpuPipeline, Sequences

\* The three addresses of a window are different ones.
ASSUME WindowAssumption == MaxPc >= 2

VARIABLES
    fresh,      \* ID/EX holds a program instruction EX has not executed yet
    faithful    \* no deviation since reset

history == <<fresh, faithful>>

-----------------------------------------------------------------------------
(* The situations.                                                         *)

\* A control instruction is issued right behind another one.
ControlInSlot == branch_event_valid /\ branch_id.valid

\* A branch is issued before the buffer holds the instruction after it.
BranchUnfed == branch_id_fire /\ ~slot0.valid

\* The slot of an untaken branch was filled by promotion: the flush that goes
\* with the injection drops an instruction that should have been executed.
NextSwallowed == branch_event_valid /\ id_ex.slot.mode = "auto" /\ ~branch_redirect

\* The promoted instruction needs the load in EX; the bubble takes its place
\* and the injection is not tried again.
PromotionLost == slot_consumes_pc4 /\ load_use_hazard

\* A waiting branch makes EX execute an instruction a second time, and the
\* second execution computes something else.
ReplayDiffers ==
    /\ ~fresh
    /\ \/ /\ reg_write(id_ex.instr) \/ mem_write(id_ex.instr)
          /\ alu_result(id_ex.instr, ex_rs_val, ex_rt_val) # ex_mem.alu_result
       \/ mem_write(id_ex.instr) /\ ex_rt_val # ex_mem.rt_value

Sources(i) ==
    (IF i.op \in Arithmetic \cup Branches \cup {"sw"} THEN {i.rs, i.rt}
     ELSE IF i.op \in {"addi", "lw"} THEN {i.rs} ELSE {}) \ {0}

\* An operand is read in the cycle its producer is written back, too late for
\* the register file and too early for the forwarding paths.
StaleOperand ==
    \E r \in Sources(id_in.instr) :
        /\ mem_wb.reg_write /\ mem_wb.dest = r /\ wb_data # regs[r]
        /\ ~(reg_write(id_ex.instr) /\ dest_reg(id_ex.instr) = r)
        /\ ~(ex_mem.reg_write /\ ex_mem.dest = r)

\* A load takes the RAM's output register, which answers the address that was
\* in MEM one cycle earlier.
StaleLoad == ex_mem.mem_read /\ rdata # dmem[data_index(ex_mem.alu_result)]

Deviates ==
    \/ ControlInSlot \/ BranchUnfed \/ NextSwallowed \/ PromotionLost
    \/ ReplayDiffers \/ StaleLoad
    \/ ~scheduler_wait /\ ~load_use_hazard /\ StaleOperand

-----------------------------------------------------------------------------

IsBubble(entry) == entry.pc4 # PcInc(entry.pc)

HistoryInit == fresh = FALSE /\ faithful = TRUE

HistoryClock ==
    /\ fresh' = /\ ~scheduler_wait /\ ~load_use_hazard
                /\ IF slot_inject_active THEN slot_ex.mode = "auto"
                   ELSE ~IsBubble(if_reg)
    /\ faithful' = (faithful /\ ~Deviates)

HistoryReset == fresh' = FALSE /\ faithful' = TRUE

\* The clock keeps ticking; reset may come at any edge, but not at every one.
ConformanceSpec ==
    /\ Init /\ HistoryInit
    /\ [][(Clock /\ HistoryClock) \/ (Reset /\ HistoryReset)]_<<vars, history>>
    /\ WF_vars(Clock)

-----------------------------------------------------------------------------
(* The refinement mapping.                                                 *)

\* An instruction that comes before the three of w, if there is one.
Before(there, pc, w) == IF there THEN <<pc, w[1], w[2]>> ELSE w

\* The next three instructions of EX, in order.  A promoted instruction is issued
\* after the one in IF/ID; while it is injected, what is in IF/ID is void.
Buffered ==
    Before(slot0.valid, slot0.pc,
    Before(slot1.valid, slot1.pc,
           <<fetch_pc, PcInc(fetch_pc), PcInc(PcInc(fetch_pc))>>))

Upcoming ==
    LET promoted == fresh /\ branch_event_valid /\ id_ex.slot.mode = "auto"
    IN  Before(fresh, id_ex.pc,
        Before(slot_consumes_pc4, slot_ex.auto_pc,
        Before(~slot_consumes_pc4 /\ ~IsBubble(if_reg), if_reg.pc,
        Before(promoted, id_ex.slot.auto_pc, Buffered))))

Write(c, file, at, val) == IF c THEN [file EXCEPT ![at] = val] ELSE file

ArchRegs ==
    LET written == Write(mem_wb.reg_write /\ mem_wb.dest # 0, regs, mem_wb.dest, wb_data)
    IN  Write(ex_mem.reg_write /\ ex_mem.dest # 0, written, ex_mem.dest,
              IF ex_mem.mem_read THEN dmem[data_index(ex_mem.alu_result)]
              ELSE ex_mem.alu_result)

ArchMem == Write(ex_mem.mem_write, dmem, data_index(ex_mem.alu_result), ex_mem.rt_value)

Arch == INSTANCE DelayedBranch
            WITH Shadow <- 2, window <- Upcoming,
                 regs <- ArchRegs, dmem <- ArchMem

\* Up to the first deviation every clock edge executes exactly one instruction
\* of the two-slot machine, with its operands, or none: no interleaving of
\* waits, bubbles, injections, kills, flushes and redirects loses, repeats or
\* reorders an instruction or feeds it an old operand.
ImplementsDelayedBranch ==
    Arch!Start /\ [][faithful' => Arch!Next]_(Arch!vars)

\* The branch counters are bumped for whatever branch EX shows.  Up to the
\* first deviation that is each executed branch once, though EX may be held.
CountsBranchesOnce == faithful /\ branch_event_valid => fresh

-----------------------------------------------------------------------------
(* Rules of programming under which the scheduler never has to step in.    *)

\* No control instruction within two words of another one.
ShadowFree ==
    \A p \in Pc : is_control(imem[p]) =>
        ~is_control(imem[PcInc(p)]) /\ ~is_control(imem[PcInc(PcInc(p))])

\* A compiler has put a safe word behind every control instruction.
SlotsFilled ==
    \A p \in Pc : is_control(imem[p]) =>
        safe_candidate(imem[PcInc(p)], imem[p].rs, imem[p].rt)

\* With both rules the core never waits and never injects, and only data
\* hazards are left as a reason to depart from the architecture: when a branch
\* is decoded, the word behind it is always there to be looked at.
FilledSlotsFlow ==
    ShadowFree /\ SlotsFilled =>
        /\ ~scheduler_wait /\ ~slot_inject_active
        /\ Deviates => StaleOperand \/ StaleLoad

\* A wait is over at the next edge, and so EX is never held for a second one.
WaitsOneCycle == [][ShadowFree /\ scheduler_wait => ~scheduler_wait']_vars

\* As long as the clock ticks, the core goes on issuing: waits, interlocks and
\* injections cannot block each other for ever.
KeepsIssuing == []<><<Issue>>_vars
=============================================================================
