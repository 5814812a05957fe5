-------------------------- MODULE DocumentedClaims --------------------------
(***************************************************************************)
(* What the documents of the repository say of the core and the RTL does   *)
(* not do.  Each claim is a property of its own, refuted by a run on the   *)
(* program that shows the difference; where that is the edge-case test     *)
(* bench, the repository's own waveform shows it too.                      *)
(***************************************************************************)
EXTENDS CpuConformance, Asm

\* tb_core_edgecases.v, load_program_edgecases
Edgecases == Load(<<
    ADDI(1, 0, 0), ADDI(2, 0, 1), ADDI(24, 0, 0),
    BNE(1, 1, 2), LW(5, 0, 0), ADDI(24, 24, 9), ADDI(25, 25, 1),
    ADDI(26, 0, 0), BEQ(2, 2, 2), SW(24, 4, 0), LW(6, 8, 0), ADDI(26, 26, 3),
    LW(7, 0, 0), BEQ(7, 0, 2), ADDI(27, 27, 1), ADDI(27, 27, 2), ADDI(0, 0, 0)>>, MaxPc)
EdgecaseProgram == {Edgecases}

\* tb_core_basic.v, load_program_basic
BasicProgram == {Load(<<
    ADDI(1, 0, 4), ADDI(2, 0, 3), ADDI(3, 0, 0),
    R("add", 3, 3, 2),
    ADDI(1, 1, -1), BNE(1, 0, -3), ADDI(4, 4, 1),
    R("add", 6, 3, 0), Nop>>, MaxPc)}

\* A producer, two other instructions, a consumer.
DistanceThree == {Load(<<ADDI(1, 0, 5), Nop, Nop, R("add", 2, 1, 0), J(4)>>, MaxPc)}

\* A word is stored, and loaded after a pause.
StoreLoad ==
    {Load(<<ADDI(1, 0, 5), SW(1, 8, 0), Nop, Nop, Nop, LW(2, 8, 0), J(6)>>, MaxPc)}

\* A counter is bumped right before a branch with a store behind it.
CountThenBranch == {Load(<<ADDI(1, 1, 1), BEQ(0, 0, 1), SW(1, 0, 0), Nop, J(4)>>, MaxPc)}

-----------------------------------------------------------------------------

OneSlot == INSTANCE DelayedBranch
            WITH Shadow <- 1, window <- SubSeq(Upcoming, 1, 2),
                 regs <- ArchRegs, dmem <- ArchMem

\* docs/ARCH_NOTES.md:26: the architectural effect is always
\* "branch -> delay-slot -> target", with one delay slot.
BranchSlotTarget ==
    OneSlot!Start /\ [][faithful' => OneSlot!Next]_(OneSlot!vars)

\* docs/REPORT.md:617: after the automatic fill the "original slot now contains
\* the next sequential instruction (addi r25,r25,1)", which then runs.
OriginalSlotRuns == stats.cycles >= 40 => regs[25] = 1

\* docs/REPORT.md:538, "No Double Execution": an instruction that EX still holds
\* is not executed again to a different effect.
NoDoubleExecution == ~ReplayDiffers

\* docs/REPORT.md:286: forwarding ensures that EX uses the latest register
\* values, those that all older instructions leave behind.
OperandsLatest ==
    LET i == id_ex.instr
    IN  /\ i.rs \in Sources(i) => ex_rs_val = ArchRegs[i.rs]
        /\ i.rt \in Sources(i) => ex_rt_val = ArchRegs[i.rt]

\* docs/ARCH_NOTES.md:16: the data RAM is a single-cycle abstraction, so a load
\* in MEM passes on the word at its address.
LoadsReadTheirAddress ==
    [][Clock /\ ex_mem.mem_read => mem_wb'.data = dmem[data_index(ex_mem.alu_result)]]_vars
=============================================================================
