---------------------------- MODULE MCTestbench ----------------------------
(***************************************************************************)
(* The core runs the programs of tb/tb_core_basic.v and                    *)
(* tb/tb_core_edgecases.v.  The runs compare it, edge for edge, with the   *)
(* waveforms the repository keeps of its own simulation of the RTL         *)
(* (core_basic.vcd and core_edgecases.vcd), and its final state with what  *)
(* the test benches assert.  Machine words have 8 bits here; the largest   *)
(* value either program handles is 12, and -1 wraps.  Words past the end   *)
(* of a program, which the simulation leaves unknown, are nops.            *)
(***************************************************************************)
EXTENDS CpuPipeline, Asm

\* tb_core_basic.v, load_program_basic
Basic == Load(<<
    ADDI(1, 0, 4), ADDI(2, 0, 3), ADDI(3, 0, 0),
    R("add", 3, 3, 2),                              \* loop
    ADDI(1, 1, -1), BNE(1, 0, -3), ADDI(4, 4, 1),
    R("add", 6, 3, 0), Nop>>, MaxPc)

\* tb_core_edgecases.v, load_program_edgecases
Edgecases == Load(<<
    ADDI(1, 0, 0), ADDI(2, 0, 1), ADDI(24, 0, 0),
    BNE(1, 1, 2), LW(5, 0, 0), ADDI(24, 24, 9), ADDI(25, 25, 1),
    ADDI(26, 0, 0), BEQ(2, 2, 2), SW(24, 4, 0), LW(6, 8, 0), ADDI(26, 26, 3),
    LW(7, 0, 0), BEQ(7, 0, 2), ADDI(27, 27, 1), ADDI(27, 27, 2), ADDI(0, 0, 0)>>, MaxPc)

MCPrograms == {Basic, Edgecases}

\* What one cycle of a waveform shows: if_pc and id_ex_pc (in words),
\* scheduler_wait, branch_redirect, and the register and word written back.
Observed ==
    <<if_reg.pc, id_ex.pc, scheduler_wait, branch_redirect,
      IF mem_wb.reg_write THEN <<mem_wb.dest, wb_data>> ELSE <<0, 0>>>>

\* core_basic.vcd, stat_cycle_count 1, 2, ...
BasicWaveform == <<
    <<0, 0, FALSE, FALSE, <<0, 0>>>>, <<0, 0, FALSE, FALSE, <<0, 0>>>>,
    <<1, 0, FALSE, FALSE, <<0, 0>>>>, <<2, 1, FALSE, FALSE, <<0, 0>>>>,
    <<3, 2, FALSE, FALSE, <<1, 4>>>>, <<4, 3, FALSE, FALSE, <<2, 3>>>>,
    <<5, 4, FALSE, FALSE, <<3, 0>>>>, <<6, 5, FALSE, TRUE, <<3, 3>>>>,
    <<7, 6, FALSE, FALSE, <<1, 3>>>>, <<0, 7, FALSE, FALSE, <<0, 0>>>>,
    <<3, 0, FALSE, FALSE, <<4, 1>>>>, <<4, 3, FALSE, FALSE, <<6, 3>>>>,
    <<5, 4, FALSE, FALSE, <<0, 0>>>>, <<6, 5, FALSE, TRUE, <<3, 6>>>>,
    <<7, 6, FALSE, FALSE, <<1, 2>>>>, <<0, 7, FALSE, FALSE, <<0, 0>>>>,
    <<3, 0, FALSE, FALSE, <<4, 2>>>>, <<4, 3, FALSE, FALSE, <<6, 6>>>>,
    <<5, 4, FALSE, FALSE, <<0, 0>>>>, <<6, 5, FALSE, TRUE, <<3, 9>>>>,
    <<7, 6, FALSE, FALSE, <<1, 1>>>>, <<0, 7, FALSE, FALSE, <<0, 0>>>>,
    <<3, 0, FALSE, FALSE, <<4, 3>>>>, <<4, 3, FALSE, FALSE, <<6, 9>>>>,
    <<5, 4, FALSE, FALSE, <<0, 0>>>>, <<6, 5, FALSE, FALSE, <<3, 12>>>>,
    <<7, 6, FALSE, FALSE, <<1, 0>>>>, <<8, 7, FALSE, FALSE, <<0, 0>>>>,
    <<9, 8, FALSE, FALSE, <<4, 4>>>>, <<10, 9, FALSE, FALSE, <<6, 12>>>>>>

\* core_edgecases.vcd, stat_cycle_count 1, 2, ...
EdgecasesWaveform == <<
    <<0, 0, FALSE, FALSE, <<0, 0>>>>, <<0, 0, FALSE, FALSE, <<0, 0>>>>,
    <<1, 0, FALSE, FALSE, <<0, 0>>>>, <<2, 1, FALSE, FALSE, <<0, 0>>>>,
    <<3, 2, TRUE, FALSE, <<1, 0>>>>, <<3, 2, FALSE, FALSE, <<2, 1>>>>,
    <<4, 3, FALSE, FALSE, <<24, 0>>>>, <<6, 4, FALSE, FALSE, <<24, 0>>>>,
    <<0, 5, FALSE, FALSE, <<0, 0>>>>, <<7, 0, FALSE, FALSE, <<5, 0>>>>,
    <<8, 7, FALSE, FALSE, <<24, 9>>>>, <<9, 8, FALSE, TRUE, <<0, 0>>>>,
    <<10, 9, FALSE, FALSE, <<26, 0>>>>, <<10, 9, FALSE, FALSE, <<0, 0>>>>,
    <<11, 10, FALSE, FALSE, <<0, 0>>>>, <<12, 11, FALSE, FALSE, <<0, 0>>>>,
    <<13, 12, FALSE, FALSE, <<6, 0>>>>, <<13, 0, FALSE, FALSE, <<26, 3>>>>,
    <<14, 13, FALSE, TRUE, <<7, 0>>>>, <<15, 14, FALSE, FALSE, <<0, 0>>>>,
    <<0, 15, FALSE, FALSE, <<0, 0>>>>, <<16, 0, FALSE, FALSE, <<27, 1>>>>,
    <<17, 16, FALSE, FALSE, <<27, 3>>>>, <<18, 17, FALSE, FALSE, <<0, 0>>>>>>

-----------------------------------------------------------------------------

\* Every edge of the model shows what the recorded simulation of the RTL
\* showed at that edge.
MatchesWaveform ==
    LET recorded == IF imem = Basic THEN BasicWaveform ELSE EdgecasesWaveform
        c == stats.cycles
    IN  c \in DOMAIN recorded => Observed = recorded[c]

\* What the test benches assert of registers and counters once the program
\* has run (tb_core_basic.v:66, tb_core_edgecases.v:72).
MeetsTestbench ==
    stats.cycles >= 40 =>
        IF imem = Basic THEN regs[3] = 12 /\ regs[4] = 4 /\ regs[6] = 12
        ELSE /\ regs[24] = 9 /\ regs[26] = 3 /\ regs[27] = 3
             /\ stats.auto = 1 /\ stats.nop = 1 /\ stats.manual = 1

\* The benches stop the clock; here it stops before the counters wrap.
Powered == stats.cycles < CountMod - 1
BenchSpec == Init /\ [][Powered /\ Clock]_vars
=============================================================================
