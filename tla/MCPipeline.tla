----------------------------- MODULE MCPipeline -----------------------------
(***************************************************************************)
(* The core on every program of four words from an alphabet, followed by a *)
(* jump to itself with two nops behind it.  Branches go forward, backward  *)
(* and into each other's slots.                                            *)
(***************************************************************************)
EXTENDS CpuPipeline, Asm

\* A nop, a self-increment, dependent arithmetic, memory both ways, branches
\* that are sometimes taken, forward and backward, and a jump.
Words ==
    {Nop, ADDI(1, 1, 1), R("sub", 2, 1, 0), SW(1, 0, 0), LW(1, 0, 0),
     BEQ(1, 2, 1), BNE(1, 0, -2), J(0)}

AllPrograms ==
    {Load(<<a, b, c, d, J(4), Nop, Nop>>, MaxPc) : a, b, c, d \in Words}
=============================================================================
