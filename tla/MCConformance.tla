--------------------------- MODULE MCConformance ---------------------------
(***************************************************************************)
(* Two families of small programs.  AllPrograms of MCPipeline puts any     *)
(* word anywhere; SpacedPrograms keeps control instructions two words      *)
(* apart.  Each ends in a jump to itself with two nops behind it.          *)
(***************************************************************************)
EXTENDS CpuConformance, MCPipeline

Control == {"beq", "bne", "j"}
SpacedPrograms ==
    {p \in {Load(<<a, b, c, d, Nop, J(5), Nop, Nop>>, MaxPc) :
                a, b, c \in Words, d \in {w \in Words : w.op \notin Control}} :
        \A k \in 0 .. 2 : p[k].op \in Control =>
            p[k + 1].op \notin Control /\ p[k + 2].op \notin Control}

MCPrograms == AllPrograms \cup SpacedPrograms
=============================================================================
