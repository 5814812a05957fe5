----------------------------- MODULE MCIfStage -----------------------------
(***************************************************************************)
(* if_stage.v on a memory of four words, all different, so that a word     *)
(* delivered out of order, twice or under a wrong address shows.           *)
(***************************************************************************)
EXTENDS IfStage

MCInstr == 10 .. 13 \cup {INST_NOP}
MCPrograms == {[p \in Pc |-> 10 + p]}
=============================================================================
