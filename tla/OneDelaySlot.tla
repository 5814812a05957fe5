---------------------------- MODULE OneDelaySlot ----------------------------
(***************************************************************************)
(* The order in which a machine with one delay slot executes a program:    *)
(* the address of the instruction being executed, and of the next one,     *)
(* which a control instruction does not change.                            *)
(***************************************************************************)
EXTENDS Instruction

VARIABLES program, pc, npc

\* Where execution may go on once the instruction at npc is done.  A control
\* instruction without a target falls through.
After(i) ==
    IF ~isControl(i) \/ i.target_index = 0 THEN {npc + 1}
    ELSE {i.target_index} \cup (IF isJump(i) THEN {} ELSE {npc + 1})

Execute ==
    /\ ~isControl(program[pc]) \/ npc \in DOMAIN program
    /\ pc' = npc
    /\ npc' \in After(program[pc])

\* The program ends with a control instruction, whose slot is left out.
ExecuteWithoutSlot ==
    /\ isControl(program[pc]) /\ npc \notin DOMAIN program
    /\ pc' \in After(program[pc])
    /\ npc' = pc' + 1

Next == pc \in DOMAIN program /\ (Execute \/ ExecuteWithoutSlot) /\ UNCHANGED program
=============================================================================
