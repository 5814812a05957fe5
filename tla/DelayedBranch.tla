--------------------------- MODULE DelayedBranch ---------------------------
(***************************************************************************)
(* The architecture the core promises its programmer: instructions execute *)
(* one at a time, and a taken branch takes effect after the next Shadow    *)
(* instructions.  `window' holds the addresses of the next Shadow + 1      *)
(* instructions: those are settled, whatever the first of them does.       *)
(***************************************************************************)
EXTENDS Isa

CONSTANTS
    Programs,
    Shadow      \* number of delay slots after a branch

VARIABLES imem, window, regs, dmem

vars == <<imem, window, regs, dmem>>

Registers == [r \in Reg |-> 0]
Ram == [a \in DataAddr |-> 0]
Sequential == [k \in 1 .. Shadow + 1 |-> k - 1]

Start == window = Sequential /\ regs = Registers /\ dmem = Ram

Init == imem \in Programs /\ Start

Step ==
    LET pc == window[1]
        i == imem[pc]
        a == regs[i.rs]
        b == regs[i.rt]
        addr == data_index(alu_result(i, a, b))
        next == IF branch_taken(i, a, b) THEN branch_target(i, PcInc(pc))
                ELSE PcInc(window[Shadow + 1])
        result == IF mem_read(i) THEN dmem[addr] ELSE alu_result(i, a, b)
    IN  /\ window' = [k \in 1 .. Shadow + 1 |-> IF k <= Shadow THEN window[k + 1] ELSE next]
        /\ regs' = IF reg_write(i) /\ dest_reg(i) # 0
                   THEN [regs EXCEPT ![dest_reg(i)] = result] ELSE regs
        /\ dmem' = IF mem_write(i) THEN [dmem EXCEPT ![addr] = b] ELSE dmem

Restart == window' = Sequential /\ regs' = Registers /\ dmem' = Ram

Next == imem' = imem /\ (Step \/ Restart)

Spec == Init /\ [][Next]_vars
=============================================================================
