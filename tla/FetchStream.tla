---------------------------- MODULE FetchStream ----------------------------
(***************************************************************************)
(* What the rest of the core may rely on from the fetch unit: one          *)
(* sequential stream of instructions.  `head' is the address of the next   *)
(* instruction the stream owes to ID.  Nothing is said of buffers.         *)
(***************************************************************************)
EXTENDS Integers

CONSTANTS
    MaxPc,      \* the word addresses are 0 .. MaxPc
    INST_NOP    \* what IF/ID holds when it holds no instruction

VARIABLES
    imem,       \* the program: a function of the addresses
    head,       \* address of the next instruction owed
    if_reg,     \* the IF/ID register
    pins        \* the control inputs the next clock edge samples

vars == <<imem, head, if_reg, pins>>

PcInc(p) == IF p = MaxPc THEN 0 ELSE p + 1

Bubble == [pc |-> 0, pc4 |-> 0, instr |-> INST_NOP]
Entry(p) == [pc |-> p, pc4 |-> PcInc(p), instr |-> imem[p]]

Start == head = 0 /\ if_reg = Bubble

Init == Start

(***************************************************************************)
(* A redirect replaces the stream whatever happens to the instruction that *)
(* is handed over in the same cycle; kill drops the instruction after it.  *)
(***************************************************************************)
Continue(next) == head' = IF pins.redirect THEN pins.target ELSE next

Deliver ==
    /\ ~pins.stall /\ ~pins.flush
    /\ if_reg' = Entry(head)
    /\ Continue(IF pins.kill THEN PcInc(PcInc(head)) ELSE PcInc(head))

\* Nothing is ready: only a bubble is handed over and nothing may be killed.
Starve ==
    /\ ~pins.stall /\ ~pins.flush /\ ~pins.kill
    /\ if_reg' = Bubble
    /\ Continue(head)

Hold ==
    /\ pins.stall /\ ~pins.flush
    /\ if_reg' = if_reg
    /\ Continue(head)

Squash ==
    /\ pins.flush
    /\ if_reg' = Bubble
    /\ Continue(head)

Restart == head' = 0 /\ if_reg' = Bubble

Next ==
    /\ imem' = imem
    /\ Deliver \/ Starve \/ Hold \/ Squash \/ Restart

Spec == Init /\ [][Next]_vars
=============================================================================
