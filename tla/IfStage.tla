------------------------------ MODULE IfStage ------------------------------
(***************************************************************************)
(* rtl/if_stage.v: the program counter and the two-entry look-ahead buffer *)
(* the delay-slot scheduler peeks at.  An open component: its control      *)
(* inputs are the variable `pins', which the environment chooses afresh    *)
(* for every clock edge within PinsOK.  CpuPipeline substitutes its wires  *)
(* for `pins' and so has to show that it keeps to PinsOK.                  *)
(*                                                                         *)
(* An address counts 32-bit words, so `+ 32'd4' is PcInc, and it wraps as  *)
(* the 32-bit adder does.  The slots keep the stale instruction and        *)
(* address of an entry that has been invalidated, as the registers do.     *)
(***************************************************************************)
EXTENDS Integers

CONSTANTS
    MaxPc,      \* the word addresses are 0 .. MaxPc
    Instr,      \* instruction words
    INST_NOP,   \* the all-zero instruction word
    Programs    \* contents of instruction memory to consider

ASSUME MaxPcAssumption == MaxPc \in Nat
ASSUME ProgramAssumption == INST_NOP \in Instr /\ Programs \subseteq [0..MaxPc -> Instr]

VARIABLES
    imem,       \* instruction_memory.v: asynchronous ROM
    fetch_pc,   \* address on imem_addr
    slot0,      \* next instruction of the stream (cand0)
    slot1,      \* the one after it (cand1)
    if_reg,     \* the IF/ID register: if_pc, if_pc_plus4, if_instr
    pins        \* stall, flush, branch_redirect, branch_target, kill_cand1

vars == <<imem, fetch_pc, slot0, slot1, if_reg, pins>>

Pc == 0 .. MaxPc
Slot == [valid : BOOLEAN, pc : Pc, instr : Instr]
IfReg == [pc : Pc, pc4 : Pc, instr : Instr]
Pins == [stall : BOOLEAN, flush : BOOLEAN, redirect : BOOLEAN,
         target : Pc, kill : BOOLEAN]

PcIncUnwrapped(p) == p + 1
PcInc(p) == IF p = MaxPc THEN 0 ELSE p + 1

Bubble == [pc |-> 0, pc4 |-> 0, instr |-> INST_NOP]
Drop(slot) == [slot EXCEPT !.valid = FALSE]

(***************************************************************************)
(* What cpu_pipeline.v drives: it flushes only while it stalls, and kills  *)
(* cand1 only when cand1 is there and the buffer is about to advance.      *)
(***************************************************************************)
PinsOK ==
    /\ pins.flush => pins.stall
    /\ pins.kill => slot1.valid /\ ~pins.stall

Empty == [valid |-> FALSE, pc |-> 0, instr |-> INST_NOP]

ResetState ==
    /\ fetch_pc = 0
    /\ slot0 = Empty /\ slot1 = Empty
    /\ if_reg = Bubble

Init ==
    /\ imem \in Programs
    /\ ResetState
    /\ pins \in Pins /\ PinsOK

-----------------------------------------------------------------------------
(* The combinational next state.                                           *)
(* Here and in the other modules, a definition that stands right before    *)
(* the one it resembles is that one with a fault in it, kept to show that  *)
(* the properties would notice the fault; nothing else refers to it.       *)

\* The word the ROM answers with.  It is addressed by the fetch_pc register.
FetchedAhead == [valid |-> TRUE, pc |-> PcInc(fetch_pc), instr |-> imem[fetch_pc]]
Fetched == [valid |-> TRUE, pc |-> fetch_pc, instr |-> imem[fetch_pc]]

Cand1Kept == slot1
Cand1 == IF pins.kill THEN Drop(slot1) ELSE slot1

RefillBeforeRedirect(s0, s1) ==
    LET fill0 == ~s0.valid
        fill1 == s0.valid /\ ~s1.valid
    IN  /\ fetch_pc' = IF pins.redirect THEN pins.target
                       ELSE IF fill0 \/ fill1 THEN PcInc(fetch_pc) ELSE fetch_pc
        /\ slot0' = IF fill0 THEN Fetched ELSE s0
        /\ slot1' = IF fill1 THEN Fetched ELSE s1

RefillUnlessStalled(s0, s1) ==
    LET fill0 == ~pins.stall /\ ~s0.valid
        fill1 == ~pins.stall /\ s0.valid /\ ~s1.valid
    IN  /\ fetch_pc' = IF pins.redirect THEN pins.target
                       ELSE IF fill0 \/ fill1 THEN PcInc(fetch_pc) ELSE fetch_pc
        /\ slot0' = IF pins.redirect THEN Drop(s0) ELSE IF fill0 THEN Fetched ELSE s0
        /\ slot1' = IF pins.redirect THEN Drop(s1) ELSE IF fill1 THEN Fetched ELSE s1

(***************************************************************************)
(* s0 and s1 are the slots once the buffer has advanced or held.  A        *)
(* redirect empties both and fetches nothing; otherwise the first hole is  *)
(* filled, one word per cycle.                                             *)
(***************************************************************************)
Refill(s0, s1) ==
    \/ /\ pins.redirect
       /\ fetch_pc' = pins.target
       /\ slot0' = Drop(s0) /\ slot1' = Drop(s1)
    \/ /\ ~pins.redirect /\ ~s0.valid
       /\ fetch_pc' = PcInc(fetch_pc)
       /\ slot0' = Fetched /\ slot1' = s1
    \/ /\ ~pins.redirect /\ s0.valid /\ ~s1.valid
       /\ fetch_pc' = PcInc(fetch_pc)
       /\ slot0' = s0 /\ slot1' = Fetched
    \/ /\ ~pins.redirect /\ s0.valid /\ s1.valid
       /\ fetch_pc' = fetch_pc
       /\ slot0' = s0 /\ slot1' = s1

-----------------------------------------------------------------------------
(* One clock edge.  The four ways IF/ID is loaded exclude each other; the  *)
(* buffer advances only when slot0's register, not its next value, is      *)
(* valid, so a redirect does not stop the hand-over of the same cycle.     *)

Deliver ==
    /\ ~pins.flush /\ ~pins.stall /\ slot0.valid
    /\ if_reg' = [pc |-> slot0.pc, pc4 |-> PcInc(slot0.pc), instr |-> slot0.instr]
    /\ Refill(Cand1, Drop(slot1))

Starve ==
    /\ ~pins.flush /\ ~pins.stall /\ ~slot0.valid
    /\ if_reg' = Bubble
    /\ Refill(slot0, Cand1)

Hold ==
    /\ ~pins.flush /\ pins.stall
    /\ if_reg' = if_reg
    /\ Refill(slot0, Cand1)

Squash ==
    /\ pins.flush
    /\ if_reg' = Bubble
    /\ Refill(slot0, Cand1)

Edge == Deliver \/ Starve \/ Hold \/ Squash

Reset ==
    /\ fetch_pc' = 0
    /\ slot0' = Empty /\ slot1' = Empty
    /\ if_reg' = Bubble

Next ==
    /\ imem' = imem
    /\ Edge \/ Reset
    /\ pins' \in Pins /\ PinsOK'

Spec == Init /\ [][Next]_vars

-----------------------------------------------------------------------------
(* Correctness.                                                            *)

\* Every register of if_stage.v holds a value of its width.
TypeOK ==
    /\ imem \in [Pc -> Instr]
    /\ fetch_pc \in Pc
    /\ slot0 \in Slot /\ slot1 \in Slot
    /\ if_reg \in IfReg
    /\ pins \in Pins

\* The candidates the scheduler sees carry the instruction that memory holds
\* at the address they claim, however kills, redirects and stalls fell.
Coherent ==
    /\ slot0.valid => slot0.instr = imem[slot0.pc]
    /\ slot1.valid => slot1.instr = imem[slot1.pc]

\* cand1 never outlives cand0, and cand0, cand1 and the word being fetched
\* are neighbours: a kill or a redirect leaves neither a gap nor a repeat.
Contiguous ==
    /\ slot1.valid => /\ slot0.valid
                      /\ slot1.pc = PcInc(slot0.pc)
                      /\ fetch_pc = PcInc(slot1.pc)
    /\ slot0.valid /\ ~slot1.valid => fetch_pc = PcInc(slot0.pc)

\* After any clock edge that did not redirect (or reset), cand0 is there: the
\* stream starves for one cycle after a redirect and never for two.
StarvesOnlyOnRedirect ==
    [][pins.redirect \/ ResetState' \/ slot0'.valid]_vars

\* The address the stream owes next, as the buffer stores it.
Head == IF slot0.valid THEN slot0.pc ELSE fetch_pc

\* The buffer is invisible: what reaches IF/ID is the sequential stream of
\* FetchStream, each instruction once and in order, less the killed ones.
Stream == INSTANCE FetchStream WITH head <- Head
ImplementsStream == Stream!Spec
=============================================================================
