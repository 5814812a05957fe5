--------------------------- MODULE IfStage_proofs ---------------------------
(***************************************************************************)
(* Proofs about if_stage.v for every memory size, instruction set and      *)
(* program.  The inductive invariant Inv relates the two slots, fetch_pc   *)
(* and the ROM; PinsOK is part of it because a kill without an advance     *)
(* would break it.                                                         *)
(***************************************************************************)
EXTENDS IfStage, TLAPS

\* Coherent and Contiguous of slots that are not stored yet.
Chain(s0, s1) ==
    /\ s0.valid => s0.instr = imem[s0.pc]
    /\ s1.valid => s1.instr = imem[s1.pc]
    /\ s1.valid => /\ s0.valid
                   /\ s1.pc = PcInc(s0.pc)
                   /\ fetch_pc = PcInc(s1.pc)
    /\ s0.valid /\ ~s1.valid => fetch_pc = PcInc(s0.pc)

Inv == TypeOK /\ Coherent /\ Contiguous /\ PinsOK

\* The 32-bit adder of the program counter stays in its width.
LEMMA PcIncType == \A p \in Pc : PcInc(p) \in Pc
BY MaxPcAssumption DEF Pc, PcInc

\* Dropping a slot keeps what it holds and clears its valid bit.
LEMMA DropFacts ==
    \A s \in Slot : /\ Drop(s) \in Slot
                    /\ ~Drop(s).valid
                    /\ Drop(s).pc = s.pc
BY DEF Slot, Drop

\* Registers after reset, and the bubble, have their widths.
LEMMA ConstantTypes == Empty \in Slot /\ ~Empty.valid /\ Bubble \in IfReg /\ 0 \in Pc
BY MaxPcAssumption, ProgramAssumption DEF Empty, Bubble, Slot, IfReg, Pc

\* Refilling slots that are in a chain leaves slots that are in a chain.
LEMMA RefillKeepsChain ==
    ASSUME TypeOK, imem' = imem,
           NEW s0 \in Slot, NEW s1 \in Slot,
           Chain(s0, s1), Refill(s0, s1)
    PROVE  /\ fetch_pc' \in Pc /\ slot0' \in Slot /\ slot1' \in Slot
           /\ Chain(slot0, slot1)'
           /\ ~pins.redirect => slot0'.valid
<1> USE PcIncType, DropFacts
<1>1. CASE pins.redirect
  <2>1. pins.target \in Pc
    BY DEF TypeOK, Pins
  <2> QED  BY <1>1, <2>1 DEF Refill, Chain
<1>2. CASE ~pins.redirect
  <2>1. Fetched \in Slot /\ Fetched.valid /\ Fetched.pc = fetch_pc
           /\ Fetched.instr = imem[fetch_pc]
    BY DEF Fetched, TypeOK, Slot
  <2>2. fetch_pc \in Pc /\ s0.pc \in Pc /\ s1.pc \in Pc
           /\ s0.valid \in BOOLEAN /\ s1.valid \in BOOLEAN
    BY DEF TypeOK, Slot
  <2>3. CASE ~s0.valid
    BY <1>2, <2>1, <2>2, <2>3 DEF Refill, Chain
  <2>4. CASE s0.valid /\ ~s1.valid
    BY <1>2, <2>1, <2>2, <2>4 DEF Refill, Chain
  <2>5. CASE s0.valid /\ s1.valid
    BY <1>2, <2>2, <2>5 DEF Refill, Chain
  <2> QED  BY <2>2, <2>3, <2>4, <2>5
<1> QED  BY <1>1, <1>2

\* After the buffer advances, kill or no kill, the slots are in a chain.
LEMMA AdvanceKeepsChain ==
    ASSUME Inv
    PROVE  Cand1 \in Slot /\ Drop(slot1) \in Slot /\ Chain(Cand1, Drop(slot1))
<1>1. slot1 \in Slot
  BY DEF Inv, TypeOK
<1>2. Drop(slot1) \in Slot /\ ~Drop(slot1).valid
  BY <1>1, DropFacts
<1>3. Cand1 = slot1 \/ Cand1 = Drop(slot1)
  BY DEF Cand1
<1> QED  BY <1>1, <1>2, <1>3 DEF Chain, Inv, Coherent, Contiguous

\* While the buffer holds nothing is killed, so its slots stay in a chain.
LEMMA HoldKeepsChain ==
    ASSUME Inv, pins.stall \/ pins.flush \/ ~slot0.valid
    PROVE  Cand1 = slot1 /\ slot0 \in Slot /\ slot1 \in Slot /\ Chain(slot0, slot1)
<1>1. ~pins.kill
  BY DEF Inv, PinsOK, Contiguous
<1> QED  BY <1>1 DEF Cand1, Chain, Inv, TypeOK, Coherent, Contiguous

\* The initial states satisfy the invariant.
LEMMA InitInv == Init => Inv
BY ConstantTypes, ProgramAssumption
   DEF Init, ResetState, Inv, TypeOK, Coherent, Contiguous, Pc

\* A clock edge, reset included, leaves slots that are in a chain.  Nothing is
\* said of the next inputs, which a composition has to show legal by itself.
LEMMA EdgeKeepsChain ==
    ASSUME Inv, imem' = imem, Edge \/ Reset
    PROVE  /\ fetch_pc' \in Pc /\ slot0' \in Slot /\ slot1' \in Slot
           /\ Chain(slot0, slot1)'
           /\ if_reg' \in IfReg
<1>1. TypeOK
  BY DEF Inv
<1>2. CASE Deliver
  <2>1. if_reg' \in IfReg
    BY <1>1, <1>2, PcIncType DEF Deliver, TypeOK, Slot, IfReg
  <2>2. Refill(Cand1, Drop(slot1))
    BY <1>2 DEF Deliver
  <2> QED  BY <1>1, <2>1, <2>2, AdvanceKeepsChain, RefillKeepsChain
<1>3. CASE Starve
  <2>1. if_reg' \in IfReg /\ Refill(slot0, slot1)
    BY <1>3, ConstantTypes, HoldKeepsChain DEF Starve
  <2> QED  BY <1>1, <1>3, <2>1, HoldKeepsChain, RefillKeepsChain DEF Starve
<1>4. CASE Hold
  <2>1. if_reg' \in IfReg /\ Refill(slot0, slot1)
    BY <1>1, <1>4, HoldKeepsChain DEF Hold, TypeOK
  <2> QED  BY <1>1, <1>4, <2>1, HoldKeepsChain, RefillKeepsChain DEF Hold
<1>5. CASE Squash
  <2>1. if_reg' \in IfReg /\ Refill(slot0, slot1)
    BY <1>5, ConstantTypes, HoldKeepsChain DEF Squash
  <2> QED  BY <1>1, <1>5, <2>1, HoldKeepsChain, RefillKeepsChain DEF Squash
<1>6. CASE Reset
  BY <1>6, ConstantTypes DEF Reset, Chain
<1> QED  BY <1>2, <1>3, <1>4, <1>5, <1>6 DEF Edge

\* Every clock edge, reset included, keeps the invariant.
LEMMA NextInv == Inv /\ [Next]_vars => Inv'
<1> SUFFICES ASSUME Inv, [Next]_vars PROVE Inv'
  OBVIOUS
<1>1. CASE UNCHANGED vars
  BY <1>1 DEF vars, Inv, TypeOK, Coherent, Contiguous, PinsOK
<1>2. CASE Next
  <2>1. imem' = imem /\ imem \in [Pc -> Instr] /\ pins' \in Pins /\ PinsOK'
    BY <1>2 DEF Next, Inv, TypeOK
  <2>2. /\ fetch_pc' \in Pc /\ slot0' \in Slot /\ slot1' \in Slot
        /\ Chain(slot0, slot1)'
        /\ if_reg' \in IfReg
    BY <1>2, <2>1, EdgeKeepsChain DEF Next
  <2> QED  BY <2>1, <2>2 DEF Inv, TypeOK, Coherent, Contiguous, Chain
<1> QED  BY <1>1, <1>2

\* The invariant holds in every reachable state.
THEOREM Invariance == Spec => []Inv
BY InitInv, NextInv, PTL DEF Spec

\* if_stage.v's registers always hold values of their widths.
THEOREM TypeCorrect == Spec => []TypeOK
<1>1. Inv => TypeOK
  BY DEF Inv
<1> QED  BY <1>1, Invariance, PTL

\* A valid candidate is the word that memory holds at its address.
THEOREM CandidatesCoherent == Spec => []Coherent
<1>1. Inv => Coherent
  BY DEF Inv
<1> QED  BY <1>1, Invariance, PTL

\* The buffered addresses and the fetch address are consecutive.
THEOREM BufferContiguous == Spec => []Contiguous
<1>1. Inv => Contiguous
  BY DEF Inv
<1> QED  BY <1>1, Invariance, PTL

\* The next address owed after the buffer advanced to s0, s1 and refilled.
LEMMA HeadAfterRefill ==
    ASSUME TypeOK, NEW s0 \in Slot, NEW s1 \in Slot, Refill(s0, s1)
    PROVE  Head' = IF pins.redirect THEN pins.target
                   ELSE IF s0.valid THEN s0.pc ELSE fetch_pc
<1>1. Fetched.valid /\ Fetched.pc = fetch_pc
  BY DEF Fetched
<1> QED  BY <1>1, DropFacts DEF Refill, Head, Slot

\* What is left at the head of the buffer when it advances, kill or no kill.
LEMMA HeadAfterAdvance ==
    ASSUME Inv, slot0.valid
    PROVE  (IF Cand1.valid THEN Cand1.pc ELSE fetch_pc)
             = IF pins.kill THEN PcInc(PcInc(slot0.pc)) ELSE PcInc(slot0.pc)
<1>1. CASE pins.kill
  <2>1. slot1.valid /\ ~Cand1.valid
    BY <1>1, DropFacts DEF Inv, PinsOK, TypeOK, Cand1
  <2> QED  BY <1>1, <2>1 DEF Inv, Contiguous
<1>2. CASE ~pins.kill
  BY <1>2 DEF Cand1, Inv, Contiguous
<1> QED  BY <1>1, <1>2

\* What one clock edge does, in terms of the stream: the word at Head is handed
\* over unless IF is stalled, flushed or starved, Head moves past it and past a
\* killed one, and without a redirect the buffer is never left empty, nor with
\* one entry only if it could have been filled up.
LEMMA EdgeFacts ==
    ASSUME Inv, imem' = imem, Edge
    PROVE  /\ if_reg' = IF pins.flush \/ (~pins.stall /\ ~slot0.valid) THEN Bubble
                        ELSE IF pins.stall THEN if_reg
                        ELSE [pc |-> Head, pc4 |-> PcInc(Head), instr |-> imem[Head]]
           /\ Head' = IF pins.redirect THEN pins.target
                      ELSE IF pins.stall \/ ~slot0.valid THEN Head
                      ELSE IF pins.kill THEN PcInc(PcInc(Head)) ELSE PcInc(Head)
           /\ ~pins.redirect => /\ slot0'.valid
                                /\ pins.stall /\ slot0.valid => slot1'.valid
<1>1. TypeOK /\ (pins.flush => pins.stall)
  BY DEF Inv, PinsOK
<1>2. CASE Deliver
  <2>1. Refill(Cand1, Drop(slot1)) /\ slot0.valid /\ ~pins.flush /\ ~pins.stall
    BY <1>2 DEF Deliver
  <2>2. Cand1 \in Slot /\ Drop(slot1) \in Slot /\ Chain(Cand1, Drop(slot1))
    BY AdvanceKeepsChain
  <2>3. Head' = IF pins.redirect THEN pins.target
                ELSE IF Cand1.valid THEN Cand1.pc ELSE fetch_pc
    BY <1>1, <2>1, <2>2, HeadAfterRefill
  <2>4. Head = slot0.pc
    BY <2>1 DEF Head
  <2>5. if_reg' = [pc |-> Head, pc4 |-> PcInc(Head), instr |-> imem[Head]]
    BY <1>2, <2>1, <2>4 DEF Deliver, Inv, Coherent
  <2>6. ~pins.redirect => slot0'.valid
    BY <1>1, <2>1, <2>2, RefillKeepsChain
  <2> QED  BY <2>1, <2>3, <2>4, <2>5, <2>6, HeadAfterAdvance
<1>3. CASE Starve \/ Hold \/ Squash
  <2>1. Refill(slot0, slot1) /\ slot0 \in Slot /\ slot1 \in Slot /\ Chain(slot0, slot1)
    BY <1>3, HoldKeepsChain DEF Starve, Hold, Squash
  <2>2. Head' = IF pins.redirect THEN pins.target ELSE Head
    BY <1>1, <2>1, HeadAfterRefill DEF Head
  <2>3. ~pins.redirect => slot0'.valid
    BY <1>1, <2>1, RefillKeepsChain
  <2>4. ~pins.redirect /\ slot0.valid => slot1'.valid
    BY <2>1 DEF Refill, Fetched
  <2> QED  BY <1>1, <1>3, <2>2, <2>3, <2>4 DEF Starve, Hold, Squash
<1> QED  BY <1>2, <1>3 DEF Edge

\* A clock edge that does not redirect leaves cand0 valid.
THEOREM StarvationBounded == Spec => StarvesOnlyOnRedirect
<1>1. Inv /\ [Next]_vars => [pins.redirect \/ ResetState' \/ slot0'.valid]_vars
  <2> SUFFICES ASSUME Inv, Next, ~ResetState' PROVE pins.redirect \/ slot0'.valid
    BY DEF vars
  <2>1. imem' = imem /\ Edge
    BY DEF Next, Reset, ResetState
  <2> QED  BY <2>1, EdgeFacts
<1> QED  BY <1>1, Invariance, PTL DEF Spec, StarvesOnlyOnRedirect

\* The buffer implements the sequential stream: each edge of if_stage.v is a
\* step of FetchStream, so a redirect, a stall and a kill in any order can
\* neither repeat, reorder nor lose an instruction that was not killed.
THEOREM StreamImplemented == Spec => ImplementsStream
<1> USE DEF Stream!PcInc, PcInc, Stream!Bubble, Bubble
<1>1. Init => Stream!Init
  BY DEF Init, ResetState, Empty, Head, Stream!Init, Stream!Start
<1>2. Inv /\ [Next]_vars => [Stream!Next]_Stream!vars
  <2> SUFFICES ASSUME Inv, Next PROVE Stream!Next
    BY DEF vars, Stream!vars, Head
  <2>1. imem' = imem
    BY DEF Next
  <2>2. CASE Edge
    <3>1. (pins.flush => pins.stall) /\ (pins.kill => slot0.valid /\ ~pins.stall)
      BY DEF Inv, PinsOK, Contiguous
    <3> QED  BY <2>1, <2>2, <3>1, EdgeFacts
             DEF Stream!Next, Stream!Deliver, Stream!Starve, Stream!Hold, Stream!Squash,
                 Stream!Continue, Stream!Entry
  <2>3. CASE Reset
    BY <2>1, <2>3 DEF Reset, Empty, Head, Stream!Next, Stream!Restart
  <2> QED  BY <2>2, <2>3 DEF Next
<1> QED  BY <1>1, <1>2, Invariance, PTL DEF Spec, ImplementsStream, Stream!Spec
=============================================================================
