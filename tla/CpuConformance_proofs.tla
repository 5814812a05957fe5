------------------------ MODULE CpuConformance_proofs ------------------------
(***************************************************************************)
(* Proofs that the core, for every machine size and program, executes the  *)
(* two-slot architecture until it first meets one of the situations        *)
(* CpuConformance names, and that programs which keep the rules meet few   *)
(* of them.                                                                *)
(*                                                                         *)
(* The inductive invariant ConfInv adds to CInv what ties the pipeline to  *)
(* the history variables: which word ID/EX holds, what a held EX repeats,  *)
(* where the instructions behind a branch are, and that the operands EX    *)
(* sees are the architecture's.                                            *)
(***************************************************************************)
EXTENDS CpuConformance, CpuPipeline_proofs, SequenceTheorems

\* IF/ID holds the program's word at its address, or the bubble.
FetchedWord ==
    if_reg.instr = IF IsBubble(if_reg) THEN NOP ELSE imem[if_reg.pc]

\* Register 0 is zero wherever it is kept.
ZeroRegister ==
    /\ regs[0] = 0
    /\ id_ex.instr.rs = 0 => id_ex.rs_val = 0
    /\ id_ex.instr.rt = 0 => id_ex.rt_val = 0

\* A fresh ID/EX holds the program's word at its address.
FreshWord == fresh => id_ex.instr = imem[id_ex.pc] /\ id_ex.pc4 = PcInc(id_ex.pc)

\* An ID/EX that is not fresh does nothing, or what is in MEM has done before.
HeldWord ==
    fresh \/ id_ex.instr = NOP
          \/ /\ ex_mem.dest = dest_reg(id_ex.instr)
             /\ ex_mem.reg_write = reg_write(id_ex.instr)
             /\ ex_mem.mem_read = mem_read(id_ex.instr)
             /\ ex_mem.mem_write = mem_write(id_ex.instr)

\* Behind a branch in EX come its first slot in IF/ID and more in the buffer.
BranchFed ==
    branch_event_valid =>
        fresh /\ slot0.valid /\ ~IsBubble(if_reg) /\ ~slot_cycle_pending

\* The operands in EX are those of the architecture.
OperandsInEx ==
    fresh => LET i == id_ex.instr
             IN  /\ i.rs \in Sources(i) => ex_rs_val = ArchRegs[i.rs]
                 /\ i.rt \in Sources(i) => ex_rt_val = ArchRegs[i.rt]

\* With spaced control instructions, one in ID has its first slot in cand0 ...
SpacedInId ==
    is_control(if_reg.instr) /\ ~slot_consumes_pc4 =>
        slot0.valid /\ Fetch!Head = PcInc(if_reg.pc)

\* ... and one in EX has its first slot in IF/ID and its second to come.
SpacedInEx ==
    branch_event_valid =>
        /\ ~IsBubble(if_reg) /\ if_reg.pc = PcInc(id_ex.pc)
        /\ id_ex.instr = imem[id_ex.pc] /\ ~slot_cycle_pending
        /\ id_ex.slot.mode = "auto" \/ Fetch!Head = PcInc(PcInc(id_ex.pc))

\* With filled slots nothing is promoted, forced or held.
AllManual ==
    /\ id_ex.slot.mode = "manual" /\ slot_ex.mode = "manual"
    /\ fresh \/ id_ex.instr = NOP

WordInv == CInv /\ FetchedWord /\ ZeroRegister /\ FreshWord /\ HeldWord

SpacedInv ==
    /\ ShadowFree => SpacedInId /\ SpacedInEx
    /\ ShadowFree /\ SlotsFilled => AllManual

ConfInv ==
    /\ WordInv /\ SpacedInv
    /\ faithful => BranchFed /\ OperandsInEx

ClockStep == Clock /\ HistoryClock
ResetStep == Reset /\ HistoryReset

-----------------------------------------------------------------------------
(* Wires.                                                                  *)

\* The decoder and the scheduler agree on what a control instruction is, and
\* on what the all-zero word is not.
LEMMA ControlFacts ==
    /\ \A i : is_branch_or_jump(i) <=> is_control(i)
    /\ \A i : is_branch_or_jump(i) => ~mem_read(i)
    /\ ~is_branch_or_jump(NOP) /\ ~reg_write(NOP) /\ ~mem_read(NOP) /\ ~mem_write(NOP)
    /\ Sources(NOP) = {} /\ NOP.rs = 0 /\ NOP.rt = 0
BY DEF is_branch_or_jump, branch_type, Branches, is_control, mem_read, NOP, reg_write,
       mem_write, Arithmetic, Sources

\* The empty IF/ID register is told from an entry by its pc4.
LEMMA BubbleFacts ==
    /\ IsBubble(Fetch!Bubble) /\ Fetch!Bubble.instr = NOP
    /\ \A p, i : ~IsBubble([pc |-> p, pc4 |-> PcInc(p), instr |-> i])
<1>1. PcInc(0) # 0
  BY WindowAssumption, SizeAssumption DEF PcInc, PcAdd, Wrap
<1> QED  BY <1>1 DEF IsBubble, Fetch!Bubble

\* What an edge does apart from the ways ID/EX is loaded.
LEMMA EdgeParts ==
    ASSUME Clock
    PROVE  /\ imem' = imem /\ Fetch!Edge
           /\ SlotControl /\ Execute /\ DataMemory /\ Memory /\ WriteBack
BY DEF Clock, Wait, LoadUseBubble, Issue, RestOfCore

-----------------------------------------------------------------------------
(* Words: what the pipeline registers hold, whatever the program.          *)

\* The next contents of ID/EX, one way of loading it at a time.
LEMMA IdExStep ==
    ASSUME Clock
    PROVE  /\ scheduler_wait => id_ex' = id_ex
           /\ ~scheduler_wait /\ load_use_hazard => id_ex' = IdExBubble
           /\ ~scheduler_wait /\ ~load_use_hazard =>
                /\ id_ex'.pc = id_in.pc /\ id_ex'.pc4 = id_in.pc4
                /\ id_ex'.instr = id_in.instr /\ id_ex'.slot = slot_id
                /\ id_ex'.rs_val = ReadReg(id_in.instr.rs)
                /\ id_ex'.rt_val = ReadReg(id_in.instr.rt)
BY DEF Clock, Wait, LoadUseBubble, Issue

\* What is in ID is the word of its address, unless it is a forced nop or the
\* empty IF/ID register.
LEMMA IdInWord ==
    ASSUME CInv, FetchedWord
    PROVE  /\ slot_consumes_pc4 =>
                /\ id_in.pc = slot_ex.auto_pc /\ id_in.pc4 = PcInc(id_in.pc)
                /\ id_in.instr = imem[id_in.pc] /\ ~branch_id.valid
           /\ slot_inject_active /\ ~slot_consumes_pc4 => id_in.instr = NOP
           /\ ~slot_inject_active => id_in = if_reg
           /\ ~slot_inject_active /\ IsBubble(if_reg) => id_in.instr = NOP
           /\ ~slot_inject_active /\ ~IsBubble(if_reg) =>
                id_in.instr = imem[id_in.pc] /\ id_in.pc4 = PcInc(id_in.pc)
           /\ slot_consumes_pc4 => slot_inject_active
<1>1. slot_consumes_pc4 => slot_inject_active /\ slot_ex.mode = "auto"
  BY DEF slot_consumes_pc4, slot_inject_active
<1>2. slot_inject_active /\ ~slot_consumes_pc4 => slot_ex.mode # "auto"
  BY DEF slot_consumes_pc4, slot_inject_active
<1>3. slot_consumes_pc4 =>
        /\ id_in.pc = slot_ex.auto_pc /\ id_in.pc4 = PcInc(id_in.pc)
        /\ id_in.instr = slot_ex.auto_instr
  BY <1>1 DEF id_in
<1>4. slot_consumes_pc4 => ~branch_id.valid
  BY <1>1, InjectedIsNoBranch DEF CInv
<1>5. slot_consumes_pc4 => id_in.instr = imem[id_in.pc]
  BY <1>1, <1>3 DEF CInv, PromotionSafe
<1>6. slot_inject_active /\ ~slot_consumes_pc4 => id_in.instr = NOP
  BY <1>2 DEF id_in
<1>7. ~slot_inject_active => id_in = if_reg
  BY DEF id_in
<1> QED  BY <1>1, <1>3, <1>4, <1>5, <1>6, <1>7 DEF FetchedWord, IsBubble

\* A clock edge keeps the words.
LEMMA WordStep == WordInv /\ ClockStep => WordInv'
<1> SUFFICES ASSUME WordInv, ClockStep PROVE WordInv'
  OBVIOUS
<1>1. CInv /\ Clock /\ HistoryClock /\ CInv'
  BY ClockInv DEF WordInv, ClockStep
<1>2. imem' = imem /\ Fetch!Edge /\ Execute /\ WriteBack
  BY <1>1, EdgeParts
<1>3. FetchedWord'
  <2>1. if_reg' \in {if_reg, Fetch!Bubble,
                     [pc |-> Fetch!Head, pc4 |-> PcInc(Fetch!Head), instr |-> imem[Fetch!Head]]}
    BY <1>1, <1>2, FetchAdvance
  <2>2. CASE if_reg' = if_reg
    BY <1>2, <2>2 DEF WordInv, FetchedWord, IsBubble
  <2>3. CASE if_reg' = Fetch!Bubble
    BY <2>3, BubbleFacts DEF FetchedWord, IsBubble
  <2>4. CASE if_reg' = [pc |-> Fetch!Head, pc4 |-> PcInc(Fetch!Head), instr |-> imem[Fetch!Head]]
    BY <1>2, <2>4, BubbleFacts DEF FetchedWord, IsBubble
  <2> QED  BY <2>1, <2>2, <2>3, <2>4
<1>4. ZeroRegister'
  <2>1. regs'[0] = 0
    BY <1>1, <1>2, ZeroTypes DEF WriteBack, CInv, TypeOK, WordInv, ZeroRegister
  <2>2. IdExBubble.rs_val = 0 /\ IdExBubble.rt_val = 0
    BY DEF IdExBubble
  <2> QED  BY <1>1, <2>1, <2>2, IdExStep DEF WordInv, ZeroRegister, ReadReg
<1>5. FreshWord'
  <2> SUFFICES ASSUME fresh' PROVE id_ex'.instr = imem[id_ex'.pc] /\ id_ex'.pc4 = PcInc(id_ex'.pc)
    BY <1>2 DEF FreshWord
  <2>1. ~scheduler_wait /\ ~load_use_hazard
        /\ IF slot_inject_active THEN slot_ex.mode = "auto" ELSE ~IsBubble(if_reg)
    BY <1>1 DEF HistoryClock
  <2>2. slot_inject_active => slot_consumes_pc4
    BY <2>1 DEF slot_consumes_pc4, slot_inject_active
  <2> QED  BY <1>1, <2>1, <2>2, IdExStep, IdInWord DEF WordInv
<1>6. HeldWord'
  <2> SUFFICES ASSUME ~fresh'
               PROVE  \/ id_ex'.instr = NOP
                      \/ /\ id_ex' = id_ex
                         /\ ex_mem'.dest = dest_reg(id_ex.instr)
                         /\ ex_mem'.reg_write = reg_write(id_ex.instr)
                         /\ ex_mem'.mem_read = mem_read(id_ex.instr)
                         /\ ex_mem'.mem_write = mem_write(id_ex.instr)
    BY DEF HeldWord
  <2>1. CASE scheduler_wait
    BY <1>1, <1>2, <2>1, IdExStep DEF Execute
  <2>2. CASE ~scheduler_wait /\ load_use_hazard
    BY <1>1, <2>2, IdExStep DEF IdExBubble
  <2>3. CASE ~scheduler_wait /\ ~load_use_hazard
    <3>1. IF slot_inject_active THEN slot_ex.mode # "auto" ELSE IsBubble(if_reg)
      BY <1>1, <2>3 DEF HistoryClock
    <3>2. id_in.instr = NOP
      BY <1>1, <3>1, IdInWord DEF WordInv, slot_consumes_pc4
    <3> QED  BY <1>1, <2>3, <3>2, IdExStep
  <2> QED  BY <2>1, <2>2, <2>3
<1> QED  BY <1>1, <1>3, <1>4, <1>5, <1>6 DEF WordInv

-----------------------------------------------------------------------------
(* Branches.                                                               *)

\* The decision taken along with what is in ID.
LEMMA SlotIdMode ==
    /\ slot_id.mode = "auto" <=> auto_slot_use(branch_id, slot0, slot1)
    /\ slot_id.mode = "auto" => slot_id.auto_pc = slot1.pc
    /\ manual_slot_ok(branch_id, slot0) \/ ~branch_id.valid => slot_id.mode = "manual"
<1> DEFINE auto == auto_slot_use(branch_id, slot0, slot1)
           force == force_nop_slot(branch_id, slot0, slot1)
<1>1. ~(auto /\ force)
  BY DEF force_nop_slot
<1>2. manual_slot_ok(branch_id, slot0) \/ ~branch_id.valid => ~auto /\ ~force
  BY DEF auto_slot_use, force_nop_slot
<1>3. /\ slot_id.mode = CASE auto -> "auto" [] force -> "nop" [] OTHER -> "manual"
      /\ slot_id.auto_pc = IF auto THEN slot1.pc ELSE 0
  BY DEF slot_id
<1> HIDE DEF auto, force
<1>4. slot_id.mode = "auto" <=> auto
  BY <1>1, <1>3
<1>5. ~auto /\ ~force => slot_id.mode = "manual"
  BY <1>3
<1> QED  BY <1>2, <1>3, <1>4, <1>5 DEF auto

\* Only a branch redirects, and the wires of an edge with a control instruction
\* in ID: it is the one in IF/ID.
LEMMA BranchWires ==
    ASSUME CInv, FetchedWord
    PROVE  /\ branch_redirect => branch_event_valid
           /\ branch_event_valid => ~load_use_hazard
           /\ scheduler_wait => branch_id.valid
           /\ branch_id.valid <=> is_branch_or_jump(id_in.instr)
           /\ branch_id.valid =>
                /\ ~slot_inject_active /\ ~slot_consumes_pc4 /\ id_in = if_reg
                /\ ~IsBubble(if_reg) /\ if_reg.instr = imem[if_reg.pc]
<1>1. branch_redirect => branch_event_valid
  BY DEF branch_redirect, branch_taken, branch_event_valid, is_branch_or_jump, branch_type,
         Branches
<1>2. branch_event_valid => ~load_use_hazard
  BY ControlFacts DEF branch_event_valid, load_use_hazard
<1>3. scheduler_wait => branch_id.valid
  BY DEF scheduler_wait, wait_for_more_candidates
<1>4. branch_id.valid <=> is_branch_or_jump(id_in.instr)
  BY DEF branch_id
<1>5. branch_id.valid => ~slot_inject_active
  BY InjectedIsNoBranch DEF CInv
<1> QED  BY <1>1, <1>2, <1>3, <1>4, <1>5, IdInWord, ControlFacts DEF FetchedWord

\* The wires into the fetch unit when a branch is in EX and none in ID.
LEMMA BranchEdge ==
    ASSUME CInv, FetchedWord, branch_event_valid, ~branch_id.valid, ~slot_cycle_pending
    PROVE  /\ ~scheduler_wait /\ ~load_use_hazard
           /\ ~slot_inject_active /\ ~slot_consumes_pc4 /\ id_in = if_reg
           /\ ~IfPins.stall /\ ~IfPins.flush /\ ~IfPins.kill
<1>1. ~scheduler_wait /\ ~load_use_hazard
  BY BranchWires
<1>2. ~slot_inject_active /\ ~slot_consumes_pc4
  BY DEF slot_inject_active, slot_consumes_pc4
<1>3. id_in = if_reg
  BY <1>2, IdInWord
<1>4. ~IfPins.stall /\ ~IfPins.flush /\ ~IfPins.kill
  BY <1>1, <1>2 DEF IfPins, branch_id_fire
<1> QED  BY <1>1, <1>2, <1>3, <1>4

\* How a control instruction gets into EX: it is issued from IF/ID, unless one
\* that is held in EX stays there while another waits.
LEMMA BranchEnters ==
    ASSUME CInv, FetchedWord, ClockStep, branch_event_valid',
           ~(branch_event_valid /\ branch_id.valid)
    PROVE  /\ branch_id_fire /\ ~branch_event_valid
           /\ ~scheduler_wait /\ ~load_use_hazard
           /\ ~IfPins.stall /\ ~IfPins.flush /\ ~IfPins.redirect
           /\ branch_id.valid /\ fresh' /\ slot_cycle_pending' = FALSE
           /\ id_ex'.pc = if_reg.pc /\ id_ex'.instr = imem[if_reg.pc] /\ id_ex'.slot = slot_id
           /\ id_ex'.instr = if_reg.instr
<1>0. Clock /\ HistoryClock /\ SlotControl /\ branch_event_valid' = is_branch_or_jump(id_ex'.instr)
  BY EdgeParts DEF ClockStep, branch_event_valid, is_branch_or_jump, branch_type
<1>1. ~scheduler_wait /\ ~load_use_hazard
  <2>1. ~scheduler_wait
    BY <1>0, IdExStep, BranchWires DEF branch_event_valid
  <2>2. IdExBubble.instr = NOP
    BY DEF IdExBubble
  <2> QED  BY <1>0, <2>1, <2>2, IdExStep, ControlFacts
<1>2. branch_id.valid /\ ~branch_event_valid
  BY <1>0, <1>1, IdExStep, BranchWires
<1>3. /\ ~slot_inject_active /\ ~slot_consumes_pc4 /\ id_in = if_reg
      /\ ~IsBubble(if_reg) /\ if_reg.instr = imem[if_reg.pc] /\ ~branch_redirect
  BY <1>2, BranchWires
<1>4. ~IfPins.stall /\ ~IfPins.flush /\ ~IfPins.redirect /\ branch_id_fire
  BY <1>1, <1>2, <1>3 DEF IfPins, branch_id_fire
<1>5. fresh' /\ slot_cycle_pending' = FALSE
  BY <1>0, <1>1, <1>2, <1>3 DEF HistoryClock, SlotControl, branch_event_valid
<1> QED  BY <1>0, <1>1, <1>2, <1>3, <1>4, <1>5, IdExStep

\* Up to the first deviation a branch enters EX with its first slot behind it.
LEMMA BranchFedStep == ConfInv /\ ClockStep /\ faithful' => BranchFed'
<1> SUFFICES ASSUME ConfInv, ClockStep, faithful', branch_event_valid'
             PROVE  fresh' /\ slot0'.valid /\ ~IsBubble(if_reg)' /\ ~slot_cycle_pending'
  BY DEF BranchFed
<1>1. CInv /\ FetchedWord /\ Clock /\ ~Deviates
  BY DEF ConfInv, WordInv, ClockStep, HistoryClock
<1>2. ~(branch_event_valid /\ branch_id.valid) /\ ~(branch_id_fire /\ ~slot0.valid)
  BY <1>1 DEF Deviates, ControlInSlot, BranchUnfed
<1>3. /\ branch_id_fire /\ ~IfPins.stall /\ ~IfPins.flush /\ ~IfPins.redirect
      /\ fresh' /\ slot_cycle_pending' = FALSE
  BY <1>1, <1>2, BranchEnters
<1>4. imem' = imem /\ Fetch!Edge
  BY <1>1, EdgeParts
<1>5. /\ if_reg' = [pc |-> Fetch!Head, pc4 |-> PcInc(Fetch!Head), instr |-> imem[Fetch!Head]]
      /\ slot0'.valid
  BY <1>1, <1>2, <1>3, <1>4, FetchAdvance
<1>6. ~IsBubble(if_reg)'
  BY <1>5, BubbleFacts DEF IsBubble
<1> QED  BY <1>3, <1>5, <1>6

-----------------------------------------------------------------------------
(* Programs that keep the rules.                                           *)

\* The rules are about the program alone.
LEMMA RulesStay ==
    ASSUME imem' = imem
    PROVE  (ShadowFree' <=> ShadowFree) /\ (SlotsFilled' <=> SlotsFilled)
BY DEF ShadowFree, SlotsFilled

\* With spaced control instructions there is none in ID while one is in EX.
LEMMA SpacedNotBoth ==
    ASSUME WordInv, ShadowFree, SpacedInId, SpacedInEx, branch_event_valid
    PROVE  ~branch_id.valid /\ is_control(imem[id_ex.pc]) /\ id_ex.pc \in Pc
<1>1. CInv /\ FetchedWord
  BY DEF WordInv
<1>2. is_control(imem[id_ex.pc]) /\ if_reg.pc = PcInc(id_ex.pc)
  BY ControlFacts DEF SpacedInEx, branch_event_valid
<1>3. id_ex.pc \in Pc
  BY <1>1 DEF CInv, TypeOK, IdEx
<1>4. ~is_control(imem[if_reg.pc])
  BY <1>2, <1>3 DEF ShadowFree
<1>5. branch_id.valid => is_control(imem[if_reg.pc])
  BY <1>1, BranchWires, ControlFacts
<1> QED  BY <1>2, <1>3, <1>4, <1>5

\* With spaced control instructions, a branch in ID meets a full cand0, and
\* nothing is redirected or injected in that cycle.
LEMMA SpacedBranch ==
    ASSUME WordInv, ShadowFree, SpacedInId, SpacedInEx, branch_id.valid
    PROVE  /\ ~branch_event_valid /\ ~IfPins.redirect
           /\ slot0.valid /\ Fetch!Head = PcInc(if_reg.pc) /\ slot0.pc = PcInc(if_reg.pc)
           /\ if_reg.pc \in Pc /\ is_control(imem[if_reg.pc]) /\ if_reg.instr = imem[if_reg.pc]
<1>1. CInv /\ FetchedWord
  BY DEF WordInv
<1>2. ~branch_event_valid /\ ~branch_redirect
  BY <1>1, SpacedNotBoth, BranchWires
<1>3. id_in = if_reg /\ ~slot_consumes_pc4 /\ is_control(if_reg.instr) /\ if_reg.instr = imem[if_reg.pc]
  BY <1>1, BranchWires, ControlFacts
<1>4. if_reg.pc \in Pc
  BY <1>1, SameArithmetic DEF CInv, TypeOK, Fetch!IfReg
<1> QED  BY <1>2, <1>3, <1>4 DEF SpacedInId, IfPins, Fetch!Head

\* A control instruction that an edge leaves in IF/ID has its slot behind it.
LEMMA SpacedIdStep ==
    ASSUME WordInv, ShadowFree, SpacedInId, SpacedInEx, ClockStep
    PROVE  SpacedInId'
<1> SUFFICES ASSUME is_control(if_reg'.instr), ~slot_consumes_pc4'
             PROVE  slot0'.valid /\ Fetch!Head' = PcInc(if_reg'.pc)
  BY DEF SpacedInId
<1>1. CInv /\ FetchedWord /\ Clock /\ imem' = imem /\ Fetch!Edge /\ SlotControl
  BY EdgeParts DEF WordInv, ClockStep
<1> DEFINE H == Fetch!Head
<1>2. /\ H \in Pc
      /\ if_reg' = IF IfPins.flush \/ (~IfPins.stall /\ ~slot0.valid) THEN Fetch!Bubble
                   ELSE IF IfPins.stall THEN if_reg
                   ELSE [pc |-> H, pc4 |-> PcInc(H), instr |-> imem[H]]
      /\ Fetch!Head' = IF IfPins.redirect THEN IfPins.target
                       ELSE IF IfPins.stall \/ ~slot0.valid THEN H
                       ELSE IF IfPins.kill THEN PcInc(PcInc(H)) ELSE PcInc(H)
      /\ ~IfPins.redirect => slot0'.valid
  BY <1>1, FetchAdvance
<1> HIDE DEF H
<1>3. ~is_control(Fetch!Bubble.instr)
  BY BubbleFacts, ControlFacts
<1>4. ~IfPins.flush /\ (IfPins.stall \/ slot0.valid)
  BY <1>2, <1>3
<1>5. IfPins.flush = slot_consumes_pc4 /\ IfPins.redirect = branch_redirect
  BY DEF IfPins
<1>6. CASE branch_event_valid
  <2>1. ~branch_id.valid /\ is_control(imem[id_ex.pc]) /\ id_ex.pc \in Pc
    BY <1>6, SpacedNotBoth
  <2>2. ~IfPins.stall
    BY <1>1, <1>6, <2>1, BranchEdge DEF SpacedInEx
  <2>3. is_control(imem[H])
    BY <1>2, <1>4, <2>2
  <2>4. H # PcInc(PcInc(id_ex.pc))
    BY <2>1, <2>3 DEF ShadowFree
  <2>5. id_ex.slot.mode = "auto"
    BY <1>6, <2>4 DEF SpacedInEx, H
  <2>6. slot_consumes_pc4'
    BY <1>1, <1>6, <2>5 DEF SlotControl, slot_consumes_pc4
  <2> QED  BY <2>6
<1>7. CASE ~branch_event_valid
  <2>1. ~IfPins.redirect
    BY <1>1, <1>5, <1>7, BranchWires
  <2>2. CASE IfPins.stall
    BY <1>2, <1>4, <1>5, <2>1, <2>2 DEF SpacedInId, H
  <2>3. CASE ~IfPins.stall
    <3>1. if_reg' = [pc |-> H, pc4 |-> PcInc(H), instr |-> imem[H]]
      BY <1>2, <1>4, <2>3
    <3>2. ~IfPins.kill
      <4>1. SUFFICES ASSUME branch_id.valid PROVE FALSE
        BY DEF IfPins, branch_id_fire
      <4>2. H = PcInc(if_reg.pc) /\ if_reg.pc \in Pc /\ is_control(imem[if_reg.pc])
        BY <4>1, SpacedBranch DEF H
      <4> QED  BY <3>1, <4>2 DEF ShadowFree
    <3> QED  BY <1>2, <1>4, <2>1, <2>3, <3>1, <3>2
  <2> QED  BY <2>2, <2>3
<1> QED  BY <1>6, <1>7

\* A control instruction that an edge leaves in EX has both slots behind it.
LEMMA SpacedExStep ==
    ASSUME WordInv, ShadowFree, SpacedInId, SpacedInEx, ClockStep
    PROVE  SpacedInEx'
<1> SUFFICES ASSUME branch_event_valid'
             PROVE  /\ ~IsBubble(if_reg)' /\ if_reg'.pc = PcInc(id_ex'.pc)
                    /\ id_ex'.instr = imem'[id_ex'.pc] /\ ~slot_cycle_pending'
                    /\ id_ex'.slot.mode = "auto" \/ Fetch!Head' = PcInc(PcInc(id_ex'.pc))
  BY DEF SpacedInEx
<1>1. CInv /\ FetchedWord /\ imem' = imem /\ Fetch!Edge
  BY EdgeParts DEF WordInv, ClockStep
<1>2. ~(branch_event_valid /\ branch_id.valid)
  BY SpacedNotBoth
<1>3. /\ branch_id_fire /\ ~IfPins.stall /\ ~IfPins.flush /\ ~IfPins.redirect
      /\ branch_id.valid /\ slot_cycle_pending' = FALSE
      /\ id_ex'.pc = if_reg.pc /\ id_ex'.instr = imem[if_reg.pc] /\ id_ex'.slot = slot_id
  BY <1>1, <1>2, BranchEnters
<1>4. slot0.valid /\ Fetch!Head = PcInc(if_reg.pc)
  BY <1>3, SpacedBranch
<1>5. /\ if_reg' = [pc |-> Fetch!Head, pc4 |-> PcInc(Fetch!Head), instr |-> imem[Fetch!Head]]
      /\ Fetch!Head' = IF IfPins.kill THEN PcInc(PcInc(Fetch!Head)) ELSE PcInc(Fetch!Head)
  BY <1>1, <1>3, <1>4, FetchAdvance
<1>6. ~IsBubble(if_reg)'
  BY <1>5, BubbleFacts DEF IsBubble
<1>7. IfPins.kill => slot_id.mode = "auto"
  BY SlotIdMode DEF IfPins
<1> QED  BY <1>1, <1>3, <1>4, <1>5, <1>6, <1>7

\* With rules kept, a branch in ID takes the word behind it as it stands.
LEMMA ManualBranch ==
    ASSUME WordInv, ShadowFree, SlotsFilled, SpacedInId, SpacedInEx, branch_id.valid
    PROVE  manual_slot_ok(branch_id, slot0)
<1>1. CInv /\ FetchedWord
  BY DEF WordInv
<1>2. /\ slot0.valid /\ slot0.pc = PcInc(if_reg.pc) /\ if_reg.pc \in Pc
      /\ is_control(imem[if_reg.pc]) /\ if_reg.instr = imem[if_reg.pc]
  BY SpacedBranch
<1>3. safe_candidate(imem[PcInc(if_reg.pc)], if_reg.instr.rs, if_reg.instr.rt)
  BY <1>2 DEF SlotsFilled
<1>4. slot0.instr = imem[PcInc(if_reg.pc)]
  BY <1>1, <1>2 DEF CInv, Fetch!Coherent
<1>5. branch_id.rs = if_reg.instr.rs /\ branch_id.rt = if_reg.instr.rt
  BY <1>1, BranchWires DEF branch_id
<1> QED  BY <1>2, <1>3, <1>4, <1>5 DEF manual_slot_ok

\* With rules kept, no wait, no injection and no promotion begins.
LEMMA ManualWires ==
    ASSUME WordInv, ShadowFree, SlotsFilled, SpacedInId, SpacedInEx, AllManual
    PROVE  /\ ~scheduler_wait /\ ~slot_inject_active /\ ~slot_consumes_pc4
           /\ slot_id.mode = "manual"
<1>1. CInv /\ FetchedWord
  BY DEF WordInv
<1>2. branch_id.valid => manual_slot_ok(branch_id, slot0)
  BY ManualBranch
<1>3. slot_id.mode = "manual"
  BY <1>2, SlotIdMode
<1>4. ~scheduler_wait
  BY <1>2 DEF scheduler_wait, wait_for_more_candidates
<1> QED  BY <1>3, <1>4 DEF AllManual, slot_inject_active, slot_consumes_pc4

\* With rules kept, an edge leaves no promoted and no held instruction.
LEMMA ManualStep ==
    ASSUME WordInv, ShadowFree, SlotsFilled, SpacedInId, SpacedInEx, AllManual, ClockStep
    PROVE  AllManual'
<1>1. CInv /\ FetchedWord /\ Clock /\ HistoryClock /\ SlotControl
  BY EdgeParts DEF WordInv, ClockStep
<1>2. /\ ~scheduler_wait /\ ~slot_inject_active /\ ~slot_consumes_pc4
      /\ slot_id.mode = "manual"
  BY ManualWires
<1>3. IdExBubble.slot.mode = "manual" /\ IdExBubble.instr = NOP
  BY DEF IdExBubble, NoSlot
<1>4. id_ex'.slot.mode = "manual"
  BY <1>1, <1>2, <1>3, IdExStep
<1>5. slot_ex'.mode = "manual"
  BY <1>1 DEF SlotControl, AllManual
<1>6. fresh' \/ id_ex'.instr = NOP
  BY <1>1, <1>2, <1>3, IdExStep, IdInWord DEF HistoryClock
<1> QED  BY <1>4, <1>5, <1>6 DEF AllManual

\* An edge keeps what is true of programs that follow the rules.
LEMMA SpacedStep == WordInv /\ SpacedInv /\ ClockStep => SpacedInv'
<1> SUFFICES ASSUME WordInv, SpacedInv, ClockStep PROVE SpacedInv'
  OBVIOUS
<1>1. (ShadowFree' <=> ShadowFree) /\ (SlotsFilled' <=> SlotsFilled)
  BY EdgeParts, RulesStay DEF ClockStep
<1>2. ShadowFree => SpacedInId' /\ SpacedInEx'
  BY SpacedIdStep, SpacedExStep DEF SpacedInv
<1>3. ShadowFree /\ SlotsFilled => AllManual'
  BY ManualStep DEF SpacedInv
<1> QED  BY <1>1, <1>2, <1>3 DEF SpacedInv

-----------------------------------------------------------------------------
(* The architecture's registers and memory.                                *)

\* What the instruction in MEM leaves in its destination.
MemResult ==
    IF ex_mem.mem_read THEN dmem[data_index(ex_mem.alu_result)] ELSE ex_mem.alu_result

\* One register of the architecture: the youngest result on its way to it.
LEMMA ArchRegister ==
    ASSUME TypeOK, NEW r \in Reg
    PROVE  ArchRegs[r] =
             IF ex_mem.reg_write /\ ex_mem.dest # 0 /\ ex_mem.dest = r THEN MemResult
             ELSE IF mem_wb.reg_write /\ mem_wb.dest # 0 /\ mem_wb.dest = r THEN wb_data
             ELSE regs[r]
BY DEF TypeOK, ExMem, MemWb, ArchRegs, Write, MemResult

\* The architecture's state has its type, and its register 0 is zero.
LEMMA ArchTypes ==
    ASSUME TypeOK
    PROVE  /\ ArchRegs \in [Reg -> Word] /\ ArchMem \in [DataAddr -> Word]
           /\ ZeroRegister => ArchRegs[0] = 0
<1>1. ex_mem.alu_result \in Word /\ ex_mem.rt_value \in Word /\ ex_mem.dest \in Reg
  BY DEF TypeOK, ExMem
<1>2. wb_data \in Word /\ data_index(ex_mem.alu_result) \in DataAddr
  BY <1>1, OperandTypes, DataIndexType
<1>3. regs \in [Reg -> Word] /\ dmem \in [DataAddr -> Word] /\ mem_wb.dest \in Reg
  BY DEF TypeOK, MemWb
<1>4. MemResult \in Word
  BY <1>1, <1>2, <1>3 DEF MemResult
<1>5. ArchRegs \in [Reg -> Word]
  BY <1>1, <1>2, <1>3, <1>4 DEF ArchRegs, Write, MemResult
<1>6. ArchMem \in [DataAddr -> Word]
  BY <1>1, <1>2, <1>3 DEF ArchMem, Write
<1>7. ZeroRegister => ArchRegs[0] = 0
  BY ArchRegister, ZeroTypes DEF ZeroRegister
<1> QED  BY <1>5, <1>6, <1>7

\* A clock edge whose load is answered by the RAM writes the result of EX into
\* the architecture's state, and nothing else: what moves from MEM to WB and
\* from WB to the register file was in it already.
LEMMA ArchStep ==
    ASSUME TypeOK, Execute, DataMemory, Memory, WriteBack, ~StaleLoad
    PROVE  LET i == id_ex.instr
               alu == alu_result(i, ex_rs_val, ex_rt_val)
           IN  /\ ArchRegs' = Write(reg_write(i) /\ dest_reg(i) # 0, ArchRegs, dest_reg(i),
                                    IF mem_read(i) THEN ArchMem[data_index(alu)] ELSE alu)
               /\ ArchMem' = Write(mem_write(i), ArchMem, data_index(alu), ex_rt_val)
<1> DEFINE Written == Write(mem_wb.reg_write /\ mem_wb.dest # 0, regs, mem_wb.dest, wb_data)
<1>1. regs' = Written
  BY DEF WriteBack, Write
<1>2. dmem' = ArchMem
  BY DEF DataMemory, ArchMem, Write
<1>3. ex_mem.mem_read => rdata = dmem[data_index(ex_mem.alu_result)]
  BY DEF StaleLoad
<1>4. /\ mem_wb'.reg_write = ex_mem.reg_write /\ mem_wb'.dest = ex_mem.dest
      /\ ex_mem.mem_read => wb_data' = rdata
      /\ ~ex_mem.mem_read => wb_data' = ex_mem.alu_result
  BY DEF Memory, wb_data
<1>5. wb_data' = MemResult
  BY <1>3, <1>4 DEF MemResult
<1>6. ArchRegs = Write(ex_mem.reg_write /\ ex_mem.dest # 0, Written, ex_mem.dest, MemResult)
  BY DEF ArchRegs, MemResult
<1> HIDE DEF Written
<1>7. Write(mem_wb'.reg_write /\ mem_wb'.dest # 0, regs', mem_wb'.dest, wb_data') = ArchRegs
  BY <1>1, <1>4, <1>5, <1>6
<1> DEFINE i == id_ex.instr
           alu == alu_result(i, ex_rs_val, ex_rt_val)
<1>8. /\ ex_mem'.reg_write = reg_write(i) /\ ex_mem'.dest = dest_reg(i)
      /\ ex_mem'.mem_read = mem_read(i) /\ ex_mem'.mem_write = mem_write(i)
      /\ ex_mem'.alu_result = alu /\ ex_mem'.rt_value = ex_rt_val
  BY DEF Execute
<1> HIDE DEF i, alu
<1>9. MemResult' = IF mem_read(i) THEN ArchMem[data_index(alu)] ELSE alu
  BY <1>2, <1>8 DEF MemResult, data_index
<1>10. ArchRegs' = Write(ex_mem'.reg_write /\ ex_mem'.dest # 0,
                         Write(mem_wb'.reg_write /\ mem_wb'.dest # 0, regs', mem_wb'.dest, wb_data'),
                         ex_mem'.dest, MemResult')
  BY DEF ArchRegs, Write, MemResult
<1>11. ArchMem' = Write(ex_mem'.mem_write, dmem', data_index(ex_mem'.alu_result), ex_mem'.rt_value)
  BY DEF ArchMem, Write, data_index
<1> QED  BY <1>2, <1>7, <1>8, <1>9, <1>10, <1>11 DEF i, alu

\* A register that ID reads, taken through the forwarding paths of the next
\* cycle, is what the architecture then has in it.
LEMMA OperandStep ==
    ASSUME TypeOK, Execute, DataMemory, Memory, WriteBack,
           ~load_use_hazard, ~StaleOperand, ~StaleLoad,
           NEW r \in Sources(id_in.instr)
    PROVE  ArchRegs'[r] =
             IF ex_mem'.reg_write /\ ~ex_mem'.mem_read /\ ex_mem'.dest # 0 /\ ex_mem'.dest = r
             THEN ex_mem'.alu_result
             ELSE IF mem_wb'.reg_write /\ mem_wb'.dest # 0 /\ mem_wb'.dest = r
             THEN wb_data' ELSE ReadReg(r)
<1> DEFINE i == id_ex.instr
           alu == alu_result(i, ex_rs_val, ex_rt_val)
<1>1. r \in {id_in.instr.rs, id_in.instr.rt} \ {0} /\ r \in Reg
  <2>1. r \in {id_in.instr.rs, id_in.instr.rt} \ {0}
    BY DEF Sources
  <2> QED  BY <2>1, IdInType, InstrFields
<1>2. reg_write(i) /\ dest_reg(i) = r => ~mem_read(i)
  BY <1>1 DEF load_use_hazard, mem_read, dest_reg, reg_dst_rd, RTypes, Arithmetic
<1>3. id_ex.instr \in Instr /\ dest_reg(i) \in Reg /\ ex_mem.dest \in Reg
  BY InstrFields DEF TypeOK, IdEx, ExMem, dest_reg
<1>4. ArchRegs'[r] = IF reg_write(i) /\ dest_reg(i) = r THEN alu ELSE ArchRegs[r]
  BY <1>1, <1>2, <1>3, ArchStep, ArchTypes DEF Write
<1>5. /\ ex_mem'.reg_write = reg_write(i) /\ ex_mem'.dest = dest_reg(i)
      /\ ex_mem'.mem_read = mem_read(i) /\ ex_mem'.alu_result = alu
  BY DEF Execute
<1>6. /\ mem_wb'.reg_write = ex_mem.reg_write /\ mem_wb'.dest = ex_mem.dest
      /\ wb_data' = IF ex_mem.mem_read THEN rdata ELSE ex_mem.alu_result
  BY DEF Memory, wb_data
<1>7. ex_mem.mem_read => rdata = dmem[data_index(ex_mem.alu_result)]
  BY DEF StaleLoad
<1>8. wb_data' = MemResult
  BY <1>6, <1>7 DEF MemResult
<1> HIDE DEF alu
<1>9. CASE reg_write(i) /\ dest_reg(i) = r
  BY <1>1, <1>2, <1>4, <1>5, <1>9
<1>10. CASE ~(reg_write(i) /\ dest_reg(i) = r)
  <2>1. CASE ex_mem.reg_write /\ ex_mem.dest = r
    BY <1>1, <1>4, <1>5, <1>6, <1>8, <1>10, <2>1, ArchRegister
  <2>2. CASE ~(ex_mem.reg_write /\ ex_mem.dest = r)
    <3>1. mem_wb.reg_write /\ mem_wb.dest = r => wb_data = regs[r]
      BY <1>10, <2>2 DEF StaleOperand
    <3>2. ArchRegs[r] = regs[r]
      BY <1>1, <2>2, <3>1, ArchRegister
    <3> QED  BY <1>1, <1>4, <1>5, <1>6, <1>10, <2>2, <3>2 DEF ReadReg
  <2> QED  BY <2>1, <2>2
<1> QED  BY <1>9, <1>10

\* Up to the first deviation what EX is given are the architecture's operands.
LEMMA OperandsStep == ConfInv /\ ClockStep /\ faithful' => OperandsInEx'
<1> SUFFICES ASSUME ConfInv, ClockStep, faithful', fresh'
             PROVE  LET i == id_ex'.instr
                    IN  /\ i.rs \in Sources(i) => ex_rs_val' = ArchRegs'[i.rs]
                        /\ i.rt \in Sources(i) => ex_rt_val' = ArchRegs'[i.rt]
  BY DEF OperandsInEx, Sources
<1>1. TypeOK /\ Clock /\ HistoryClock /\ ~Deviates
  BY DEF ConfInv, WordInv, CInv, ClockStep, HistoryClock
<1>2. Execute /\ DataMemory /\ Memory /\ WriteBack
  BY <1>1, EdgeParts
<1>3. ~scheduler_wait /\ ~load_use_hazard
  BY <1>1 DEF HistoryClock
<1>4. ~StaleOperand /\ ~StaleLoad
  BY <1>1, <1>3 DEF Deviates
<1>5. /\ id_ex'.instr = id_in.instr
      /\ id_ex'.rs_val = ReadReg(id_in.instr.rs) /\ id_ex'.rt_val = ReadReg(id_in.instr.rt)
  BY <1>1, <1>3, IdExStep
<1>6. \A r, v : r \in Sources(id_in.instr) /\ v = ReadReg(r) =>
         ArchRegs'[r] =
             IF ex_mem'.reg_write /\ ~ex_mem'.mem_read /\ ex_mem'.dest # 0 /\ ex_mem'.dest = r
             THEN ex_mem'.alu_result
             ELSE IF mem_wb'.reg_write /\ mem_wb'.dest # 0 /\ mem_wb'.dest = r
             THEN wb_data' ELSE v
  BY <1>1, <1>2, <1>3, <1>4, OperandStep
<1>7. /\ ex_rs_val' = LET r == id_ex'.instr.rs
                      IN  IF ex_mem'.reg_write /\ ~ex_mem'.mem_read /\ ex_mem'.dest # 0 /\ ex_mem'.dest = r
                          THEN ex_mem'.alu_result
                          ELSE IF mem_wb'.reg_write /\ mem_wb'.dest # 0 /\ mem_wb'.dest = r
                          THEN wb_data' ELSE id_ex'.rs_val
      /\ ex_rt_val' = LET r == id_ex'.instr.rt
                      IN  IF ex_mem'.reg_write /\ ~ex_mem'.mem_read /\ ex_mem'.dest # 0 /\ ex_mem'.dest = r
                          THEN ex_mem'.alu_result
                          ELSE IF mem_wb'.reg_write /\ mem_wb'.dest # 0 /\ mem_wb'.dest = r
                          THEN wb_data' ELSE id_ex'.rt_val
  BY DEF ex_rs_val, ex_rt_val, Forward, wb_data
<1> QED  BY <1>5, <1>6, <1>7

-----------------------------------------------------------------------------
(* The window.                                                             *)

\* The instruction in ID that is one of the program's, and a promoted one in EX
\* with the branch it was promoted for.
IdThere == slot_consumes_pc4 \/ ~IsBubble(if_reg)
IdPc == IF slot_consumes_pc4 THEN slot_ex.auto_pc ELSE if_reg.pc
Promoted == fresh /\ branch_event_valid /\ id_ex.slot.mode = "auto"

\* The buffer and the fetch address hold consecutive addresses, so what comes
\* after ID starts at the head of the stream.
LEMMA BufferedIsStream ==
    CInv => LET h == Fetch!Head IN Buffered = <<h, PcInc(h), PcInc(PcInc(h))>>
<1> SUFFICES ASSUME CInv PROVE LET h == Fetch!Head IN Buffered = <<h, PcInc(h), PcInc(PcInc(h))>>
  OBVIOUS
<1>1. /\ slot1.valid => /\ slot0.valid /\ slot1.pc = PcInc(slot0.pc)
                        /\ fetch_pc = PcInc(slot1.pc)
      /\ slot0.valid /\ ~slot1.valid => fetch_pc = PcInc(slot0.pc)
  BY SameArithmetic DEF CInv, TypeOK, Fetch!Contiguous, Fetch!Slot
<1> QED  BY <1>1 DEF Buffered, Before, Fetch!Head

\* The window, case by case.
LEMMA WindowCases ==
    CInv => LET h == Fetch!Head
            IN  /\ ~fresh /\ ~IdThere => Upcoming = <<h, PcInc(h), PcInc(PcInc(h))>>
                /\ ~fresh /\ IdThere => Upcoming = <<IdPc, h, PcInc(h)>>
                /\ fresh /\ ~IdThere /\ ~Promoted => Upcoming = <<id_ex.pc, h, PcInc(h)>>
                /\ fresh /\ IdThere /\ ~Promoted => Upcoming = <<id_ex.pc, IdPc, h>>
                /\ IdThere /\ Promoted => Upcoming = <<id_ex.pc, IdPc, id_ex.slot.auto_pc>>
<1> SUFFICES ASSUME CInv
             PROVE  LET h == Fetch!Head
                    IN  /\ ~fresh /\ ~IdThere => Upcoming = <<h, PcInc(h), PcInc(PcInc(h))>>
                        /\ ~fresh /\ IdThere => Upcoming = <<IdPc, h, PcInc(h)>>
                        /\ fresh /\ ~IdThere /\ ~Promoted => Upcoming = <<id_ex.pc, h, PcInc(h)>>
                        /\ fresh /\ IdThere /\ ~Promoted => Upcoming = <<id_ex.pc, IdPc, h>>
                        /\ IdThere /\ Promoted => Upcoming = <<id_ex.pc, IdPc, id_ex.slot.auto_pc>>
  OBVIOUS
<1> DEFINE h == Fetch!Head
<1>1. Buffered = <<h, PcInc(h), PcInc(PcInc(h))>>
  BY BufferedIsStream
<1> HIDE DEF h
<1>2. Upcoming = Before(fresh, id_ex.pc, Before(IdThere, IdPc,
                 Before(Promoted, id_ex.slot.auto_pc, Buffered)))
  BY DEF Upcoming, Before, IdThere, IdPc, Promoted
<1>3. Promoted => fresh
  BY DEF Promoted
<1> QED  BY <1>1, <1>2, <1>3 DEF Before, h

\* The window has three addresses.
LEMMA WindowType == CInv => \E a, b, c \in Pc : Upcoming = <<a, b, c>>
<1> SUFFICES ASSUME CInv PROVE \E a, b, c \in Pc : Upcoming = <<a, b, c>>
  OBVIOUS
<1>1. /\ id_ex.pc \in Pc /\ slot_ex.auto_pc \in Pc /\ id_ex.slot.auto_pc \in Pc
      /\ if_reg.pc \in Pc /\ Fetch!Head \in Pc
  BY SameArithmetic DEF CInv, TypeOK, IdEx, SlotChoice, SlotEx, Fetch!IfReg, Fetch!Slot, Fetch!Head
<1> DEFINE h == Fetch!Head
<1>2. h \in Pc /\ PcInc(h) \in Pc /\ PcInc(PcInc(h)) \in Pc
  BY <1>1, PcTypes
<1>3. Buffered = <<h, PcInc(h), PcInc(PcInc(h))>>
  BY BufferedIsStream
<1>4. \A c, p, w : p \in Pc /\ (\E x, y, z \in Pc : w = <<x, y, z>>)
        => \E x, y, z \in Pc : Before(c, p, w) = <<x, y, z>>
  BY DEF Before
<1>5. \E x, y, z \in Pc : Buffered = <<x, y, z>>
  BY <1>2, <1>3
<1> QED  BY <1>1, <1>4, <1>5 DEF Upcoming

\* While a branch is in EX, faithfully, the edge takes it to where it goes.
LEMMA WindowAtBranch ==
    ASSUME ConfInv, ClockStep, faithful', branch_event_valid
    PROVE  Upcoming' = <<Upcoming[2], Upcoming[3],
                         IF branch_redirect THEN branch_target(id_ex.instr, id_ex.pc4)
                         ELSE PcInc(Upcoming[3])>>
<1> DEFINE h == Fetch!Head
<1>1. /\ CInv /\ FetchedWord /\ Clock /\ HistoryClock /\ faithful /\ ~Deviates /\ BranchFed
      /\ CInv'
  BY ClockInv DEF ConfInv, WordInv, ClockStep, HistoryClock
<1>2. ~branch_id.valid /\ ~(id_ex.slot.mode = "auto" /\ ~branch_redirect)
  BY <1>1 DEF Deviates, ControlInSlot, NextSwallowed
<1>3. fresh /\ slot0.valid /\ ~IsBubble(if_reg) /\ ~slot_cycle_pending
  BY <1>1 DEF BranchFed
<1>4. /\ ~scheduler_wait /\ ~load_use_hazard
      /\ ~slot_inject_active /\ ~slot_consumes_pc4 /\ id_in = if_reg
      /\ ~IfPins.stall /\ ~IfPins.flush /\ ~IfPins.kill
  BY <1>1, <1>2, <1>3, BranchEdge
<1>5. imem' = imem /\ Fetch!Edge /\ SlotControl
  BY <1>1, EdgeParts
<1>6. /\ if_reg' = [pc |-> h, pc4 |-> PcInc(h), instr |-> imem[h]]
      /\ Fetch!Head' = IF branch_redirect THEN branch_target(id_ex.instr, id_ex.pc4) ELSE PcInc(h)
  <2>1. IfPins.redirect = branch_redirect /\ IfPins.target = branch_target(id_ex.instr, id_ex.pc4)
    BY DEF IfPins
  <2> QED  BY <1>1, <1>3, <1>4, <1>5, <2>1, FetchAdvance
<1>7. /\ fresh' /\ id_ex'.pc = if_reg.pc /\ ~Promoted'
  <2>1. fresh' /\ id_ex'.pc = if_reg.pc
    BY <1>1, <1>3, <1>4, IdExStep DEF HistoryClock
  <2>2. id_ex'.instr = id_in.instr
    BY <1>1, <1>4, IdExStep
  <2>3. ~branch_event_valid'
    BY <1>1, <1>2, <2>2, BranchWires DEF branch_event_valid, is_branch_or_jump, branch_type
  <2> QED  BY <2>1, <2>3 DEF Promoted
<1>8. /\ slot_consumes_pc4' <=> id_ex.slot.mode = "auto"
      /\ slot_ex'.auto_pc = id_ex.slot.auto_pc
  BY <1>5 DEF SlotControl, slot_consumes_pc4
<1>9. ~slot_consumes_pc4' => IdThere' /\ IdPc' = h
  BY <1>6, BubbleFacts DEF IdThere, IdPc, IsBubble
<1>10. slot_consumes_pc4' => IdThere' /\ IdPc' = id_ex.slot.auto_pc
  BY <1>8 DEF IdThere, IdPc
<1>11. Upcoming' = <<if_reg.pc, IdPc', Fetch!Head'>>
  <2>1. (CInv => LET h2 == Fetch!Head IN fresh /\ IdThere /\ ~Promoted => Upcoming = <<id_ex.pc, IdPc, h2>>)'
    BY WindowCases, PTL
  <2> QED  BY <1>1, <1>7, <1>9, <1>10, <2>1
<1>12. Promoted <=> id_ex.slot.mode = "auto"
  BY <1>3 DEF Promoted
<1>13. IdThere /\ IdPc = if_reg.pc
  BY <1>3, <1>4 DEF IdThere, IdPc
<1>14. Upcoming = <<id_ex.pc, if_reg.pc, IF Promoted THEN id_ex.slot.auto_pc ELSE h>>
  BY <1>1, <1>3, <1>13, WindowCases
<1> HIDE DEF h
<1> QED  BY <1>2, <1>6, <1>8, <1>9, <1>10, <1>11, <1>12, <1>14

\* Without a branch in EX, whatever way ID/EX is loaded, an edge moves what was
\* in ID to the front of the window, and keeps everything behind it.
LEMMA WindowBehind ==
    ASSUME ConfInv, ClockStep, faithful', ~branch_event_valid
    PROVE  LET h == Fetch!Head
           IN  Upcoming' = IF IdThere THEN <<IdPc, h, PcInc(h)>>
                           ELSE <<h, PcInc(h), PcInc(PcInc(h))>>
<1> DEFINE h == Fetch!Head
           hh == Fetch!Head'
<1> SUFFICES Upcoming' = IF IdThere THEN <<IdPc, h, PcInc(h)>>
                         ELSE <<h, PcInc(h), PcInc(PcInc(h))>>
  OBVIOUS
<1>1. /\ CInv /\ FetchedWord /\ Clock /\ HistoryClock /\ ~Deviates /\ CInv'
  BY ClockInv DEF ConfInv, WordInv, ClockStep, HistoryClock
<1>2. imem' = imem /\ Fetch!Edge /\ SlotControl
  BY <1>1, EdgeParts
<1>3. ~slot_consumes_pc4' /\ (IdThere' <=> ~IsBubble(if_reg')) /\ IdPc' = if_reg'.pc
  BY <1>2 DEF SlotControl, slot_consumes_pc4, IdThere, IdPc, IsBubble
<1>4. /\ if_reg' = IF IfPins.flush \/ (~IfPins.stall /\ ~slot0.valid) THEN Fetch!Bubble
                   ELSE IF IfPins.stall THEN if_reg
                   ELSE [pc |-> h, pc4 |-> PcInc(h), instr |-> imem[h]]
      /\ hh = IF IfPins.stall \/ ~slot0.valid THEN h
              ELSE IF IfPins.kill THEN PcInc(PcInc(h)) ELSE PcInc(h)
  <2>1. ~IfPins.redirect
    BY <1>1, BranchWires DEF IfPins
  <2> QED  BY <1>1, <1>2, <2>1, FetchAdvance
<1>5. /\ IfPins.flush = slot_consumes_pc4
      /\ IfPins.stall = (load_use_hazard \/ slot_inject_active \/ scheduler_wait)
      /\ IfPins.kill = (branch_id_fire /\ auto_slot_use(branch_id, slot0, slot1))
  BY DEF IfPins
<1>6. /\ ~fresh' /\ ~IdThere' => Upcoming' = <<hh, PcInc(hh), PcInc(PcInc(hh))>>
      /\ ~fresh' /\ IdThere' => Upcoming' = <<IdPc', hh, PcInc(hh)>>
      /\ fresh' /\ ~IdThere' /\ ~Promoted' => Upcoming' = <<id_ex'.pc, hh, PcInc(hh)>>
      /\ fresh' /\ IdThere' /\ ~Promoted' => Upcoming' = <<id_ex'.pc, IdPc', hh>>
      /\ IdThere' /\ Promoted' => Upcoming' = <<id_ex'.pc, IdPc', id_ex'.slot.auto_pc>>
  <2>1. (CInv => LET g == Fetch!Head
                 IN  /\ ~fresh /\ ~IdThere => Upcoming = <<g, PcInc(g), PcInc(PcInc(g))>>
                     /\ ~fresh /\ IdThere => Upcoming = <<IdPc, g, PcInc(g)>>
                     /\ fresh /\ ~IdThere /\ ~Promoted => Upcoming = <<id_ex.pc, g, PcInc(g)>>
                     /\ fresh /\ IdThere /\ ~Promoted => Upcoming = <<id_ex.pc, IdPc, g>>
                     /\ IdThere /\ Promoted => Upcoming = <<id_ex.pc, IdPc, id_ex.slot.auto_pc>>)'
    BY WindowCases, PTL
  <2> QED  BY <1>1, <2>1
<1>7. /\ IsBubble(Fetch!Bubble)
      /\ ~IsBubble([pc |-> h, pc4 |-> PcInc(h), instr |-> imem[h]])
  BY BubbleFacts
<1>8. Promoted' => branch_event_valid'
  BY DEF Promoted
<1> HIDE DEF h, hh
\* ID/EX is held or emptied: all that was in ID and behind it stays.
<1>9. CASE scheduler_wait \/ load_use_hazard
  <2>1. ~fresh'
    BY <1>1, <1>9 DEF HistoryClock
  <2>2. ~slot_consumes_pc4
    <3>1. CASE scheduler_wait
      BY <1>1, <3>1, BranchWires
    <3>2. CASE load_use_hazard
      BY <1>1, <3>2 DEF Deviates, PromotionLost
    <3> QED  BY <1>9, <3>1, <3>2
  <2> QED  BY <1>3, <1>4, <1>5, <1>6, <1>9, <2>1, <2>2 DEF IdThere, IdPc
\* A promoted instruction is issued; IF/ID is flushed.
<1>10. CASE ~scheduler_wait /\ ~load_use_hazard /\ slot_consumes_pc4
  <2>1. slot_inject_active /\ id_in.pc = slot_ex.auto_pc /\ ~branch_id.valid
    BY <1>1, <1>10, IdInWord
  <2>2. fresh' /\ id_ex'.pc = slot_ex.auto_pc
    BY <1>1, <1>10, <2>1, IdExStep DEF HistoryClock, slot_consumes_pc4
  <2>3. ~branch_event_valid'
    BY <1>1, <1>10, <2>1, BranchWires, BranchEnters
  <2> QED  BY <1>3, <1>4, <1>5, <1>6, <1>7, <1>8, <1>10, <2>1, <2>2, <2>3 DEF IdThere, IdPc
\* A forced nop is issued; IF/ID is held.
<1>11. CASE ~scheduler_wait /\ ~load_use_hazard /\ ~slot_consumes_pc4 /\ slot_inject_active
  <2>1. ~fresh'
    BY <1>1, <1>11 DEF HistoryClock, slot_consumes_pc4, slot_inject_active
  <2> QED  BY <1>3, <1>4, <1>5, <1>6, <1>11, <2>1 DEF IdThere, IdPc
\* What is in IF/ID is issued.
<1>12. CASE ~scheduler_wait /\ ~load_use_hazard /\ ~slot_inject_active
  <2>1. ~slot_consumes_pc4 /\ ~IfPins.flush /\ ~IfPins.stall
    BY <1>5, <1>12 DEF slot_consumes_pc4, slot_inject_active
  <2>2. fresh' <=> ~IsBubble(if_reg)
    BY <1>1, <1>12 DEF HistoryClock
  <2>3. id_ex'.pc = if_reg.pc /\ id_ex'.slot = slot_id
    BY <1>1, <1>12, IdExStep, IdInWord
  <2>4. (IdThere <=> ~IsBubble(if_reg)) /\ IdPc = if_reg.pc
    BY <2>1 DEF IdThere, IdPc
  <2>5. CASE ~slot0.valid
    <3>1. ~Promoted'
      <4>1. SUFFICES ASSUME branch_event_valid' PROVE FALSE
        BY <1>8
      <4>2. branch_id_fire
        BY <1>1, <4>1, BranchEnters
      <4> QED  BY <1>1, <2>5, <4>2 DEF Deviates, BranchUnfed
    <3> QED  BY <1>3, <1>4, <1>6, <1>7, <2>1, <2>2, <2>3, <2>4, <2>5, <3>1
  <2>6. CASE slot0.valid
    <3>1. IdThere' /\ IdPc' = h
      BY <1>3, <1>4, <1>7, <2>1, <2>6
    <3>2. Promoted' => IfPins.kill /\ fresh'
      <4>1. SUFFICES ASSUME Promoted' PROVE IfPins.kill /\ fresh'
        OBVIOUS
      <4>2. branch_id_fire
        BY <1>1, <1>8, <4>1, BranchEnters
      <4>3. slot_id.mode = "auto" /\ fresh'
        BY <2>3, <4>1 DEF Promoted
      <4> QED  BY <1>5, <4>2, <4>3, SlotIdMode
    <3>3. IfPins.kill => Promoted' /\ id_ex'.slot.auto_pc = PcInc(h) /\ fresh'
      <4>1. SUFFICES ASSUME IfPins.kill
                     PROVE  Promoted' /\ id_ex'.slot.auto_pc = PcInc(h) /\ fresh'
        OBVIOUS
      <4>2. branch_id.valid /\ auto_slot_use(branch_id, slot0, slot1) /\ slot1.valid
        BY <1>5, <4>1 DEF branch_id_fire, auto_slot_use
      <4>3. id_ex'.slot.mode = "auto" /\ id_ex'.slot.auto_pc = slot1.pc
        BY <2>3, <4>2, SlotIdMode
      <4>4. fresh' /\ is_branch_or_jump(id_in.instr)
        BY <1>1, <2>2, <4>2, BranchWires
      <4>5. branch_event_valid'
        BY <1>1, <1>12, <4>4, IdExStep DEF branch_event_valid, is_branch_or_jump, branch_type
      <4>6. slot1.pc = PcInc(h)
        BY <1>1, <2>6, <4>2, SameArithmetic
           DEF CInv, TypeOK, Fetch!Slot, Fetch!Contiguous, Fetch!Head, h
      <4> QED  BY <4>3, <4>4, <4>5, <4>6 DEF Promoted
    <3>4. CASE IfPins.kill
      BY <1>6, <2>2, <2>3, <2>4, <3>1, <3>3, <3>4
    <3>5. CASE ~IfPins.kill
      <4>1. hh = PcInc(h) /\ ~Promoted'
        BY <1>4, <2>1, <2>6, <3>2, <3>5
      <4> QED  BY <1>6, <2>2, <2>3, <2>4, <3>1, <4>1
    <3> QED  BY <3>4, <3>5
  <2> QED  BY <2>5, <2>6
<1> QED  BY <1>9, <1>10, <1>11, <1>12

\* An edge of a fresh EX moves the window by one instruction, others leave it.
LEMMA WindowStep ==
    ASSUME ConfInv, ClockStep, faithful'
    PROVE  /\ ~fresh => Upcoming' = Upcoming
           /\ fresh => /\ Upcoming[1] = id_ex.pc
                       /\ Upcoming' = <<Upcoming[2], Upcoming[3],
                            IF branch_redirect THEN branch_target(id_ex.instr, id_ex.pc4)
                            ELSE PcInc(Upcoming[3])>>
<1>1. CInv /\ FetchedWord /\ BranchFed
  BY DEF ConfInv, WordInv, ClockStep, HistoryClock
<1>2. CASE branch_event_valid
  <2>1. fresh /\ IdThere
    BY <1>1, <1>2 DEF BranchFed, IdThere
  <2>2. Upcoming[1] = id_ex.pc
    BY <1>1, <2>1, WindowCases
  <2> QED  BY <1>2, <2>1, <2>2, WindowAtBranch
<1>3. CASE ~branch_event_valid
  <2>1. ~branch_redirect /\ ~Promoted
    BY <1>1, <1>3, BranchWires DEF Promoted
  <2> DEFINE h == Fetch!Head
  <2>2. Upcoming' = IF IdThere THEN <<IdPc, h, PcInc(h)>>
                    ELSE <<h, PcInc(h), PcInc(PcInc(h))>>
    BY <1>3, WindowBehind
  <2>3. /\ ~fresh => Upcoming = IF IdThere THEN <<IdPc, h, PcInc(h)>>
                                ELSE <<h, PcInc(h), PcInc(PcInc(h))>>
        /\ fresh => Upcoming = IF IdThere THEN <<id_ex.pc, IdPc, h>>
                               ELSE <<id_ex.pc, h, PcInc(h)>>
    BY <1>1, <2>1, WindowCases
  <2> HIDE DEF h
  <2> QED  BY <2>1, <2>2, <2>3
<1> QED  BY <1>2, <1>3

-----------------------------------------------------------------------------
(* The architecture.                                                       *)

\* Shifting an address into a window of three.
LEMMA Shift ==
    ASSUME NEW S, NEW a \in S, NEW b \in S, NEW c \in S, NEW d \in S
    PROVE  [k \in 1 .. 2 + 1 |-> IF k <= 2 THEN <<a, b, c>>[k + 1] ELSE d] = <<b, c, d>>
<1> DEFINE f == [k \in 1 .. 2 + 1 |-> IF k <= 2 THEN <<a, b, c>>[k + 1] ELSE d]
<1>1. \A k \in 1 .. 3 : f[k] = <<b, c, d>>[k] /\ f[k] \in S
  OBVIOUS
<1>2. f \in Seq(S) /\ Len(f) = 3
  <2>1. 2 + 1 = 3
    OBVIOUS
  <2> QED  BY <1>1, <2>1
<1>3. <<b, c, d>> \in Seq(S) /\ Len(<<b, c, d>>) = 3
  OBVIOUS
<1> QED  BY <1>1, <1>2, <1>3, SeqEqual

\* The architecture reads the same instruction set.
LEMMA SameIsa ==
    /\ \A i, a, b : /\ Arch!alu_result(i, a, b) = alu_result(i, a, b)
                    /\ Arch!branch_taken(i, a, b) = branch_taken(i, a, b)
    /\ \A i, p : Arch!branch_target(i, p) = branch_target(i, p)
    /\ \A i : /\ Arch!reg_write(i) = reg_write(i) /\ Arch!mem_read(i) = mem_read(i)
              /\ Arch!mem_write(i) = mem_write(i) /\ Arch!dest_reg(i) = dest_reg(i)
    /\ \A p : Arch!PcInc(p) = PcInc(p) /\ Arch!data_index(p) = data_index(p)
<1>1. \A i, a, b : Arch!alu_result(i, a, b) = alu_result(i, a, b)
  BY DEF Arch!alu_result, alu_result, Arch!alu_src_immediate, alu_src_immediate,
         Arch!SignExtend, SignExtend, Arch!Wrap, Wrap, Arch!Branches, Branches
<1>2. \A i, a, b : Arch!branch_taken(i, a, b) = branch_taken(i, a, b)
  BY DEF Arch!branch_taken, branch_taken
<1>3. /\ \A p : Arch!PcInc(p) = PcInc(p)
      /\ \A p, d : Arch!PcAdd(p, d) = PcAdd(p, d)
  BY DEF Arch!PcInc, PcInc, Arch!PcAdd, PcAdd, Arch!Wrap, Wrap
<1>4. \A i, p : Arch!branch_target(i, p) = branch_target(i, p)
  BY <1>3 DEF Arch!branch_target, branch_target, Arch!Branches, Branches
<1>5. \A i : /\ Arch!reg_write(i) = reg_write(i) /\ Arch!mem_read(i) = mem_read(i)
             /\ Arch!mem_write(i) = mem_write(i) /\ Arch!dest_reg(i) = dest_reg(i)
  BY DEF Arch!reg_write, reg_write, Arch!Arithmetic, Arithmetic, Arch!mem_read, mem_read,
         Arch!mem_write, mem_write, Arch!dest_reg, dest_reg, Arch!reg_dst_rd, reg_dst_rd,
         Arch!RTypes, RTypes
<1>6. \A a : Arch!data_index(a) = data_index(a)
  BY DEF Arch!data_index, data_index
<1> QED  BY <1>1, <1>2, <1>3, <1>4, <1>5, <1>6

\* What a fresh instruction does with the operands in EX is what it does with
\* the architecture's.
LEMMA SameEffect ==
    ASSUME WordInv, OperandsInEx, fresh
    PROVE  LET i == id_ex.instr
               a == ArchRegs[i.rs]
               b == ArchRegs[i.rt]
           IN  /\ reg_write(i) \/ mem_write(i) =>
                    alu_result(i, ex_rs_val, ex_rt_val) = alu_result(i, a, b)
               /\ mem_write(i) => ex_rt_val = b
               /\ branch_taken(i, ex_rs_val, ex_rt_val) <=> branch_taken(i, a, b)
<1> DEFINE i == id_ex.instr
           a == ArchRegs[i.rs]
           b == ArchRegs[i.rt]
<1>1. TypeOK /\ ArchRegs[0] = 0
  BY ArchTypes DEF WordInv, CInv
<1>2. (i.rs = 0 => ex_rs_val = 0) /\ (i.rt = 0 => ex_rt_val = 0)
  BY DEF WordInv, ZeroRegister, ex_rs_val, ex_rt_val, Forward
<1>3. (i.rs \in Sources(i) => ex_rs_val = a) /\ (i.rt \in Sources(i) => ex_rt_val = b)
  BY DEF OperandsInEx
<1>4. i.op \in Arithmetic \cup Branches \cup {"sw"} => ex_rs_val = a /\ ex_rt_val = b
  BY <1>1, <1>2, <1>3 DEF Sources
<1>5. i.op \in {"addi", "lw"} => ex_rs_val = a
  BY <1>1, <1>2, <1>3 DEF Sources, Arithmetic, Branches
<1> HIDE DEF a, b
<1>6. reg_write(i) \/ mem_write(i) => alu_result(i, ex_rs_val, ex_rt_val) = alu_result(i, a, b)
  <2>1. CASE i.op \in Arithmetic \cup {"sw"}
    BY <1>4, <2>1
  <2>2. CASE i.op \in {"addi", "lw"}
    BY <1>5, <2>2 DEF alu_result, alu_src_immediate
  <2> QED  BY <2>1, <2>2 DEF reg_write, mem_write
<1>7. mem_write(i) => ex_rt_val = b
  BY <1>4 DEF mem_write
<1>8. branch_taken(i, ex_rs_val, ex_rt_val) <=> branch_taken(i, a, b)
  <2>1. CASE i.op \in Branches
    BY <1>4, <2>1
  <2>2. CASE i.op \notin Branches
    BY <2>2 DEF branch_taken, Branches
  <2> QED  BY <2>1, <2>2
<1> QED  BY <1>6, <1>7, <1>8 DEF a, b

\* A faithful edge of a fresh EX is a step of the architecture.
LEMMA FreshImplements ==
    ASSUME ConfInv, ClockStep, faithful', fresh
    PROVE  Arch!Step
<1>1. /\ WordInv /\ OperandsInEx /\ TypeOK /\ CInv /\ Clock /\ HistoryClock /\ ~StaleLoad
  BY DEF ConfInv, WordInv, CInv, ClockStep, HistoryClock, Deviates
<1>2. Execute /\ DataMemory /\ Memory /\ WriteBack
  BY <1>1, EdgeParts
<1> DEFINE i == id_ex.instr
           a == ArchRegs[i.rs]
           b == ArchRegs[i.rt]
           alu == alu_result(i, a, b)
           next == IF branch_taken(i, a, b) THEN branch_target(i, PcInc(id_ex.pc))
                   ELSE PcInc(Upcoming[3])
           result == IF mem_read(i) THEN ArchMem[data_index(alu)] ELSE alu
<1>3. imem[Upcoming[1]] = i /\ Upcoming[1] = id_ex.pc /\ id_ex.pc4 = PcInc(id_ex.pc)
  BY <1>1, WindowStep DEF WordInv, FreshWord
<1>4. /\ reg_write(i) \/ mem_write(i) => alu_result(i, ex_rs_val, ex_rt_val) = alu
      /\ mem_write(i) => ex_rt_val = b
      /\ branch_redirect <=> branch_taken(i, a, b)
  BY <1>1, SameEffect DEF branch_redirect
<1>5. Upcoming' = [k \in 1 .. 2 + 1 |-> IF k <= 2 THEN Upcoming[k + 1] ELSE next]
  <2>1. Upcoming' = <<Upcoming[2], Upcoming[3], next>>
    BY <1>3, <1>4, WindowStep
  <2>2. PICK x, y, z \in Pc : Upcoming = <<x, y, z>>
    BY <1>1, WindowType
  <2>3. next \in Pc
    <3>1. id_ex.instr \in Instr /\ id_ex.pc \in Pc
      BY <1>1 DEF TypeOK, IdEx
    <3> QED  BY <2>2, <3>1, PcTypes, TargetType
  <2> HIDE DEF next
  <2>4. [k \in 1 .. 2 + 1 |-> IF k <= 2 THEN <<x, y, z>>[k + 1] ELSE next] = <<y, z, next>>
    BY <2>3, Shift
  <2> QED  BY <2>1, <2>2, <2>4
<1>6. /\ ArchRegs' = IF reg_write(i) /\ dest_reg(i) # 0
                     THEN [ArchRegs EXCEPT ![dest_reg(i)] = result] ELSE ArchRegs
      /\ ArchMem' = IF mem_write(i) THEN [ArchMem EXCEPT ![data_index(alu)] = b] ELSE ArchMem
  <2> DEFINE ex == alu_result(i, ex_rs_val, ex_rt_val)
  <2>1. /\ ArchRegs' = Write(reg_write(i) /\ dest_reg(i) # 0, ArchRegs, dest_reg(i),
                             IF mem_read(i) THEN ArchMem[data_index(ex)] ELSE ex)
        /\ ArchMem' = Write(mem_write(i), ArchMem, data_index(ex), ex_rt_val)
    BY <1>1, <1>2, ArchStep
  <2>2. /\ reg_write(i) \/ mem_write(i) => ex = alu
        /\ mem_write(i) => ex_rt_val = b
    BY <1>4
  <2> HIDE DEF ex, alu, b
  <2> QED  BY <2>1, <2>2 DEF Write
<1>7. /\ Arch!branch_taken(i, a, b) = branch_taken(i, a, b)
      /\ Arch!branch_target(i, Arch!PcInc(id_ex.pc)) = branch_target(i, PcInc(id_ex.pc))
      /\ Arch!alu_result(i, a, b) = alu
      /\ Arch!reg_write(i) = reg_write(i) /\ Arch!mem_read(i) = mem_read(i)
      /\ Arch!mem_write(i) = mem_write(i) /\ Arch!dest_reg(i) = dest_reg(i)
      /\ \A p : Arch!PcInc(p) = PcInc(p) /\ Arch!data_index(p) = data_index(p)
  BY SameIsa
<1>8. 2 + 1 = 3
  OBVIOUS
<1> QED  BY <1>3, <1>5, <1>6, <1>7, <1>8 DEF Arch!Step

\* A faithful edge of an EX that is not fresh leaves the architecture alone:
\* an instruction that is executed again writes what it has written.
LEMMA HeldStutters ==
    ASSUME ConfInv, ClockStep, faithful', ~fresh
    PROVE  UNCHANGED Arch!vars
<1>1. /\ WordInv /\ TypeOK /\ Clock /\ HistoryClock /\ ~StaleLoad /\ ~ReplayDiffers
  BY DEF ConfInv, WordInv, CInv, ClockStep, HistoryClock, Deviates
<1>2. imem' = imem /\ Execute /\ DataMemory /\ Memory /\ WriteBack
  BY <1>1, EdgeParts
<1>3. Upcoming' = Upcoming
  BY WindowStep
<1> DEFINE i == id_ex.instr
           alu == alu_result(i, ex_rs_val, ex_rt_val)
<1>4. /\ ArchRegs' = Write(reg_write(i) /\ dest_reg(i) # 0, ArchRegs, dest_reg(i),
                           IF mem_read(i) THEN ArchMem[data_index(alu)] ELSE alu)
      /\ ArchMem' = Write(mem_write(i), ArchMem, data_index(alu), ex_rt_val)
  BY <1>1, <1>2, ArchStep
<1>5. ArchRegs \in [Reg -> Word] /\ ArchMem \in [DataAddr -> Word] /\ dest_reg(i) \in Reg
  BY <1>1, ArchTypes, InstrFields DEF TypeOK, IdEx, dest_reg
<1>6. /\ reg_write(i) \/ mem_write(i) => alu = ex_mem.alu_result
      /\ mem_write(i) => ex_rt_val = ex_mem.rt_value
  BY <1>1 DEF ReplayDiffers
<1> HIDE DEF alu
<1>7. CASE i = NOP
  BY <1>2, <1>3, <1>4, <1>7, ControlFacts DEF Write, Arch!vars
<1>8. CASE /\ ex_mem.dest = dest_reg(i) /\ ex_mem.reg_write = reg_write(i)
           /\ ex_mem.mem_read = mem_read(i) /\ ex_mem.mem_write = mem_write(i)
  <2>1. ArchMem' = ArchMem
    <3>1. mem_write(i) => ArchMem = [dmem EXCEPT ![data_index(alu)] = ex_rt_val]
      BY <1>6, <1>8 DEF ArchMem, Write
    <3>2. dmem \in [DataAddr -> Word]
      BY <1>1 DEF TypeOK
    <3> QED  BY <1>4, <3>1, <3>2 DEF Write
  <2>2. ArchRegs' = ArchRegs
    <3>1. reg_write(i) /\ dest_reg(i) # 0 => ArchRegs[dest_reg(i)] = MemResult
      BY <1>1, <1>5, <1>8, ArchRegister
    <3>2. mem_read(i) => ArchMem = dmem
      BY <1>8 DEF mem_read, mem_write, ArchMem, Write
    <3>3. reg_write(i) => MemResult = IF mem_read(i) THEN ArchMem[data_index(alu)] ELSE alu
      BY <1>6, <1>8, <3>2 DEF MemResult
    <3> QED  BY <1>4, <1>5, <3>1, <3>3 DEF Write
  <2> QED  BY <1>2, <1>3, <2>1, <2>2 DEF Arch!vars
<1> QED  BY <1>1, <1>7, <1>8 DEF WordInv, HeldWord

-----------------------------------------------------------------------------
(* The theorems.                                                           *)

\* The registers right after reset, whatever memory holds.
CoreReset ==
    /\ fetch_pc = 0 /\ ~slot0.valid /\ ~slot1.valid /\ if_reg = Fetch!Bubble
    /\ id_ex = IdExBubble /\ slot_cycle_pending = FALSE /\ slot_ex = SlotExReset
    /\ ex_mem = ExMemReset /\ mem_wb = MemWbReset
    /\ regs = [r \in Reg |-> 0] /\ dmem = [a \in DataAddr |-> 0]
    /\ fresh = FALSE

\* What follows from the registers being reset.
LEMMA ResetFacts ==
    CInv /\ CoreReset => /\ ConfInv /\ Arch!Start
                         /\ ~scheduler_wait
<1> SUFFICES ASSUME CInv, CoreReset PROVE ConfInv /\ Arch!Start /\ ~scheduler_wait
  OBVIOUS
<1>1. /\ id_ex.instr = NOP /\ id_ex.rs_val = 0 /\ id_ex.rt_val = 0
      /\ id_ex.slot.mode = "manual" /\ slot_ex.mode = "manual"
  BY DEF CoreReset, IdExBubble, NoSlot, SlotExReset
<1>2. ~branch_event_valid /\ ~slot_consumes_pc4 /\ ~slot_inject_active
  BY <1>1, ControlFacts DEF CoreReset, branch_event_valid, slot_consumes_pc4, slot_inject_active
<1>3. IsBubble(if_reg) /\ if_reg.instr = NOP
  BY BubbleFacts DEF CoreReset
<1>4. WordInv
  BY <1>1, <1>3, ZeroTypes DEF CoreReset, WordInv, FetchedWord, ZeroRegister, FreshWord, HeldWord
<1>5. SpacedInv
  BY <1>1, <1>2, <1>3, ControlFacts DEF SpacedInv, SpacedInId, SpacedInEx, AllManual
<1>6. BranchFed /\ OperandsInEx
  BY <1>2 DEF CoreReset, BranchFed, OperandsInEx
<1>7. ~scheduler_wait
  BY <1>2, <1>3, <1>4, BranchWires, IdInWord, ControlFacts DEF WordInv
<1>8. Upcoming = <<0, 1, 2>>
  <2>1. Fetch!Head = 0 /\ ~IdThere /\ ~fresh
    BY <1>2, <1>3 DEF CoreReset, Fetch!Head, IdThere
  <2>2. PcInc(0) = 1 /\ PcInc(PcInc(0)) = 2
    BY WindowAssumption, SizeAssumption DEF PcInc, PcAdd, Wrap
  <2> QED  BY <2>1, <2>2, WindowCases
<1>9. <<0, 1, 2>> = [k \in 1 .. 2 + 1 |-> k - 1]
  <2> DEFINE f == [k \in 1 .. 2 + 1 |-> k - 1]
  <2>1. 2 + 1 = 3
    OBVIOUS
  <2>2. f \in Seq(Int) /\ Len(f) = 3
    BY <2>1
  <2>3. <<0, 1, 2>> \in Seq(Int) /\ Len(<<0, 1, 2>>) = 3
    OBVIOUS
  <2>4. \A k \in 1 .. 3 : f[k] = <<0, 1, 2>>[k]
    OBVIOUS
  <2> HIDE DEF f
  <2>5. f = <<0, 1, 2>>
    BY <2>2, <2>3, <2>4, SeqEqual
  <2> QED  BY <2>5 DEF f
<1>10. ArchRegs = [r \in Reg |-> 0] /\ ArchMem = [a \in DataAddr |-> 0]
  BY DEF CoreReset, ExMemReset, MemWbReset, ArchRegs, ArchMem, Write
<1>11. Arch!Reg = Reg /\ Arch!DataAddr = DataAddr
  BY DEF Arch!Reg, Reg, Arch!DataAddr, DataAddr
<1>12. Arch!Start
  BY <1>8, <1>9, <1>10, <1>11 DEF Arch!Start, Arch!Sequential, Arch!Registers, Arch!Ram
<1> QED  BY <1>4, <1>5, <1>6, <1>7, <1>12 DEF ConfInv

\* The initial states are reset states, and so is what an edge with reset
\* asserted leaves.
LEMMA ResetStates ==
    /\ Init /\ HistoryInit => CoreReset
    /\ ResetStep => CoreReset'
<1>1. Init /\ HistoryInit => CoreReset
  BY DEF Init, HistoryInit, CoreReset, Fetch!ResetState, Fetch!Empty
<1>2. ResetStep => CoreReset'
  BY DEF ResetStep, Reset, HistoryReset, CoreReset, Fetch!Reset, Fetch!Empty, Fetch!Bubble
<1> QED  BY <1>1, <1>2

\* A step that changes nothing keeps the invariant.
LEMMA ConfStutter == ConfInv /\ UNCHANGED <<vars, history>> => ConfInv'
<1> SUFFICES ASSUME ConfInv, UNCHANGED <<vars, history>> PROVE ConfInv'
  OBVIOUS
<1>1. CInv'
  BY StutterInv DEF ConfInv, WordInv
<1> USE DEF vars, fetch_vars, history
<1>2. /\ branch_event_valid' = branch_event_valid /\ slot_consumes_pc4' = slot_consumes_pc4
      /\ IsBubble(if_reg)' = IsBubble(if_reg) /\ Fetch!Head' = Fetch!Head
  BY DEF branch_event_valid, slot_consumes_pc4, IsBubble, Fetch!Head
<1>3. ex_rs_val' = ex_rs_val /\ ex_rt_val' = ex_rt_val /\ ArchRegs' = ArchRegs
  BY DEF ex_rs_val, ex_rt_val, Forward, wb_data, ArchRegs, Write
<1>4. WordInv'
  BY <1>1, <1>2 DEF ConfInv, WordInv, FetchedWord, ZeroRegister, FreshWord, HeldWord
<1>5. SpacedInv'
  BY <1>2, RulesStay DEF ConfInv, SpacedInv, SpacedInId, SpacedInEx, AllManual
<1>6. faithful' => BranchFed' /\ OperandsInEx'
  BY <1>2, <1>3 DEF ConfInv, BranchFed, OperandsInEx
<1> QED  BY <1>4, <1>5, <1>6 DEF ConfInv

\* Every step keeps the invariant.
LEMMA ConfStep == ConfInv /\ [ClockStep \/ ResetStep]_<<vars, history>> => ConfInv'
<1> SUFFICES ASSUME ConfInv, ClockStep \/ ResetStep PROVE ConfInv'
  BY ConfStutter
<1>1. CASE ClockStep
  BY <1>1, WordStep, SpacedStep, BranchFedStep, OperandsStep DEF ConfInv
<1>2. CASE ResetStep
  <2>1. CInv' /\ CoreReset'
    BY <1>2, ResetInv, ResetStates DEF ConfInv, WordInv, ResetStep
  <2>2. (CInv /\ CoreReset => ConfInv)'
    BY ResetFacts, PTL
  <2> QED  BY <2>1, <2>2
<1> QED  BY <1>1, <1>2

\* The invariant holds in every reachable state of the core with its history.
THEOREM ConformanceInvariance == ConformanceSpec => []ConfInv
<1>1. Init /\ HistoryInit => ConfInv
  BY InitInv, ResetFacts, ResetStates
<1> QED  BY <1>1, ConfStep, PTL DEF ConformanceSpec, ClockStep, ResetStep

\* Up to the first deviation a branch that EX shows has not been in EX before,
\* so the counters count every executed branch once.
THEOREM BranchesCountedOnce == ConformanceSpec => []CountsBranchesOnce
<1>1. ConfInv => CountsBranchesOnce
  BY DEF ConfInv, BranchFed, CountsBranchesOnce
<1> QED  BY <1>1, ConformanceInvariance, PTL

\* What the invariant says of programs that keep both rules.
LEMMA RulesFlow == ConfInv => FilledSlotsFlow
<1> SUFFICES ASSUME ConfInv, ShadowFree, SlotsFilled
             PROVE  /\ ~scheduler_wait /\ ~slot_inject_active
                    /\ Deviates => StaleOperand \/ StaleLoad
  BY DEF FilledSlotsFlow
<1>1. /\ WordInv /\ SpacedInId /\ SpacedInEx /\ AllManual /\ CInv /\ FetchedWord
  BY DEF ConfInv, SpacedInv, WordInv
<1>2. ~scheduler_wait /\ ~slot_inject_active /\ ~slot_consumes_pc4
  BY <1>1, ManualWires
<1>3. ~ControlInSlot
  BY <1>1, SpacedNotBoth DEF ControlInSlot
<1>4. ~BranchUnfed
  BY <1>1, SpacedBranch DEF BranchUnfed, branch_id_fire
<1>5. ~NextSwallowed /\ ~PromotionLost
  BY <1>1, <1>2 DEF NextSwallowed, PromotionLost, AllManual
<1>6. ~ReplayDiffers
  BY <1>1, ControlFacts DEF ReplayDiffers, AllManual
<1> QED  BY <1>2, <1>3, <1>4, <1>5, <1>6 DEF Deviates

\* A program with spaced control instructions and safe words behind them is
\* never held nor injected into, and departs from the architecture only by an
\* operand or a load that is stale.
THEOREM RulesKeepFlow == ConformanceSpec => []FilledSlotsFlow
BY RulesFlow, ConformanceInvariance, PTL

\* With spaced control instructions a wait of the scheduler lasts one cycle: the
\* buffer is filled up behind the waiting branch while EX is held.
THEOREM WaitsAreShort == ConformanceSpec => WaitsOneCycle
<1>1. ConfInv /\ [ClockStep \/ ResetStep]_<<vars, history>>
        => [ShadowFree /\ scheduler_wait => ~scheduler_wait']_vars
  <2> SUFFICES ASSUME ConfInv, ClockStep \/ ResetStep, ShadowFree, scheduler_wait
               PROVE  ~scheduler_wait'
    BY DEF vars, history
  <2>1. WordInv /\ SpacedInId /\ SpacedInEx /\ CInv /\ FetchedWord
    BY DEF ConfInv, SpacedInv, WordInv
  <2>2. CASE ClockStep
    <3>1. branch_id.valid
      BY <2>1, BranchWires
    <3>2. slot0.valid /\ ~IfPins.redirect /\ IfPins.stall
      BY <2>1, <3>1, SpacedBranch DEF IfPins
    <3>3. slot1'.valid
      BY <2>1, <2>2, <3>2, EdgeParts, FetchAdvance DEF ClockStep
    <3> QED  BY <3>3 DEF scheduler_wait, wait_for_more_candidates
  <2>3. CASE ResetStep
    <3>1. CInv' /\ CoreReset'
      BY <2>1, <2>3, ResetInv, ResetStates DEF ResetStep
    <3>2. (CInv /\ CoreReset => ~scheduler_wait)'
      BY ResetFacts, PTL
    <3> QED  BY <3>1, <3>2
  <2> QED  BY <2>2, <2>3
<1> QED  BY <1>1, ConformanceInvariance, PTL
         DEF ConformanceSpec, ClockStep, ResetStep, WaitsOneCycle

\* Up to the first deviation the pipeline implements the architecture with two
\* slots: each clock edge is one instruction of it, with its operands, or none,
\* whatever waits, bubbles, injections, kills, flushes and redirects do.
THEOREM ImplementsArchitecture == ConformanceSpec => ImplementsDelayedBranch
<1>1. Init /\ HistoryInit => Arch!Start
  BY InitInv, ResetFacts, ResetStates
<1>2. ConfInv /\ [ClockStep \/ ResetStep]_<<vars, history>>
        => [faithful' => Arch!Next]_(Arch!vars)
  <2> SUFFICES ASSUME ConfInv, [ClockStep \/ ResetStep]_<<vars, history>>, faithful'
               PROVE  Arch!Next \/ UNCHANGED Arch!vars
    OBVIOUS
  <2>1. CASE ClockStep
    <3>1. imem' = imem
      BY <2>1, EdgeParts DEF ClockStep
    <3> QED  BY <2>1, <3>1, FreshImplements, HeldStutters DEF Arch!Next
  <2>2. CASE ResetStep
    <3>1. CInv' /\ CoreReset' /\ imem' = imem
      BY <2>2, ResetInv, ResetStates DEF ResetStep, ConfInv, WordInv, Reset
    <3>2. (CInv /\ CoreReset => Arch!Start)'
      BY ResetFacts, PTL
    <3>3. Arch!Start'
      BY <3>1, <3>2
    <3> QED  BY <3>1, <3>3 DEF Arch!Next, Arch!Start, Arch!Restart
  <2>3. CASE UNCHANGED <<vars, history>>
    <3>1. ArchRegs' = ArchRegs /\ ArchMem' = ArchMem
      BY <2>3 DEF vars, fetch_vars, ArchRegs, ArchMem, Write, wb_data, data_index
    <3>2. Upcoming' = Upcoming
      <4>1. /\ Buffered' = Buffered /\ branch_event_valid' = branch_event_valid
            /\ slot_consumes_pc4' = slot_consumes_pc4 /\ IsBubble(if_reg)' = IsBubble(if_reg)
        BY <2>3 DEF vars, fetch_vars, history, Buffered, Before, branch_event_valid,
                    slot_consumes_pc4, IsBubble
      <4>2. fresh' = fresh /\ id_ex' = id_ex /\ slot_ex' = slot_ex /\ if_reg' = if_reg
        BY <2>3 DEF vars, fetch_vars, history
      <4> QED  BY <4>1, <4>2 DEF Upcoming, Before
    <3> QED  BY <2>3, <3>1, <3>2 DEF Arch!vars, vars, fetch_vars
  <2> QED  BY <2>1, <2>2, <2>3
<1> QED  BY <1>1, <1>2, ConformanceInvariance, PTL
         DEF ConformanceSpec, ClockStep, ResetStep, ImplementsDelayedBranch

\* A program that keeps both rules, and that meets neither a stale operand nor a
\* stale load, is executed by the core as the two-slot architecture executes it,
\* for good: nothing else in the pipeline departs from the architecture.
THEOREM RuledProgramsExecute ==
    ConformanceSpec /\ [](ShadowFree /\ SlotsFilled) /\ [](~StaleOperand /\ ~StaleLoad)
        => Arch!Start /\ [][Arch!Next]_(Arch!vars)
<1>1. FilledSlotsFlow /\ faithful /\ (ShadowFree /\ SlotsFilled)
        /\ (~StaleOperand /\ ~StaleLoad) /\ [ClockStep \/ ResetStep]_<<vars, history>>
        => faithful'
  BY DEF FilledSlotsFlow, ClockStep, ResetStep, HistoryClock, HistoryReset, history
<1>2. Init /\ HistoryInit => faithful
  BY DEF HistoryInit
<1>3. faithful' /\ [faithful' => Arch!Next]_(Arch!vars) => [Arch!Next]_(Arch!vars)
  OBVIOUS
<1> QED  BY <1>1, <1>2, <1>3, RulesKeepFlow, ImplementsArchitecture, PTL
         DEF ConformanceSpec, ClockStep, ResetStep, ImplementsDelayedBranch
=============================================================================
