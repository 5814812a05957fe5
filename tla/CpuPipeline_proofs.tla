------------------------- MODULE CpuPipeline_proofs -------------------------
(***************************************************************************)
(* Proofs about the composed core for every machine size and program.      *)
(* The fetch unit's lemmas hold of it only if its inputs are legal, and    *)
(* they are legal only if nothing that is injected is a control            *)
(* instruction, so the buffer's invariant and PromotionSafe are proved     *)
(* together: CInv is inductive and neither half is.                        *)
(* IfStage_proofs is instantiated as FP, whose definitions are those of    *)
(* Fetch under another name.                                               *)
(***************************************************************************)
EXTENDS CpuPipeline, DelaySlotScheduler_proofs

FP == INSTANCE IfStage_proofs
        WITH INST_NOP <- NOP, pins <- IfPins, Programs <- [Pc -> Instr]

CInv == TypeOK /\ Fetch!Coherent /\ Fetch!Contiguous /\ PromotionSafe

PinsLegal == IfPins \in Fetch!Pins /\ Fetch!PinsOK

-----------------------------------------------------------------------------
(* Wires.                                                                  *)

\* The core's and the fetch unit's address arithmetic are the same.
LEMMA SameArithmetic ==
    Fetch!Pc = Pc /\ (\A p \in Pc : Fetch!PcInc(p) = PcInc(p))
BY SizeAssumption DEF Fetch!Pc, Pc, Fetch!PcInc, PcInc, PcAdd, Wrap

\* What ID decodes, fetched or injected, is an instruction with an address.
LEMMA IdInType ==
    ASSUME TypeOK
    PROVE  id_in.instr \in Instr /\ id_in.pc \in Pc /\ id_in.pc4 \in Pc
<1>1. CASE ~slot_inject_active
  BY <1>1, SameArithmetic DEF id_in, TypeOK, Fetch!IfReg
<1>2. CASE slot_inject_active
  BY <1>2, NopType, PcTypes DEF id_in, TypeOK, SlotEx
<1> QED  BY <1>1, <1>2

\* An operand has the width of a word, forwarded or not.
LEMMA OperandTypes ==
    ASSUME TypeOK
    PROVE  wb_data \in Word /\ ex_rs_val \in Word /\ ex_rt_val \in Word
<1>1. wb_data \in Word
  BY DEF TypeOK, MemWb, wb_data
<1>2. \A r, v : v \in Word => Forward(r, v) \in Word
  BY <1>1 DEF TypeOK, ExMem, Forward
<1> QED  BY <1>1, <1>2 DEF TypeOK, IdEx, ex_rs_val, ex_rt_val

\* The wires into if_stage.v have their widths.
LEMMA PinsType == TypeOK => IfPins \in Fetch!Pins
<1> SUFFICES ASSUME TypeOK PROVE IfPins \in Fetch!Pins
  OBVIOUS
<1>1. branch_target(id_ex.instr, id_ex.pc4) \in Pc
  BY TargetType DEF TypeOK, IdEx
<1>2. /\ (load_use_hazard \/ slot_inject_active \/ scheduler_wait) \in BOOLEAN
      /\ slot_consumes_pc4 \in BOOLEAN
      /\ branch_redirect \in BOOLEAN
      /\ (branch_id_fire /\ auto_slot_use(branch_id, slot0, slot1)) \in BOOLEAN
  BY DEF slot_consumes_pc4, branch_redirect, branch_taken, TypeOK
<1> QED  BY <1>1, <1>2, SameArithmetic DEF IfPins, Fetch!Pins

\* While something is injected, ID holds no control instruction.
LEMMA InjectedIsNoBranch ==
    ASSUME TypeOK, PromotionSafe, slot_inject_active
    PROVE  ~branch_id.valid
<1>1. ~is_branch_or_jump(NOP)
  BY DEF NOP, is_branch_or_jump, branch_type, Branches
<1>2. id_in.instr = IF slot_ex.mode = "auto" THEN slot_ex.auto_instr ELSE NOP
  BY DEF id_in
<1> QED  BY <1>1, <1>2 DEF branch_id, PromotionSafe, Inert

\* The core keeps to what if_stage.v assumes of its environment.
LEMMA PinsAreLegal == CInv => PinsLegal
<1> SUFFICES ASSUME CInv PROVE PinsLegal
  OBVIOUS
<1>1. IfPins \in Fetch!Pins
  BY PinsType DEF CInv
<1>2. IfPins.flush => IfPins.stall
  BY DEF IfPins, slot_consumes_pc4, slot_inject_active
<1>3. IfPins.kill => slot1.valid /\ ~IfPins.stall
  <2>1. branch_id_fire => branch_id.valid /\ ~load_use_hazard /\ ~scheduler_wait
    BY DEF branch_id_fire
  <2>2. branch_id_fire => ~slot_inject_active
    BY <2>1, InjectedIsNoBranch DEF CInv
  <2>3. auto_slot_use(branch_id, slot0, slot1) => slot1.valid
    BY DEF auto_slot_use
  <2> QED  BY <2>1, <2>2, <2>3 DEF IfPins
<1> QED  BY <1>1, <1>2, <1>3 DEF PinsLegal, Fetch!PinsOK

-----------------------------------------------------------------------------
(* The fetch unit inside the core.                                         *)

\* What IfStage asks of its constants holds of the values the core gives them.
LEMMA FetchAssumptions == FP!MaxPcAssumption /\ FP!ProgramAssumption
BY NopType, SizeAssumption DEF Pc, FP!MaxPcAssumption, FP!ProgramAssumption

\* The invariant of the core gives that of the fetch unit.
LEMMA FetchInv == CInv => FP!Inv
<1> SUFFICES ASSUME CInv PROVE FP!Inv
  OBVIOUS
<1>1. IfPins \in Fetch!Pins /\ Fetch!PinsOK
  BY PinsAreLegal DEF PinsLegal
<1>2. FP!Pc = Pc /\ \A p \in Pc : FP!PcInc(p) = Fetch!PcInc(p)
  BY DEF FP!Pc, Pc, FP!PcInc, Fetch!PcInc
<1>3. FP!TypeOK
  BY <1>1, <1>2, SameArithmetic
     DEF CInv, TypeOK, FP!TypeOK, FP!Slot, FP!IfReg, FP!Pins, Fetch!Slot, Fetch!IfReg, Fetch!Pins
<1>4. FP!Coherent /\ FP!PinsOK
  BY <1>1 DEF CInv, FP!Coherent, Fetch!Coherent, FP!PinsOK, Fetch!PinsOK
<1>5. FP!Contiguous
  BY SameArithmetic, <1>2 DEF CInv, TypeOK, FP!Contiguous, Fetch!Contiguous, Fetch!Slot
<1> QED  BY <1>3, <1>4, <1>5 DEF FP!Inv

\* An edge of the core is an edge of the fetch unit.
LEMMA FetchEdges == (Fetch!Edge => FP!Edge) /\ (Fetch!Reset => FP!Reset)
<1> USE DEF FP!Drop, Fetch!Drop, FP!Bubble, Fetch!Bubble, FP!Empty, Fetch!Empty
<1>1. \A p : FP!PcInc(p) = Fetch!PcInc(p)
  BY DEF FP!PcInc, Fetch!PcInc
<1>2. FP!Fetched = Fetch!Fetched /\ FP!Cand1 = Fetch!Cand1
  BY DEF FP!Fetched, Fetch!Fetched, FP!Cand1, Fetch!Cand1
<1>3. \A s0, s1 : Fetch!Refill(s0, s1) => FP!Refill(s0, s1)
  BY <1>1, <1>2 DEF FP!Refill, Fetch!Refill
<1>4. Fetch!Deliver => FP!Deliver
  BY <1>1, <1>2, <1>3 DEF FP!Deliver, Fetch!Deliver
<1>5. /\ Fetch!Starve => FP!Starve
      /\ Fetch!Hold => FP!Hold
      /\ Fetch!Squash => FP!Squash
  BY <1>2, <1>3 DEF FP!Starve, Fetch!Starve, FP!Hold, Fetch!Hold, FP!Squash, Fetch!Squash
<1>6. Fetch!Reset => FP!Reset
  BY DEF FP!Reset, Fetch!Reset
<1> QED  BY <1>4, <1>5, <1>6 DEF FP!Edge, Fetch!Edge

\* An edge keeps the fetch unit's share of the invariant.
LEMMA FetchStep ==
    ASSUME CInv, imem' = imem, Fetch!Edge \/ Fetch!Reset
    PROVE  /\ fetch_pc' \in Pc /\ if_reg' \in Fetch!IfReg
           /\ slot0' \in Fetch!Slot /\ slot1' \in Fetch!Slot
           /\ Fetch!Coherent' /\ Fetch!Contiguous'
<1>1. FP!Inv /\ (FP!Edge \/ FP!Reset)
  BY FetchInv, FetchEdges
<1>2. /\ fetch_pc' \in FP!Pc /\ slot0' \in FP!Slot /\ slot1' \in FP!Slot
      /\ FP!Chain(slot0, slot1)'
      /\ if_reg' \in FP!IfReg
  BY <1>1, FetchAssumptions, FP!EdgeKeepsChain
<1>3. FP!Pc = Pc /\ Fetch!Pc = Pc /\ FP!Slot = Fetch!Slot /\ FP!IfReg = Fetch!IfReg
  BY DEF FP!Pc, Fetch!Pc, Pc, FP!Slot, Fetch!Slot, FP!IfReg, Fetch!IfReg
<1>4. \A p : FP!PcInc(p) = Fetch!PcInc(p)
  BY DEF FP!PcInc, Fetch!PcInc
<1>5. Fetch!Coherent' /\ Fetch!Contiguous'
  BY <1>2, <1>4 DEF FP!Chain, Fetch!Coherent, Fetch!Contiguous
<1> QED  BY <1>2, <1>3, <1>5

\* What an edge of the core does to the stream of the fetch unit.
LEMMA FetchAdvance ==
    ASSUME CInv, imem' = imem, Fetch!Edge
    PROVE  /\ Fetch!Head \in Pc
           /\ if_reg' = IF IfPins.flush \/ (~IfPins.stall /\ ~slot0.valid) THEN Fetch!Bubble
                        ELSE IF IfPins.stall THEN if_reg
                        ELSE [pc |-> Fetch!Head, pc4 |-> PcInc(Fetch!Head),
                              instr |-> imem[Fetch!Head]]
           /\ Fetch!Head' = IF IfPins.redirect THEN IfPins.target
                            ELSE IF IfPins.stall \/ ~slot0.valid THEN Fetch!Head
                            ELSE IF IfPins.kill THEN PcInc(PcInc(Fetch!Head))
                            ELSE PcInc(Fetch!Head)
           /\ ~IfPins.redirect => /\ slot0'.valid
                                  /\ IfPins.stall /\ slot0.valid => slot1'.valid
<1>1. FP!Inv /\ FP!Edge
  BY FetchInv, FetchEdges
<1>2. FP!Head = Fetch!Head /\ FP!Head' = Fetch!Head' /\ FP!Bubble = Fetch!Bubble
  BY DEF FP!Head, Fetch!Head, FP!Bubble, Fetch!Bubble
<1>3. Fetch!Head \in Pc
  BY SameArithmetic DEF CInv, TypeOK, Fetch!Slot, Fetch!Head
<1>4. \A p \in Pc : FP!PcInc(p) = PcInc(p) /\ PcInc(p) \in Pc
  BY SameArithmetic, PcTypes DEF FP!PcInc, Fetch!PcInc
<1>5. /\ if_reg' = IF IfPins.flush \/ (~IfPins.stall /\ ~slot0.valid) THEN FP!Bubble
                   ELSE IF IfPins.stall THEN if_reg
                   ELSE [pc |-> FP!Head, pc4 |-> FP!PcInc(FP!Head), instr |-> imem[FP!Head]]
      /\ FP!Head' = IF IfPins.redirect THEN IfPins.target
                    ELSE IF IfPins.stall \/ ~slot0.valid THEN FP!Head
                    ELSE IF IfPins.kill THEN FP!PcInc(FP!PcInc(FP!Head)) ELSE FP!PcInc(FP!Head)
      /\ ~IfPins.redirect => slot0'.valid /\ (IfPins.stall /\ slot0.valid => slot1'.valid)
  BY <1>1, FetchAssumptions, FP!EdgeFacts
<1> QED  BY <1>2, <1>3, <1>4, <1>5

-----------------------------------------------------------------------------
(* The rest of the core.                                                   *)

\* What a branch takes along from ID is safe, and is what its mode says.
LEMMA SlotIdFacts ==
    ASSUME CInv
    PROVE  /\ slot_id \in SlotChoice
           /\ slot_id.mode = "auto" =>
                LET i == slot_id.auto_instr
                IN  /\ is_branch_or_jump(id_in.instr)
                    /\ Inert(i) /\ i = imem[slot_id.auto_pc]
                    /\ reg_write(i) => dest_reg(i) \notin {id_in.instr.rs, id_in.instr.rt} \ {0}
<1> DEFINE auto == auto_slot_use(branch_id, slot0, slot1)
<1>1. slot1 \in Fetch!Slot /\ Fetch!Pc = Pc
  BY SameArithmetic DEF CInv, TypeOK
<1>2. /\ slot_id.mode \in SlotModes
      /\ slot_id.mode = "auto" => auto
      /\ slot_id.auto_instr = IF auto THEN slot1.instr ELSE NOP
      /\ slot_id.auto_pc = IF auto THEN slot1.pc ELSE 0
      /\ slot_id.manual_is_nop = manual_slot_is_nop(branch_id, slot0)
      /\ slot_id = [mode |-> slot_id.mode, auto_instr |-> slot_id.auto_instr,
                    auto_pc |-> slot_id.auto_pc, manual_is_nop |-> slot_id.manual_is_nop]
  BY DEF slot_id, SlotModes
<1>3. slot_id \in SlotChoice
  BY <1>1, <1>2, NopType, ZeroTypes DEF SlotChoice, Fetch!Slot, manual_slot_is_nop
<1>4. ASSUME auto
      PROVE  /\ branch_id.valid /\ slot1.valid
             /\ safe_candidate(slot1.instr, branch_id.rs, branch_id.rt)
  BY <1>4 DEF auto_slot_use
<1>5. ASSUME auto
      PROVE  /\ is_branch_or_jump(id_in.instr)
             /\ Inert(slot1.instr) /\ slot1.instr = imem[slot1.pc]
             /\ reg_write(slot1.instr)
                  => dest_reg(slot1.instr) \notin {id_in.instr.rs, id_in.instr.rt} \ {0}
  <2>1. /\ branch_id.rs = id_in.instr.rs /\ branch_id.rt = id_in.instr.rt
        /\ branch_id.valid = is_branch_or_jump(id_in.instr)
    BY DEF branch_id
  <2>2. id_in.instr.rs \in Reg /\ id_in.instr.rt \in Reg
    BY IdInType, InstrFields DEF CInv
  <2>3. slot1.instr \in Instr
    BY <1>1 DEF Fetch!Slot
  <2>4. safe_candidate(slot1.instr, id_in.instr.rs, id_in.instr.rt)
    BY <1>4, <1>5, <2>1
  <2>5. /\ Inert(slot1.instr)
        /\ reg_write(slot1.instr)
             => dest_reg(slot1.instr) \notin {id_in.instr.rs, id_in.instr.rt} \ {0}
    BY <2>2, <2>3, <2>4, SafeCandidateInert DEF Inert
  <2> QED  BY <1>4, <1>5, <2>1, <2>5 DEF CInv, Fetch!Coherent
<1> HIDE DEF auto
<1> QED  BY <1>2, <1>3, <1>5

\* An edge loads the registers behind ID/EX with values of their widths.
LEMMA RestTypes ==
    ASSUME TypeOK, RestOfCore
    PROVE  /\ imem' \in [Pc -> Instr]
           /\ slot_cycle_pending' \in BOOLEAN /\ slot_ex' \in SlotEx
           /\ ex_mem' \in ExMem /\ mem_wb' \in MemWb
           /\ regs' \in [Reg -> Word] /\ dmem' \in [DataAddr -> Word] /\ rdata' \in Word
           /\ stats' \in Stats
<1>1. imem' \in [Pc -> Instr]
  BY DEF TypeOK, RestOfCore
<1>2. slot_cycle_pending' \in BOOLEAN /\ slot_ex' \in SlotEx
  BY DEF TypeOK, RestOfCore, SlotControl, branch_event_valid, is_branch_or_jump, IdEx, SlotChoice, SlotEx
<1>3. ex_mem' \in ExMem
  <2>1. id_ex.instr \in Instr
    BY DEF TypeOK, IdEx
  <2>2. alu_result(id_ex.instr, ex_rs_val, ex_rt_val) \in Word
    BY <2>1, AluType, OperandTypes
  <2>3. dest_reg(id_ex.instr) \in Reg
    BY <2>1, InstrFields DEF dest_reg
  <2>4. /\ reg_write(id_ex.instr) \in BOOLEAN /\ mem_read(id_ex.instr) \in BOOLEAN
        /\ mem_write(id_ex.instr) \in BOOLEAN
    BY DEF reg_write, mem_read, mem_write
  <2> QED  BY <2>2, <2>3, <2>4, OperandTypes DEF RestOfCore, Execute, ExMem
<1>4. dmem' \in [DataAddr -> Word] /\ rdata' \in Word
  <2>1. data_index(ex_mem.alu_result) \in DataAddr /\ ex_mem.rt_value \in Word
    BY DataIndexType DEF TypeOK, ExMem
  <2> QED  BY <2>1 DEF TypeOK, RestOfCore, DataMemory
<1>5. mem_wb' \in MemWb
  BY DEF TypeOK, RestOfCore, Memory, ExMem, MemWb
<1>6. regs' \in [Reg -> Word]
  <2>1. mem_wb.dest \in Reg /\ wb_data \in Word
    BY OperandTypes DEF TypeOK, MemWb
  <2> QED  BY <2>1 DEF TypeOK, RestOfCore, WriteBack
<1>7. stats' \in Stats
  <2> DEFINE more(n) == IF n = CountMod - 1 THEN 0 ELSE n + 1
             C == {"cycles", "branches", "manual", "auto", "nop"}
  <2>1. \A n \in Count : more(n) \in Count
    BY CountModAssumption DEF Count
  <2>2. DOMAIN stats = C /\ \A c \in C : stats[c] \in Count
    BY DEF TypeOK, Stats
  <2>3. stats' = [c \in C |->
                    IF \/ c = "cycles"
                       \/ branch_event_valid /\ c \in {"branches", SlotKind}
                    THEN more(stats[c]) ELSE stats[c]]
    BY <2>2 DEF RestOfCore, Statistics
  <2> HIDE DEF more
  <2>4. \A c \in C : stats'[c] \in Count
    BY <2>1, <2>2, <2>3
  <2> QED  BY <2>3, <2>4 DEF Stats
<1> QED  BY <1>1, <1>2, <1>3, <1>4, <1>5, <1>6, <1>7

\* A register of the core is reset to a value of its width.
LEMMA ResetTypes ==
    /\ IdExBubble \in IdEx /\ SlotExReset \in SlotEx
    /\ ExMemReset \in ExMem /\ MemWbReset \in MemWb
    /\ [r \in Reg |-> 0] \in [Reg -> Word] /\ [a \in DataAddr |-> 0] \in [DataAddr -> Word]
    /\ [c \in {"cycles", "branches", "manual", "auto", "nop"} |-> 0] \in Stats
    /\ IdExBubble.slot.mode # "auto" /\ SlotExReset.mode # "auto"
<1>1. 0 \in Count
  BY CountModAssumption DEF Count
<1> QED  BY <1>1, NopType, ZeroTypes
         DEF IdExBubble, NoSlot, IdEx, SlotChoice, SlotModes, SlotExReset, SlotEx,
             ExMemReset, ExMem, MemWbReset, MemWb, Stats

\* The initial states satisfy the invariant.
LEMMA InitInv == Init => CInv
<1> SUFFICES ASSUME Init PROVE CInv
  OBVIOUS
<1>1. /\ fetch_pc \in Pc /\ slot0 \in Fetch!Slot /\ slot1 \in Fetch!Slot
      /\ if_reg \in Fetch!IfReg /\ ~slot0.valid /\ ~slot1.valid
  BY SameArithmetic, NopType, ZeroTypes
     DEF Init, Fetch!ResetState, Fetch!Empty, Fetch!Bubble, Fetch!Slot, Fetch!IfReg
<1>2. TypeOK
  BY <1>1, ResetTypes, ZeroTypes, ProgramsAssumption DEF Init, TypeOK
<1>3. Fetch!Coherent /\ Fetch!Contiguous
  BY <1>1 DEF Fetch!Coherent, Fetch!Contiguous
<1>4. PromotionSafe
  BY ResetTypes DEF Init, PromotionSafe
<1> QED  BY <1>2, <1>3, <1>4 DEF CInv

\* A clock edge without reset keeps the invariant: what is promoted moves from
\* the buffer to ID/EX when its branch issues, and from there to slot_ex.
LEMMA ClockInv == CInv /\ Clock => CInv'
<1> SUFFICES ASSUME CInv, Clock PROVE CInv'
  OBVIOUS
<1>1. RestOfCore
  BY DEF Clock, Wait, LoadUseBubble, Issue
<1>2. imem' = imem /\ Fetch!Edge /\ SlotControl
  BY <1>1 DEF RestOfCore
<1>3. /\ fetch_pc' \in Pc /\ if_reg' \in Fetch!IfReg
      /\ slot0' \in Fetch!Slot /\ slot1' \in Fetch!Slot
      /\ Fetch!Coherent' /\ Fetch!Contiguous'
  BY <1>2, FetchStep
<1> DEFINE Promoted(x) ==
             x.slot.mode = "auto" =>
               LET i == x.slot.auto_instr
               IN  /\ is_branch_or_jump(x.instr)
                   /\ Inert(i) /\ i = imem[x.slot.auto_pc]
                   /\ reg_write(i) => dest_reg(i) \notin {x.instr.rs, x.instr.rt} \ {0}
<1>4. id_ex' \in IdEx /\ Promoted(id_ex')
  <2>1. CASE Wait
    BY <2>1 DEF Wait, CInv, TypeOK, PromotionSafe
  <2>2. CASE LoadUseBubble
    BY <2>2, ResetTypes DEF LoadUseBubble
  <2>3. CASE Issue
    <3>1. \A r \in Reg : ReadReg(r) \in Word
      BY ZeroTypes DEF CInv, TypeOK, ReadReg
    <3>2. id_in.instr.rs \in Reg /\ id_in.instr.rt \in Reg
      BY IdInType, InstrFields DEF CInv
    <3>3. id_ex' \in IdEx
      BY <2>3, <3>1, <3>2, IdInType, SlotIdFacts DEF CInv, Issue, IdEx
    <3>4. id_ex'.slot = slot_id /\ id_ex'.instr = id_in.instr
      BY <2>3 DEF Issue
    <3>5. Promoted(id_ex')
      BY <3>4, SlotIdFacts
    <3> QED  BY <3>3, <3>5
  <2> QED  BY <2>1, <2>2, <2>3 DEF Clock
<1>5. slot_ex'.mode = "auto" =>
        Inert(slot_ex'.auto_instr) /\ slot_ex'.auto_instr = imem[slot_ex'.auto_pc]
  BY <1>2 DEF SlotControl, CInv, PromotionSafe
<1>6. TypeOK'
  BY <1>1, <1>3, <1>4, RestTypes DEF CInv, TypeOK
<1>7. PromotionSafe'
  BY <1>2, <1>4, <1>5 DEF PromotionSafe, Inert
<1> QED  BY <1>3, <1>6, <1>7 DEF CInv

\* An edge with reset asserted keeps the invariant.
LEMMA ResetInv == CInv /\ Reset => CInv'
<1> SUFFICES ASSUME CInv, Reset PROVE CInv'
  OBVIOUS
<1>1. imem' = imem /\ Fetch!Reset
  BY DEF Reset
<1>2. /\ fetch_pc' \in Pc /\ if_reg' \in Fetch!IfReg
      /\ slot0' \in Fetch!Slot /\ slot1' \in Fetch!Slot
      /\ Fetch!Coherent' /\ Fetch!Contiguous'
  BY <1>1, FetchStep
<1>3. TypeOK'
  BY <1>1, <1>2, ResetTypes, ZeroTypes DEF CInv, TypeOK, Reset
<1>4. PromotionSafe'
  BY ResetTypes DEF PromotionSafe, Reset
<1> QED  BY <1>2, <1>3, <1>4 DEF CInv

\* Nothing the invariant reads changes in a step that stutters.
LEMMA StutterInv == CInv /\ UNCHANGED vars => CInv'
BY DEF CInv, vars, fetch_vars, TypeOK, Fetch!Coherent, Fetch!Contiguous, PromotionSafe

\* Every step keeps the invariant.
LEMMA NextInv == CInv /\ [Next]_vars => CInv'
BY ClockInv, ResetInv, StutterInv DEF Next

\* The invariant holds in every reachable state of the core.
THEOREM CoreInvariance == Spec => []CInv
BY InitInv, NextInv, PTL DEF Spec

\* The registers of the core always hold values of their widths, whatever the
\* program does.
THEOREM CoreTypeCorrect == Spec => []TypeOK
<1>1. CInv => TypeOK
  BY DEF CInv
<1> QED  BY <1>1, CoreInvariance, PTL

\* The instruction a branch carries along for its delay slot is the program's
\* word at the address it is issued under, is neither a control instruction nor
\* a memory access to the decoder, and leaves the branch's operands alone.
THEOREM PromotionsSafe == Spec => []PromotionSafe
<1>1. CInv => PromotionSafe
  BY DEF CInv
<1> QED  BY <1>1, CoreInvariance, PTL

\* A step that leaves the registers alone leaves the wires to if_stage.v alone.
LEMMA WiresStutter == UNCHANGED vars => UNCHANGED <<fetch_vars, IfPins>>
BY DEF vars, fetch_vars, IfPins, load_use_hazard, slot_inject_active, scheduler_wait,
       slot_consumes_pc4, branch_redirect, branch_id_fire, branch_id, id_in, ex_rs_val,
       ex_rt_val, Forward, wb_data

\* Every behaviour of the core is one of the fetch unit in an environment that
\* keeps to its assumptions, so all that is proved of if_stage.v holds in the core.
THEOREM FetchUsedLegally == Spec => FetchSpec
<1>1. Init => Fetch!ResetState /\ imem \in [Pc -> Instr]
  BY ProgramsAssumption DEF Init
<1>2. Init /\ PinsLegal => Fetch!Init
  BY <1>1 DEF PinsLegal, Fetch!Init
<1>3. [Next]_vars /\ PinsLegal' => [Fetch!Next]_(Fetch!vars)
  <2> SUFFICES ASSUME [Next]_vars, PinsLegal' PROVE [Fetch!Next]_(Fetch!vars)
    OBVIOUS
  <2>1. CASE Next
    <3>1. imem' = imem /\ (Fetch!Edge \/ Fetch!Reset)
      BY <2>1 DEF Next, Clock, Wait, LoadUseBubble, Issue, RestOfCore, Reset
    <3> QED  BY <3>1 DEF PinsLegal, Fetch!Next
  <2>2. CASE UNCHANGED vars
    BY <2>2, WiresStutter DEF Fetch!vars, fetch_vars
  <2> QED  BY <2>1, <2>2
<1>4. CInv => PinsLegal
  BY PinsAreLegal
<1> QED  BY <1>2, <1>3, <1>4, CoreInvariance, PTL DEF Spec, FetchSpec, Fetch!Spec

\* What the core's fetch unit hands to decode is the sequential stream of
\* FetchStream less what was promoted: injections, interlocks and redirects
\* neither repeat, reorder nor lose an instruction.
THEOREM CoreFetchesStream == Spec => FP!ImplementsStream
<1>1. Init => FP!ResetState /\ imem \in [Pc -> Instr]
  BY ProgramsAssumption DEF Init, FP!ResetState, Fetch!ResetState, FP!Empty, Fetch!Empty, FP!Bubble, Fetch!Bubble
<1>0. CInv => IfPins \in FP!Pins /\ FP!PinsOK
  BY PinsAreLegal DEF PinsLegal, FP!Pins, Fetch!Pins, FP!PinsOK, Fetch!PinsOK, FP!Pc, Fetch!Pc
<1>2. Init /\ CInv => FP!Init
  BY <1>0, <1>1 DEF FP!Init
<1>3. [Next]_vars /\ (IfPins \in FP!Pins /\ FP!PinsOK)' => [FP!Next]_(FP!vars)
  <2> SUFFICES ASSUME [Next]_vars, (IfPins \in FP!Pins /\ FP!PinsOK)' PROVE [FP!Next]_(FP!vars)
    OBVIOUS
  <2>1. CASE Next
    <3>1. imem' = imem /\ (FP!Edge \/ FP!Reset)
      BY <2>1, FetchEdges DEF Next, Clock, Wait, LoadUseBubble, Issue, RestOfCore, Reset
    <3> QED  BY <3>1 DEF FP!Next
  <2>2. CASE UNCHANGED vars
    BY <2>2, WiresStutter DEF FP!vars, fetch_vars
  <2> QED  BY <2>1, <2>2
<1>4. Spec => FP!Spec
  BY <1>0, <1>2, <1>3, CoreInvariance, PTL DEF Spec, FP!Spec
<1> QED  BY <1>4, FP!StreamImplemented, FetchAssumptions, PTL

----------------------------------------------------------------
(* The counters.                                                           *)

\* What is left of a sum of three counters modulo their common width.
LEMMA ModThree ==
    ASSUME NEW c \in Nat \ {0}, NEW s \in 0 .. 3 * c - 1
    PROVE  s % c = IF s < c THEN s ELSE IF s < 2 * c THEN s - c ELSE s - 2 * c
<1>1. CASE s < c
  BY <1>1
<1>2. CASE s \in c .. 2 * c - 1
  <2>1. s % c = s - c
    BY <1>2
  <2> QED  BY <1>2, <2>1
<1>3. CASE s \in 2 * c .. 3 * c - 1
  <2>1. s % c = s - 2 * c
    BY <1>3
  <2> QED  BY <1>3, <2>1
<1> QED  BY <1>1, <1>2, <1>3

\* Every edge keeps the counters of filled slots in step with that of branches.
LEMMA SlotsStep == TypeOK /\ SlotsAccounted /\ [Next]_vars => SlotsAccounted'
<1> SUFFICES ASSUME TypeOK, SlotsAccounted, [Next]_vars PROVE SlotsAccounted'
  OBVIOUS
<1> DEFINE more(n) == IF n = CountMod - 1 THEN 0 ELSE n + 1
           C == {"cycles", "branches", "manual", "auto", "nop"}
<1>1. DOMAIN stats = C /\ \A c \in C : stats[c] \in 0 .. CountMod - 1
  BY DEF TypeOK, Stats, Count
<1>2. CASE UNCHANGED vars
  BY <1>2 DEF vars, SlotsAccounted
<1>3. CASE Reset
  <2>1. /\ stats'.manual = 0 /\ stats'.auto = 0 /\ stats'.nop = 0 /\ stats'.branches = 0
    BY <1>3 DEF Reset
  <2>2. 0 % CountMod = 0
    BY CountModAssumption, ModThree
  <2> QED  BY <2>1, <2>2 DEF SlotsAccounted
<1>4. CASE Clock
  <2>1. Statistics
    BY <1>4 DEF Clock, Wait, LoadUseBubble, Issue, RestOfCore
  <2>2. \A c \in {"branches", "manual", "auto", "nop"} :
           stats'[c] = IF branch_event_valid /\ c \in {"branches", SlotKind}
                       THEN more(stats[c]) ELSE stats[c]
    BY <1>1, <2>1 DEF Statistics
  <2>3. SlotKind \in {"manual", "auto", "nop"}
    BY DEF SlotKind, TypeOK, IdEx, SlotChoice, SlotModes
  <2>4. CASE ~branch_event_valid
    BY <2>2, <2>4 DEF SlotsAccounted
  <2>5. CASE branch_event_valid
    <3>1. stats'.branches = more(stats.branches)
      BY <2>2, <2>5
    <3>2. \E k \in {"manual", "auto", "nop"} :
             \A c \in {"manual", "auto", "nop"} :
                stats'[c] = IF c = k THEN more(stats[c]) ELSE stats[c]
      <4>1. \A c \in {"manual", "auto", "nop"} :
               stats'[c] = IF c = SlotKind THEN more(stats[c]) ELSE stats[c]
        BY <2>2, <2>3, <2>5
      <4> QED  BY <2>3, <4>1
    <3> DEFINE s == stats.manual + stats.auto + stats.nop
               t == stats'.manual + stats'.auto + stats'.nop
    <3>3. s \in 0 .. 3 * CountMod - 3 /\ t \in 0 .. 3 * CountMod - 1
          /\ (t = s + 1 \/ t = s + 1 - CountMod)
      BY <1>1, <3>2, CountModAssumption
    <3> HIDE DEF s, t
    <3>4. s % CountMod = stats.branches
      BY DEF SlotsAccounted, s
    <3>5. t % CountMod = more(stats.branches)
      <4>1. s \in 0 .. 3 * CountMod - 1 /\ t \in 0 .. 3 * CountMod - 1
        BY <3>3, CountModAssumption
      <4>2. s % CountMod = IF s < CountMod THEN s ELSE IF s < 2 * CountMod
                           THEN s - CountMod ELSE s - 2 * CountMod
        BY ONLY <4>1, CountModAssumption, ModThree
      <4>3. t % CountMod = IF t < CountMod THEN t ELSE IF t < 2 * CountMod
                           THEN t - CountMod ELSE t - 2 * CountMod
        BY ONLY <4>1, CountModAssumption, ModThree
      <4> HIDE DEF more
      <4>4. more(stats.branches) = IF stats.branches = CountMod - 1 THEN 0 ELSE stats.branches + 1
        BY DEF more
      <4> QED  BY <3>3, <3>4, <4>2, <4>3, <4>4, CountModAssumption
    <3> QED  BY <3>1, <3>5 DEF SlotsAccounted, t
  <2> QED  BY <2>4, <2>5
<1> QED  BY <1>2, <1>3, <1>4 DEF Next

\* Every branch is counted with the way its slot was filled, once, whatever
\* waits and wrap-arounds fall in between.
THEOREM SlotsAlwaysAccounted == Spec => []SlotsAccounted
<1>1. Init => SlotsAccounted
  <2>1. 0 % CountMod = 0
    BY CountModAssumption, ModThree
  <2> QED  BY <2>1 DEF Init, SlotsAccounted
<1> QED  BY <1>1, SlotsStep, CoreTypeCorrect, PTL DEF Spec

-----------------------------------------------------------------------------
(* The bound on stalls.                                                    *)

\* What waits and interlocks cannot meet: the instruction behind a branch whose slot is
\* its own is no branch, so a wait behind it never repeats it, and a load in EX with an
\* empty buffer stands behind a branch whose slot is being injected.
StallsApart ==
    /\ is_branch_or_jump(id_ex.instr) /\ id_ex.slot.mode = "manual" => Inert(if_reg.instr)
    /\ ~slot0.valid /\ mem_read(id_ex.instr) => slot_inject_active

\* A bubble in EX is neither a branch nor a load.
LEMMA BubbleInert == Inert(IdExBubble.instr) /\ Inert(NOP)
BY DEF IdExBubble, NOP, Inert, is_branch_or_jump, branch_type, Branches, mem_read, mem_write

\* A load is no branch, and only a branch redirects.
LEMMA OnlyBranchesRedirect ==
    /\ mem_read(id_ex.instr) => ~branch_event_valid
    /\ branch_redirect => branch_event_valid
BY DEF mem_read, branch_event_valid, is_branch_or_jump, branch_type, Branches, branch_redirect,
       branch_taken

\* What is injected is inert, and only what has been fetched can be a branch or a load.
LEMMA InjectedInert ==
    ASSUME CInv, slot_inject_active
    PROVE  Inert(id_in.instr) /\ ~branch_id.valid /\ ~scheduler_wait
<1>1. id_in.instr = IF slot_ex.mode = "auto" THEN slot_ex.auto_instr ELSE NOP
  BY DEF id_in
<1>2. Inert(id_in.instr)
  BY <1>1, BubbleInert DEF CInv, PromotionSafe
<1> QED  BY <1>2 DEF branch_id, Inert, scheduler_wait, wait_for_more_candidates

\* A branch that issues with its own slot is followed into ID by what was checked.
LEMMA ManualSlotFollows ==
    ASSUME CInv, Issue, is_branch_or_jump(id_in.instr), slot_id.mode = "manual"
    PROVE  Inert(if_reg'.instr)
<1>1. branch_id.valid /\ branch_id.rs = id_in.instr.rs /\ branch_id.rt = id_in.instr.rt
  BY DEF branch_id
<1>2. ~slot_inject_active /\ ~load_use_hazard /\ ~scheduler_wait
  BY <1>1, InjectedInert DEF Issue
<1>3. manual_slot_ok(branch_id, slot0)
  <2>1. ~auto_slot_use(branch_id, slot0, slot1) /\ ~force_nop_slot(branch_id, slot0, slot1)
    BY DEF slot_id
  <2> QED  BY <1>1, <1>2, <2>1 DEF force_nop_slot, scheduler_wait
<1>4. slot0.valid /\ safe_candidate(slot0.instr, id_in.instr.rs, id_in.instr.rt)
  BY <1>1, <1>3 DEF manual_slot_ok
<1>5. slot0.instr \in Instr /\ id_in.instr.rs \in Reg /\ id_in.instr.rt \in Reg
  BY IdInType, InstrFields DEF CInv, TypeOK, Fetch!Slot
<1>6. Inert(slot0.instr)
  BY <1>4, <1>5, SafeCandidateInert DEF Inert
<1>7. ~IfPins.stall /\ ~IfPins.flush
  BY <1>2 DEF IfPins, slot_inject_active, slot_consumes_pc4
<1>8. Fetch!Deliver
  BY <1>4, <1>7 DEF Issue, RestOfCore, Fetch!Edge, Fetch!Starve, Fetch!Hold, Fetch!Squash
<1> QED  BY <1>6, <1>8 DEF Fetch!Deliver

\* Every edge keeps waits and interlocks apart.
LEMMA StallsStayApart == CInv /\ StallsApart /\ [Next]_vars => StallsApart'
<1> SUFFICES ASSUME CInv, StallsApart, [Next]_vars PROVE StallsApart'
  OBVIOUS
<1>1. CASE UNCHANGED vars
  BY <1>1 DEF vars, fetch_vars, StallsApart, slot_inject_active
<1>2. ASSUME id_ex' = IdExBubble PROVE StallsApart'
  <2>1. ~is_branch_or_jump(id_ex'.instr) /\ ~mem_read(id_ex'.instr)
    BY <1>2, BubbleInert DEF Inert
  <2> QED  BY <2>1 DEF StallsApart
<1>3. CASE Reset \/ LoadUseBubble
  BY <1>2, <1>3 DEF Reset, LoadUseBubble
<1>4. CASE Wait \/ Issue
  <2>1. RestOfCore
    BY <1>4 DEF Wait, Issue
  <2>2. imem' = imem /\ Fetch!Edge /\ SlotControl
    BY <2>1 DEF RestOfCore
  <2>3. CASE Wait
    <3>1. id_ex' = id_ex /\ ~slot_inject_active /\ IfPins.stall /\ ~IfPins.flush
      BY <2>3, InjectedInert DEF Wait, IfPins, slot_inject_active, slot_consumes_pc4
    <3>2. if_reg' = if_reg
      BY <2>2, <3>1, FetchAdvance
    <3>3. ~slot0'.valid => ~mem_read(id_ex'.instr)
      BY <2>2, <3>1, FetchAdvance, OnlyBranchesRedirect DEF IfPins
    <3> QED  BY <3>1, <3>2, <3>3 DEF StallsApart, Inert
  <2>4. CASE Issue
    <3>1. id_ex'.instr = id_in.instr /\ id_ex'.slot = slot_id
      BY <2>4 DEF Issue
    <3>2. is_branch_or_jump(id_ex'.instr) /\ id_ex'.slot.mode = "manual" => Inert(if_reg'.instr)
      BY <2>4, <3>1, ManualSlotFollows
    <3>3. ASSUME ~slot0'.valid, mem_read(id_ex'.instr) PROVE slot_inject_active'
      <4>1. branch_event_valid
        BY <2>2, <3>3, FetchAdvance, OnlyBranchesRedirect DEF IfPins
      <4>2. slot_cycle_pending' /\ slot_ex'.mode = id_ex.slot.mode
        BY <2>2, <4>1 DEF SlotControl
      <4>3. ~Inert(id_in.instr)
        BY <3>1, <3>3 DEF Inert
      <4>4. id_in = if_reg
        BY <4>3, InjectedInert DEF id_in
      <4>5. id_ex.slot.mode # "manual"
        BY <4>1, <4>3, <4>4 DEF StallsApart, branch_event_valid
      <4> QED  BY <4>2, <4>5 DEF slot_inject_active
    <3> QED  BY <3>2, <3>3 DEF StallsApart, Inert
  <2> QED  BY <1>4, <2>3, <2>4
<1> QED  BY <1>1, <1>3, <1>4 DEF Next, Clock

\* While the core waits, ID holds a branch that was fetched and lacks cand1.
LEMMA WaitFacts ==
    ASSUME CInv, scheduler_wait
    PROVE  /\ ~slot_inject_active /\ id_in = if_reg
           /\ is_branch_or_jump(if_reg.instr) /\ ~slot1.valid
<1>1. branch_id.valid /\ ~slot1.valid /\ ~slot_inject_active
  BY InjectedInert DEF scheduler_wait, wait_for_more_candidates
<1>2. id_in = if_reg
  BY <1>1 DEF id_in
<1> QED  BY <1>1, <1>2 DEF branch_id

\* A wait brings the issue closer: the branch in EX gets its slot injected, or the
\* buffer fills up by one entry.
LEMMA WaitEnds ==
    ASSUME CInv, CInv', StallsApart, Wait
    PROVE  EdgesToIssue \in 1 .. 2 /\ EdgesToIssue' \in 0 .. EdgesToIssue - 1
<1>1. /\ scheduler_wait /\ ~slot_inject_active /\ is_branch_or_jump(if_reg.instr)
      /\ id_ex' = id_ex
  BY WaitFacts DEF Wait
<1>2. imem' = imem /\ Fetch!Edge /\ SlotControl
  BY DEF Wait, RestOfCore
<1>3. CASE branch_event_valid
  <2>1. id_ex.slot.mode # "manual"
    BY <1>1, <1>3 DEF StallsApart, Inert, branch_event_valid
  <2>2. slot_inject_active'
    BY <1>2, <1>3, <2>1 DEF SlotControl, slot_inject_active
  <2>3. ~scheduler_wait'
    <3>1. id_in'.instr = IF slot_ex'.mode = "auto" THEN slot_ex'.auto_instr ELSE NOP
      BY <2>2 DEF id_in
    <3>2. ~is_branch_or_jump(id_in'.instr)
      BY <3>1, BubbleInert DEF CInv, PromotionSafe, Inert
    <3> QED  BY <3>2 DEF branch_id, scheduler_wait, wait_for_more_candidates
  <2>4. ~mem_read(id_ex.instr)
    BY <1>3, OnlyBranchesRedirect
  <2> QED  BY <1>1, <1>3, <2>3, <2>4 DEF EdgesToIssue
<1>4. CASE ~branch_event_valid
  <2>1. slot0'.valid /\ (slot0.valid => slot1'.valid)
    BY <1>1, <1>2, <1>4, FetchAdvance, OnlyBranchesRedirect DEF IfPins
  <2>2. slot1'.valid => ~scheduler_wait'
    BY DEF scheduler_wait, wait_for_more_candidates
  <2>3. ~branch_event_valid'
    BY <1>1, <1>4 DEF branch_event_valid
  <2>4. ~slot0.valid => ~mem_read(id_ex.instr)
    BY <1>1 DEF StallsApart
  <2>5. CASE slot0.valid
    BY <1>1, <1>4, <2>1, <2>2, <2>5 DEF EdgesToIssue
  <2>6. CASE ~slot0.valid
    BY <1>1, <1>4, <2>1, <2>3, <2>4, <2>6 DEF EdgesToIssue
  <2> QED  BY <2>5, <2>6
<1> QED  BY <1>3, <1>4

\* An interlock lasts one edge: the load has left EX, and the buffer is full.
LEMMA InterlockEnds ==
    ASSUME CInv, StallsApart, LoadUseBubble
    PROVE  EdgesToIssue = 1 /\ EdgesToIssue' = 0
<1>1. ~scheduler_wait /\ load_use_hazard /\ id_ex' = IdExBubble
  BY DEF LoadUseBubble
<1>2. imem' = imem /\ Fetch!Edge /\ SlotControl
  BY DEF LoadUseBubble, RestOfCore
<1>3. mem_read(id_ex.instr) /\ ~branch_event_valid /\ ~branch_redirect
  BY <1>1, OnlyBranchesRedirect DEF load_use_hazard
<1>4. ~slot_inject_active'
  BY <1>2, <1>3 DEF SlotControl, slot_inject_active
<1>5. id_in' = if_reg'
  BY <1>4 DEF id_in
<1>6. ~scheduler_wait'
  <2>1. CASE slot_inject_active
    <3>1. id_in.instr # NOP
      BY <1>1 DEF load_use_hazard, NOP
    <3>2. slot_consumes_pc4
      BY <2>1, <3>1 DEF id_in, slot_inject_active, slot_consumes_pc4
    <3>3. if_reg'.instr = NOP
      BY <1>2, <3>2, FetchAdvance DEF IfPins, Fetch!Bubble
    <3> QED  BY <1>5, <3>3, BubbleInert
             DEF scheduler_wait, wait_for_more_candidates, branch_id, Inert
  <2>2. CASE ~slot_inject_active
    <3>1. slot0.valid
      BY <1>3, <2>2 DEF StallsApart
    <3>2. IfPins.stall /\ ~IfPins.redirect
      BY <1>1, <1>3 DEF IfPins
    <3>3. slot1'.valid
      BY <1>2, <3>1, <3>2, FetchAdvance
    <3> QED  BY <3>3 DEF scheduler_wait, wait_for_more_candidates
  <2> QED  BY <2>1, <2>2
<1>7. ~mem_read(id_ex'.instr)
  BY <1>1, BubbleInert DEF Inert
<1> QED  BY <1>1, <1>3, <1>6, <1>7 DEF EdgesToIssue

\* The core never waits for itself: a wait for candidates, an interlock and an injection
\* that meet are over after two edges, whatever the program.
THEOREM StallsEnd == Spec => IssueComesCloser
<1>1. Init => StallsApart
  <2>1. Init => id_ex = IdExBubble
    BY DEF Init
  <2> QED  BY <2>1, BubbleInert DEF StallsApart, Inert
<1>2. CInv /\ CInv' /\ StallsApart /\ [Next]_vars
        => [Wait \/ LoadUseBubble => /\ EdgesToIssue \in 1 .. 2
                                     /\ EdgesToIssue' \in 0 .. EdgesToIssue - 1]_vars
  BY WaitEnds, InterlockEnds
<1> QED  BY <1>1, <1>2, StallsStayApart, CoreInvariance, PTL DEF Spec, IssueComesCloser
=============================================================================
