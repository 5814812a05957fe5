------------------------- MODULE DelaySlotScheduler -------------------------
(***************************************************************************)
(* rtl/delay_slot_scheduler.v: combinational.  Given the branch in ID and  *)
(* the two look-ahead candidates it says how the delay slot is filled:     *)
(* by cand0 as it stands (manual), by promoting cand1 (auto), by a bubble  *)
(* (nop), or not yet (wait).                                               *)
(*                                                                         *)
(* br is [valid, pc, rs, rt, backward]; a candidate is a slot of IfStage,  *)
(* whose pc is stale when it is not valid.                                 *)
(***************************************************************************)
EXTENDS Isa

is_control(i) == i.op \in {"beq", "bne", "j"}
is_memory_op(i) == i.op \in {"lw", "sw"}

\* Zero when the word has no destination.
get_dest_reg(i) ==
    IF i.op \in RTypes THEN i.rd ELSE IF i.op \in {"lw", "addi"} THEN i.rt ELSE 0

writes_register(i) == i # NOP /\ i.op \in RTypes \cup {"addi", "lw"}

safe_candidate_memory(i, branch_rs, branch_rt) ==
    /\ ~is_control(i)
    /\ get_dest_reg(i) # 0 => get_dest_reg(i) \notin {branch_rs, branch_rt}

safe_candidate(i, branch_rs, branch_rt) ==
    \/ i = NOP
    \/ /\ ~is_control(i) /\ ~is_memory_op(i)
       /\ get_dest_reg(i) # 0 /\ writes_register(i)
            => get_dest_reg(i) \notin {branch_rs, branch_rt}

\* A backward branch accepts only candidates that lie behind it.
branch_window_ok(br, cand1) == ~br.backward \/ cand1.pc > br.pc

manual_slot_ok(br, cand0) ==
    br.valid /\ cand0.valid /\ safe_candidate(cand0.instr, br.rs, br.rt)

manual_slot_is_nop(br, cand0) == manual_slot_ok(br, cand0) /\ cand0.instr = NOP

auto_slot_use(br, cand0, cand1) ==
    /\ br.valid /\ ~manual_slot_ok(br, cand0)
    /\ cand1.valid /\ safe_candidate(cand1.instr, br.rs, br.rt)
    /\ branch_window_ok(br, cand1)

wait_without_branch(br, cand0, cand1) ==
    /\ ~manual_slot_ok(br, cand0)
    /\ ~cand1.valid
    /\ branch_window_ok(br, cand1)

wait_for_more_candidates(br, cand0, cand1) ==
    /\ br.valid /\ ~manual_slot_ok(br, cand0)
    /\ ~cand1.valid
    /\ branch_window_ok(br, cand1)

force_nop_slot(br, cand0, cand1) ==
    /\ br.valid /\ ~manual_slot_ok(br, cand0)
    /\ ~auto_slot_use(br, cand0, cand1)
    /\ ~wait_for_more_candidates(br, cand0, cand1)
=============================================================================
