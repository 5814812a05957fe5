# Verification of the in-slot scheduling core

The repository contains a five-stage, MIPS-like core in Verilog whose hardware
fills branch delay slots at run time (`rtl/`), test benches and recorded
waveforms for it (`tb/`, `core_basic.vcd`, `core_edgecases.vcd`), and a C++ tool
chain that does the same job ahead of time (`src/`, `include/`, `tests/`). This
directory holds TLA+ models of it, the TLC runs that check them and TLAPS proofs
about them. Source paths below are relative to the repository.

## The system

| component | state | operations | hard about it |
|---|---|---|---|
| fetch unit, `rtl/if_stage.v` | `fetch_pc`, two look-ahead slots, IF/ID | hand over, starve, hold, squash; refill; redirect; kill | redirect, kill, stall and hand-over meet in one cycle |
| decode, ALU, branch unit, `rtl/id_stage.v`, `alu.v`, `branch_unit.v`, `ex_stage.v` | none | control signals, result, target | two decoders (this and the scheduler's) must agree |
| RTL scheduler, `rtl/delay_slot_scheduler.v` | none | manual / auto / nop / wait | decides in ID what happens two edges later |
| core, `rtl/cpu_pipeline.v` with `hazard_unit.v`, `reg_file.v`, `mem_stage.v`, `wb_stage.v`, memories | pipeline registers, slot control, registers, RAM, counters | one clock edge: hold, bubble or issue; reset | hold, interlock, injection, flush and redirect overlap |
| test benches, waveforms | programs, expected registers and counters, recorded signals | | |
| C++ pass, `src/scheduler.cpp` | instruction vector, decisions, loop index | fill the slot of each branch | moves code across labels and other slots, and itself along the vector |
| C++ simulator, `src/pipeline_sim.cpp` | registers, memory, pending branch, scoreboard, budget | execute one instruction | branch in a slot, at the end, without a target; stalls from one ready cycle per register |
| C++ parser, `src/parser.cpp`; printing, `src/instruction.cpp` | pending labels, program vector | read a line, resolve targets; print | where labels go; labels lost in the round trip |
| C++ tools, `src/schedule_tool.cpp`, `src/pipeline_sim_main.cpp` | | parse, schedule, print; parse, simulate | go on whatever the parser remarks |

Everything in `rtl/` is clocked by one clock. `if_stage` shows its two slots to
the scheduler, which looks at them when a branch is in ID. The decision travels
with the branch through ID/EX; when the branch resolves in EX it is copied to
`slot_*_ex`, and in the next cycle a promoted instruction or a nop replaces what
ID reads from IF/ID. A promoted instruction is killed in the buffer when the
decision is taken, and IF/ID is flushed when it is injected. A branch whose
candidates have not been fetched yet waits in IF/ID, and while it waits ID/EX is
held. The concurrency is that of the stages: five instructions are in flight and
the rules that stall, kill, flush, inject and redirect were written separately.

The C++ tools are sequential and talk through files: `schedule_tool` parses a source,
schedules it and prints the result; `pipeline_sim` parses a source, or that result,
and runs it. What is hard about them is that each keeps positions, cycles or text
that a later step makes stale.

What makes the components correct:

* fetch unit: the buffer never shows: IF/ID receives the sequential stream, each
  word once, whatever order kills, stalls and redirects come in;
* scheduler: what is promoted has no effect other than on a register the branch
  does not read, in the eyes of the decoder as well as the scheduler's;
* core: it executes the program, with an agreed number of delay slots and with
  current operands; it never stops; it counts what it did;
* C++ parser and printer: labels lead to the instruction they stand before, delay
  slots hold what was written there, and what is printed reads back;
* C++ pass: the scheduled program computes what the given one computes, and the
  decisions reported are true of it;
* C++ simulator: the executed path is that of a machine with one delay slot, in the
  cycles of a pipeline that issues as early as it can; it always ends.

## Modules

| module | models | role |
|---|---|---|
| `Isa` | `isa_defs.vh`, `id_stage.v`, `alu.v`, `branch_unit.v`, `ex_stage.v` | operators on instruction words |
| `DelaySlotScheduler` | `delay_slot_scheduler.v` | operators, EXTENDS `Isa` |
| `IfStage` | `if_stage.v` | open component; its inputs are the variable `pins` |
| `FetchStream` | what a client may rely on | abstract specification of `IfStage` |
| `CpuPipeline` | `cpu_pipeline.v` and what `core_top.v` attaches | composes the above, `pins <- IfPins` |
| `DelayedBranch` | the programmer's view | abstract machine with `Shadow` delay slots |
| `CpuConformance` | | refinement mapping of `CpuPipeline` to `DelayedBranch`, named deviations |
| `DocumentedClaims` | | what the documents say and the RTL does not do |
| `Instruction` | `instruction.cpp`, `instruction.h` | operators on C++ instructions, def and use sets |
| `Parser` | `parser.cpp` from tokens on, `Instruction::toString` | operators from sources to programs and back |
| `DelaySlotPass` | `scheduler.cpp` | state machine over the instruction vector, one action per outcome of the loop body |
| `PipelineSim` | `pipeline_sim.cpp`: what one instruction does, and when | step operator on symbolic values, scoreboard |
| `PassEquivalence` | | what the pass owes its caller, named deviations |
| `PipelineRun` | `pipeline_sim.cpp`, `runPipeline` | state machine, one step per iteration |
| `OneDelaySlot` | the order of execution with one delay slot | abstract specification of `PipelineRun` |
| `SimConformance` | | refinement mapping of `PipelineRun` to `OneDelaySlot`, named deviations, timing |
| `ToolChain` | `schedule_tool.cpp`, `pipeline_sim_main.cpp` | composes `Parser`, `DelaySlotPass`, `PipelineRun` |
| `MC*`, `Asm` | `MCTestbench`: the test benches and waveforms | constants of the runs; program constructors |
| `IfStage_proofs`, `DelaySlotScheduler_proofs`, `CpuPipeline_proofs` | | lemmas and theorems about the module of that name |
| `CpuConformance_proofs` | | the core implements `DelayedBranch`; EXTENDS `CpuPipeline_proofs` |
| `DelaySlotPass_proofs` | | lemmas and theorems about one step of the pass: types, decisions, its end, what a move does to the simulator |
| `PassEquivalence_proofs` | | what the whole pass leaves as it was, the meaning included; EXTENDS `DelaySlotPass_proofs` |
| `PipelineRun_proofs` | | lemmas and theorems about `PipelineRun` as `SimConformance` sees it |
| `ToolChain_proofs` | | the parser and the printer, and the theorems above for every file that the tools are given |

### From code to model

One step is one clock edge. Registers are variables, grouped in records; wires
are operators with the names of the code. Where the code builds `x_n` from
blocking assignments, the action gives the final value; where it has an if-chain
over a clocked register, each arm is an action (`Wait`, `LoadUseBubble`, `Issue`
for ID/EX; `Deliver`, `Starve`, `Hold`, `Squash` for IF/ID) and the arms of the
other blocks are part of it (`RestOfCore`). `Reset` is an edge with `reset` high
and may come at any time.

The pass is sequential: one step is one pass through the loop body of
`scheduleDelaySlots`, in the arm the code takes (`Skip`, `KeepManual`,
`FillAutomatically`, `UseNop`, and `Return` with the final `resolveTargets`). So is
the simulator: one step is one iteration of the loop of `runPipeline` (`Plain`,
`Control`), the way out on the budget (`ExhaustBudget`) or the end (`Leave`). In
`ToolChain`, `Simulate` is the user who starts the second tool, with the source or
with what the first one printed.

Abstractions:

* an instruction word is a record of its fields; the all-zero word is `NOP`.
  Words with an unassigned opcode or funct are there, because the scheduler and
  the decoder treat them differently. Jump indices are below 2^16, which the
  instruction memory of 256 words implies; then a jump's rs and rt fields and the
  sign of its low half, which the core reads although they mean nothing, are 0;
* a pipeline register keeps the instruction in place of the control signals that
  `id_stage.v` derives from it; `id_ex_slot_manual_*` are written and never read;
* addresses count words; they, machine words and counters wrap at their width,
  which is a constant of the model (`MaxPc`, `MaxWord`, `CountMod`);
* both memories answer over the whole range of an address, and hold nops (zero)
  where the simulation has unknown values;
* the debug outputs `branch_event_pc`, `branch_event_taken`, `slot_event_*` feed
  nothing back and are left out;
* a line of source is what is left of it without comments and white space, cut into
  tokens: a label, an opcode, operands. An operand is a name, a number or
  `number(name)`, and what is read of it depends on its place, as in the code; `0` is
  what does not parse as a number, and `"other"` is any word that is no opcode. A line
  `:` alone, a label with no name, is left out. Of the
  parser's diagnostics a program keeps whether
  there are any; of `original_text`, an instruction keeps `label_only`, whether it is
  the label and nothing else, which is the one question `toString` asks of it;
* a decision of the pass is its position, its outcome and the instruction, not its
  wording; the simulator's diagnostics are three kinds, without the one on stalls,
  whose number is in the timeline;
* `PipelineSim` computes with terms instead of numbers: `add` of two registers is
  the term `<<"add", x, y>>` of theirs, memory is the list of what was stored where.
  Two runs that end in the same terms end in the same numbers for every initial
  content. Whether a branch is taken is an input, the same for both programs, so
  that each way is looked at; the operands it compares are part of what is
  observed. `PipelineRun` starts with zeros, as the code does, and takes a branch both
  ways unless its operands are the same term or two different constants.

Next to some definitions stands a variant with a plausible fault in it, e.g.
`RefillUnlessStalled`. Nothing refers to it. It is there so that each property
can be shown to notice a fault of that kind.

## What is checked

| run | question | bounds |
|---|---|---|
| `fetch` (`MCIfStage`) | Is the buffer coherent, contiguous, and invisible (`ImplementsStream`)? Does it starve only after a redirect? | 4 words of memory, all different; every input sequence that `PinsOK` allows |
| `pipeline` (`MCPipeline`) | Does the core use the fetch unit legally (`FetchSpec`)? Is every promotion safe from decision to injection (`PromotionSafe`)? Do the counters agree? Does every edge that stalls bring the next issue closer (`IssueComesCloser`), so that of three edges one issues? | all 4096 programs of four words from an alphabet of eight, then a jump to itself; reset at any edge |
| `conformance` (`MCConformance`) | Is the core a delayed-branch machine with two slots until a named deviation occurs? Are branches counted once? With well-spaced branches, are waits short, and do filled slots make the scheduler superfluous? Does it always go on issuing? | the same programs, and longer ones whose branches are two words apart; reset at any edge |
| `testbench` (`MCTestbench`) | Does the model do what the repository's own simulation did, cycle by cycle? | the two benches' programs, all recorded cycles, 32 registers |
| `tool_chain` (`MCToolChain`), pass | Does each move of the pass keep the program's meaning (`MovesAreSafe`), up to named deviations? Does the whole pass, for programs that keep four rules (`RulesKeepMeaning`)? Is every instruction kept, once (`NothingLost`)? Do manual slots survive later searches, and do targets follow their labels? Is there one decision for each branch (`EachBranchDecided`), still true after all later moves (`DecisionsStayTrue`)? Does the pass return, and does each iteration bring it closer (`StepsRunOut`)? | sources of four words from six with the label at no, one or two places, and of five from five with it at most once; every outcome of the first two executed branches |
| the same run, parser and printer | Does each label lead to what follows it in the source (`LabelsLead`)? Are slots as written (`SlotsAsWritten`)? Does what is printed read back, or else not without a remark (`PrintedIsReadBack`)? | the same, and four lines of two labels, an instruction, a branch and a nop in any order; three lines of malformed, blank and good ones, or with an operand missing |
| the same run, simulator | Is it a machine with one delay slot (`ImplementsOneSlot`), up to named deviations? Is its timeline the earliest one possible (`TimelineIsEarliest`)? Does only the budget leave a target pending (`PendingMeansInSlot`)? Does it end? | four words of arithmetic, load, store, branch and jump, the label at the start, inside, at the end or missing, each as written and as scheduled; a budget of six instructions |
| `claim_safe_fill` (`MCToolChain`) | Does the whole pass keep every program's meaning? No, see Findings | a loop of three instructions |
| `claim_workflow` (`MCToolChain`) | Is what `schedule_tool` prints the program it made, to whoever parses it? No, see Findings | `data/example_auto_input.asm` |
| other `claim_*` (`DocumentedClaims`) | Does the RTL keep what the documents say? No, see Findings | one small program each |

Why the bounds suffice. The control part of the core looks at most at two words
behind the branch and remembers at most two branches at a time (ID/EX and
`slot_*_ex`), and a decision is forgotten three edges later. Four free words
therefore produce every overlap of two branches, their slots and their targets;
the alphabet has a word for each class the control logic tells apart (nop,
arithmetic that does or does not write what a branch reads, load, store, branches
forward and backward, sometimes taken, and a jump). Address space is 7 or
8 words, so the wrap of `fetch_pc` is met. Machine words have two bits: enough
for the two registers to differ, to be equal and to wrap. `CountMod = 3` keeps
the counters apart modulo 3; `CountMod = 1` switches them off where they do not
matter. With two-bit words the RAM has one word (`data_index` drops two bits), so
every store meets every load. The `testbench` run has 8-bit words and 32 registers.

For the pass, a move concerns a candidate, the instructions it passes, the branch
and its slot, and the next branch may take its candidate from there: two branches
with their slots and a candidate are five instructions. One instruction of each
kind that the dependence test tells apart (constant, arithmetic, load, store, branch,
jump, nop) is in the alphabets, with registers chosen such that some pairs depend
on each other and others do not. Two executed branches are what it takes to leave
by a branch, come back to a label and show a difference there.

For the parser, a line changes only what is pending and what follows, so four lines
contain every meeting of two labels, or three, with an instruction, a branch and the
end. For the simulator, an operand is at most four cycles from its producer and each
instruction takes one, so a producer, one that overwrites it and the two behind it are
four words; four words also hold a branch in the slot of another with both targets. Six
executed instructions are once round such a loop and the beginning of the second
round, and end some runs between a branch and its slot.

The models of the parser, the pass, the printer and the simulator agree with the
compiled code on the sources the two were compared on: 600 random ones, in what is
parsed, whether the parser remarks, the schedule, the positions in the decisions, what
the printed schedule parses to, the timeline with its cycles, and the diagnostics.

Fairness. `ConformanceSpec` assumes `WF_vars(Clock)`: the clock keeps ticking
and reset is not asserted at every edge. This is the free-running clock of the
benches and the board; nothing is assumed of the program. `KeepsIssuing` follows
because the fetch unit refills during a stall: if it did not, a waiting branch
would wait for ever (that fault is one of the variants). `FairChainSpec` assumes
`WF(Schedule \/ Run)`: each tool is one sequential process, and nothing else can keep
it from its next step. It says nothing of `Simulate`, which is up to the user.
`SimulatorEnds` holds for programs that loop because the budget counts every kind of
instruction. The tools end, so their runs do not check for deadlock.

### The two-slot machine and the deviations

`ImplementsDelayedBranch` maps the pipeline to `DelayedBranch`: registers and RAM
are what they will be when everything past EX has drained, and the window is the
next three instructions EX will see. Under this mapping each clock edge must
execute the first of the window or do nothing, as long as none of these has
happened since reset; each was found to be necessary, i.e. without it there is a
counterexample:

| deviation | what happens | where |
|---|---|---|
| `ControlInSlot` | a control instruction right behind another one | `cpu_pipeline.v:404` |
| `BranchUnfed` | a branch is issued while the buffer is empty, because its stale window test fails | `delay_slot_scheduler.v:138` |
| `NextSwallowed` | untaken branch with a promoted slot: the flush drops the next instruction | `cpu_pipeline.v:454` |
| `PromotionLost` | the injected instruction meets a load-use bubble and is gone | `cpu_pipeline.v:322` |
| `ReplayDiffers` | the instruction held in EX during a wait executes twice to different effect | `cpu_pipeline.v:273` |
| `StaleOperand` | operand read in the cycle its producer is in WB | `reg_file.v:28` |
| `StaleLoad` | the RAM's registered output is one address behind | `data_memory.v:27` |

### The pass and its deviations

`MovesAreSafe` compares the program before and after each step of the pass: the
registers and memory, as terms, when each delay slot is over and at the end. It
holds except for four deviations, each of which is necessary:

| deviation | what happens | where |
|---|---|---|
| `MovesPastLabel` | the branch has a label, and the instruction above it is moved below the label | `scheduler.cpp:205` |
| `TakesFromSlot` | the candidate is itself in the slot of an earlier branch | `scheduler.cpp:202` |
| `SlotOfUnresolvedJump` | the jump's label does not exist; the simulator goes on at the slot, and runs it twice | `pipeline_sim.cpp:199` |
| `MovesUnnamedResult` | `add , b, c`, which the parser accepts, writes `c` in the simulator and nothing for the dependence test | `instruction.cpp:105` |

`KeepsRules` says what to look for in a program before the pass has touched it: results
have names, the labels that jumps name exist, no label stands in front of a control
instruction, and between two control instructions stands a label, unless the slot of
the first is filled by hand. With the last rule no search can reach back into a slot,
because it stops at the label or at the slot. For such programs `RulesKeepMeaning`
requires that the result computes what the input does, after all moves and without a
deviation to excuse it.

### The simulator and the parser and their deviations

| deviation | what happens | where |
|---|---|---|
| `BranchForgotten` | a control instruction in the slot of a taken branch replaces its target, and the first branch never happens | `pipeline_sim.cpp:187` |
| `JumpToSlot` | a jump without a target goes to its own slot, which executes twice | `pipeline_sim.cpp:199` |
| `InlineLabel`, in `PrintedIsReadBack` | a labelled instruction, which the printer writes as `label: op` and the parser takes for an unknown opcode; it remarks on it | `instruction.cpp:164`, `parser.cpp:83` |
| `LastOperandEmpty`, in `PrintedIsReadBack` | `add a, b, ,` reads with an empty third operand and is printed as `add a, b, `, which reads with two; the parser remarks on it | `parser.cpp:39` |
| two labels or more, in `SlotsAsWritten` | the nops that carry all but the first stand between a branch and the instruction behind it, and the first of them is in the slot | `parser.cpp:149` |

In `BranchForgotten`, the rest is again that of a machine with one slot, from the second
branch on. The interlock for memory at `pipeline_sim.cpp:46` never delays anything:
`TimelineIsEarliest` holds and does not mention it.

### Findings

Each is a run that refutes a sentence of the documents (PROJECT.json quotes it). On the
RTL's behaviour: a taken branch has two delay slots and not one (`BranchSlotTarget`);
the instruction left behind by an automatic fill is dropped (`OriginalSlotRuns`); a wait
executes the instruction in EX twice (`NoDoubleExecution`); forwarding misses a producer
three instructions away (`OperandsLatest`); a load returns the word of the previous
address (`LoadsReadTheirAddress`). The recorded waveforms agree with the model in all of
this: `MatchesWaveform` holds, and e.g. register 25 is never written in
`core_edgecases.vcd`. On the pass: an instruction above a loop whose first instruction
is its exit test is moved into that test's slot, where it executes each time round
(`ComputesTheSame`). On the workflow of `README.md:42`: the printed schedule of the
repository's own example has its labelled instructions as `label: op` on one line, which
the parser takes for unknown opcodes; what `pipeline_sim` then runs has nops in their
places and branches without targets (`ScheduledIsSimulated`). The compiled tools do the
same, with remarks on standard error, which the redirection of the workflow does not
stop for.

## What is proved

`IfStage_proofs`, for every memory size, set of words and program, from
`MaxPcAssumption` and `ProgramAssumption`:

* `TypeCorrect`, `CandidatesCoherent`, `BufferContiguous`, `StarvationBounded`,
  and `StreamImplemented`: `Spec => FetchStream`.

Neither `Coherent` nor `Contiguous` is inductive alone: a kill of a missing cand1
or without an advance breaks contiguity. The inductive invariant is
`TypeOK /\ Coherent /\ Contiguous /\ PinsOK`, the last conjunct being the
assumption about the environment. The lemma `RefillKeepsChain` is the heart: slots
that form a chain ending at `fetch_pc` form one after the refill, whichever hole
is filled or redirect taken; `AdvanceKeepsChain` and `HoldKeepsChain` say that the
slots are a chain before the refill. The refinement uses `HeadAfterRefill`, which
computes the address the stream owes next.

`EdgeKeepsChain`, the step without a claim about the next inputs, is what a
composition needs, and `CpuPipeline_proofs` uses it.

`DelaySlotScheduler_proofs`, from `SizeAssumption` and `BitwiseAssumption`: the
widths of the ALU's result, branch targets and addresses, and `SafeCandidateInert`:
the scheduler and `id_stage.v` take the instruction word apart independently, and
what the one calls safe is neither control nor memory access to the other and does
not write the branch's operands. It does not depend on any state, so it covers
every word of the alphabet the runs do not reach.

`CpuPipeline_proofs`, for every size of the machine, program and counter width,
from the assumptions above with `ProgramsAssumption` and `CountModAssumption`:

* `CoreTypeCorrect`, `PromotionsSafe`: `Spec => []TypeOK`, `[]PromotionSafe`;
* `FetchUsedLegally`: `Spec => FetchSpec`, the core keeps to `PinsOK`;
* `CoreFetchesStream`: so `FetchStream` is implemented inside the core as well;
* `SlotsAlwaysAccounted`: `Spec => []SlotsAccounted`;
* `StallsEnd`: `Spec => IssueComesCloser`, of three edges without reset one issues.

The inductive invariant is `CInv == TypeOK /\ Coherent /\ Contiguous /\
PromotionSafe`. It is one argument in a circle that only closes over time. The
buffer stays contiguous only if the core never kills cand1 while the fetch unit
stalls; it does not, because the only stall that leaves the decision to kill alone
is an injection, and the injected instruction is no branch (`InjectedIsNoBranch`),
which is `PromotionSafe` of an earlier edge. `PromotionSafe` in turn holds when a
branch issues because the candidate is the word that memory holds at its address,
which is `Coherent`; after that the promotion only moves: it stays in ID/EX while a
branch waits, and goes to `slot_ex` when its branch resolves. `IfStage_proofs` is
instantiated with the core's wires for `pins`, so that its step lemma is used and
not repeated. `SlotsAccounted` is inductive given `TypeOK`; `ModThree` computes the
remainder of the sum of three counters.

`StallsEnd` bounds what `KeepsIssuing` only promises. A wait can be prolonged by the
branch in EX, which is executed again, and again redirects, as long as ID/EX is held;
and an interlock can be followed by a wait. `StallsApart`, which is inductive on top of
`CInv`, says why neither goes on. The word behind a branch whose slot is its own
(`manual`) was checked by the scheduler, so it is no branch and cannot wait; behind any
other branch a slot is injected in the next cycle, and nothing that is injected waits.
And when a load is in EX with the buffer empty, a slot is being injected. So a wait
behind a branch lasts one edge; any other wait ends when the buffer is full, two edges
after a redirect; and an interlock ends with the buffer full.

`CpuConformance_proofs`, for the same, from those assumptions and
`WindowAssumption` (`MaxPc >= 2`: a branch and its two slots are three addresses; the
code has 2^30):

* `ImplementsArchitecture`: `ConformanceSpec => ImplementsDelayedBranch`, up to the
  first deviation each clock edge is one instruction of the architecture, or none;
* `BranchesCountedOnce`, `RulesKeepFlow`: `[]CountsBranchesOnce`, `[]FilledSlotsFlow`;
* `WaitsAreShort`: `WaitsOneCycle`;
* `RuledProgramsExecute`: a program that keeps the two rules (control instructions two
  words apart, safe words behind them) and meets no stale operand and no stale load is
  executed as the architecture executes it, for good.

`ConfInv` is the inductive invariant. To `CInv` it adds what the mapping leaves open.
`FetchedWord` and `FreshWord` say that IF/ID and a fresh ID/EX hold the word of their
address, which the architecture fetches again. `HeldWord` says that an ID/EX that is
not fresh does again what MEM has just done, so that it is `ReplayDiffers` or nothing.
`BranchFed` says that behind a branch in EX its first slot is in IF/ID and more in the
buffer: without it the mapped window would have a hole, and to have it when the branch
issues one needs the absence of `BranchUnfed`. `OperandsInEx` says that EX sees the
architecture's operands; it is kept because what ID reads is the register file with
the result in WB missing, the forwarding covers MEM and WB, and the remaining case is
`StaleOperand`. The proof splits into what an edge does to the window (`EdgeFacts`,
`FetchAdvance`) and to registers and RAM, and each deviation is used exactly where a
case would not go through. `SpacedInId`, `SpacedInEx` and `AllManual` are for the
programs that keep the rules.

`DelaySlotPass_proofs`, for every program and set of names, from no assumption:

* `PassTypesCorrect`, `EveryBranchDecided`: `Spec => []TypeOK`,
  `[]EachBranchDecided`;
* `PassRunsOut`: `Spec => StepsRunOut`;
* `CandidatesCommute`: in the simulator a candidate commutes with each instruction it
  is moved past, whatever the state, and the branch reads the same operands after it;
* `BlocksSurviveMoves`: so it does with the whole block, however long.

`EachBranchDecided` speaks of the end only. The inductive invariant `PassInv` says of
every iteration that the decisions stand for the control instructions in front of the
loop index, in order, and that the pass returns behind the last instruction. The step
that could break it is `FillAutomatically`: it takes an instruction from in front of
the branch, so that positions move under the decisions already made. They do not:
there is no control instruction between a candidate and its branch, nor is it one,
so those decided stay in front of it, where a move changes nothing (`MoveShape`), and
the branch comes to where no control instruction was.

`CandidatesCommute` relates two parts of the code that were written apart, the def and
use sets of `instruction.cpp` and what `pipeline_sim.cpp` executes. It assumes
`AsParsed`: operands are where the parser puts them, and results have names, which is
the absence of `MovesUnnamedResult`. `BlocksSurviveMoves` adds the exchanges up over the
block between the candidate's old place and the slot, by `IntervalInduction`: every
number of an interval is in a set if 0 is and each brings its successor, because a set
of numbers has a least one (`WFMin`). This is induction without an operator for a
parameter, and what a recursive function computes can be proved with it.

`PassRunsOut` is the safety half of `Terminates`. The index does not move when a slot is
filled, and the vector grows when a branch is last, so neither counts down; what does is
twice the number of control instructions at or behind the index and the number of places
left (`StepsLeft`). A fill puts its branch in front of the index (`FewerSteps`).

`PassEquivalence_proofs`, for every program, set of names and bound on the executed
branches that are compared, from `MaxControlsAssumption`:

* `InstructionsKept`, `FilledSlotsKept`, `TargetsKept`: `Spec /\ AsNops(input) =>
  []NothingLost`, `[]ManualSlotsKept`, `[]TargetsFollow`;
* `DecisionsAlwaysTrue`: `Spec => DecisionsStayTrue`;
* `MovesKeepMeaning`: `Spec /\ AsNops(input) /\ AllInPlace(input) => MovesAreSafe`;
* `OnlyDeviationsMatter`: with `[][~MoveDeviates]_vars`, `[]ComputesTheSame`: what the
  pass returns computes what it was given, if no move of the run is a deviation;
* `RuledProgramsKeepMeaning`: `Spec /\ AsNops(input) /\ AllInPlace(input) =>
  []RulesKeepMeaning`.

The first three speak of the end, and of counts, positions of labels and n-th control
instructions. What makes them true is one thing, the inductive invariant `PlaceInv`:
there is a map from the positions of the input to those of the vector that is one to
one, keeps every text, misses nothing but nops, and keeps the order of instructions that
are control or have a label (`Tracks`); behind a control instruction whose slot the
programmer filled stands, at every step, what was put there, and it carries the mark
`manually_filled` once the loop has passed it (`Holds`), which is what keeps later
searches away. `TracksMove` and `HoldsMove` say that the erase and the insert of a fill
keep both. The map is not a variable of the model: the invariant says that there is one,
and each step of the proof gives the next. `AsNops` says that no instruction has the
opcode `label_only`, which the enumeration has and nothing creates: the pass takes one
for a nop, and makes it one when it leaves it in a slot. It is no restriction:
`ParsedProgram` proves it of every program the parser makes. So it is with `AllInPlace`,
which says that the result of an immediate operation is in `rt`, and that a jump has no
register.

`MovesKeepMeaning` is the correctness of code motion, along every path through a
program with loops, up to a bound on executed branches (`MaxControls`) that may be any
number. It is a simulation. A run of the simulator is a position, the target that is
pending, registers and memory, the control instruction whose slot is being executed,
and what has been shown at each branch so far (`RunState`); `NextState` makes it
total, and `BehaviourIsObserved` shows that a program's behaviour is what its run ends
with, and that every run ends. The runs of the program before a move and of the one
after it are `Related`: outside the block from the candidate's old place to the slot
both are at the same instruction with the same data (`Outside`); within it, up to the
branch (`BeforeBranch`) and in the slot (`InSlots`), the first has executed the
candidate and the second still owes it, so their data differ by that instruction
(`Waits`); or both have shown all that is observed (`Stopped`). `CandidatesCommute`
and `BlocksSurviveMoves` are its step: what is owed commutes with what is passed, and
the branch compares the same operands. Each deviation is used exactly where a case
fails: a label inside the block would let a run enter it after the candidate and
before the slot, a candidate from a slot would be executed on the way to another
place, a jump that goes on at its slot would execute it twice, and an unnamed result
does not commute. Steps that only mark a slot, name a nop or resolve targets keep the
text, and labels are found by text; a nop that is added at the end is one step more to
the same end.

`OnlyDeviationsMatter` adds the moves up (`MeaningInv`, `MeaningTransitive`).
`RuledProgramsKeepMeaning` discharges its hypothesis: `RulesPreventDeviations` shows from
`PlaceInv` that in a program that kept the rules no move, however many went before it,
is a deviation. The rules are about the input, and the moves about what has become of it:
names of results and targets of jumps follow the texts (`ResultsStayNamed`,
`ControlsKeepRules`), and the label that stood between two control instructions, or the
mark on the slot of the first, still stands in the way of the search (`SlotsLeftAlone`).

`ToolChain_proofs`, for every set of files, from `SourcesAssumption`, the assumptions of
the modules above and nothing else:

* `FilesScheduledWell`, `FilesRunWell`: whatever file `schedule_tool` is given,
  malformed lines included, what `PassEquivalence_proofs` and `PipelineRun_proofs` prove
  holds of the pass and of the simulator that reads the file or the printed schedule;
* `FilesMovedSafely`, `RuledFilesKeepMeaning`: `ChainSpec => MovesAreSafe`,
  `[]RulesKeepMeaning`, with nothing assumed of the program;
* `AlwaysReadBack`: `ChainSpec => []PrintedIsReadBack`;
* `LabelsAlwaysLead`, `SlotsAlwaysAsWritten`: `ChainSpec => []LabelsLead`,
  `[]SlotsAsWritten`.

`SourcesAssumption` says that files are sequences of lines whose names and numbers are
in `Registers`, `Labels` and `Immediates`, which may be as large as one likes, and
overlap, and that in each line operands stand where names and numbers of their kind can
(`WellNamed`). The parser's loop is a recursive function, `Readings`; that it exists
(`ReadingExists`), and what holds behind every line, is proved with `IntervalInduction`.
`LabelsCounted` is what holds there: each label seen so far is at an instruction that
has as many instructions in front of it as the label's line has, or waits, and then at
the end of what is read; and no label comes from elsewhere. It needs both directions,
since a label that occurs twice counts where it stands last. `SlotsCounted` is the same
for slots: each instruction line is in the program, the next one follows it at once
unless two labels stand between, and behind the last one wait as many labels as stand
behind it in the file. From the parser to the printer and back, `PrintedIsFile` says
that what `schedule_tool` prints is again a file in the sense of the assumption.

`AlwaysReadBack` needs more than that each printed line reads as its instruction: a line
with a label alone is not an instruction when it is read, but waits for the next one.
`TogetherInv` is the inductive invariant: instructions use the operands of their format
and nothing else (`InFormat`), so that printing drops nothing, and a label that stands
alone is followed by a label or by an instruction that has one (`LabelsTogether`), since
the parser makes it so and no move separates the two. From there the printed text is
read line by line, with `IsReadUpTo` behind each line: what has been read, and the
labels that wait, are what was printed so far. The two deviations are those of the syntax,
and each makes the parser remark (`DeviationRemarked`).

`PipelineRun_proofs`, for every program, budget and set of names, from
`MaxCyclesAssumption`:

* `RunTypesCorrect`, `PendingOnlyInSlot`: `RunSpec => []RunTypeOK`,
  `[]PendingMeansInSlot`;
* `OneSlotImplemented`: `RunSpec => ImplementsOneSlot`, each iteration of the loop
  is a step of `OneDelaySlot`, but for `BranchForgotten` and `JumpToSlot`;
* `TimelineAlwaysEarliest`: `RunSpec => []TimelineIsEarliest`.

`PendingMeansInSlot` is inductive given the types: only a control instruction that
has a slot sets a pending target, and then it goes to the slot; anything else that
is executed there takes the target. It is what the refinement needs, since the code
would execute instructions between a branch and its slot in order, and not as the
slot. `GoesOn` says what the three ways through the loop body have in common.

The timing rests on `Follows`: of each register the scoreboard keeps the cycle of
its last definition, and this is the latest of all, because entries are fetched in
order and a result takes three cycles or four. That is why one cycle for each
register suffices, although a load of a register can be followed by an addition to
the same one; `FollowsKept` is the step. The scoreboard also has a cycle for memory,
which is at most four after the last fetch, and so never makes an access wait: this
is `StallsForRegisters`, and with it every stall is due to a register.

Only model-checked:

* `MatchesWaveform` and `MeetsTestbench`: they are about two programs and what was
  recorded of them, and their run is exhaustive;
* `KeepsIssuing`, `Terminates`, `SimulatorEnds`: liveness, which is out of reach of the
  prover, with the fairness behind it. What is proved of each is the bound: at most two
  edges in a row without an issue (`StallsEnd`), at most `StepsLeft` iterations
  (`PassRunsOut`), and never more instructions than the budget (`RunTypesCorrect`);
* the runs that refute a sentence of the documents: one counterexample is all they need.

## Not modelled

Text handling of the parser: comments, white space, commas and parentheses, numbers,
upper case. A file that cannot be opened, missing arguments and the usage messages of
the tools. The wording of decisions, diagnostics and timelines. What
`executeArithmetic` computes with numbers: `PipelineSim` keeps the operation, and with
`int` a sum beyond its range is undefined in C++. Of the C++ pass,
`dependenciesBlockMove` and `hasLabelBetween`, which nothing calls. The unit tests in
`tests/`, which assert on single slots of three programs. Build scripts, and
`synthesis/`, which is the output of a tool.

## Plan

The models cover what the components above do, and each safety property of a passing run
is a theorem, but for the two about recorded waveforms. What is left:

1. liveness, when the prover has it: the measures are there, `EdgesToIssue`, `StepsLeft`
   and the budget, and with weak fairness each gives its property in one rule;
2. a text-level model of the parser (comments, white space, `stoi`), which none of the
   properties here distinguishes;
3. if the deviations are repaired in the code, the deviation is deleted from its
   property, and the proof shows which case is no longer excused.
