------------------------------- MODULE Parser -------------------------------
(***************************************************************************)
(* src/parser.cpp, and Instruction::toString of src/instruction.cpp: from  *)
(* assembly text to a program and back.                                    *)
(*                                                                         *)
(* A line of source is what is left of it without comments and white       *)
(* space, cut into tokens: an opcode and operands, with a label in front   *)
(* of them or alone.  `name:' alone has no opcode; a blank line has        *)
(* neither.  An operand is a name, a number, or `number(name)'; whatever   *)
(* stands where no number is looked for is a name, also a number.          *)
(***************************************************************************)
EXTENDS Instruction

Operand(form, name, number) == [form |-> form, name |-> name, number |-> number]
Name(name) == Operand("name", name, 0)
Number(number) == Operand("number", "", number)
Memory(number, name) == Operand("memory", name, number)

Line(label, opcode, operands) ==
    [label |-> label, opcode |-> opcode, operands |-> operands]

\* Every name and number that occurs has its place in the constants, and "other" is any
\* word that is no opcode.
OperandSet ==
    [form : {"name"}, name : Registers \cup Labels \cup {""}, number : {0}]
      \cup [form : {"number"}, name : {""}, number : Immediates \cup {0}]
      \cup [form : {"memory"}, name : Registers \cup {""}, number : Immediates \cup {0}]
LineSet ==
    [label : Labels \cup {""}, opcode : OpCode \cup {"", "other"}, operands : Seq(OperandSet)]

NamesLabel(opcode, n) == (opcode \in {"beq", "bne"} /\ n = 3) \/ (opcode = "j" /\ n = 1)

NamesNumber(opcode, n) == (opcode = "addi" /\ n = 3) \/ (opcode \in {"li", "lw", "sw"} /\ n = 2)

\* Registers and labels are named where they are looked for, and a label that stands
\* alone has no operands.
WellNamed(line) ==
    /\ line \in LineSet
    /\ \A n \in DOMAIN line.operands :
          /\ line.operands[n].name \in
                 (IF NamesLabel(line.opcode, n) THEN Labels ELSE Registers) \cup {""}
          /\ line.operands[n].form = "name" \/ NamesNumber(line.opcode, n)
    /\ line.opcode = "" => line.operands = <<>>

IsBlank(line) == line.label = "" /\ line.opcode = ""
IsLabel(line) == line.label # "" /\ line.opcode = ""

\* The opcode is the first word of the line.  A label in front of it is taken
\* for one, which is unknown and so stands for a nop.
parseOpcode(line) ==
    IF line.label # "" \/ line.opcode \notin OpCode \ {"label_only"} THEN "nop"
    ELSE line.opcode

\* Operands that parseAssemblyString insists on; 0 where it looks at none.
Arity(opcode) ==
    CASE opcode \in RdArithmetic \cup {"addi", "beq", "bne"} -> 3
      [] opcode \in {"lw", "sw", "li"}                       -> 2
      [] opcode = "j"                                        -> 1
      [] OTHER                                               -> 0

EndsEmpty(o) == o # <<>> /\ o[Len(o)] = Name("")

\* splitOperands drops an empty operand at the end.
Operands(line) ==
    LET o == line.operands
    IN  IF EndsEmpty(o) THEN SubSeq(o, 1, Len(o) - 1) ELSE o

MalformedMemory(opcode, o) == opcode \in {"lw", "sw"} /\ o[2].form # "memory"
MalformedNumber(opcode, o) == opcode \in {"addi", "li"} /\ o[Len(o)].form = "name"

\* The switch over the opcode.  With the wrong number of operands none is used;
\* what does not parse as a number stays 0.
ReadInstruction(line) ==
    LET opcode == parseOpcode(line)
        o == Operands(line)
        inst == [NopInstruction EXCEPT !.opcode = opcode]
    IN  IF Arity(opcode) = 0 \/ Len(o) # Arity(opcode) THEN inst
        ELSE CASE opcode \in RdArithmetic ->
                    [inst EXCEPT !.rd = o[1].name, !.rs = o[2].name, !.rt = o[3].name]
               [] opcode = "addi" ->
                    [inst EXCEPT !.rt = o[1].name, !.rs = o[2].name, !.immediate = o[3].number]
               [] opcode = "li" -> [inst EXCEPT !.rt = o[1].name, !.immediate = o[2].number]
               [] opcode \in {"lw", "sw"} ->
                    IF MalformedMemory(opcode, o) THEN [inst EXCEPT !.rt = o[1].name]
                    ELSE [inst EXCEPT !.rt = o[1].name, !.rs = o[2].name,
                                      !.immediate = o[2].number]
               [] opcode \in {"beq", "bne"} ->
                    [inst EXCEPT !.rs = o[1].name, !.rt = o[2].name, !.target_label = o[3].name]
               [] opcode = "j" -> [inst EXCEPT !.target_label = o[1].name]

Diagnoses(line) ==
    LET opcode == parseOpcode(line)
        o == Operands(line)
    IN  \/ opcode # line.opcode \/ line.label # ""
        \/ /\ Arity(opcode) # 0
           /\ Len(o) # Arity(opcode) \/ MalformedMemory(opcode, o) \/ MalformedNumber(opcode, o)

\* What stands for a label that no instruction carries.
LabelInstruction(label) == [NopInstruction EXCEPT !.label = label, !.label_only = TRUE]
LabelInstructions(labels) == [n \in DOMAIN labels |-> LabelInstruction(labels[n])]

\* The first label goes to the instruction and the others to nops behind it.
WithLabelsBehind(labels, inst) ==
    IF labels = <<>> THEN <<inst>>
    ELSE <<[inst EXCEPT !.label = Head(labels)]>> \o LabelInstructions(Tail(labels))

\* No label goes to the instruction.
WithLabelsApart(labels, inst) == LabelInstructions(labels) \o <<inst>>

\* The first label goes to the instruction and the others to nops in front of it.
WithLabels(labels, inst) ==
    IF labels = <<>> THEN <<inst>>
    ELSE LabelInstructions(Tail(labels)) \o <<[inst EXCEPT !.label = Head(labels)]>>

\* One line of the loop in parseAssemblyString.
ReadLine(state, line) ==
    CASE IsBlank(line) -> state
      [] IsLabel(line) -> [state EXCEPT !.pending_labels = Append(@, line.label)]
      [] OTHER ->
            [pending_labels |-> <<>>,
             instructions |-> state.instructions
                                \o WithLabels(state.pending_labels, ReadInstruction(line)),
             diagnosed |-> state.diagnosed \/ Diagnoses(line)]

StartReading == [pending_labels |-> <<>>, instructions |-> <<>>, diagnosed |-> FALSE]

\* The state of the loop behind each line.
Readings(source) ==
    LET read[k \in 0 .. Len(source)] ==
            IF k = 0 THEN StartReading ELSE ReadLine(read[k - 1], source[k])
    IN  read

\* The program, and whether there are diagnostics.
parseAssemblyString(source) ==
    LET read == Readings(source)[Len(source)]
        program == resolveTargets(read.instructions \o LabelInstructions(read.pending_labels))
    IN  [instructions |-> program,
         diagnosed |-> \/ read.diagnosed
                       \/ \E n \in DOMAIN program :
                              isControl(program[n]) /\ program[n].target_index = 0]

-----------------------------------------------------------------------------
(* Printing.                                                               *)

PrintedOperands(inst) ==
    CASE inst.opcode \in RdArithmetic   -> <<Name(inst.rd), Name(inst.rs), Name(inst.rt)>>
      [] inst.opcode = "addi"           -> <<Name(inst.rt), Name(inst.rs), Number(inst.immediate)>>
      [] inst.opcode \in {"lw", "sw"}   -> <<Name(inst.rt), Memory(inst.immediate, inst.rs)>>
      [] inst.opcode = "li"             -> <<Name(inst.rt), Number(inst.immediate)>>
      [] inst.opcode \in {"beq", "bne"} -> <<Name(inst.rs), Name(inst.rt), Name(inst.target_label)>>
      [] inst.opcode = "j"              -> <<Name(inst.target_label)>>
      [] OTHER                          -> <<>>

opcodeToString(opcode) == IF opcode = "label_only" THEN "" ELSE opcode

toStringUnlabelled(inst) == Line("", opcodeToString(inst.opcode), PrintedOperands(inst))

toString(inst) ==
    IF inst.opcode = "label_only" \/ (inst.opcode = "nop" /\ hasLabel(inst) /\ inst.label_only)
    THEN Line(inst.label, "", <<>>)
    ELSE Line(inst.label, opcodeToString(inst.opcode), PrintedOperands(inst))

\* What schedule_tool writes.
Printed(program) == [n \in DOMAIN program |-> toString(program[n])]
=============================================================================
