-------------------------- MODULE ToolChain_proofs --------------------------
(***************************************************************************)
(* Proofs about the tools as they are run together, for every set of       *)
(* files: what the parser makes of a file, and what the theorems about the *)
(* scheduler and the simulator say of the chain.                           *)
(***************************************************************************)
EXTENDS ToolChain, PassEquivalence_proofs, PipelineRun_proofs

-----------------------------------------------------------------------------
(* The loop over the lines.                                                *)

\* What is read behind the first lines of a file, each line after the one before.
Reads(r, file, n) ==
    r = [k \in 0 .. n |-> IF k = 0 THEN StartReading ELSE ReadLine(r[k - 1], file[k])]

\* However long the file is, there is such a reading of it.
LEMMA ReadingExists ==
    ASSUME NEW file, NEW N \in Nat
    PROVE  \E r : Reads(r, file, N)
<1> DEFINE P == {n \in 0 .. N : \E r : Reads(r, file, n)}
<1>1. 0 \in P
  <2> DEFINE r == [k \in 0 .. 0 |-> StartReading]
  <2>1. r = [k \in 0 .. 0 |-> IF k = 0 THEN StartReading ELSE ReadLine(r[k - 1], file[k])]
    OBVIOUS
  <2>2. \E s : Reads(s, file, 0)
    BY <2>1 DEF Reads
  <2> QED  BY <2>2
<1>2. ASSUME NEW n \in 0 .. N, n < N, n \in P PROVE n + 1 \in P
  <2>1. PICK r : Reads(r, file, n)
    BY <1>2
  <2> DEFINE s == [k \in 0 .. n + 1 |-> IF k = n + 1 THEN ReadLine(r[n], file[n + 1]) ELSE r[k]]
  <2>2. n \in Nat /\ n + 1 \in 0 .. N
    BY <1>2
  <2>3. \A k \in 0 .. n + 1 :
           s[k] = IF k = 0 THEN StartReading ELSE ReadLine(s[k - 1], file[k])
    <3> SUFFICES ASSUME NEW k \in 0 .. n + 1
                 PROVE  s[k] = IF k = 0 THEN StartReading ELSE ReadLine(s[k - 1], file[k])
      OBVIOUS
    <3>1. CASE k = n + 1
      <4>1. s[k] = ReadLine(r[n], file[n + 1]) /\ s[n] = r[n] /\ k # 0 /\ k - 1 = n
        BY <2>2, <3>1
      <4> QED  BY <3>1, <4>1
    <3>2. CASE k # n + 1
      <4>1. k \in 0 .. n /\ s[k] = r[k] /\ (k # 0 => k - 1 \in 0 .. n + 1 /\ k - 1 # n + 1)
        BY <2>2, <3>2
      <4>2. r[k] = IF k = 0 THEN StartReading ELSE ReadLine(r[k - 1], file[k])
        BY <2>1, <4>1 DEF Reads
      <4>3. k # 0 => s[k - 1] = r[k - 1]
        BY <4>1
      <4> HIDE DEF s
      <4> QED  BY <4>1, <4>2, <4>3
    <3> QED  BY <3>1, <3>2
  <2>4. \E t : Reads(t, file, n + 1)
    <3>1. s = [k \in 0 .. n + 1 |-> IF k = 0 THEN StartReading ELSE ReadLine(s[k - 1], file[k])]
      <4>1. s = [k \in 0 .. n + 1 |-> s[k]]
        OBVIOUS
      <4> HIDE DEF s
      <4> QED  BY <2>3, <4>1
    <3> HIDE DEF s
    <3> QED  BY <3>1 DEF Reads
  <2> QED  BY <2>2, <2>4
<1>3. \A n \in 0 .. N : n \in P
  <2> HIDE DEF P
  <2> QED  BY <1>1, <1>2, IntervalInduction
<1>4. N \in 0 .. N
  OBVIOUS
<1> QED  BY <1>3, <1>4

\* And the parser takes it.
LEMMA ReadingFacts ==
    ASSUME NEW S, NEW file \in Seq(S)
    PROVE  /\ Readings(file)[0] = StartReading
           /\ \A k \in 1 .. Len(file) :
                 Readings(file)[k] = ReadLine(Readings(file)[k - 1], file[k])
<1> DEFINE r == Readings(file)
<1>1. Len(file) \in Nat
  OBVIOUS
<1>2. \E s : Reads(s, file, Len(file))
  BY <1>1, ReadingExists
<1>3. r = CHOOSE s : Reads(s, file, Len(file))
  BY DEF Readings, Reads
<1>4. Reads(r, file, Len(file))
  BY <1>2, <1>3
<1> HIDE DEF r
<1>5. \A k \in 0 .. Len(file) : r[k] = IF k = 0 THEN StartReading ELSE ReadLine(r[k - 1], file[k])
  BY <1>4 DEF Reads
<1>6. /\ 0 \in 0 .. Len(file)
      /\ \A k \in 1 .. Len(file) : k \in 0 .. Len(file) /\ k # 0
  BY <1>1
<1> QED  BY <1>5, <1>6 DEF r

-----------------------------------------------------------------------------
(* What is read is well-formed.                                            *)

\* A sequence without its last element.
LEMMA ButLast ==
    ASSUME NEW S, NEW w \in Seq(S), w # <<>>
    PROVE  LET v == SubSeq(w, 1, Len(w) - 1)
           IN  /\ v \in Seq(S) /\ Len(v) = Len(w) - 1
               /\ \A n \in 1 .. Len(v) : n \in DOMAIN w /\ v[n] = w[n]
<1>1. Len(w) \in Nat /\ Len(w) # 0 /\ DOMAIN w = 1 .. Len(w)
  OBVIOUS
<1>2. Len(w) - 1 \in Nat
  BY <1>1
<1>3. /\ SubSeq(w, 1, Len(w) - 1) \in Seq(S)
      /\ Len(SubSeq(w, 1, Len(w) - 1)) = Len(w) - 1
      /\ \A n \in 1 .. Len(w) - 1 : SubSeq(w, 1, Len(w) - 1)[n] = w[n]
  BY <1>1, <1>2
<1>4. \A n \in 1 .. Len(w) - 1 : n \in DOMAIN w
  BY <1>1
<1> QED  BY <1>3, <1>4

\* What operands consist of.
LEMMA OperandParts ==
    /\ \A o \in OperandSet : o.number \in Immediates \cup {0}
    /\ \A r \in Registers \cup Labels \cup {""} :
          Name(r) \in OperandSet /\ Name(r).name = r /\ Name(r).form = "name"
    /\ \A m \in Immediates \cup {0} : Number(m) \in OperandSet /\ Number(m).name = ""
    /\ \A m \in Immediates \cup {0} : \A r \in Registers \cup {""} :
          Memory(m, r) \in OperandSet /\ Memory(m, r).name = r
<1>1. \A o \in OperandSet : o.number \in Immediates \cup {0}
  BY DEF OperandSet
<1>2. \A r \in Registers \cup Labels \cup {""} :
         Name(r) \in OperandSet /\ Name(r).name = r /\ Name(r).form = "name"
  BY DEF Name, Operand, OperandSet
<1>3. \A m \in Immediates \cup {0} : Number(m) \in OperandSet /\ Number(m).name = ""
  BY DEF Number, Operand, OperandSet
<1>4. \A m \in Immediates \cup {0} : \A r \in Registers \cup {""} :
         Memory(m, r) \in OperandSet /\ Memory(m, r).name = r
  BY DEF Memory, Operand, OperandSet
<1> QED  BY <1>1, <1>2, <1>3, <1>4

\* The opcode of an instruction with operands is the one that is written, and each
\* operand is one of those that are written.
LEMMA OperandFacts ==
    ASSUME NEW line, WellNamed(line), Arity(parseOpcode(line)) # 0
    PROVE  /\ parseOpcode(line) = line.opcode
           /\ Operands(line) \in Seq(OperandSet)
           /\ \A n \in 1 .. Len(Operands(line)) :
                 /\ Operands(line)[n].number \in Immediates \cup {0}
                 /\ Operands(line)[n].name \in
                       (IF NamesLabel(line.opcode, n) THEN Labels ELSE Registers) \cup {""}
<1>1. parseOpcode(line) = line.opcode
  <2>1. parseOpcode(line) # "nop"
    BY DEF Arity, RdArithmetic
  <2> QED  BY <2>1, Zenon DEF parseOpcode
<1> DEFINE w == line.operands
           o == Operands(line)
<1>2. /\ w \in Seq(OperandSet)
      /\ \A n \in DOMAIN w :
            w[n].name \in (IF NamesLabel(line.opcode, n) THEN Labels ELSE Registers) \cup {""}
  <2>1. w \in Seq(OperandSet)
    BY DEF WellNamed, LineSet
  <2> QED  BY <2>1, Zenon DEF WellNamed, w
<1>3. o = w \/ (w # <<>> /\ o = SubSeq(w, 1, Len(w) - 1))
  BY DEF Operands, EndsEmpty
<1> HIDE DEF w, o
<1>4. o \in Seq(OperandSet) /\ \A n \in 1 .. Len(o) : n \in DOMAIN w /\ o[n] = w[n]
  <2>1. w \in Seq(OperandSet)
    BY <1>2
  <2>2. CASE o = w
    BY <2>1, <2>2
  <2>3. CASE w # <<>> /\ o = SubSeq(w, 1, Len(w) - 1)
    BY <2>1, <2>3, ButLast
  <2> QED  BY <1>3, <2>2, <2>3
<1>5. \A n \in 1 .. Len(o) : o[n].number \in Immediates \cup {0}
  <2> SUFFICES ASSUME NEW n \in 1 .. Len(o) PROVE o[n].number \in Immediates \cup {0}
    OBVIOUS
  <2>1. o[n] \in OperandSet
    BY <1>4
  <2> QED  BY <2>1, OperandParts
<1> QED  BY <1>1, <1>2, <1>4, <1>5 DEF o

\* An instruction that is read has no label yet, and is no label alone.
Unlabelled(x) == x \in InstructionSet /\ x.opcode # "label_only" /\ x.label = "" /\ ~x.label_only

\* The operands that the switch over the opcode fills in.
LEMMA FilledIn ==
    ASSUME NEW x, Unlabelled(x), NEW a \in Registers \cup {""}, NEW b \in Registers \cup {""},
           NEW c \in Registers \cup {""}, NEW n \in Immediates \cup {0}, NEW l \in Labels \cup {""}
    PROVE  /\ Unlabelled([x EXCEPT !.rd = a, !.rs = b, !.rt = c])
           /\ Unlabelled([x EXCEPT !.rt = a, !.rs = b, !.immediate = n])
           /\ Unlabelled([x EXCEPT !.rt = a, !.immediate = n])
           /\ Unlabelled([x EXCEPT !.rt = a])
           /\ Unlabelled([x EXCEPT !.rs = a, !.rt = b, !.target_label = l])
           /\ Unlabelled([x EXCEPT !.target_label = l])
<1>1. x \in InstructionSet /\ x.opcode # "label_only" /\ x.label = "" /\ x.label_only = FALSE
  BY DEF Unlabelled, InstructionSet
<1> DEFINE Is(y) == y \in InstructionSet /\ y.opcode # "label_only" /\ y.label = ""
                    /\ y.label_only = FALSE
<1>2. Is([x EXCEPT !.rd = a, !.rs = b, !.rt = c])
  BY <1>1 DEF InstructionSet
<1>3. Is([x EXCEPT !.rt = a, !.rs = b, !.immediate = n])
  BY <1>1 DEF InstructionSet
<1>4. Is([x EXCEPT !.rt = a, !.immediate = n])
  BY <1>1 DEF InstructionSet
<1>5. Is([x EXCEPT !.rt = a])
  BY <1>1 DEF InstructionSet
<1>6. Is([x EXCEPT !.rs = a, !.rt = b, !.target_label = l])
  BY <1>1 DEF InstructionSet
<1>7. Is([x EXCEPT !.target_label = l])
  BY <1>1 DEF InstructionSet
<1> QED  BY <1>2, <1>3, <1>4, <1>5, <1>6, <1>7, Zenon DEF Unlabelled

\* How many operands an opcode has, and which of them is a label.
LEMMA ArityFacts ==
    ASSUME NEW opcode
    PROVE  /\ opcode \in RdArithmetic \cup {"addi"} => Arity(opcode) = 3
           /\ opcode \in {"lw", "sw", "li"} => Arity(opcode) = 2
           /\ opcode \in {"beq", "bne"} => Arity(opcode) = 3
           /\ opcode = "j" => Arity(opcode) = 1
           /\ Arity(opcode) # 0 =>
                 opcode \in RdArithmetic \cup {"addi", "li", "lw", "sw", "beq", "bne", "j"}
           /\ opcode \in RdArithmetic \cup {"addi", "lw", "sw", "li"} =>
                 \A n : ~NamesLabel(opcode, n)
           /\ opcode \in {"beq", "bne"} =>
                 ~NamesLabel(opcode, 1) /\ ~NamesLabel(opcode, 2) /\ NamesLabel(opcode, 3)
           /\ NamesLabel("j", 1)
           /\ NamesNumber("addi", 3) /\ \A op \in {"lw", "sw", "li"} : NamesNumber(op, 2)
<1>1. opcode \in RdArithmetic \cup {"addi"} => Arity(opcode) = 3
  BY DEF Arity, RdArithmetic
<1>2. opcode \in {"lw", "sw", "li"} => Arity(opcode) = 2
  BY DEF Arity, RdArithmetic
<1>3. opcode \in {"beq", "bne"} => Arity(opcode) = 3
  BY DEF Arity, RdArithmetic
<1>4. opcode = "j" => Arity(opcode) = 1
  BY DEF Arity, RdArithmetic
<1>5. Arity(opcode) # 0 =>
         opcode \in RdArithmetic \cup {"addi", "li", "lw", "sw", "beq", "bne", "j"}
  BY DEF Arity
<1>6. opcode \in RdArithmetic \cup {"addi", "lw", "sw", "li"} =>
         opcode \notin {"beq", "bne"} /\ opcode # "j"
  BY DEF RdArithmetic
<1>7. opcode \in RdArithmetic \cup {"addi", "lw", "sw", "li"} => \A n : ~NamesLabel(opcode, n)
  BY <1>6, Zenon DEF NamesLabel
<1>8. opcode \in {"beq", "bne"} =>
         ~NamesLabel(opcode, 1) /\ ~NamesLabel(opcode, 2) /\ NamesLabel(opcode, 3)
  BY DEF NamesLabel
<1>9. NamesLabel("j", 1)
  BY DEF NamesLabel
<1>10. NamesNumber("addi", 3) /\ \A op \in {"lw", "sw", "li"} : NamesNumber(op, 2)
  BY DEF NamesNumber
<1> QED  BY <1>1, <1>2, <1>3, <1>4, <1>5, <1>7, <1>8, <1>9, <1>10

\* What the switch over the opcode makes of a line.
LEMMA ReadInstructionType ==
    ASSUME NEW line, WellNamed(line)
    PROVE  Unlabelled(ReadInstruction(line))
<1> DEFINE opcode == parseOpcode(line)
           o == Operands(line)
           x == [NopInstruction EXCEPT !.opcode = opcode]
           y == ReadInstruction(line)
           arithmetic == [x EXCEPT !.rd = o[1].name, !.rs = o[2].name, !.rt = o[3].name]
           addi == [x EXCEPT !.rt = o[1].name, !.rs = o[2].name, !.immediate = o[3].number]
           li == [x EXCEPT !.rt = o[1].name, !.immediate = o[2].number]
           malformed == [x EXCEPT !.rt = o[1].name]
           access == [x EXCEPT !.rt = o[1].name, !.rs = o[2].name, !.immediate = o[2].number]
           branch == [x EXCEPT !.rs = o[1].name, !.rt = o[2].name, !.target_label = o[3].name]
           jump == [x EXCEPT !.target_label = o[1].name]
<1>1. opcode \in OpCode \ {"label_only"}
  BY DEF parseOpcode, OpCode, ArithmeticOps, RdArithmetic
<1>2. Unlabelled(x)
  <2>1. /\ NopInstruction \in InstructionSet /\ NopInstruction.label = ""
        /\ NopInstruction.label_only = FALSE
    BY NopType DEF NopInstruction
  <2>2. ASSUME NEW z \in InstructionSet, z.label = "", z.label_only = FALSE,
               NEW c \in OpCode \ {"label_only"}
        PROVE  Unlabelled([z EXCEPT !.opcode = c])
    BY <2>2 DEF Unlabelled, InstructionSet
  <2> QED  BY <1>1, <2>1, <2>2
<1>3. y = IF Arity(opcode) = 0 \/ Len(o) # Arity(opcode) THEN x
          ELSE CASE opcode \in RdArithmetic -> arithmetic
                 [] opcode = "addi" -> addi
                 [] opcode = "li" -> li
                 [] opcode \in {"lw", "sw"} ->
                      IF MalformedMemory(opcode, o) THEN malformed ELSE access
                 [] opcode \in {"beq", "bne"} -> branch
                 [] opcode = "j" -> jump
  BY DEF ReadInstruction
<1>4. ASSUME Arity(opcode) # 0, Len(o) = Arity(opcode), NEW n \in 1 .. Len(o)
      PROVE  /\ o[n].number \in Immediates \cup {0}
             /\ NamesLabel(opcode, n) => o[n].name \in Labels \cup {""}
             /\ ~NamesLabel(opcode, n) => o[n].name \in Registers \cup {""}
  BY <1>4, OperandFacts
<1> HIDE DEF y, x, o, opcode, arithmetic, addi, li, malformed, access, branch, jump
<1>6. ASSUME Arity(opcode) = 0 \/ Len(o) # Arity(opcode) PROVE Unlabelled(y)
  BY <1>2, <1>3, <1>6
<1>7. ASSUME Arity(opcode) # 0, Len(o) = Arity(opcode) PROVE Unlabelled(y)
  <2>1. CASE opcode \in RdArithmetic
    <3>1. Len(o) = 3 /\ 1 \in 1 .. Len(o) /\ 2 \in 1 .. Len(o) /\ 3 \in 1 .. Len(o)
      BY <1>7, <2>1, ArityFacts
    <3>2. /\ o[1].name \in Registers \cup {""} /\ o[2].name \in Registers \cup {""}
          /\ o[3].name \in Registers \cup {""}
      BY <1>4, <1>7, <2>1, <3>1, ArityFacts
    <3>3. Unlabelled(arithmetic)
      BY <1>2, <3>2, FilledIn DEF arithmetic
    <3>4. y = arithmetic
      BY <1>3, <1>7, <2>1 DEF RdArithmetic
    <3> QED  BY <3>3, <3>4
  <2>2. CASE opcode = "addi"
    <3>1. Len(o) = 3 /\ 1 \in 1 .. Len(o) /\ 2 \in 1 .. Len(o) /\ 3 \in 1 .. Len(o)
      BY <1>7, <2>2, ArityFacts
    <3>2. /\ o[1].name \in Registers \cup {""} /\ o[2].name \in Registers \cup {""}
          /\ o[3].number \in Immediates \cup {0}
      BY <1>4, <1>7, <2>2, <3>1, ArityFacts
    <3>3. Unlabelled(addi)
      BY <1>2, <3>2, FilledIn DEF addi
    <3>4. y = addi
      BY <1>3, <1>7, <2>2 DEF RdArithmetic
    <3> QED  BY <3>3, <3>4
  <2>3. CASE opcode \in {"li", "lw", "sw"}
    <3>1. Len(o) = 2 /\ 1 \in 1 .. Len(o) /\ 2 \in 1 .. Len(o)
      BY <1>7, <2>3, ArityFacts
    <3>2. /\ o[1].name \in Registers \cup {""} /\ o[2].name \in Registers \cup {""}
          /\ o[2].number \in Immediates \cup {0}
      BY <1>4, <1>7, <2>3, <3>1, ArityFacts
    <3>3. Unlabelled(li) /\ Unlabelled(malformed) /\ Unlabelled(access)
      BY <1>2, <3>2, FilledIn DEF li, malformed, access
    <3>4. y = li \/ y = malformed \/ y = access
      BY <1>3, <1>7, <2>3 DEF RdArithmetic
    <3> QED  BY <3>3, <3>4
  <2>4. CASE opcode \in {"beq", "bne"}
    <3>1. Len(o) = 3 /\ 1 \in 1 .. Len(o) /\ 2 \in 1 .. Len(o) /\ 3 \in 1 .. Len(o)
      BY <1>7, <2>4, ArityFacts
    <3>2. /\ o[1].name \in Registers \cup {""} /\ o[2].name \in Registers \cup {""}
          /\ o[3].name \in Labels \cup {""}
      BY <1>4, <1>7, <2>4, <3>1, ArityFacts
    <3>3. Unlabelled(branch)
      BY <1>2, <3>2, FilledIn DEF branch
    <3>4. y = branch
      BY <1>3, <1>7, <2>4 DEF RdArithmetic
    <3> QED  BY <3>3, <3>4
  <2>5. CASE opcode = "j"
    <3>1. Len(o) = 1 /\ 1 \in 1 .. Len(o)
      BY <1>7, <2>5, ArityFacts
    <3>2. o[1].name \in Labels \cup {""}
      BY <1>4, <1>7, <2>5, <3>1, ArityFacts
    <3>3. Unlabelled(jump)
      BY <1>2, <3>2, FilledIn DEF jump
    <3>4. y = jump
      BY <1>3, <1>7, <2>5 DEF RdArithmetic
    <3> QED  BY <3>3, <3>4
  <2>6. opcode \in RdArithmetic \cup {"addi", "li", "lw", "sw", "beq", "bne", "j"}
    BY <1>7, ArityFacts
  <2> QED  BY <2>1, <2>2, <2>3, <2>4, <2>5, <2>6
<1> QED  BY <1>6, <1>7 DEF y

\* An instruction has no operands but those of its opcode, and a label alone has none.
InFormat(x) ==
    /\ x.opcode \notin RdArithmetic => x.rd = ""
    /\ x.opcode \in {"li", "j", "nop"} => x.rs = ""
    /\ x.opcode \in {"j", "nop"} => x.rt = ""
    /\ x.opcode \notin {"addi", "li", "lw", "sw"} => x.immediate = 0
    /\ x.opcode \notin {"beq", "bne", "j"} => x.target_label = ""
    /\ x.label_only => x.opcode = "nop"

\* The switch over the opcode fills in no others.
LEMMA ReadInstructionFormat ==
    ASSUME NEW line, WellNamed(line)
    PROVE  InFormat(ReadInstruction(line))
<1> DEFINE opcode == parseOpcode(line)
           o == Operands(line)
           x == [NopInstruction EXCEPT !.opcode = opcode]
           y == ReadInstruction(line)
           arithmetic == [x EXCEPT !.rd = o[1].name, !.rs = o[2].name, !.rt = o[3].name]
           addi == [x EXCEPT !.rt = o[1].name, !.rs = o[2].name, !.immediate = o[3].number]
           li == [x EXCEPT !.rt = o[1].name, !.immediate = o[2].number]
           malformed == [x EXCEPT !.rt = o[1].name]
           access == [x EXCEPT !.rt = o[1].name, !.rs = o[2].name, !.immediate = o[2].number]
           branch == [x EXCEPT !.rs = o[1].name, !.rt = o[2].name, !.target_label = o[3].name]
           jump == [x EXCEPT !.target_label = o[1].name]
<1>1. \/ y = x
      \/ opcode \in RdArithmetic /\ y = arithmetic
      \/ opcode = "addi" /\ y = addi
      \/ opcode = "li" /\ y = li
      \/ opcode \in {"lw", "sw"} /\ (y = malformed \/ y = access)
      \/ opcode \in {"beq", "bne"} /\ y = branch
      \/ opcode = "j" /\ y = jump
  <2>1. Arity(opcode) # 0 =>
          opcode \in RdArithmetic \cup {"addi", "li", "lw", "sw", "beq", "bne", "j"}
    BY ArityFacts
  <2>2. y = IF Arity(opcode) = 0 \/ Len(o) # Arity(opcode) THEN x
            ELSE CASE opcode \in RdArithmetic -> arithmetic
                   [] opcode = "addi" -> addi
                   [] opcode = "li" -> li
                   [] opcode \in {"lw", "sw"} ->
                        IF MalformedMemory(opcode, o) THEN malformed ELSE access
                   [] opcode \in {"beq", "bne"} -> branch
                   [] opcode = "j" -> jump
    BY DEF ReadInstruction
  <2> HIDE DEF y, x, o, opcode, arithmetic, addi, li, malformed, access, branch, jump
  <2> QED  BY <2>1, <2>2 DEF RdArithmetic
<1> HIDE DEF o, opcode, y
<1>2. InFormat(x)
  BY DEF InFormat, NopInstruction
<1>3. opcode \in RdArithmetic => InFormat(arithmetic)
  BY DEF InFormat, NopInstruction, RdArithmetic
<1>4. opcode = "addi" => InFormat(addi)
  BY DEF InFormat, NopInstruction, RdArithmetic
<1>5. opcode = "li" => InFormat(li)
  BY DEF InFormat, NopInstruction, RdArithmetic
<1>6. opcode \in {"lw", "sw"} => InFormat(malformed) /\ InFormat(access)
  BY DEF InFormat, NopInstruction, RdArithmetic
<1>7. opcode \in {"beq", "bne"} => InFormat(branch)
  BY DEF InFormat, NopInstruction, RdArithmetic
<1>8. opcode = "j" => InFormat(jump)
  BY DEF InFormat, NopInstruction, RdArithmetic
<1> HIDE DEF x, arithmetic, addi, li, malformed, access, branch, jump
<1> QED  BY <1>1, <1>2, <1>3, <1>4, <1>5, <1>6, <1>7, <1>8 DEF y

\* What the parser adds to a program: label_only is no opcode that it finds.
Parsed == {x \in InstructionSet : x.opcode # "label_only" /\ InFormat(x)}

\* Labels are no operands.
LEMMA LabelledFormat ==
    ASSUME NEW x \in InstructionSet, InFormat(x), NEW l \in Labels
    PROVE  /\ InFormat([x EXCEPT !.label = l])
           /\ x.opcode = "nop" => InFormat([x EXCEPT !.label = l, !.label_only = TRUE])
<1>1. ASSUME NEW y, y.opcode = x.opcode, y.rd = x.rd, y.rs = x.rs, y.rt = x.rt,
             y.immediate = x.immediate, y.target_label = x.target_label,
             y.label_only => x.label_only \/ x.opcode = "nop"
      PROVE  InFormat(y)
  BY <1>1 DEF InFormat
<1>2. InFormat([x EXCEPT !.label = l])
  BY <1>1 DEF InstructionSet
<1>3. x.opcode = "nop" => InFormat([x EXCEPT !.label = l, !.label_only = TRUE])
  BY <1>1 DEF InstructionSet
<1> QED  BY <1>2, <1>3

\* A label that stands alone becomes an instruction that is nothing but the label.
LEMMA LabelInstructionsFacts ==
    ASSUME NEW labels \in Seq(Labels)
    PROVE  /\ LabelInstructions(labels) \in Seq(Parsed)
           /\ Len(LabelInstructions(labels)) = Len(labels)
           /\ \A n \in 1 .. Len(LabelInstructions(labels)) :
                 /\ LabelInstructions(labels)[n].label_only
                 /\ LabelInstructions(labels)[n].label = labels[n]
<1>1. Len(labels) \in Nat /\ DOMAIN labels = 1 .. Len(labels)
  OBVIOUS
<1>2. ASSUME NEW l \in Labels
      PROVE  /\ LabelInstruction(l) \in Parsed
             /\ LabelInstruction(l).label_only /\ LabelInstruction(l).label = l
  <2>1. /\ NopInstruction \in InstructionSet /\ NopInstruction.opcode = "nop"
        /\ InFormat(NopInstruction)
    BY NopType DEF NopInstruction, InFormat
  <2>2. ASSUME NEW z \in InstructionSet
        PROVE  /\ [z EXCEPT !.label = l, !.label_only = TRUE] \in InstructionSet
               /\ [z EXCEPT !.label = l, !.label_only = TRUE].opcode = z.opcode
               /\ [z EXCEPT !.label = l, !.label_only = TRUE].label_only = TRUE
               /\ [z EXCEPT !.label = l, !.label_only = TRUE].label = l
    BY <2>2 DEF InstructionSet
  <2> DEFINE y == LabelInstruction(l)
  <2>3. y = [NopInstruction EXCEPT !.label = l, !.label_only = TRUE]
    BY DEF LabelInstruction
  <2>4. InFormat(y)
    BY <2>1, <2>3, LabelledFormat
  <2> HIDE DEF y
  <2>5. /\ y \in InstructionSet /\ y.opcode # "label_only" /\ InFormat(y)
        /\ y.label_only = TRUE /\ y.label = l
    BY <2>1, <2>2, <2>3, <2>4
  <2> QED  BY <2>5, Zenon DEF y, Parsed
<1>3. \A n \in 1 .. Len(labels) : labels[n] \in Labels
  OBVIOUS
<1> DEFINE w == LabelInstructions(labels)
<1>4. w = [n \in 1 .. Len(labels) |-> LabelInstruction(labels[n])]
  BY <1>1 DEF LabelInstructions
<1> HIDE DEF w
<1>5. w \in Seq(Parsed) /\ Len(w) = Len(labels)
  BY <1>1, <1>2, <1>3, <1>4
<1>6. \A n \in 1 .. Len(w) : w[n] = LabelInstruction(labels[n]) /\ labels[n] \in Labels
  BY <1>1, <1>3, <1>4, <1>5
<1>7. \A n \in 1 .. Len(w) : w[n].label_only /\ w[n].label = labels[n]
  BY <1>2, <1>6, Zenon
<1> QED  BY <1>5, <1>7 DEF w

\* A sequence of one element, and one taken apart.
LEMMA OneElement ==
    ASSUME NEW S, NEW e \in S, NEW w, w = <<e>>
    PROVE  w \in Seq(S) /\ Len(w) = 1 /\ w[1] = e
<1>1. w \in Seq(S)
  OBVIOUS
<1>2. Len(w) = 1 /\ w[1] = e
  OBVIOUS
<1> QED  BY <1>1, <1>2

\* A sequence that is not empty, taken apart.
LEMMA HeadAndTail ==
    ASSUME NEW S, NEW w \in Seq(S), w # <<>>
    PROVE  /\ Head(w) = w[1] /\ w[1] \in S
           /\ Tail(w) \in Seq(S) /\ Len(Tail(w)) = Len(w) - 1
           /\ \A n \in 1 .. Len(w) - 1 : Tail(w)[n] = w[n + 1]
<1>1. Head(w) = w[1] /\ w[1] \in S
  OBVIOUS
<1>2. Tail(w) \in Seq(S)
  OBVIOUS
<1>3. Len(Tail(w)) = Len(w) - 1
  OBVIOUS
<1>4. \A n \in 1 .. Len(w) - 1 : Tail(w)[n] = w[n + 1]
  OBVIOUS
<1> QED  BY <1>1, <1>2, <1>3, <1>4

\* A sequence with another behind it.
LEMMA Joined ==
    ASSUME NEW S, NEW v \in Seq(S), NEW w \in Seq(S), NEW q, q = v \o w
    PROVE  /\ q \in Seq(S) /\ Len(q) = Len(v) + Len(w)
           /\ Len(v) \in Nat /\ Len(w) \in Nat
           /\ \A n \in 1 .. Len(v) : q[n] = v[n]
           /\ \A n \in 1 .. Len(w) : q[Len(v) + n] = w[n]
<1>1. q \in Seq(S)
  OBVIOUS
<1>2. Len(q) = Len(v) + Len(w) /\ Len(v) \in Nat /\ Len(w) \in Nat
  OBVIOUS
<1>3. \A n \in 1 .. Len(v) : q[n] = v[n]
  OBVIOUS
<1>4. \A n \in 1 .. Len(w) : q[Len(v) + n] = w[n]
  OBVIOUS
<1> QED  BY <1>1, <1>2, <1>3, <1>4

\* Instructions that are added, with the labels that wait or with none.
Carries(w, d) ==
    /\ \A n \in 1 .. Len(w) - 1 : w[n].label_only
    /\ \A n \in 1 .. Len(w) : w[n].label = "" \/ \E j \in 1 .. Len(d) : w[n].label = d[j]
    /\ \A j \in 1 .. Len(d) : \E n \in 1 .. Len(w) : w[n].label = d[j]

\* An instruction comes with the labels that wait for it: the first one on itself, the
\* others in front of it.
LEMMA WithLabelsFacts ==
    ASSUME NEW labels \in Seq(Labels), NEW x, Unlabelled(x), InFormat(x),
           NEW w, w = WithLabels(labels, x)
    PROVE  /\ w \in Seq(Parsed) /\ Len(w) \in Nat \ {0}
           /\ Len(w) = IF labels = <<>> THEN 1 ELSE Len(labels)
           /\ ~w[Len(w)].label_only
           /\ Carries(w, labels)
           /\ labels # <<>> =>
                 \A n \in 1 .. Len(w) : \E j \in 1 .. Len(labels) : w[n].label = labels[j]
<1>1. CASE labels = <<>>
  <2>1. w = <<x>>
    BY <1>1, Zenon DEF WithLabels
  <2>2. x \in Parsed /\ x.label = "" /\ ~x.label_only
    BY DEF Unlabelled, Parsed
  <2>3. w \in Seq(Parsed) /\ Len(w) = 1 /\ w[1] = x
    BY <2>1, <2>2, OneElement
  <2>4. (\A n \in 1 .. Len(labels) : FALSE) /\ (\A n \in 1 .. Len(w) - 1 : FALSE)
    <3>1. Len(labels) = 0
      BY <1>1
    <3> QED  BY <2>3, <3>1
  <2>5. Len(w) \in Nat \ {0} /\ Len(w) = IF labels = <<>> THEN 1 ELSE Len(labels)
    BY <1>1, <2>3
  <2>6. \A n \in 1 .. Len(w) : w[n].label = ""
    <3>1. w[1].label = "" /\ Len(w) = 1
      BY <2>2, <2>3
    <3>2. \A n \in 1 .. 1 : n = 1
      OBVIOUS
    <3> QED  BY <3>1, <3>2, Zenon
  <2>7. Carries(w, labels)
    BY <2>4, <2>6, Zenon DEF Carries
  <2>8. ~w[Len(w)].label_only
    BY <2>2, <2>3
  <2> QED  BY <1>1, <2>3, <2>5, <2>7, <2>8
<1>2. CASE labels # <<>>
  <2> DEFINE y == [x EXCEPT !.label = Head(labels)]
             v == LabelInstructions(Tail(labels))
             N == Len(labels)
  <2>1. N \in Nat /\ N > 0
    BY <1>2
  <2>2. /\ Head(labels) = labels[1] /\ labels[1] \in Labels
        /\ Tail(labels) \in Seq(Labels) /\ Len(Tail(labels)) = N - 1
        /\ \A n \in 1 .. N - 1 : Tail(labels)[n] = labels[n + 1]
    BY <1>2, HeadAndTail, Zenon
  <2>3. /\ v \in Seq(Parsed) /\ Len(v) = N - 1
        /\ \A n \in 1 .. N - 1 : v[n].label_only /\ v[n].label = labels[n + 1]
    <3>1. /\ v \in Seq(Parsed) /\ Len(v) = Len(Tail(labels))
          /\ \A n \in 1 .. Len(v) : v[n].label_only /\ v[n].label = Tail(labels)[n]
      BY <2>2, LabelInstructionsFacts
    <3>2. Len(v) = N - 1
      BY <2>2, <3>1
    <3> HIDE DEF v, N
    <3> QED  BY <2>2, <3>1, <3>2
  <2>4. y \in Parsed /\ y.label = labels[1] /\ ~y.label_only
    <3>1. x \in InstructionSet /\ x.opcode # "label_only" /\ x.label_only = FALSE
      BY DEF Unlabelled, InstructionSet
    <3>2. /\ y \in InstructionSet /\ y.opcode = x.opcode /\ y.label = labels[1]
          /\ y.label_only = FALSE
      BY <2>2, <3>1 DEF InstructionSet
    <3>3. InFormat(y)
      BY <2>2, <3>1, LabelledFormat
    <3> HIDE DEF y
    <3> QED  BY <3>1, <3>2, <3>3, Zenon DEF Parsed
  <2>5. w = v \o <<y>>
    BY <1>2 DEF WithLabels
  <2> HIDE DEF v, y
  <2>6. /\ w \in Seq(Parsed) /\ Len(w) = N /\ w[N] = y
        /\ \A n \in 1 .. N - 1 : w[n] = v[n]
    <3>1. <<y>> \in Seq(Parsed) /\ Len(<<y>>) = 1 /\ <<y>>[1] = y
      BY <2>4, OneElement
    <3>2. /\ w \in Seq(Parsed) /\ Len(w) = Len(v) + Len(<<y>>)
          /\ \A n \in 1 .. Len(v) : w[n] = v[n]
          /\ \A n \in 1 .. Len(<<y>>) : w[Len(v) + n] = <<y>>[n]
      BY <2>3, <2>5, <3>1, Joined
    <3>3. w[Len(v) + 1] = y
      BY <3>1, <3>2
    <3> QED  BY <2>1, <2>3, <3>1, <3>2, <3>3
  <2> HIDE DEF N
  <2>7. \A n \in 1 .. N - 1 : w[n].label_only /\ w[n].label = labels[n + 1]
    BY <2>3, <2>6
  <2>8. ASSUME NEW n \in 1 .. N
        PROVE  \E j \in 1 .. N : w[n].label = labels[j]
    <3>1. CASE n = N
      BY <2>1, <2>4, <2>6, <3>1
    <3>2. CASE n # N
      <4>1. n \in 1 .. N - 1 /\ n + 1 \in 1 .. N
        BY <2>1, <3>2
      <4> QED  BY <2>7, <4>1
    <3> QED  BY <3>1, <3>2
  <2>9. ASSUME NEW j \in 1 .. N
        PROVE  \E n \in 1 .. N : w[n].label = labels[j]
    <3>1. CASE j = 1
      BY <2>1, <2>4, <2>6, <3>1
    <3>2. CASE j # 1
      <4>1. j - 1 \in 1 .. N - 1 /\ j - 1 \in 1 .. N /\ (j - 1) + 1 = j
        BY <2>1, <3>2
      <4>2. w[j - 1].label = labels[j]
        BY <2>7, <4>1
      <4> QED  BY <4>1, <4>2
    <3> QED  BY <3>1, <3>2
  <2>10. N = Len(labels)
    BY DEF N
  <2>11. Len(w) \in Nat /\ Len(w) = N /\ ~w[N].label_only
    BY <2>1, <2>4, <2>6
  <2>12. /\ Len(w) = (IF labels = <<>> THEN 1 ELSE Len(labels)) /\ ~w[Len(w)].label_only
         /\ \A n \in 1 .. Len(w) - 1 : w[n].label_only
    BY <1>2, <2>7, <2>10, <2>11
  <2>13. /\ \A n \in 1 .. Len(w) : \E j \in 1 .. Len(labels) : w[n].label = labels[j]
         /\ \A j \in 1 .. Len(labels) : \E n \in 1 .. Len(w) : w[n].label = labels[j]
    <3>1. Len(w) = N
      BY <2>11
    <3> QED  BY <2>8, <2>9, <2>10, <3>1
  <2>14. Carries(w, labels)
    BY <2>12, <2>13, Zenon DEF Carries
  <2> QED  BY <2>1, <2>6, <2>11, <2>12, <2>13, <2>14
<1> QED  BY <1>1, <1>2

\* What the parser has at a line: labels that wait, what is read, whether it remarked.
ReadingSet == [pending_labels : Seq(Labels), instructions : Seq(Parsed), diagnosed : BOOLEAN]

\* A line is blank, a label or an instruction, and what the parser has read grows by that.
LEMMA ReadLineFacts ==
    ASSUME NEW s \in ReadingSet, NEW line, WellNamed(line)
    PROVE  /\ ReadLine(s, line) \in ReadingSet
           /\ IsBlank(line) => ReadLine(s, line) = s
           /\ IsLabel(line) =>
                 /\ line.label \in Labels
                 /\ ReadLine(s, line).pending_labels = Append(s.pending_labels, line.label)
                 /\ ReadLine(s, line).instructions = s.instructions
           /\ IsInstruction(line) =>
                 /\ ReadLine(s, line).pending_labels = <<>>
                 /\ ReadLine(s, line).instructions =
                       s.instructions \o WithLabels(s.pending_labels, ReadInstruction(line))
           /\ ~(IsBlank(line) /\ IsLabel(line))
<1> DEFINE t == ReadLine(s, line)
           d == s.pending_labels
           p == s.instructions
<1>1. d \in Seq(Labels) /\ p \in Seq(Parsed) /\ s.diagnosed \in BOOLEAN
  BY DEF ReadingSet
<1>2. ~(IsBlank(line) /\ IsLabel(line))
  BY DEF IsBlank, IsLabel
<1>3. CASE IsBlank(line)
  <2>1. t = s
    BY <1>2, <1>3 DEF ReadLine
  <2>2. ~IsInstruction(line)
    BY <1>3 DEF IsInstruction
  <2> QED  BY <1>2, <1>3, <2>1, <2>2
<1>4. CASE IsLabel(line)
  <2>1. t = [s EXCEPT !.pending_labels = Append(d, line.label)]
    BY <1>2, <1>4 DEF ReadLine
  <2>2. line.label \in Labels
    BY <1>4 DEF WellNamed, LineSet, IsLabel
  <2>3. Append(d, line.label) \in Seq(Labels)
    BY <1>1, <2>2
  <2> HIDE DEF t, d
  <2>4. /\ t \in ReadingSet /\ t.pending_labels = Append(d, line.label)
        /\ t.instructions = s.instructions
    BY <2>1, <2>3 DEF ReadingSet
  <2>5. ~IsInstruction(line)
    BY <1>4 DEF IsInstruction
  <2> QED  BY <1>2, <1>4, <2>2, <2>4, <2>5 DEF t, d
<1>5. CASE IsInstruction(line)
  <2> DEFINE w == WithLabels(d, ReadInstruction(line))
  <2>1. ~IsBlank(line) /\ ~IsLabel(line)
    BY <1>5 DEF IsInstruction
  <2>2. t = [pending_labels |-> <<>>, instructions |-> p \o w,
             diagnosed |-> s.diagnosed \/ Diagnoses(line)]
    BY <2>1 DEF ReadLine
  <2>3. w \in Seq(Parsed)
    BY <1>1, ReadInstructionType, ReadInstructionFormat, WithLabelsFacts, Zenon
  <2> HIDE DEF t, d, p, w
  <2>4. p \o w \in Seq(Parsed)
    BY <1>1, <2>3
  <2>5. <<>> \in Seq(Labels)
    OBVIOUS
  <2>6. /\ t \in ReadingSet /\ t.pending_labels = <<>> /\ t.instructions = p \o w
    BY <2>2, <2>4, <2>5 DEF ReadingSet
  <2> QED  BY <1>2, <2>1, <2>6 DEF t, d, p, w
<1> QED  BY <1>3, <1>4, <1>5 DEF IsInstruction

\* A file that the parser may be given.
IsFile(file) == file \in Seq(LineSet) /\ \A k \in DOMAIN file : WellNamed(file[k])

\* The parser's state has its type behind every line of every file.
LEMMA ReadingType ==
    ASSUME NEW file, IsFile(file)
    PROVE  \A k \in 0 .. Len(file) : Readings(file)[k] \in ReadingSet
<1> DEFINE N == Len(file)
           P == {k \in 0 .. N : Readings(file)[k] \in ReadingSet}
<1>1. N \in Nat /\ \A k \in 1 .. N : WellNamed(file[k])
  BY DEF IsFile
<1>2. /\ Readings(file)[0] = StartReading
      /\ \A k \in 1 .. N : Readings(file)[k] = ReadLine(Readings(file)[k - 1], file[k])
  BY ReadingFacts DEF IsFile
<1>3. 0 \in P
  <2>1. StartReading \in ReadingSet
    BY DEF StartReading, ReadingSet
  <2> QED  BY <1>1, <1>2, <2>1
<1>4. ASSUME NEW k \in 0 .. N, k < N, k \in P PROVE k + 1 \in P
  <2>1. k + 1 \in 1 .. N /\ (k + 1) - 1 = k /\ k + 1 \in 0 .. N
    BY <1>1, <1>4
  <2>2. Readings(file)[k] \in ReadingSet
    BY <1>4
  <2>3. Readings(file)[k + 1] = ReadLine(Readings(file)[k], file[k + 1])
    BY <1>2, <2>1
  <2>4. WellNamed(file[k + 1])
    BY <1>1, <2>1
  <2>5. Readings(file)[k + 1] \in ReadingSet
    BY <2>2, <2>3, <2>4, ReadLineFacts
  <2> QED  BY <2>1, <2>5
<1> HIDE DEF P
<1>5. \A k \in 0 .. N : k \in P
  BY <1>1, <1>3, <1>4, IntervalInduction
<1> QED  BY <1>5 DEF P

\* Resolving targets leaves the opcode and the label of every instruction.
LEMMA ResolveKeeps ==
    ASSUME NEW p \in Seq(InstructionSet), NEW n \in 1 .. Len(p)
    PROVE  /\ resolveTargets(p)[n].opcode = p[n].opcode
           /\ resolveTargets(p)[n].label = p[n].label
           /\ resolveTargets(p)[n].label_only = p[n].label_only
<1>1. p[n] \in InstructionSet /\ n \in DOMAIN p
  OBVIOUS
<1> DEFINE z == [p[n] EXCEPT !.target_index = LabelPosition(p, p[n].target_label)]
<1>2. resolveTargets(p)[n] = IF isControl(p[n]) THEN z ELSE p[n]
  BY <1>1 DEF resolveTargets
<1>3. z.opcode = p[n].opcode /\ z.label = p[n].label /\ z.label_only = p[n].label_only
  BY <1>1 DEF InstructionSet
<1> HIDE DEF z
<1> QED  BY <1>2, <1>3

\* A program of instructions in their formats.
AllInFormat(p) == \A n \in 1 .. Len(p) : InFormat(p[n])

\* The format is one of the text.
LEMMA SameTextSameFormat ==
    ASSUME NEW x \in InstructionSet, NEW y \in InstructionSet, Text(x) = Text(y), InFormat(x)
    PROVE  InFormat(y)
<1>1. \A z \in InstructionSet :
         /\ Text(z).opcode = z.opcode /\ Text(z).rd = z.rd /\ Text(z).rs = z.rs
         /\ Text(z).rt = z.rt /\ Text(z).immediate = z.immediate
         /\ Text(z).target_label = z.target_label /\ Text(z).label_only = z.label_only
  BY DEF Text, InstructionSet
<1> DEFINE u == Text(x)
<1>2. /\ u.opcode = x.opcode /\ u.rd = x.rd /\ u.rs = x.rs
      /\ u.rt = x.rt /\ u.immediate = x.immediate
      /\ u.target_label = x.target_label /\ u.label_only = x.label_only
  BY <1>1
<1>3. /\ u.opcode = y.opcode /\ u.rd = y.rd /\ u.rs = y.rs
      /\ u.rt = y.rt /\ u.immediate = y.immediate
      /\ u.target_label = y.target_label /\ u.label_only = y.label_only
  BY <1>1
<1> HIDE DEF u
<1>4. /\ y.opcode = x.opcode /\ y.rd = x.rd /\ y.rs = x.rs
      /\ y.rt = x.rt /\ y.immediate = x.immediate
      /\ y.target_label = x.target_label /\ y.label_only = x.label_only
  BY <1>2, <1>3
<1> QED  BY <1>4 DEF InFormat

\* It puts the operands where the pass looks for them.
LEMMA FormatInPlace ==
    ASSUME NEW p, AllInFormat(p)
    PROVE  AllInPlace(p)
<1>1. ASSUME NEW x, InFormat(x) PROVE OperandsInPlace(x)
  BY <1>1 DEF InFormat, OperandsInPlace, RdArithmetic, isJump
<1> QED  BY <1>1 DEF AllInFormat, AllInPlace

\* What the parser makes of a file is a program, without label_only for an opcode, whose
\* instructions are in their formats.
LEMMA ParsedProgram ==
    ASSUME NEW file, IsFile(file)
    PROVE  /\ parseAssemblyString(file).instructions \in Seq(InstructionSet)
           /\ AsNops(parseAssemblyString(file).instructions)
           /\ AllInFormat(parseAssemblyString(file).instructions)
<1> DEFINE s == Readings(file)[Len(file)]
           w == LabelInstructions(s.pending_labels)
           q == s.instructions \o w
<1>1. s \in ReadingSet
  <2>1. Len(file) \in 0 .. Len(file)
    BY DEF IsFile
  <2> QED  BY <2>1, ReadingType
<1>2. s.instructions \in Seq(Parsed) /\ s.pending_labels \in Seq(Labels)
  BY <1>1 DEF ReadingSet
<1>3. w \in Seq(Parsed)
  BY <1>2, LabelInstructionsFacts
<1>4. parseAssemblyString(file).instructions = resolveTargets(q)
  BY DEF parseAssemblyString
<1> HIDE DEF s, w
<1>5. q \in Seq(Parsed)
  BY <1>2, <1>3
<1> HIDE DEF q
<1>6. /\ q \in Seq(InstructionSet) /\ Len(q) \in Nat
      /\ \A n \in 1 .. Len(q) : q[n].opcode # "label_only"
  BY <1>5 DEF Parsed
<1>7. resolveTargets(q) \in Seq(InstructionSet) /\ Len(resolveTargets(q)) = Len(q)
  BY <1>6, ResolveFacts
<1>8. \A n \in 1 .. Len(q) : resolveTargets(q)[n].opcode = q[n].opcode
  BY <1>6, ResolveKeeps
<1>9. \A n \in 1 .. Len(q) : InFormat(q[n])
  BY <1>5 DEF Parsed
<1>10. AllInFormat(resolveTargets(q))
  <2>1. SameTexts(q, resolveTargets(q))
    BY <1>6, ResolveText
  <2>2. ASSUME NEW n \in 1 .. Len(q) PROVE InFormat(resolveTargets(q)[n])
    <3>1. /\ q[n] \in InstructionSet /\ resolveTargets(q)[n] \in InstructionSet
          /\ Text(resolveTargets(q)[n]) = Text(q[n])
      BY <1>6, <1>7, <2>1 DEF SameTexts
    <3> QED  BY <1>9, <3>1, SameTextSameFormat
  <2> QED  BY <1>7, <2>2 DEF AllInFormat
<1> QED  BY <1>4, <1>6, <1>7, <1>8, <1>10 DEF AsNops

-----------------------------------------------------------------------------
(* What is printed is a file again.                                        *)

\* An operand with a name that it may have in its place.
Fits(operand, opcode, n) ==
    /\ operand \in OperandSet
    /\ operand.name \in (IF NamesLabel(opcode, n) THEN Labels ELSE Registers) \cup {""}
    /\ operand.form = "name" \/ NamesNumber(opcode, n)

\* Every operand fits its place.
AllFit(w, opcode) == w \in Seq(OperandSet) /\ \A n \in DOMAIN w : Fits(w[n], opcode, n)

\* The operand lists of the instruction formats fit when their members do.
LEMMA TuplesFit ==
    ASSUME NEW opcode, NEW a, NEW b, NEW c
    PROVE  /\ AllFit(<<>>, opcode)
           /\ Fits(a, opcode, 1) => AllFit(<<a>>, opcode)
           /\ Fits(a, opcode, 1) /\ Fits(b, opcode, 2) => AllFit(<<a, b>>, opcode)
           /\ Fits(a, opcode, 1) /\ Fits(b, opcode, 2) /\ Fits(c, opcode, 3)
                => AllFit(<<a, b, c>>, opcode)
<1>1. \A x, n : Fits(x, opcode, n) => x \in OperandSet
  BY DEF Fits
<1>2. /\ DOMAIN <<>> = {} /\ DOMAIN <<a>> = {1} /\ DOMAIN <<a, b>> = {1, 2}
      /\ DOMAIN <<a, b, c>> = {1, 2, 3}
  OBVIOUS
<1>3. AllFit(<<>>, opcode)
  BY <1>2 DEF AllFit
<1>4. ASSUME Fits(a, opcode, 1) PROVE AllFit(<<a>>, opcode)
  <2>1. <<a>> \in Seq(OperandSet) /\ <<a>>[1] = a
    BY <1>1, <1>4
  <2> QED  BY <1>2, <1>4, <2>1 DEF AllFit
<1>5. ASSUME Fits(a, opcode, 1), Fits(b, opcode, 2) PROVE AllFit(<<a, b>>, opcode)
  <2>1. <<a, b>> \in Seq(OperandSet) /\ <<a, b>>[1] = a /\ <<a, b>>[2] = b
    BY <1>1, <1>5
  <2> QED  BY <1>2, <1>5, <2>1 DEF AllFit
<1>6. ASSUME Fits(a, opcode, 1), Fits(b, opcode, 2), Fits(c, opcode, 3)
      PROVE  AllFit(<<a, b, c>>, opcode)
  <2>1. /\ <<a, b, c>> \in Seq(OperandSet)
        /\ <<a, b, c>>[1] = a /\ <<a, b, c>>[2] = b /\ <<a, b, c>>[3] = c
    BY <1>1, <1>6
  <2> QED  BY <1>2, <1>6, <2>1 DEF AllFit
<1> QED  BY <1>3, <1>4, <1>5, <1>6

\* The operands that are printed for an opcode.
LEMMA PrintedOperandsFit ==
    ASSUME NEW x \in InstructionSet
    PROVE  AllFit(PrintedOperands(x), x.opcode)
<1> DEFINE y == PrintedOperands(x)
           o == x.opcode
<1>1. ASSUME NEW n
      PROVE  /\ \A r \in Registers \cup {""} : ~NamesLabel(o, n) => Fits(Name(r), o, n)
             /\ \A l \in Labels \cup {""} : NamesLabel(o, n) => Fits(Name(l), o, n)
             /\ \A m \in Immediates \cup {0} :
                   ~NamesLabel(o, n) /\ NamesNumber(o, n) => Fits(Number(m), o, n)
             /\ \A m \in Immediates \cup {0} : \A r \in Registers \cup {""} :
                   ~NamesLabel(o, n) /\ NamesNumber(o, n) => Fits(Memory(m, r), o, n)
  BY OperandParts DEF Fits
<1>2. /\ x.rd \in Registers \cup {""} /\ x.rs \in Registers \cup {""}
      /\ x.rt \in Registers \cup {""} /\ x.target_label \in Labels \cup {""}
      /\ x.immediate \in Immediates \cup {0}
  BY DEF InstructionSet
<1> HIDE DEF y, o
<1>3. CASE o \in RdArithmetic
  <2>1. y = <<Name(x.rd), Name(x.rs), Name(x.rt)>>
    BY <1>3 DEF PrintedOperands, RdArithmetic, y, o
  <2>2. \A n : ~NamesLabel(o, n)
    BY <1>3, ArityFacts
  <2> QED  BY <1>1, <1>2, <2>1, <2>2, TuplesFit DEF y, o
<1>4. CASE o = "addi"
  <2>1. y = <<Name(x.rt), Name(x.rs), Number(x.immediate)>>
    BY <1>4 DEF PrintedOperands, RdArithmetic, y, o
  <2>2. (\A n : ~NamesLabel(o, n)) /\ NamesNumber(o, 3)
    BY <1>4, ArityFacts
  <2> QED  BY <1>1, <1>2, <2>1, <2>2, TuplesFit DEF y, o
<1>5. CASE o \in {"lw", "sw"}
  <2>1. y = <<Name(x.rt), Memory(x.immediate, x.rs)>>
    BY <1>5 DEF PrintedOperands, RdArithmetic, y, o
  <2>2. (\A n : ~NamesLabel(o, n)) /\ NamesNumber(o, 2)
    BY <1>5, ArityFacts
  <2> QED  BY <1>1, <1>2, <2>1, <2>2, TuplesFit DEF y, o
<1>6. CASE o = "li"
  <2>1. y = <<Name(x.rt), Number(x.immediate)>>
    BY <1>6 DEF PrintedOperands, RdArithmetic, y, o
  <2>2. (\A n : ~NamesLabel(o, n)) /\ NamesNumber(o, 2)
    BY <1>6, ArityFacts
  <2> QED  BY <1>1, <1>2, <2>1, <2>2, TuplesFit DEF y, o
<1>7. CASE o \in {"beq", "bne"}
  <2>1. y = <<Name(x.rs), Name(x.rt), Name(x.target_label)>>
    BY <1>7 DEF PrintedOperands, RdArithmetic, y, o
  <2>2. ~NamesLabel(o, 1) /\ ~NamesLabel(o, 2) /\ NamesLabel(o, 3)
    BY <1>7, ArityFacts
  <2> QED  BY <1>1, <1>2, <2>1, <2>2, TuplesFit DEF y, o
<1>8. CASE o = "j"
  <2>1. y = <<Name(x.target_label)>>
    BY <1>8 DEF PrintedOperands, RdArithmetic, y, o
  <2>2. NamesLabel(o, 1)
    BY <1>8, ArityFacts
  <2> QED  BY <1>1, <1>2, <2>1, <2>2, TuplesFit DEF y, o
<1>9. CASE o \notin RdArithmetic \cup {"addi", "lw", "sw", "li", "beq", "bne", "j"}
  <2>1. y = <<>>
    BY <1>9 DEF PrintedOperands, y, o
  <2> QED  BY <2>1, TuplesFit DEF y, o
<1> QED  BY <1>3, <1>4, <1>5, <1>6, <1>7, <1>8, <1>9

\* A line with them.
LEMMA LineFacts ==
    ASSUME NEW x \in InstructionSet, NEW w \in Seq(OperandSet)
    PROVE  /\ Line(x.label, x.opcode, w) \in LineSet
           /\ Line(x.label, x.opcode, w).opcode = x.opcode
           /\ Line(x.label, x.opcode, w).operands = w
           /\ Line(x.label, "", w) \in LineSet /\ Line(x.label, "", w).operands = w
<1>1. x.label \in Labels \cup {""} /\ x.opcode \in OpCode
  BY DEF InstructionSet
<1> QED  BY <1>1 DEF Line, LineSet

\* What is printed of an instruction is a line.
LEMMA PrintedWellNamed ==
    ASSUME NEW x \in InstructionSet
    PROVE  WellNamed(toString(x))
<1> DEFINE line == toString(x)
<1>1. x.label \in Labels \cup {""} /\ x.opcode \in OpCode
  BY DEF InstructionSet
<1>2. CASE line = Line(x.label, "", <<>>)
  <2>1. <<>> \in Seq(OperandSet)
    OBVIOUS
  <2>2. line \in LineSet /\ line.operands = <<>>
    <3>1. Line(x.label, "", <<>>) \in LineSet /\ Line(x.label, "", <<>>).operands = <<>>
      BY <2>1, LineFacts
    <3> HIDE DEF line
    <3> QED  BY <1>2, <3>1
  <2>3. \A n \in DOMAIN line.operands : FALSE
    BY <2>2
  <2> HIDE DEF line
  <2> QED  BY <2>2, <2>3, Zenon DEF WellNamed, line
<1>3. CASE x.opcode # "label_only" /\ line = Line(x.label, x.opcode, PrintedOperands(x))
  <2>1. /\ PrintedOperands(x) \in Seq(OperandSet)
        /\ \A n \in DOMAIN PrintedOperands(x) : Fits(PrintedOperands(x)[n], x.opcode, n)
    BY PrintedOperandsFit DEF AllFit
  <2>2. /\ line \in LineSet /\ line.operands = PrintedOperands(x) /\ line.opcode = x.opcode
    <3>1. LET w == PrintedOperands(x)
          IN  /\ Line(x.label, x.opcode, w) \in LineSet
              /\ Line(x.label, x.opcode, w).opcode = x.opcode
              /\ Line(x.label, x.opcode, w).operands = w
      BY <2>1, LineFacts
    <3> HIDE DEF line
    <3> QED  BY <1>3, <3>1
  <2>3. x.opcode # ""
    BY DEF InstructionSet, OpCode, ArithmeticOps, RdArithmetic
  <2> HIDE DEF line
  <2>4. \A n \in DOMAIN line.operands :
           /\ line.operands[n].name \in
                  (IF NamesLabel(line.opcode, n) THEN Labels ELSE Registers) \cup {""}
           /\ line.operands[n].form = "name" \/ NamesNumber(line.opcode, n)
    BY <2>1, <2>2 DEF Fits
  <2>5. line.opcode # ""
    BY <2>2, <2>3
  <2> QED  BY <2>2, <2>4, <2>5, Zenon DEF WellNamed, line
<1>4. \/ line = Line(x.label, "", <<>>)
      \/ x.opcode # "label_only" /\ line = Line(x.label, x.opcode, PrintedOperands(x))
  BY DEF toString, opcodeToString
<1> QED  BY <1>2, <1>3, <1>4

\* What schedule_tool prints, pipeline_sim may be given.
LEMMA PrintedIsFile ==
    ASSUME NEW p \in Seq(InstructionSet)
    PROVE  IsFile(Printed(p))
<1>1. \A x \in InstructionSet : WellNamed(toString(x))
  BY PrintedWellNamed
<1>2. Len(p) \in Nat /\ DOMAIN p = 1 .. Len(p) /\ \A n \in 1 .. Len(p) : p[n] \in InstructionSet
  OBVIOUS
<1> DEFINE w == Printed(p)
<1>3. w = [n \in 1 .. Len(p) |-> toString(p[n])]
  BY <1>2 DEF Printed
<1>4. \A n \in 1 .. Len(p) : WellNamed(toString(p[n])) /\ toString(p[n]) \in LineSet
  BY <1>1, <1>2 DEF WellNamed
<1> HIDE DEF w
<1>5. w \in Seq(LineSet) /\ DOMAIN w = 1 .. Len(p)
  BY <1>2, <1>3, <1>4
<1>6. \A n \in DOMAIN w : WellNamed(w[n])
  BY <1>3, <1>4, <1>5
<1> QED  BY <1>5, <1>6 DEF IsFile, w

-----------------------------------------------------------------------------
(* The tools one after the other.                                          *)

\* schedule_tool gives a program of the parser to the pass, and only it goes on with it.
LEMMA ChainStarts == ChainInit => Init /\ AsNops(input) /\ AllInPlace(input)
<1> SUFFICES ASSUME ChainInit PROVE Init /\ AsNops(input) /\ AllInPlace(input)
  OBVIOUS
<1>1. IsFile(source)
  BY SourcesAssumption DEF ChainInit, IsFile
<1>2. Start(parseAssemblyString(source).instructions)
  BY DEF ChainInit
<1>3. /\ parseAssemblyString(source).instructions \in Seq(InstructionSet)
      /\ AsNops(parseAssemblyString(source).instructions)
      /\ AllInPlace(parseAssemblyString(source).instructions)
  BY <1>1, ParsedProgram, FormatInPlace
<1>4. Init
  BY <1>2, <1>3 DEF Init
<1>5. input = parseAssemblyString(source).instructions
  BY <1>2 DEF Start
<1> QED  BY <1>3, <1>4, <1>5

\* A step of the two tools is a step of the pass, or leaves it alone.
LEMMA ChainSteps == [ChainNext]_chain_vars => [Next]_vars
<1>1. Simulate \/ Run \/ UNCHANGED chain_vars => UNCHANGED vars
  BY DEF Simulate, Run, chain_vars
<1>2. Schedule => Next
  BY DEF Schedule
<1> QED  BY <1>1, <1>2 DEF ChainNext

\* So the two tools run the pass, on a program that has no fill in it yet.
LEMMA ChainSchedules == ChainSpec => Spec /\ AsNops(input) /\ AllInPlace(input)
BY ChainStarts, ChainSteps, PTL DEF ChainSpec, Spec

\* schedule_tool.cpp:33: whatever file schedule_tool is given, the pass keeps the
\* instructions, their targets, the slots that the programmer filled, decides each branch
\* once and comes closer to its end: the parser makes no program for which it would not.
THEOREM FilesScheduledWell ==
    ChainSpec => /\ [](TypeOK /\ EachBranchDecided)
                 /\ [](NothingLost /\ ManualSlotsKept /\ TargetsFollow)
                 /\ DecisionsStayTrue
                 /\ StepsRunOut
<1>1. ChainSpec => Spec /\ AsNops(input)
  BY ChainSchedules, PTL
<1>2. ChainSpec => DecisionsStayTrue /\ StepsRunOut
  BY <1>1, DecisionsAlwaysTrue, PassRunsOut
<1>3. ChainSpec => [](TypeOK /\ EachBranchDecided)
  BY <1>1, PassTypesCorrect, EveryBranchDecided, PTL
<1>4. ChainSpec => [](NothingLost /\ ManualSlotsKept /\ TargetsFollow)
  BY <1>1, InstructionsKept, FilledSlotsKept, TargetsKept, PTL
<1> QED  BY <1>2, <1>3, <1>4

\* scheduler.cpp:194: whatever file schedule_tool is given, and whichever way its branches
\* go, moving an instruction into a slot does not change what the program does, but for
\* the moves that are named.
THEOREM FilesMovedSafely == ChainSpec => MovesAreSafe
BY ChainSchedules, MovesKeepMeaning, PTL

\* scheduler.cpp:160: whatever file schedule_tool is given, if it keeps the rules, what
\* the pass makes of it does what it does.
THEOREM RuledFilesKeepMeaning == ChainSpec => []RulesKeepMeaning
BY ChainSchedules, RuledProgramsKeepMeaning, PTL

\* The simulator has nothing before it is given a program.
SimulatorInv ==
    /\ source \in Sources
    /\ \/ tool = "schedule_tool" /\ RunStart(<<>>)
       \/ tool = "pipeline_sim" /\ TimingInv /\ PendingMeansInSlot

\* No step breaks it: schedule_tool leaves the simulator alone, which starts on what a
\* parser read.
LEMMA SimulatorKept == TypeOK /\ SimulatorInv /\ [ChainNext]_chain_vars => SimulatorInv'
<1> SUFFICES ASSUME TypeOK, SimulatorInv, [ChainNext]_chain_vars PROVE SimulatorInv'
  OBVIOUS
<1>1. CASE Schedule \/ UNCHANGED chain_vars
  <2>1. UNCHANGED <<source, tool, run_vars>>
    BY <1>1 DEF Schedule, chain_vars
  <2> QED  BY <2>1 DEF SimulatorInv, run_vars, RunStart, TimingInv, RunTypeOK, PendingMeansInSlot
<1>2. CASE Simulate
  <2>1. RunStart(<<>>) /\ tool' = "pipeline_sim"
    BY <1>2 DEF Simulate, SimulatorInv
  <2>2. PICK file \in Files : program' = parseAssemblyString(file).instructions
    BY <1>2 DEF Simulate
  <2>3. IsFile(file)
    <3>1. IsFile(Printed(instructions))
      BY PrintedIsFile DEF TypeOK
    <3>2. IsFile(source)
      BY SourcesAssumption DEF SimulatorInv, IsFile
    <3> QED  BY <2>2, <3>1, <3>2 DEF Files
  <2>4. RunInit'
    BY <1>2, <2>1, <2>2, <2>3, ParsedProgram DEF Simulate, RunInit, RunStart
  <2>5. RunInit' => TimingInv' /\ PendingMeansInSlot'
    BY StartTiming, StartTypes, PTL
  <2> QED  BY <1>2, <2>1, <2>4, <2>5 DEF Simulate, SimulatorInv
<1>3. CASE Run
  <2>1. tool = "pipeline_sim" /\ tool' = tool /\ TimingInv /\ PendingMeansInSlot /\ RunNext
    BY <1>3 DEF Run, SimulatorInv
  <2>2. TimingInv' /\ PendingMeansInSlot'
    BY <2>1, TimingKept, PendingKept DEF TimingInv
  <2> QED  BY <1>3, <2>1, <2>2 DEF Run, SimulatorInv
<1> QED  BY <1>1, <1>2, <1>3 DEF ChainNext

\* pipeline_sim_main.cpp:24: the simulator runs what the parser makes of the source, or
\* of what schedule_tool has printed, and either is a program that the theorems about
\* runs are about.
THEOREM FilesRunWell ==
    ChainSpec => [](tool = "pipeline_sim" =>
                      RunTypeOK /\ PendingMeansInSlot /\ TimelineIsEarliest)
<1>1. ChainInit => SimulatorInv
  BY DEF ChainInit, SimulatorInv
<1>2. TypeOK /\ SimulatorInv /\ [ChainNext]_chain_vars => SimulatorInv'
  BY SimulatorKept
<1>3. ChainSpec => []TypeOK
  BY FilesScheduledWell, PTL
<1>4. SimulatorInv => (tool = "pipeline_sim" =>
                         RunTypeOK /\ PendingMeansInSlot /\ TimelineIsEarliest)
  BY DEF SimulatorInv, TimingInv, EarliestIn, CanFetchIn, TimelineIsEarliest, CanFetch
<1> QED  BY <1>1, <1>2, <1>3, <1>4, PTL DEF ChainSpec

-----------------------------------------------------------------------------
(* Counting.                                                               *)

\* The members of a set in front of n, and how they are counted.
Before(T, n) == Cardinality({m \in 1 .. n - 1 : m \in T})

\* One place on, a member is counted and nothing else is.
LEMMA BeforeStep ==
    ASSUME NEW T, NEW n \in Nat \ {0}
    PROVE  /\ Before(T, n) \in Nat
           /\ n \in T => Before(T, n + 1) = Before(T, n) + 1
           /\ n \notin T => Before(T, n + 1) = Before(T, n)
<1> DEFINE S == {m \in 1 .. n - 1 : m \in T}
           S2 == {m \in 1 .. (n + 1) - 1 : m \in T}
<1>1. IsFiniteSet(S)
  <2>1. IsFiniteSet(1 .. n - 1)
    BY FS_Interval
  <2> QED  BY <2>1, FS_Subset
<1>2. Cardinality(S) \in Nat
  BY <1>1, FS_CardinalityType
<1>3. n \notin S /\ (n \in T => S2 = S \cup {n}) /\ (n \notin T => S2 = S)
  OBVIOUS
<1> HIDE DEF S, S2
<1>4. Cardinality(S \cup {n}) = Cardinality(S) + 1
  BY <1>1, <1>3, FS_AddElement
<1>5. Before(T, n) = Cardinality(S) /\ Before(T, n + 1) = Cardinality(S2)
  BY DEF Before, S, S2
<1> QED  BY <1>2, <1>3, <1>4, <1>5

\* Farther on there are no fewer.
LEMMA BeforeMonotone ==
    ASSUME NEW T, NEW n \in Nat \ {0}, NEW m \in Nat \ {0}, n <= m
    PROVE  Before(T, n) <= Before(T, m)
<1> DEFINE S == {l \in 1 .. n - 1 : l \in T}
           S2 == {l \in 1 .. m - 1 : l \in T}
<1>1. IsFiniteSet(S2)
  <2>1. IsFiniteSet(1 .. m - 1)
    BY FS_Interval
  <2> QED  BY <2>1, FS_Subset
<1>2. S \in SUBSET S2
  OBVIOUS
<1> QED  BY <1>1, <1>2, FS_Subset DEF Before

\* Two sets that agree in front of n have as many members there.
LEMMA BeforeSame ==
    ASSUME NEW T, NEW U, NEW n \in Nat \ {0}, \A m \in 1 .. n - 1 : m \in T <=> m \in U
    PROVE  Before(T, n) = Before(U, n)
<1>1. {m \in 1 .. n - 1 : m \in T} = {m \in 1 .. n - 1 : m \in U}
  OBVIOUS
<1> QED  BY <1>1 DEF Before

\* Where there are no members nothing is counted.
LEMMA BeforeOutside ==
    ASSUME NEW T, NEW n \in Nat \ {0}, NEW m \in Nat \ {0}, n <= m,
           \A l \in n .. m - 1 : l \notin T
    PROVE  Before(T, m) = Before(T, n)
<1>1. {l \in 1 .. m - 1 : l \in T} = {l \in 1 .. n - 1 : l \in T}
  OBVIOUS
<1> QED  BY <1>1 DEF Before

\* The instructions of a program in front of a position, without labels that stand alone.
Ordinal(p, n) == Cardinality({m \in 1 .. n - 1 : ~p[m].label_only})

\* The places of those instructions.
Real(p) == {m \in Nat : ~p[m].label_only}

\* Ordinal counts these places.
LEMMA OrdinalIsBefore ==
    ASSUME NEW p, NEW n \in Nat \ {0}
    PROVE  Ordinal(p, n) = Before(Real(p), n)
<1>1. {m \in 1 .. n - 1 : ~p[m].label_only} = {m \in 1 .. n - 1 : m \in Real(p)}
  BY DEF Real
<1> QED  BY <1>1 DEF Ordinal, Before

\* It tells the instructions apart.
LEMMA OrdinalFacts ==
    ASSUME NEW p, NEW n \in Nat \ {0}, NEW m \in Nat \ {0}
    PROVE  /\ Ordinal(p, n) \in Nat
           /\ n <= m => Ordinal(p, n) <= Ordinal(p, m)
           /\ ~p[n].label_only /\ n < m => Ordinal(p, n) < Ordinal(p, m)
           /\ ~p[n].label_only => Ordinal(p, n + 1) = Ordinal(p, n) + 1
           /\ p[n].label_only => Ordinal(p, n + 1) = Ordinal(p, n)
<1>1. /\ Ordinal(p, n) = Before(Real(p), n) /\ Ordinal(p, m) = Before(Real(p), m)
      /\ Ordinal(p, n + 1) = Before(Real(p), n + 1)
  BY OrdinalIsBefore
<1>2. (n \in Real(p)) <=> ~p[n].label_only
  BY DEF Real
<1>3. /\ Before(Real(p), n) \in Nat /\ Before(Real(p), m) \in Nat
      /\ n \in Real(p) => Before(Real(p), n + 1) = Before(Real(p), n) + 1
      /\ n \notin Real(p) => Before(Real(p), n + 1) = Before(Real(p), n)
  BY BeforeStep
<1>4. n <= m => Before(Real(p), n) <= Before(Real(p), m)
  BY BeforeMonotone
<1>5. n < m => Before(Real(p), n + 1) <= Before(Real(p), m)
  BY BeforeMonotone
<1> QED  BY <1>1, <1>2, <1>3, <1>4, <1>5

\* The same at the beginning of two programs.
LEMMA OrdinalSame ==
    ASSUME NEW p, NEW q, NEW n \in Nat \ {0},
           \A m \in 1 .. n - 1 : p[m].label_only <=> q[m].label_only
    PROVE  Ordinal(p, n) = Ordinal(q, n)
<1>1. {m \in 1 .. n - 1 : ~p[m].label_only} = {m \in 1 .. n - 1 : ~q[m].label_only}
  OBVIOUS
<1> QED  BY <1>1 DEF Ordinal

\* When instructions are added, of which at most the last is no label alone.
LEMMA OrdinalJoined ==
    ASSUME NEW p \in Seq(Parsed), NEW w \in Seq(Parsed), NEW q, q = p \o w,
           \A n \in 1 .. Len(w) - 1 : w[n].label_only
    PROVE  /\ \A n \in 1 .. Len(p) + 1 : Ordinal(q, n) = Ordinal(p, n)
           /\ \A n \in 1 .. Len(w) : Ordinal(q, Len(p) + n) = Ordinal(p, Len(p) + 1)
<1>1. /\ q \in Seq(Parsed) /\ Len(q) = Len(p) + Len(w) /\ Len(p) \in Nat /\ Len(w) \in Nat
      /\ \A n \in 1 .. Len(p) : q[n] = p[n]
      /\ \A n \in 1 .. Len(w) : q[Len(p) + n] = w[n]
  BY Joined
<1>2. ASSUME NEW n \in 1 .. Len(p) + 1 PROVE Ordinal(q, n) = Ordinal(p, n)
  <2>1. n \in Nat \ {0} /\ \A m \in 1 .. n - 1 : q[m] = p[m]
    BY <1>1
  <2>2. \A m \in 1 .. n - 1 : q[m].label_only <=> p[m].label_only
    BY <2>1
  <2> QED  BY <2>1, <2>2, OrdinalSame
<1>3. ASSUME NEW n \in 1 .. Len(w) PROVE Ordinal(q, Len(p) + n) = Ordinal(q, Len(p) + 1)
  <2>1. /\ Len(p) + n \in Nat \ {0} /\ Len(p) + 1 \in Nat \ {0} /\ Len(p) + 1 <= Len(p) + n
    BY <1>1
  <2>2. \A l \in Len(p) + 1 .. (Len(p) + n) - 1 : l \notin Real(q)
    <3> SUFFICES ASSUME NEW l \in Len(p) + 1 .. (Len(p) + n) - 1 PROVE q[l].label_only
      BY DEF Real
    <3>1. l - Len(p) \in 1 .. Len(w) - 1 /\ l - Len(p) \in 1 .. Len(w) /\ Len(p) + (l - Len(p)) = l
      BY <1>1
    <3>2. q[l] = w[l - Len(p)]
      BY <1>1, <3>1
    <3> QED  BY <3>1, <3>2
  <2>3. Before(Real(q), Len(p) + n) = Before(Real(q), Len(p) + 1)
    BY <2>1, <2>2, BeforeOutside
  <2> QED  BY <2>1, <2>3, OrdinalIsBefore
<1>4. Len(p) + 1 \in 1 .. Len(p) + 1
  BY <1>1
<1> QED  BY <1>2, <1>3, <1>4

\* Lines are counted alike.
LEMMA LinesAreBefore ==
    ASSUME NEW k \in Nat \ {0}, source \in Seq(LineSet)
    PROVE  InstructionLinesBefore(k) = Before(InstructionLines, k)
<1>1. DOMAIN source = 1 .. Len(source) /\ Len(source) \in Nat
  OBVIOUS
<1>2. \A l \in InstructionLines : l \in Nat /\ l >= 1
  BY <1>1 DEF InstructionLines
<1> HIDE DEF InstructionLines
<1>3. {l \in InstructionLines : l < k} = {m \in 1 .. k - 1 : m \in InstructionLines}
  BY <1>2
<1> QED  BY <1>3 DEF InstructionLinesBefore, Before

\* Instruction lines are counted like any set of places: one more behind each.
LEMMA LineCount ==
    ASSUME NEW k \in Nat \ {0}, NEW l \in Nat \ {0}, source \in Seq(LineSet)
    PROVE  /\ InstructionLinesBefore(k) \in Nat
           /\ k <= l => InstructionLinesBefore(k) <= InstructionLinesBefore(l)
           /\ k \in InstructionLines /\ k < l =>
                 InstructionLinesBefore(k) < InstructionLinesBefore(l)
           /\ k \in InstructionLines =>
                 InstructionLinesBefore(k + 1) = InstructionLinesBefore(k) + 1
           /\ k \notin InstructionLines =>
                 InstructionLinesBefore(k + 1) = InstructionLinesBefore(k)
<1>1. /\ InstructionLinesBefore(k) = Before(InstructionLines, k)
      /\ InstructionLinesBefore(l) = Before(InstructionLines, l)
      /\ InstructionLinesBefore(k + 1) = Before(InstructionLines, k + 1)
  BY LinesAreBefore
<1> HIDE DEF InstructionLines
<1>2. /\ Before(InstructionLines, k) \in Nat /\ Before(InstructionLines, l) \in Nat
      /\ k \in InstructionLines =>
            Before(InstructionLines, k + 1) = Before(InstructionLines, k) + 1
      /\ k \notin InstructionLines =>
            Before(InstructionLines, k + 1) = Before(InstructionLines, k)
  BY BeforeStep
<1>3. k <= l => Before(InstructionLines, k) <= Before(InstructionLines, l)
  BY BeforeMonotone
<1>4. k < l => Before(InstructionLines, k + 1) <= Before(InstructionLines, l)
  BY BeforeMonotone
<1> QED  BY <1>1, <1>2, <1>3, <1>4

-----------------------------------------------------------------------------
(* Where labels lead.                                                      *)

\* The lines that are a label.
LabelLines == {k \in DOMAIN source : IsLabel(source[k])}

\* Of what is read in the first k lines, p are the instructions and d the labels that
\* wait.  Each label is at an instruction that has as many in front of it as the line has,
\* or waits, and no label comes from elsewhere.
LabelsCounted(k, p, d) ==
    LET end == InstructionLinesBefore(k + 1)
    IN  /\ Ordinal(p, Len(p) + 1) = end
        /\ \A h \in LabelLines : h <= k =>
              \/ \E n \in 1 .. Len(p) :
                    /\ p[n].label = source[h].label
                    /\ Ordinal(p, n) = InstructionLinesBefore(h)
              \/ /\ InstructionLinesBefore(h) = end
                 /\ \E j \in 1 .. Len(d) : d[j] = source[h].label
        /\ \A n \in 1 .. Len(p) : p[n].label # "" =>
              \E h \in LabelLines :
                 /\ h <= k /\ source[h].label = p[n].label
                 /\ Ordinal(p, n) = InstructionLinesBefore(h)
        /\ \A j \in 1 .. Len(d) :
              \E h \in LabelLines :
                 /\ h <= k /\ source[h].label = d[j] /\ InstructionLinesBefore(h) = end

\* LabelsCounted from its parts, with the count behind the last line named.
LEMMA LabelsCountedParts ==
    ASSUME NEW k, NEW p, NEW d, NEW end, InstructionLinesBefore(k + 1) = end,
           Ordinal(p, Len(p) + 1) = end,
           \A h \in LabelLines : h <= k =>
              \/ \E n \in 1 .. Len(p) :
                    /\ p[n].label = source[h].label
                    /\ Ordinal(p, n) = InstructionLinesBefore(h)
              \/ /\ InstructionLinesBefore(h) = end
                 /\ \E j \in 1 .. Len(d) : d[j] = source[h].label,
           \A n \in 1 .. Len(p) : p[n].label # "" =>
              \E h \in LabelLines :
                 /\ h <= k /\ source[h].label = p[n].label
                 /\ Ordinal(p, n) = InstructionLinesBefore(h),
           \A j \in 1 .. Len(d) :
              \E h \in LabelLines :
                 h <= k /\ source[h].label = d[j] /\ InstructionLinesBefore(h) = end
    PROVE  LabelsCounted(k, p, d)
BY DEF LabelsCounted

\* When the labels of the first k lines are all in q.
LabelsPlaced(k, q) ==
    /\ \A h \in LabelLines : h <= k =>
          \E n \in 1 .. Len(q) :
             q[n].label = source[h].label /\ Ordinal(q, n) = InstructionLinesBefore(h)
    /\ \A n \in 1 .. Len(q) : q[n].label # "" =>
          \E h \in LabelLines :
             /\ h <= k /\ source[h].label = q[n].label
             /\ Ordinal(q, n) = InstructionLinesBefore(h)

\* Instructions that are added place those that wait.
LEMMA LabelsAdded ==
    ASSUME IsFile(source), NEW k \in 0 .. Len(source),
           NEW p \in Seq(Parsed), NEW d \in Seq(Labels), LabelsCounted(k, p, d),
           NEW w \in Seq(Parsed), NEW q, q = p \o w, Carries(w, d)
    PROVE  LabelsPlaced(k, q)
<1> DEFINE end == InstructionLinesBefore(k + 1)
           L == Len(p)
<1>1. /\ q \in Seq(Parsed) /\ Len(q) = L + Len(w) /\ L \in Nat /\ Len(w) \in Nat
      /\ \A n \in 1 .. L : q[n] = p[n]
      /\ \A n \in 1 .. Len(w) : q[L + n] = w[n]
  BY Joined
<1>2. /\ \A n \in 1 .. L + 1 : Ordinal(q, n) = Ordinal(p, n)
      /\ \A n \in 1 .. Len(w) : Ordinal(q, L + n) = Ordinal(p, L + 1)
  <2>1. \A n \in 1 .. Len(w) - 1 : w[n].label_only
    BY DEF Carries
  <2> QED  BY <2>1, OrdinalJoined
<1>3. /\ Ordinal(p, L + 1) = end
      /\ \A h \in LabelLines : h <= k =>
            \/ \E n \in 1 .. L :
                  p[n].label = source[h].label /\ Ordinal(p, n) = InstructionLinesBefore(h)
            \/ /\ InstructionLinesBefore(h) = end
               /\ \E j \in 1 .. Len(d) : d[j] = source[h].label
      /\ \A n \in 1 .. L : p[n].label # "" =>
            \E h \in LabelLines :
               /\ h <= k /\ source[h].label = p[n].label
               /\ Ordinal(p, n) = InstructionLinesBefore(h)
      /\ \A j \in 1 .. Len(d) :
            \E h \in LabelLines :
               h <= k /\ source[h].label = d[j] /\ InstructionLinesBefore(h) = end
  BY DEF LabelsCounted
<1> HIDE DEF end, L
<1>4. ASSUME NEW h \in LabelLines, h <= k
      PROVE  \E n \in 1 .. Len(q) :
                q[n].label = source[h].label /\ Ordinal(q, n) = InstructionLinesBefore(h)
  <2>1. CASE \E n \in 1 .. L :
                p[n].label = source[h].label /\ Ordinal(p, n) = InstructionLinesBefore(h)
    <3>1. PICK n \in 1 .. L :
             p[n].label = source[h].label /\ Ordinal(p, n) = InstructionLinesBefore(h)
      BY <2>1
    <3>2. n \in 1 .. Len(q) /\ q[n] = p[n] /\ Ordinal(q, n) = Ordinal(p, n)
      BY <1>1, <1>2
    <3> QED  BY <3>1, <3>2
  <2>2. CASE InstructionLinesBefore(h) = end /\ \E j \in 1 .. Len(d) : d[j] = source[h].label
    <3>1. PICK j \in 1 .. Len(d) : d[j] = source[h].label
      BY <2>2
    <3>2. PICK n \in 1 .. Len(w) : w[n].label = d[j]
      BY DEF Carries
    <3>3. L + n \in 1 .. Len(q) /\ q[L + n] = w[n]
      BY <1>1, <3>2
    <3>4. Ordinal(q, L + n) = end
      BY <1>2, <1>3
    <3> QED  BY <2>2, <3>1, <3>2, <3>3, <3>4
  <2> QED  BY <1>3, <1>4, <2>1, <2>2
<1>5. ASSUME NEW n \in 1 .. Len(q), q[n].label # ""
      PROVE  \E h \in LabelLines :
                /\ h <= k /\ source[h].label = q[n].label
                /\ Ordinal(q, n) = InstructionLinesBefore(h)
  <2>1. CASE n \in 1 .. L
    <3>1. q[n] = p[n] /\ n \in 1 .. L + 1
      BY <1>1, <2>1
    <3>2. Ordinal(q, n) = Ordinal(p, n)
      BY <1>2, <3>1
    <3> QED  BY <1>3, <1>5, <2>1, <3>1, <3>2
  <2>2. CASE n \notin 1 .. L
    <3>1. n - L \in 1 .. Len(w) /\ L + (n - L) = n
      BY <1>1, <2>2
    <3>2. q[n] = w[n - L] /\ Ordinal(q, n) = end
      BY <1>1, <1>2, <1>3, <3>1
    <3>3. PICK j \in 1 .. Len(d) : w[n - L].label = d[j]
      BY <1>5, <3>1, <3>2 DEF Carries
    <3> QED  BY <1>3, <3>2, <3>3
  <2> QED  BY <2>1, <2>2
<1> QED  BY <1>4, <1>5, Zenon DEF LabelsPlaced

\* The next line.
LEMMA LabelsCountedNext ==
    ASSUME IsFile(source), NEW k \in 0 .. Len(source), k < Len(source),
           NEW s \in ReadingSet, LabelsCounted(k, s.instructions, s.pending_labels),
           NEW t, t = ReadLine(s, source[k + 1])
    PROVE  LabelsCounted(k + 1, t.instructions, t.pending_labels)
<1> DEFINE line == source[k + 1]
           p == s.instructions
           d == s.pending_labels
           end == InstructionLinesBefore(k + 1)
           end2 == InstructionLinesBefore(k + 1 + 1)
<1>1. /\ Len(source) \in Nat /\ DOMAIN source = 1 .. Len(source) /\ source \in Seq(LineSet)
      /\ k + 1 \in DOMAIN source /\ k \in Nat /\ WellNamed(line)
  BY DEF IsFile
<1>2. p \in Seq(Parsed) /\ d \in Seq(Labels)
  BY DEF ReadingSet
<1>3. /\ t \in ReadingSet
      /\ IsBlank(line) => t = s
      /\ IsLabel(line) =>
            /\ line.label \in Labels /\ t.pending_labels = Append(d, line.label)
            /\ t.instructions = p
      /\ IsInstruction(line) =>
            /\ t.pending_labels = <<>>
            /\ t.instructions = p \o WithLabels(d, ReadInstruction(line))
      /\ ~(IsBlank(line) /\ IsLabel(line))
  BY <1>1, ReadLineFacts
<1>4. /\ k + 1 \in InstructionLines <=> IsInstruction(line)
      /\ k + 1 \in LabelLines <=> IsLabel(line)
      /\ \A h \in LabelLines : h <= k + 1 /\ h # k + 1 => h <= k
  BY <1>1 DEF InstructionLines, LabelLines
<1>5. /\ IsInstruction(line) => end2 = end + 1
      /\ ~IsInstruction(line) => end2 = end
      /\ end \in Nat
  <2>1. k + 1 \in Nat \ {0}
    BY <1>1
  <2> QED  BY <1>1, <1>4, <2>1, LineCount
<1>6. /\ Ordinal(p, Len(p) + 1) = end
      /\ \A h \in LabelLines : h <= k =>
            \/ \E n \in 1 .. Len(p) :
                  p[n].label = source[h].label /\ Ordinal(p, n) = InstructionLinesBefore(h)
            \/ /\ InstructionLinesBefore(h) = end
               /\ \E j \in 1 .. Len(d) : d[j] = source[h].label
      /\ \A n \in 1 .. Len(p) : p[n].label # "" =>
            \E h \in LabelLines :
               /\ h <= k /\ source[h].label = p[n].label
               /\ Ordinal(p, n) = InstructionLinesBefore(h)
      /\ \A j \in 1 .. Len(d) :
            \E h \in LabelLines :
               h <= k /\ source[h].label = d[j] /\ InstructionLinesBefore(h) = end
  BY DEF LabelsCounted
<1> HIDE DEF p, d, end, end2, line
<1>7. CASE IsBlank(line)
  <2>1. t.instructions = p /\ t.pending_labels = d /\ end2 = end /\ k + 1 \notin LabelLines
    BY <1>3, <1>4, <1>5, <1>7 DEF IsInstruction, p, d
  <2>2. \A h \in LabelLines : h <= k + 1 <=> h <= k
    BY <1>1, <1>4, <2>1 DEF LabelLines
  <2>3. ASSUME NEW h \in LabelLines, h <= k + 1
        PROVE  \/ \E n \in 1 .. Len(p) :
                     /\ p[n].label = source[h].label
                     /\ Ordinal(p, n) = InstructionLinesBefore(h)
               \/ /\ InstructionLinesBefore(h) = end
                  /\ \E j \in 1 .. Len(d) : d[j] = source[h].label
    BY <1>6, <2>2, <2>3, Zenon
  <2>4. ASSUME NEW n \in 1 .. Len(p), p[n].label # ""
        PROVE  \E h \in LabelLines :
                  /\ h <= k + 1 /\ source[h].label = p[n].label
                  /\ Ordinal(p, n) = InstructionLinesBefore(h)
    BY <1>6, <2>2, <2>4, Zenon
  <2>5. ASSUME NEW j \in 1 .. Len(d)
        PROVE  \E h \in LabelLines :
                  h <= k + 1 /\ source[h].label = d[j] /\ InstructionLinesBefore(h) = end
    BY <1>6, <2>2, <2>5, Zenon
  <2>6. Ordinal(p, Len(p) + 1) = end /\ InstructionLinesBefore((k + 1) + 1) = end
    BY <1>6, <2>1 DEF end2
  <2>7. LabelsCounted(k + 1, p, d)
    BY <2>3, <2>4, <2>5, <2>6, LabelsCountedParts
  <2> QED  BY <2>1, <2>7
<1>8. CASE IsLabel(line)
  <2> DEFINE e == t.pending_labels
  <2>1. /\ t.instructions = p /\ e = Append(d, line.label) /\ line.label \in Labels
        /\ end2 = end /\ k + 1 \in LabelLines
    BY <1>3, <1>4, <1>5, <1>8 DEF IsInstruction
  <2>2. /\ Len(e) = Len(d) + 1 /\ Len(d) \in Nat /\ e[Len(d) + 1] = line.label
        /\ \A j \in 1 .. Len(d) : e[j] = d[j]
    BY <1>2, <2>1
  <2>3. /\ Len(d) + 1 \in 1 .. Len(e)
        /\ \A j \in 1 .. Len(d) : j \in 1 .. Len(e)
        /\ \A j \in 1 .. Len(e) : j = Len(d) + 1 \/ j \in 1 .. Len(d)
    BY <2>2
  <2>4. \A h \in LabelLines : h <= k => h <= k + 1
    BY <1>1 DEF LabelLines
  <2>5. ASSUME NEW h \in LabelLines, h <= k + 1
        PROVE  \/ \E n \in 1 .. Len(p) :
                     /\ p[n].label = source[h].label
                     /\ Ordinal(p, n) = InstructionLinesBefore(h)
               \/ /\ InstructionLinesBefore(h) = end
                  /\ \E j \in 1 .. Len(e) : e[j] = source[h].label
    <3>1. CASE h = k + 1
      BY <2>2, <2>3, <3>1 DEF line, end
    <3>2. CASE h # k + 1
      <4>1. h <= k
        BY <1>4, <2>5, <3>2
      <4> HIDE DEF e
      <4> QED  BY <1>6, <2>2, <2>3, <4>1
    <3> QED  BY <3>1, <3>2
  <2>6. ASSUME NEW j \in 1 .. Len(e)
        PROVE  \E h \in LabelLines :
                  h <= k + 1 /\ source[h].label = e[j] /\ InstructionLinesBefore(h) = end
    <3>1. CASE j = Len(d) + 1
      <4>1. k + 1 <= k + 1 /\ source[k + 1].label = e[j] /\ InstructionLinesBefore(k + 1) = end
        BY <1>1, <2>2, <3>1 DEF line, end
      <4> QED  BY <2>1, <4>1
    <3>2. CASE j \in 1 .. Len(d)
      <4>1. PICK h \in LabelLines :
               h <= k /\ source[h].label = d[j] /\ InstructionLinesBefore(h) = end
        BY <1>6, <3>2
      <4> QED  BY <2>2, <2>4, <3>2, <4>1
    <3> QED  BY <2>3, <3>1, <3>2
  <2>7. ASSUME NEW n \in 1 .. Len(p), p[n].label # ""
        PROVE  \E h \in LabelLines :
                  /\ h <= k + 1 /\ source[h].label = p[n].label
                  /\ Ordinal(p, n) = InstructionLinesBefore(h)
    <3>1. PICK h \in LabelLines :
             /\ h <= k /\ source[h].label = p[n].label
             /\ Ordinal(p, n) = InstructionLinesBefore(h)
      BY <1>6, <2>7
    <3> QED  BY <2>4, <3>1
  <2> HIDE DEF e
  <2>8. Ordinal(p, Len(p) + 1) = end
    BY <1>6
  <2>9. LabelsCounted(k + 1, p, e)
    <3>1. end2 = end
      BY <2>1
    <3>2. InstructionLinesBefore((k + 1) + 1) = end
      BY <3>1 DEF end2
    <3> QED  BY <2>5, <2>6, <2>7, <2>8, <3>2, LabelsCountedParts
  <2> QED  BY <2>1, <2>9 DEF e
<1>9. CASE IsInstruction(line)
  <2> DEFINE x == ReadInstruction(line)
             w == WithLabels(d, x)
             q == t.instructions
  <2>1. Unlabelled(x) /\ InFormat(x)
    BY <1>1, ReadInstructionType, ReadInstructionFormat DEF line
  <2>2. /\ w \in Seq(Parsed) /\ Len(w) \in Nat \ {0} /\ ~w[Len(w)].label_only
        /\ Carries(w, d)
    BY <1>2, <2>1, WithLabelsFacts
  <2>3. q = p \o w /\ t.pending_labels = <<>> /\ end2 = end + 1
    BY <1>3, <1>5, <1>9
  <2> HIDE DEF x, w, q
  <2>6. LabelsCounted(k, p, d)
    BY DEF p, d
  <2>7. LabelsPlaced(k, q)
    BY <1>2, <2>2, <2>3, <2>6, LabelsAdded
  <2>8. Ordinal(q, Len(q) + 1) = end2
    <3>1. Len(w) \in 1 .. Len(w)
      BY <2>2
    <3>2. /\ Len(q) = Len(p) + Len(w) /\ Len(p) \in Nat
          /\ q[Len(p) + Len(w)] = w[Len(w)]
      BY <1>2, <2>2, <2>3, <3>1, Joined
    <3>3. Ordinal(q, Len(q)) = end /\ Len(q) \in Nat \ {0} /\ ~q[Len(q)].label_only
      <4>1. \A n \in 1 .. Len(w) - 1 : w[n].label_only
        BY <2>2 DEF Carries
      <4>2. Ordinal(q, Len(p) + Len(w)) = Ordinal(p, Len(p) + 1)
        BY <1>2, <2>2, <2>3, <3>1, <4>1, OrdinalJoined
      <4>3. Len(q) = Len(p) + Len(w) /\ Len(q) \in Nat \ {0} /\ q[Len(q)] = w[Len(w)]
        BY <2>2, <3>2
      <4>4. Ordinal(p, Len(p) + 1) = end /\ ~w[Len(w)].label_only
        BY <1>6, <2>2
      <4> QED  BY <4>2, <4>3, <4>4
    <3>4. Ordinal(q, Len(q) + 1) = Ordinal(q, Len(q)) + 1
      BY <3>3, OrdinalFacts
    <3> QED  BY <2>3, <3>3, <3>4
  <2>9. k + 1 \notin LabelLines
    BY <1>4, <1>9 DEF IsInstruction
  <2>10. \A h \in LabelLines : h <= k + 1 <=> h <= k
    BY <1>1, <1>4, <2>9 DEF LabelLines
  <2>11. \A j \in 1 .. Len(t.pending_labels) : FALSE
    BY <2>3
  <2>12. LabelsCounted(k + 1, q, t.pending_labels)
    <3> DEFINE e == t.pending_labels
    <3> HIDE DEF e
    <3>1. \A j \in 1 .. Len(e) : FALSE
      BY <2>11 DEF e
    <3>2. LabelsCounted(k + 1, q, e)
      BY <2>7, <2>8, <2>10, <3>1 DEF LabelsPlaced, LabelsCounted, end2
    <3> QED  BY <3>2 DEF e
  <2> QED  BY <2>12 DEF q
<1> QED  BY <1>7, <1>8, <1>9 DEF IsInstruction

\* So all lines.
LEMMA AllLabelsCounted ==
    ASSUME IsFile(source)
    PROVE  \A k \in 0 .. Len(source) :
              LET s == Readings(source)[k]
              IN  s \in ReadingSet /\ LabelsCounted(k, s.instructions, s.pending_labels)
<1> DEFINE N == Len(source)
           r == Readings(source)
           P == {k \in 0 .. N : LabelsCounted(k, r[k].instructions, r[k].pending_labels)}
<1>1. N \in Nat /\ DOMAIN source = 1 .. N /\ source \in Seq(LineSet)
  BY DEF IsFile
<1>2. /\ r[0] = StartReading
      /\ \A k \in 1 .. N : r[k] = ReadLine(r[k - 1], source[k])
  BY <1>1, ReadingFacts
<1>3. \A k \in 0 .. N : r[k] \in ReadingSet
  BY ReadingType
<1> HIDE DEF r
<1>4. 0 \in P
  <2>1. /\ r[0].instructions = <<>> /\ r[0].pending_labels = <<>>
    BY <1>2 DEF StartReading
  <2>2. Len(<<>>) = 0 /\ (\A n \in 1 .. Len(<<>>) : FALSE)
    OBVIOUS
  <2>3. Ordinal(<<>>, 0 + 1) = 0 /\ InstructionLinesBefore(0 + 1) = 0
    <3>1. {m \in 1 .. (0 + 1) - 1 : ~<<>>[m].label_only} = {}
      OBVIOUS
    <3>2. {l \in InstructionLines : l < 0 + 1} = {}
      BY <1>1 DEF InstructionLines
    <3> QED  BY <3>1, <3>2, FS_EmptySet DEF Ordinal, InstructionLinesBefore
  <2>4. \A h \in LabelLines : ~(h <= 0)
    BY <1>1 DEF LabelLines
  <2>5. LabelsCounted(0, <<>>, <<>>)
    BY <2>2, <2>3, <2>4 DEF LabelsCounted
  <2> QED  BY <1>1, <2>1, <2>5
<1>5. ASSUME NEW k \in 0 .. N, k < N, k \in P PROVE k + 1 \in P
  <2>1. k + 1 \in 1 .. N /\ (k + 1) - 1 = k /\ k + 1 \in 0 .. N
    BY <1>1, <1>5
  <2>2. r[k] \in ReadingSet /\ r[k + 1] = ReadLine(r[k], source[k + 1])
    BY <1>2, <1>3, <2>1
  <2>3. LabelsCounted(k, r[k].instructions, r[k].pending_labels)
    BY <1>5
  <2>4. LabelsCounted(k + 1, r[k + 1].instructions, r[k + 1].pending_labels)
    BY <1>5, <2>2, <2>3, LabelsCountedNext
  <2> QED  BY <2>1, <2>4
<1> HIDE DEF P
<1>6. \A k \in 0 .. N : k \in P
  BY <1>1, <1>4, <1>5, IntervalInduction
<1> QED  BY <1>3, <1>6 DEF P, r

\* What is read, with the labels that are left behind it, before its targets are resolved.
Unresolved ==
    LET s == Readings(source)[Len(source)]
    IN  s.instructions \o LabelInstructions(s.pending_labels)

\* Behind the last line no label waits.
LEMMA UnresolvedLabels ==
    ASSUME IsFile(source)
    PROVE  Unresolved \in Seq(InstructionSet) /\ LabelsPlaced(Len(source), Unresolved)
<1> DEFINE s == Readings(source)[Len(source)]
           p == s.instructions
           d == s.pending_labels
           w == LabelInstructions(d)
           q == Unresolved
<1>1. s \in ReadingSet /\ LabelsCounted(Len(source), p, d)
  <2>1. Len(source) \in 0 .. Len(source)
    BY DEF IsFile
  <2> QED  BY <2>1, AllLabelsCounted
<1>2. q = p \o w
  BY DEF Unresolved
<1> HIDE DEF s
<1>3. p \in Seq(Parsed) /\ d \in Seq(Labels)
  BY <1>1 DEF ReadingSet
<1> HIDE DEF p, d, q
<1>4. /\ w \in Seq(Parsed) /\ Len(w) = Len(d)
      /\ \A n \in 1 .. Len(w) : w[n].label_only /\ w[n].label = d[n]
  BY <1>3, LabelInstructionsFacts
<1> HIDE DEF w
<1>5. Len(d) \in Nat /\ Len(source) \in 0 .. Len(source)
  BY <1>3 DEF IsFile
<1>6. Carries(w, d)
  <2>1. \A n \in 1 .. Len(w) - 1 : n \in 1 .. Len(w)
    BY <1>4, <1>5
  <2> QED  BY <1>4, <2>1 DEF Carries
<1>7. LabelsPlaced(Len(source), q)
  BY <1>1, <1>2, <1>3, <1>4, <1>5, <1>6, LabelsAdded
<1>8. q \in Seq(Parsed)
  BY <1>2, <1>3, <1>4
<1>9. q \in Seq(InstructionSet)
  BY <1>8 DEF Parsed
<1> QED  BY <1>7, <1>9 DEF q

\* The program that the parser makes has the labels where they were.
LEMMA ProgramOf ==
    ASSUME IsFile(source)
    PROVE  LET q == parseAssemblyString(source).instructions
           IN  /\ q \in Seq(InstructionSet) /\ Len(q) = Len(Unresolved)
               /\ \A n \in 1 .. Len(q) :
                    q[n].label = Unresolved[n].label /\ q[n].label_only = Unresolved[n].label_only
               /\ \A n \in 1 .. Len(q) + 1 : Ordinal(q, n) = Ordinal(Unresolved, n)
<1> DEFINE u == Unresolved
           q == parseAssemblyString(source).instructions
<1>1. u \in Seq(InstructionSet)
  BY UnresolvedLabels
<1>2. q = resolveTargets(u)
  BY DEF parseAssemblyString, Unresolved
<1> HIDE DEF u, q
<1>3. q \in Seq(InstructionSet) /\ Len(q) = Len(u) /\ Len(u) \in Nat
  BY <1>1, <1>2, ResolveFacts
<1>4. \A n \in 1 .. Len(q) : q[n].label = u[n].label /\ q[n].label_only = u[n].label_only
  BY <1>1, <1>2, <1>3, ResolveKeeps
<1>5. ASSUME NEW n \in 1 .. Len(q) + 1 PROVE Ordinal(q, n) = Ordinal(u, n)
  <2>1. n \in Nat \ {0} /\ \A m \in 1 .. n - 1 : m \in 1 .. Len(q)
    BY <1>3
  <2>2. \A m \in 1 .. n - 1 : q[m].label_only <=> u[m].label_only
    BY <1>4, <2>1
  <2> QED  BY <2>1, <2>2, OrdinalSame
<1> QED  BY <1>3, <1>4, <1>5 DEF u, q

\* Resolving the targets moves no label.
LEMMA ProgramLabels ==
    ASSUME IsFile(source)
    PROVE  LabelsPlaced(Len(source), parseAssemblyString(source).instructions)
<1> DEFINE u == Unresolved
           q == parseAssemblyString(source).instructions
<1>1. /\ \A h \in LabelLines : h <= Len(source) =>
            \E n \in 1 .. Len(u) :
               u[n].label = source[h].label /\ Ordinal(u, n) = InstructionLinesBefore(h)
      /\ \A n \in 1 .. Len(u) : u[n].label # "" =>
            \E h \in LabelLines :
               /\ h <= Len(source) /\ source[h].label = u[n].label
               /\ Ordinal(u, n) = InstructionLinesBefore(h)
  BY UnresolvedLabels DEF LabelsPlaced
<1>2. /\ q \in Seq(InstructionSet) /\ Len(q) = Len(u)
      /\ \A n \in 1 .. Len(q) : q[n].label = u[n].label
      /\ \A n \in 1 .. Len(q) + 1 : Ordinal(q, n) = Ordinal(u, n)
  BY ProgramOf
<1> HIDE DEF u, q
<1>3. \A n \in 1 .. Len(q) : n \in 1 .. Len(q) + 1
  BY <1>2
<1>4. \A n \in 1 .. Len(q) : q[n].label = u[n].label /\ Ordinal(q, n) = Ordinal(u, n)
  BY <1>2, <1>3
<1>5. Len(q) = Len(u)
  BY <1>2
<1>6. LabelsPlaced(Len(source), q)
  BY <1>1, <1>4, <1>5 DEF LabelsPlaced
<1> QED  BY <1>6 DEF q

\* What the pass was given stays what the parser made of the file.
InputIsRead == source \in Sources /\ input = parseAssemblyString(source).instructions

\* No step of either tool changes the file or what was made of it.
LEMMA InputAlwaysRead == ChainSpec => []InputIsRead
<1>1. ChainInit => InputIsRead
  BY DEF ChainInit, Start, InputIsRead
<1>2. Next => input' = input
  BY DEF Next, Skip, KeepManual, UseNop, LeaveNop, FillAutomatically, Fill, Return
<1>3. InputIsRead /\ [ChainNext]_chain_vars => InputIsRead'
  <2>1. [ChainNext]_chain_vars => source' = source /\ input' = input
    BY <1>2 DEF ChainNext, Schedule, Simulate, Run, chain_vars, vars
  <2> QED  BY <2>1 DEF InputIsRead
<1> QED  BY <1>1, <1>3, PTL DEF ChainSpec

\* parser.cpp:142: for every file, whoever jumps to a label comes to the instruction
\* that follows it.
THEOREM LabelsAlwaysLead == ChainSpec => []LabelsLead
<1>1. InputIsRead => LabelsLead
  <2> SUFFICES ASSUME InputIsRead,
                      NEW k \in DOMAIN source, IsLabel(source[k]),
                      \A l \in k + 1 .. Len(source) : source[l] # source[k]
               PROVE  LET n == LabelPosition(input, source[k].label)
                      IN  n # 0 /\ Ordinal(input, n) = InstructionLinesBefore(k)
    BY DEF LabelsLead, Ordinal
  <2> DEFINE label == source[k].label
             at == {m \in DOMAIN input : input[m].label = label}
             n == LabelPosition(input, label)
  <2>1. IsFile(source)
    BY SourcesAssumption DEF InputIsRead, IsFile
  <2>2. /\ source \in Seq(LineSet) /\ Len(source) \in Nat /\ DOMAIN source = 1 .. Len(source)
        /\ \A h \in DOMAIN source : WellNamed(source[h])
    BY <2>1 DEF IsFile
  <2>3. input \in Seq(InstructionSet) /\ LabelsPlaced(Len(source), input)
    BY <2>1, ProgramOf, ProgramLabels DEF InputIsRead
  <2>4. DOMAIN input = 1 .. Len(input) /\ Len(input) \in Nat
    BY <2>3
  <2>5. k \in LabelLines /\ k <= Len(source) /\ label # ""
    <3>1. k \in 1 .. Len(source)
      BY <2>2
    <3>2. label # ""
      BY Zenon DEF IsLabel
    <3>3. k \in LabelLines
      BY Zenon DEF LabelLines
    <3>4. k <= Len(source)
      BY <2>2, <3>1
    <3> QED  BY <3>2, <3>3, <3>4
  <2>6. PICK m \in 1 .. Len(input) :
           input[m].label = label /\ Ordinal(input, m) = InstructionLinesBefore(k)
    BY <2>3, <2>5 DEF LabelsPlaced
  <2>7. m \in at
    BY <2>4, <2>6
  <2>8. n \in at /\ \A l \in at : l <= n
    BY <2>3, <2>5, <2>7, LabelPositionFacts
  <2>9. n \in 1 .. Len(input) /\ input[n].label = label /\ m <= n
    BY <2>4, <2>7, <2>8
  <2>10. PICK h \in LabelLines :
            source[h].label = label /\ Ordinal(input, n) = InstructionLinesBefore(h)
    BY <2>3, <2>5, <2>9 DEF LabelsPlaced
  <2>11. h <= k
    <3>1. source[h] = source[k]
      <4>1. ASSUME NEW l \in LabelLines
            PROVE  source[l] = [label |-> source[l].label, opcode |-> "", operands |-> <<>>]
        <5>1. source[l] \in LineSet /\ source[l].opcode = "" /\ source[l].operands = <<>>
          BY <2>2 DEF LabelLines, IsLabel, WellNamed
        <5> QED  BY <5>1 DEF LineSet
      <4> QED  BY <2>5, <2>10, <4>1
    <3>2. h \in 1 .. Len(source) /\ k \in 1 .. Len(source)
      BY <2>2 DEF LabelLines
    <3>3. ~(h \in k + 1 .. Len(source))
      BY <3>1
    <3> QED  BY <2>2, <3>2, <3>3
  <2>12. InstructionLinesBefore(h) <= InstructionLinesBefore(k)
    <3>1. h \in Nat \ {0} /\ k \in Nat \ {0}
      BY <2>2 DEF LabelLines
    <3> QED  BY <2>2, <2>11, <3>1, LineCount
  <2>13. Ordinal(input, m) <= Ordinal(input, n) /\ Ordinal(input, n) \in Nat
         /\ Ordinal(input, m) \in Nat
    <3>1. m \in Nat \ {0} /\ n \in Nat \ {0}
      BY <2>4, <2>6, <2>9
    <3> HIDE DEF n
    <3> QED  BY <2>9, <3>1, OrdinalFacts
  <2> HIDE DEF n
  <2>14. Ordinal(input, n) = InstructionLinesBefore(k) /\ n # 0
    BY <2>4, <2>6, <2>9, <2>10, <2>12, <2>13
  <2> QED  BY <2>14 DEF n
<1> QED  BY <1>1, InputAlwaysRead, PTL

-----------------------------------------------------------------------------
(* What stands in the delay slots.                                         *)

\* Labels from one line to another.
LabelsFrom(h, k) == Cardinality({m \in h .. k : IsLabel(source[m])})

\* One line on, a label is counted and nothing else is.
LEMMA LabelsFromStep ==
    ASSUME NEW h \in Nat, NEW k \in Nat, h <= k + 1
    PROVE  /\ LabelsFrom(h, k) \in Nat
           /\ IsLabel(source[k + 1]) => LabelsFrom(h, k + 1) = LabelsFrom(h, k) + 1
           /\ ~IsLabel(source[k + 1]) => LabelsFrom(h, k + 1) = LabelsFrom(h, k)
<1> DEFINE S == {m \in h .. k : IsLabel(source[m])}
           S2 == {m \in h .. k + 1 : IsLabel(source[m])}
<1>1. IsFiniteSet(S)
  <2>1. IsFiniteSet(h .. k)
    BY FS_Interval
  <2> QED  BY <2>1, FS_Subset
<1>2. Cardinality(S) \in Nat
  BY <1>1, FS_CardinalityType
<1>3. /\ k + 1 \notin S
      /\ IsLabel(source[k + 1]) => S2 = S \cup {k + 1}
      /\ ~IsLabel(source[k + 1]) => S2 = S
  OBVIOUS
<1> HIDE DEF S, S2
<1>4. Cardinality(S \cup {k + 1}) = Cardinality(S) + 1
  BY <1>1, <1>3, FS_AddElement
<1>5. LabelsFrom(h, k) = Cardinality(S) /\ LabelsFrom(h, k + 1) = Cardinality(S2)
  BY DEF LabelsFrom, S, S2
<1> QED  BY <1>2, <1>3, <1>4, <1>5

\* The instruction from line h is in p; another follows it at once; it is the last, and as
\* many labels wait as stand behind it.
Placed(p, h) ==
    \E n \in 1 .. Len(p) : ~p[n].label_only /\ Ordinal(p, n) = InstructionLinesBefore(h)

Followed(p, h) ==
    \E n \in 1 .. Len(p) - 1 :
        /\ ~p[n].label_only /\ ~p[n + 1].label_only
        /\ Ordinal(p, n) = InstructionLinesBefore(h)

IsLast(p, d, h, k) ==
    /\ Len(p) # 0 /\ ~p[Len(p)].label_only /\ Ordinal(p, Len(p)) = InstructionLinesBefore(h)
    /\ Len(d) = LabelsFrom(h, k)

LineOrder(h, l) == InstructionLinesBefore(l) = InstructionLinesBefore(h) + 1

SlotsCounted(k, p, d) ==
    /\ \A h \in InstructionLines : h <= k => Placed(p, h)
    /\ \A h \in InstructionLines : h <= k /\ LineOrder(h, k + 1) => IsLast(p, d, h, k)
    /\ \A h, l \in InstructionLines :
          l <= k /\ LineOrder(h, l) /\ LabelsFrom(h, l) <= 1 => Followed(p, h)

\* Instructions added behind p change nothing in it.
LEMMA PlacedStays ==
    ASSUME NEW p \in Seq(Parsed), NEW w \in Seq(Parsed), NEW q, q = p \o w, NEW h
    PROVE  (Placed(p, h) => Placed(q, h)) /\ (Followed(p, h) => Followed(q, h))
<1>1. /\ q \in Seq(Parsed) /\ Len(q) = Len(p) + Len(w) /\ Len(p) \in Nat /\ Len(w) \in Nat
      /\ \A n \in 1 .. Len(p) : q[n] = p[n]
  BY Joined
<1>2. ASSUME NEW n \in 1 .. Len(p) PROVE Ordinal(q, n) = Ordinal(p, n)
  <2>1. n \in Nat \ {0} /\ \A m \in 1 .. n - 1 : q[m] = p[m]
    BY <1>1
  <2>2. \A m \in 1 .. n - 1 : q[m].label_only <=> p[m].label_only
    BY <2>1
  <2> QED  BY <2>1, <2>2, OrdinalSame
<1>3. ASSUME Placed(p, h) PROVE Placed(q, h)
  <2>1. PICK n \in 1 .. Len(p) :
           ~p[n].label_only /\ Ordinal(p, n) = InstructionLinesBefore(h)
    BY <1>3 DEF Placed
  <2>2. n \in 1 .. Len(q) /\ q[n] = p[n] /\ Ordinal(q, n) = Ordinal(p, n)
    BY <1>1, <1>2
  <2> QED  BY <2>1, <2>2 DEF Placed
<1>4. ASSUME Followed(p, h) PROVE Followed(q, h)
  <2>1. PICK n \in 1 .. Len(p) - 1 :
           /\ ~p[n].label_only /\ ~p[n + 1].label_only
           /\ Ordinal(p, n) = InstructionLinesBefore(h)
    BY <1>4 DEF Followed
  <2>2. /\ n \in 1 .. Len(q) - 1 /\ n \in 1 .. Len(p) /\ q[n] = p[n] /\ q[n + 1] = p[n + 1]
    BY <1>1
  <2>3. Ordinal(q, n) = Ordinal(p, n)
    BY <1>2, <2>2
  <2> QED  BY <2>1, <2>2, <2>3 DEF Followed
<1> QED  BY <1>3, <1>4

\* The next line.
LEMMA SlotsCountedNext ==
    ASSUME IsFile(source), NEW k \in 0 .. Len(source), k < Len(source),
           NEW s \in ReadingSet, LabelsCounted(k, s.instructions, s.pending_labels),
           SlotsCounted(k, s.instructions, s.pending_labels),
           NEW t, t = ReadLine(s, source[k + 1])
    PROVE  SlotsCounted(k + 1, t.instructions, t.pending_labels)
<1> DEFINE line == source[k + 1]
           p == s.instructions
           d == s.pending_labels
           q == t.instructions
           e == t.pending_labels
           j == k + 1
<1>1. /\ Len(source) \in Nat /\ DOMAIN source = 1 .. Len(source) /\ source \in Seq(LineSet)
      /\ j \in DOMAIN source /\ k \in Nat /\ WellNamed(line) /\ j \in Nat \ {0} /\ k < j
  BY DEF IsFile
<1>2. p \in Seq(Parsed) /\ d \in Seq(Labels)
  BY DEF ReadingSet
<1>3. /\ t \in ReadingSet
      /\ IsBlank(line) => t = s
      /\ IsLabel(line) => e = Append(d, line.label) /\ q = p
      /\ IsInstruction(line) => e = <<>> /\ q = p \o WithLabels(d, ReadInstruction(line))
      /\ ~(IsBlank(line) /\ IsLabel(line))
  BY <1>1, ReadLineFacts
<1>4. /\ j \in InstructionLines <=> IsInstruction(line)
      /\ \A h \in InstructionLines : h \in Nat \ {0} /\ (h <= j <=> h <= k \/ h = j)
  BY <1>1 DEF InstructionLines
<1>5. Ordinal(p, Len(p) + 1) = InstructionLinesBefore(j)
  BY DEF LabelsCounted
<1>6. /\ \A h \in InstructionLines : h <= k => Placed(p, h)
      /\ \A h \in InstructionLines : h <= k /\ LineOrder(h, j) => IsLast(p, d, h, k)
      /\ \A h, l \in InstructionLines :
            l <= k /\ LineOrder(h, l) /\ LabelsFrom(h, l) <= 1 => Followed(p, h)
  BY DEF SlotsCounted
<1>7. SUFFICES /\ \A h \in InstructionLines : h <= j => Placed(q, h)
               /\ \A h \in InstructionLines : h <= j /\ LineOrder(h, j + 1) => IsLast(q, e, h, j)
               /\ \A h, l \in InstructionLines :
                     l <= j /\ LineOrder(h, l) /\ LabelsFrom(h, l) <= 1 => Followed(q, h)
  BY DEF SlotsCounted
<1>8. \A h \in InstructionLines : h <= k =>
         /\ LabelsFrom(h, k) \in Nat
         /\ IsLabel(line) => LabelsFrom(h, j) = LabelsFrom(h, k) + 1
         /\ ~IsLabel(line) => LabelsFrom(h, j) = LabelsFrom(h, k)
  <2> SUFFICES ASSUME NEW h \in InstructionLines, h <= k
               PROVE  /\ LabelsFrom(h, k) \in Nat
                      /\ IsLabel(line) => LabelsFrom(h, j) = LabelsFrom(h, k) + 1
                      /\ ~IsLabel(line) => LabelsFrom(h, j) = LabelsFrom(h, k)
    OBVIOUS
  <2>1. h \in Nat /\ h <= k + 1
    BY <1>1, <1>4
  <2> QED  BY <1>1, <2>1, LabelsFromStep
<1> HIDE DEF p, d, q, e
<1>9. CASE ~IsInstruction(line)
  <2>1. /\ \A h \in InstructionLines : h <= j => h <= k
        /\ InstructionLinesBefore(j + 1) = InstructionLinesBefore(j)
    BY <1>1, <1>4, <1>9, LineCount
  <2>2. \A h : LineOrder(h, j + 1) <=> LineOrder(h, j)
    BY <2>1 DEF LineOrder
  <2>3. q = p
    BY <1>3, <1>9 DEF IsInstruction, p, q
  <2>4. \A h \in InstructionLines : IsLast(p, d, h, k) /\ h <= k => IsLast(q, e, h, j)
    <3>1. CASE IsBlank(line)
      <4>1. e = d /\ ~IsLabel(line)
        BY <1>3, <3>1 DEF d, e
      <4> QED  BY <1>8, <2>3, <4>1 DEF IsLast
    <3>2. CASE IsLabel(line)
      <4>1. Len(e) = Len(d) + 1
        BY <1>2, <1>3, <3>2
      <4> QED  BY <1>8, <2>3, <3>2, <4>1 DEF IsLast
    <3> QED  BY <1>9, <3>1, <3>2 DEF IsInstruction
  <2> QED  BY <1>6, <2>1, <2>2, <2>3, <2>4
<1>10. CASE IsInstruction(line)
  <2> DEFINE x == ReadInstruction(line)
             w == WithLabels(d, x)
  <2>1. Unlabelled(x) /\ InFormat(x)
    BY <1>1, ReadInstructionType, ReadInstructionFormat
  <2>2. /\ w \in Seq(Parsed) /\ Len(w) \in Nat \ {0} /\ ~w[Len(w)].label_only
        /\ Len(w) = (IF d = <<>> THEN 1 ELSE Len(d)) /\ Carries(w, d)
    BY <1>2, <2>1, WithLabelsFacts
  <2>3. q = p \o w /\ e = <<>> /\ j \in InstructionLines /\ ~IsLabel(line)
    BY <1>3, <1>4, <1>10 DEF IsInstruction
  <2> HIDE DEF x, w
  <2>4. Len(w) \in 1 .. Len(w)
    BY <2>2
  <2>5. /\ Len(q) = Len(p) + Len(w) /\ Len(p) \in Nat
        /\ q[Len(p) + Len(w)] = w[Len(w)]
        /\ \A n \in 1 .. Len(p) : q[n] = p[n]
    <3>1. q = p \o w /\ w \in Seq(Parsed)
      BY <2>2, <2>3
    <3>2. /\ Len(q) = Len(p) + Len(w) /\ Len(p) \in Nat
          /\ \A n \in 1 .. Len(w) : q[Len(p) + n] = w[n]
          /\ \A n \in 1 .. Len(p) : q[n] = p[n]
      BY <1>2, <3>1, Joined
    <3> QED  BY <2>4, <3>2
  <2>6. /\ \A n \in 1 .. Len(p) + 1 : Ordinal(q, n) = Ordinal(p, n)
        /\ Ordinal(q, Len(p) + Len(w)) = Ordinal(p, Len(p) + 1)
    <3>1. \A n \in 1 .. Len(w) - 1 : w[n].label_only
      BY <2>2 DEF Carries
    <3>2. q = p \o w /\ w \in Seq(Parsed)
      BY <2>2, <2>3
    <3>3. /\ \A n \in 1 .. Len(p) + 1 : Ordinal(q, n) = Ordinal(p, n)
          /\ \A n \in 1 .. Len(w) : Ordinal(q, Len(p) + n) = Ordinal(p, Len(p) + 1)
      BY <1>2, <3>1, <3>2, OrdinalJoined
    <3> QED  BY <2>4, <3>3
  <2>7. /\ Len(q) \in Nat \ {0} /\ ~q[Len(q)].label_only
        /\ Ordinal(q, Len(q)) = InstructionLinesBefore(j)
    <3>1. Len(q) = Len(p) + Len(w) /\ Len(q) \in Nat \ {0} /\ q[Len(q)] = w[Len(w)]
      BY <2>2, <2>5
    <3> QED  BY <1>5, <2>2, <2>6, <3>1
  <2>8. Placed(q, j)
    BY <2>7 DEF Placed
  <2>9. \A h : (Placed(p, h) => Placed(q, h)) /\ (Followed(p, h) => Followed(q, h))
    BY <1>2, <2>2, <2>3, PlacedStays
  <2>10. /\ InstructionLinesBefore(j) \in Nat
         /\ InstructionLinesBefore(j + 1) = InstructionLinesBefore(j) + 1
         /\ \A h \in InstructionLines : InstructionLinesBefore(h) \in Nat
         /\ \A h \in InstructionLines : h <= k =>
               InstructionLinesBefore(h) < InstructionLinesBefore(j)
    <3>1. \A h \in InstructionLines : h \in Nat \ {0} /\ (h <= k => h < j)
      BY <1>1, <1>4
    <3> QED  BY <1>1, <2>3, <3>1, LineCount
  <2>11. IsLast(q, e, j, j)
    <3>1. Len(e) = 0
      BY <2>3
    <3>2. LabelsFrom(j, j) = 0
      <4>1. {m \in j .. j : IsLabel(source[m])} = {}
        BY <1>1, <2>3
      <4> QED  BY <4>1, FS_EmptySet DEF LabelsFrom
    <3> QED  BY <2>7, <3>1, <3>2 DEF IsLast
  <2>12. ASSUME NEW h \in InstructionLines, h <= j, LineOrder(h, j + 1)
         PROVE  IsLast(q, e, h, j)
    <3>1. InstructionLinesBefore(h) = InstructionLinesBefore(j)
      BY <2>10, <2>12 DEF LineOrder
    <3>2. h = j
      BY <1>4, <2>10, <2>12, <3>1
    <3> QED  BY <2>11, <3>2
  <2>13. ASSUME NEW h \in InstructionLines, LineOrder(h, j), LabelsFrom(h, j) <= 1
         PROVE  Followed(q, h)
    <3>1. h <= k
      <4>1. InstructionLinesBefore(h) < InstructionLinesBefore(j)
        BY <2>10, <2>13 DEF LineOrder
      <4>2. ~(j <= h)
        <5>1. j <= h => InstructionLinesBefore(j) <= InstructionLinesBefore(h)
          BY <1>1, <1>4, LineCount
        <5> QED  BY <2>10, <4>1, <5>1
      <4> QED  BY <1>1, <1>4, <4>2
    <3>2. /\ Len(p) # 0 /\ ~p[Len(p)].label_only
          /\ Ordinal(p, Len(p)) = InstructionLinesBefore(h)
          /\ Len(d) = LabelsFrom(h, k)
      BY <1>6, <2>13, <3>1 DEF IsLast
    <3>3. Len(d) <= 1
      BY <1>8, <2>3, <2>13, <3>1, <3>2
    <3>4. Len(w) = 1
      <4>1. CASE d = <<>>
        BY <2>2, <4>1
      <4>2. CASE d # <<>>
        <5>1. Len(d) \in Nat /\ Len(d) # 0
          BY <1>2, <4>2
        <5>2. Len(w) = Len(d)
          BY <2>2, <4>2
        <5> QED  BY <3>3, <5>1, <5>2
      <4> QED  BY <4>1, <4>2
    <3>5. /\ Len(p) \in 1 .. Len(q) - 1 /\ Len(p) + 1 = Len(q) /\ Len(p) \in 1 .. Len(p)
      BY <2>5, <3>2, <3>4
    <3>6. q[Len(p)] = p[Len(p)] /\ Ordinal(q, Len(p)) = Ordinal(p, Len(p))
      <4>1. Len(p) \in 1 .. Len(p) + 1
        BY <3>5
      <4> QED  BY <2>5, <2>6, <3>5, <4>1
    <3>7. ~q[Len(p) + 1].label_only
      BY <2>7, <3>5
    <3> QED  BY <3>2, <3>5, <3>6, <3>7 DEF Followed
  <2>14. ASSUME NEW h \in InstructionLines, NEW l \in InstructionLines,
                l <= j, LineOrder(h, l), LabelsFrom(h, l) <= 1
         PROVE  Followed(q, h)
    <3>1. CASE l = j
      BY <2>13, <2>14, <3>1
    <3>2. CASE l # j
      <4>1. l <= k
        BY <1>4, <2>14, <3>2
      <4> QED  BY <1>6, <2>9, <2>14, <4>1
    <3> QED  BY <3>1, <3>2
  <2>15. \A h \in InstructionLines : h <= j => Placed(q, h)
    BY <1>4, <1>6, <2>8, <2>9
  <2> QED  BY <2>12, <2>14, <2>15
<1> QED  BY <1>9, <1>10

\* So all lines.
LEMMA AllSlotsCounted ==
    ASSUME IsFile(source)
    PROVE  \A k \in 0 .. Len(source) :
              LET s == Readings(source)[k]
              IN  SlotsCounted(k, s.instructions, s.pending_labels)
<1> DEFINE N == Len(source)
           r == Readings(source)
           P == {k \in 0 .. N : SlotsCounted(k, r[k].instructions, r[k].pending_labels)}
<1>1. N \in Nat /\ DOMAIN source = 1 .. N /\ source \in Seq(LineSet)
  BY DEF IsFile
<1>2. /\ r[0] = StartReading
      /\ \A k \in 1 .. N : r[k] = ReadLine(r[k - 1], source[k])
  BY <1>1, ReadingFacts
<1>3. \A k \in 0 .. N :
        r[k] \in ReadingSet /\ LabelsCounted(k, r[k].instructions, r[k].pending_labels)
  BY AllLabelsCounted
<1> HIDE DEF r
<1>4. 0 \in P
  <2>1. \A h \in InstructionLines : ~(h <= 0)
    BY <1>1 DEF InstructionLines
  <2>2. SlotsCounted(0, r[0].instructions, r[0].pending_labels)
    BY <2>1 DEF SlotsCounted
  <2> QED  BY <1>1, <2>2
<1>5. ASSUME NEW k \in 0 .. N, k < N, k \in P PROVE k + 1 \in P
  <2>1. k + 1 \in 1 .. N /\ (k + 1) - 1 = k /\ k + 1 \in 0 .. N
    BY <1>1, <1>5
  <2>2. /\ r[k] \in ReadingSet /\ r[k + 1] = ReadLine(r[k], source[k + 1])
        /\ LabelsCounted(k, r[k].instructions, r[k].pending_labels)
    BY <1>2, <1>3, <2>1
  <2>3. SlotsCounted(k, r[k].instructions, r[k].pending_labels)
    BY <1>5
  <2>4. SlotsCounted(k + 1, r[k + 1].instructions, r[k + 1].pending_labels)
    BY <1>5, <2>2, <2>3, SlotsCountedNext
  <2> QED  BY <2>1, <2>4
<1> HIDE DEF P
<1>6. \A k \in 0 .. N : k \in P
  BY <1>1, <1>4, <1>5, IntervalInduction
<1> QED  BY <1>6 DEF P, r

\* In the program that the parser makes, the instruction from every line is there, and the
\* one from the next follows it at once, unless two labels or more stand between.
LEMMA ProgramSlots ==
    ASSUME IsFile(source)
    PROVE  LET q == parseAssemblyString(source).instructions
           IN  /\ \A h \in InstructionLines : Placed(q, h)
               /\ \A h, l \in InstructionLines :
                     LineOrder(h, l) /\ LabelsFrom(h, l) <= 1 => Followed(q, h)
<1> DEFINE s == Readings(source)[Len(source)]
           p == s.instructions
           d == s.pending_labels
           w == LabelInstructions(d)
           u == Unresolved
           q == parseAssemblyString(source).instructions
<1>1. s \in ReadingSet /\ SlotsCounted(Len(source), p, d)
  <2>1. Len(source) \in 0 .. Len(source)
    BY DEF IsFile
  <2> QED  BY <2>1, AllLabelsCounted, AllSlotsCounted
<1>2. u = p \o w
  BY DEF Unresolved
<1>3. /\ q \in Seq(InstructionSet) /\ Len(q) = Len(u)
      /\ \A n \in 1 .. Len(q) : q[n].label_only = u[n].label_only
      /\ \A n \in 1 .. Len(q) + 1 : Ordinal(q, n) = Ordinal(u, n)
  BY ProgramOf
<1> HIDE DEF s, u, q
<1>4. p \in Seq(Parsed) /\ d \in Seq(Labels)
  BY <1>1 DEF ReadingSet
<1> HIDE DEF p, d
<1>5. w \in Seq(Parsed)
  BY <1>4, LabelInstructionsFacts
<1> HIDE DEF w
<1>6. \A h : (Placed(p, h) => Placed(u, h)) /\ (Followed(p, h) => Followed(u, h))
  BY <1>2, <1>4, <1>5, PlacedStays
<1>7. Len(q) \in Nat
  BY <1>3
<1>8. ASSUME NEW h PROVE (Placed(u, h) => Placed(q, h)) /\ (Followed(u, h) => Followed(q, h))
  <2>1. ASSUME Placed(u, h) PROVE Placed(q, h)
    <3>1. PICK n \in 1 .. Len(u) :
             ~u[n].label_only /\ Ordinal(u, n) = InstructionLinesBefore(h)
      BY <2>1 DEF Placed
    <3>2. n \in 1 .. Len(q) /\ n \in 1 .. Len(q) + 1
      BY <1>3, <1>7
    <3>3. q[n].label_only = u[n].label_only /\ Ordinal(q, n) = Ordinal(u, n)
      BY <1>3, <3>2
    <3> QED  BY <3>1, <3>2, <3>3 DEF Placed
  <2>2. ASSUME Followed(u, h) PROVE Followed(q, h)
    <3>1. PICK n \in 1 .. Len(u) - 1 :
             /\ ~u[n].label_only /\ ~u[n + 1].label_only
             /\ Ordinal(u, n) = InstructionLinesBefore(h)
      BY <2>2 DEF Followed
    <3>2. /\ n \in 1 .. Len(q) - 1 /\ n \in 1 .. Len(q) /\ n + 1 \in 1 .. Len(q)
          /\ n \in 1 .. Len(q) + 1
      BY <1>3, <1>7
    <3>3. /\ q[n].label_only = u[n].label_only /\ q[n + 1].label_only = u[n + 1].label_only
          /\ Ordinal(q, n) = Ordinal(u, n)
      BY <1>3, <3>2
    <3> QED  BY <3>1, <3>2, <3>3 DEF Followed
  <2> QED  BY <2>1, <2>2
<1>9. /\ \A h \in InstructionLines : Placed(p, h)
      /\ \A h, l \in InstructionLines : LineOrder(h, l) /\ LabelsFrom(h, l) <= 1 => Followed(p, h)
  <2>1. \A h \in InstructionLines : h <= Len(source)
    BY DEF InstructionLines, IsFile
  <2> QED  BY <1>1, <2>1 DEF SlotsCounted, p, d
<1>10. /\ \A h \in InstructionLines : Placed(q, h)
       /\ \A h, l \in InstructionLines : LineOrder(h, l) /\ LabelsFrom(h, l) <= 1 => Followed(q, h)
  BY <1>6, <1>8, <1>9
<1> QED  BY <1>10 DEF q

\* Two instructions before which equally many stand are one.
LEMMA OrdinalTells ==
    ASSUME NEW p, NEW n \in Nat \ {0}, NEW m \in Nat \ {0},
           ~p[n].label_only, ~p[m].label_only, Ordinal(p, n) = Ordinal(p, m)
    PROVE  n = m
<1>1. Ordinal(p, n) \in Nat /\ Ordinal(p, m) \in Nat
  BY OrdinalFacts
<1>2. ~(n < m)
  <2>1. n < m => Ordinal(p, n) < Ordinal(p, m)
    BY OrdinalFacts
  <2> QED  BY <1>1, <2>1
<1>3. ~(m < n)
  <2>1. m < n => Ordinal(p, m) < Ordinal(p, n)
    BY OrdinalFacts
  <2> QED  BY <1>1, <2>1
<1> QED  BY <1>2, <1>3

\* PositionOf finds the one instruction that is from the line.
LEMMA PositionIs ==
    ASSUME input \in Seq(InstructionSet), NEW k, NEW n \in 1 .. Len(input),
           ~input[n].label_only, Ordinal(input, n) = InstructionLinesBefore(k)
    PROVE  PositionOf(k) = n
<1> DEFINE From(m) == ~input[m].label_only /\ Ordinal(input, m) = InstructionLinesBefore(k)
           c == CHOOSE m \in DOMAIN input : From(m)
<1>1. DOMAIN input = 1 .. Len(input) /\ Len(input) \in Nat
  OBVIOUS
<1>2. PositionOf(k) = c
  BY DEF PositionOf, Ordinal
<1>3. n \in DOMAIN input /\ From(n)
  BY <1>1
<1> HIDE DEF From
<1>4. c \in DOMAIN input /\ From(c)
  BY <1>3
<1> HIDE DEF c
<1>5. c \in Nat \ {0} /\ n \in Nat \ {0}
  BY <1>1, <1>4
<1>6. c = n
  BY <1>3, <1>4, <1>5, OrdinalTells DEF From
<1> QED  BY <1>2, <1>6

\* parser.cpp:142: for every file, the instruction that the programmer wrote behind another
\* one is what follows it, so that of a control instruction is in its delay slot, unless two
\* labels or more stand between.
THEOREM SlotsAlwaysAsWritten == ChainSpec => []SlotsAsWritten
<1>1. InputIsRead => SlotsAsWritten
  <2> SUFFICES ASSUME InputIsRead, NEW k \in InstructionLines, NEW l \in InstructionLines,
                      LineOrder(k, l), LabelsFrom(k, l) <= 1
               PROVE  PositionOf(l) = PositionOf(k) + 1
    BY DEF SlotsAsWritten, LineOrder, LabelsFrom
  <2>1. IsFile(source)
    BY SourcesAssumption DEF InputIsRead, IsFile
  <2>2. input \in Seq(InstructionSet)
    BY <2>1, ProgramOf DEF InputIsRead
  <2>3. Followed(input, k)
    BY <2>1, ProgramSlots DEF InputIsRead
  <2>4. PICK n \in 1 .. Len(input) - 1 :
           /\ ~input[n].label_only /\ ~input[n + 1].label_only
           /\ Ordinal(input, n) = InstructionLinesBefore(k)
    BY <2>3 DEF Followed
  <2>5. /\ n \in 1 .. Len(input) /\ n + 1 \in 1 .. Len(input) /\ n \in Nat \ {0}
    BY <2>2, <2>4
  <2>6. PositionOf(k) = n
    BY <2>2, <2>4, <2>5, PositionIs
  <2>7. Ordinal(input, n + 1) = InstructionLinesBefore(l)
    <3>1. Ordinal(input, n + 1) = Ordinal(input, n) + 1
      BY <2>4, <2>5, OrdinalFacts
    <3> QED  BY <2>4, <3>1 DEF LineOrder
  <2>8. PositionOf(l) = n + 1
    BY <2>2, <2>4, <2>5, <2>7, PositionIs
  <2> QED  BY <2>6, <2>8
<1> QED  BY <1>1, InputAlwaysRead, PTL

-----------------------------------------------------------------------------
(* What is printed reads back.                                             *)

\* Instructions with the same fields.
LEMMA SameFields ==
    ASSUME NEW x \in InstructionSet, NEW y \in InstructionSet,
           x.opcode = y.opcode, x.label = y.label, x.rd = y.rd, x.rs = y.rs, x.rt = y.rt,
           x.immediate = y.immediate, x.label_only = y.label_only,
           x.target_label = y.target_label, x.target_index = y.target_index,
           x.manually_filled = y.manually_filled
    PROVE  x = y
<1>1. ASSUME NEW z \in InstructionSet
      PROVE  z = [opcode |-> z.opcode, label |-> z.label, rd |-> z.rd, rs |-> z.rs,
                  rt |-> z.rt, immediate |-> z.immediate, label_only |-> z.label_only,
                  target_label |-> z.target_label, target_index |-> z.target_index,
                  manually_filled |-> z.manually_filled]
  BY <1>1 DEF InstructionSet
<1>2. /\ x = [opcode |-> x.opcode, label |-> x.label, rd |-> x.rd, rs |-> x.rs,
              rt |-> x.rt, immediate |-> x.immediate, label_only |-> x.label_only,
              target_label |-> x.target_label, target_index |-> x.target_index,
              manually_filled |-> x.manually_filled]
      /\ y = [opcode |-> y.opcode, label |-> y.label, rd |-> y.rd, rs |-> y.rs,
              rt |-> y.rt, immediate |-> y.immediate, label_only |-> y.label_only,
              target_label |-> y.target_label, target_index |-> y.target_index,
              manually_filled |-> y.manually_filled]
  BY <1>1
<1> QED  BY <1>2, Zenon

\* What is seen of an instruction in its text.
LEMMA TextFields ==
    ASSUME NEW x \in InstructionSet
    PROVE  /\ Text(x) \in InstructionSet /\ Text(Text(x)) = Text(x)
           /\ Text(x).opcode = x.opcode /\ Text(x).label = x.label
           /\ Text(x).rd = x.rd /\ Text(x).rs = x.rs /\ Text(x).rt = x.rt
           /\ Text(x).immediate = x.immediate /\ Text(x).label_only = x.label_only
           /\ Text(x).target_label = x.target_label
           /\ Text(x).target_index = 0 /\ Text(x).manually_filled = FALSE
<1>1. /\ Text(x).opcode = x.opcode /\ Text(x).label = x.label
      /\ Text(x).rd = x.rd /\ Text(x).rs = x.rs /\ Text(x).rt = x.rt
      /\ Text(x).immediate = x.immediate /\ Text(x).label_only = x.label_only
      /\ Text(x).target_label = x.target_label
      /\ Text(x).target_index = 0 /\ Text(x).manually_filled = FALSE
  BY DEF Text, InstructionSet
<1>2. Text(x) \in InstructionSet
  BY TextFacts
<1>3. ASSUME NEW y \in InstructionSet, y.manually_filled = FALSE, y.target_index = 0
      PROVE  Text(y) = y
  BY <1>3 DEF Text, InstructionSet
<1>4. Text(Text(x)) = Text(x)
  BY <1>1, <1>2, <1>3
<1> QED  BY <1>1, <1>2, <1>4

\* A label alone is what the parser makes of the label.
LEMMA LabelText ==
    ASSUME NEW x \in InstructionSet, InFormat(x), x.label_only
    PROVE  Text(x) = LabelInstruction(x.label)
<1>1. x.opcode = "nop" /\ x.label_only = TRUE /\ x.label \in Labels \cup {""}
  BY DEF InFormat, InstructionSet
<1>2. /\ x.rd = "" /\ x.rs = "" /\ x.rt = "" /\ x.immediate = 0 /\ x.target_label = ""
  BY <1>1 DEF InFormat, RdArithmetic
<1> DEFINE y == LabelInstruction(x.label)
<1>3. y \in InstructionSet
  <2>1. ASSUME NEW z \in InstructionSet, NEW l \in Labels \cup {""}
        PROVE  [z EXCEPT !.label = l, !.label_only = TRUE] \in InstructionSet
    BY <2>1 DEF InstructionSet
  <2> QED  BY <1>1, <2>1, NopType DEF LabelInstruction
<1>4. /\ y.opcode = "nop" /\ y.label = x.label /\ y.rd = "" /\ y.rs = "" /\ y.rt = ""
      /\ y.immediate = 0 /\ y.label_only = TRUE /\ y.target_label = ""
      /\ y.target_index = 0 /\ y.manually_filled = FALSE
  BY DEF LabelInstruction, NopInstruction
<1> HIDE DEF y
<1> DEFINE t == Text(x)
<1>5. /\ t \in InstructionSet
      /\ t.opcode = y.opcode /\ t.label = y.label /\ t.rd = y.rd /\ t.rs = y.rs /\ t.rt = y.rt
      /\ t.immediate = y.immediate /\ t.label_only = y.label_only
      /\ t.target_label = y.target_label /\ t.target_index = y.target_index
      /\ t.manually_filled = y.manually_filled
  BY <1>1, <1>2, <1>4, TextFields
<1> HIDE DEF t
<1>6. t = y
  BY <1>3, <1>5, SameFields
<1> QED  BY <1>6 DEF t, y

\* As many operands are printed as are read.
LEMMA PrintedArity ==
    ASSUME NEW x \in InstructionSet
    PROVE  LET o == PrintedOperands(x)
           IN  /\ o \in Seq(OperandSet) /\ Len(o) = Arity(x.opcode) /\ Arity(x.opcode) \in Nat
               /\ o # <<>> <=> Arity(x.opcode) # 0
<1> DEFINE o == PrintedOperands(x)
<1>1. o \in Seq(OperandSet)
  BY PrintedOperandsFit DEF AllFit
<1>2. Len(o) = Arity(x.opcode)
  <2>1. CASE x.opcode \in RdArithmetic \cup {"addi", "beq", "bne"}
    <3>1. Len(o) = 3
      BY <2>1 DEF PrintedOperands, RdArithmetic
    <3> QED  BY <2>1, <3>1, ArityFacts
  <2>2. CASE x.opcode \in {"lw", "sw", "li"}
    <3>1. Len(o) = 2
      BY <2>2 DEF PrintedOperands, RdArithmetic
    <3> QED  BY <2>2, <3>1, ArityFacts
  <2>3. CASE x.opcode = "j"
    <3>1. Len(o) = 1
      BY <2>3 DEF PrintedOperands, RdArithmetic
    <3> QED  BY <2>3, <3>1, ArityFacts
  <2>4. CASE x.opcode \notin RdArithmetic \cup {"addi", "beq", "bne", "lw", "sw", "li", "j"}
    <3>1. o = <<>>
      BY <2>4 DEF PrintedOperands
    <3>2. Arity(x.opcode) = 0
      BY <2>4 DEF Arity
    <3> QED  BY <3>1, <3>2
  <2> QED  BY <2>1, <2>2, <2>3, <2>4
<1> HIDE DEF o
<1>3. Len(o) \in Nat /\ (o # <<>> <=> Len(o) # 0)
  BY <1>1
<1> QED  BY <1>1, <1>2, <1>3 DEF o

\* The line of an instruction without a label.
LEMMA PrintedLine ==
    ASSUME NEW x \in InstructionSet, InFormat(x), x.opcode # "label_only"
    PROVE  LET line == toString(x)
           IN  /\ x.label_only /\ hasLabel(x) => IsLabel(line) /\ line.label = x.label
               /\ ~x.label_only =>
                     /\ line = Line(x.label, x.opcode, PrintedOperands(x))
                     /\ IsInstruction(line)
                     /\ x.label = "" => parseOpcode(line) = x.opcode
<1> DEFINE line == toString(x)
<1>1. CASE x.label_only /\ hasLabel(x)
  <2>1. x.opcode = "nop"
    BY <1>1 DEF InFormat
  <2>2. line = Line(x.label, "", <<>>)
    BY <1>1, <2>1 DEF toString
  <2> HIDE DEF line
  <2>3. line.label = x.label /\ line.opcode = ""
    BY <2>2 DEF Line
  <2> QED  BY <1>1, <2>3 DEF IsLabel, hasLabel, line
<1>2. CASE ~x.label_only
  <2>1. line = Line(x.label, x.opcode, PrintedOperands(x))
    BY <1>2 DEF toString, opcodeToString
  <2>2. x.opcode \in OpCode \ {"label_only"} /\ x.opcode # ""
    BY DEF InstructionSet, OpCode, ArithmeticOps, RdArithmetic
  <2>3. line.opcode = x.opcode /\ line.label = x.label
    BY <2>1 DEF Line
  <2> HIDE DEF line
  <2>4. IsInstruction(line)
    BY <2>2, <2>3 DEF IsInstruction, IsBlank, IsLabel
  <2>5. x.label = "" => parseOpcode(line) = x.opcode
    BY <2>2, <2>3 DEF parseOpcode
  <2> QED  BY <1>2, <2>1, <2>4, <2>5 DEF line
<1> QED  BY <1>1, <1>2

\* Which opcodes take operands.
LEMMA TakesOperands ==
    ASSUME NEW opcode
    PROVE  opcode \in RdArithmetic \cup {"addi", "li", "lw", "sw", "beq", "bne", "j"}
             <=> Arity(opcode) # 0
BY DEF Arity, RdArithmetic

\* The switch over the opcode, of the right number of operands.
Switch(op, o) ==
    LET x == [NopInstruction EXCEPT !.opcode = op]
    IN  CASE op \in RdArithmetic ->
               [x EXCEPT !.rd = o[1].name, !.rs = o[2].name, !.rt = o[3].name]
          [] op = "addi" ->
               [x EXCEPT !.rt = o[1].name, !.rs = o[2].name, !.immediate = o[3].number]
          [] op = "li" -> [x EXCEPT !.rt = o[1].name, !.immediate = o[2].number]
          [] op \in {"lw", "sw"} ->
               IF MalformedMemory(op, o) THEN [x EXCEPT !.rt = o[1].name]
               ELSE [x EXCEPT !.rt = o[1].name, !.rs = o[2].name, !.immediate = o[2].number]
          [] op \in {"beq", "bne"} ->
               [x EXCEPT !.rs = o[1].name, !.rt = o[2].name, !.target_label = o[3].name]
          [] op = "j" -> [x EXCEPT !.target_label = o[1].name]

\* The parser makes it.
LEMMA ReadInstructionSwitches ==
    ASSUME NEW line, Len(Operands(line)) = Arity(parseOpcode(line))
    PROVE  /\ Arity(parseOpcode(line)) # 0 =>
                 ReadInstruction(line) = Switch(parseOpcode(line), Operands(line))
           /\ Arity(parseOpcode(line)) = 0 =>
                 ReadInstruction(line) = [NopInstruction EXCEPT !.opcode = parseOpcode(line)]
<1>1. ASSUME Arity(parseOpcode(line)) # 0
      PROVE  ReadInstruction(line) = Switch(parseOpcode(line), Operands(line))
  BY <1>1, Zenon DEF ReadInstruction, Switch
<1>2. ASSUME Arity(parseOpcode(line)) = 0
      PROVE  ReadInstruction(line) = [NopInstruction EXCEPT !.opcode = parseOpcode(line)]
  BY <1>2, Zenon DEF ReadInstruction
<1> QED  BY <1>1, <1>2

\* The line reads back as the instruction.
LEMMA LineReadBack ==
    ASSUME NEW x \in InstructionSet, InFormat(x), x.opcode # "label_only",
           ~x.label_only, x.label = "", ~LastOperandEmpty(x)
    PROVE  ReadInstruction(toString(x)) = Text(x)
<1> DEFINE line == toString(x)
           o == PrintedOperands(x)
           op == x.opcode
           empty == [NopInstruction EXCEPT !.opcode = op]
           y == ReadInstruction(line)
           arithmetic == [empty EXCEPT !.rd = o[1].name, !.rs = o[2].name, !.rt = o[3].name]
           addi == [empty EXCEPT !.rt = o[1].name, !.rs = o[2].name, !.immediate = o[3].number]
           li == [empty EXCEPT !.rt = o[1].name, !.immediate = o[2].number]
           malformed == [empty EXCEPT !.rt = o[1].name]
           access == [empty EXCEPT !.rt = o[1].name, !.rs = o[2].name, !.immediate = o[2].number]
           branch == [empty EXCEPT !.rs = o[1].name, !.rt = o[2].name, !.target_label = o[3].name]
           jump == [empty EXCEPT !.target_label = o[1].name]
<1>1. parseOpcode(line) = op /\ line = Line(x.label, op, o)
  BY PrintedLine
<1>2. Operands(line) = o
  <2> HIDE DEF line, o
  <2>1. line.operands = o
    BY <1>1 DEF Line
  <2> QED  BY <2>1 DEF Operands, LastOperandEmpty, o
<1>3. Len(o) = Arity(op)
  BY PrintedArity
<1>4. (Arity(op) # 0 => y = Switch(op, o)) /\ (Arity(op) = 0 => y = empty)
  <2> HIDE DEF line, o, op
  <2> QED  BY <1>1, <1>2, <1>3, ReadInstructionSwitches
<1>5. y \in InstructionSet
  BY PrintedWellNamed, ReadInstructionType DEF Unlabelled
<1>6. x.label_only = FALSE
  BY DEF InstructionSet
<1>7. \A r, n : /\ Name(r).name = r /\ Number(n).number = n
                /\ Memory(n, r).name = r /\ Memory(n, r).number = n
                /\ Memory(n, r).form = "memory"
  BY DEF Name, Number, Memory, Operand
<1>8. ASSUME y.opcode = op, y.label = "", y.rd = x.rd, y.rs = x.rs, y.rt = x.rt,
             y.immediate = x.immediate, y.label_only = FALSE,
             y.target_label = x.target_label, y.target_index = 0, y.manually_filled = FALSE
      PROVE  y = Text(x)
  <2> DEFINE t == Text(x)
  <2> HIDE DEF y
  <2>1. /\ t \in InstructionSet
        /\ t.opcode = y.opcode /\ t.label = y.label /\ t.rd = y.rd /\ t.rs = y.rs
        /\ t.rt = y.rt /\ t.immediate = y.immediate /\ t.label_only = y.label_only
        /\ t.target_label = y.target_label /\ t.target_index = y.target_index
        /\ t.manually_filled = y.manually_filled
    BY <1>6, <1>8, TextFields
  <2> HIDE DEF t
  <2>2. t = y
    BY <1>5, <2>1, SameFields
  <2> QED  BY <2>2 DEF t
<1> HIDE DEF line, y
<1>9. CASE op \in RdArithmetic
  <2>1. o = <<Name(x.rd), Name(x.rs), Name(x.rt)>>
    BY <1>9 DEF PrintedOperands, RdArithmetic
  <2> HIDE DEF o
  <2>2. o[1].name = x.rd /\ o[2].name = x.rs /\ o[3].name = x.rt
    BY <1>7, <2>1
  <2>3. x.immediate = 0 /\ x.target_label = ""
    BY <1>9 DEF InFormat, RdArithmetic
  <2> HIDE DEF op, arithmetic, addi, li, malformed, access, branch, jump, empty
  <2>4. Arity(op) # 0
    BY <1>9, TakesOperands
  <2>5. y = arithmetic
    BY <1>4, <1>9, <2>2, <2>4 DEF Switch, RdArithmetic, arithmetic, empty
  <2>6. /\ arithmetic.opcode = op /\ arithmetic.label = "" /\ arithmetic.rd = x.rd
        /\ arithmetic.rs = x.rs /\ arithmetic.rt = x.rt
        /\ arithmetic.immediate = x.immediate /\ arithmetic.label_only = FALSE
        /\ arithmetic.target_label = x.target_label
        /\ arithmetic.target_index = 0 /\ arithmetic.manually_filled = FALSE
    BY <2>2, <2>3 DEF arithmetic, empty, NopInstruction
  <2> QED  BY <1>8, <2>5, <2>6 DEF op, y, line
<1>10. CASE op = "addi"
  <2>1. o = <<Name(x.rt), Name(x.rs), Number(x.immediate)>>
    BY <1>10 DEF PrintedOperands, RdArithmetic
  <2> HIDE DEF o
  <2>2. o[1].name = x.rt /\ o[2].name = x.rs /\ o[3].number = x.immediate
    BY <1>7, <2>1
  <2>3. x.rd = "" /\ x.target_label = ""
    BY <1>10 DEF InFormat, RdArithmetic
  <2> HIDE DEF op, arithmetic, addi, li, malformed, access, branch, jump, empty
  <2>4. Arity(op) # 0
    BY <1>10, TakesOperands
  <2>5. y = addi
    BY <1>4, <1>10, <2>2, <2>4 DEF Switch, RdArithmetic, addi, empty
  <2>6. /\ addi.opcode = op /\ addi.label = "" /\ addi.rd = x.rd
        /\ addi.rs = x.rs /\ addi.rt = x.rt
        /\ addi.immediate = x.immediate /\ addi.label_only = FALSE
        /\ addi.target_label = x.target_label
        /\ addi.target_index = 0 /\ addi.manually_filled = FALSE
    BY <2>2, <2>3 DEF addi, empty, NopInstruction
  <2> QED  BY <1>8, <2>5, <2>6 DEF op, y, line
<1>11. CASE op = "li"
  <2>1. o = <<Name(x.rt), Number(x.immediate)>>
    BY <1>11 DEF PrintedOperands, RdArithmetic
  <2> HIDE DEF o
  <2>2. o[1].name = x.rt /\ o[2].number = x.immediate
    BY <1>7, <2>1
  <2>3. x.rd = "" /\ x.rs = "" /\ x.target_label = ""
    BY <1>11 DEF InFormat, RdArithmetic
  <2> HIDE DEF op, arithmetic, addi, li, malformed, access, branch, jump, empty
  <2>4. Arity(op) # 0
    BY <1>11, TakesOperands
  <2>5. y = li
    BY <1>4, <1>11, <2>2, <2>4 DEF Switch, RdArithmetic, li, empty
  <2>6. /\ li.opcode = op /\ li.label = "" /\ li.rd = x.rd
        /\ li.rs = x.rs /\ li.rt = x.rt
        /\ li.immediate = x.immediate /\ li.label_only = FALSE
        /\ li.target_label = x.target_label
        /\ li.target_index = 0 /\ li.manually_filled = FALSE
    BY <2>2, <2>3 DEF li, empty, NopInstruction
  <2> QED  BY <1>8, <2>5, <2>6 DEF op, y, line
<1>12. CASE op \in {"lw", "sw"}
  <2>1. o = <<Name(x.rt), Memory(x.immediate, x.rs)>>
    BY <1>12 DEF PrintedOperands, RdArithmetic
  <2> HIDE DEF o
  <2>2. /\ o[1].name = x.rt /\ o[2].name = x.rs /\ o[2].number = x.immediate
        /\ o[2].form = "memory"
    <3>1. o[1] = Name(x.rt) /\ o[2] = Memory(x.immediate, x.rs)
      BY <2>1
    <3>2. Name(x.rt).name = x.rt
      BY <1>7
    <3>3. /\ Memory(x.immediate, x.rs).name = x.rs
          /\ Memory(x.immediate, x.rs).number = x.immediate
          /\ Memory(x.immediate, x.rs).form = "memory"
      BY DEF Memory, Operand
    <3> QED  BY <3>1, <3>2, <3>3, Zenon
  <2>3. x.rd = "" /\ x.target_label = ""
    BY <1>12 DEF InFormat, RdArithmetic
  <2> HIDE DEF op, arithmetic, addi, li, malformed, access, branch, jump, empty
  <2>4. Arity(op) # 0
    BY <1>12, TakesOperands
  <2>5. y = access
    BY <1>4, <1>12, <2>2, <2>4 DEF Switch, RdArithmetic, access, empty, MalformedMemory
  <2>6. /\ access.opcode = op /\ access.label = "" /\ access.rd = x.rd
        /\ access.rs = x.rs /\ access.rt = x.rt
        /\ access.immediate = x.immediate /\ access.label_only = FALSE
        /\ access.target_label = x.target_label
        /\ access.target_index = 0 /\ access.manually_filled = FALSE
    BY <2>2, <2>3 DEF access, empty, NopInstruction
  <2> QED  BY <1>8, <2>5, <2>6 DEF op, y, line
<1>13. CASE op \in {"beq", "bne"}
  <2>1. o = <<Name(x.rs), Name(x.rt), Name(x.target_label)>>
    BY <1>13 DEF PrintedOperands, RdArithmetic
  <2> HIDE DEF o
  <2>2. o[1].name = x.rs /\ o[2].name = x.rt /\ o[3].name = x.target_label
    <3>1. o[1] = Name(x.rs) /\ o[2] = Name(x.rt) /\ o[3] = Name(x.target_label)
      BY <2>1
    <3> QED  BY <1>7, <3>1
  <2>3. x.rd = "" /\ x.immediate = 0
    BY <1>13 DEF InFormat, RdArithmetic
  <2> HIDE DEF op, arithmetic, addi, li, malformed, access, branch, jump, empty
  <2>4. Arity(op) # 0
    BY <1>13, TakesOperands
  <2>5. y = branch
    BY <1>4, <1>13, <2>2, <2>4 DEF Switch, RdArithmetic, branch, empty
  <2>6. /\ branch.opcode = op /\ branch.label = "" /\ branch.rd = x.rd
        /\ branch.rs = x.rs /\ branch.rt = x.rt
        /\ branch.immediate = x.immediate /\ branch.label_only = FALSE
        /\ branch.target_label = x.target_label
        /\ branch.target_index = 0 /\ branch.manually_filled = FALSE
    BY <2>2, <2>3 DEF branch, empty, NopInstruction
  <2> QED  BY <1>8, <2>5, <2>6 DEF op, y, line
<1>14. CASE op = "j"
  <2>1. o = <<Name(x.target_label)>>
    BY <1>14 DEF PrintedOperands, RdArithmetic
  <2> HIDE DEF o
  <2>2. o[1].name = x.target_label
    BY <1>7, <2>1
  <2>3. x.rd = "" /\ x.rs = "" /\ x.rt = "" /\ x.immediate = 0
    BY <1>14 DEF InFormat, RdArithmetic
  <2> HIDE DEF op, arithmetic, addi, li, malformed, access, branch, jump, empty
  <2>4. Arity(op) # 0
    BY <1>14, TakesOperands
  <2>5. y = jump
    BY <1>4, <1>14, <2>2, <2>4 DEF Switch, RdArithmetic, jump, empty
  <2>6. /\ jump.opcode = op /\ jump.label = "" /\ jump.rd = x.rd
        /\ jump.rs = x.rs /\ jump.rt = x.rt
        /\ jump.immediate = x.immediate /\ jump.label_only = FALSE
        /\ jump.target_label = x.target_label
        /\ jump.target_index = 0 /\ jump.manually_filled = FALSE
    BY <2>2, <2>3 DEF jump, empty, NopInstruction
  <2> QED  BY <1>8, <2>5, <2>6 DEF op, y, line
<1>15. CASE op \notin RdArithmetic \cup {"addi", "li", "lw", "sw", "beq", "bne", "j"}
  <2>1. op = "nop"
    BY <1>15 DEF InstructionSet, OpCode, ArithmeticOps
  <2>2. x.rd = "" /\ x.rs = "" /\ x.rt = "" /\ x.immediate = 0 /\ x.target_label = ""
    BY <2>1 DEF InFormat, RdArithmetic
  <2> HIDE DEF op, o, arithmetic, addi, li, malformed, access, branch, jump, empty
  <2>3. Arity(op) = 0
    BY <1>15, ArityFacts
  <2>4. y = empty
    BY <1>4, <2>3
  <2>5. /\ empty.opcode = op /\ empty.label = "" /\ empty.rd = "" /\ empty.rs = ""
        /\ empty.rt = "" /\ empty.immediate = 0 /\ empty.label_only = FALSE
        /\ empty.target_label = "" /\ empty.target_index = 0 /\ empty.manually_filled = FALSE
    BY DEF empty, NopInstruction
  <2> QED  BY <1>8, <2>2, <2>4, <2>5 DEF op, y, line
<1> QED  BY <1>9, <1>10, <1>11, <1>12, <1>13, <1>14, <1>15

\* Or not without a remark.
LEMMA LineDiagnosed ==
    ASSUME NEW x \in InstructionSet, InFormat(x), x.opcode # "label_only",
           ~x.label_only, hasLabel(x) \/ LastOperandEmpty(x)
    PROVE  Diagnoses(toString(x))
<1> DEFINE line == toString(x)
           o == PrintedOperands(x)
<1>1. line = Line(x.label, x.opcode, o)
  BY PrintedLine
<1>2. line.label = x.label /\ line.operands = o
  BY <1>1 DEF Line
<1>3. CASE hasLabel(x)
  BY <1>2, <1>3 DEF Diagnoses, hasLabel
<1>4. CASE ~hasLabel(x) /\ LastOperandEmpty(x)
  <2>1. parseOpcode(line) = x.opcode
    BY <1>4, PrintedLine DEF hasLabel
  <2>2. /\ o \in Seq(OperandSet) /\ Len(o) = Arity(x.opcode) /\ Arity(x.opcode) \in Nat
        /\ o # <<>> <=> Arity(x.opcode) # 0
    BY PrintedArity
  <2>3. EndsEmpty(o)
    BY <1>4 DEF LastOperandEmpty
  <2> HIDE DEF line, o
  <2>4. o # <<>> /\ Operands(line) = SubSeq(o, 1, Len(o) - 1)
    BY <1>2, <2>3 DEF Operands, EndsEmpty
  <2>5. Len(Operands(line)) = Len(o) - 1
    BY <2>2, <2>4, ButLast
  <2>6. Arity(x.opcode) # 0 /\ Len(Operands(line)) # Arity(x.opcode)
    BY <2>2, <2>4, <2>5
  <2> QED  BY <2>1, <2>6 DEF Diagnoses, line
<1> QED  BY <1>3, <1>4

\* Every label stands with those behind it in front of an instruction, or at the end.
LabelsTogether(p) ==
    \A n \in 1 .. Len(p) :
        p[n].label_only => hasLabel(p[n]) /\ (n # Len(p) => hasLabel(p[n + 1]))

\* It is a matter of texts.
LEMMA SameTextsTogether ==
    ASSUME NEW p \in Seq(InstructionSet), NEW q \in Seq(InstructionSet), SameTexts(p, q),
           LabelsTogether(p)
    PROVE  LabelsTogether(q)
<1>1. Len(q) = Len(p) /\ Len(p) \in Nat
  BY DEF SameTexts
<1>2. \A n \in 1 .. Len(p) : q[n].label_only = p[n].label_only /\ q[n].label = p[n].label
  <2> SUFFICES ASSUME NEW n \in 1 .. Len(p)
               PROVE  q[n].label_only = p[n].label_only /\ q[n].label = p[n].label
    OBVIOUS
  <2>1. Text(q[n]) = Text(p[n]) /\ p[n] \in InstructionSet /\ q[n] \in InstructionSet
    BY <1>1 DEF SameTexts
  <2>2. /\ Text(p[n]).label_only = p[n].label_only /\ Text(p[n]).label = p[n].label
        /\ Text(q[n]).label_only = q[n].label_only /\ Text(q[n]).label = q[n].label
    BY <2>1, TextFields
  <2> QED  BY <2>1, <2>2
<1>3. \A n \in 1 .. Len(p) : hasLabel(q[n]) <=> hasLabel(p[n])
  BY <1>2 DEF hasLabel
<1>4. \A n \in 1 .. Len(p) : n # Len(p) => n + 1 \in 1 .. Len(p)
  BY <1>1
<1> SUFFICES ASSUME NEW n \in 1 .. Len(p), q[n].label_only
             PROVE  hasLabel(q[n]) /\ (n # Len(p) => hasLabel(q[n + 1]))
  BY <1>1 DEF LabelsTogether
<1>5. p[n].label_only
  BY <1>2
<1>6. hasLabel(p[n]) /\ (n # Len(p) => hasLabel(p[n + 1]))
  BY <1>5 DEF LabelsTogether
<1> QED  BY <1>3, <1>4, <1>6

\* Programs one behind the other.
LEMMA JoinTogether ==
    ASSUME NEW p \in Seq(Parsed), NEW w \in Seq(Parsed), NEW q, q = p \o w,
           LabelsTogether(p), LabelsTogether(w), Len(p) # 0 => ~p[Len(p)].label_only
    PROVE  LabelsTogether(q)
<1>1. /\ Len(q) = Len(p) + Len(w) /\ Len(p) \in Nat /\ Len(w) \in Nat
      /\ \A n \in 1 .. Len(p) : q[n] = p[n]
      /\ \A n \in 1 .. Len(w) : q[Len(p) + n] = w[n]
  BY Joined
<1> SUFFICES ASSUME NEW n \in 1 .. Len(q), q[n].label_only
             PROVE  hasLabel(q[n]) /\ (n # Len(q) => hasLabel(q[n + 1]))
  BY DEF LabelsTogether
<1>2. CASE n \in 1 .. Len(p)
  <2>1. q[n] = p[n] /\ p[n].label_only
    BY <1>1, <1>2
  <2>2. hasLabel(p[n]) /\ (n # Len(p) => hasLabel(p[n + 1]))
    BY <1>2, <2>1 DEF LabelsTogether
  <2>3. n # Len(p)
    BY <1>1, <1>2, <2>1
  <2>4. n + 1 \in 1 .. Len(p)
    BY <1>1, <1>2, <2>3
  <2>5. q[n + 1] = p[n + 1]
    BY <1>1, <2>4
  <2> QED  BY <2>1, <2>2, <2>3, <2>5
<1>3. CASE n \notin 1 .. Len(p)
  <2> DEFINE m == n - Len(p)
  <2>1. m \in 1 .. Len(w) /\ n = Len(p) + m /\ (n # Len(q) => m # Len(w) /\ m + 1 \in 1 .. Len(w))
    <3>1. Len(q) = Len(p) + Len(w) /\ Len(p) \in Nat /\ Len(w) \in Nat
      BY <1>1
    <3>2. n \in Nat /\ 1 <= n /\ n <= Len(q)
      BY <3>1
    <3>3. Len(p) < n
      BY <1>3, <3>1, <3>2
    <3> HIDE DEF m
    <3>4. m \in Int /\ m = n - Len(p)
      BY <3>1, <3>2 DEF m
    <3> QED  BY <3>1, <3>2, <3>3, <3>4
  <2>2. n + 1 = Len(p) + (m + 1)
    BY <1>1, <2>1
  <2> HIDE DEF m
  <2>3. q[n] = w[m] /\ w[m].label_only
    BY <1>1, <2>1
  <2>4. hasLabel(w[m]) /\ (m # Len(w) => hasLabel(w[m + 1]))
    BY <2>1, <2>3 DEF LabelsTogether
  <2>5. n # Len(q) => q[n + 1] = w[m + 1]
    BY <1>1, <2>1, <2>2
  <2> QED  BY <2>1, <2>3, <2>4, <2>5
<1> QED  BY <1>2, <1>3

\* One element more.
LEMMA OneMore ==
    ASSUME NEW S, NEW w \in Seq(S), NEW e \in S
    PROVE  /\ Append(w, e) \in Seq(S) /\ Len(w) \in Nat
           /\ Len(Append(w, e)) = Len(w) + 1 /\ Append(w, e)[Len(w) + 1] = e
           /\ \A j \in 1 .. Len(w) : Append(w, e)[j] = w[j]
OBVIOUS

\* What the parser has at a line: labels that wait have names.
Named(s) ==
    /\ LabelsTogether(s.instructions)
    /\ Len(s.instructions) # 0 => ~s.instructions[Len(s.instructions)].label_only
    /\ \A j \in 1 .. Len(s.pending_labels) : s.pending_labels[j] # ""

\* Each line leaves it so.
LEMMA NamedKept ==
    ASSUME NEW s \in ReadingSet, Named(s), NEW line, WellNamed(line)
    PROVE  Named(ReadLine(s, line))
<1> DEFINE t == ReadLine(s, line)
           p == s.instructions
           d == s.pending_labels
           w == WithLabels(d, ReadInstruction(line))
<1>1. /\ t \in ReadingSet
      /\ IsBlank(line) => t = s
      /\ IsLabel(line) =>
            /\ line.label \in Labels /\ t.pending_labels = Append(d, line.label)
            /\ t.instructions = p
      /\ IsInstruction(line) => t.pending_labels = <<>> /\ t.instructions = p \o w
  BY ReadLineFacts
<1>2. p \in Seq(Parsed) /\ d \in Seq(Labels)
  BY DEF ReadingSet
<1>3. /\ LabelsTogether(p) /\ (Len(p) # 0 => ~p[Len(p)].label_only)
      /\ \A j \in 1 .. Len(d) : d[j] # ""
  BY DEF Named
<1> HIDE DEF t, p, d
<1>4. CASE IsBlank(line)
  BY <1>1, <1>4 DEF t
<1>5. CASE IsLabel(line)
  <2>1. line.label # "" /\ line.label \in Labels
    BY <1>1, <1>5 DEF IsLabel
  <2>2. \A j \in 1 .. Len(Append(d, line.label)) : Append(d, line.label)[j] # ""
    <3>1. /\ Len(Append(d, line.label)) = Len(d) + 1 /\ Len(d) \in Nat
          /\ Append(d, line.label)[Len(d) + 1] = line.label
          /\ \A j \in 1 .. Len(d) : Append(d, line.label)[j] = d[j]
      BY <1>2, <2>1, OneMore
    <3> SUFFICES ASSUME NEW j \in 1 .. Len(Append(d, line.label))
                 PROVE  Append(d, line.label)[j] # ""
      OBVIOUS
    <3>2. j \in 1 .. Len(d) \/ j = Len(d) + 1
      BY <3>1
    <3> QED  BY <1>3, <2>1, <3>1, <3>2
  <2> QED  BY <1>1, <1>3, <1>5, <2>2 DEF Named, t
<1>6. CASE IsInstruction(line)
  <2>1. Unlabelled(ReadInstruction(line)) /\ InFormat(ReadInstruction(line))
    BY ReadInstructionType, ReadInstructionFormat
  <2>2. /\ w \in Seq(Parsed) /\ Len(w) \in Nat \ {0} /\ ~w[Len(w)].label_only
        /\ d # <<>> =>
              \A n \in 1 .. Len(w) : \E j \in 1 .. Len(d) : w[n].label = d[j]
        /\ Len(w) = IF d = <<>> THEN 1 ELSE Len(d)
    BY <1>2, <2>1, WithLabelsFacts
  <2> HIDE DEF w
  <2>3. LabelsTogether(w)
    <3> SUFFICES ASSUME NEW n \in 1 .. Len(w), w[n].label_only
                 PROVE  hasLabel(w[n]) /\ (n # Len(w) => hasLabel(w[n + 1]))
      BY DEF LabelsTogether
    <3>1. d # <<>>
      BY <2>2
    <3>2. \A k \in 1 .. Len(w) : w[k].label # ""
      BY <1>3, <2>2, <3>1
    <3>3. n # Len(w) => n + 1 \in 1 .. Len(w)
      BY <2>2
    <3> QED  BY <3>2, <3>3 DEF hasLabel
  <2> DEFINE q == p \o w
  <2>10. q = p \o w
    OBVIOUS
  <2> HIDE DEF q
  <2>4. LabelsTogether(q)
    BY <1>2, <1>3, <2>2, <2>3, <2>10, JoinTogether
  <2>5. /\ Len(q) = Len(p) + Len(w) /\ Len(p) \in Nat
        /\ \A n \in 1 .. Len(w) : q[Len(p) + n] = w[n]
    <3>1. p \in Seq(Parsed) /\ w \in Seq(Parsed)
      BY <1>2, <2>2
    <3> QED  BY <2>10, <3>1, Joined
  <2>6. Len(w) \in 1 .. Len(w)
    BY <2>2
  <2>7. ~q[Len(q)].label_only
    BY <2>2, <2>5, <2>6
  <2>8. t.pending_labels = <<>> /\ t.instructions = q
    BY <1>1, <1>6 DEF q, w
  <2>9. \A j \in 1 .. Len(t.pending_labels) : FALSE
    BY <2>8
  <2> QED  BY <2>4, <2>7, <2>8, <2>9 DEF Named, t
<1> QED  BY <1>4, <1>5, <1>6 DEF IsInstruction

\* So the program that is read has its labels together.
LEMMA ParsedTogether ==
    ASSUME NEW file, IsFile(file)
    PROVE  LabelsTogether(parseAssemblyString(file).instructions)
<1> DEFINE N == Len(file)
           r == Readings(file)
           s == r[N]
           v == LabelInstructions(s.pending_labels)
           q == s.instructions \o v
           P == {k \in 0 .. N : Named(r[k])}
<1>1. N \in Nat /\ \A k \in 1 .. N : WellNamed(file[k])
  BY DEF IsFile
<1>2. /\ r[0] = StartReading
      /\ \A k \in 1 .. N : r[k] = ReadLine(r[k - 1], file[k])
  BY ReadingFacts DEF IsFile
<1>3. \A k \in 0 .. N : r[k] \in ReadingSet
  BY ReadingType
<1> HIDE DEF r, N
<1>4. 0 \in P
  <2>1. Named(StartReading)
    BY DEF Named, StartReading, LabelsTogether
  <2> QED  BY <1>1, <1>2, <2>1
<1>5. ASSUME NEW k \in 0 .. N, k < N, k \in P PROVE k + 1 \in P
  <2>1. k + 1 \in 1 .. N /\ (k + 1) - 1 = k /\ k + 1 \in 0 .. N
    BY <1>1, <1>5
  <2>2. Named(ReadLine(r[k], file[k + 1]))
    BY <1>1, <1>3, <1>5, <2>1, NamedKept
  <2> QED  BY <1>2, <2>1, <2>2
<1> HIDE DEF P
<1>6. \A k \in 0 .. N : k \in P
  BY <1>1, <1>4, <1>5, IntervalInduction
<1>7. N \in 0 .. N
  BY <1>1
<1>8. Named(s) /\ s \in ReadingSet
  BY <1>3, <1>6, <1>7 DEF P
<1>9. s.instructions \in Seq(Parsed) /\ s.pending_labels \in Seq(Labels)
  BY <1>8 DEF ReadingSet
<1>10. /\ v \in Seq(Parsed) /\ Len(v) = Len(s.pending_labels)
       /\ \A n \in 1 .. Len(v) : v[n].label = s.pending_labels[n]
  BY <1>9, LabelInstructionsFacts
<1>11. /\ LabelsTogether(s.instructions)
       /\ Len(s.instructions) # 0 => ~s.instructions[Len(s.instructions)].label_only
       /\ \A j \in 1 .. Len(s.pending_labels) : s.pending_labels[j] # ""
  BY <1>8 DEF Named
<1>12. parseAssemblyString(file).instructions = resolveTargets(q)
  BY DEF parseAssemblyString, r, N
<1> HIDE DEF s, v
<1>13. LabelsTogether(v)
  <2>1. \A n \in 1 .. Len(v) : hasLabel(v[n])
    BY <1>10, <1>11 DEF hasLabel
  <2>2. \A n \in 1 .. Len(v) : n # Len(v) => n + 1 \in 1 .. Len(v)
    BY <1>10
  <2> QED  BY <2>1, <2>2 DEF LabelsTogether
<1>14. LabelsTogether(q)
  BY <1>9, <1>10, <1>11, <1>13, JoinTogether
<1>15. q \in Seq(InstructionSet)
  <2>1. q \in Seq(Parsed)
    BY <1>9, <1>10
  <2> HIDE DEF q
  <2> QED  BY <2>1 DEF Parsed
<1> HIDE DEF q
<1>16. resolveTargets(q) \in Seq(InstructionSet) /\ SameTexts(q, resolveTargets(q))
  BY <1>15, ResolveText
<1> QED  BY <1>12, <1>14, <1>15, <1>16, SameTextsTogether

\* The format of each instruction of the input is that of the instruction in its place.
LEMMA FormatKept ==
    ASSUME NEW p \in Seq(InstructionSet), NEW q \in Seq(InstructionSet),
           NEW f, Tracks(f, p, q), AllInFormat(p)
    PROVE  AllInFormat(q)
<1> SUFFICES ASSUME NEW k \in 1 .. Len(q) PROVE InFormat(q[k])
  BY DEF AllInFormat
<1>1. q[k] \in InstructionSet
  OBVIOUS
<1>2. CASE Text(q[k]) = NopInstruction
  <2>1. NopInstruction \in InstructionSet /\ Text(NopInstruction) = Text(q[k])
    BY <1>2, NopType, NopText
  <2>2. InFormat(NopInstruction)
    BY DEF NopInstruction, InFormat
  <2> QED  BY <1>1, <2>1, <2>2, SameTextSameFormat
<1>3. ASSUME NEW n \in 1 .. Len(p), k = f[n] PROVE InFormat(q[k])
  <2>1. p[n] \in InstructionSet /\ Text(p[n]) = Text(q[k]) /\ InFormat(p[n])
    BY <1>3 DEF Tracks, AllInFormat
  <2> QED  BY <1>1, <2>1, SameTextSameFormat
<1> QED  BY <1>2, <1>3 DEF Tracks

\* A nop at the end goes to no label there, when the last instruction is none alone.
LEMMA AppendedTogether ==
    ASSUME NEW p \in Seq(InstructionSet), LabelsTogether(p),
           Len(p) # 0 => ~p[Len(p)].label_only
    PROVE  LabelsTogether(Append(p, NopInstruction))
<1> DEFINE q == Append(p, NopInstruction)
           N == Len(p)
<1>1. /\ N \in Nat /\ Len(q) = N + 1 /\ q[N + 1] = NopInstruction
      /\ \A k \in 1 .. N : q[k] = p[k]
  BY NopType, OneMore
<1> HIDE DEF q
<1> SUFFICES ASSUME NEW n \in 1 .. Len(q), q[n].label_only
             PROVE  hasLabel(q[n]) /\ (n # Len(q) => hasLabel(q[n + 1]))
  BY DEF LabelsTogether, q
<1>2. ~NopInstruction.label_only
  BY DEF NopInstruction
<1>3. n # N + 1
  BY <1>1, <1>2
<1>4. n \in 1 .. N
  BY <1>1, <1>3
<1>5. q[n] = p[n] /\ p[n].label_only
  BY <1>1, <1>4
<1>6. hasLabel(p[n]) /\ (n # N => hasLabel(p[n + 1]))
  BY <1>4, <1>5 DEF LabelsTogether
<1>7. n # N
  BY <1>1, <1>4, <1>5
<1>8. n + 1 \in 1 .. N
  BY <1>1, <1>4, <1>7
<1> QED  BY <1>1, <1>5, <1>6, <1>7, <1>8

\* An instruction without a label leaves no label behind it, and comes behind none.
LEMMA MoveTogether ==
    ASSUME NEW p \in Seq(InstructionSet), LabelsTogether(p),
           NEW b \in 1 .. Len(p), NEW c \in 1 .. b - 1,
           ~hasLabel(p[c]), ~p[b].label_only
    PROVE  LabelsTogether(Move(p, c, b))
<1> DEFINE q == Move(p, c, b)
           N == Len(p)
<1>1. N \in Nat /\ b \in Nat /\ c \in Nat /\ 1 <= c /\ c < b /\ b <= N
  OBVIOUS
<1>2. /\ Len(q) = N
      /\ \A k \in 1 .. c - 1 : q[k] = p[k]
      /\ \A k \in c .. b - 1 : q[k] = p[k + 1]
      /\ q[b] = p[c]
      /\ \A k \in b + 1 .. N : q[k] = p[k]
  BY MoveShape
<1> HIDE DEF q
<1>3. \A n \in 1 .. N :
         p[n].label_only => hasLabel(p[n]) /\ (n # N => hasLabel(p[n + 1]))
  BY DEF LabelsTogether
<1> HIDE DEF N
<1> SUFFICES ASSUME NEW n \in 1 .. N, q[n].label_only
             PROVE  hasLabel(q[n]) /\ (n # N => hasLabel(q[n + 1]))
  BY <1>2 DEF LabelsTogether, q
<1>4. ~p[c].label_only
  BY <1>1, <1>3
<1>5. CASE n \in 1 .. c - 1
  <2>1. q[n] = p[n] /\ n + 1 \in 1 .. c /\ n # N
    BY <1>1, <1>2, <1>5
  <2>2. hasLabel(p[n]) /\ hasLabel(p[n + 1])
    BY <1>3, <2>1
  <2>3. n + 1 # c
    BY <2>2
  <2>4. n + 1 \in 1 .. c - 1
    BY <1>1, <2>1, <2>3
  <2>5. q[n + 1] = p[n + 1]
    BY <1>2, <2>4
  <2> QED  BY <2>1, <2>2, <2>5
<1>6. CASE n \in c .. b - 1
  <2>1. q[n] = p[n + 1] /\ p[n + 1].label_only
    BY <1>2, <1>6
  <2>2. n + 1 # b
    BY <2>1
  <2>3. n + 1 \in 1 .. N /\ n + 1 \in c .. b - 1 /\ n + 1 # N
    BY <1>1, <1>6, <2>2
  <2>4. hasLabel(p[n + 1]) /\ hasLabel(p[n + 1 + 1])
    BY <1>3, <2>1, <2>3
  <2>5. q[n + 1] = p[n + 1 + 1]
    BY <1>2, <2>3
  <2> QED  BY <2>1, <2>4, <2>5
<1>7. CASE n = b
  BY <1>2, <1>4, <1>7
<1>8. CASE n \in b + 1 .. N
  <2>1. q[n] = p[n] /\ p[n].label_only
    BY <1>2, <1>8
  <2>2. hasLabel(p[n]) /\ (n # N => hasLabel(p[n + 1]))
    BY <1>3, <2>1
  <2>3. n # N => n + 1 \in b + 1 .. N
    BY <1>1, <1>8
  <2>4. n # N => q[n + 1] = p[n + 1]
    BY <1>2, <2>3
  <2> QED  BY <2>1, <2>2, <2>4
<1>9. n \in 1 .. c - 1 \/ n \in c .. b - 1 \/ n = b \/ n \in b + 1 .. N
  BY <1>1
<1> QED  BY <1>5, <1>6, <1>7, <1>8, <1>9

\* What is true all along of the program that schedule_tool has.
TogetherInv == PlaceInv /\ AllInFormat(input) /\ LabelsTogether(instructions)

\* A control instruction is no label alone.
LEMMA ControlNotAlone ==
    ASSUME NEW x, InFormat(x), isControl(x)
    PROVE  ~x.label_only
BY DEF InFormat, isControl, isBranch, isJump

\* The vector with a slot has its labels together and its instructions in format.
LEMMA FreeSlotTogether ==
    ASSUME TogetherInv, SlotIsFree
    PROVE  LabelsTogether(WithSlot) /\ AllInFormat(WithSlot)
<1>1. /\ PlaceInv /\ AllInFormat(input) /\ LabelsTogether(instructions)
      /\ i <= Len(instructions) /\ isControl(instructions[i])
  BY DEF TogetherInv, SlotIsFree, AtControl
<1>2. /\ input \in Seq(InstructionSet) /\ instructions \in Seq(InstructionSet)
      /\ i \in 1 .. Len(instructions) /\ WithSlot \in Seq(InstructionSet)
  BY <1>1, PlaceFacts, AtPosition, FreeSlotFacts
<1>3. PICK f : Tracks(f, input, WithSlot) /\ Holds(f, input, WithSlot, i)
  BY <1>1, FreeSlotFacts
<1>4. AllInFormat(WithSlot)
  BY <1>1, <1>2, <1>3, FormatKept
<1>5. PICK g : Tracks(g, input, instructions)
  BY <1>1, PlaceFacts
<1>6. AllInFormat(instructions)
  BY <1>1, <1>2, <1>5, FormatKept
<1>7. ~instructions[i].label_only
  <2>1. InFormat(instructions[i])
    BY <1>2, <1>6 DEF AllInFormat
  <2> QED  BY <1>1, <2>1, ControlNotAlone
<1>8. LabelsTogether(WithSlot)
  <2>1. CASE i = Len(instructions)
    <3>1. WithSlot = Append(instructions, NopInstruction)
      BY <2>1 DEF WithSlot
    <3>2. Len(instructions) # 0 => ~instructions[Len(instructions)].label_only
      BY <1>7, <2>1
    <3> QED  BY <1>1, <1>2, <3>1, <3>2, AppendedTogether
  <2>2. CASE i # Len(instructions)
    BY <1>1, <2>2 DEF WithSlot
  <2> QED  BY <2>1, <2>2
<1> QED  BY <1>4, <1>8

\* No step of the pass puts an instruction without a label behind a label that stands alone.
LEMMA TogetherKept == TogetherInv /\ [Next]_vars => TogetherInv'
<1> SUFFICES ASSUME TogetherInv, [Next]_vars PROVE TogetherInv'
  OBVIOUS
<1>1. PlaceInv' /\ PlaceInv
  BY PlaceInductive DEF TogetherInv
<1>2. AllInFormat(input) /\ LabelsTogether(instructions)
  BY DEF TogetherInv
<1>3. /\ input \in Seq(InstructionSet) /\ instructions \in Seq(InstructionSet) /\ i \in Nat
  BY <1>1, PlaceFacts
<1>4. input' = input
  BY DEF Next, Skip, KeepManual, UseNop, LeaveNop, FillAutomatically, Fill, Return, vars
<1>5. LabelsTogether(instructions')
  <2>1. CASE Skip \/ UNCHANGED vars
    BY <1>2, <2>1 DEF Skip, vars
  <2>2. CASE KeepManual
    <3> DEFINE q == [instructions EXCEPT ![i + 1].manually_filled = TRUE]
    <3>1. i < Len(instructions) /\ instructions' = q
      BY <2>2 DEF KeepManual
    <3>2. i + 1 \in 1 .. Len(instructions)
      BY <1>3, <3>1
    <3>3. q \in Seq(InstructionSet) /\ SameTexts(instructions, q)
      BY <1>3, <3>2, MarkText
    <3> HIDE DEF q
    <3> QED  BY <1>2, <1>3, <3>1, <3>3, SameTextsTogether
  <2>3. CASE FillAutomatically
    <3> DEFINE c == Nearest(Candidates(WithSlot, i))
    <3>1. /\ SlotIsFree /\ Candidates(WithSlot, i) # {}
          /\ instructions' = Move(WithSlot, c, i)
      BY <2>3 DEF FillAutomatically, Fill
    <3>2. /\ WithSlot \in Seq(InstructionSet) /\ i \in 1 .. Len(WithSlot)
          /\ isControl(WithSlot[i])
      BY <1>1, <3>1, FreeSlotFacts
    <3>3. LabelsTogether(WithSlot) /\ AllInFormat(WithSlot)
      BY <3>1, FreeSlotTogether
    <3>4. c \in Candidates(WithSlot, i)
      BY <3>1, <3>2, NearestIsCandidate
    <3> HIDE DEF c
    <3>5. c \in 1 .. i - 1 /\ ~hasLabel(WithSlot[c])
      BY <3>4 DEF Candidates
    <3>6. ~WithSlot[i].label_only
      <4>1. InFormat(WithSlot[i])
        BY <3>2, <3>3 DEF AllInFormat
      <4> QED  BY <3>2, <4>1, ControlNotAlone
    <3> QED  BY <3>1, <3>2, <3>3, <3>5, <3>6, MoveTogether
  <2>4. CASE UseNop
    <3>1. SlotIsFree
      BY <2>4 DEF UseNop, LeaveNop
    <3>2. LabelsTogether(WithSlot) /\ instructions' = WithSlot
      BY <1>1, <2>4, <3>1, FreeSlotTogether, UseNopLeavesSlot
    <3> QED  BY <3>2
  <2>5. CASE Return
    <3>1. instructions' = resolveTargets(instructions)
      BY <2>5 DEF Return
    <3>2. /\ resolveTargets(instructions) \in Seq(InstructionSet)
          /\ SameTexts(instructions, resolveTargets(instructions))
      BY <1>3, ResolveText
    <3> QED  BY <1>2, <1>3, <3>1, <3>2, SameTextsTogether
  <2> QED  BY <2>1, <2>2, <2>3, <2>4, <2>5 DEF Next
<1>6. AllInFormat(input')
  BY <1>2, <1>4
<1> QED  BY <1>1, <1>5, <1>6 DEF TogetherInv

\* A remark on a line stays until the end of the file.
LEMMA RemarkStays ==
    ASSUME NEW file, IsFile(file), NEW j \in 1 .. Len(file),
           IsInstruction(file[j]), Diagnoses(file[j])
    PROVE  parseAssemblyString(file).diagnosed
<1> DEFINE N == Len(file)
           r == Readings(file)
           P == {k \in 0 .. N : k < j \/ r[k].diagnosed}
<1>1. N \in Nat /\ j \in 1 .. N /\ \A k \in 1 .. N : WellNamed(file[k])
  BY DEF IsFile
<1>2. /\ r[0] = StartReading
      /\ \A k \in 1 .. N : r[k] = ReadLine(r[k - 1], file[k])
  BY ReadingFacts DEF IsFile
<1>3. \A k \in 0 .. N : r[k] \in ReadingSet
  BY ReadingType
<1> HIDE DEF r, N
<1>4. ASSUME NEW s \in ReadingSet, NEW line
      PROVE  /\ s.diagnosed => ReadLine(s, line).diagnosed
             /\ IsInstruction(line) /\ Diagnoses(line) => ReadLine(s, line).diagnosed
  <2>1. CASE IsInstruction(line)
    <3>1. ~IsBlank(line) /\ ~IsLabel(line)
      BY <2>1 DEF IsInstruction
    <3> DEFINE w == s.instructions \o WithLabels(s.pending_labels, ReadInstruction(line))
               remarked == s.diagnosed \/ Diagnoses(line)
    <3>2. ReadLine(s, line)
            = [pending_labels |-> <<>>, instructions |-> w, diagnosed |-> remarked]
      BY <3>1 DEF ReadLine
    <3> HIDE DEF w, remarked
    <3>3. ReadLine(s, line).diagnosed = remarked
      BY <3>2
    <3> QED  BY <3>3, Zenon DEF remarked
  <2>2. CASE ~IsInstruction(line)
    <3>3. ~(IsBlank(line) /\ IsLabel(line)) /\ (IsBlank(line) \/ IsLabel(line))
      BY <2>2 DEF IsBlank, IsLabel, IsInstruction
    <3>4. IsBlank(line) => ReadLine(s, line) = s
      BY <3>3 DEF ReadLine
    <3>5. IsLabel(line) =>
            ReadLine(s, line) = [s EXCEPT !.pending_labels = Append(@, line.label)]
      BY <3>3 DEF ReadLine
    <3>1. \/ ReadLine(s, line) = s
          \/ ReadLine(s, line) = [s EXCEPT !.pending_labels = Append(@, line.label)]
      BY <3>3, <3>4, <3>5
    <3>2. ReadLine(s, line).diagnosed = s.diagnosed
      BY <3>1 DEF ReadingSet
    <3> QED  BY <2>2, <3>2
  <2> QED  BY <2>1, <2>2
<1>5. 0 \in P
  BY <1>1
<1>6. ASSUME NEW k \in 0 .. N, k < N, k \in P PROVE k + 1 \in P
  <2>1. k + 1 \in 1 .. N /\ (k + 1) - 1 = k /\ k + 1 \in 0 .. N
    BY <1>1, <1>6
  <2>2. r[k + 1] = ReadLine(r[k], file[k + 1]) /\ r[k] \in ReadingSet
    BY <1>2, <1>3, <2>1
  <2>3. k < j \/ r[k].diagnosed
    BY <1>6
  <2>4. CASE r[k].diagnosed
    <3>1. r[k + 1].diagnosed
      BY <1>4, <2>2, <2>4
    <3> QED  BY <2>1, <3>1
  <2>5. CASE k < j
    <3>1. k + 1 < j \/ k + 1 = j
      BY <1>1, <2>5
    <3>2. ASSUME k + 1 = j PROVE r[k + 1].diagnosed
      BY <1>4, <2>2, <3>2
    <3> QED  BY <2>1, <3>1, <3>2
  <2> QED  BY <2>3, <2>4, <2>5
<1> HIDE DEF P
<1>7. \A k \in 0 .. N : k \in P
  BY <1>1, <1>5, <1>6, IntervalInduction
<1>8. N \in 0 .. N /\ ~(N < j)
  BY <1>1
<1>9. r[N].diagnosed
  BY <1>7, <1>8 DEF P
<1> QED  BY <1>9 DEF parseAssemblyString, r, N

\* A program with a label in front of an instruction, or nothing for its last operand, is
\* not read back without a remark.
LEMMA DeviationRemarked ==
    ASSUME NEW p \in Seq(InstructionSet), AsNops(p), AllInFormat(p), NEW n \in 1 .. Len(p),
           InlineLabel(p[n]) \/ (LastOperandEmpty(p[n]) /\ ~p[n].label_only)
    PROVE  parseAssemblyString(Printed(p)).diagnosed
<1> DEFINE file == Printed(p)
<1>1. IsFile(file)
  BY PrintedIsFile
<1>2. n \in 1 .. Len(file) /\ file[n] = toString(p[n])
  BY DEF Printed
<1>3. p[n] \in InstructionSet /\ InFormat(p[n]) /\ p[n].opcode # "label_only"
  BY DEF AllInFormat, AsNops
<1>4. ~p[n].label_only /\ (hasLabel(p[n]) \/ LastOperandEmpty(p[n]))
  BY DEF InlineLabel
<1>5. Diagnoses(toString(p[n])) /\ IsInstruction(toString(p[n]))
  BY <1>3, <1>4, LineDiagnosed, PrintedLine
<1> HIDE DEF file
<1> QED  BY <1>1, <1>2, <1>5, RemarkStays DEF file

\* What has been read behind line k is the text of the first k instructions.
IsReadUpTo(s, p, k) ==
    /\ s.instructions \in Seq(Parsed) /\ s.pending_labels \in Seq(Labels)
    /\ Len(s.instructions) + Len(s.pending_labels) = k
    /\ \A n \in 1 .. Len(s.instructions) : s.instructions[n] = Text(p[n])
    /\ \A n \in 1 .. Len(s.pending_labels) :
          /\ p[Len(s.instructions) + n].label_only
          /\ Text(p[Len(s.instructions) + n]) = LabelInstruction(s.pending_labels[n])

\* One line more.
LEMMA ReadOneMore ==
    ASSUME NEW p \in Seq(InstructionSet), AsNops(p), AllInFormat(p), LabelsTogether(p),
           \A n \in 1 .. Len(p) : ~InlineLabel(p[n]) /\ ~LastOperandEmpty(p[n]),
           NEW s \in ReadingSet, NEW k \in 0 .. Len(p), k < Len(p), IsReadUpTo(s, p, k)
    PROVE  IsReadUpTo(ReadLine(s, toString(p[k + 1])), p, k + 1)
<1> DEFINE x == p[k + 1]
           line == toString(x)
           t == ReadLine(s, line)
           v == s.instructions
           d == s.pending_labels
           read == ReadInstruction(line)
<1>1. /\ Len(p) \in Nat /\ k \in Nat /\ k + 1 \in 1 .. Len(p)
      /\ x \in InstructionSet /\ InFormat(x) /\ x.opcode # "label_only"
  BY DEF AllInFormat, AsNops
<1>2. ~InlineLabel(x) /\ ~LastOperandEmpty(x)
  BY <1>1
<1>3. v \in Seq(Parsed) /\ d \in Seq(Labels) /\ Len(v) \in Nat /\ Len(d) \in Nat
  BY DEF IsReadUpTo
<1>4. /\ Len(v) + Len(d) = k
      /\ \A n \in 1 .. Len(v) : v[n] = Text(p[n])
      /\ \A n \in 1 .. Len(d) : /\ p[Len(v) + n].label_only
                                /\ Text(p[Len(v) + n]) = LabelInstruction(d[n])
  BY DEF IsReadUpTo
<1>5. WellNamed(line)
  BY <1>1, PrintedWellNamed
<1>6. /\ IsLabel(line) =>
            line.label \in Labels /\ t.pending_labels = Append(d, line.label) /\ t.instructions = v
      /\ IsInstruction(line) => t.pending_labels = <<>> /\ t.instructions = v \o WithLabels(d, read)
      /\ t \in ReadingSet
  BY <1>5, ReadLineFacts
<1>7. x.label_only => hasLabel(x)
  BY <1>1 DEF LabelsTogether
<1>8. /\ x.label_only => IsLabel(line) /\ line.label = x.label
      /\ ~x.label_only => IsInstruction(line)
  BY <1>1, <1>7, PrintedLine
<1>9. t.instructions \in Seq(Parsed) /\ t.pending_labels \in Seq(Labels)
  BY <1>6 DEF ReadingSet
<1>10. x.label_only => Text(x) = LabelInstruction(x.label)
  BY <1>1, LabelText
<1>11. ~x.label_only => read = Text(x)
  <2>1. ~x.label_only => x.label = ""
    BY <1>2 DEF InlineLabel, hasLabel
  <2> QED  BY <1>1, <1>2, <2>1, LineReadBack
<1>12. ~x.label_only => d = <<>>
  <2> SUFFICES ASSUME ~x.label_only, d # <<>> PROVE FALSE
    OBVIOUS
  <2>1. Len(d) \in 1 .. Len(d) /\ Len(d) # 0
    BY <1>3
  <2>2. p[Len(v) + Len(d)].label_only
    BY <1>4, <2>1
  <2>3. p[k].label_only
    BY <1>4, <2>2
  <2>4. k \in 1 .. Len(p) /\ k # Len(p)
    <3>1. Len(v) + Len(d) = k /\ Len(v) \in Nat /\ Len(d) \in Nat /\ Len(d) # 0
      BY <1>3, <1>4, <2>1
    <3> HIDE DEF v, d
    <3> QED  BY <1>1, <3>1
  <2>5. hasLabel(x)
    BY <2>3, <2>4 DEF LabelsTogether
  <2> QED  BY <1>2, <2>5 DEF InlineLabel
<1> HIDE DEF x, line, t, read
<1>13. CASE x.label_only
  <2>1. /\ t.pending_labels = Append(d, x.label) /\ t.instructions = v /\ x.label \in Labels
    BY <1>6, <1>8, <1>13
  <2>2. /\ Len(Append(d, x.label)) = Len(d) + 1 /\ Append(d, x.label)[Len(d) + 1] = x.label
        /\ \A n \in 1 .. Len(d) : Append(d, x.label)[n] = d[n]
    BY <1>3, <2>1, OneMore
  <2> DEFINE e == Append(d, x.label)
  <2> HIDE DEF e
  <2>3. \A n \in 1 .. Len(e) : /\ p[Len(v) + n].label_only
                               /\ Text(p[Len(v) + n]) = LabelInstruction(e[n])
    <3> SUFFICES ASSUME NEW n \in 1 .. Len(e)
                 PROVE  /\ p[Len(v) + n].label_only
                        /\ Text(p[Len(v) + n]) = LabelInstruction(e[n])
      OBVIOUS
    <3>1. CASE n \in 1 .. Len(d)
      BY <1>4, <2>2, <3>1 DEF e
    <3>2. CASE n = Len(d) + 1
      <4>1. Len(v) + n = k + 1
        <5>1. Len(v) \in Nat /\ Len(d) \in Nat /\ Len(v) + Len(d) = k
          BY <1>3, <1>4
        <5> HIDE DEF v, d
        <5> QED  BY <3>2, <5>1
      <4>3. e[n] = x.label
        BY <2>2, <3>2 DEF e
      <4>2. p[Len(v) + n] = x
        BY <4>1 DEF x
      <4> QED  BY <1>10, <1>13, <4>2, <4>3
    <3>3. n \in 1 .. Len(d) \/ n = Len(d) + 1
      BY <1>3, <2>2 DEF e
    <3> QED  BY <3>1, <3>2, <3>3
  <2>4. t.pending_labels = e /\ t.instructions = v
    BY <2>1 DEF e
  <2>5. Len(v) + Len(e) = k + 1
    <3>1. Len(v) \in Nat /\ Len(d) \in Nat /\ Len(v) + Len(d) = k /\ Len(e) = Len(d) + 1
      BY <1>3, <1>4, <2>2 DEF e
    <3> HIDE DEF v, d
    <3> QED  BY <3>1
  <2>6. e \in Seq(Labels)
    BY <1>9, <2>4
  <2> HIDE DEF v
  <2>7. IsReadUpTo(t, p, k + 1)
    BY <1>3, <1>4, <2>3, <2>4, <2>5, <2>6 DEF IsReadUpTo
  <2> QED  BY <2>7 DEF t, line, x
<1>14. CASE ~x.label_only
  <2>1. d = <<>> /\ t.pending_labels = <<>> /\ t.instructions = v \o WithLabels(d, read)
    BY <1>6, <1>8, <1>12, <1>14
  <2>2. WithLabels(d, read) = <<read>>
    BY <2>1, Zenon DEF WithLabels
  <2>3. read \in Parsed
    <3>1. x.label_only = FALSE
      BY <1>1, <1>14 DEF InstructionSet
    <3>2. Unlabelled(read) /\ InFormat(read)
      BY <1>5, ReadInstructionType, ReadInstructionFormat DEF read
    <3>3. read \in InstructionSet
      BY <3>2 DEF Unlabelled
    <3>4. read.opcode = x.opcode
      BY <1>1, <1>11, <1>14, TextFields
    <3> QED  BY <1>1, <3>2, <3>3, <3>4 DEF Parsed
  <2> DEFINE u == t.instructions
  <2>4. u = Append(v, read)
    <3>1. u = v \o <<read>>
      BY <2>1, <2>2
    <3> QED  BY <1>3, <2>3, <3>1
  <2>5. /\ Len(u) = Len(v) + 1 /\ u[Len(v) + 1] = read
        /\ \A n \in 1 .. Len(v) : u[n] = v[n]
    BY <1>3, <2>3, <2>4, OneMore
  <2>6. Len(v) = k /\ Len(u) = k + 1
    <3>1. Len(d) = 0
      BY <2>1
    <3> QED  BY <1>3, <1>4, <2>5, <3>1
  <2> HIDE DEF u
  <2>7. \A n \in 1 .. Len(u) : u[n] = Text(p[n])
    <3> SUFFICES ASSUME NEW n \in 1 .. Len(u) PROVE u[n] = Text(p[n])
      OBVIOUS
    <3>1. CASE n \in 1 .. Len(v)
      BY <1>4, <2>5, <3>1
    <3>2. CASE n = k + 1
      BY <1>11, <1>14, <2>5, <2>6, <3>2 DEF x
    <3>3. n \in 1 .. Len(v) \/ n = k + 1
      BY <1>1, <2>6
    <3> QED  BY <3>1, <3>2, <3>3
  <2>8. t.instructions = u /\ t.pending_labels = <<>> /\ u \in Seq(Parsed) /\ <<>> \in Seq(Labels)
    BY <1>9, <2>1 DEF u
  <2>9. Len(t.pending_labels) = 0 /\ \A n \in 1 .. Len(t.pending_labels) : FALSE
    BY <2>8
  <2>10. Len(u) + Len(t.pending_labels) = k + 1
    BY <1>1, <2>6, <2>9
  <2>11. IsReadUpTo(t, p, k + 1)
    BY <2>7, <2>8, <2>9, <2>10 DEF IsReadUpTo
  <2> QED  BY <2>11 DEF t, line, x
<1> QED  BY <1>13, <1>14

\* A program without those two reads back as it is.
LEMMA ProgramReadsBack ==
    ASSUME NEW p \in Seq(InstructionSet), AsNops(p), AllInFormat(p), LabelsTogether(p),
           \A n \in 1 .. Len(p) : ~InlineLabel(p[n]) /\ ~LastOperandEmpty(p[n])
    PROVE  Texts(parseAssemblyString(Printed(p)).instructions) = Texts(p)
<1> DEFINE file == Printed(p)
           N == Len(p)
           r == Readings(file)
           s == r[N]
           v == LabelInstructions(s.pending_labels)
           q == s.instructions \o v
           again == resolveTargets(q)
           P == {k \in 0 .. N : IsReadUpTo(r[k], p, k)}
<1>1. IsFile(file) /\ N \in Nat /\ Len(file) = N
      /\ \A n \in 1 .. N : file[n] = toString(p[n]) /\ p[n] \in InstructionSet
  BY PrintedIsFile DEF Printed
<1>2. /\ r[0] = StartReading
      /\ \A k \in 1 .. N : r[k] = ReadLine(r[k - 1], file[k])
  BY <1>1, ReadingFacts DEF IsFile
<1>3. \A k \in 0 .. N : r[k] \in ReadingSet
  BY <1>1, ReadingType
<1>4. parseAssemblyString(file).instructions = again
  BY <1>1 DEF parseAssemblyString
<1> HIDE DEF r, N, file
<1>5. 0 \in P
  <2>1. IsReadUpTo(StartReading, p, 0)
    BY DEF IsReadUpTo, StartReading
  <2> QED  BY <1>1, <1>2, <2>1
<1>6. ASSUME NEW k \in 0 .. N, k < N, k \in P PROVE k + 1 \in P
  <2>1. k + 1 \in 1 .. N /\ (k + 1) - 1 = k /\ k + 1 \in 0 .. N
    BY <1>1, <1>6
  <2>2. r[k + 1] = ReadLine(r[k], toString(p[k + 1])) /\ r[k] \in ReadingSet
    BY <1>1, <1>2, <1>3, <2>1
  <2>3. IsReadUpTo(ReadLine(r[k], toString(p[k + 1])), p, k + 1)
    BY <1>6, <2>2, ReadOneMore DEF N
  <2> QED  BY <2>1, <2>2, <2>3
<1> HIDE DEF P
<1>7. \A k \in 0 .. N : k \in P
  BY <1>1, <1>5, <1>6, IntervalInduction
<1>8. N \in 0 .. N
  BY <1>1
<1>9. IsReadUpTo(s, p, N)
  BY <1>7, <1>8 DEF P
<1> HIDE DEF s
<1>10. /\ s.instructions \in Seq(Parsed) /\ s.pending_labels \in Seq(Labels)
       /\ Len(s.instructions) + Len(s.pending_labels) = N
       /\ \A n \in 1 .. Len(s.instructions) : s.instructions[n] = Text(p[n])
       /\ \A n \in 1 .. Len(s.pending_labels) :
             Text(p[Len(s.instructions) + n]) = LabelInstruction(s.pending_labels[n])
  BY <1>9 DEF IsReadUpTo
<1>11. v \in Seq(Parsed) /\ Len(v) = Len(s.pending_labels)
  BY <1>10, LabelInstructionsFacts
<1>12. \A n \in 1 .. Len(v) : v[n] = LabelInstruction(s.pending_labels[n])
  <2>1. DOMAIN s.pending_labels = 1 .. Len(v)
    BY <1>10, <1>11
  <2> QED  BY <2>1 DEF LabelInstructions
<1> HIDE DEF v
<1>13. q = s.instructions \o v
  OBVIOUS
<1> HIDE DEF q
<1>14. /\ q \in Seq(Parsed) /\ Len(q) = Len(s.instructions) + Len(v)
       /\ Len(s.instructions) \in Nat /\ Len(v) \in Nat
       /\ \A n \in 1 .. Len(s.instructions) : q[n] = s.instructions[n]
       /\ \A n \in 1 .. Len(v) : q[Len(s.instructions) + n] = v[n]
  <2>1. s.instructions \in Seq(Parsed) /\ v \in Seq(Parsed)
    BY <1>10, <1>11
  <2> QED  BY <1>13, <2>1, Joined
<1>15. q \in Seq(InstructionSet)
  BY <1>14 DEF Parsed
<1>16. \A n \in 1 .. N : q[n] = Text(p[n])
  <2> SUFFICES ASSUME NEW n \in 1 .. N PROVE q[n] = Text(p[n])
    OBVIOUS
  <2> DEFINE L == Len(s.instructions)
             m == n - L
  <2>1. n \in 1 .. L \/ (m \in 1 .. Len(v) /\ L + m = n)
    <3>1. L \in Nat /\ Len(v) \in Nat /\ L + Len(v) = N
      BY <1>10, <1>11, <1>14
    <3>2. n \in Nat /\ 1 <= n /\ n <= N
      BY <1>1
    <3> HIDE DEF L
    <3> QED  BY <3>1, <3>2
  <2>2. CASE n \in 1 .. L
    BY <1>10, <1>14, <2>2
  <2> HIDE DEF m, L
  <2>3. CASE m \in 1 .. Len(v) /\ L + m = n
    <3>1. q[L + m] = v[m] /\ v[m] = LabelInstruction(s.pending_labels[m])
      BY <1>12, <1>14, <2>3 DEF L
    <3>2. Text(p[L + m]) = LabelInstruction(s.pending_labels[m])
      BY <1>10, <1>11, <2>3 DEF L
    <3> QED  BY <2>3, <3>1, <3>2
  <2> QED  BY <2>1, <2>2, <2>3
<1>17. again \in Seq(InstructionSet) /\ SameTexts(q, again)
  BY <1>15, ResolveText
<1> HIDE DEF again
<1>18. Len(q) = N /\ Len(again) = N
  BY <1>10, <1>11, <1>14, <1>17 DEF SameTexts
<1>19. DOMAIN again = 1 .. N /\ DOMAIN p = 1 .. N
  BY <1>17, <1>18 DEF N
<1>20. \A n \in 1 .. N : Text(again[n]) = Text(p[n])
  <2> SUFFICES ASSUME NEW n \in 1 .. N PROVE Text(again[n]) = Text(p[n])
    OBVIOUS
  <2>1. Text(again[n]) = Text(q[n]) /\ q[n] = Text(p[n])
    BY <1>16, <1>17, <1>18 DEF SameTexts
  <2>2. Text(Text(p[n])) = Text(p[n])
    BY <1>1, TextFields
  <2> QED  BY <2>1, <2>2
<1>21. Texts(again) = Texts(p)
  BY <1>19, <1>20 DEF Texts
<1> QED  BY <1>4, <1>21 DEF file

\* The inductive invariant gives the property.
LEMMA TogetherReadsBack == TogetherInv => PrintedIsReadBack
<1> SUFFICES ASSUME TogetherInv PROVE PrintedIsReadBack
  OBVIOUS
<1> DEFINE again == parseAssemblyString(Printed(instructions))
           deviates(n) == InlineLabel(instructions[n]) \/ LastOperandEmpty(instructions[n])
<1>1. PlaceInv /\ AllInFormat(input) /\ LabelsTogether(instructions)
  BY DEF TogetherInv
<1>2. /\ input \in Seq(InstructionSet) /\ AsNops(input) /\ instructions \in Seq(InstructionSet)
  BY <1>1, PlaceFacts
<1>3. PICK f : Tracks(f, input, instructions)
  BY <1>1, PlaceFacts
<1>4. AsNops(instructions) /\ AllInFormat(instructions)
  BY <1>1, <1>2, <1>3, NopsOnly, FormatKept
<1>5. DOMAIN instructions = 1 .. Len(instructions)
  BY <1>2
<1>6. ASSUME NEW n \in 1 .. Len(instructions), deviates(n) PROVE again.diagnosed
  <2>1. instructions[n] \in InstructionSet /\ InFormat(instructions[n])
    BY <1>2, <1>4 DEF AllInFormat
  <2>2. LastOperandEmpty(instructions[n]) => ~instructions[n].label_only
    <3>1. instructions[n].label_only => instructions[n].opcode = "nop"
      BY <2>1 DEF InFormat
    <3>2. instructions[n].opcode = "nop" => PrintedOperands(instructions[n]) = <<>>
      BY DEF PrintedOperands, RdArithmetic
    <3> QED  BY <3>1, <3>2 DEF LastOperandEmpty, EndsEmpty
  <2> QED  BY <1>2, <1>4, <1>6, <2>2, DeviationRemarked
<1>7. ASSUME \A n \in 1 .. Len(instructions) : ~deviates(n)
      PROVE  Texts(again.instructions) = Texts(instructions)
  BY <1>1, <1>2, <1>4, <1>7, ProgramReadsBack
<1> HIDE DEF again
<1>8. CASE \E n \in 1 .. Len(instructions) : deviates(n)
  BY <1>5, <1>6, <1>8 DEF PrintedIsReadBack, again
<1>9. CASE ~\E n \in 1 .. Len(instructions) : deviates(n)
  BY <1>5, <1>7, <1>9 DEF PrintedIsReadBack, again
<1> QED  BY <1>8, <1>9

\* instruction.cpp:154: whatever file schedule_tool is given, what it prints reads back as
\* the program it has, or, where the syntax that is printed is not the one that is read,
\* not without a remark.
THEOREM AlwaysReadBack == ChainSpec => []PrintedIsReadBack
<1>1. ChainInit => TogetherInv
  <2> SUFFICES ASSUME ChainInit PROVE TogetherInv
    OBVIOUS
  <2>1. IsFile(source) /\ Start(parseAssemblyString(source).instructions)
    BY SourcesAssumption DEF ChainInit, IsFile
  <2>2. AllInFormat(input) /\ LabelsTogether(instructions)
    BY <2>1, ParsedProgram, ParsedTogether DEF Start
  <2>3. PlaceInv
    BY ChainStarts, PlaceInductive
  <2> QED  BY <2>2, <2>3 DEF TogetherInv
<1>2. TogetherInv /\ [ChainNext]_chain_vars => TogetherInv'
  BY ChainSteps, TogetherKept
<1> QED  BY <1>1, <1>2, TogetherReadsBack, PTL DEF ChainSpec
=============================================================================
