---------------------------- MODULE MCToolChain -----------------------------
(***************************************************************************)
(* Small sources for ToolChain.                                            *)
(***************************************************************************)
EXTENDS ToolChain

Word(opcode, operands) == Line("", opcode, operands)
Label(label) == Line(label, "", <<>>)

Li == Word("li", <<Name("a"), Number(1)>>)
Add == Word("add", <<Name("b"), Name("a"), Name("b")>>)
Sub == Word("sub", <<Name("c"), Name("c"), Name("b")>>)
Lw == Word("lw", <<Name("b"), Memory(1, "a")>>)
Sw == Word("sw", <<Name("a"), Memory(1, "b")>>)
Beq == Word("beq", <<Name("a"), Name("c"), Name("L")>>)
J == Word("j", <<Name("L")>>)
Nop == Word("nop", <<>>)

\* The lines in p, with label L in front of line n, or behind the last one.
Labelled(p, n) == SubSeq(p, 1, n - 1) \o <<Label("L")>> \o SubSeq(p, n, Len(p))

\* Programs of n words.  A nop in front makes no difference.
Words(n, alphabet) == {p \in [1 .. n -> alphabet] : p[1] # Nop}

\* Every short program, with and without the label, or with the label twice.
FourWords ==
    LET programs == Words(4, {Li, Add, Lw, Sw, Beq, Nop})
    IN  programs \cup {Labelled(p, n) : p \in programs, n \in 1 .. 4}
                 \cup {Labelled(Labelled(p, 4), 2) : p \in programs}

\* Longer ones, in which the slots of two branches compete for instructions.
FiveWords ==
    LET programs == Words(5, {Li, Sub, Beq, J, Nop})
    IN  programs \cup {Labelled(p, n) : p \in programs, n \in 1 .. 5}

\* Labels in any number, anywhere.
Labellings == Words(4, {Label("L"), Label("M"), Li, Beq, Nop})

\* Lines that are blank, or that the parser has something to remark on.
Malformed ==
    Words(3, {Word("", <<>>), Line("L", "add", Add.operands), Word("other", Add.operands),
              Word("li", <<Name("a"), Name("c")>>), Word("addi", <<Name("a"), Name("c")>>),
              Word("lw", <<Name("a"), Number(1)>>), Label("L"), Beq})

\* Instructions whose result, or whose last operand, has no name, among others.
Unnamed ==
    Words(3, {Word("add", <<Name(""), Name("a"), Name("b")>>),
              Word("sub", <<Name("c"), Name("a"), Name(""), Name("")>>), Li, Sub, Lw, Beq, Nop})

\* Loops and jumps, in each other's slots, too: four words, and four with the label.
Runs ==
    LET alphabet == {Add, Lw, Sw, Beq, J}
    IN  [1 .. 4 -> alphabet]
          \cup {p \in [1 .. 5 -> alphabet \cup {Label("L")}] :
                  {n \in 1 .. 5 : p[n] = Label("L")} \in {{1}, {2}, {4}}}

SmallSources == FourWords \cup FiveWords \cup Labellings \cup Malformed \cup Unnamed \cup Runs

\* A loop whose first instruction is its exit test.
LoopHead == {Labelled(<<Add, Beq, Nop>>, 2)}

\* data/example_auto_input.asm.
ExampleAutoInput ==
    {<<Label("start"),
       Word("li", <<Name("$t0"), Number(0)>>),
       Word("li", <<Name("$t1"), Number(10)>>),
       Word("li", <<Name("$s0"), Number(0)>>),
       Label("loop"),
       Word("addi", <<Name("$t0"), Name("$t0"), Number(1)>>),
       Word("beq", <<Name("$t0"), Name("$t1"), Name("exit")>>),
       Nop,
       Word("add", <<Name("$s0"), Name("$s0"), Name("$t0")>>),
       Word("j", <<Name("loop")>>),
       Nop,
       Label("exit"),
       Word("add", <<Name("$v0"), Name("$s0"), Name("$zero")>>)>>}
=============================================================================
