----------------------- MODULE PassEquivalence_proofs -----------------------
(***************************************************************************)
(* Proofs of what scheduleDelaySlots leaves as it was, for every program:  *)
(* its instructions, their targets, the slots that the programmer filled,  *)
(* the decisions already made, and what the program does on the machine of *)
(* the simulator.                                                          *)
(***************************************************************************)
EXTENDS DelaySlotPass_proofs, FiniteSetTheorems

-----------------------------------------------------------------------------
(* Texts.                                                                  *)

\* Instructions with the same text differ in the mark and the target index alone.
LEMMA TextFacts ==
    ASSUME NEW x \in InstructionSet
    PROVE  /\ Text(x) \in InstructionSet
           /\ Text(x).opcode = x.opcode /\ Text(x).label = x.label
           /\ Text(x).target_label = x.target_label
           /\ isControl(Text(x)) <=> isControl(x)
           /\ isNop(Text(x)) <=> isNop(x)
           /\ hasLabel(Text(x)) <=> hasLabel(x)
<1>1. /\ Text(x) \in InstructionSet
      /\ Text(x).opcode = x.opcode /\ Text(x).label = x.label
      /\ Text(x).target_label = x.target_label
  BY DEF Text, InstructionSet
<1> HIDE DEF Text
<1> QED  BY <1>1 DEF isControl, isBranch, isJump, isNop, hasLabel

\* So they are of one kind.
LEMMA SameTextSameKind ==
    ASSUME NEW x \in InstructionSet, NEW y \in InstructionSet, Text(x) = Text(y)
    PROVE  /\ x.opcode = y.opcode /\ x.label = y.label /\ x.target_label = y.target_label
           /\ isControl(x) <=> isControl(y)
           /\ isNop(x) <=> isNop(y)
           /\ hasLabel(x) <=> hasLabel(y)
BY TextFacts

\* The text of a default-constructed instruction.
LEMMA NopText == Text(NopInstruction) = NopInstruction
<1>1. ASSUME NEW x \in InstructionSet, x.manually_filled = FALSE, x.target_index = 0
      PROVE  Text(x) = x
  BY <1>1 DEF Text, InstructionSet
<1>2. NopInstruction.manually_filled = FALSE /\ NopInstruction.target_index = 0
  BY DEF NopInstruction
<1> QED  BY <1>1, <1>2, NopType

\* Two programs with the same texts.
SameTexts(p, q) == Len(q) = Len(p) /\ \A n \in 1 .. Len(p) : Text(q[n]) = Text(p[n])

\* The mark in a slot is no part of a text.
LEMMA MarkText ==
    ASSUME NEW p \in Seq(InstructionSet), NEW b \in 1 .. Len(p)
    PROVE  LET q == [p EXCEPT ![b].manually_filled = TRUE]
           IN  /\ q \in Seq(InstructionSet) /\ SameTexts(p, q)
               /\ q[b].manually_filled
               /\ \A n \in 1 .. Len(p) : p[n].manually_filled => q[n].manually_filled
<1> DEFINE x == [p[b] EXCEPT !.manually_filled = TRUE]
           q == [p EXCEPT ![b] = x]
<1>1. Len(p) \in Nat /\ DOMAIN p = 1 .. Len(p) /\ p[b] \in InstructionSet
  OBVIOUS
<1>2. x \in InstructionSet /\ Text(x) = Text(p[b]) /\ x.manually_filled
  BY <1>1 DEF InstructionSet, Text
<1> HIDE DEF x
<1>3. q \in Seq(InstructionSet) /\ Len(q) = Len(p)
  BY <1>1, <1>2
<1>4. \A n \in 1 .. Len(p) : q[n] = IF n = b THEN x ELSE p[n]
  BY <1>1
<1>5. q = [p EXCEPT ![b].manually_filled = TRUE]
  BY DEF x
<1> HIDE DEF q
<1> QED  BY <1>2, <1>3, <1>4, <1>5 DEF SameTexts

\* Nor is the target index.
LEMMA ResolveText ==
    ASSUME NEW p \in Seq(InstructionSet)
    PROVE  LET q == resolveTargets(p)
           IN  /\ q \in Seq(InstructionSet) /\ SameTexts(p, q)
               /\ \A n \in 1 .. Len(p) :
                    /\ q[n].manually_filled = p[n].manually_filled
                    /\ isControl(p[n]) =>
                          q[n].target_index = LabelPosition(p, p[n].target_label)
<1> DEFINE q == resolveTargets(p)
           New(x) == IF isControl(x)
                     THEN [x EXCEPT !.target_index = LabelPosition(p, x.target_label)]
                     ELSE x
<1>1. Len(p) \in Nat /\ DOMAIN p = 1 .. Len(p) /\ \A n \in 1 .. Len(p) : p[n] \in InstructionSet
  OBVIOUS
<1>2. q = [n \in 1 .. Len(p) |-> New(p[n])]
  BY <1>1 DEF resolveTargets
<1>3. q \in Seq(InstructionSet) /\ Len(q) = Len(p)
  BY ResolveFacts
<1> HIDE DEF q
<1>4. ASSUME NEW x \in InstructionSet
      PROVE  /\ Text(New(x)) = Text(x) /\ New(x).manually_filled = x.manually_filled
             /\ isControl(x) => New(x).target_index = LabelPosition(p, x.target_label)
  BY DEF InstructionSet, Text
<1> HIDE DEF New
<1>5. \A n \in 1 .. Len(p) :
         /\ Text(New(p[n])) = Text(p[n]) /\ New(p[n]).manually_filled = p[n].manually_filled
         /\ isControl(p[n]) => New(p[n]).target_index = LabelPosition(p, p[n].target_label)
  BY <1>1, <1>4
<1> QED  BY <1>2, <1>3, <1>5 DEF q, SameTexts

-----------------------------------------------------------------------------
(* Where the instructions of the input are.                                *)

\* The instructions that cannot be moved.
Pinned(x) == isControl(x) \/ hasLabel(x)

\* Each instruction of p is in q at the place that f says, the pinned ones in their
\* order, and the rest of q are nops.
Tracks(f, p, q) ==
    /\ f \in [1 .. Len(p) -> 1 .. Len(q)]
    /\ \A m, n \in 1 .. Len(p) : f[m] = f[n] => m = n
    /\ \A n \in 1 .. Len(p) : Text(q[f[n]]) = Text(p[n])
    /\ \A k \in 1 .. Len(q) :
          (\E n \in 1 .. Len(p) : k = f[n]) \/ Text(q[k]) = NopInstruction
    /\ \A m, n \in 1 .. Len(p) : m < n /\ Pinned(p[m]) /\ Pinned(p[n]) => f[m] < f[n]

\* The programmer filled the slot of the control instruction at b.
ManualSlot(p, b) == b \in 1 .. Len(p) - 1 /\ isControl(p[b]) /\ ~isNop(p[b + 1])

\* Such a slot is where it was, and has its mark once the loop has passed it.
Holds(f, p, q, at) ==
    \A b \in 1 .. Len(p) :
        ManualSlot(p, b) => /\ f[b + 1] = f[b] + 1
                            /\ f[b] < at => q[f[b + 1]].manually_filled

\* Only texts matter.
LEMMA TracksTexts ==
    ASSUME NEW p \in Seq(InstructionSet), NEW q \in Seq(InstructionSet),
           NEW r \in Seq(InstructionSet), NEW f, Tracks(f, p, q), SameTexts(q, r)
    PROVE  Tracks(f, p, r)
<1>1. /\ f \in [1 .. Len(p) -> 1 .. Len(r)] /\ Len(q) = Len(r)
      /\ \A k \in 1 .. Len(r) : Text(r[k]) = Text(q[k])
  BY Zenon DEF Tracks, SameTexts
<1>2. \A n \in 1 .. Len(p) : Text(r[f[n]]) = Text(p[n])
  <2>1. \A n \in 1 .. Len(p) : f[n] \in 1 .. Len(r) /\ Text(q[f[n]]) = Text(p[n])
    BY <1>1 DEF Tracks
  <2> QED  BY <1>1, <2>1
<1> QED  BY <1>1, <1>2, Zenon DEF Tracks

\* A nop at the end is not in the input.
LEMMA TracksAppended ==
    ASSUME NEW p \in Seq(InstructionSet), NEW q \in Seq(InstructionSet),
           NEW f, Tracks(f, p, q)
    PROVE  Tracks(f, p, Append(q, NopInstruction))
<1> DEFINE r == Append(q, NopInstruction)
           N == Len(q)
<1>1. /\ N \in Nat /\ Len(r) = N + 1 /\ r[N + 1] = NopInstruction
      /\ \A k \in 1 .. N : r[k] = q[k]
  OBVIOUS
<1>2. /\ f \in [1 .. Len(p) -> 1 .. N]
      /\ \A n \in 1 .. Len(p) : Text(q[f[n]]) = Text(p[n])
      /\ \A k \in 1 .. N :
            (\E n \in 1 .. Len(p) : k = f[n]) \/ Text(q[k]) = NopInstruction
  BY DEF Tracks
<1> HIDE DEF r, N
<1>3. \A k \in 1 .. N : k \in 1 .. N + 1
  BY <1>1
<1>4. f \in [1 .. Len(p) -> 1 .. Len(r)]
  BY <1>1, <1>2, <1>3
<1>5. \A n \in 1 .. Len(p) : Text(r[f[n]]) = Text(p[n])
  BY <1>1, <1>2
<1>6. \A k \in 1 .. Len(r) :
         (\E n \in 1 .. Len(p) : k = f[n]) \/ Text(r[k]) = NopInstruction
  <2>1. \A k \in 1 .. N + 1 : k \in 1 .. N \/ k = N + 1
    BY <1>1
  <2> QED  BY <1>1, <1>2, <2>1, NopText
<1> QED  BY <1>4, <1>5, <1>6, Zenon DEF Tracks, r

\* Where a move takes the instruction at k.
Moved(k, c, b) == IF k = c THEN b ELSE IF k \in c + 1 .. b THEN k - 1 ELSE k

\* The move is a permutation, which keeps the order of all but the moved one.
LEMMA MovedFacts ==
    ASSUME NEW N \in Nat, NEW b \in 1 .. N, NEW c \in 1 .. b - 1
    PROVE  /\ \A k \in 1 .. N : Moved(k, c, b) \in 1 .. N
           /\ \A k, l \in 1 .. N : Moved(k, c, b) = Moved(l, c, b) => k = l
           /\ \A k, l \in 1 .. N :
                 k < l /\ k # c /\ l # c => Moved(k, c, b) < Moved(l, c, b)
           /\ \A l \in 1 .. N : \E k \in 1 .. N : Moved(k, c, b) = l
<1>1. b \in Nat /\ c \in Nat /\ 1 <= c /\ c < b /\ b <= N
  OBVIOUS
<1>2. ASSUME NEW l \in 1 .. N PROVE \E k \in 1 .. N : Moved(k, c, b) = l
  <2> DEFINE k == IF l = b THEN c ELSE IF l \in c .. b - 1 THEN l + 1 ELSE l
  <2>1. k \in 1 .. N /\ Moved(k, c, b) = l
    BY <1>1 DEF Moved
  <2> QED  BY <2>1
<1>3. \A k \in 1 .. N : Moved(k, c, b) \in 1 .. N
  BY <1>1 DEF Moved
<1>4. \A k, l \in 1 .. N : Moved(k, c, b) = Moved(l, c, b) => k = l
  BY <1>1 DEF Moved
<1>5. \A k, l \in 1 .. N : k < l /\ k # c /\ l # c => Moved(k, c, b) < Moved(l, c, b)
  BY <1>1 DEF Moved
<1> QED  BY <1>2, <1>3, <1>4, <1>5

\* It takes each instruction there.
LEMMA MoveTakes ==
    ASSUME NEW p \in Seq(InstructionSet), NEW b \in 1 .. Len(p), NEW c \in 1 .. b - 1
    PROVE  \A k \in 1 .. Len(p) : Move(p, c, b)[Moved(k, c, b)] = p[k]
<1>1. /\ Len(p) \in Nat /\ b \in Nat /\ c \in Nat /\ 1 <= c /\ c < b /\ b <= Len(p)
  OBVIOUS
<1>2. /\ \A k \in 1 .. c - 1 : Move(p, c, b)[k] = p[k]
      /\ \A k \in c .. b - 1 : Move(p, c, b)[k] = p[k + 1]
      /\ Move(p, c, b)[b] = p[c]
      /\ \A k \in b + 1 .. Len(p) : Move(p, c, b)[k] = p[k]
  BY MoveShape
<1> SUFFICES ASSUME NEW k \in 1 .. Len(p)
             PROVE  Move(p, c, b)[Moved(k, c, b)] = p[k]
  OBVIOUS
<1>3. CASE k = c
  BY <1>2, <1>3 DEF Moved
<1>4. CASE k \in c + 1 .. b
  <2>1. k # c /\ k - 1 \in c .. b - 1 /\ (k - 1) + 1 = k
    BY <1>1, <1>4
  <2> QED  BY <1>2, <1>4, <2>1 DEF Moved
<1>5. CASE k # c /\ k \notin c + 1 .. b
  <2>1. k \in 1 .. c - 1 \/ k \in b + 1 .. Len(p)
    BY <1>1, <1>5
  <2> QED  BY <1>2, <1>5, <2>1 DEF Moved
<1> QED  BY <1>3, <1>4, <1>5

\* The places after a move.
AfterMove(f, p, c, b) == [n \in 1 .. Len(p) |-> Moved(f[n], c, b)]

\* A move of an instruction that is not pinned loses none and keeps the order of those
\* that are.
LEMMA TracksMove ==
    ASSUME NEW p \in Seq(InstructionSet), NEW q \in Seq(InstructionSet),
           NEW f, Tracks(f, p, q),
           NEW b \in 1 .. Len(q), NEW c \in 1 .. b - 1, ~Pinned(q[c])
    PROVE  Tracks(AfterMove(f, p, c, b), p, Move(q, c, b))
<1> DEFINE g == AfterMove(f, p, c, b)
           r == Move(q, c, b)
           N == Len(q)
<1>1. N \in Nat /\ r \in Seq(InstructionSet) /\ Len(r) = N
  BY MoveShape
<1>2. /\ \A k \in 1 .. N : Moved(k, c, b) \in 1 .. N
      /\ \A k, l \in 1 .. N : Moved(k, c, b) = Moved(l, c, b) => k = l
      /\ \A k, l \in 1 .. N : k < l /\ k # c /\ l # c => Moved(k, c, b) < Moved(l, c, b)
      /\ \A l \in 1 .. N : \E k \in 1 .. N : Moved(k, c, b) = l
  BY <1>1, MovedFacts
<1>3. \A k \in 1 .. N : r[Moved(k, c, b)] = q[k]
  BY MoveTakes
<1>4. /\ \A n \in 1 .. Len(p) : f[n] \in 1 .. N
      /\ \A m, n \in 1 .. Len(p) : f[m] = f[n] => m = n
      /\ \A n \in 1 .. Len(p) : Text(q[f[n]]) = Text(p[n])
      /\ \A k \in 1 .. N :
            (\E n \in 1 .. Len(p) : k = f[n]) \/ Text(q[k]) = NopInstruction
      /\ \A m, n \in 1 .. Len(p) : m < n /\ Pinned(p[m]) /\ Pinned(p[n]) => f[m] < f[n]
  BY DEF Tracks
<1>5. \A n \in 1 .. Len(p) : Pinned(p[n]) => f[n] # c
  <2> SUFFICES ASSUME NEW n \in 1 .. Len(p), Pinned(p[n]) PROVE f[n] # c
    OBVIOUS
  <2>1. p[n] \in InstructionSet /\ q[f[n]] \in InstructionSet /\ Text(q[f[n]]) = Text(p[n])
    BY <1>4
  <2>2. Pinned(q[f[n]])
    BY <2>1, SameTextSameKind DEF Pinned
  <2> QED  BY <2>2
<1>6. \A n \in 1 .. Len(p) : g[n] = Moved(f[n], c, b)
  BY DEF AfterMove
<1>7. g \in [1 .. Len(p) -> 1 .. N]
  BY <1>2, <1>4 DEF AfterMove
<1> HIDE DEF g, r, N
<1>8. ASSUME NEW m \in 1 .. Len(p), NEW n \in 1 .. Len(p), g[m] = g[n] PROVE m = n
  <2>1. Moved(f[m], c, b) = Moved(f[n], c, b)
    BY <1>6, <1>8
  <2>2. f[m] \in 1 .. N /\ f[n] \in 1 .. N
    BY <1>4
  <2>3. f[m] = f[n]
    BY <1>2, <2>1, <2>2, Zenon
  <2> QED  BY <1>4, <2>3
<1>9. ASSUME NEW n \in 1 .. Len(p) PROVE Text(r[g[n]]) = Text(p[n])
  <2>1. r[Moved(f[n], c, b)] = q[f[n]]
    BY <1>3, <1>4
  <2> QED  BY <1>4, <1>6, <2>1
<1>10. \A k \in 1 .. N : (\E n \in 1 .. Len(p) : k = g[n]) \/ Text(r[k]) = NopInstruction
  <2> SUFFICES ASSUME NEW l \in 1 .. N
               PROVE  (\E n \in 1 .. Len(p) : l = g[n]) \/ Text(r[l]) = NopInstruction
    OBVIOUS
  <2>1. PICK k \in 1 .. N : Moved(k, c, b) = l
    BY <1>2
  <2>2. r[l] = q[k]
    BY <1>3, <2>1
  <2>3. CASE Text(q[k]) = NopInstruction
    BY <2>2, <2>3
  <2>4. ASSUME NEW n \in 1 .. Len(p), k = f[n]
        PROVE  \E m \in 1 .. Len(p) : l = g[m]
    <3>1. l = g[n]
      BY <1>6, <2>1, <2>4
    <3> QED  BY <3>1
  <2> QED  BY <1>4, <2>3, <2>4
<1>11. ASSUME NEW m \in 1 .. Len(p), NEW n \in 1 .. Len(p), m < n, Pinned(p[m]), Pinned(p[n])
       PROVE  g[m] < g[n]
  <2>1. /\ f[m] \in 1 .. N /\ f[n] \in 1 .. N /\ f[m] # c /\ f[n] # c
    BY <1>4, <1>5, <1>11
  <2>2. f[m] < f[n]
    BY <1>4, <1>11
  <2>3. Moved(f[m], c, b) < Moved(f[n], c, b)
    BY <1>2, <2>1, <2>2, Zenon
  <2> QED  BY <1>6, <2>3
<1> QED  BY <1>1, <1>7, <1>8, <1>9, <1>10, <1>11, Zenon DEF Tracks, g, r

\* A control instruction whose slot the programmer filled is one in the vector, too,
\* with an instruction behind it.
LEMMA ManualSlotFacts ==
    ASSUME NEW p \in Seq(InstructionSet), NEW q \in Seq(InstructionSet),
           NEW f, Tracks(f, p, q), NEW b, ManualSlot(p, b)
    PROVE  /\ b \in 1 .. Len(p) /\ b + 1 \in 1 .. Len(p)
           /\ f[b] \in 1 .. Len(q) /\ f[b + 1] \in 1 .. Len(q)
           /\ isControl(q[f[b]]) /\ ~isNop(q[f[b + 1]])
<1>1. b \in 1 .. Len(p) /\ b + 1 \in 1 .. Len(p)
  <2>1. Len(p) \in Nat
    OBVIOUS
  <2> QED  BY <2>1 DEF ManualSlot
<1>2. /\ f[b] \in 1 .. Len(q) /\ f[b + 1] \in 1 .. Len(q)
      /\ Text(q[f[b]]) = Text(p[b]) /\ Text(q[f[b + 1]]) = Text(p[b + 1])
  BY <1>1 DEF Tracks
<1>3. /\ q[f[b]] \in InstructionSet /\ q[f[b + 1]] \in InstructionSet
      /\ p[b] \in InstructionSet /\ p[b + 1] \in InstructionSet
  BY <1>1, <1>2
<1> QED  BY <1>1, <1>2, <1>3, SameTextSameKind DEF ManualSlot

\* A move into a free slot takes nothing out of a slot that the programmer filled, and
\* puts nothing into it.
LEMMA HoldsMove ==
    ASSUME NEW p \in Seq(InstructionSet), NEW q \in Seq(InstructionSet), NEW f,
           Tracks(f, p, q), NEW b \in 1 .. Len(q), Holds(f, p, q, b),
           isControl(q[b]), isNop(q[b + 1]), NEW c \in Candidates(q, b)
    PROVE  Holds(AfterMove(f, p, c, b), p, Move(q, c, b), b)
<1> DEFINE g == AfterMove(f, p, c, b)
           r == Move(q, c, b)
<1>1. /\ c \in 1 .. b - 1 /\ ~isControl(q[c]) /\ ~q[c].manually_filled
      /\ \A k \in c + 1 .. b - 1 : ~isControl(q[k])
  BY CandidateFacts DEF Candidates
<1>2. \A k \in 1 .. Len(q) : r[Moved(k, c, b)] = q[k]
  BY <1>1, MoveTakes
<1>3. \A n \in 1 .. Len(p) : g[n] = Moved(f[n], c, b)
  BY DEF AfterMove
<1> HIDE DEF g, r
<1> SUFFICES ASSUME NEW a \in 1 .. Len(p), ManualSlot(p, a)
             PROVE  /\ g[a + 1] = g[a] + 1
                    /\ g[a] < b => r[g[a + 1]].manually_filled
  BY DEF Holds, g, r
<1>4. /\ a + 1 \in 1 .. Len(p) /\ f[a] \in 1 .. Len(q) /\ f[a + 1] \in 1 .. Len(q)
      /\ isControl(q[f[a]]) /\ ~isNop(q[f[a + 1]])
  BY ManualSlotFacts
<1>5. f[a + 1] = f[a] + 1 /\ (f[a] < b => q[f[a + 1]].manually_filled)
  BY DEF Holds
<1>6. Len(q) \in Nat /\ b \in Nat /\ c \in Nat /\ f[a] \in Nat /\ c < b /\ f[a] # c
  <2>1. Len(q) \in Nat
    OBVIOUS
  <2> QED  BY <1>1, <1>4, <2>1
<1>7. f[a] # b
  BY <1>4, <1>5
<1>8. f[a] \notin c + 1 .. b - 1
  BY <1>1, <1>4
<1>9. CASE f[a] < c
  <2>1. f[a + 1] # c
    <3>1. f[a] < b
      BY <1>6, <1>9
    <3> QED  BY <1>1, <1>5, <3>1
  <2>2. Moved(f[a], c, b) = f[a] /\ Moved(f[a + 1], c, b) = f[a + 1]
    BY <1>5, <1>6, <1>9, <2>1 DEF Moved
  <2>3. f[a] < b
    BY <1>6, <1>9
  <2> QED  BY <1>2, <1>3, <1>4, <1>5, <2>2, <2>3
<1>10. CASE f[a] > b
  <2>1. Moved(f[a], c, b) = f[a] /\ Moved(f[a + 1], c, b) = f[a + 1]
    BY <1>5, <1>6, <1>10 DEF Moved
  <2>2. ~(f[a] < b)
    BY <1>6, <1>10
  <2> QED  BY <1>3, <1>4, <1>5, <2>1, <2>2
<1> QED  BY <1>6, <1>7, <1>8, <1>9, <1>10

-----------------------------------------------------------------------------
(* The inductive invariant.                                                *)

\* The parser makes no instruction with the opcode LABEL_ONLY: a label that stands
\* alone is a nop.
AsNops(p) == \A n \in 1 .. Len(p) : p[n].opcode # "label_only"

\* Every instruction of the input has a place, in which its slot holds, and once the
\* pass has returned every target is resolved.
PlaceInv ==
    /\ PassInv
    /\ AsNops(input)
    /\ \E f : Tracks(f, input, instructions) /\ Holds(f, input, instructions, i)
    /\ returned =>
          \A n \in 1 .. Len(instructions) :
              isControl(instructions[n]) =>
                  instructions[n].target_index
                    = LabelPosition(instructions, instructions[n].target_label)

\* No instruction comes to have that opcode, so the nop that is left is a nop already.
LEMMA NopsOnly ==
    ASSUME NEW p \in Seq(InstructionSet), NEW q \in Seq(InstructionSet),
           NEW f, Tracks(f, p, q), AsNops(p)
    PROVE  AsNops(q)
<1> SUFFICES ASSUME NEW k \in 1 .. Len(q) PROVE q[k].opcode # "label_only"
  BY DEF AsNops
<1>1. q[k] \in InstructionSet
  OBVIOUS
<1>2. CASE Text(q[k]) = NopInstruction
  <2>1. q[k].opcode = "nop"
    <3>1. NopInstruction \in InstructionSet /\ Text(q[k]) = Text(NopInstruction)
      BY <1>2, NopType, NopText
    <3>2. q[k].opcode = NopInstruction.opcode
      BY <1>1, <3>1, SameTextSameKind
    <3> QED  BY <3>2 DEF NopInstruction
  <2> QED  BY <2>1
<1>3. ASSUME NEW n \in 1 .. Len(p), k = f[n] PROVE q[k].opcode # "label_only"
  <2>1. p[n] \in InstructionSet /\ Text(q[k]) = Text(p[n])
    BY <1>3 DEF Tracks
  <2> QED  BY <1>1, <2>1, SameTextSameKind DEF AsNops
<1> QED  BY <1>2, <1>3 DEF Tracks

\* What an action of the loop has to give for the invariant.
LEMMA PlaceFromParts ==
    ASSUME PassInv', PlaceInv, UNCHANGED input, ~returned',
           NEW f, Tracks(f, input, instructions'), Holds(f, input, instructions', i')
    PROVE  PlaceInv'
<1>1. AsNops(input') /\ input' = input
  BY DEF PlaceInv
<1>2. Tracks(f, input', instructions') /\ Holds(f, input', instructions', i')
  BY <1>1
<1> QED  BY <1>1, <1>2, Zenon DEF PlaceInv

\* What is known when the loop goes on.
LEMMA PlaceFacts ==
    ASSUME PlaceInv
    PROVE  /\ PassInv /\ AsNops(input)
           /\ input \in Seq(InstructionSet) /\ instructions \in Seq(InstructionSet)
           /\ i \in 1 .. Len(instructions) + 1 /\ i \in Nat
           /\ \E f : Tracks(f, input, instructions) /\ Holds(f, input, instructions, i)
<1>1. /\ PassInv /\ AsNops(input)
      /\ \E f : Tracks(f, input, instructions) /\ Holds(f, input, instructions, i)
  BY DEF PlaceInv
<1>2. /\ input \in Seq(InstructionSet) /\ instructions \in Seq(InstructionSet)
      /\ i \in 1 .. Len(instructions) + 1
  BY <1>1 DEF PassInv, TypeOK
<1>3. i \in Nat
  BY <1>2
<1> QED  BY <1>1, <1>2, <1>3

\* The loop passes an instruction at k whose slot was not filled, or has its mark.
LEMMA HoldsOneMore ==
    ASSUME NEW p \in Seq(InstructionSet), NEW q \in Seq(InstructionSet),
           NEW r \in Seq(InstructionSet), NEW f, Tracks(f, p, q),
           NEW k \in Nat, Holds(f, p, q, k), Len(q) <= Len(r),
           \A n \in 1 .. Len(q) : q[n].manually_filled => r[n].manually_filled,
           isControl(q[k]) /\ k + 1 \in 1 .. Len(q) /\ ~isNop(q[k + 1])
              => r[k + 1].manually_filled
    PROVE  Holds(f, p, r, k + 1)
<1> SUFFICES ASSUME NEW b \in 1 .. Len(p), ManualSlot(p, b)
             PROVE  /\ f[b + 1] = f[b] + 1
                    /\ f[b] < k + 1 => r[f[b + 1]].manually_filled
  BY DEF Holds
<1>1. /\ f[b] \in 1 .. Len(q) /\ f[b + 1] \in 1 .. Len(q)
      /\ isControl(q[f[b]]) /\ ~isNop(q[f[b + 1]])
  BY ManualSlotFacts
<1>2. f[b + 1] = f[b] + 1 /\ (f[b] < k => q[f[b + 1]].manually_filled)
  BY DEF Holds
<1>3. CASE f[b] = k
  BY <1>1, <1>2, <1>3
<1>4. CASE f[b] < k
  BY <1>1, <1>2, <1>4
<1>5. CASE f[b] > k
  <2>1. ~(f[b] < k + 1)
    <3>1. f[b] \in Nat
      BY <1>1
    <3> QED  BY <1>5, <3>1
  <2> QED  BY <1>2, <2>1
<1>6. f[b] \in Nat
  BY <1>1
<1> QED  BY <1>3, <1>4, <1>5, <1>6

\* An instruction that is no control instruction has no slot.
LEMMA SkipPlaces ==
    ASSUME PlaceInv, Skip
    PROVE  PlaceInv'
<1>1. /\ i <= Len(instructions) /\ ~isControl(instructions[i]) /\ i' = i + 1
      /\ UNCHANGED <<input, instructions, decisions, returned>>
  BY DEF Skip
<1>2. /\ input \in Seq(InstructionSet) /\ instructions \in Seq(InstructionSet)
      /\ i \in Nat /\ PassInv /\ ~returned
  BY <1>1, PlaceFacts, AtPosition
<1>3. PICK f : Tracks(f, input, instructions) /\ Holds(f, input, instructions, i)
  BY PlaceFacts
<1>4. Holds(f, input, instructions, i + 1)
  <2>1. Len(instructions) \in Nat
    BY <1>2
  <2>2. Len(instructions) <= Len(instructions)
    BY <2>1
  <2> QED  BY <1>1, <1>2, <1>3, <2>2, HoldsOneMore
<1>5. PassInv'
  BY <1>2, SkipKeeps
<1> QED  BY <1>1, <1>2, <1>3, <1>4, <1>5, PlaceFromParts

\* The slot that the programmer filled gets its mark.
LEMMA KeepManualPlaces ==
    ASSUME PlaceInv, KeepManual
    PROVE  PlaceInv'
<1> DEFINE q == [instructions EXCEPT ![i + 1].manually_filled = TRUE]
<1>1. /\ AtControl /\ i < Len(instructions) /\ i <= Len(instructions)
      /\ instructions' = q /\ i' = i + 1 /\ UNCHANGED <<input, returned>>
  BY DEF KeepManual, AtControl
<1>2. /\ input \in Seq(InstructionSet) /\ instructions \in Seq(InstructionSet)
      /\ i \in Nat /\ PassInv /\ ~returned
  BY <1>1, PlaceFacts, AtPosition
<1>3. PICK f : Tracks(f, input, instructions) /\ Holds(f, input, instructions, i)
  BY PlaceFacts
<1>4. i + 1 \in 1 .. Len(instructions)
  BY <1>1, <1>2
<1>5. /\ q \in Seq(InstructionSet) /\ SameTexts(instructions, q) /\ q[i + 1].manually_filled
      /\ \A n \in 1 .. Len(instructions) :
            instructions[n].manually_filled => q[n].manually_filled
  BY <1>2, <1>4, MarkText
<1> HIDE DEF q
<1>6. Tracks(f, input, q)
  BY <1>2, <1>3, <1>5, TracksTexts
<1>7. Holds(f, input, q, i + 1)
  <2>1. Len(instructions) <= Len(q)
    BY <1>2, <1>5 DEF SameTexts
  <2> QED  BY <1>2, <1>3, <1>5, <2>1, HoldsOneMore
<1>8. PassInv'
  BY <1>2, KeepManualKeeps
<1> QED  BY <1>1, <1>2, <1>6, <1>7, <1>8, PlaceFromParts

\* The vector in which the branch has a slot: the places are the same.
LEMMA WithSlotPlaces ==
    ASSUME instructions \in Seq(InstructionSet), input \in Seq(InstructionSet),
           i \in 1 .. Len(instructions),
           NEW f, Tracks(f, input, instructions), Holds(f, input, instructions, i)
    PROVE  Tracks(f, input, WithSlot) /\ Holds(f, input, WithSlot, i)
<1>1. Tracks(f, input, WithSlot)
  BY TracksAppended DEF WithSlot
<1>2. \A n \in 1 .. Len(instructions) : WithSlot[n] = instructions[n]
  BY WithSlotFacts
<1>3. Holds(f, input, WithSlot, i)
  <2> SUFFICES ASSUME NEW b \in 1 .. Len(input), ManualSlot(input, b)
               PROVE  /\ f[b + 1] = f[b] + 1
                      /\ f[b] < i => WithSlot[f[b + 1]].manually_filled
    BY DEF Holds
  <2>1. f[b + 1] \in 1 .. Len(instructions)
    BY ManualSlotFacts
  <2> QED  BY <1>2, <2>1 DEF Holds
<1> QED  BY <1>1, <1>3

\* What is known of the vector with a slot when the slot is free.
LEMMA FreeSlotFacts ==
    ASSUME PlaceInv, SlotIsFree
    PROVE  /\ PassInv /\ ~returned
           /\ input \in Seq(InstructionSet) /\ AsNops(input)
           /\ WithSlot \in Seq(InstructionSet)
           /\ i \in Nat /\ i \in 1 .. Len(WithSlot) /\ i + 1 \in 1 .. Len(WithSlot)
           /\ isControl(WithSlot[i]) /\ isNop(WithSlot[i + 1])
           /\ \E f : Tracks(f, input, WithSlot) /\ Holds(f, input, WithSlot, i)
<1>1. AtControl /\ isNop(WithSlot[i + 1]) /\ i <= Len(instructions) /\ isControl(instructions[i])
  BY DEF SlotIsFree, AtControl
<1>2. /\ PassInv /\ ~returned /\ AsNops(input) /\ input \in Seq(InstructionSet)
      /\ instructions \in Seq(InstructionSet)
      /\ i \in Nat /\ i \in 1 .. Len(instructions)
  BY <1>1, PlaceFacts, AtPosition
<1>3. /\ WithSlot \in Seq(InstructionSet)
      /\ Len(WithSlot) \in Nat /\ i + 1 \in 1 .. Len(WithSlot)
      /\ \A n \in 1 .. Len(instructions) : WithSlot[n] = instructions[n]
  BY <1>2, WithSlotFacts
<1>4. i \in 1 .. Len(WithSlot)
  BY <1>2, <1>3
<1>5. PICK f : Tracks(f, input, instructions) /\ Holds(f, input, instructions, i)
  BY PlaceFacts
<1>6. Tracks(f, input, WithSlot) /\ Holds(f, input, WithSlot, i)
  BY <1>2, <1>5, WithSlotPlaces
<1> QED  BY <1>1, <1>2, <1>3, <1>4, <1>6

\* What is left in the slot is the nop that was there.
LEMMA UseNopLeavesSlot ==
    ASSUME PlaceInv, UseNop
    PROVE  instructions' = WithSlot
<1>1. /\ SlotIsFree /\ instructions' = [WithSlot EXCEPT ![i + 1].opcode = "nop"]
  BY DEF UseNop, LeaveNop
<1>2. /\ PassInv /\ ~returned /\ input \in Seq(InstructionSet) /\ AsNops(input)
      /\ WithSlot \in Seq(InstructionSet) /\ i \in Nat /\ i + 1 \in 1 .. Len(WithSlot)
      /\ isNop(WithSlot[i + 1])
  BY <1>1, FreeSlotFacts
<1>3. PICK f : Tracks(f, input, WithSlot) /\ Holds(f, input, WithSlot, i)
  BY <1>1, FreeSlotFacts
<1>4. WithSlot[i + 1] \in InstructionSet /\ WithSlot[i + 1].opcode = "nop"
  <2>1. AsNops(WithSlot)
    BY <1>2, <1>3, NopsOnly
  <2> QED  BY <1>2, <2>1 DEF AsNops, isNop
<1>5. [WithSlot[i + 1] EXCEPT !.opcode = "nop"] = WithSlot[i + 1]
  BY <1>4 DEF InstructionSet
<1>6. instructions' = [WithSlot EXCEPT ![i + 1]
                          = [WithSlot[i + 1] EXCEPT !.opcode = "nop"]]
  BY <1>1
<1> QED  BY <1>2, <1>5, <1>6

\* What is left is the nop that was there, or the one at the end.
LEMMA UseNopPlaces ==
    ASSUME PlaceInv, UseNop
    PROVE  PlaceInv'
<1>1. SlotIsFree /\ i' = i + 1 /\ UNCHANGED <<input, returned>>
  BY DEF UseNop, LeaveNop
<1>2. /\ PassInv /\ ~returned /\ input \in Seq(InstructionSet)
      /\ WithSlot \in Seq(InstructionSet) /\ i \in Nat /\ isNop(WithSlot[i + 1])
  BY <1>1, FreeSlotFacts
<1>3. PICK f : Tracks(f, input, WithSlot) /\ Holds(f, input, WithSlot, i)
  BY <1>1, FreeSlotFacts
<1>4. instructions' = WithSlot
  BY UseNopLeavesSlot
<1>5. Holds(f, input, WithSlot, i + 1)
  <2>1. Len(WithSlot) <= Len(WithSlot)
    <3>1. Len(WithSlot) \in Nat
      BY <1>2
    <3> QED  BY <3>1
  <2> QED  BY <1>2, <1>3, <2>1, HoldsOneMore
<1>6. PassInv'
  BY <1>2, UseNopKeeps
<1> QED  BY <1>1, <1>2, <1>3, <1>4, <1>5, <1>6, PlaceFromParts

\* The candidate is no control instruction, has no label and no mark.
LEMMA FillPlaces ==
    ASSUME PlaceInv, FillAutomatically
    PROVE  PlaceInv'
<1> DEFINE c == Nearest(Candidates(WithSlot, i))
<1>1. /\ SlotIsFree /\ Candidates(WithSlot, i) # {}
      /\ instructions' = Move(WithSlot, c, i) /\ i' = i /\ UNCHANGED <<input, returned>>
  BY DEF FillAutomatically, Fill
<1>2. /\ PassInv /\ ~returned /\ input \in Seq(InstructionSet)
      /\ WithSlot \in Seq(InstructionSet) /\ i \in 1 .. Len(WithSlot)
      /\ isControl(WithSlot[i]) /\ isNop(WithSlot[i + 1])
  BY <1>1, FreeSlotFacts
<1>3. PICK f : Tracks(f, input, WithSlot) /\ Holds(f, input, WithSlot, i)
  BY <1>1, FreeSlotFacts
<1>4. c \in Candidates(WithSlot, i)
  BY <1>1, <1>2, NearestIsCandidate
<1> HIDE DEF c
<1>5. c \in 1 .. i - 1 /\ ~Pinned(WithSlot[c])
  BY <1>4 DEF Candidates, isAcceptableDelaySlotInstruction, Pinned
<1>6. Tracks(AfterMove(f, input, c, i), input, instructions')
  BY <1>1, <1>2, <1>3, <1>5, TracksMove
<1>7. Holds(AfterMove(f, input, c, i), input, instructions', i)
  BY <1>1, <1>2, <1>3, <1>4, HoldsMove
<1>8. PassInv'
  BY <1>2, FillKeeps
<1> QED  BY <1>1, <1>2, <1>6, <1>7, <1>8, PlaceFromParts

\* The position of a label depends on the labels alone.
LEMMA LabelPositionSame ==
    ASSUME NEW p \in Seq(InstructionSet), NEW q \in Seq(InstructionSet), SameTexts(p, q),
           NEW label
    PROVE  LabelPosition(q, label) = LabelPosition(p, label)
<1>1. DOMAIN p = 1 .. Len(p) /\ DOMAIN q = 1 .. Len(p)
  BY DEF SameTexts
<1>2. \A n \in 1 .. Len(p) : q[n].label = p[n].label
  <2> SUFFICES ASSUME NEW n \in 1 .. Len(p) PROVE q[n].label = p[n].label
    OBVIOUS
  <2>1. p[n] \in InstructionSet /\ q[n] \in InstructionSet /\ Text(q[n]) = Text(p[n])
    BY DEF SameTexts
  <2> QED  BY <2>1, SameTextSameKind
<1> DEFINE at(r) == {n \in DOMAIN r : r[n].label = label}
           Last(S) == IF label = "" \/ S = {} THEN 0 ELSE CHOOSE n \in S : \A m \in S : m <= n
<1>3. at(q) = at(p)
  BY <1>1, <1>2
<1>4. LabelPosition(p, label) = Last(at(p)) /\ LabelPosition(q, label) = Last(at(q))
  BY DEF LabelPosition
<1> HIDE DEF at, Last
<1> QED  BY <1>3, <1>4

\* In the end targets are resolved, and nothing else changes.
LEMMA ReturnPlaces ==
    ASSUME PlaceInv, Return
    PROVE  PlaceInv'
<1> DEFINE q == resolveTargets(instructions)
<1>1. instructions' = q /\ UNCHANGED <<input, i>>
  BY DEF Return
<1>2. /\ PassInv /\ AsNops(input)
      /\ input \in Seq(InstructionSet) /\ instructions \in Seq(InstructionSet)
  BY PlaceFacts
<1>3. PICK f : Tracks(f, input, instructions) /\ Holds(f, input, instructions, i)
  BY PlaceFacts
<1>4. /\ q \in Seq(InstructionSet) /\ SameTexts(instructions, q)
      /\ \A n \in 1 .. Len(instructions) :
           /\ q[n].manually_filled = instructions[n].manually_filled
           /\ isControl(instructions[n]) =>
                 q[n].target_index = LabelPosition(instructions, instructions[n].target_label)
  BY <1>2, ResolveText
<1> HIDE DEF q
<1>5. Tracks(f, input, q)
  BY <1>2, <1>3, <1>4, TracksTexts
<1>6. Holds(f, input, q, i)
  <2> SUFFICES ASSUME NEW b \in 1 .. Len(input), ManualSlot(input, b)
               PROVE  /\ f[b + 1] = f[b] + 1
                      /\ f[b] < i => q[f[b + 1]].manually_filled
    BY DEF Holds
  <2>1. f[b + 1] \in 1 .. Len(instructions)
    BY <1>2, <1>3, ManualSlotFacts
  <2> QED  BY <1>3, <1>4, <2>1 DEF Holds
<1>7. ASSUME NEW n \in 1 .. Len(q), isControl(q[n])
      PROVE  q[n].target_index = LabelPosition(q, q[n].target_label)
  <2>1. /\ n \in 1 .. Len(instructions) /\ Text(q[n]) = Text(instructions[n])
        /\ q[n] \in InstructionSet /\ instructions[n] \in InstructionSet
    BY <1>2, <1>4 DEF SameTexts
  <2>2. isControl(instructions[n]) /\ q[n].target_label = instructions[n].target_label
    BY <1>7, <2>1, SameTextSameKind
  <2>3. LabelPosition(q, q[n].target_label) = LabelPosition(instructions, q[n].target_label)
    BY <1>2, <1>4, LabelPositionSame
  <2> QED  BY <1>4, <2>1, <2>2, <2>3
<1>8. PassInv'
  BY <1>2, ReturnKeeps
<1>9. Tracks(f, input', instructions') /\ Holds(f, input', instructions', i') /\ AsNops(input')
  BY <1>1, <1>2, <1>5, <1>6
<1>10. \A n \in 1 .. Len(instructions') :
           isControl(instructions'[n]) =>
               instructions'[n].target_index
                 = LabelPosition(instructions', instructions'[n].target_label)
  BY <1>1, <1>7
<1> QED  BY <1>8, <1>9, <1>10, Zenon DEF PlaceInv

\* The invariant is inductive.
LEMMA PlaceInductive ==
    /\ Init /\ AsNops(input) => PlaceInv
    /\ PlaceInv /\ [Next]_vars => PlaceInv'
<1>1. Init /\ AsNops(input) => PlaceInv
  <2> SUFFICES ASSUME Init, AsNops(input) PROVE PlaceInv
    OBVIOUS
  <2>1. PassInv
    BY PassInductive
  <2>2. /\ instructions = input /\ input \in Seq(InstructionSet) /\ i = 1 /\ ~returned
    BY DEF Init, Start
  <2> DEFINE f == [n \in 1 .. Len(input) |-> n]
  <2>3. f \in [1 .. Len(input) -> 1 .. Len(input)] /\ \A n \in 1 .. Len(input) : f[n] = n
    OBVIOUS
  <2> HIDE DEF f
  <2>4. Tracks(f, input, instructions)
    BY <2>2, <2>3 DEF Tracks
  <2>5. Holds(f, input, instructions, i)
    <3> SUFFICES ASSUME NEW b \in 1 .. Len(input), ManualSlot(input, b)
                 PROVE  f[b + 1] = f[b] + 1 /\ ~(f[b] < i)
      BY DEF Holds
    <3>1. Len(input) \in Nat
      BY <2>2
    <3>2. b + 1 \in 1 .. Len(input) /\ ~(b < i)
      BY <2>2, <3>1 DEF ManualSlot
    <3>3. f[b] = b /\ f[b + 1] = b + 1
      BY <2>3, <3>2
    <3> QED  BY <3>2, <3>3
  <2> QED  BY <2>1, <2>2, <2>4, <2>5 DEF PlaceInv
<1>2. PlaceInv /\ UNCHANGED vars => PlaceInv'
  <2> SUFFICES ASSUME PlaceInv, UNCHANGED vars PROVE PlaceInv'
    OBVIOUS
  <2>1. input' = input /\ instructions' = instructions /\ i' = i /\ returned' = returned
    BY DEF vars
  <2>2. PassInv'
    <3>1. PassInv
      BY DEF PlaceInv
    <3> QED  BY <3>1, PassInductive
  <2> QED  BY <2>1, <2>2 DEF PlaceInv
<1> QED  BY <1>1, <1>2, SkipPlaces, KeepManualPlaces, UseNopPlaces, FillPlaces, ReturnPlaces
            DEF Next

-----------------------------------------------------------------------------
(* What follows from the places.                                           *)

\* A map between sets of positions that takes each to one of the other set, no two to
\* the same, and reaches all shows that they have as many members.
LEMMA SameNumber ==
    ASSUME NEW N \in Nat, NEW S \in SUBSET (1 .. N), NEW T, NEW f,
           \A n \in S : f[n] \in T,
           \A m, n \in S : f[m] = f[n] => m = n,
           \A k \in T : \E n \in S : k = f[n]
    PROVE  Cardinality(T) = Cardinality(S)
<1> DEFINE g == [n \in S |-> f[n]]
<1>1. g \in [S -> T] /\ \A n \in S : g[n] = f[n]
  OBVIOUS
<1> HIDE DEF g
<1>2. g \in Bijection(S, T)
  BY <1>1 DEF Bijection, Injection, Surjection, IsInjective
<1>3. ExistsBijection(S, T)
  BY <1>2 DEF ExistsBijection
<1>4. IsFiniteSet(S)
  <2>1. IsFiniteSet(1 .. N)
    BY FS_Interval
  <2> QED  BY <2>1, FS_Subset
<1> QED  BY <1>3, <1>4, FS_Bijection

\* An instruction that is not a plain nop has a place.
LEMMA HasPlace ==
    ASSUME NEW p \in Seq(InstructionSet), NEW q \in Seq(InstructionSet),
           NEW f, Tracks(f, p, q), NEW k \in 1 .. Len(q), ~isNop(q[k]) \/ hasLabel(q[k])
    PROVE  \E n \in 1 .. Len(p) : k = f[n] /\ Text(q[k]) = Text(p[n])
<1>1. Text(q[k]) # NopInstruction
  <2>1. SUFFICES ASSUME Text(q[k]) = NopInstruction PROVE FALSE
    OBVIOUS
  <2>2. q[k] \in InstructionSet /\ NopInstruction \in InstructionSet
        /\ Text(q[k]) = Text(NopInstruction)
    BY <2>1, NopType, NopText
  <2>3. isNop(NopInstruction) /\ ~hasLabel(NopInstruction)
    BY DEF NopInstruction, isNop, hasLabel
  <2> QED  BY <2>2, <2>3, SameTextSameKind
<1> QED  BY <1>1 DEF Tracks

\* Where an instruction stands that is spelt so.
PlacesOf(program, text) == {n \in 1 .. Len(program) : Text(program[n]) = text}

\* It stands in as many places as before.
LEMMA NoneLost ==
    ASSUME NEW p \in Seq(InstructionSet), NEW q \in Seq(InstructionSet),
           NEW f, Tracks(f, p, q), NEW text, ~isNop(text) \/ hasLabel(text)
    PROVE  Cardinality(PlacesOf(q, text)) = Cardinality(PlacesOf(p, text))
<1>1. PlacesOf(p, text) \in SUBSET (1 .. Len(p)) /\ Len(p) \in Nat
  BY DEF PlacesOf
<1>2. \A n \in PlacesOf(p, text) : f[n] \in PlacesOf(q, text)
  BY DEF PlacesOf, Tracks
<1>3. \A m, n \in PlacesOf(p, text) : f[m] = f[n] => m = n
  BY DEF PlacesOf, Tracks
<1>4. ASSUME NEW k \in PlacesOf(q, text)
      PROVE  \E n \in PlacesOf(p, text) : k = f[n]
  <2>1. k \in 1 .. Len(q) /\ Text(q[k]) = text /\ q[k] \in InstructionSet
    BY DEF PlacesOf
  <2>2. ~isNop(q[k]) \/ hasLabel(q[k])
    BY <2>1, TextFacts
  <2>3. PICK n \in 1 .. Len(p) : k = f[n] /\ Text(q[k]) = Text(p[n])
    BY <2>1, <2>2, HasPlace
  <2> QED  BY <2>1, <2>3 DEF PlacesOf
<1> QED  BY <1>1, <1>2, <1>3, <1>4, SameNumber

\* A control instruction comes after as many others as before.
LEMMA SameRank ==
    ASSUME NEW p \in Seq(InstructionSet), NEW q \in Seq(InstructionSet),
           NEW f, Tracks(f, p, q), NEW b \in 1 .. Len(p), isControl(p[b])
    PROVE  ControlsUpTo(q, f[b]) = ControlsUpTo(p, b)
<1> DEFINE S == {n \in 1 .. b : isControl(p[n])}
           T == {n \in 1 .. f[b] : isControl(q[n])}
<1>1. Len(p) \in Nat /\ Len(q) \in Nat /\ b \in Nat /\ f[b] \in 1 .. Len(q) /\ f[b] \in Nat
  <2>1. f[b] \in 1 .. Len(q)
    BY DEF Tracks
  <2> QED  BY <2>1
<1>2. /\ \A n \in 1 .. Len(p) : f[n] \in 1 .. Len(q)
      /\ \A m, n \in 1 .. Len(p) : f[m] = f[n] => m = n
      /\ \A m, n \in 1 .. Len(p) : m < n /\ Pinned(p[m]) /\ Pinned(p[n]) => f[m] < f[n]
  BY DEF Tracks
<1>3. \A n \in 1 .. Len(p) : isControl(q[f[n]]) <=> isControl(p[n])
  <2> SUFFICES ASSUME NEW n \in 1 .. Len(p) PROVE isControl(q[f[n]]) <=> isControl(p[n])
    OBVIOUS
  <2>1. f[n] \in 1 .. Len(q) /\ Text(q[f[n]]) = Text(p[n])
    BY <1>2 DEF Tracks
  <2>2. q[f[n]] \in InstructionSet /\ p[n] \in InstructionSet
    BY <2>1
  <2> QED  BY <2>1, <2>2, SameTextSameKind
<1>4. ASSUME NEW n \in S PROVE n \in 1 .. Len(p) /\ f[n] \in T
  <2>1. n \in 1 .. Len(p) /\ n \in Nat /\ (n < b \/ n = b) /\ isControl(p[n])
    BY <1>1
  <2>2. f[n] < f[b] \/ f[n] = f[b]
    BY <1>2, <2>1 DEF Pinned
  <2>3. f[n] \in 1 .. f[b]
    <3>1. f[n] \in 1 .. Len(q)
      BY <1>2, <2>1
    <3> QED  BY <1>1, <2>2, <3>1
  <2> QED  BY <1>3, <2>1, <2>3
<1>5. ASSUME NEW k \in T PROVE \E n \in S : k = f[n]
  <2>1. k \in 1 .. Len(q) /\ k \in Nat /\ k <= f[b] /\ isControl(q[k])
    BY <1>1
  <2>2. ~isNop(q[k])
    BY <2>1 DEF isControl, isBranch, isJump, isNop
  <2>3. PICK n \in 1 .. Len(p) : k = f[n]
    BY <2>1, <2>2, HasPlace
  <2>4. isControl(p[n])
    BY <1>3, <2>1, <2>3
  <2>5. ~(b < n)
    <3> SUFFICES ASSUME b < n PROVE FALSE
      OBVIOUS
    <3>1. f[b] < f[n]
      BY <1>2, <2>4 DEF Pinned
    <3> QED  BY <1>1, <2>1, <2>3, <3>1
  <2>6. n \in 1 .. b
    BY <1>1, <2>5
  <2> QED  BY <2>3, <2>4, <2>6
<1>6. S \in SUBSET (1 .. Len(p))
  BY <1>4
<1>7. Cardinality(T) = Cardinality(S)
  <2> HIDE DEF S, T
  <2> QED  BY <1>1, <1>2, <1>4, <1>5, <1>6, SameNumber
<1> QED  BY <1>7 DEF ControlsUpTo

\* A label is bound to the last position that has it.
LEMMA LabelPositionFacts ==
    ASSUME NEW p \in Seq(InstructionSet), NEW label
    PROVE  LET at == {n \in DOMAIN p : p[n].label = label}
               t == LabelPosition(p, label)
           IN  /\ label = "" \/ at = {} => t = 0
               /\ ~(label = "" \/ at = {}) => t \in at /\ \A m \in at : m <= t
<1> DEFINE at == {n \in DOMAIN p : p[n].label = label}
           t == LabelPosition(p, label)
<1>1. Len(p) \in Nat /\ at \subseteq 1 .. Len(p)
  OBVIOUS
<1>2. t = IF label = "" \/ at = {} THEN 0 ELSE CHOOSE n \in at : \A m \in at : m <= n
  BY DEF LabelPosition
<1> HIDE DEF at, t
<1>3. at # {} => \E n \in at : \A m \in at : m <= n
  BY <1>1, GreatestExists
<1>4. at # {} => LET g == CHOOSE n \in at : \A m \in at : m <= n
                 IN  g \in at /\ \A m \in at : m <= g
  BY <1>3
<1>5. ~(label = "" \/ at = {}) => t \in at /\ \A m \in at : m <= t
  BY <1>2, <1>4, Zenon
<1>6. label = "" \/ at = {} => t = 0
  BY <1>2, Zenon
<1> QED  BY <1>5, <1>6 DEF at, t

\* A label leads to the place of the instruction it led to.
LEMMA LabelFollows ==
    ASSUME NEW p \in Seq(InstructionSet), NEW q \in Seq(InstructionSet),
           NEW f, Tracks(f, p, q), NEW label
    PROVE  LET t == LabelPosition(p, label)
               u == LabelPosition(q, label)
           IN  /\ t = 0 => u = 0
               /\ t # 0 => t \in 1 .. Len(p) /\ u = f[t]
<1> DEFINE t == LabelPosition(p, label)
           u == LabelPosition(q, label)
           at(r) == {n \in DOMAIN r : r[n].label = label}
<1>1. /\ label = "" \/ at(p) = {} => t = 0
      /\ ~(label = "" \/ at(p) = {}) => t \in at(p) /\ \A m \in at(p) : m <= t
  BY LabelPositionFacts
<1>2. /\ label = "" \/ at(q) = {} => u = 0
      /\ ~(label = "" \/ at(q) = {}) => u \in at(q) /\ \A m \in at(q) : m <= u
  BY LabelPositionFacts
<1>3. CASE label = ""
  BY <1>1, <1>2, <1>3
<1>4. ASSUME label # "" PROVE \A n \in at(p) : n \in 1 .. Len(p) /\ f[n] \in at(q)
  <2> SUFFICES ASSUME NEW n \in 1 .. Len(p), p[n].label = label
               PROVE  f[n] \in 1 .. Len(q) /\ q[f[n]].label = label
    OBVIOUS
  <2>1. f[n] \in 1 .. Len(q) /\ Text(q[f[n]]) = Text(p[n])
    BY DEF Tracks
  <2>2. q[f[n]] \in InstructionSet /\ p[n] \in InstructionSet
    BY <2>1
  <2> QED  BY <2>1, <2>2, SameTextSameKind
<1>5. ASSUME label # "" PROVE \A k \in at(q) : \E n \in at(p) : k = f[n]
  <2> SUFFICES ASSUME NEW k \in 1 .. Len(q), q[k].label = label
               PROVE  \E n \in at(p) : k = f[n]
    OBVIOUS
  <2>1. hasLabel(q[k])
    BY <1>5 DEF hasLabel
  <2>2. PICK n \in 1 .. Len(p) : k = f[n] /\ Text(q[k]) = Text(p[n])
    BY <2>1, HasPlace
  <2>3. q[k] \in InstructionSet /\ p[n] \in InstructionSet
    OBVIOUS
  <2>4. p[n].label = label
    BY <2>2, <2>3, SameTextSameKind
  <2> QED  BY <2>2, <2>4
<1>6. ASSUME label # "", NEW m \in at(p), NEW n \in at(p), m < n PROVE f[m] < f[n]
  <2>1. /\ m \in 1 .. Len(p) /\ n \in 1 .. Len(p)
        /\ Pinned(p[m]) /\ Pinned(p[n])
    <3>1. /\ m \in 1 .. Len(p) /\ n \in 1 .. Len(p)
          /\ p[m].label = label /\ p[n].label = label
      OBVIOUS
    <3> QED  BY <1>6, <3>1, Zenon DEF Pinned, hasLabel
  <2> QED  BY <1>6, <2>1 DEF Tracks
<1>7. at(p) \subseteq 1 .. Len(p) /\ Len(p) \in Nat /\ at(q) \subseteq 1 .. Len(q) /\ Len(q) \in Nat
  OBVIOUS
<1> HIDE DEF t, u, at
<1>8. CASE label # ""
  <2>1. /\ at(p) = {} => t = 0
        /\ at(p) # {} => t \in at(p) /\ \A m \in at(p) : m <= t
        /\ at(q) = {} => u = 0
        /\ at(q) # {} => u \in at(q) /\ \A m \in at(q) : m <= u
    BY <1>1, <1>2, <1>8, Zenon
  <2>2. /\ \A n \in at(p) : n \in 1 .. Len(p) /\ f[n] \in at(q)
        /\ \A k \in at(q) : \E n \in at(p) : k = f[n]
        /\ \A m, n \in at(p) : m < n => f[m] < f[n]
    BY <1>4, <1>5, <1>6, <1>8, Zenon
  <2>3. CASE at(p) = {}
    <3>1. at(q) = {}
      BY <2>2, <2>3
    <3> QED  BY <2>1, <2>3, <3>1 DEF t, u
  <2>4. CASE at(p) # {}
    <3>1. t \in at(p) /\ f[t] \in at(q) /\ t \in 1 .. Len(p) /\ t # 0
      <4>1. t \in at(p)
        BY <2>1, <2>4
      <4> QED  BY <1>7, <2>2, <4>1
    <3>2. u \in at(q) /\ f[t] <= u
      BY <2>1, <3>1
    <3>3. PICK n \in at(p) : u = f[n]
      BY <2>2, <3>2
    <3>4. n = t \/ n < t
      <4>1. n <= t /\ n \in Nat /\ t \in Nat
        BY <1>7, <2>1, <2>4, <3>1, <3>3
      <4> QED  BY <4>1
    <3>5. u = f[t]
      <4>1. n < t => f[n] < f[t]
        BY <2>2, <3>1, <3>3
      <4>2. f[t] \in Nat /\ u \in Nat
        BY <1>7, <3>1, <3>2
      <4> QED  BY <3>2, <3>3, <3>4, <4>1, <4>2
    <3> QED  BY <3>1, <3>5 DEF t, u
  <2> QED  BY <2>3, <2>4
<1> QED  BY <1>3, <1>8

\* The places give the three properties.
LEMMA PlacesSuffice ==
    ASSUME PlaceInv
    PROVE  NothingLost /\ ManualSlotsKept /\ TargetsFollow
<1>1. /\ input \in Seq(InstructionSet) /\ instructions \in Seq(InstructionSet)
      /\ Len(input) \in Nat /\ Len(instructions) \in Nat
      /\ DOMAIN input = 1 .. Len(input) /\ DOMAIN instructions = 1 .. Len(instructions)
  BY PlaceFacts
<1>2. PICK f : Tracks(f, input, instructions) /\ Holds(f, input, instructions, i)
  BY PlaceFacts
<1>3. NothingLost
  <2>1. \A text : ~isNop(text) \/ hasLabel(text) =>
            Cardinality(PlacesOf(instructions, text)) = Cardinality(PlacesOf(input, text))
    BY <1>1, <1>2, NoneLost
  <2> QED  BY <1>1, <2>1, Zenon DEF NothingLost, PlacesOf
<1>4. ManualSlotsKept
  <2> SUFFICES ASSUME NEW b \in 1 .. Len(input) - 1, ManualSlot(input, b)
               PROVE  \E c \in 1 .. Len(instructions) - 1 :
                         /\ isControl(instructions[c])
                         /\ ControlsUpTo(instructions, c) = ControlsUpTo(input, b)
                         /\ Text(instructions[c]) = Text(input[b])
                         /\ Text(instructions[c + 1]) = Text(input[b + 1])
    BY DEF ManualSlotsKept, ManualSlot
  <2>1. /\ b \in 1 .. Len(input) /\ b + 1 \in 1 .. Len(input)
        /\ f[b] \in 1 .. Len(instructions) /\ f[b + 1] \in 1 .. Len(instructions)
        /\ isControl(instructions[f[b]])
    BY <1>1, <1>2, ManualSlotFacts
  <2>2. f[b + 1] = f[b] + 1
    BY <1>2, <2>1 DEF Holds
  <2>3. f[b] \in 1 .. Len(instructions) - 1
    BY <1>1, <2>1, <2>2
  <2>4. ControlsUpTo(instructions, f[b]) = ControlsUpTo(input, b)
    BY <1>1, <1>2, <2>1, SameRank DEF ManualSlot
  <2>5. /\ Text(instructions[f[b]]) = Text(input[b])
        /\ Text(instructions[f[b] + 1]) = Text(input[b + 1])
    BY <1>2, <2>1, <2>2 DEF Tracks
  <2> QED  BY <2>1, <2>3, <2>4, <2>5
<1>5. TargetsFollow
  <2> DEFINE target(n) == LabelPosition(input, instructions[n].target_label)
  <2> SUFFICES ASSUME returned, NEW n \in 1 .. Len(instructions), isControl(instructions[n])
               PROVE  IF target(n) = 0 THEN instructions[n].target_index = 0
                      ELSE /\ instructions[n].target_index \in 1 .. Len(instructions)
                           /\ Text(instructions[instructions[n].target_index])
                                = Text(input[target(n)])
    BY <1>1 DEF TargetsFollow
  <2>1. instructions[n].target_index
          = LabelPosition(instructions, instructions[n].target_label)
    BY DEF PlaceInv
  <2>2. /\ target(n) = 0 => instructions[n].target_index = 0
        /\ target(n) # 0 => /\ target(n) \in 1 .. Len(input)
                            /\ instructions[n].target_index = f[target(n)]
    BY <1>1, <1>2, <2>1, LabelFollows
  <2> HIDE DEF target
  <2>3. ASSUME target(n) \in 1 .. Len(input)
        PROVE  /\ f[target(n)] \in 1 .. Len(instructions)
               /\ Text(instructions[f[target(n)]]) = Text(input[target(n)])
    BY <1>2, <2>3 DEF Tracks
  <2> QED  BY <2>2, <2>3
<1> QED  BY <1>3, <1>4, <1>5

\* scheduler.cpp:209: for every program, whatever is erased and inserted, each
\* instruction that is not a plain nop is there as often in the end as in the beginning.
THEOREM InstructionsKept == Spec /\ AsNops(input) => []NothingLost
BY PlaceInductive, PlacesSuffice, PTL DEF Spec

\* scheduler.cpp:173: for every program what the programmer put behind the n-th control
\* instruction is behind the n-th control instruction of the result.
THEOREM FilledSlotsKept == Spec /\ AsNops(input) => []ManualSlotsKept
BY PlaceInductive, PlacesSuffice, PTL DEF Spec

\* scheduler.cpp:240: for every program the targets in the result are the instructions
\* that were the targets in the input.
THEOREM TargetsKept == Spec /\ AsNops(input) => []TargetsFollow
BY PlaceInductive, PlacesSuffice, PTL DEF Spec

-----------------------------------------------------------------------------
(* Decisions.                                                              *)

\* A decision is true of a program as it is of another one, with the same texts up to
\* the slot.
LEMMA TrueOfSame ==
    ASSUME NEW p \in Seq(InstructionSet), NEW q \in Seq(InstructionSet),
           NEW d \in DecisionSet, TrueOf(d, p), Len(p) <= Len(q), d.branch_index # 0,
           Text(q[d.branch_index]) = Text(p[d.branch_index]),
           Text(q[d.branch_index + 1]) = Text(p[d.branch_index + 1])
    PROVE  TrueOf(d, q)
<1> DEFINE b == d.branch_index
<1>1. b \in Nat /\ Len(p) \in Nat /\ Len(q) \in Nat /\ DOMAIN q = 1 .. Len(q)
      /\ DOMAIN p = 1 .. Len(p)
  BY DEF DecisionSet
<1>2. /\ b + 1 \in 1 .. Len(p) /\ isControl(p[b])
      /\ IF d.outcome = "nop" THEN isNop(p[b + 1]) ELSE Text(p[b + 1]) = Text(d.slot)
  BY <1>1 DEF TrueOf
<1>3. b + 1 \in 1 .. Len(q) /\ b \in 1 .. Len(q) /\ b \in 1 .. Len(p)
  BY <1>1, <1>2
<1>4. /\ p[b] \in InstructionSet /\ q[b] \in InstructionSet
      /\ p[b + 1] \in InstructionSet /\ q[b + 1] \in InstructionSet
  BY <1>2, <1>3
<1>5. isControl(q[b])
  BY <1>2, <1>4, SameTextSameKind
<1>6. isNop(q[b + 1]) <=> isNop(p[b + 1])
  BY <1>4, SameTextSameKind
<1> QED  BY <1>1, <1>2, <1>3, <1>5, <1>6 DEF TrueOf

\* A step that adds one decision, or none, keeps DecisionsStayTrue if it keeps the old
\* ones and the new one is true.
DecisionsKept ==
    \A n \in DOMAIN decisions' :
        \/ TrueOf(decisions'[n], instructions')
        \/ n \in DOMAIN decisions /\ ~TrueOf(decisions[n], instructions)
        \/ n \in DOMAIN decisions /\ FillAutomatically /\ TakesFromSlot

\* Decisions are made on control instructions that the loop has passed.
LEMMA DecidedBefore ==
    ASSUME PassInv
    PROVE  /\ decisions \in Seq(DecisionSet) /\ DOMAIN decisions = 1 .. Len(decisions)
           /\ \A n \in DOMAIN decisions :
                 LET b == decisions[n].branch_index
                 IN  /\ decisions[n] \in DecisionSet
                     /\ b \in 1 .. i - 1 /\ isControl(instructions[b])
<1>1. decisions \in Seq(DecisionSet) /\ Indices(decisions) = Controls(instructions, i - 1)
  BY DEF PassInv, TypeOK
<1>2. ASSUME NEW n \in DOMAIN decisions
      PROVE  decisions[n].branch_index \in Controls(instructions, i - 1)
  BY <1>1 DEF Indices
<1> QED  BY <1>1, <1>2 DEF Controls

\* One decision more.
LEMMA OneMoreKept ==
    ASSUME PassInv, NEW e, decisions' = Append(decisions, e), TrueOf(e, instructions'),
           \A n \in DOMAIN decisions :
              \/ TrueOf(decisions[n], instructions) => TrueOf(decisions[n], instructions')
              \/ FillAutomatically /\ TakesFromSlot
    PROVE  DecisionsKept
<1>1. decisions \in Seq(DecisionSet) /\ DOMAIN decisions = 1 .. Len(decisions)
  BY DecidedBefore
<1>2. /\ DOMAIN decisions' = 1 .. Len(decisions) + 1 /\ Len(decisions) \in Nat
      /\ decisions'[Len(decisions) + 1] = e
      /\ \A n \in 1 .. Len(decisions) : decisions'[n] = decisions[n]
  BY <1>1
<1>3. \A n \in 1 .. Len(decisions) + 1 : n \in 1 .. Len(decisions) \/ n = Len(decisions) + 1
  BY <1>2
<1> QED  BY <1>1, <1>2, <1>3, Zenon DEF DecisionsKept

\* No decision more.
LEMMA NoMoreKept ==
    ASSUME PassInv, decisions' = decisions,
           \A n \in DOMAIN decisions :
              TrueOf(decisions[n], instructions) => TrueOf(decisions[n], instructions')
    PROVE  DecisionsKept
BY Zenon DEF DecisionsKept

\* The slots of the decided control instructions are in front of position k, and the
\* program has the same texts up to there.
LEMMA SamePrefixKept ==
    ASSUME PassInv, NEW q \in Seq(InstructionSet), Len(instructions) <= Len(q),
           NEW d \in DecisionSet, NEW k \in Nat,
           d.branch_index \in 1 .. k - 1,
           \A n \in 1 .. k : n \in 1 .. Len(instructions) => Text(q[n]) = Text(instructions[n]),
           TrueOf(d, instructions)
    PROVE  TrueOf(d, q)
<1> DEFINE b == d.branch_index
<1>1. instructions \in Seq(InstructionSet)
  BY DEF PassInv, TypeOK
<1>2. Len(instructions) \in Nat /\ DOMAIN instructions = 1 .. Len(instructions) /\ b \in Nat
  BY <1>1
<1>3. b + 1 \in 1 .. Len(instructions)
  BY <1>2 DEF TrueOf
<1>4. b \in 1 .. k /\ b + 1 \in 1 .. k /\ b \in 1 .. Len(instructions) /\ b # 0
  BY <1>2, <1>3
<1> QED  BY <1>1, <1>3, <1>4, TrueOfSame

\* The mark changes no text.
LEMMA KeepManualTrue ==
    ASSUME PassInv, KeepManual
    PROVE  DecisionsKept
<1> DEFINE q == [instructions EXCEPT ![i + 1].manually_filled = TRUE]
           e == Decision(i, "manual", instructions[i + 1])
<1>1. /\ AtControl /\ i < Len(instructions) /\ i <= Len(instructions)
      /\ isControl(instructions[i])
      /\ instructions' = q /\ decisions' = Append(decisions, e)
  BY DEF KeepManual, AtControl
<1>2. instructions \in Seq(InstructionSet) /\ i \in Nat /\ i \in 1 .. Len(instructions)
  BY <1>1, AtPosition
<1>3. i + 1 \in 1 .. Len(instructions)
  BY <1>1, <1>2
<1>4. q \in Seq(InstructionSet) /\ SameTexts(instructions, q)
  BY <1>2, <1>3, MarkText
<1> HIDE DEF q
<1>5. /\ Len(q) = Len(instructions) /\ DOMAIN q = 1 .. Len(instructions)
      /\ \A n \in 1 .. Len(instructions) : Text(q[n]) = Text(instructions[n])
  BY <1>4 DEF SameTexts
<1>6. TrueOf(e, q)
  <2>1. e.branch_index = i /\ e.outcome = "manual" /\ e.slot = instructions[i + 1]
    BY DEF Decision
  <2>2. isControl(q[i])
    <3>1. q[i] \in InstructionSet /\ instructions[i] \in InstructionSet
      BY <1>2, <1>4, <1>5
    <3> QED  BY <1>1, <1>2, <1>5, <3>1, SameTextSameKind
  <2>3. Text(q[i + 1]) = Text(instructions[i + 1])
    BY <1>3, <1>5
  <2> HIDE DEF e
  <2> QED  BY <1>3, <1>5, <2>1, <2>2, <2>3 DEF TrueOf
<1>7. Len(instructions) <= Len(q)
  BY <1>2, <1>5
<1>8. ASSUME NEW n \in DOMAIN decisions, TrueOf(decisions[n], instructions)
      PROVE  TrueOf(decisions[n], q)
  BY <1>2, <1>4, <1>5, <1>7, <1>8, DecidedBefore, SamePrefixKept
<1> HIDE DEF e
<1> QED  BY <1>1, <1>6, <1>8, OneMoreKept

\* The nop is behind the control instruction at i.
LEMMA UseNopTrue ==
    ASSUME PassInv, UseNop
    PROVE  DecisionsKept
<1> DEFINE q == [WithSlot EXCEPT ![i + 1].opcode = "nop"]
           e == Decision(i, "nop", NopInstruction)
<1>1. /\ i <= Len(instructions) /\ isControl(instructions[i])
      /\ instructions' = q /\ decisions' = Append(decisions, e)
  BY DEF UseNop, LeaveNop, SlotIsFree, AtControl
<1>2. /\ instructions \in Seq(InstructionSet) /\ i \in Nat /\ i \in 1 .. Len(instructions)
      /\ Len(instructions) \in Nat
  BY <1>1, AtPosition
<1>3. /\ WithSlot \in Seq(InstructionSet)
      /\ Len(WithSlot) \in Nat /\ i + 1 \in 1 .. Len(WithSlot)
      /\ Len(instructions) <= Len(WithSlot)
      /\ \A n \in 1 .. Len(instructions) : WithSlot[n] = instructions[n]
  BY <1>2, WithSlotFacts
<1>4. WithSlot[i + 1] \in InstructionSet
  BY <1>3
<1>5. /\ q \in Seq(InstructionSet) /\ Len(q) = Len(WithSlot) /\ isNop(q[i + 1])
      /\ \A n \in 1 .. Len(WithSlot) : n # i + 1 => q[n] = WithSlot[n]
  <2> DEFINE x == [WithSlot[i + 1] EXCEPT !.opcode = "nop"]
  <2>1. x \in InstructionSet /\ isNop(x)
    BY <1>4 DEF InstructionSet, OpCode, isNop
  <2>2. q = [WithSlot EXCEPT ![i + 1] = x]
    OBVIOUS
  <2> HIDE DEF x, q
  <2> QED  BY <1>3, <2>1, <2>2
<1> HIDE DEF q
<1>6. \A n \in 1 .. i : q[n] = instructions[n]
  <2>1. \A n \in 1 .. i : n \in 1 .. Len(instructions) /\ n \in 1 .. Len(WithSlot) /\ n # i + 1
    BY <1>2, <1>3
  <2> QED  BY <1>3, <1>5, <2>1
<1>7. TrueOf(e, q)
  <2>1. e.branch_index = i /\ e.outcome = "nop"
    BY DEF Decision
  <2>2. i \in 1 .. i
    BY <1>2
  <2>3. i + 1 \in DOMAIN q
    BY <1>3, <1>5
  <2> HIDE DEF e
  <2> QED  BY <1>1, <1>5, <1>6, <2>1, <2>2, <2>3 DEF TrueOf
<1>8. Len(instructions) <= Len(q)
  BY <1>3, <1>5
<1>9. ASSUME NEW n \in DOMAIN decisions, TrueOf(decisions[n], instructions)
      PROVE  TrueOf(decisions[n], q)
  BY <1>2, <1>5, <1>6, <1>8, <1>9, DecidedBefore, SamePrefixKept
<1> HIDE DEF e
<1> QED  BY <1>1, <1>7, <1>9, OneMoreKept

\* The control instruction and its new slot are in front of the loop, and everything in
\* front of the candidate is as it was: no control instruction is between, so a slot
\* changes only if the candidate is in it.
LEMMA FillTrue ==
    ASSUME PassInv, FillAutomatically
    PROVE  DecisionsKept
<1> DEFINE c == Nearest(Candidates(WithSlot, i))
           q == Move(WithSlot, c, i)
           e == Decision(i - 1, "filled", WithSlot[c])
<1>1. /\ i <= Len(instructions) /\ isControl(instructions[i])
      /\ Candidates(WithSlot, i) # {}
      /\ instructions' = q /\ decisions' = Append(decisions, e)
  BY DEF FillAutomatically, Fill, SlotIsFree, AtControl
<1>2. /\ instructions \in Seq(InstructionSet) /\ i \in Nat /\ i \in 1 .. Len(instructions)
      /\ Len(instructions) \in Nat
  BY <1>1, AtPosition
<1>3. /\ WithSlot \in Seq(InstructionSet)
      /\ Len(WithSlot) \in Nat /\ i + 1 \in 1 .. Len(WithSlot)
      /\ Len(instructions) <= Len(WithSlot)
      /\ \A n \in 1 .. Len(instructions) : WithSlot[n] = instructions[n]
  BY <1>2, WithSlotFacts
<1>4. i \in 1 .. Len(WithSlot)
  BY <1>2, <1>3
<1>5. /\ c \in 1 .. i - 1 /\ ~isControl(WithSlot[c])
      /\ \A k \in c + 1 .. i - 1 : ~isControl(WithSlot[k])
  BY <1>1, <1>3, <1>4, NearestIsCandidate, CandidateFacts, Zenon
<1>6. TakesFromSlot <=> c > 1 /\ isControl(instructions[c - 1])
  BY DEF TakesFromSlot
<1> HIDE DEF c
<1>7. /\ q \in Seq(InstructionSet) /\ Len(q) = Len(WithSlot)
      /\ \A k \in 1 .. c - 1 : q[k] = WithSlot[k]
      /\ \A k \in c .. i - 1 : q[k] = WithSlot[k + 1]
      /\ q[i] = WithSlot[c]
  <2>1. WithSlot \in Seq(InstructionSet) /\ i \in 1 .. Len(WithSlot) /\ c \in 1 .. i - 1
    BY <1>3, <1>4, <1>5, Zenon
  <2> QED  BY <2>1, MoveShape
<1>8. c \in Nat /\ 1 <= c /\ c <= i - 1
  BY <1>2, <1>5
<1> HIDE DEF q
<1>9. TrueOf(e, q)
  <2>1. e.branch_index = i - 1 /\ e.outcome = "filled" /\ e.slot = WithSlot[c]
    BY DEF Decision
  <2>2. i - 1 \in c .. i - 1 /\ (i - 1) + 1 = i
    BY <1>2, <1>8
  <2>3. isControl(q[i - 1])
    BY <1>1, <1>2, <1>3, <1>7, <2>2
  <2>4. i \in DOMAIN q
    BY <1>4, <1>7
  <2> HIDE DEF e
  <2> QED  BY <1>7, <2>1, <2>2, <2>3, <2>4 DEF TrueOf
<1>10. Len(instructions) <= Len(q)
  BY <1>3, <1>7
<1>11. \A n \in 1 .. c - 1 : n \in 1 .. Len(instructions) /\ q[n] = instructions[n]
  <2>1. \A n \in 1 .. c - 1 : n \in 1 .. Len(instructions)
    BY <1>2, <1>8
  <2> QED  BY <1>3, <1>7, <2>1
<1>12. ASSUME NEW n \in DOMAIN decisions, TrueOf(decisions[n], instructions), ~TakesFromSlot
       PROVE  TrueOf(decisions[n], q)
  <2> DEFINE b == decisions[n].branch_index
  <2>1. decisions[n] \in DecisionSet /\ b \in 1 .. i - 1 /\ isControl(instructions[b])
    BY DecidedBefore
  <2>2. b \in 1 .. Len(instructions) /\ b \in Nat
    BY <1>2, <2>1
  <2>3. b # c /\ b \notin c + 1 .. i - 1 /\ b # c - 1
    <3>1. isControl(WithSlot[b])
      BY <1>3, <2>1, <2>2
    <3>2. c > 1 => ~isControl(instructions[c - 1])
      BY <1>6, <1>12
    <3> QED  BY <1>5, <1>8, <2>1, <2>2, <3>1, <3>2
  <2>4. b \in 1 .. (c - 1) - 1 /\ c - 1 \in Nat
    BY <1>2, <1>8, <2>1, <2>2, <2>3
  <2> QED  BY <1>7, <1>10, <1>11, <1>12, <2>1, <2>4, SamePrefixKept
<1> HIDE DEF e
<1> QED  BY <1>1, <1>9, <1>12, OneMoreKept

\* Resolved targets change no text.
LEMMA ReturnTrue ==
    ASSUME PassInv, Return
    PROVE  DecisionsKept
<1>1. instructions' = resolveTargets(instructions) /\ decisions' = decisions
  BY DEF Return
<1>2. instructions \in Seq(InstructionSet) /\ Len(instructions) \in Nat /\ i \in Nat
  <2>1. instructions \in Seq(InstructionSet) /\ i \in 1 .. Len(instructions) + 1
    BY DEF PassInv, TypeOK
  <2> QED  BY <2>1
<1>3. /\ instructions' \in Seq(InstructionSet)
      /\ SameTexts(instructions, instructions')
  BY <1>1, <1>2, ResolveText
<1>4. /\ Len(instructions) <= Len(instructions')
      /\ \A n \in 1 .. Len(instructions) : Text(instructions'[n]) = Text(instructions[n])
  BY <1>2, <1>3 DEF SameTexts
<1>5. ASSUME NEW n \in DOMAIN decisions, TrueOf(decisions[n], instructions)
      PROVE  TrueOf(decisions[n], instructions')
  BY <1>2, <1>3, <1>4, <1>5, DecidedBefore, SamePrefixKept
<1> QED  BY <1>1, <1>5, NoMoreKept

\* scheduler.cpp:217: for every program a decision stays true of the program while the
\* rest of it is moved about, but for a slot whose instruction is taken away again.
THEOREM DecisionsAlwaysTrue == Spec => DecisionsStayTrue
<1>1. PassInv /\ [Next]_vars => [DecisionsKept]_vars
  <2>1. ASSUME PassInv, Skip PROVE DecisionsKept
    <3>1. decisions' = decisions /\ instructions' = instructions
      BY <2>1 DEF Skip
    <3> QED  BY <2>1, <3>1, NoMoreKept
  <2> QED  BY <2>1, KeepManualTrue, UseNopTrue, FillTrue, ReturnTrue DEF Next
<1> QED  BY <1>1, PassInductive, PTL DEF Spec, DecisionsStayTrue, DecisionsKept

-----------------------------------------------------------------------------
(* Runs, on what matters of them.                                          *)

\* A state of a run: the target of the branch whose slot is executed, 0 if none is,
\* and the registers and memory as a machine that stands still.
RunState(V, W) ==
    [pc : Nat \ {0}, target : Nat, data : Machines(V), control : W, seen : Seq(W)]

\* A state with any values and any control instructions seen.
IsRunState(a) == \E V, W : a \in RunState(V, W)

\* What the run does not end with, and what it goes on with.
Ended(p, a) == a.pc > Len(p) \/ Len(a.seen) = MaxControls

\* What a control instruction compares, which is seen when its slot is over.
Compared(a, x) == <<x.opcode, readRegister(a.data, x.rs), readRegister(a.data, x.rt)>>

\* Where the control instruction that is next goes, with the outcomes o.
TargetFrom(p, o, a) == BranchTarget(p[a.pc], a.pc, o[Len(a.seen) + 1])

\* The run goes on in the same slot, or in front of the next one.
RunsOn(a, pc, target, control, data) ==
    [pc |-> pc, target |-> target, data |-> data, control |-> control, seen |-> a.seen]

\* A slot is over.
SlotOver(a, pc, control, data) ==
    [pc |-> pc, target |-> 0, data |-> data, control |-> control,
     seen |-> Append(a.seen, <<control, data.registers, data.memory>>)]

\* One more instruction, x, which is the last of the program or not.
AfterInstruction(a, x, target, last) ==
    IF isControl(x)
    THEN IF last THEN SlotOver(a, target, Compared(a, x), a.data)
         ELSE RunsOn(a, a.pc + 1, target, Compared(a, x), a.data)
    ELSE IF a.target # 0 THEN SlotOver(a, a.target, a.control, Execute(a.data, x))
    ELSE RunsOn(a, a.pc + 1, 0, a.control, Execute(a.data, x))

\* The next state of a run of p with the outcomes o.
NextState(p, o, a) ==
    IF Ended(p, a) THEN a ELSE AfterInstruction(a, p[a.pc], TargetFrom(p, o, a), a.pc = Len(p))

\* The registers and the memory of a machine, as a machine that has not started.
DataOf(m) == [StartMachine EXCEPT !.registers = m.registers, !.memory = m.memory]

\* What matters of a run.
StateOf(run) ==
    [pc |-> run.machine.pc,
     target |-> IF run.machine.branch_pending THEN run.machine.branch_target ELSE 0,
     data |-> DataOf(run.machine), control |-> run.control, seen |-> run.seen]

\* The runs there are.
RunSet(V, W) == [machine : Machines(V), control : W, seen : Seq(W)]

\* A run that the simulator can be in: a pending branch is one instruction away.
IsRun(run) ==
    /\ \E V, W : run \in RunSet(V, W)
    /\ run.machine.pc # 0
    /\ run.machine.branch_pending =>
          run.machine.branch_target # 0 /\ run.machine.branch_delay_slot = run.machine.pc

\* What an instruction does to registers and memory does not depend on where it is.
LEMMA ExecuteStill ==
    ASSUME NEW V, NEW m \in Machines(V), NEW x \in InstructionSet
    PROVE  /\ DataOf(m) \in Machines(V)
           /\ Execute(DataOf(m), x) = DataOf(Execute(m, x))
           /\ \E U : V \subseteq U /\ Execute(m, x) \in Machines(U)
           /\ Execute(m, x).branch_pending = m.branch_pending
<1> DEFINE n == DataOf(m)
           r == Written(x)
<1>1. /\ n \in Machines(V) /\ n.registers = m.registers /\ n.memory = m.memory
  BY DEF DataOf, StartMachine, Machines
<1>2. \A s : readRegister(n, s) = readRegister(m, s)
  BY <1>1 DEF readRegister
<1>3. Result(n, x) = Result(m, x) /\ Stored(n, x) = Stored(m, x)
  <2>1. /\ n.memory = m.memory
        /\ readRegister(n, x.rs) = readRegister(m, x.rs)
        /\ readRegister(n, x.rt) = readRegister(m, x.rt)
    BY <1>1, <1>2
  <2> HIDE DEF n
  <2>2. Result(n, x) = Result(m, x)
    BY <2>1, Zenon DEF Result
  <2> QED  BY <2>1, <2>2 DEF Stored
<1> DEFINE U == V \cup {Result(m, x), Stored(m, x)}
           v == Result(m, x)
           w == Stored(m, x)
<1>4. CASE x.opcode = "sw"
  <2>1. Execute(m, x) = [m EXCEPT !.memory = w] /\ Execute(n, x) = [n EXCEPT !.memory = w]
    BY <1>3, <1>4, ExecuteWrites
  <2>2. w \in U /\ V \subseteq U
    OBVIOUS
  <2> HIDE DEF w, U
  <2>3. [n EXCEPT !.memory = w] = DataOf([m EXCEPT !.memory = w])
    BY DEF DataOf, StartMachine, Machines
  <2>4. /\ [m EXCEPT !.memory = w] \in Machines(U)
        /\ [m EXCEPT !.memory = w].branch_pending = m.branch_pending
    BY <2>2 DEF Machines
  <2> QED  BY <1>1, <2>1, <2>2, <2>3, <2>4
<1>5. CASE x.opcode # "sw"
  <2>1. Execute(m, x) = writeRegister(m, r, v) /\ Execute(n, x) = writeRegister(n, r, v)
    BY <1>3, <1>5, ExecuteWrites
  <2>2. v \in U /\ V \subseteq U
    OBVIOUS
  <2> HIDE DEF v, U, r
  <2>3. writeRegister(n, r, v) = DataOf(writeRegister(m, r, v))
    BY DEF DataOf, StartMachine, Machines, writeRegister
  <2>4. /\ writeRegister(m, r, v) \in Machines(U)
        /\ writeRegister(m, r, v).branch_pending = m.branch_pending
    BY <2>2 DEF Machines, writeRegister
  <2> QED  BY <1>1, <2>1, <2>2, <2>3, <2>4
<1> QED  BY <1>4, <1>5

\* A branch goes somewhere.
LEMMA TargetIsPosition ==
    ASSUME NEW x \in InstructionSet, NEW pc \in Nat, NEW taken
    PROVE  BranchTarget(x, pc, taken) \in Nat \ {0}
<1>1. x.target_index \in Nat
  BY DEF InstructionSet
<1> QED  BY <1>1 DEF BranchTarget

\* Two machines with the same registers and memory.
LEMMA StillFields ==
    ASSUME NEW m, NEW n, m.registers = n.registers, m.memory = n.memory
    PROVE  DataOf(m) = DataOf(n)
BY DEF DataOf

\* The simulator's step, by what it finds at pc.
LEMMA ContinueFacts ==
    ASSUME NEW p \in Seq(InstructionSet), NEW V, NEW m \in Machines(V), NEW taken,
           m.pc \in 1 .. Len(p), m.branch_pending => m.branch_delay_slot = m.pc
    PROVE  LET x == p[m.pc]
               n == Step(p, m, taken)
           IN  /\ isControl(x) =>
                    /\ n.branch_pending <=> m.pc # Len(p)
                    /\ n.branch_target = BranchTarget(x, m.pc, taken)
                    /\ n.branch_delay_slot = m.pc + 1
                    /\ n.pc = IF m.pc = Len(p) THEN BranchTarget(x, m.pc, taken) ELSE m.pc + 1
                    /\ DataOf(n) = DataOf(m)
                    /\ n \in Machines(V)
               /\ ~isControl(x) =>
                    /\ ~n.branch_pending
                    /\ n.pc = IF m.branch_pending THEN m.branch_target ELSE m.pc + 1
                    /\ DataOf(n) = Execute(DataOf(m), x)
                    /\ \E U : n \in Machines(U)
<1> DEFINE x == p[m.pc]
           t == BranchTarget(x, m.pc, taken)
           n == Step(p, m, taken)
<1>1. Len(p) \in Nat /\ x \in InstructionSet /\ m.pc \in Nat
  OBVIOUS
<1>2. t \in Nat
  BY <1>1, TargetIsPosition
<1>3. ASSUME isControl(x)
      PROVE  /\ n.branch_pending <=> m.pc # Len(p)
             /\ n.branch_target = t
             /\ n.branch_delay_slot = m.pc + 1
             /\ n.pc = IF m.pc = Len(p) THEN t ELSE m.pc + 1
             /\ DataOf(n) = DataOf(m)
             /\ n \in Machines(V)
  <2> HIDE DEF t
  <2>1. CASE m.pc = Len(p)
    <3>1. n = [m EXCEPT !.branch_pending = FALSE, !.branch_target = t,
                        !.branch_delay_slot = m.pc + 1, !.pc = t]
      BY <1>3, <2>1 DEF Step, t
    <3> HIDE DEF n, x
    <3>2. m.pc + 1 \in Nat
      BY <1>1
    <3>3. /\ n \in Machines(V) /\ n.registers = m.registers /\ n.memory = m.memory
          /\ ~n.branch_pending /\ n.branch_target = t /\ n.branch_delay_slot = m.pc + 1
          /\ n.pc = t
      BY <1>2, <3>1, <3>2 DEF Machines
    <3> QED  BY <2>1, <3>3, StillFields
  <2>2. CASE m.pc # Len(p)
    <3>1. m.pc < Len(p)
      BY <1>1, <2>2
    <3>2. n = [m EXCEPT !.branch_pending = TRUE, !.branch_target = t,
                        !.branch_delay_slot = m.pc + 1, !.pc = m.pc + 1]
      BY <1>3, <2>2, <3>1 DEF Step, t
    <3> HIDE DEF n, x
    <3>3. m.pc + 1 \in Nat
      BY <1>1
    <3>4. /\ n \in Machines(V) /\ n.registers = m.registers /\ n.memory = m.memory
          /\ n.branch_pending /\ n.branch_target = t /\ n.branch_delay_slot = m.pc + 1
          /\ n.pc = m.pc + 1
      BY <1>2, <3>2, <3>3 DEF Machines
    <3> QED  BY <2>2, <3>4, StillFields
  <2> QED  BY <2>1, <2>2
<1>4. ASSUME ~isControl(x)
      PROVE  /\ ~n.branch_pending
             /\ n.pc = IF m.branch_pending THEN m.branch_target ELSE m.pc + 1
             /\ DataOf(n) = Execute(DataOf(m), x)
             /\ \E U : n \in Machines(U)
  <2> DEFINE e == Execute(m, x)
  <2>1. PICK U : e \in Machines(U)
    BY <1>1, ExecuteStill
  <2>2. DataOf(e) = Execute(DataOf(m), x) /\ e.branch_pending = m.branch_pending
    BY <1>1, ExecuteStill
  <2>3. CASE m.branch_pending
    <3>1. n = [e EXCEPT !.branch_pending = FALSE, !.pc = m.branch_target]
      BY <1>4, <2>3 DEF Step
    <3> HIDE DEF n, e
    <3>2. m.branch_target \in Nat
      BY DEF Machines
    <3>3. /\ ~n.branch_pending /\ n.pc = m.branch_target /\ n \in Machines(U)
          /\ n.registers = e.registers /\ n.memory = e.memory
      BY <2>1, <3>1, <3>2 DEF Machines
    <3> QED  BY <2>2, <2>3, <3>3, StillFields
  <2>4. CASE ~m.branch_pending
    <3>1. n = [e EXCEPT !.pc = m.pc + 1]
      BY <1>4, <2>4 DEF Step
    <3> HIDE DEF n, e
    <3>2. m.pc + 1 \in Nat
      BY <1>1
    <3>3. /\ ~n.branch_pending /\ n.pc = m.pc + 1 /\ n \in Machines(U)
          /\ n.registers = e.registers /\ n.memory = e.memory
      BY <2>1, <2>2, <2>4, <3>1, <3>2 DEF Machines
    <3> QED  BY <2>2, <2>4, <3>3, StillFields
  <2> QED  BY <2>3, <2>4
<1> QED  BY <1>3, <1>4

\* What is added to a run keeps it a run.
LEMMA RunFromParts ==
    ASSUME NEW U, NEW W, NEW n \in Machines(U), NEW control, NEW seen \in Seq(W), NEW entry,
           n.pc # 0, n.branch_pending => n.branch_target # 0 /\ n.branch_delay_slot = n.pc
    PROVE  /\ IsRun([machine |-> n, control |-> control, seen |-> seen])
           /\ IsRun([machine |-> n, control |-> control, seen |-> Append(seen, entry)])
<1> DEFINE X == W \cup {control, entry}
<1>1. control \in X /\ seen \in Seq(X) /\ Append(seen, entry) \in Seq(X)
  <2>1. W \subseteq X /\ control \in X /\ entry \in X
    OBVIOUS
  <2> HIDE DEF X
  <2>2. seen \in Seq(X)
    <3>1. \A k \in 1 .. Len(seen) : seen[k] \in X
      BY <2>1
    <3>2. seen \in [1 .. Len(seen) -> X] /\ Len(seen) \in Nat
      BY <3>1
    <3> QED  BY <3>2
  <2> QED  BY <2>1, <2>2
<1> HIDE DEF X
<1>2. ASSUME NEW z \in Seq(X)
      PROVE  IsRun([machine |-> n, control |-> control, seen |-> z])
  <2> DEFINE r == [machine |-> n, control |-> control, seen |-> z]
  <2>1. r \in RunSet(U, X)
    BY <1>1 DEF RunSet
  <2>2. r.machine = n
    OBVIOUS
  <2> HIDE DEF r
  <2>3. IsRun(r)
    BY <2>1, <2>2 DEF IsRun
  <2> QED  BY <2>3 DEF r
<1> QED  BY <1>1, <1>2

\* A step of a run is one on what matters of it.
LEMMA ContinueIsOne ==
    ASSUME NEW p \in Seq(InstructionSet), NEW o, NEW run, IsRun(run)
    PROVE  /\ IsRun(Continue(p, o, run))
           /\ StateOf(Continue(p, o, run)) = NextState(p, o, StateOf(run))
<1> DEFINE m == run.machine
           x == p[m.pc]
           a == StateOf(run)
           taken == o[Len(run.seen) + 1]
           n == Step(p, m, taken)
           control == IF ~isControl(x) THEN run.control
                      ELSE <<x.opcode, readRegister(m, x.rs), readRegister(m, x.rt)>>
           over == (m.branch_pending \/ isControl(x)) /\ ~n.branch_pending
           next == [machine |-> n, control |-> control,
                    seen |-> IF over THEN Append(run.seen, <<control, n.registers, n.memory>>)
                             ELSE run.seen]
<1>1. /\ a.pc = m.pc /\ a.seen = run.seen /\ a.control = run.control /\ a.data = DataOf(m)
      /\ a.target = IF m.branch_pending THEN m.branch_target ELSE 0
  BY DEF StateOf
<1>2. CASE Ended(p, a)
  <2>1. Continue(p, o, run) = run
    BY <1>1, <1>2, Zenon DEF Continue, Ended
  <2>2. NextState(p, o, a) = a
    BY <1>2, Zenon DEF NextState
  <2> QED  BY <2>1, <2>2
<1>3. CASE ~Ended(p, a)
  <2>1. Continue(p, o, run) = next
    <3>1. ~(m.pc > Len(p) \/ Len(run.seen) = MaxControls)
      BY <1>1, <1>3, Zenon DEF Ended
    <3> QED  BY <3>1, Zenon DEF Continue
  <2>2. PICK V, W : run \in RunSet(V, W)
    BY DEF IsRun
  <2>3. /\ m \in Machines(V) /\ run.seen \in Seq(W)
        /\ m.branch_pending => m.branch_target # 0 /\ m.branch_delay_slot = m.pc
    BY <2>2 DEF RunSet, IsRun
  <2>4. m.pc \in 1 .. Len(p) /\ Len(p) \in Nat /\ x \in InstructionSet
    <3>1. m.pc \in Nat /\ m.pc # 0 /\ Len(p) \in Nat /\ ~(m.pc > Len(p))
      <4>1. m.pc \in Nat
        BY <2>3 DEF Machines
      <4> QED  BY <1>1, <1>3, <4>1 DEF Ended, IsRun
    <3>2. m.pc \in 1 .. Len(p)
      BY <3>1
    <3> QED  BY <3>1, <3>2
  <2> DEFINE t == BranchTarget(x, m.pc, taken)
  <2>5. /\ isControl(x) =>
             /\ n.branch_pending <=> m.pc # Len(p)
             /\ n.branch_target = t
             /\ n.branch_delay_slot = m.pc + 1
             /\ n.pc = IF m.pc = Len(p) THEN t ELSE m.pc + 1
             /\ DataOf(n) = DataOf(m)
             /\ n \in Machines(V)
        /\ ~isControl(x) =>
             /\ ~n.branch_pending
             /\ n.pc = IF m.branch_pending THEN m.branch_target ELSE m.pc + 1
             /\ DataOf(n) = Execute(DataOf(m), x)
             /\ \E U : n \in Machines(U)
    BY <2>3, <2>4, ContinueFacts
  <2>6. t \in Nat \ {0} /\ m.pc + 1 # 0
    <3>1. m.pc \in Nat
      BY <2>4
    <3> QED  BY <2>4, <3>1, TargetIsPosition
  <2>7. t = TargetFrom(p, o, a) /\ Len(a.seen) = Len(run.seen)
    BY <1>1 DEF TargetFrom
  <2>8. Compared(a, x) = <<x.opcode, readRegister(m, x.rs), readRegister(m, x.rt)>>
    <3>1. \A r : readRegister(DataOf(m), r) = readRegister(m, r)
      BY <2>3 DEF readRegister, DataOf, StartMachine, Machines
    <3> QED  BY <1>1, <3>1 DEF Compared
  <2>9. \A k : DataOf(k).registers = k.registers /\ DataOf(k).memory = k.memory
    BY DEF DataOf, StartMachine
  <2>10. /\ next.machine = n /\ next.control = control
         /\ over => next.seen = Append(run.seen, <<control, n.registers, n.memory>>)
         /\ ~over => next.seen = run.seen
    OBVIOUS
  <2>11. IsRun(next)
    <3>1. PICK U : n \in Machines(U)
      BY <2>5
    <3>2. n.pc # 0 /\ (n.branch_pending => n.branch_target # 0 /\ n.branch_delay_slot = n.pc)
      BY <2>3, <2>5, <2>6
    <3>3. \/ next = [machine |-> n, control |-> control, seen |-> run.seen]
          \/ next = [machine |-> n, control |-> control,
                     seen |-> Append(run.seen, <<control, n.registers, n.memory>>)]
      OBVIOUS
    <3> HIDE DEF n, next, control
    <3> QED  BY <2>3, <3>1, <3>2, <3>3, RunFromParts
  <2>12. StateOf(next) = [pc |-> n.pc,
                       target |-> IF n.branch_pending THEN n.branch_target ELSE 0,
                       data |-> DataOf(n), control |-> control, seen |-> next.seen]
    BY <2>10 DEF StateOf
  <2>13. NextState(p, o, a) = 
           IF isControl(x)
           THEN IF m.pc = Len(p) THEN SlotOver(a, t, Compared(a, x), a.data)
                ELSE RunsOn(a, m.pc + 1, t, Compared(a, x), a.data)
           ELSE IF a.target # 0 THEN SlotOver(a, a.target, a.control, Execute(a.data, x))
           ELSE RunsOn(a, m.pc + 1, 0, a.control, Execute(a.data, x))
    BY <1>1, <1>3, <2>7 DEF NextState, AfterInstruction
  <2> HIDE DEF n, t, a, next
  <2>14. CASE isControl(x)
    <3>1. control = Compared(a, x) /\ (over <=> m.pc = Len(p))
      BY <2>5, <2>8, <2>14
    <3> HIDE DEF control, over, x, m
    <3>2. /\ n.registers = a.data.registers /\ n.memory = a.data.memory
          /\ DataOf(n) = a.data
      BY <1>1, <2>5, <2>9, <2>14
    <3>3. CASE m.pc = Len(p)
      <4>1. StateOf(next) = SlotOver(a, t, Compared(a, x), a.data)
        BY <1>1, <2>5, <2>10, <2>12, <2>14, <3>1, <3>2, <3>3 DEF SlotOver
      <4> QED  BY <2>1, <2>11, <2>13, <2>14, <3>3, <4>1 DEF a
    <3>4. CASE m.pc # Len(p)
      <4>1. StateOf(next) = RunsOn(a, m.pc + 1, t, Compared(a, x), a.data)
        BY <1>1, <2>5, <2>10, <2>12, <2>14, <3>1, <3>2, <3>4 DEF RunsOn
      <4> QED  BY <2>1, <2>11, <2>13, <2>14, <3>4, <4>1 DEF a
    <3> QED  BY <3>3, <3>4
  <2>15. CASE ~isControl(x)
    <3>1. /\ control = a.control /\ (over <=> m.branch_pending)
          /\ (a.target # 0) <=> m.branch_pending
      BY <1>1, <2>3, <2>5, <2>15
    <3>2. /\ n.registers = Execute(a.data, x).registers
          /\ n.memory = Execute(a.data, x).memory
          /\ DataOf(n) = Execute(a.data, x)
      BY <1>1, <2>5, <2>9, <2>15
    <3> HIDE DEF control, over, x, m
    <3>3. CASE m.branch_pending
      <4>1. StateOf(next) = SlotOver(a, a.target, a.control, Execute(a.data, x))
        BY <1>1, <2>5, <2>10, <2>12, <2>15, <3>1, <3>2, <3>3 DEF SlotOver
      <4> QED  BY <2>1, <2>11, <2>13, <2>15, <3>1, <3>3, <4>1 DEF a
    <3>4. CASE ~m.branch_pending
      <4>1. StateOf(next) = RunsOn(a, m.pc + 1, 0, a.control, Execute(a.data, x))
        BY <1>1, <2>5, <2>10, <2>12, <2>15, <3>1, <3>2, <3>4 DEF RunsOn
      <4> QED  BY <2>1, <2>11, <2>13, <2>15, <3>1, <3>4, <4>1 DEF a
    <3> QED  BY <3>3, <3>4
  <2> QED  BY <2>14, <2>15
<1> QED  BY <1>2, <1>3

\* What matters of a run is a state.
LEMMA RunsAreStates ==
    ASSUME NEW run, IsRun(run)
    PROVE  IsRunState(StateOf(run))
<1>1. PICK V, W : run \in RunSet(V, W)
  BY DEF IsRun
<1>2. run.machine \in Machines(V) /\ run.control \in W /\ run.seen \in Seq(W)
  BY <1>1 DEF RunSet
<1>3. DataOf(run.machine) \in Machines(V)
  BY <1>2 DEF DataOf, StartMachine, Machines
<1>4. /\ run.machine.pc \in Nat \ {0}
      /\ (IF run.machine.branch_pending THEN run.machine.branch_target ELSE 0) \in Nat
  BY <1>2 DEF Machines, IsRun
<1>5. StateOf(run) \in RunState(V, W)
  BY <1>2, <1>3, <1>4 DEF StateOf, RunState
<1> QED  BY <1>5 DEF IsRunState

\* How far a run has come, if one instruction takes it from (l, pc) to (m, qc).
LEMMA OneFurther ==
    ASSUME NEW N \in Nat, NEW l \in Nat, NEW m \in Nat, NEW pc \in Nat, NEW qc \in Nat \ {0},
           NEW k \in Nat, k + 1 <= l * (N + 1) + pc, pc <= N,
           (m = l + 1) \/ (m = l /\ qc = pc + 1)
    PROVE  (k + 1) + 1 <= m * (N + 1) + qc
<1>1. (l + 1) * (N + 1) = l * (N + 1) + (N + 1)
  OBVIOUS
<1>2. l * (N + 1) \in Nat
  OBVIOUS
<1> QED  BY <1>1, <1>2

\* So it cannot be in the middle of the program for long.
LEMMA NotSoFar ==
    ASSUME NEW N \in Nat, NEW l \in Nat, NEW M \in Nat, NEW pc \in Nat, l < M, pc <= N
    PROVE  ~((M + 1) * (N + 1) + 1 <= l * (N + 1) + pc)
<1>1. PICK d \in Nat : M = l + 1 + d
  <2>1. M - l - 1 \in Nat /\ M = l + 1 + (M - l - 1)
    OBVIOUS
  <2> QED  BY <2>1
<1>2. (M + 1) * (N + 1) = l * (N + 1) + 2 * (N + 1) + d * (N + 1)
  BY <1>1
<1>3. l * (N + 1) \in Nat /\ d * (N + 1) \in Nat
  OBVIOUS
<1> QED  BY <1>2, <1>3

\* The states of a run.
FirstState == StateOf([machine |-> StartMachine, control |-> <<>>, seen |-> <<>>])

\* f[0], ..., f[n] are the first states of a run.
StatesFollow(p, o, f, n) ==
    /\ f[0] = FirstState
    /\ \A k \in 0 .. n : IsRunState(f[k])
    /\ \A k \in 0 .. n : k < n => f[k + 1] = NextState(p, o, f[k])

\* What a state shows at the end of a run.
Observed(a) ==
    [seen |-> a.seen,
     result |-> IF Len(a.seen) = MaxControls THEN <<>>
                ELSE <<a.data.registers, a.data.memory>>]

\* An instruction goes one position on or is the last of a slot.
LEMMA OneGoesOn ==
    ASSUME NEW p, NEW o, NEW a, IsRunState(a), IsRunState(NextState(p, o, a)), ~Ended(p, a),
           Len(a.seen) <= MaxControls
    PROVE  LET b == NextState(p, o, a)
           IN  /\ Len(b.seen) <= MaxControls /\ Len(b.seen) \in Nat /\ b.pc \in Nat \ {0}
               /\ Len(b.seen) = Len(a.seen) + 1 \/ (Len(b.seen) = Len(a.seen) /\ b.pc = a.pc + 1)
<1> DEFINE b == NextState(p, o, a)
<1>1. PICK V, W : a \in RunState(V, W)
  BY DEF IsRunState
<1>2. PICK U, X : b \in RunState(U, X)
  BY DEF IsRunState
<1>3. a.seen \in Seq(W) /\ b.pc \in Nat \ {0} /\ b.seen \in Seq(X)
  BY <1>1, <1>2 DEF RunState
<1>4. Len(a.seen) + 1 <= MaxControls /\ Len(a.seen) \in Nat /\ Len(b.seen) \in Nat
  BY <1>3, MaxControlsAssumption DEF Ended
<1>5. \/ \E pc, control, data : b = SlotOver(a, pc, control, data)
      \/ \E target, control, data : b = RunsOn(a, a.pc + 1, target, control, data)
  BY Zenon DEF NextState, AfterInstruction
<1> HIDE DEF b
<1>6. ASSUME NEW pc, NEW control, NEW data, b = SlotOver(a, pc, control, data)
      PROVE  Len(b.seen) = Len(a.seen) + 1
  <2>1. b.seen = Append(a.seen, <<control, data.registers, data.memory>>)
    BY <1>6 DEF SlotOver
  <2> DEFINE e == <<control, data.registers, data.memory>>
             Y == W \cup {e}
  <2>2. a.seen \in Seq(Y) /\ e \in Y
    <3>1. a.seen \in [1 .. Len(a.seen) -> Y] /\ Len(a.seen) \in Nat
      BY <1>3
    <3> QED  BY <3>1
  <2> HIDE DEF e, Y
  <2>3. b.seen = Append(a.seen, e)
    BY <2>1 DEF e
  <2> QED  BY <2>2, <2>3
<1>7. ASSUME NEW target, NEW control, NEW data, b = RunsOn(a, a.pc + 1, target, control, data)
      PROVE  Len(b.seen) = Len(a.seen) /\ b.pc = a.pc + 1
  BY <1>7 DEF RunsOn
<1>8. Len(b.seen) = Len(a.seen) + 1 \/ (Len(b.seen) = Len(a.seen) /\ b.pc = a.pc + 1)
  BY <1>5, <1>6, <1>7
<1>9. Len(b.seen) <= MaxControls
  BY <1>4, <1>8, MaxControlsAssumption
<1> QED  BY <1>3, <1>4, <1>8, <1>9 DEF b

\* The run that the simulator makes, instruction by instruction.
StartRun == [machine |-> StartMachine, control |-> <<>>, seen |-> <<>>]

\* r[0], ..., r[n] is the beginning of it.
Runs(r, p, o, n) ==
    r = [k \in 0 .. n |-> IF k = 0 THEN StartRun ELSE Continue(p, o, r[k - 1])]

\* However many instructions it is followed for, there is such a run.
LEMMA RunExists ==
    ASSUME NEW p, NEW o, NEW N \in Nat
    PROVE  \E r : Runs(r, p, o, N)
<1> DEFINE P == {n \in 0 .. N : \E r : Runs(r, p, o, n)}
<1>1. 0 \in P
  <2> DEFINE r == [k \in 0 .. 0 |-> StartRun]
  <2>1. r = [k \in 0 .. 0 |-> IF k = 0 THEN StartRun ELSE Continue(p, o, r[k - 1])]
    OBVIOUS
  <2>2. \E s : Runs(s, p, o, 0)
    BY <2>1 DEF Runs
  <2> QED  BY <2>2
<1>2. ASSUME NEW n \in 0 .. N, n < N, n \in P PROVE n + 1 \in P
  <2>1. PICK r : Runs(r, p, o, n)
    BY <1>2
  <2> DEFINE s == [k \in 0 .. n + 1 |-> IF k = n + 1 THEN Continue(p, o, r[n]) ELSE r[k]]
  <2>2. n \in Nat /\ n + 1 \in 0 .. N
    BY <1>2
  <2>3. \A k \in 0 .. n + 1 :
           s[k] = IF k = 0 THEN StartRun ELSE Continue(p, o, s[k - 1])
    <3> SUFFICES ASSUME NEW k \in 0 .. n + 1
                 PROVE  s[k] = IF k = 0 THEN StartRun ELSE Continue(p, o, s[k - 1])
      OBVIOUS
    <3>1. CASE k = n + 1
      <4>1. s[k] = Continue(p, o, r[n]) /\ s[n] = r[n] /\ k # 0 /\ k - 1 = n
        BY <2>2, <3>1
      <4> QED  BY <3>1, <4>1
    <3>2. CASE k # n + 1
      <4>1. k \in 0 .. n /\ s[k] = r[k] /\ (k # 0 => k - 1 \in 0 .. n + 1 /\ k - 1 # n + 1)
        BY <2>2, <3>2
      <4>2. r[k] = IF k = 0 THEN StartRun ELSE Continue(p, o, r[k - 1])
        BY <2>1, <4>1 DEF Runs
      <4>3. k # 0 => s[k - 1] = r[k - 1]
        BY <4>1
      <4> HIDE DEF s
      <4> QED  BY <4>1, <4>2, <4>3
    <3> QED  BY <3>1, <3>2
  <2>4. \E t : Runs(t, p, o, n + 1)
    <3>1. s = [k \in 0 .. n + 1 |-> IF k = 0 THEN StartRun ELSE Continue(p, o, s[k - 1])]
      <4>1. s = [k \in 0 .. n + 1 |-> s[k]]
        OBVIOUS
      <4> HIDE DEF s
      <4> QED  BY <2>3, <4>1
    <3> HIDE DEF s
    <3> QED  BY <3>1 DEF Runs
  <2> QED  BY <2>2, <2>4
<1>3. \A n \in 0 .. N : n \in P
  <2> HIDE DEF P
  <2> QED  BY <1>1, <1>2, IntervalInduction
<1>4. N \in 0 .. N
  OBVIOUS
<1> QED  BY <1>3, <1>4

\* How many instructions a run is followed for.
StepsOf(p) == (MaxControls + 1) * (Len(p) + 1)

\* What a program does is what shows at the end of its states, and they have an end.
LEMMA BehaviourIsObserved ==
    ASSUME NEW p \in Seq(InstructionSet), NEW o
    PROVE  /\ StepsOf(p) \in Nat
           /\ \E f : /\ StatesFollow(p, o, f, StepsOf(p)) /\ Ended(p, f[StepsOf(p)])
                     /\ Behaviour(p, o) = Observed(f[StepsOf(p)])
<1> DEFINE N == Len(p)
           S == StepsOf(p)
           r == CHOOSE s : Runs(s, p, o, S)
<1>1. N \in Nat /\ S \in Nat
  BY MaxControlsAssumption DEF StepsOf
<1> HIDE DEF S
<1>2. Runs(r, p, o, S)
  BY <1>1, RunExists, Zenon
<1>3. Behaviour(p, o) =
         [seen |-> r[S].seen,
          result |-> IF Len(r[S].seen) = MaxControls THEN <<>>
                     ELSE <<r[S].machine.registers, r[S].machine.memory>>]
  BY DEF Behaviour, Runs, S, StepsOf, StartRun
<1> HIDE DEF r
<1>4. /\ r[0] = StartRun
      /\ \A k \in 0 .. S : k < S => r[k + 1] = Continue(p, o, r[k])
  <2>1. \A k \in 0 .. S : r[k] = IF k = 0 THEN StartRun ELSE Continue(p, o, r[k - 1])
    BY <1>2 DEF Runs
  <2>2. 0 \in 0 .. S /\ \A k \in 0 .. S : k < S => k + 1 \in 0 .. S /\ k + 1 # 0 /\ (k + 1) - 1 = k
    BY <1>1
  <2> QED  BY <2>1, <2>2, Zenon
<1>5. \A k \in 0 .. S : IsRun(r[k])
  <2> DEFINE P == {k \in 0 .. S : IsRun(r[k])}
  <2>1. 0 \in P
    <3>1. StartMachine \in Machines({<<"initial", s>> : s \in Registers \cup {"memory"}})
      BY DEF StartMachine, Machines
    <3>2. StartMachine.pc # 0 /\ ~StartMachine.branch_pending /\ <<>> \in Seq({})
      BY DEF StartMachine
    <3>3. IsRun(StartRun)
      BY <3>1, <3>2, RunFromParts DEF StartRun
    <3> QED  BY <1>1, <1>4, <3>3
  <2>2. \A k \in 0 .. S : k < S /\ k \in P => k + 1 \in P
    <3> SUFFICES ASSUME NEW k \in 0 .. S, k < S, k \in P PROVE k + 1 \in P
      OBVIOUS
    <3>1. k + 1 \in 0 .. S
      BY <1>1
    <3> QED  BY <1>4, <3>1, ContinueIsOne
  <2>3. \A k \in 0 .. S : k \in P
    <3> HIDE DEF P
    <3> QED  BY <1>1, <2>1, <2>2, IntervalInduction
  <2> QED  BY <2>3
<1> DEFINE f == [k \in 0 .. S |-> StateOf(r[k])]
<1>6. \A k \in 0 .. S : f[k] = StateOf(r[k])
  OBVIOUS
<1> HIDE DEF f
<1>7. StatesFollow(p, o, f, S)
  <2>1. f[0] = FirstState
    BY <1>1, <1>4, <1>6 DEF FirstState, StartRun
  <2>2. \A k \in 0 .. S : IsRunState(f[k])
    BY <1>5, <1>6, RunsAreStates
  <2>3. ASSUME NEW k \in 0 .. S, k < S PROVE f[k + 1] = NextState(p, o, f[k])
    <3>1. k + 1 \in 0 .. S
      BY <1>1, <2>3
    <3>2. StateOf(Continue(p, o, r[k])) = NextState(p, o, StateOf(r[k]))
      BY <1>5, ContinueIsOne
    <3> QED  BY <1>4, <1>6, <2>3, <3>1, <3>2
  <2> QED  BY <2>1, <2>2, <2>3 DEF StatesFollow
<1>8. S \in 0 .. S
  BY <1>1
<1>9. Behaviour(p, o) = Observed(f[S])
  <2>1. /\ f[S].seen = r[S].seen /\ f[S].data.registers = r[S].machine.registers
        /\ f[S].data.memory = r[S].machine.memory
    <3>1. \A m : DataOf(m).registers = m.registers /\ DataOf(m).memory = m.memory
      BY DEF DataOf, StartMachine
    <3>2. \A z : StateOf(z).seen = z.seen /\ StateOf(z).data = DataOf(z.machine)
      BY DEF StateOf
    <3> QED  BY <1>6, <1>8, <3>1, <3>2
  <2> DEFINE Shown(seen, registers, memory) ==
                [seen |-> seen, result |-> IF Len(seen) = MaxControls THEN <<>>
                                           ELSE <<registers, memory>>]
  <2>2. Behaviour(p, o) = Shown(r[S].seen, r[S].machine.registers, r[S].machine.memory)
    BY <1>3
  <2>3. Observed(f[S]) = Shown(f[S].seen, f[S].data.registers, f[S].data.memory)
    BY DEF Observed
  <2> HIDE DEF Shown
  <2> QED  BY <2>1, <2>2, <2>3
<1>10. Ended(p, f[S])
  <2> DEFINE P == {k \in 0 .. S : \/ Ended(p, f[k])
                                  \/ /\ k + 1 <= Len(f[k].seen) * (N + 1) + f[k].pc
                                     /\ Len(f[k].seen) <= MaxControls}
  <2>1. 0 \in P
    <3>1. f[0].pc = 1 /\ f[0].seen = <<>>
      BY <1>7 DEF StatesFollow, FirstState, StateOf, StartMachine
    <3>2. Len(f[0].seen) = 0
      BY <3>1
    <3>3. 0 * (N + 1) + 1 = 1 /\ 0 + 1 <= 1 /\ 0 <= MaxControls /\ 0 \in 0 .. S
      BY <1>1, MaxControlsAssumption
    <3>4. /\ 0 + 1 <= Len(f[0].seen) * (N + 1) + f[0].pc
          /\ Len(f[0].seen) <= MaxControls
      BY <3>1, <3>2, <3>3
    <3> QED  BY <3>3, <3>4
  <2>2. ASSUME NEW k \in 0 .. S, k < S, k \in P PROVE k + 1 \in P
    <3> DEFINE a == f[k]
    <3>1. k + 1 \in 0 .. S /\ f[k + 1] = NextState(p, o, a) /\ IsRunState(a) /\ IsRunState(f[k + 1])
      <4>1. k + 1 \in 0 .. S
        BY <1>1, <2>2
      <4> QED  BY <1>7, <2>2, <4>1 DEF StatesFollow
    <3>2. CASE Ended(p, a)
      <4>1. NextState(p, o, a) = a
        BY <3>2, Zenon DEF NextState
      <4> QED  BY <3>1, <3>2, <4>1
    <3>3. CASE ~Ended(p, a)
      <4> DEFINE b == f[k + 1]
      <4>1. k + 1 <= Len(a.seen) * (N + 1) + a.pc /\ Len(a.seen) <= MaxControls
        BY <2>2, <3>3
      <4>2. /\ Len(b.seen) <= MaxControls /\ Len(b.seen) \in Nat /\ b.pc \in Nat \ {0}
            /\ Len(b.seen) = Len(a.seen) + 1 \/ (Len(b.seen) = Len(a.seen) /\ b.pc = a.pc + 1)
        BY <3>1, <3>3, <4>1, OneGoesOn
      <4>3. a.pc \in Nat /\ Len(a.seen) \in Nat
        <5>1. PICK V, W : a \in RunState(V, W)
          BY <3>1 DEF IsRunState
        <5>2. a.pc \in Nat /\ a.seen \in Seq(W)
          BY <5>1 DEF RunState
        <5> QED  BY <5>2
      <4>4. a.pc <= N
        BY <1>1, <3>3, <4>3 DEF Ended
      <4>5. k \in Nat
        BY <1>1
      <4> HIDE DEF a, b, N
      <4>6. (k + 1) + 1 <= Len(b.seen) * (N + 1) + b.pc
        BY <1>1, <4>1, <4>2, <4>3, <4>4, <4>5, OneFurther
      <4> QED  BY <3>1, <4>2, <4>6 DEF b
    <3> QED  BY <3>2, <3>3
  <2>3. \A k \in 0 .. S : k \in P
    <3> HIDE DEF P
    <3> QED  BY <1>1, <2>1, <2>2, IntervalInduction
  <2>4. S \in P
    BY <1>8, <2>3
  <2> DEFINE a == f[S]
  <2>5. a.pc \in Nat /\ Len(a.seen) \in Nat
    <3>1. IsRunState(a)
      BY <1>7, <1>8 DEF StatesFollow
    <3>2. PICK V, W : a \in RunState(V, W)
      BY <3>1 DEF IsRunState
    <3>3. a.pc \in Nat /\ a.seen \in Seq(W)
      BY <3>2 DEF RunState
    <3> QED  BY <3>3
  <2> HIDE DEF a
  <2>6. Ended(p, a) \/ (S + 1 <= Len(a.seen) * (N + 1) + a.pc /\ Len(a.seen) <= MaxControls)
    BY <2>4 DEF a
  <2>7. CASE ~Ended(p, a)
    <3>1. a.pc <= N /\ Len(a.seen) < MaxControls
      <4>1. Len(a.seen) <= MaxControls
        BY <2>6, <2>7, Zenon
      <4> QED  BY <1>1, <2>5, <2>7, <4>1, MaxControlsAssumption DEF Ended
    <3>2. ~((MaxControls + 1) * (N + 1) + 1 <= Len(a.seen) * (N + 1) + a.pc)
      BY <1>1, <2>5, <3>1, MaxControlsAssumption, NotSoFar
    <3> QED  BY <2>6, <2>7, <3>2 DEF S, StepsOf
  <2> QED  BY <2>7 DEF a
<1> QED  BY <1>1, <1>7, <1>9, <1>10 DEF S

-----------------------------------------------------------------------------
(* Comparing runs.                                                         *)

\* The states of a whole run, which end where it ends.
Whole(p, o, f, n) == n \in Nat /\ StatesFollow(p, o, f, n) /\ Ended(p, f[n])

\* What shows at its end.
Final(f, n) == Observed(f[n])

\* The states on the way.
StatesOf(f, n) == {f[k] : k \in 0 .. n}

\* A run does not leave them, and ends in one way.
LEMMA WholeFacts ==
    ASSUME NEW p, NEW o, NEW f, NEW n, Whole(p, o, f, n), NEW y \in StatesOf(f, n)
    PROVE  /\ IsRunState(y) /\ NextState(p, o, y) \in StatesOf(f, n)
           /\ Ended(p, y) => y = f[n]
<1>1. n \in Nat /\ StatesFollow(p, o, f, n) /\ Ended(p, f[n])
  BY DEF Whole
<1>2. PICK k \in 0 .. n : y = f[k]
  BY DEF StatesOf
<1>3. /\ IsRunState(y)
      /\ \A j \in 0 .. n : j < n => f[j + 1] = NextState(p, o, f[j])
  BY <1>1, <1>2 DEF StatesFollow
<1>4. \A x : Ended(p, x) => NextState(p, o, x) = x
  BY Zenon DEF NextState
<1>5. NextState(p, o, y) \in StatesOf(f, n)
  <2>1. CASE k = n
    BY <1>1, <1>2, <1>4, <2>1
  <2>2. CASE k # n
    <3>1. k < n /\ k + 1 \in 0 .. n
      BY <1>1, <2>2
    <3>2. f[k + 1] = NextState(p, o, y)
      BY <1>2, <1>3, <3>1
    <3> QED  BY <3>1, <3>2 DEF StatesOf
  <2> QED  BY <2>1, <2>2
<1>6. ASSUME Ended(p, y) PROVE y = f[n]
  <2> DEFINE P == {j \in 0 .. n : k <= j => f[j] = y}
  <2>1. 0 \in P
    <3>1. k <= 0 => k = 0
      BY <1>1
    <3> QED  BY <1>1, <1>2, <3>1
  <2>2. ASSUME NEW j \in 0 .. n, j < n, j \in P PROVE j + 1 \in P
    <3>1. j + 1 \in 0 .. n /\ (k <= j + 1 => k <= j \/ k = j + 1)
      BY <1>1, <2>2
    <3>2. k <= j => f[j + 1] = y
      BY <1>3, <1>4, <1>6, <2>2
    <3> QED  BY <1>2, <3>1, <3>2
  <2>3. \A j \in 0 .. n : j \in P
    <3> HIDE DEF P
    <3> QED  BY <1>1, <2>1, <2>2, IntervalInduction
  <2>4. n \in 0 .. n /\ k <= n
    BY <1>1
  <2> QED  BY <2>3, <2>4
<1> QED  BY <1>3, <1>5, <1>6

\* R relates states of two programs, and from related states the second goes on to one
\* that is related again, or ends as the first does.
CanFollow(p, q, o, X, Y, R) ==
    \A x \in X, y \in Y : <<x, y>> \in R =>
        /\ ~Ended(p, x) => \E z \in Y : <<NextState(p, o, x), z>> \in R
        /\ Ended(p, x) => \E z \in Y : Ended(q, z) /\ Observed(z) = Observed(x)

\* If the run of q can follow that of p instruction by instruction, both end alike.
LEMMA Simulation ==
    ASSUME NEW p, NEW q, NEW o, NEW f, NEW n, Whole(p, o, f, n),
           NEW g, NEW m, Whole(q, o, g, m), NEW R, <<FirstState, FirstState>> \in R,
           CanFollow(p, q, o, StatesOf(f, n), StatesOf(g, m), R)
    PROVE  Final(f, n) = Final(g, m)
<1> DEFINE X == StatesOf(f, n)
           Y == StatesOf(g, m)
           P == {k \in 0 .. n : \E y \in Y : <<f[k], y>> \in R}
<1>1. /\ n \in Nat /\ m \in Nat /\ f[0] = FirstState /\ g[0] = FirstState /\ Ended(p, f[n])
      /\ \A k \in 0 .. n : k < n => f[k + 1] = NextState(p, o, f[k])
  BY DEF Whole, StatesFollow
<1>2. 0 \in 0 .. n /\ 0 \in 0 .. m /\ n \in 0 .. n
  BY <1>1
<1>3. FirstState \in Y /\ \A k \in 0 .. n : f[k] \in X
  BY <1>1, <1>2 DEF StatesOf
<1>4. 0 \in P
  BY <1>1, <1>2, <1>3
<1>5. ASSUME NEW k \in 0 .. n, k < n, k \in P PROVE k + 1 \in P
  <2>1. k + 1 \in 0 .. n /\ f[k + 1] = NextState(p, o, f[k]) /\ f[k] \in X
    BY <1>1, <1>3, <1>5
  <2>2. PICK y \in Y : <<f[k], y>> \in R
    BY <1>5
  <2>3. CASE Ended(p, f[k])
    <3>1. f[k + 1] = f[k]
      BY <2>1, <2>3, Zenon DEF NextState
    <3> QED  BY <2>1, <2>2, <3>1
  <2>4. CASE ~Ended(p, f[k])
    <3>1. \E z \in Y : <<NextState(p, o, f[k]), z>> \in R
      BY <2>1, <2>2, <2>4, Zenon DEF CanFollow
    <3> QED  BY <2>1, <3>1
  <2> QED  BY <2>3, <2>4
<1>6. n \in P
  <2>1. \A k \in 0 .. n : k \in P
    <3> HIDE DEF P
    <3> QED  BY <1>1, <1>4, <1>5, IntervalInduction
  <2> QED  BY <1>2, <2>1
<1>7. PICK y \in Y : <<f[n], y>> \in R
  BY <1>6
<1>8. PICK z \in Y : Ended(q, z) /\ Observed(z) = Observed(f[n])
  <2>1. f[n] \in X /\ Ended(p, f[n])
    BY <1>1, <1>2, <1>3
  <2> QED  BY <1>7, <2>1, Zenon DEF CanFollow
<1>9. z = g[m]
  BY <1>8, WholeFacts
<1> QED  BY <1>8, <1>9 DEF Final

\* Programs that do the same whatever the branches do.
Equivalent(p, q) == \A o \in [1 .. MaxControls -> BOOLEAN] : Behaviour(p, o) = Behaviour(q, o)

\* Programs whose whole runs show the same at the end.
EndAlike(p, q) ==
    \A o, f, n, g, m :
        Whole(p, o, f, n) /\ Whole(q, o, g, m) => Final(f, n) = Final(g, m)

\* It is enough to compare the states at the end.
LEMMA EquivalentIfObserved ==
    ASSUME NEW p \in Seq(InstructionSet), NEW q \in Seq(InstructionSet),
           EndAlike(p, q)
    PROVE  Equivalent(p, q)
<1> SUFFICES ASSUME NEW o \in [1 .. MaxControls -> BOOLEAN]
             PROVE  Behaviour(p, o) = Behaviour(q, o)
  BY DEF Equivalent
<1>1. PICK f : /\ StatesFollow(p, o, f, StepsOf(p)) /\ Ended(p, f[StepsOf(p)])
               /\ Behaviour(p, o) = Observed(f[StepsOf(p)])
  BY BehaviourIsObserved
<1>2. PICK g : /\ StatesFollow(q, o, g, StepsOf(q)) /\ Ended(q, g[StepsOf(q)])
               /\ Behaviour(q, o) = Observed(g[StepsOf(q)])
  BY BehaviourIsObserved
<1>3. Whole(p, o, f, StepsOf(p)) /\ Whole(q, o, g, StepsOf(q))
  BY <1>1, <1>2, BehaviourIsObserved DEF Whole
<1>4. Final(f, StepsOf(p)) = Final(g, StepsOf(q))
  BY <1>3 DEF EndAlike
<1> QED  BY <1>1, <1>2, <1>4 DEF Final

\* Instructions that the simulator cannot tell apart.
Alike(x, y) ==
    /\ x.opcode = y.opcode /\ x.rd = y.rd /\ x.rs = y.rs /\ x.rt = y.rt
    /\ x.immediate = y.immediate
    /\ isControl(x) => x.target_index = y.target_index

\* It does the same with them.
LEMMA AlikeFacts ==
    ASSUME NEW x, NEW y, Alike(x, y)
    PROVE  /\ isControl(x) <=> isControl(y)
           /\ \A a : Compared(a, x) = Compared(a, y)
           /\ \A m : Execute(m, x) = Execute(m, y)
           /\ isControl(x) => \A pc, taken : BranchTarget(x, pc, taken) = BranchTarget(y, pc, taken)
<1>1. isControl(x) <=> isControl(y)
  BY DEF Alike, isControl, isBranch, isJump
<1>2. \A a : Compared(a, x) = Compared(a, y)
  BY Zenon DEF Alike, Compared
<1>3. \A m : Execute(m, x) = Execute(m, y)
  BY Zenon DEF Alike, Execute
<1>4. isControl(x) => \A pc, taken : BranchTarget(x, pc, taken) = BranchTarget(y, pc, taken)
  <2>1. isJump(x) <=> isJump(y)
    BY DEF Alike, isJump
  <2>2. isControl(x) => x.target_index = y.target_index
    BY DEF Alike
  <2> QED  BY <2>1, <2>2 DEF BranchTarget
<1> QED  BY <1>1, <1>2, <1>3, <1>4

\* Programs of such instructions do the same.
LEMMA AlikeEquivalent ==
    ASSUME NEW p \in Seq(InstructionSet), NEW q \in Seq(InstructionSet),
           Len(p) = Len(q), \A k \in 1 .. Len(p) : Alike(p[k], q[k])
    PROVE  Equivalent(p, q)
<1>1. ASSUME NEW o, NEW a, IsRunState(a)
      PROVE  NextState(p, o, a) = NextState(q, o, a) /\ (Ended(p, a) <=> Ended(q, a))
  <2>1. Ended(p, a) <=> Ended(q, a)
    BY DEF Ended
  <2>2. CASE Ended(p, a)
    BY <2>1, <2>2, Zenon DEF NextState
  <2>3. CASE ~Ended(p, a)
    <3> DEFINE x == p[a.pc]
               y == q[a.pc]
    <3>1. Alike(x, y)
      <4>1. PICK V, W : a \in RunState(V, W)
        BY <1>1 DEF IsRunState
      <4>2. a.pc \in Nat \ {0} /\ Len(p) \in Nat
        BY <4>1 DEF RunState
      <4>3. a.pc \in 1 .. Len(p)
        BY <2>3, <4>2 DEF Ended
      <4> QED  BY <4>3
    <3>2. /\ isControl(x) <=> isControl(y)
          /\ Compared(a, x) = Compared(a, y)
          /\ Execute(a.data, x) = Execute(a.data, y)
          /\ isControl(x) => TargetFrom(p, o, a) = TargetFrom(q, o, a)
      BY <3>1, AlikeFacts DEF TargetFrom
    <3>3. AfterInstruction(a, x, TargetFrom(p, o, a), a.pc = Len(p))
            = AfterInstruction(a, y, TargetFrom(q, o, a), a.pc = Len(q))
      BY <3>2 DEF AfterInstruction
    <3>4. NextState(p, o, a) = NextState(q, o, a)
      BY <2>1, <2>3, <3>3, Zenon DEF NextState
    <3> QED  BY <2>1, <3>4
  <2> QED  BY <2>2, <2>3
<1>2. ASSUME NEW o, NEW f, NEW n, Whole(p, o, f, n), NEW g, NEW m, Whole(q, o, g, m)
      PROVE  Final(f, n) = Final(g, m)
  <2> DEFINE X == StatesOf(f, n)
             Y == StatesOf(g, m)
             R == {<<x, x>> : x \in Y}
  <2>1. <<FirstState, FirstState>> \in R
    <3>1. g[0] = FirstState /\ 0 \in 0 .. m
      BY <1>2 DEF Whole, StatesFollow
    <3> QED  BY <3>1 DEF StatesOf
  <2>2. \A x, y : <<x, y>> \in R <=> x = y /\ y \in Y
    OBVIOUS
  <2>3. \A y \in Y : IsRunState(y) /\ NextState(q, o, y) \in Y
    BY <1>2, WholeFacts
  <2> HIDE DEF R
  <2>4. ASSUME NEW x \in X, NEW y \in Y, <<x, y>> \in R, ~Ended(p, x)
        PROVE  \E z \in Y : <<NextState(p, o, x), z>> \in R
    <3>1. x = y /\ NextState(p, o, x) = NextState(q, o, y)
      BY <1>1, <2>2, <2>3, <2>4
    <3> QED  BY <2>2, <2>3, <3>1
  <2>5. ASSUME NEW x \in X, NEW y \in Y, <<x, y>> \in R, Ended(p, x)
        PROVE  \E z \in Y : Ended(q, z) /\ Observed(z) = Observed(x)
    BY <1>1, <2>2, <2>3, <2>5
  <2>6. CanFollow(p, q, o, X, Y, R)
    BY <2>4, <2>5, Zenon DEF CanFollow
  <2> QED  BY <1>2, <2>1, <2>6, Simulation
<1>3. EndAlike(p, q)
  BY <1>2 DEF EndAlike
<1> QED  BY <1>3, EquivalentIfObserved

\* Meaning is equivalence with targets resolved.
LEMMA MeaningIsEquivalence ==
    ASSUME NEW p, NEW q
    PROVE  SameMeaning(p, q) <=> Equivalent(resolveTargets(p), resolveTargets(q))
BY DEF SameMeaning, Equivalent

\* The simulator reads neither the mark nor what the target index was before.
LEMMA SameTextsSameMeaning ==
    ASSUME NEW p \in Seq(InstructionSet), NEW q \in Seq(InstructionSet), SameTexts(p, q)
    PROVE  SameMeaning(p, q)
<1> DEFINE P == resolveTargets(p)
           Q == resolveTargets(q)
<1>1. /\ P \in Seq(InstructionSet) /\ Len(P) = Len(p)
      /\ \A k \in 1 .. Len(p) :
            /\ Text(P[k]) = Text(p[k])
            /\ isControl(p[k]) => P[k].target_index = LabelPosition(p, p[k].target_label)
  BY ResolveText DEF SameTexts
<1>2. /\ Q \in Seq(InstructionSet) /\ Len(Q) = Len(q)
      /\ \A k \in 1 .. Len(q) :
            /\ Text(Q[k]) = Text(q[k])
            /\ isControl(q[k]) => Q[k].target_index = LabelPosition(q, q[k].target_label)
  BY ResolveText DEF SameTexts
<1> HIDE DEF P, Q
<1>3. ASSUME NEW k \in 1 .. Len(p) PROVE Alike(P[k], Q[k])
  <2> DEFINE x == P[k]
             y == Q[k]
  <2>1. /\ p[k] \in InstructionSet /\ q[k] \in InstructionSet /\ Text(q[k]) = Text(p[k])
        /\ x \in InstructionSet /\ y \in InstructionSet
        /\ Text(x) = Text(p[k]) /\ Text(y) = Text(q[k])
    BY <1>1, <1>2 DEF SameTexts
  <2>2. /\ isControl(x) <=> isControl(p[k])
        /\ isControl(p[k]) <=> isControl(q[k])
        /\ p[k].target_label = q[k].target_label
    BY <2>1, SameTextSameKind
  <2>3. isControl(x) => x.target_index = y.target_index
    <3>1. LabelPosition(q, q[k].target_label) = LabelPosition(p, q[k].target_label)
      BY LabelPositionSame
    <3>2. k \in 1 .. Len(q)
      BY DEF SameTexts
    <3> QED  BY <1>1, <1>2, <2>2, <3>1, <3>2
  <2>4. Text(x) = Text(y)
    BY <2>1
  <2> HIDE DEF x, y
  <2>5. /\ x.opcode = y.opcode /\ x.rd = y.rd /\ x.rs = y.rs /\ x.rt = y.rt
        /\ x.immediate = y.immediate
    <3>1. \A z \in InstructionSet :
             /\ Text(z).opcode = z.opcode /\ Text(z).rd = z.rd /\ Text(z).rs = z.rs
             /\ Text(z).rt = z.rt /\ Text(z).immediate = z.immediate
      BY DEF Text, InstructionSet
    <3> QED  BY <2>1, <2>4, <3>1
  <2>6. Alike(x, y)
    BY <2>3, <2>5 DEF Alike
  <2> QED  BY <2>6 DEF x, y
<1>4. Len(P) = Len(Q) /\ Len(P) = Len(p)
  BY <1>1, <1>2 DEF SameTexts
<1>5. Equivalent(P, Q)
  BY <1>1, <1>2, <1>3, <1>4, AlikeEquivalent
<1> QED  BY <1>5, MeaningIsEquivalence DEF P, Q

\* What a nop does.
LEMMA NopDoesNothing ==
    ASSUME NEW x, isNop(x)
    PROVE  ~isControl(x) /\ \A m : Execute(m, x) = m
BY DEF isNop, isControl, isBranch, isJump, Execute, RdArithmetic

\* A control instruction at the end does the same with a nop in its slot.
LEMMA SlotAtEnd ==
    ASSUME NEW p \in Seq(InstructionSet), NEW q \in Seq(InstructionSet),
           NEW N \in Nat, Len(p) = N, Len(q) = N + 1, isControl(p[N]),
           \A k \in 1 .. N : q[k] = p[k], isNop(q[N + 1])
    PROVE  Equivalent(p, q)
<1>1. ASSUME NEW o, NEW f, NEW n, Whole(p, o, f, n), NEW g, NEW m, Whole(q, o, g, m)
      PROVE  Final(f, n) = Final(g, m)
  <2> DEFINE X == StatesOf(f, n)
             Y == StatesOf(g, m)
             R == {<<x, x>> : x \in {y \in Y : y.target # 0 => y.pc <= N}}
  <2>1. \A x, y : <<x, y>> \in R <=> x = y /\ y \in Y /\ (y.target # 0 => y.pc <= N)
    OBVIOUS
  <2>2. <<FirstState, FirstState>> \in R
    <3>1. g[0] = FirstState /\ 0 \in 0 .. m
      BY <1>1 DEF Whole, StatesFollow
    <3>2. FirstState.target = 0 /\ FirstState \in Y
      BY <3>1 DEF StatesOf, FirstState, StateOf, StartMachine
    <3> HIDE DEF R
    <3> QED  BY <2>1, <3>2
  <2>3. \A y \in Y : IsRunState(y) /\ NextState(q, o, y) \in Y
    BY <1>1, WholeFacts
  <2> HIDE DEF R, X, Y
  <2>4. ASSUME NEW y \in Y, y.target # 0 => y.pc <= N, ~Ended(p, y)
        PROVE  \E z \in Y : <<NextState(p, o, y), z>> \in R
    <3> DEFINE x == p[y.pc]
               t == TargetFrom(p, o, y)
               c == Compared(y, x)
    <3>1. y.pc \in 1 .. N /\ y.pc \in Nat /\ Len(y.seen) # MaxControls
      <4>1. PICK V, W : y \in RunState(V, W)
        BY <2>3 DEF IsRunState
      <4>2. y.pc \in Nat \ {0} /\ ~(y.pc > N) /\ Len(y.seen) # MaxControls
        BY <2>4, <4>1 DEF RunState, Ended
      <4> QED  BY <4>2
    <3>2. q[y.pc] = x /\ ~Ended(q, y) /\ TargetFrom(q, o, y) = t /\ y.pc # Len(q)
      BY <3>1 DEF Ended, TargetFrom
    <3>3. /\ NextState(p, o, y) = AfterInstruction(y, x, t, y.pc = N)
          /\ NextState(q, o, y) = AfterInstruction(y, x, t, FALSE)
      <4>1. NextState(p, o, y) = AfterInstruction(y, x, t, y.pc = N)
        BY <2>4, Zenon DEF NextState
      <4>2. NextState(q, o, y) = AfterInstruction(y, q[y.pc], TargetFrom(q, o, y), y.pc = Len(q))
        BY <3>2, Zenon DEF NextState
      <4> QED  BY <3>2, <4>1, <4>2
    <3> HIDE DEF x, t, c
    <3>4. CASE y.pc # N \/ ~isControl(x)
      <4> DEFINE z == NextState(q, o, y)
      <4>1. NextState(p, o, y) = z
        BY <3>3, <3>4 DEF AfterInstruction
      <4>2. z.target # 0 => z.pc <= N
        <5>1. CASE isControl(x)
          <6>1. z.pc = y.pc + 1
            BY <3>3, <5>1 DEF AfterInstruction, RunsOn
          <6> QED  BY <3>1, <3>4, <5>1, <6>1
        <5>2. CASE ~isControl(x)
          BY <3>3, <5>2 DEF AfterInstruction, RunsOn, SlotOver
        <5> QED  BY <5>1, <5>2
      <4> QED  BY <2>1, <2>3, <4>1, <4>2
    <3>5. CASE y.pc = N /\ isControl(x)
      <4> DEFINE z == NextState(q, o, y)
                 u == NextState(q, o, z)
      <4>1. /\ NextState(p, o, y) = SlotOver(y, t, Compared(y, x), y.data)
            /\ z = RunsOn(y, N + 1, t, Compared(y, x), y.data)
        BY <3>3, <3>5 DEF AfterInstruction
      <4>2. /\ z.pc = N + 1 /\ z.target = t /\ z.control = Compared(y, x)
            /\ z.data = y.data /\ z.seen = y.seen
        BY <4>1 DEF RunsOn
      <4>3. t # 0
        BY <3>1, TargetIsPosition DEF t, TargetFrom, x
      <4>4. ~Ended(q, z)
        BY <3>1, <4>2 DEF Ended
      <4>5. u = AfterInstruction(z, q[N + 1], TargetFrom(q, o, z), z.pc = Len(q))
        BY <4>2, <4>4, Zenon DEF NextState
      <4> HIDE DEF u
      <4>6. u = SlotOver(z, t, Compared(y, x), y.data)
        <5>1. ~isControl(q[N + 1]) /\ Execute(z.data, q[N + 1]) = z.data
          BY NopDoesNothing
        <5> HIDE DEF z
        <5> QED  BY <4>2, <4>3, <4>5, <5>1 DEF AfterInstruction
      <4>7. u = NextState(p, o, y)
        BY <4>1, <4>2, <4>6 DEF SlotOver
      <4>8. u.target = 0
        BY <4>6 DEF SlotOver
      <4>9. u \in Y
        BY <2>3 DEF u
      <4> QED  BY <2>1, <4>7, <4>8, <4>9
    <3> QED  BY <3>4, <3>5
  <2>5. ASSUME NEW y \in Y, y.target # 0 => y.pc <= N, Ended(p, y)
        PROVE  \E z \in Y : Ended(q, z) /\ Observed(z) = Observed(y)
    <3>1. y.pc \in Nat
      <4>1. PICK V, W : y \in RunState(V, W)
        BY <2>3 DEF IsRunState
      <4> QED  BY <4>1 DEF RunState
    <3>2. CASE Ended(q, y)
      BY <3>2
    <3>3. CASE ~Ended(q, y)
      <4> DEFINE z == NextState(q, o, y)
      <4>1. y.pc = N + 1 /\ y.target = 0 /\ Len(y.seen) # MaxControls
        BY <2>5, <3>1, <3>3 DEF Ended
      <4>2. z = AfterInstruction(y, q[N + 1], TargetFrom(q, o, y), y.pc = Len(q))
        BY <3>3, <4>1, Zenon DEF NextState
      <4>3. z = RunsOn(y, y.pc + 1, 0, y.control, y.data)
        <5>1. ~isControl(q[N + 1]) /\ Execute(y.data, q[N + 1]) = y.data
          BY NopDoesNothing
        <5> HIDE DEF z
        <5> QED  BY <4>1, <4>2, <5>1 DEF AfterInstruction
      <4>4. z \in Y
        BY <2>3
      <4> HIDE DEF z
      <4>5. z.pc = y.pc + 1 /\ z.seen = y.seen /\ z.data = y.data
        BY <4>3 DEF RunsOn
      <4>6. Ended(q, z)
        BY <4>1, <4>5 DEF Ended
      <4>7. Observed(z) = Observed(y)
        BY <4>5, Zenon DEF Observed
      <4> QED  BY <4>4, <4>6, <4>7
    <3> QED  BY <3>2, <3>3
  <2>6. CanFollow(p, q, o, X, Y, R)
    <3> SUFFICES ASSUME NEW x \in X, NEW y \in Y, <<x, y>> \in R
                 PROVE  /\ ~Ended(p, x) => \E z \in Y : <<NextState(p, o, x), z>> \in R
                        /\ Ended(p, x) => \E z \in Y : Ended(q, z) /\ Observed(z) = Observed(x)
      BY Zenon DEF CanFollow
    <3>1. x = y /\ (y.target # 0 => y.pc <= N)
      BY <2>1
    <3> QED  BY <2>4, <2>5, <3>1
  <2> QED  BY <1>1, <2>2, <2>6, Simulation DEF X, Y
<1>2. EndAlike(p, q)
  BY <1>1 DEF EndAlike
<1> QED  BY <1>2, EquivalentIfObserved

-----------------------------------------------------------------------------
(* A move.                                                                 *)

\* What is known of a move, from p to q, of the instruction at c behind the control
\* instruction at b when the move is none of the deviations: how the programs lie, ...
Layout(p, q, c, b) ==
    /\ p \in Seq(InstructionSet) /\ q \in Seq(InstructionSet) /\ Len(q) = Len(p)
    /\ c \in Nat \ {0} /\ b \in Nat /\ c < b /\ b < Len(p)
    /\ \A k \in 1 .. c - 1 : q[k] = p[k]
    /\ \A k \in c .. b - 1 : q[k] = p[k + 1]
    /\ q[b] = p[c]
    /\ \A k \in b + 1 .. Len(p) : q[k] = p[k]

\* ... that nobody comes from elsewhere into what is moved, ...
Enclosed(p, c, b) ==
    /\ \A k \in c .. b - 1 : ~isControl(p[k])
    /\ isControl(p[b]) /\ isNop(p[b + 1])
    /\ c > 1 => ~isControl(p[c - 1])
    /\ \A k \in 1 .. Len(p) : isControl(p[k]) => p[k].target_index \notin c + 1 .. b
    /\ isJump(p[b]) => p[b].target_index # 0

\* ... and that the instruction at c can wait.
CanWait(p, c, b) ==
    \A V : \A m \in Machines(V) :
        /\ \A k \in c + 1 .. b - 1 :
              Execute(Execute(m, p[c]), p[k]) = Execute(Execute(m, p[k]), p[c])
        /\ \A r \in {p[b].rs, p[b].rt} :
              readRegister(Execute(m, p[c]), r) = readRegister(m, r)

\* A move that is none of the deviations.
SafeMove(p, q, c, b) == Layout(p, q, c, b) /\ Enclosed(p, c, b) /\ CanWait(p, c, b)

\* How a state x of p and a state y of q belong together: they are the same outside of
\* what is moved, ...
Outside(x, y, c, b) ==
    /\ x = y /\ x.pc \notin c + 1 .. b /\ x.target \notin c + 1 .. b
    /\ x.target # 0 => x.pc # c /\ x.pc # b + 1

\* ... q has not executed the instruction at c, ...
Waits(x, y, inst) ==
    /\ x.pc = y.pc + 1 /\ x.control = y.control /\ x.seen = y.seen
    /\ x.data = Execute(y.data, inst)

\* ... while the control instruction is still to come, ...
BeforeBranch(x, y, p, c, b) ==
    Waits(x, y, p[c]) /\ x.pc \in c + 1 .. b /\ x.target = 0 /\ y.target = 0

\* ... in the slot, which is at b + 1 in both, ...
InSlots(x, y, p, c, b) ==
    /\ Waits(x, y, p[c]) /\ x.pc = b + 1 /\ x.target # 0 /\ y.target # 0
    /\ \/ x.target = y.target /\ x.target \notin c + 1 .. b
       \/ x.target = b + 2 /\ y.target = b + 1

\* ... or both have shown all there is to see.
Stopped(x, y) == x.seen = y.seen /\ Len(x.seen) = MaxControls

\* One of these.
Related(x, y, p, c, b) ==
    Outside(x, y, c, b) \/ BeforeBranch(x, y, p, c, b) \/ InSlots(x, y, p, c, b) \/ Stopped(x, y)

\* The parts of a state.
LEMMA StateFacts ==
    ASSUME NEW a, IsRunState(a)
    PROVE  /\ a.pc \in Nat \ {0} /\ a.pc \in Nat /\ a.target \in Nat
           /\ \E V : a.data \in Machines(V)
BY DEF IsRunState, RunState

\* The branches outside of what is moved go outside.
LEMMA GoesOutside ==
    ASSUME NEW x \in InstructionSet, NEW k \in Nat \ {0}, NEW taken,
           NEW c \in Nat \ {0}, NEW b \in Nat, c < b,
           x.target_index \notin c + 1 .. b, k < c - 1 \/ k > b
    PROVE  BranchTarget(x, k, taken) \notin c + 1 .. b
<1>1. k + 1 \notin c + 1 .. b /\ k + 2 \notin c + 1 .. b
  OBVIOUS
<1>2. BranchTarget(x, k, taken) \in {x.target_index, k + 1, k + 2}
  BY DEF BranchTarget
<1> QED  BY <1>1, <1>2

\* What comes of a state a that goes on, by the instruction that is executed.
Becomes(p, o, a, z) ==
    /\ a.pc \in 1 .. Len(p) /\ a.pc \in Nat /\ p[a.pc] \in InstructionSet
    /\ isControl(p[a.pc]) /\ a.pc = Len(p) =>
         z = SlotOver(a, TargetFrom(p, o, a), Compared(a, p[a.pc]), a.data)
    /\ isControl(p[a.pc]) /\ a.pc # Len(p) =>
         z = RunsOn(a, a.pc + 1, TargetFrom(p, o, a), Compared(a, p[a.pc]), a.data)
    /\ ~isControl(p[a.pc]) /\ a.target # 0 =>
         z = SlotOver(a, a.target, a.control, Execute(a.data, p[a.pc]))
    /\ ~isControl(p[a.pc]) /\ a.target = 0 =>
         z = RunsOn(a, a.pc + 1, 0, a.control, Execute(a.data, p[a.pc]))

\* An instruction of a program that goes on.
LEMMA OneBecomes ==
    ASSUME NEW p \in Seq(InstructionSet), NEW o, NEW a, IsRunState(a), ~Ended(p, a)
    PROVE  Becomes(p, o, a, NextState(p, o, a))
<1>1. a.pc \in Nat \ {0} /\ Len(p) \in Nat
  BY StateFacts
<1>2. a.pc \in 1 .. Len(p)
  BY <1>1 DEF Ended
<1>3. NextState(p, o, a) = AfterInstruction(a, p[a.pc], TargetFrom(p, o, a), a.pc = Len(p))
  BY Zenon DEF NextState
<1>4. p[a.pc] \in InstructionSet
  BY <1>2
<1> QED  BY <1>1, <1>2, <1>3, <1>4, Zenon DEF AfterInstruction, Becomes

\* Outside of what is moved both do the same, until they come to its first instruction.
LEMMA OutsideFollows ==
    ASSUME NEW p, NEW q, NEW c, NEW b, SafeMove(p, q, c, b), NEW o,
           NEW x, IsRunState(x), ~Ended(p, x), Outside(x, x, c, b)
    PROVE  \/ Outside(NextState(p, o, x), NextState(q, o, x), c, b)
           \/ BeforeBranch(NextState(p, o, x), x, p, c, b)
<1>1. /\ p \in Seq(InstructionSet) /\ q \in Seq(InstructionSet) /\ Len(q) = Len(p)
      /\ c \in Nat \ {0} /\ b \in Nat /\ c < b /\ b < Len(p)
      /\ \A k \in 1 .. c - 1 : q[k] = p[k]
      /\ \A k \in b + 1 .. Len(p) : q[k] = p[k]
  BY DEF SafeMove, Layout
<1>2. /\ \A k \in c .. b - 1 : ~isControl(p[k])
      /\ c > 1 => ~isControl(p[c - 1])
      /\ \A k \in 1 .. Len(p) : isControl(p[k]) => p[k].target_index \notin c + 1 .. b
  BY DEF SafeMove, Enclosed
<1>3. /\ x.pc \notin c + 1 .. b /\ x.target \notin c + 1 .. b
      /\ x.target # 0 => x.pc # c /\ x.pc # b + 1
  BY DEF Outside
<1> DEFINE k == x.pc
           N == Len(p)
           t == TargetFrom(p, o, x)
           z == NextState(p, o, x)
<1>4. /\ k \in 1 .. N /\ k \in Nat /\ p[k] \in InstructionSet /\ N \in Nat
      /\ isControl(p[k]) /\ k = N => z = SlotOver(x, t, Compared(x, p[k]), x.data)
      /\ isControl(p[k]) /\ k # N => z = RunsOn(x, k + 1, t, Compared(x, p[k]), x.data)
      /\ ~isControl(p[k]) /\ x.target # 0 =>
            z = SlotOver(x, x.target, x.control, Execute(x.data, p[k]))
      /\ ~isControl(p[k]) /\ x.target = 0 =>
            z = RunsOn(x, k + 1, 0, x.control, Execute(x.data, p[k]))
  <2>1. N \in Nat
    BY <1>1
  <2>2. Becomes(p, o, x, z)
    BY <1>1, OneBecomes
  <2> QED  BY <2>1, <2>2, Zenon DEF Becomes
<1>5. CASE k = c
  <2>1. ~isControl(p[k]) /\ x.target = 0
    BY <1>1, <1>2, <1>3, <1>5
  <2>2. z = RunsOn(x, c + 1, 0, x.control, Execute(x.data, p[c]))
    BY <1>4, <1>5, <2>1
  <2> HIDE DEF z
  <2>3. /\ z.pc = c + 1 /\ z.target = 0 /\ z.control = x.control /\ z.seen = x.seen
        /\ z.data = Execute(x.data, p[c])
    BY <2>2 DEF RunsOn
  <2>4. c + 1 \in c + 1 .. b
    BY <1>1
  <2>5. BeforeBranch(z, x, p, c, b)
    BY <1>5, <2>1, <2>3, <2>4 DEF BeforeBranch, Waits
  <2> QED  BY <2>5 DEF z
<1>6. CASE k # c
  <2>1. (k < c \/ k > b) /\ q[k] = p[k]
    <3>1. k < c \/ k > b
      BY <1>1, <1>3, <1>4, <1>6
    <3>2. k \in 1 .. c - 1 \/ k \in b + 1 .. N
      BY <1>1, <1>4, <3>1
    <3> QED  BY <1>1, <3>1, <3>2
  <2>2. NextState(q, o, x) = z
    <3>1. Ended(q, x) <=> Ended(p, x)
      BY <1>1 DEF Ended
    <3>2. TargetFrom(q, o, x) = t
      BY <2>1 DEF TargetFrom
    <3> QED  BY <1>1, <2>1, <3>1, <3>2 DEF NextState
  <2>3. isControl(p[k]) => (k < c - 1 \/ k > b) /\ t \notin c + 1 .. b
    <3> SUFFICES ASSUME isControl(p[k]) PROVE (k < c - 1 \/ k > b) /\ t \notin c + 1 .. b
      OBVIOUS
    <3>1. k < c - 1 \/ k > b
      <4>1. CASE k = c - 1
        <5>1. c > 1
          BY <1>1, <1>4, <4>1
        <5> QED  BY <1>2, <4>1, <5>1
      <4> QED  BY <1>1, <1>4, <2>1, <4>1
    <3>2. k \in Nat \ {0} /\ p[k].target_index \notin c + 1 .. b
      BY <1>2, <1>4
    <3> HIDE DEF k
    <3>3. BranchTarget(p[k], k, o[Len(x.seen) + 1]) \notin c + 1 .. b
      BY <1>1, <1>4, <3>1, <3>2, GoesOutside
    <3> QED  BY <3>1, <3>3 DEF TargetFrom, k
  <2> HIDE DEF z, t
  <2>4. CASE isControl(p[k]) /\ k = N
    <3>1. z.pc = t /\ z.target = 0
      BY <1>4, <2>4 DEF SlotOver
    <3>2. 0 \notin c + 1 .. b
      BY <1>1
    <3> QED  BY <2>2, <2>3, <2>4, <3>1, <3>2 DEF Outside, z
  <2>5. CASE isControl(p[k]) /\ k # N
    <3>1. z.pc = k + 1 /\ z.target = t
      BY <1>4, <2>5 DEF RunsOn
    <3>2. k + 1 \notin c + 1 .. b /\ k + 1 # c /\ k + 1 # b + 1
      BY <1>1, <1>4, <2>3, <2>5
    <3> QED  BY <2>2, <2>3, <2>5, <3>1, <3>2 DEF Outside, z
  <2>6. CASE ~isControl(p[k]) /\ x.target # 0
    <3>1. z.pc = x.target /\ z.target = 0
      BY <1>4, <2>6 DEF SlotOver
    <3>2. 0 \notin c + 1 .. b
      BY <1>1
    <3> QED  BY <1>3, <2>2, <3>1, <3>2 DEF Outside, z
  <2>7. CASE ~isControl(p[k]) /\ x.target = 0
    <3>1. z.pc = k + 1 /\ z.target = 0
      BY <1>4, <2>7 DEF RunsOn
    <3>2. 0 \notin c + 1 .. b /\ k + 1 \notin c + 1 .. b
      BY <1>1, <1>4, <2>1
    <3> QED  BY <2>2, <3>1, <3>2 DEF Outside, z
  <2> QED  BY <2>4, <2>5, <2>6, <2>7
<1> QED  BY <1>5, <1>6

\* Between them q executes the same instruction one position earlier, ...
LEMMA BeforeFollows ==
    ASSUME NEW p, NEW q, NEW c, NEW b, SafeMove(p, q, c, b), NEW o,
           NEW x, IsRunState(x), ~Ended(p, x), NEW y, IsRunState(y), BeforeBranch(x, y, p, c, b)
    PROVE  \/ BeforeBranch(NextState(p, o, x), NextState(q, o, y), p, c, b)
           \/ InSlots(NextState(p, o, x), NextState(q, o, y), p, c, b)
<1>1. /\ p \in Seq(InstructionSet) /\ q \in Seq(InstructionSet) /\ Len(q) = Len(p)
      /\ c \in Nat \ {0} /\ b \in Nat /\ c < b /\ b < Len(p) /\ Len(p) \in Nat
      /\ \A k \in c .. b - 1 : q[k] = p[k + 1]
  BY DEF SafeMove, Layout
<1>2. /\ \A k \in c .. b - 1 : ~isControl(p[k])
      /\ \A k \in 1 .. Len(p) : isControl(p[k]) => p[k].target_index \notin c + 1 .. b
      /\ isControl(p[b]) /\ (isJump(p[b]) => p[b].target_index # 0)
  BY DEF SafeMove, Enclosed
<1>3. /\ x.pc = y.pc + 1 /\ x.control = y.control /\ x.seen = y.seen
      /\ x.data = Execute(y.data, p[c])
      /\ x.pc \in c + 1 .. b /\ x.target = 0 /\ y.target = 0
  BY DEF BeforeBranch, Waits
<1>4. PICK V : y.data \in Machines(V)
  BY StateFacts
<1>5. y.pc \in Nat /\ x.pc \in Nat
  BY StateFacts
<1> DEFINE k == x.pc
           u == NextState(p, o, x)
           v == NextState(q, o, y)
<1>6. /\ y.pc \in c .. b - 1 /\ y.pc + 1 = k /\ y.pc # Len(q) /\ k # Len(p)
      /\ q[y.pc] = p[k] /\ ~Ended(q, y)
  <2>1. y.pc \in c .. b - 1 /\ y.pc + 1 = k /\ y.pc < Len(q) /\ k < Len(p)
    BY <1>1, <1>3, <1>5
  <2>2. ~Ended(q, y)
    BY <1>1, <1>3, <1>5, <2>1 DEF Ended
  <2>3. q[y.pc] = p[k]
    BY <1>1, <2>1
  <2> QED  BY <1>1, <1>5, <2>1, <2>2, <2>3
<1>7. Becomes(p, o, x, u) /\ Becomes(q, o, y, v)
  BY <1>1, <1>6, OneBecomes
<1> HIDE DEF u, v
<1>8. CASE k # b
  <2>1. ~isControl(p[k]) /\ k \in c + 1 .. b - 1 /\ k + 1 \in c + 1 .. b
    BY <1>1, <1>2, <1>3, <1>5, <1>8
  <2>2. /\ u = RunsOn(x, k + 1, 0, x.control, Execute(x.data, p[k]))
        /\ v = RunsOn(y, y.pc + 1, 0, y.control, Execute(y.data, p[k]))
    BY <1>3, <1>6, <1>7, <2>1, Zenon DEF Becomes
  <2>3. Execute(x.data, p[k]) = Execute(Execute(y.data, p[k]), p[c])
    <3>1. CanWait(p, c, b)
      BY DEF SafeMove
    <3>2. Execute(Execute(y.data, p[c]), p[k]) = Execute(Execute(y.data, p[k]), p[c])
      BY <1>4, <2>1, <3>1, Zenon DEF CanWait
    <3> QED  BY <1>3, <3>2
  <2>4. /\ u.pc = v.pc + 1 /\ u.control = v.control /\ u.seen = v.seen
        /\ u.data = Execute(v.data, p[c]) /\ u.target = 0 /\ v.target = 0 /\ u.pc = k + 1
    BY <1>3, <1>6, <2>2, <2>3 DEF RunsOn
  <2>5. BeforeBranch(u, v, p, c, b)
    BY <2>1, <2>4 DEF BeforeBranch, Waits
  <2> QED  BY <2>5 DEF u, v
<1>9. CASE k = b
  <2> DEFINE t == TargetFrom(p, o, x)
             w == TargetFrom(q, o, y)
  <2>1. /\ u = RunsOn(x, b + 1, t, Compared(x, p[b]), x.data)
        /\ v = RunsOn(y, y.pc + 1, w, Compared(y, p[b]), y.data)
    BY <1>2, <1>6, <1>7, <1>9, Zenon DEF Becomes
  <2>2. Compared(x, p[b]) = Compared(y, p[b])
    <3>1. CanWait(p, c, b)
      BY DEF SafeMove
    <3>2. /\ readRegister(Execute(y.data, p[c]), p[b].rs) = readRegister(y.data, p[b].rs)
          /\ readRegister(Execute(y.data, p[c]), p[b].rt) = readRegister(y.data, p[b].rt)
      BY <1>4, <3>1 DEF CanWait
    <3> QED  BY <1>3, <3>2, Zenon DEF Compared
  <2>3. /\ t = BranchTarget(p[b], b, o[Len(x.seen) + 1])
        /\ w = BranchTarget(p[b], y.pc, o[Len(x.seen) + 1])
    BY <1>3, <1>6, <1>9 DEF TargetFrom
  <2>4. p[b] \in InstructionSet /\ p[b].target_index \notin c + 1 .. b
    BY <1>1, <1>2
  <2>5. t # 0 /\ w # 0
    BY <1>1, <1>5, <2>3, <2>4, TargetIsPosition
  <2>6. (t = w /\ t \notin c + 1 .. b) \/ (t = b + 2 /\ w = b + 1)
    <3>1. y.pc + 2 = b + 1
      BY <1>1, <1>5, <1>6, <1>9
    <3>2. (t = w /\ t = p[b].target_index) \/ (t = b + 2 /\ w = y.pc + 2)
      BY <1>2, <2>3 DEF BranchTarget
    <3> QED  BY <2>4, <3>1, <3>2
  <2> HIDE DEF t, w
  <2>7. /\ u.pc = b + 1 /\ v.pc + 1 = b + 1 /\ u.control = v.control /\ u.seen = v.seen
        /\ u.data = Execute(v.data, p[c]) /\ u.target = t /\ v.target = w
    BY <1>3, <1>6, <1>9, <2>1, <2>2 DEF RunsOn
  <2>8. InSlots(u, v, p, c, b)
    BY <2>5, <2>6, <2>7 DEF InSlots, Waits
  <2> QED  BY <2>8 DEF u, v
<1> QED  BY <1>8, <1>9

\* ... and the nop behind the slot after it, if the branch is not taken.
LEMMA InSlotsFollows ==
    ASSUME NEW p, NEW q, NEW c, NEW b, SafeMove(p, q, c, b), NEW o,
           NEW x, IsRunState(x), ~Ended(p, x), NEW y, IsRunState(y), InSlots(x, y, p, c, b),
           IsRunState(NextState(p, o, x)), IsRunState(NextState(q, o, y))
    PROVE  \/ Outside(NextState(p, o, x), NextState(q, o, y), c, b)
           \/ Outside(NextState(p, o, x), NextState(q, o, NextState(q, o, y)), c, b)
           \/ Stopped(NextState(p, o, x), NextState(q, o, y))
<1>1. /\ p \in Seq(InstructionSet) /\ q \in Seq(InstructionSet) /\ Len(q) = Len(p)
      /\ c \in Nat \ {0} /\ b \in Nat /\ c < b /\ b < Len(p) /\ Len(p) \in Nat
      /\ q[b] = p[c] /\ q[b + 1] = p[b + 1]
  <2>1. /\ p \in Seq(InstructionSet) /\ q \in Seq(InstructionSet) /\ Len(q) = Len(p)
        /\ c \in Nat \ {0} /\ b \in Nat /\ c < b /\ b < Len(p) /\ Len(p) \in Nat
        /\ q[b] = p[c] /\ \A k \in b + 1 .. Len(p) : q[k] = p[k]
    BY DEF SafeMove, Layout
  <2>2. b + 1 \in b + 1 .. Len(p)
    BY <2>1
  <2> QED  BY <2>1, <2>2
<1>2. /\ ~isControl(p[c]) /\ isNop(p[b + 1])
  <2>1. c \in c .. b - 1
    BY <1>1
  <2> QED  BY <2>1 DEF SafeMove, Enclosed
<1>3. /\ x.pc = y.pc + 1 /\ x.control = y.control /\ x.seen = y.seen
      /\ x.data = Execute(y.data, p[c]) /\ x.pc = b + 1 /\ x.target # 0 /\ y.target # 0
      /\ (x.target = y.target /\ x.target \notin c + 1 .. b)
            \/ (x.target = b + 2 /\ y.target = b + 1)
  BY DEF InSlots, Waits
<1> DEFINE u == NextState(p, o, x)
           v == NextState(q, o, y)
           w == NextState(q, o, v)
<1>4. y.pc = b /\ ~Ended(q, y)
  <2>1. y.pc \in Nat
    BY StateFacts
  <2>2. y.pc = b
    BY <1>1, <1>3, <2>1
  <2> QED  BY <1>1, <1>3, <2>2 DEF Ended
<1>5. ~isControl(p[b + 1]) /\ \A m : Execute(m, p[b + 1]) = m
  BY <1>2, NopDoesNothing
<1>6. Becomes(p, o, x, u) /\ Becomes(q, o, y, v)
  BY <1>1, <1>4, OneBecomes
<1>7. /\ u = SlotOver(x, x.target, x.control, x.data)
      /\ v = SlotOver(y, y.target, y.control, x.data)
  <2>1. u = SlotOver(x, x.target, x.control, Execute(x.data, p[b + 1]))
    BY <1>3, <1>5, <1>6, Zenon DEF Becomes
  <2>2. v = SlotOver(y, y.target, y.control, Execute(y.data, p[c]))
    BY <1>1, <1>2, <1>3, <1>4, <1>6, Zenon DEF Becomes
  <2> QED  BY <1>3, <1>5, <2>1, <2>2
<1>8. IsRunState(u) /\ IsRunState(v)
  OBVIOUS
<1> HIDE DEF u, v
<1>9. /\ u.pc = x.target /\ u.target = 0 /\ v.pc = y.target /\ v.target = 0
      /\ u.control = v.control /\ u.data = v.data /\ u.seen = v.seen
  BY <1>3, <1>7 DEF SlotOver
<1>10. 0 \notin c + 1 .. b /\ b + 2 \notin c + 1 .. b
  BY <1>1
<1>11. CASE x.target = y.target /\ x.target \notin c + 1 .. b
  <2>1. u = v
    BY <1>3, <1>7, <1>11 DEF SlotOver
  <2>2. Outside(u, v, c, b)
    BY <1>9, <1>10, <1>11, <2>1 DEF Outside
  <2> QED  BY <2>2 DEF u, v
<1>12. CASE x.target = b + 2 /\ y.target = b + 1
  <2>1. CASE Len(u.seen) = MaxControls
    BY <1>9, <2>1 DEF Stopped, u, v
  <2>2. CASE Len(u.seen) # MaxControls
    <3>1. ~Ended(q, v)
      BY <1>1, <1>9, <1>12, <2>2 DEF Ended
    <3>2. Becomes(q, o, v, w)
      BY <1>1, <1>8, <3>1, OneBecomes
    <3>3. w = RunsOn(v, (b + 1) + 1, 0, v.control, v.data)
      <4>1. v.pc = b + 1 /\ ~isControl(q[v.pc]) /\ Execute(v.data, q[v.pc]) = v.data
        BY <1>1, <1>5, <1>9, <1>12
      <4> QED  BY <1>9, <3>2, <4>1, Zenon DEF Becomes
    <3>4. w = u
      <4>1. (b + 1) + 1 = b + 2
        BY <1>1
      <4>2. u = [pc |-> b + 2, target |-> 0, data |-> x.data, control |-> x.control,
                 seen |-> u.seen]
        <5>1. \A z : z = u.seen => u = [pc |-> b + 2, target |-> 0, data |-> x.data,
                                        control |-> x.control, seen |-> z]
          BY <1>7, <1>12 DEF SlotOver
        <5> QED  BY <5>1
      <4>3. v.control = x.control /\ v.data = x.data
        BY <1>3, <1>7 DEF SlotOver
      <4> QED  BY <1>9, <3>3, <4>1, <4>2, <4>3 DEF RunsOn
    <3>5. Outside(u, w, c, b)
      BY <1>9, <1>10, <1>12, <3>4 DEF Outside
    <3> QED  BY <3>5 DEF u, v
  <2> QED  BY <2>1, <2>2
<1> QED  BY <1>3, <1>11, <1>12

\* Such a move changes nothing that is seen, whatever the branches do.
LEMMA SafeMovesEquivalent ==
    ASSUME NEW p, NEW q, NEW c, NEW b, SafeMove(p, q, c, b)
    PROVE  Equivalent(p, q)
<1>1. /\ p \in Seq(InstructionSet) /\ q \in Seq(InstructionSet) /\ Len(q) = Len(p)
      /\ c \in Nat \ {0} /\ b \in Nat /\ c < b /\ b < Len(p) /\ Len(p) \in Nat
  BY DEF SafeMove, Layout
<1>2. ASSUME NEW o, NEW f, NEW n, Whole(p, o, f, n), NEW g, NEW m, Whole(q, o, g, m)
      PROVE  Final(f, n) = Final(g, m)
  <2> DEFINE X == StatesOf(f, n)
             Y == StatesOf(g, m)
             R == {r \in X \X Y : Related(r[1], r[2], p, c, b)}
  <2>1. \A x \in X, y \in Y : <<x, y>> \in R <=> Related(x, y, p, c, b)
    OBVIOUS
  <2>2. <<FirstState, FirstState>> \in R
    <3>1. FirstState \in X /\ FirstState \in Y
      <4>1. n \in Nat /\ m \in Nat /\ f[0] = FirstState /\ g[0] = FirstState
        BY <1>2 DEF Whole, StatesFollow
      <4>2. 0 \in 0 .. n /\ 0 \in 0 .. m
        BY <4>1
      <4> QED  BY <4>1, <4>2 DEF StatesOf
    <3>2. FirstState.pc = 1 /\ FirstState.target = 0
      BY DEF FirstState, StateOf, StartMachine
    <3>3. 1 \notin c + 1 .. b /\ 0 \notin c + 1 .. b
      BY <1>1
    <3>4. Related(FirstState, FirstState, p, c, b)
      BY <3>2, <3>3 DEF Related, Outside
    <3> HIDE DEF R
    <3> QED  BY <2>1, <3>1, <3>4
  <2>3. /\ \A y \in Y : IsRunState(y) /\ NextState(q, o, y) \in Y
        /\ \A x \in X : IsRunState(x) /\ NextState(p, o, x) \in X
    BY <1>2, WholeFacts
  <2> HIDE DEF R, X, Y
  <2>4. ASSUME NEW x \in X, NEW y \in Y, Related(x, y, p, c, b), ~Ended(p, x)
        PROVE  \E z \in Y : Related(NextState(p, o, x), z, p, c, b)
    <3>1. CASE Outside(x, y, c, b)
      <4>1. x = y /\ Outside(x, x, c, b)
        BY <3>1 DEF Outside
      <4>2. \/ Outside(NextState(p, o, x), NextState(q, o, y), c, b)
            \/ BeforeBranch(NextState(p, o, x), y, p, c, b)
        BY <2>3, <2>4, <4>1, OutsideFollows
      <4> QED  BY <2>3, <4>2, Zenon DEF Related
    <3>2. CASE BeforeBranch(x, y, p, c, b)
      <4>1. \/ BeforeBranch(NextState(p, o, x), NextState(q, o, y), p, c, b)
            \/ InSlots(NextState(p, o, x), NextState(q, o, y), p, c, b)
        BY <2>3, <2>4, <3>2, BeforeFollows
      <4> QED  BY <2>3, <4>1, Zenon DEF Related
    <3>3. CASE InSlots(x, y, p, c, b)
      <4>1. \/ Outside(NextState(p, o, x), NextState(q, o, y), c, b)
            \/ Outside(NextState(p, o, x), NextState(q, o, NextState(q, o, y)), c, b)
            \/ Stopped(NextState(p, o, x), NextState(q, o, y))
        BY <2>3, <2>4, <3>3, InSlotsFollows
      <4> QED  BY <2>3, <4>1, Zenon DEF Related
    <3>4. CASE Stopped(x, y)
      BY <2>4, <3>4 DEF Stopped, Ended
    <3> QED  BY <2>4, <3>1, <3>2, <3>3, <3>4, Zenon DEF Related
  <2>5. ASSUME NEW x \in X, NEW y \in Y, Related(x, y, p, c, b), Ended(p, x)
        PROVE  Ended(q, y) /\ Observed(y) = Observed(x)
    <3>1. CASE Outside(x, y, c, b)
      BY <1>1, <2>5, <3>1 DEF Outside, Ended
    <3>2. CASE Stopped(x, y)
      <4>1. Ended(q, y)
        BY <3>2 DEF Ended, Stopped
      <4>2. x.seen = y.seen /\ Len(x.seen) = MaxControls
        BY <3>2 DEF Stopped
      <4> QED  BY <4>1, <4>2 DEF Observed
    <3>3. CASE BeforeBranch(x, y, p, c, b) \/ InSlots(x, y, p, c, b)
      <4>1. x.seen = y.seen /\ x.pc \in c + 1 .. b + 1
        BY <1>1, <3>3 DEF BeforeBranch, InSlots, Waits
      <4>2. Stopped(x, y)
        BY <1>1, <2>5, <4>1 DEF Ended, Stopped
      <4> QED  BY <3>2, <4>2
    <3> QED  BY <2>5, <3>1, <3>2, <3>3, Zenon DEF Related
  <2>6. CanFollow(p, q, o, X, Y, R)
    <3> SUFFICES ASSUME NEW x \in X, NEW y \in Y, <<x, y>> \in R
                 PROVE  /\ ~Ended(p, x) => \E z \in Y : <<NextState(p, o, x), z>> \in R
                        /\ Ended(p, x) => \E z \in Y : Ended(q, z) /\ Observed(z) = Observed(x)
      BY Zenon DEF CanFollow
    <3>1. Related(x, y, p, c, b) /\ NextState(p, o, x) \in X
      BY <2>1, <2>3
    <3> QED  BY <2>1, <2>4, <2>5, <3>1
  <2> QED  BY <1>2, <2>2, <2>6, Simulation DEF X, Y
<1>3. EndAlike(p, q)
  BY <1>2 DEF EndAlike
<1> QED  BY <1>1, <1>3, EquivalentIfObserved

-----------------------------------------------------------------------------
(* The pass.                                                               *)

\* An instruction with its target resolved in a program.
Resolved(p, x) ==
    IF isControl(x) THEN [x EXCEPT !.target_index = LabelPosition(p, x.target_label)] ELSE x

\* All that is resolved in the program.
LEMMA ResolvedAt ==
    ASSUME NEW p \in Seq(InstructionSet)
    PROVE  LET q == resolveTargets(p)
           IN  /\ q \in Seq(InstructionSet) /\ Len(q) = Len(p)
               /\ \A k \in 1 .. Len(p) : q[k] = Resolved(p, p[k])
<1>1. DOMAIN p = 1 .. Len(p)
  OBVIOUS
<1>2. resolveTargets(p) = [n \in 1 .. Len(p) |-> Resolved(p, p[n])]
  BY <1>1 DEF resolveTargets, Resolved
<1> QED  BY <1>2, ResolveFacts

\* Nothing else changes in the instruction.
LEMMA ResolvedFacts ==
    ASSUME NEW p \in Seq(InstructionSet), NEW x \in InstructionSet
    PROVE  LET y == Resolved(p, x)
           IN  /\ isControl(y) <=> isControl(x)
               /\ isJump(y) <=> isJump(x)
               /\ isNop(y) <=> isNop(x)
               /\ y.rs = x.rs /\ y.rt = x.rt
               /\ isControl(x) => y.target_index = LabelPosition(p, x.target_label)
               /\ ~isControl(x) => y = x
<1> DEFINE y == Resolved(p, x)
<1>1. /\ y.opcode = x.opcode /\ y.rs = x.rs /\ y.rt = x.rt
      /\ isControl(x) => y.target_index = LabelPosition(p, x.target_label)
      /\ ~isControl(x) => y = x
  BY DEF Resolved, InstructionSet
<1> HIDE DEF y
<1> QED  BY <1>1 DEF isControl, isBranch, isJump, isNop, y

\* Two programs whose labels are at the same positions resolve targets alike.
SameLabels(p, q) == \A label : LabelPosition(q, label) = LabelPosition(p, label)

\* For every instruction.
LEMMA ResolvedSame ==
    ASSUME NEW p, NEW q, SameLabels(p, q), NEW x
    PROVE  Resolved(q, x) = Resolved(p, x)
BY Zenon DEF SameLabels, Resolved

\* Every label of p is in q at the same position.
LabelsOf(p, q) ==
    \A n \in 1 .. Len(p) : hasLabel(p[n]) => n \in 1 .. Len(q) /\ q[n].label = p[n].label

\* So do those in which every label of one is in the other.
LEMMA SameLabelsFromPositions ==
    ASSUME NEW p \in Seq(InstructionSet), NEW q \in Seq(InstructionSet),
           LabelsOf(p, q), LabelsOf(q, p)
    PROVE  SameLabels(p, q)
<1> SUFFICES ASSUME NEW label PROVE LabelPosition(q, label) = LabelPosition(p, label)
  BY DEF SameLabels
<1> DEFINE at(r) == {n \in DOMAIN r : r[n].label = label}
           Last(S) == IF label = "" \/ S = {} THEN 0 ELSE CHOOSE n \in S : \A m \in S : m <= n
<1>1. LabelPosition(p, label) = Last(at(p)) /\ LabelPosition(q, label) = Last(at(q))
  BY DEF LabelPosition
<1>2. CASE label = ""
  BY <1>1, <1>2
<1>3. CASE label # ""
  <2>1. DOMAIN p = 1 .. Len(p) /\ DOMAIN q = 1 .. Len(q)
    OBVIOUS
  <2>2. ASSUME NEW n \in 1 .. Len(p), p[n].label = label
        PROVE  n \in 1 .. Len(q) /\ q[n].label = label
    BY <1>3, <2>2 DEF LabelsOf, hasLabel
  <2>3. ASSUME NEW n \in 1 .. Len(q), q[n].label = label
        PROVE  n \in 1 .. Len(p) /\ p[n].label = label
    BY <1>3, <2>3 DEF LabelsOf, hasLabel
  <2>4. at(q) = at(p)
    BY <2>1, <2>2, <2>3
  <2> HIDE DEF at, Last
  <2> QED  BY <1>1, <2>4
<1> QED  BY <1>2, <1>3

\* A nop at the end changes no label.
LEMMA AppendedLabels ==
    ASSUME NEW p \in Seq(InstructionSet)
    PROVE  SameLabels(p, Append(p, NopInstruction))
<1> DEFINE q == Append(p, NopInstruction)
           N == Len(p)
<1>1. /\ q \in Seq(InstructionSet) /\ Len(q) = N + 1 /\ N \in Nat
      /\ \A k \in 1 .. N : q[k] = p[k]
      /\ q[N + 1] = NopInstruction
  BY NopType
<1> HIDE DEF q
<1>2. ~hasLabel(NopInstruction)
  BY DEF hasLabel, NopInstruction
<1>3. LabelsOf(p, q)
  BY <1>1 DEF LabelsOf
<1>4. LabelsOf(q, p)
  <2> SUFFICES ASSUME NEW n \in 1 .. Len(q), hasLabel(q[n])
               PROVE  n \in 1 .. Len(p) /\ p[n].label = q[n].label
    BY DEF LabelsOf
  <2>1. n \in 1 .. N
    BY <1>1, <1>2
  <2> QED  BY <1>1, <2>1
<1> QED  BY <1>1, <1>3, <1>4, SameLabelsFromPositions DEF q

\* Nor does it change a target, and nothing that is seen if there
\* is a control instruction in front of it.
LEMMA SlotAddedSameMeaning ==
    ASSUME NEW p \in Seq(InstructionSet), NEW N \in Nat, Len(p) = N, N # 0, isControl(p[N])
    PROVE  SameMeaning(p, Append(p, NopInstruction))
<1> DEFINE q == Append(p, NopInstruction)
           P == resolveTargets(p)
           Q == resolveTargets(q)
<1>1. /\ q \in Seq(InstructionSet) /\ Len(q) = N + 1
      /\ \A k \in 1 .. N : q[k] = p[k]
      /\ q[N + 1] = NopInstruction
  BY NopType
<1> HIDE DEF q
<1>2. SameLabels(p, q)
  BY AppendedLabels DEF q
<1>3. /\ P \in Seq(InstructionSet) /\ Len(P) = N
      /\ \A k \in 1 .. N : P[k] = Resolved(p, p[k])
  BY ResolvedAt
<1>4. /\ Q \in Seq(InstructionSet) /\ Len(Q) = N + 1
      /\ \A k \in 1 .. N + 1 : Q[k] = Resolved(q, q[k])
  BY <1>1, ResolvedAt
<1> HIDE DEF P, Q
<1>5. \A k \in 1 .. N : Q[k] = P[k]
  <2> SUFFICES ASSUME NEW k \in 1 .. N PROVE Q[k] = P[k]
    OBVIOUS
  <2>1. k \in 1 .. N + 1
    OBVIOUS
  <2>2. Resolved(q, p[k]) = Resolved(p, p[k])
    BY <1>2, ResolvedSame
  <2> QED  BY <1>1, <1>3, <1>4, <2>1, <2>2
<1>6. isControl(P[N])
  <2>1. N \in 1 .. N /\ p[N] \in InstructionSet
    OBVIOUS
  <2> QED  BY <1>3, <2>1, ResolvedFacts
<1>7. isNop(Q[N + 1])
  <2>1. N + 1 \in 1 .. N + 1 /\ isNop(NopInstruction)
    BY DEF isNop, NopInstruction
  <2> QED  BY <1>1, <1>4, <2>1, NopType, ResolvedFacts
<1>8. Equivalent(P, Q)
  BY <1>3, <1>4, <1>5, <1>6, <1>7, SlotAtEnd
<1> QED  BY <1>8, MeaningIsEquivalence DEF P, Q, q

\* What a move keeps of labels and targets if there is no label from c to b.
LEMMA MoveResolves ==
    ASSUME NEW p \in Seq(InstructionSet), NEW b \in 1 .. Len(p), NEW c \in 1 .. b - 1,
           b # Len(p), \A k \in c .. b : ~hasLabel(p[k])
    PROVE  /\ Layout(resolveTargets(p), resolveTargets(Move(p, c, b)), c, b)
           /\ \A label : LabelPosition(p, label) \notin c + 1 .. b
<1> DEFINE q == Move(p, c, b)
           N == Len(p)
           P == resolveTargets(p)
           Q == resolveTargets(q)
<1>1. /\ q \in Seq(InstructionSet) /\ Len(q) = N
      /\ \A k \in 1 .. c - 1 : q[k] = p[k]
      /\ \A k \in c .. b - 1 : q[k] = p[k + 1]
      /\ q[b] = p[c]
      /\ \A k \in b + 1 .. N : q[k] = p[k]
  BY MoveShape
<1>2. N \in Nat /\ b \in Nat /\ c \in Nat \ {0} /\ c < b /\ b < N
  OBVIOUS
<1> HIDE DEF q, N
<1>3. \A k \in 1 .. N : k \in 1 .. c - 1 \/ k \in c .. b - 1 \/ k = b \/ k \in b + 1 .. N
  BY <1>2
<1>4. \A k \in c .. b : ~hasLabel(q[k])
  <2> SUFFICES ASSUME NEW k \in c .. b PROVE ~hasLabel(q[k])
    OBVIOUS
  <2>1. (k \in c .. b - 1 /\ k + 1 \in c .. b) \/ k = b
    BY <1>2
  <2>2. c \in c .. b
    BY <1>2
  <2> QED  BY <1>1, <2>1, <2>2
<1>5. SameLabels(p, q)
  <2>1. \A k \in 1 .. N : hasLabel(p[k]) \/ hasLabel(q[k]) => q[k] = p[k]
    <3> SUFFICES ASSUME NEW k \in 1 .. N, hasLabel(p[k]) \/ hasLabel(q[k]) PROVE q[k] = p[k]
      OBVIOUS
    <3>1. k \notin c .. b
      BY <1>4
    <3>2. k \in 1 .. c - 1 \/ k \in b + 1 .. N
      BY <1>2, <3>1
    <3> QED  BY <1>1, <3>2
  <2>2. LabelsOf(p, q) /\ LabelsOf(q, p)
    BY <1>1, <2>1 DEF LabelsOf, N
  <2> QED  BY <1>1, <2>2, SameLabelsFromPositions
<1>6. /\ P \in Seq(InstructionSet) /\ Len(P) = N
      /\ \A k \in 1 .. N : P[k] = Resolved(p, p[k])
  BY ResolvedAt DEF N
<1>7. /\ Q \in Seq(InstructionSet) /\ Len(Q) = N
      /\ \A k \in 1 .. N : Q[k] = Resolved(p, q[k])
  <2>1. /\ Q \in Seq(InstructionSet) /\ Len(Q) = N
        /\ \A k \in 1 .. N : Q[k] = Resolved(q, q[k])
    BY <1>1, ResolvedAt
  <2>2. \A x : Resolved(q, x) = Resolved(p, x)
    BY <1>5, ResolvedSame
  <2> QED  BY <2>1, <2>2
<1> HIDE DEF P, Q
<1>8. /\ \A k \in 1 .. c - 1 : Q[k] = P[k]
      /\ \A k \in b + 1 .. N : Q[k] = P[k]
      /\ Q[b] = P[c]
  <2>1. /\ \A k \in 1 .. c - 1 : k \in 1 .. N
        /\ \A k \in b + 1 .. N : k \in 1 .. N
        /\ b \in 1 .. N /\ c \in 1 .. N
    BY <1>2
  <2> QED  BY <1>1, <1>6, <1>7, <2>1
<1>9. \A k \in c .. b - 1 : Q[k] = P[k + 1]
  <2>1. \A k \in c .. b - 1 : k \in 1 .. N /\ k + 1 \in 1 .. N
    BY <1>2
  <2> QED  BY <1>1, <1>6, <1>7, <2>1
<1>10. Layout(P, Q, c, b)
  BY <1>2, <1>6, <1>7, <1>8, <1>9 DEF Layout
<1>11. ASSUME NEW label PROVE LabelPosition(p, label) \notin c + 1 .. b
  <2> DEFINE at == {n \in DOMAIN p : p[n].label = label}
             t == LabelPosition(p, label)
  <2>1. /\ label = "" \/ at = {} => t = 0
        /\ ~(label = "" \/ at = {}) => t \in at
    BY LabelPositionFacts
  <2> HIDE DEF t
  <2>2. 0 \notin c + 1 .. b /\ \A n \in c + 1 .. b : n \in c .. b
    BY <1>2
  <2>3. CASE label # "" /\ t \in at
    <3>1. hasLabel(p[t])
      BY <2>3 DEF hasLabel
    <3> QED  BY <2>2, <3>1 DEF t
  <2> QED  BY <2>1, <2>2, <2>3 DEF t
<1> QED  BY <1>10, <1>11 DEF P, Q, q

\* Operands where the parser puts them: the result of an immediate operation in rt, and
\* no register in a jump.
OperandsInPlace(x) ==
    /\ x.opcode \in {"addi", "li"} => x.rd = ""
    /\ isJump(x) => x.rs = "" /\ x.rt = ""

\* A program of such instructions.
AllInPlace(p) == \A n \in 1 .. Len(p) : OperandsInPlace(p[n])

\* They stay there.
LEMMA InPlaceKept ==
    ASSUME NEW p \in Seq(InstructionSet), NEW q \in Seq(InstructionSet),
           NEW f, Tracks(f, p, q), AllInPlace(p)
    PROVE  AllInPlace(q)
<1> SUFFICES ASSUME NEW k \in 1 .. Len(q) PROVE OperandsInPlace(q[k])
  BY DEF AllInPlace
<1>1. q[k] \in InstructionSet
  OBVIOUS
<1>2. \A x \in InstructionSet, y \in InstructionSet :
         Text(x) = Text(y) /\ OperandsInPlace(y) => OperandsInPlace(x)
  <2>1. \A x \in InstructionSet : /\ Text(x).opcode = x.opcode /\ Text(x).rd = x.rd
                                  /\ Text(x).rs = x.rs /\ Text(x).rt = x.rt
    BY DEF Text, InstructionSet
  <2> QED  BY <2>1 DEF OperandsInPlace, isJump
<1>3. CASE Text(q[k]) = NopInstruction
  <2>1. OperandsInPlace(NopInstruction)
    BY DEF OperandsInPlace, NopInstruction, isJump
  <2> QED  BY <1>1, <1>2, <1>3, <2>1, NopType, NopText
<1>4. ASSUME NEW n \in 1 .. Len(p), k = f[n] PROVE OperandsInPlace(q[k])
  <2>1. p[n] \in InstructionSet /\ Text(q[k]) = Text(p[n]) /\ OperandsInPlace(p[n])
    BY <1>4 DEF Tracks, AllInPlace
  <2> QED  BY <1>1, <1>2, <2>1
<1> QED  BY <1>3, <1>4 DEF Tracks

\* A move that is none of the deviations is a safe one.
LEMMA CandidatesMoveSafely ==
    ASSUME NEW p \in Seq(InstructionSet), NEW b \in 1 .. Len(p), NEW c \in Candidates(p, b),
           AllInPlace(p), isControl(p[b]), b # Len(p), isNop(p[b + 1]),
           ~hasLabel(p[b]), c > 1 => ~isControl(p[c - 1]),
           isJump(p[b]) => LabelPosition(p, p[b].target_label) # 0,
           \A k \in c .. b - 1 : ~ResultUnnamed(p[k])
    PROVE  SafeMove(resolveTargets(p), resolveTargets(Move(p, c, b)), c, b)
<1> DEFINE P == resolveTargets(p)
           Q == resolveTargets(Move(p, c, b))
           N == Len(p)
<1>1. /\ c \in 1 .. b - 1 /\ N \in Nat /\ b \in Nat /\ c \in Nat \ {0} /\ c < b /\ b < N
  <2>1. c \in 1 .. b - 1
    BY CandidateFacts
  <2> QED  BY <2>1
<1>2. \A k \in c .. b : ~hasLabel(p[k])
  <2>1. ~hasLabel(p[c]) /\ \A k \in c + 1 .. b - 1 : ~hasLabel(p[k])
    BY DEF Candidates, dependenciesBlockMoveBackward
  <2>2. \A k \in c .. b : k = c \/ k \in c + 1 .. b - 1 \/ k = b
    BY <1>1
  <2> QED  BY <2>1, <2>2
<1>3. /\ Layout(P, Q, c, b)
      /\ \A label : LabelPosition(p, label) \notin c + 1 .. b
  BY <1>1, <1>2, MoveResolves
<1>4. /\ Len(P) = N /\ \A k \in 1 .. N : P[k] = Resolved(p, p[k])
      /\ \A k \in 1 .. N : p[k] \in InstructionSet
  BY ResolvedAt
<1> HIDE DEF P, Q
<1>5. \A k \in 1 .. N : /\ isControl(P[k]) <=> isControl(p[k])
                        /\ isJump(P[k]) <=> isJump(p[k])
                        /\ isNop(P[k]) <=> isNop(p[k])
                        /\ P[k].rs = p[k].rs /\ P[k].rt = p[k].rt
                        /\ isControl(p[k]) =>
                              P[k].target_index = LabelPosition(p, p[k].target_label)
                        /\ ~isControl(p[k]) => P[k] = p[k]
  BY <1>4, ResolvedFacts
<1>6. \A k \in c .. b - 1 : ~isControl(p[k]) /\ k \in 1 .. N
  <2>1. ~isControl(p[c]) /\ \A k \in c + 1 .. b - 1 : ~isControl(p[k])
    BY CandidateFacts
  <2>2. \A k \in c .. b - 1 : (k = c \/ k \in c + 1 .. b - 1) /\ k \in 1 .. N
    BY <1>1
  <2> QED  BY <2>1, <2>2
<1>7. Enclosed(P, c, b)
  <2>1. \A k \in c .. b - 1 : ~isControl(P[k])
    BY <1>5, <1>6
  <2>2. isControl(P[b]) /\ isNop(P[b + 1])
    <3>1. b \in 1 .. N /\ b + 1 \in 1 .. N
      BY <1>1
    <3> QED  BY <1>5, <3>1
  <2>3. c > 1 => ~isControl(P[c - 1])
    <3>1. c > 1 => c - 1 \in 1 .. N
      BY <1>1
    <3> QED  BY <1>5, <3>1
  <2>4. \A k \in 1 .. N : isControl(P[k]) => P[k].target_index \notin c + 1 .. b
    BY <1>3, <1>5
  <2>5. isJump(P[b]) => P[b].target_index # 0
    BY <1>5
  <2> QED  BY <1>4, <2>1, <2>2, <2>3, <2>4, <2>5 DEF Enclosed
<1>8. CanWait(P, c, b)
  <2> SUFFICES ASSUME NEW V, NEW m \in Machines(V)
               PROVE  /\ \A k \in c + 1 .. b - 1 :
                           Execute(Execute(m, P[c]), P[k]) = Execute(Execute(m, P[k]), P[c])
                      /\ \A r \in {P[b].rs, P[b].rt} :
                           readRegister(Execute(m, P[c]), r) = readRegister(m, r)
    BY DEF CanWait
  <2>1. P[c] = p[c] /\ \A k \in c + 1 .. b - 1 : P[k] = p[k]
    <3>1. c \in c .. b - 1 /\ \A k \in c + 1 .. b - 1 : k \in c .. b - 1
      BY <1>1
    <3> QED  BY <1>5, <1>6, <3>1
  <2>2. \A n \in c .. b - 1 : AsParsed(p[n])
    BY <1>6 DEF AsParsed, AllInPlace, OperandsInPlace
  <2>3. /\ \A k \in c + 1 .. b - 1 :
              Execute(Execute(m, p[c]), p[k]) = Execute(Execute(m, p[k]), p[c])
        /\ isBranch(p[b]) =>
              \A r \in {p[b].rs, p[b].rt} :
                  readRegister(Execute(m, p[c]), r) = readRegister(m, r)
    BY <2>2, CandidatesCommute
  <2>4. \A r \in {P[b].rs, P[b].rt} :
            readRegister(Execute(m, p[c]), r) = readRegister(m, r)
    <3>1. P[b].rs = p[b].rs /\ P[b].rt = p[b].rt
      BY <1>5
    <3>2. CASE isBranch(p[b])
      BY <2>3, <3>1, <3>2
    <3>3. CASE isJump(p[b])
      <4>1. p[b].rs = "" /\ p[b].rt = ""
        BY <3>3 DEF AllInPlace, OperandsInPlace
      <4> QED  BY <3>1, <4>1 DEF readRegister
    <3> QED  BY <3>2, <3>3 DEF isControl
  <2> QED  BY <2>1, <2>3, <2>4
<1> QED  BY <1>3, <1>7, <1>8 DEF SafeMove, P, Q

\* What a move does to the meaning.
LEMMA FillSameMeaning ==
    ASSUME PlaceInv, AllInPlace(input), FillAutomatically,
           ~MovesPastLabel, ~TakesFromSlot, ~SlotOfUnresolvedJump, ~MovesUnnamedResult
    PROVE  SameMeaning(WithSlot, instructions')
<1> DEFINE c == Nearest(Candidates(WithSlot, i))
<1>1. /\ SlotIsFree /\ Candidates(WithSlot, i) # {}
      /\ instructions' = Move(WithSlot, c, i)
  BY DEF FillAutomatically, Fill
<1>2. /\ input \in Seq(InstructionSet)
      /\ WithSlot \in Seq(InstructionSet) /\ i \in Nat
      /\ i \in 1 .. Len(WithSlot) /\ i + 1 \in 1 .. Len(WithSlot)
      /\ isControl(WithSlot[i]) /\ isNop(WithSlot[i + 1])
  BY <1>1, FreeSlotFacts
<1>3. PICK f : Tracks(f, input, WithSlot) /\ Holds(f, input, WithSlot, i)
  BY <1>1, FreeSlotFacts
<1>4. AllInPlace(WithSlot)
  BY <1>2, <1>3, InPlaceKept
<1>5. c \in Candidates(WithSlot, i)
  BY <1>1, <1>2, NearestIsCandidate
<1>6. /\ ~hasLabel(instructions[i])
      /\ c > 1 => ~isControl(instructions[c - 1])
      /\ isJump(instructions[i]) =>
            LabelPosition(instructions, instructions[i].target_label) # 0
      /\ \A k \in c .. i - 1 : ~ResultUnnamed(instructions[k])
  BY DEF MovesPastLabel, TakesFromSlot, SlotOfUnresolvedJump, MovesUnnamedResult
<1> HIDE DEF c
<1>7. /\ instructions \in Seq(InstructionSet) /\ i \in 1 .. Len(instructions)
      /\ \A n \in 1 .. Len(instructions) : WithSlot[n] = instructions[n]
  <2>1. instructions \in Seq(InstructionSet) /\ i \in 1 .. Len(instructions)
    <3>1. i <= Len(instructions) /\ PassInv
      BY <1>1, PlaceFacts DEF SlotIsFree, AtControl
    <3> QED  BY <3>1, AtPosition
  <2> QED  BY <2>1, WithSlotFacts
<1>8. c \in 1 .. i - 1
  BY <1>2, <1>5, CandidateFacts
<1>9. WithSlot[i] = instructions[i] /\ ~hasLabel(WithSlot[i])
  BY <1>6, <1>7
<1>10. c > 1 => ~isControl(WithSlot[c - 1])
  <2>1. c > 1 => c - 1 \in 1 .. Len(instructions)
    BY <1>7, <1>8
  <2> QED  BY <1>6, <1>7, <2>1
<1>11. \A k \in c .. i - 1 : ~ResultUnnamed(WithSlot[k])
  <2>1. \A k \in c .. i - 1 : k \in 1 .. Len(instructions)
    BY <1>7, <1>8
  <2> QED  BY <1>6, <1>7, <2>1
<1>12. isJump(WithSlot[i]) => LabelPosition(WithSlot, WithSlot[i].target_label) # 0
  <2>1. CASE i = Len(instructions)
    <3>1. WithSlot = Append(instructions, NopInstruction)
      BY <2>1 DEF WithSlot
    <3>2. SameLabels(instructions, WithSlot)
      BY <1>7, <3>1, AppendedLabels
    <3> QED  BY <1>6, <1>9, <3>2 DEF SameLabels
  <2>2. CASE i # Len(instructions)
    <3>1. WithSlot = instructions
      BY <2>2 DEF WithSlot
    <3> QED  BY <1>6, <3>1
  <2> QED  BY <2>1, <2>2
<1>13. i # Len(WithSlot)
  BY <1>2
<1>14. SafeMove(resolveTargets(WithSlot), resolveTargets(Move(WithSlot, c, i)), c, i)
  <2> HIDE DEF WithSlot
  <2> QED  BY <1>2, <1>4, <1>5, <1>9, <1>10, <1>11, <1>12, <1>13, CandidatesMoveSafely
<1>15. Equivalent(resolveTargets(WithSlot), resolveTargets(instructions'))
  BY <1>1, <1>14, SafeMovesEquivalent DEF c
<1> QED  BY <1>15, MeaningIsEquivalence

\* The slot alone changes nothing.
LEMMA WithSlotSameMeaning ==
    ASSUME PlaceInv, SlotIsFree
    PROVE  SameMeaning(instructions, WithSlot)
<1>1. /\ instructions \in Seq(InstructionSet) /\ i \in 1 .. Len(instructions)
      /\ isControl(instructions[i])
  <2>1. i <= Len(instructions) /\ PassInv /\ isControl(instructions[i])
    BY PlaceFacts DEF SlotIsFree, AtControl
  <2> QED  BY <2>1, AtPosition
<1>2. CASE i = Len(instructions)
  <2>1. WithSlot = Append(instructions, NopInstruction)
    BY <1>2 DEF WithSlot
  <2>2. i \in Nat /\ i # 0
    BY <1>1
  <2> QED  BY <1>1, <1>2, <2>1, <2>2, SlotAddedSameMeaning
<1>3. CASE i # Len(instructions)
  <2>1. WithSlot = instructions
    BY <1>3 DEF WithSlot
  <2> QED  BY <2>1 DEF SameMeaning
<1> QED  BY <1>2, <1>3

\* Meanings that are the same as a third are the same.
LEMMA MeaningTransitive ==
    ASSUME NEW p, NEW q, NEW r, SameMeaning(p, q), SameMeaning(q, r)
    PROVE  SameMeaning(p, r)
BY DEF SameMeaning

\* The argument is not written to.
LEMMA InputStays == [Next]_vars => input' = input
BY DEF Next, Skip, KeepManual, FillAutomatically, Fill, UseNop, LeaveNop, Return, vars

\* No step changes the meaning but for the deviations.
LEMMA StepsAreSafe ==
    ASSUME PlaceInv, AllInPlace(input), [Next]_vars, instructions' # instructions
    PROVE  SameMeaning(instructions, instructions') \/ MoveDeviates
<1>1. /\ PassInv /\ AsNops(input) /\ input \in Seq(InstructionSet)
      /\ instructions \in Seq(InstructionSet) /\ i \in Nat
  BY PlaceFacts
<1>2. CASE Skip
  BY <1>2 DEF Skip
<1>3. CASE KeepManual
  <2>1. /\ i < Len(instructions) /\ i <= Len(instructions)
        /\ instructions' = [instructions EXCEPT ![i + 1].manually_filled = TRUE]
    BY <1>3 DEF KeepManual, AtControl
  <2>2. i + 1 \in 1 .. Len(instructions)
    BY <1>1, <2>1
  <2>3. instructions' \in Seq(InstructionSet) /\ SameTexts(instructions, instructions')
    BY <1>1, <2>1, <2>2, MarkText
  <2> QED  BY <1>1, <2>3, SameTextsSameMeaning
<1>4. CASE FillAutomatically
  <2>1. SlotIsFree
    BY <1>4 DEF FillAutomatically
  <2>2. CASE ~(MovesPastLabel \/ TakesFromSlot \/ SlotOfUnresolvedJump \/ MovesUnnamedResult)
    BY <1>4, <2>1, <2>2, FillSameMeaning, WithSlotSameMeaning, MeaningTransitive
  <2> QED  BY <1>4, <2>2 DEF MoveDeviates
<1>5. CASE UseNop
  <2>1. SlotIsFree /\ instructions' = WithSlot
    BY <1>5, UseNopLeavesSlot DEF UseNop, LeaveNop
  <2> QED  BY <2>1, WithSlotSameMeaning
<1>6. CASE Return
  <2>1. instructions' = resolveTargets(instructions)
    BY <1>6 DEF Return
  <2>2. instructions' \in Seq(InstructionSet) /\ SameTexts(instructions, instructions')
    BY <1>1, <2>1, ResolveText
  <2> QED  BY <1>1, <2>2, SameTextsSameMeaning
<1> QED  BY <1>2, <1>3, <1>4, <1>5, <1>6 DEF Next, vars

\* scheduler.cpp:194: whatever the program, if its operands are where the parser puts
\* them, no step of the pass changes what it does on the machine of the simulator,
\* whichever way the branches go, but for the moves that are named.
THEOREM MovesKeepMeaning ==
    Spec /\ AsNops(input) /\ AllInPlace(input) => MovesAreSafe
<1>1. PlaceInv /\ AllInPlace(input) /\ [Next]_vars =>
         (PlaceInv /\ AllInPlace(input))'
  <2> SUFFICES ASSUME PlaceInv, AllInPlace(input), [Next]_vars
               PROVE  (PlaceInv /\ AllInPlace(input))'
    OBVIOUS
  <2>1. input' = input
    BY InputStays
  <2> QED  BY <2>1, PlaceInductive
<1>2. PlaceInv /\ AllInPlace(input) /\ [Next]_vars =>
        [instructions' # instructions =>
            SameMeaning(instructions, instructions') \/ MoveDeviates]_vars
  BY StepsAreSafe
<1> QED  BY <1>1, <1>2, PlaceInductive, PTL DEF Spec, MovesAreSafe

-----------------------------------------------------------------------------
(* The whole pass.                                                         *)

\* An instruction whose result has no name comes from one of the input.
LEMMA ResultsStayNamed ==
    ASSUME NEW p \in Seq(InstructionSet), NEW q \in Seq(InstructionSet),
           NEW f, Tracks(f, p, q), \A n \in 1 .. Len(p) : ~ResultUnnamed(p[n])
    PROVE  \A k \in 1 .. Len(q) : ~ResultUnnamed(q[k])
<1> SUFFICES ASSUME NEW k \in 1 .. Len(q) PROVE ~ResultUnnamed(q[k])
  OBVIOUS
<1>1. q[k] \in InstructionSet
  OBVIOUS
<1>2. \A x \in InstructionSet, y \in InstructionSet :
         Text(x) = Text(y) /\ ~ResultUnnamed(y) => ~ResultUnnamed(x)
  <2>1. \A x \in InstructionSet : /\ Text(x).opcode = x.opcode /\ Text(x).rd = x.rd
                                  /\ Text(x).rt = x.rt
    BY DEF Text, InstructionSet
  <2> QED  BY <2>1 DEF ResultUnnamed
<1>3. CASE Text(q[k]) = NopInstruction
  <2>1. ~ResultUnnamed(NopInstruction)
    BY DEF ResultUnnamed, NopInstruction, RdArithmetic
  <2> QED  BY <1>1, <1>2, <1>3, <2>1, NopType, NopText
<1>4. ASSUME NEW n \in 1 .. Len(p), k = f[n] PROVE ~ResultUnnamed(q[k])
  <2>1. p[n] \in InstructionSet /\ Text(q[k]) = Text(p[n]) /\ ~ResultUnnamed(p[n])
    BY <1>4 DEF Tracks
  <2> QED  BY <1>1, <1>2, <2>1
<1> QED  BY <1>3, <1>4 DEF Tracks

\* A control instruction keeps the rules where it is now.
LEMMA ControlsKeepRules ==
    ASSUME NEW p \in Seq(InstructionSet), NEW q \in Seq(InstructionSet),
           NEW f, Tracks(f, p, q), KeepsRules(p), NEW k \in 1 .. Len(q), isControl(q[k])
    PROVE  /\ ~hasLabel(q[k])
           /\ isJump(q[k]) => LabelPosition(q, q[k].target_label) # 0
           /\ \E n \in 1 .. Len(p) : k = f[n] /\ isControl(p[n])
<1>1. q[k] \in InstructionSet /\ ~isNop(q[k])
  BY DEF isControl, isBranch, isJump, isNop
<1>2. PICK n \in 1 .. Len(p) : k = f[n] /\ Text(q[k]) = Text(p[n])
  BY <1>1, HasPlace
<1>3. p[n] \in InstructionSet
  OBVIOUS
<1>4. /\ isControl(p[n]) /\ (hasLabel(q[k]) <=> hasLabel(p[n]))
      /\ q[k].opcode = p[n].opcode /\ q[k].target_label = p[n].target_label
  BY <1>1, <1>2, <1>3, SameTextSameKind
<1>5. /\ ~hasLabel(p[n])
      /\ isJump(p[n]) => LabelPosition(p, p[n].target_label) # 0
  BY <1>4 DEF KeepsRules
<1>6. isJump(q[k]) => LabelPosition(q, q[k].target_label) # 0
  <2> SUFFICES ASSUME isJump(q[k]) PROVE LabelPosition(q, p[n].target_label) # 0
    BY <1>4
  <2>1. LabelPosition(p, p[n].target_label) # 0
    BY <1>4, <1>5 DEF isJump
  <2>2. /\ LabelPosition(p, p[n].target_label) \in 1 .. Len(p)
        /\ LabelPosition(q, p[n].target_label) = f[LabelPosition(p, p[n].target_label)]
    BY <2>1, LabelFollows
  <2>3. \A m \in 1 .. Len(p) : f[m] \in 1 .. Len(q) /\ 0 \notin 1 .. Len(q)
    BY DEF Tracks
  <2> QED  BY <2>2, <2>3
<1> QED  BY <1>2, <1>4, <1>5, <1>6

\* Under the rules no candidate is in the slot of an earlier control instruction: what
\* the programmer put there has its mark, and what the pass put there would have to
\* pass a label.
LEMMA SlotsLeftAlone ==
    ASSUME NEW p \in Seq(InstructionSet), NEW q \in Seq(InstructionSet), NEW f,
           Tracks(f, p, q), KeepsRules(p), NEW b \in 1 .. Len(q), Holds(f, p, q, b),
           isControl(q[b]), NEW c \in Candidates(q, b), c > 1
    PROVE  ~isControl(q[c - 1])
<1> SUFFICES ASSUME isControl(q[c - 1]) PROVE FALSE
  OBVIOUS
<1>1. /\ c \in 1 .. b - 1 /\ ~hasLabel(q[c]) /\ ~q[c].manually_filled
      /\ \A k \in c + 1 .. b - 1 : ~hasLabel(q[k])
  BY DEF Candidates, dependenciesBlockMoveBackward
<1>2. /\ Len(q) \in Nat /\ Len(p) \in Nat /\ b \in Nat /\ c \in Nat /\ c < b
      /\ c - 1 \in 1 .. Len(q) /\ c - 1 < b
  BY <1>1
<1>3. PICK m \in 1 .. Len(p) : c - 1 = f[m] /\ isControl(p[m])
  BY <1>2, ControlsKeepRules
<1>4. PICK n \in 1 .. Len(p) : b = f[n] /\ isControl(p[n])
  BY ControlsKeepRules
<1>5. m < n
  <2>1. m # n
    BY <1>2, <1>3, <1>4
  <2>2. ~(n < m)
    <3>1. n < m => f[n] < f[m]
      BY <1>3, <1>4 DEF Tracks, Pinned
    <3> QED  BY <1>2, <1>3, <1>4, <3>1
  <2> QED  BY <2>1, <2>2
<1>6. CASE ~isNop(p[m + 1])
  <2>1. ManualSlot(p, m)
    <3>1. m \in 1 .. Len(p) - 1
      BY <1>2, <1>5
    <3> QED  BY <1>3, <1>6, <3>1 DEF ManualSlot
  <2>2. f[m + 1] = f[m] + 1 /\ q[f[m + 1]].manually_filled
    BY <1>2, <1>3, <2>1 DEF Holds
  <2>3. f[m + 1] = c
    BY <1>2, <1>3, <2>2
  <2> QED  BY <1>1, <2>2, <2>3
<1>7. ASSUME NEW k \in m + 1 .. n - 1, hasLabel(p[k]) PROVE FALSE
  <2>1. k \in 1 .. Len(p) /\ m < k /\ k < n
    BY <1>2
  <2>2. f[m] < f[k] /\ f[k] < f[n]
    BY <1>3, <1>4, <1>7, <2>1 DEF Tracks, Pinned
  <2>3. f[k] \in 1 .. Len(q) /\ Text(q[f[k]]) = Text(p[k])
    BY <2>1 DEF Tracks
  <2>4. hasLabel(q[f[k]])
    <3>1. q[f[k]] \in InstructionSet /\ p[k] \in InstructionSet
      BY <2>1, <2>3
    <3> QED  BY <1>7, <2>3, <3>1, SameTextSameKind
  <2>5. f[k] = c \/ f[k] \in c + 1 .. b - 1
    BY <1>2, <1>3, <1>4, <2>2, <2>3
  <2> QED  BY <1>1, <2>4, <2>5
<1>8. ~isNop(p[m + 1]) \/ \E k \in m + 1 .. n - 1 : hasLabel(p[k])
  BY <1>3, <1>4, <1>5 DEF KeepsRules
<1> QED  BY <1>6, <1>7, <1>8

\* The inductive invariant: what the moves so far have left means what the input means.
MeaningInv == PlaceInv /\ AllInPlace(input) /\ SameMeaning(input, instructions)

\* It holds in the beginning, and only the deviations can break it.
LEMMA MeaningInductive ==
    /\ Init /\ AsNops(input) /\ AllInPlace(input) => MeaningInv
    /\ MeaningInv /\ [Next]_vars /\ [~MoveDeviates]_vars => MeaningInv'
<1>1. Init /\ AsNops(input) /\ AllInPlace(input) => MeaningInv
  <2> SUFFICES ASSUME Init, AsNops(input), AllInPlace(input) PROVE MeaningInv
    OBVIOUS
  <2>1. instructions = input
    BY DEF Init, Start
  <2>2. SameMeaning(input, instructions)
    BY <2>1 DEF SameMeaning
  <2> QED  BY <2>2, PlaceInductive DEF MeaningInv
<1>2. MeaningInv /\ [Next]_vars /\ [~MoveDeviates]_vars => MeaningInv'
  <2> SUFFICES ASSUME MeaningInv, [Next]_vars, [~MoveDeviates]_vars PROVE MeaningInv'
    OBVIOUS
  <2>1. PlaceInv /\ AllInPlace(input) /\ SameMeaning(input, instructions)
    BY DEF MeaningInv
  <2>2. PlaceInv' /\ input' = input
    BY <2>1, InputStays, PlaceInductive
  <2>3. CASE instructions' = instructions
    BY <2>1, <2>2, <2>3 DEF MeaningInv
  <2>4. CASE instructions' # instructions
    <3>1. ~MoveDeviates
      BY <2>4 DEF vars
    <3>2. SameMeaning(instructions, instructions')
      BY <2>1, <2>4, <3>1, StepsAreSafe
    <3>3. SameMeaning(input, instructions')
      BY <2>1, <3>2, MeaningTransitive
    <3> QED  BY <2>1, <2>2, <3>3 DEF MeaningInv
  <2> QED  BY <2>3, <2>4
<1> QED  BY <1>1, <1>2

\* README.md:5: whatever the program, if its operands are where the parser puts them and
\* no move of the run is one of the deviations, what the pass returns does what the
\* program does.
THEOREM OnlyDeviationsMatter ==
    Spec /\ AsNops(input) /\ AllInPlace(input) /\ [][~MoveDeviates]_vars
        => []ComputesTheSame
<1>1. MeaningInv => ComputesTheSame
  BY DEF MeaningInv, ComputesTheSame
<1> QED  BY <1>1, MeaningInductive, PTL DEF Spec

\* A program that keeps the rules never comes to one.
LEMMA RulesPreventDeviations ==
    ASSUME PlaceInv, KeepsRules(input)
    PROVE  ~MoveDeviates
<1> SUFFICES ASSUME FillAutomatically
             PROVE  /\ ~MovesPastLabel /\ ~TakesFromSlot
                    /\ ~SlotOfUnresolvedJump /\ ~MovesUnnamedResult
  BY DEF MoveDeviates
<1> DEFINE c == Nearest(Candidates(WithSlot, i))
<1>1. SlotIsFree /\ Candidates(WithSlot, i) # {}
  BY DEF FillAutomatically
<1>2. /\ PassInv /\ input \in Seq(InstructionSet) /\ instructions \in Seq(InstructionSet)
      /\ WithSlot \in Seq(InstructionSet) /\ i \in Nat /\ i \in 1 .. Len(WithSlot)
      /\ isControl(WithSlot[i])
  BY <1>1, FreeSlotFacts, PlaceFacts
<1>3. /\ i \in 1 .. Len(instructions) /\ isControl(instructions[i])
      /\ \A n \in 1 .. Len(instructions) : WithSlot[n] = instructions[n]
  <2>1. i <= Len(instructions) /\ isControl(instructions[i])
    BY <1>1 DEF SlotIsFree, AtControl
  <2>2. i \in 1 .. Len(instructions)
    BY <1>2, <2>1, AtPosition
  <2> QED  BY <1>2, <2>1, <2>2, WithSlotFacts
<1>4. PICK f : Tracks(f, input, instructions) /\ Holds(f, input, instructions, i)
  BY PlaceFacts
<1>5. Tracks(f, input, WithSlot) /\ Holds(f, input, WithSlot, i)
  BY <1>2, <1>3, <1>4, WithSlotPlaces
<1>6. c \in Candidates(WithSlot, i) /\ c \in 1 .. i - 1
  <2>1. c \in Candidates(WithSlot, i)
    BY <1>1, <1>2, NearestIsCandidate
  <2> QED  BY <1>2, <2>1, CandidateFacts
<1> HIDE DEF c
<1>7. /\ ~hasLabel(instructions[i])
      /\ isJump(instructions[i]) =>
            LabelPosition(instructions, instructions[i].target_label) # 0
  BY <1>2, <1>3, <1>4, ControlsKeepRules
<1>8. c > 1 => ~isControl(instructions[c - 1])
  <2>1. c > 1 => ~isControl(WithSlot[c - 1])
    <3> HIDE DEF WithSlot
    <3> QED  BY <1>2, <1>5, <1>6, SlotsLeftAlone
  <2>2. c > 1 => c - 1 \in 1 .. Len(instructions)
    BY <1>3, <1>6
  <2> QED  BY <1>3, <2>1, <2>2
<1>9. \A k \in c .. i - 1 : ~ResultUnnamed(instructions[k])
  <2>1. \A k \in 1 .. Len(instructions) : ~ResultUnnamed(instructions[k])
    BY <1>2, <1>4, ResultsStayNamed DEF KeepsRules
  <2>2. \A k \in c .. i - 1 : k \in 1 .. Len(instructions)
    BY <1>3, <1>6
  <2> QED  BY <2>1, <2>2
<1> QED  BY <1>7, <1>8, <1>9
         DEF MovesPastLabel, TakesFromSlot, SlotOfUnresolvedJump, MovesUnnamedResult, c

\* scheduler.cpp:160: whatever the program, if its operands are where the parser puts
\* them and it keeps the rules, what the pass returns does what the program does on the
\* machine of the simulator, whichever way the branches go.
THEOREM RuledProgramsKeepMeaning ==
    Spec /\ AsNops(input) /\ AllInPlace(input) => []RulesKeepMeaning
<1>1. MeaningInv \/ ~KeepsRules(input) => RulesKeepMeaning
  BY DEF MeaningInv, RulesKeepMeaning
<1>2. (MeaningInv \/ ~KeepsRules(input)) /\ [Next]_vars =>
          (MeaningInv \/ ~KeepsRules(input))'
  <2> SUFFICES ASSUME MeaningInv \/ ~KeepsRules(input), [Next]_vars
               PROVE  (MeaningInv \/ ~KeepsRules(input))'
    OBVIOUS
  <2>1. CASE ~KeepsRules(input)
    <3>1. input' = input
      BY InputStays
    <3> QED  BY <2>1, <3>1
  <2>2. CASE MeaningInv /\ KeepsRules(input)
    <3>1. ~MoveDeviates
      BY <2>2, RulesPreventDeviations DEF MeaningInv
    <3> QED  BY <2>2, <3>1, MeaningInductive
  <2> QED  BY <2>1, <2>2
<1> QED  BY <1>1, <1>2, MeaningInductive, PTL DEF Spec

=============================================================================

