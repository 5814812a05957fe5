------------------------ MODULE DelaySlotPass_proofs ------------------------
(***************************************************************************)
(* Proofs about scheduleDelaySlots for every program and set of names.     *)
(***************************************************************************)
EXTENDS PassEquivalence, Integers, SequenceTheorems, FiniteSetTheorems,
        WellFoundedInduction, TLAPS

-----------------------------------------------------------------------------
(* Sequences.                                                              *)

\* A set of positions that is not empty has a last one.
LEMMA GreatestExists ==
    ASSUME NEW n \in Nat, NEW P, P \subseteq 1 .. n, P # {}
    PROVE  \E g \in P : \A s \in P : s <= g
<1> DEFINE T == {n - s : s \in P}
           R == OpToRel(<, Nat)
<1>1. T \subseteq Nat /\ T # {}
  <2>1. \A s \in P : s \in Nat /\ n - s \in Nat
    OBVIOUS
  <2> QED  BY <2>1
<1>2. PICK x \in T : \A y \in T : <<y, x>> \notin R
  <2>1. IsWellFoundedOn(R, Nat)
    BY NatLessThanWellFounded, Zenon
  <2> HIDE DEF T, R
  <2> QED  BY <1>1, <2>1, WFMin, Zenon
<1>3. \A y \in T : ~(y < x)
  BY <1>1, <1>2 DEF OpToRel
<1>4. PICK g \in P : x = n - g
  OBVIOUS
<1>5. \A s \in P : n - s \in T
  OBVIOUS
<1>6. ASSUME NEW s \in P PROVE s <= g
  <2>1. s \in Nat /\ g \in Nat
    OBVIOUS
  <2>2. n - s \in T
    BY <1>5
  <2>3. ~(n - s < n - g)
    BY <1>3, <1>4, <2>2, Zenon
  <2> HIDE DEF T
  <2> QED  BY <2>1, <2>3
<1> QED  BY <1>6

\* Induction over an interval, with a set of positions for the induction hypothesis.
LEMMA IntervalInduction ==
    ASSUME NEW n \in Nat, NEW P, 0 \in P, \A k \in 0 .. n : k < n /\ k \in P => k + 1 \in P
    PROVE  \A k \in 0 .. n : k \in P
<1> DEFINE T == {k \in 0 .. n : k \notin P}
           R == OpToRel(<, Nat)
<1> SUFFICES ASSUME T # {} PROVE FALSE
  OBVIOUS
<1>1. T \subseteq Nat
  OBVIOUS
<1>2. PICK x \in T : \A y \in T : <<y, x>> \notin R
  <2>1. IsWellFoundedOn(R, Nat)
    BY NatLessThanWellFounded, Zenon
  <2> HIDE DEF T, R
  <2> QED  BY <1>1, <2>1, WFMin, Zenon
<1>3. \A y \in T : ~(y < x)
  BY <1>1, <1>2 DEF OpToRel
<1>4. x \in 0 .. n /\ x \notin P /\ x # 0
  OBVIOUS
<1>5. x - 1 \in 0 .. n /\ x - 1 < n /\ x - 1 < x /\ (x - 1) + 1 = x
  BY <1>4
<1>6. x - 1 \in P
  BY <1>3, <1>5
<1>7. (x - 1) + 1 \in P
  BY <1>5, <1>6
<1> QED  BY <1>4, <1>5, <1>7

\* A move takes the instruction at c behind the one at b; what is between comes one
\* position forward, and the rest stays where it is.
LEMMA MoveShape ==
    ASSUME NEW S, NEW p \in Seq(S), NEW b \in 1 .. Len(p), NEW c \in 1 .. b - 1
    PROVE  LET q == Move(p, c, b)
           IN  /\ q \in Seq(S) /\ Len(q) = Len(p)
               /\ \A k \in 1 .. c - 1 : q[k] = p[k]
               /\ \A k \in c .. b - 1 : q[k] = p[k + 1]
               /\ q[b] = p[c]
               /\ \A k \in b + 1 .. Len(p) : q[k] = p[k]
<1> DEFINE N == Len(p)
           s1 == SubSeq(p, 1, c - 1)
           s2 == SubSeq(p, c + 1, b)
           s3 == <<p[c]>>
           s4 == SubSeq(p, b + 1, N)
<1>1. Move(p, c, b) = ((s1 \o s2) \o s3) \o s4
  BY DEF Move
<1>2. N \in Nat /\ b \in Nat /\ c \in Nat /\ 1 <= c /\ c < b /\ b <= N
  OBVIOUS
<1>3. s1 \in Seq(S) /\ Len(s1) = c - 1 /\ \A k \in 1 .. c - 1 : s1[k] = p[k]
  OBVIOUS
<1>4. s2 \in Seq(S) /\ Len(s2) = b - c /\ \A k \in 1 .. b - c : s2[k] = p[c + k]
  OBVIOUS
<1>5. s3 \in Seq(S) /\ Len(s3) = 1 /\ s3[1] = p[c]
  OBVIOUS
<1>6. s4 \in Seq(S) /\ Len(s4) = N - b /\ \A k \in 1 .. N - b : s4[k] = p[b + k]
  OBVIOUS
<1> HIDE DEF s1, s2, s3, s4, N
<1> DEFINE t2 == s1 \o s2
           t3 == t2 \o s3
           q == t3 \o s4
<1>7. /\ t2 \in Seq(S) /\ Len(t2) = b - 1
      /\ \A k \in 1 .. b - 1 : t2[k] = IF k <= c - 1 THEN s1[k] ELSE s2[k - (c - 1)]
  <2>1. /\ t2 \in Seq(S) /\ Len(t2) = Len(s1) + Len(s2)
        /\ \A k \in 1 .. Len(s1) + Len(s2) :
              t2[k] = IF k <= Len(s1) THEN s1[k] ELSE s2[k - Len(s1)]
    BY <1>3, <1>4, ConcatProperties, Zenon
  <2>2. Len(s1) = c - 1 /\ Len(s2) = b - c
    BY <1>3, <1>4, Zenon
  <2>3. Len(s1) + Len(s2) = b - 1
    BY <1>2, <2>2
  <2> QED  BY <2>1, <2>2, <2>3, Zenon
<1> HIDE DEF t2
<1>8. /\ t3 \in Seq(S) /\ Len(t3) = b
      /\ \A k \in 1 .. b : t3[k] = IF k <= b - 1 THEN t2[k] ELSE s3[k - (b - 1)]
  <2>1. /\ t3 \in Seq(S) /\ Len(t3) = Len(t2) + Len(s3)
        /\ \A k \in 1 .. Len(t2) + Len(s3) :
              t3[k] = IF k <= Len(t2) THEN t2[k] ELSE s3[k - Len(t2)]
    BY <1>5, <1>7, ConcatProperties, Zenon
  <2>2. Len(t2) = b - 1 /\ Len(s3) = 1
    BY <1>5, <1>7, Zenon
  <2>3. Len(t2) + Len(s3) = b
    BY <1>2, <2>2
  <2> QED  BY <2>1, <2>2, <2>3, Zenon
<1> HIDE DEF t3
<1>9. /\ q \in Seq(S) /\ Len(q) = N
      /\ \A k \in 1 .. N : q[k] = IF k <= b THEN t3[k] ELSE s4[k - b]
  <2>1. /\ q \in Seq(S) /\ Len(q) = Len(t3) + Len(s4)
        /\ \A k \in 1 .. Len(t3) + Len(s4) :
              q[k] = IF k <= Len(t3) THEN t3[k] ELSE s4[k - Len(t3)]
    BY <1>6, <1>8, ConcatProperties, Zenon
  <2>2. Len(t3) = b /\ Len(s4) = N - b
    BY <1>6, <1>8, Zenon
  <2>3. Len(t3) + Len(s4) = N
    BY <1>2, <2>2
  <2> QED  BY <2>1, <2>2, <2>3, Zenon
<1> HIDE DEF q
<1>10. ASSUME NEW k \in 1 .. c - 1 PROVE q[k] = p[k]
  <2>1. k \in 1 .. b - 1 /\ k \in 1 .. b /\ k \in 1 .. N /\ k <= b /\ k <= b - 1 /\ k <= c - 1
    BY <1>2
  <2>2. q[k] = t3[k]
    BY <1>9, <2>1, Zenon
  <2>3. t3[k] = t2[k]
    BY <1>8, <2>1, Zenon
  <2>4. t2[k] = s1[k]
    BY <1>7, <2>1, Zenon
  <2> QED  BY <1>3, <2>2, <2>3, <2>4, Zenon
<1>11. ASSUME NEW k \in c .. b - 1 PROVE q[k] = p[k + 1]
  <2>1. /\ k \in 1 .. b - 1 /\ k \in 1 .. b /\ k \in 1 .. N
        /\ k <= b /\ k <= b - 1 /\ ~(k <= c - 1)
    BY <1>2
  <2>2. k - (c - 1) \in 1 .. b - c /\ c + (k - (c - 1)) = k + 1
    BY <1>2
  <2>3. q[k] = t3[k]
    BY <1>9, <2>1, Zenon
  <2>4. t3[k] = t2[k]
    BY <1>8, <2>1, Zenon
  <2>5. t2[k] = s2[k - (c - 1)]
    BY <1>7, <2>1, Zenon
  <2>6. s2[k - (c - 1)] = p[c + (k - (c - 1))]
    BY <1>4, <2>2, Zenon
  <2> QED  BY <2>2, <2>3, <2>4, <2>5, <2>6, Zenon
<1>12. q[b] = p[c]
  <2>1. q[b] = s3[b - (b - 1)]
    BY <1>2, <1>8, <1>9
  <2>2. b - (b - 1) = 1
    BY <1>2
  <2> QED  BY <1>5, <2>1, <2>2
<1>13. ASSUME NEW k \in b + 1 .. N PROVE q[k] = p[k]
  <2>1. q[k] = s4[k - b]
    BY <1>2, <1>9
  <2>2. k - b \in 1 .. N - b /\ b + (k - b) = k
    BY <1>2
  <2> QED  BY <1>6, <2>1, <2>2
<1> QED  BY <1>1, <1>9, <1>10, <1>11, <1>12, <1>13 DEF q, t3, t2, N
-----------------------------------------------------------------------------
(* Steps of the pass.                                                      *)

\* The position of a label is a position, or 0.
LEMMA LabelPositionType ==
    ASSUME NEW p \in Seq(InstructionSet), NEW label
    PROVE  LabelPosition(p, label) \in Nat
<1> DEFINE at == {n \in DOMAIN p : p[n].label = label}
<1>1. Len(p) \in Nat /\ at \subseteq 1 .. Len(p) /\ \A n \in 1 .. Len(p) : n \in Nat
  OBVIOUS
<1>2. LabelPosition(p, label) = IF label = "" \/ at = {} THEN 0
                                ELSE CHOOSE n \in at : \A m \in at : m <= n
  BY DEF LabelPosition
<1> HIDE DEF at
<1>3. at # {} => \E n \in at : \A m \in at : m <= n
  BY <1>1, GreatestExists
<1>4. at # {} => (CHOOSE n \in at : \A m \in at : m <= n) \in at
  BY <1>3
<1>5. CASE label = "" \/ at = {}
  <2>1. LabelPosition(p, label) = 0
    BY <1>2, <1>5, Zenon
  <2> QED  BY <2>1
<1>6. CASE ~(label = "" \/ at = {})
  <2>1. LabelPosition(p, label) \in at
    BY <1>2, <1>4, <1>6, Zenon
  <2> QED  BY <1>1, <2>1
<1> QED  BY <1>5, <1>6

\* Resolving targets changes nothing but targets.
LEMMA ResolveFacts ==
    ASSUME NEW p \in Seq(InstructionSet)
    PROVE  LET q == resolveTargets(p)
           IN  /\ q \in Seq(InstructionSet) /\ Len(q) = Len(p)
               /\ \A n \in 1 .. Len(p) : isControl(q[n]) <=> isControl(p[n])
<1> DEFINE q == resolveTargets(p)
           New(x) == IF isControl(x)
                     THEN [x EXCEPT !.target_index = LabelPosition(p, x.target_label)]
                     ELSE x
<1>1. Len(p) \in Nat /\ DOMAIN p = 1 .. Len(p) /\ \A n \in 1 .. Len(p) : p[n] \in InstructionSet
  OBVIOUS
<1>2. q = [n \in 1 .. Len(p) |-> New(p[n])]
  BY <1>1 DEF resolveTargets
<1> HIDE DEF q
<1>3. ASSUME NEW x \in InstructionSet
      PROVE  New(x) \in InstructionSet /\ (isControl(New(x)) <=> isControl(x))
  <2>1. [x EXCEPT !.target_index = LabelPosition(p, x.target_label)] \in InstructionSet
    BY LabelPositionType DEF InstructionSet
  <2>2. [x EXCEPT !.target_index = LabelPosition(p, x.target_label)].opcode = x.opcode
    BY DEF InstructionSet
  <2> QED  BY <2>1, <2>2 DEF isControl, isBranch, isJump
<1> HIDE DEF New
<1>4. \A n \in 1 .. Len(p) :
          New(p[n]) \in InstructionSet /\ (isControl(New(p[n])) <=> isControl(p[n]))
  BY <1>1, <1>3
<1>5. q \in Seq(InstructionSet) /\ Len(q) = Len(p)
  BY <1>1, <1>2, <1>4
<1> QED  BY <1>2, <1>4, <1>5 DEF q

\* A default-constructed instruction is one.
LEMMA NopType == NopInstruction \in InstructionSet /\ ~isControl(NopInstruction)
BY DEF NopInstruction, InstructionSet, OpCode, ArithmeticOps, RdArithmetic,
       isControl, isBranch, isJump

\* The vector in which the branch at i has a slot.
LEMMA WithSlotFacts ==
    ASSUME instructions \in Seq(InstructionSet), i \in 1 .. Len(instructions)
    PROVE  /\ WithSlot \in Seq(InstructionSet)
           /\ Len(WithSlot) \in Nat /\ i + 1 \in 1 .. Len(WithSlot)
           /\ Len(instructions) <= Len(WithSlot)
           /\ \A n \in 1 .. Len(instructions) : WithSlot[n] = instructions[n]
<1>1. CASE i = Len(instructions)
  <2>1. WithSlot = Append(instructions, NopInstruction)
    BY <1>1 DEF WithSlot
  <2> QED  BY <1>1, <2>1, NopType
<1>2. CASE i # Len(instructions)
  <2>1. WithSlot = instructions
    BY <1>2 DEF WithSlot
  <2>2. Len(instructions) \in Nat
    OBVIOUS
  <2>3. i + 1 \in 1 .. Len(instructions) /\ Len(instructions) <= Len(instructions)
    BY <1>2, <2>2
  <2> QED  BY <2>1, <2>2, <2>3
<1> QED  BY <1>1, <1>2

\* The candidate that is taken is one.
LEMMA NearestIsCandidate ==
    ASSUME NEW p \in Seq(InstructionSet), NEW b \in 1 .. Len(p), Candidates(p, b) # {}
    PROVE  Nearest(Candidates(p, b)) \in Candidates(p, b)
<1> DEFINE P == Candidates(p, b)
<1>1. b \in Nat /\ P \subseteq 1 .. b
  BY DEF Candidates
<1> HIDE DEF P
<1>2. \E g \in P : \A s \in P : s <= g
  BY <1>1, GreatestExists DEF P
<1> QED  BY <1>2 DEF Nearest, P

\* No control instruction is moved, and it is not moved past one.
LEMMA CandidateFacts ==
    ASSUME NEW p \in Seq(InstructionSet), NEW b \in 1 .. Len(p), NEW c \in Candidates(p, b)
    PROVE  /\ c \in 1 .. b - 1 /\ ~isControl(p[c])
           /\ \A k \in c + 1 .. b - 1 : ~isControl(p[k])
BY DEF Candidates, isAcceptableDelaySlotInstruction, dependenciesBlockMoveBackward
-----------------------------------------------------------------------------
(* The inductive invariant.                                                *)

Controls(p, last) == {n \in 1 .. last : isControl(p[n])}
Indices(d) == {d[n].branch_index : n \in DOMAIN d}
Increasing(d) == \A m, n \in DOMAIN d : m < n => d[m].branch_index < d[n].branch_index

\* The control instructions that the loop has passed are decided.
PassInv ==
    /\ TypeOK
    /\ Indices(decisions) = Controls(instructions, i - 1) /\ Increasing(decisions)
    /\ returned => i > Len(instructions)

\* A decision on a later control instruction is added.
LEMMA DecideOneMore ==
    ASSUME NEW d \in Seq(DecisionSet), NEW e \in DecisionSet, Increasing(d),
           \A n \in Indices(d) : n < e.branch_index
    PROVE  /\ Append(d, e) \in Seq(DecisionSet)
           /\ Indices(Append(d, e)) = Indices(d) \cup {e.branch_index}
           /\ Increasing(Append(d, e))
<1> DEFINE t == Append(d, e)
           N == Len(d)
<1>1. /\ N \in Nat /\ DOMAIN d = 1 .. N /\ DOMAIN t = 1 .. N + 1
      /\ t \in Seq(DecisionSet) /\ t[N + 1] = e
      /\ \A n \in 1 .. N : t[n] = d[n]
  OBVIOUS
<1> HIDE DEF t, N
<1>2. /\ \A n \in 1 .. N + 1 : n \in 1 .. N \/ n = N + 1
      /\ \A n \in 1 .. N : n \in 1 .. N + 1 /\ n < N + 1
      /\ N + 1 \in 1 .. N + 1 /\ \A n \in 1 .. N + 1 : ~(N + 1 < n)
  BY <1>1
<1>3. Indices(t) = Indices(d) \cup {e.branch_index}
  BY <1>1, <1>2 DEF Indices
<1>4. ASSUME NEW m \in 1 .. N + 1, NEW n \in 1 .. N + 1, m < n
      PROVE  t[m].branch_index < t[n].branch_index
  <2>1. m \in 1 .. N /\ t[m] = d[m] /\ d[m].branch_index \in Indices(d)
    BY <1>1, <1>2, <1>4 DEF Indices
  <2>2. CASE n = N + 1
    BY <1>1, <2>1, <2>2
  <2>3. CASE n \in 1 .. N
    BY <1>1, <1>4, <2>1, <2>3 DEF Increasing
  <2> QED  BY <1>2, <2>2, <2>3
<1>5. Increasing(t)
  BY <1>1, <1>4 DEF Increasing
<1> QED  BY <1>1, <1>3, <1>5 DEF t

\* What is known when the loop comes to a position.
LEMMA AtPosition ==
    ASSUME PassInv, i <= Len(instructions)
    PROVE  /\ i \in 1 .. Len(instructions) /\ i \in Nat /\ Len(instructions) \in Nat
           /\ instructions \in Seq(InstructionSet) /\ input \in Seq(InstructionSet)
           /\ decisions \in Seq(DecisionSet) /\ Increasing(decisions)
           /\ Indices(decisions) = Controls(instructions, i - 1)
           /\ ~returned /\ returned \in BOOLEAN
<1>1. /\ instructions \in Seq(InstructionSet) /\ input \in Seq(InstructionSet)
      /\ decisions \in Seq(DecisionSet) /\ Increasing(decisions)
      /\ Indices(decisions) = Controls(instructions, i - 1)
      /\ returned \in BOOLEAN /\ i \in 1 .. Len(instructions) + 1
      /\ returned => i > Len(instructions)
  BY Zenon DEF PassInv, TypeOK
<1>2. Len(instructions) \in Nat
  BY <1>1
<1>3. i \in Nat /\ i \in 1 .. Len(instructions) /\ ~(i > Len(instructions))
  BY <1>1, <1>2
<1> QED  BY <1>1, <1>2, <1>3, Zenon

\* A decision on the control instruction at i, after which the loop goes on. The
\* program is then q.
LEMMA DecideHere ==
    ASSUME PassInv, AtControl, NEW q \in Seq(InstructionSet),
           Len(instructions) <= Len(q),
           \A n \in 1 .. i : isControl(q[n]) <=> isControl(instructions[n]),
           NEW e \in DecisionSet, e.branch_index = i
    PROVE  /\ Append(decisions, e) \in Seq(DecisionSet)
           /\ Indices(Append(decisions, e)) = Controls(q, (i + 1) - 1)
           /\ Increasing(Append(decisions, e))
           /\ i + 1 \in 1 .. Len(q) + 1
<1>1. /\ i \in 1 .. Len(instructions) /\ i \in Nat /\ Len(instructions) \in Nat
      /\ decisions \in Seq(DecisionSet) /\ Increasing(decisions)
      /\ Indices(decisions) = Controls(instructions, i - 1)
  BY AtPosition DEF AtControl
<1>2. \A n \in Indices(decisions) : n < e.branch_index
  BY <1>1 DEF Controls
<1>3. /\ Append(decisions, e) \in Seq(DecisionSet)
      /\ Indices(Append(decisions, e)) = Indices(decisions) \cup {i}
      /\ Increasing(Append(decisions, e))
  BY <1>1, <1>2, DecideOneMore
<1>4. Controls(q, (i + 1) - 1) = Controls(instructions, i - 1) \cup {i}
  <2>1. /\ (i + 1) - 1 = i /\ i \in 1 .. i
        /\ \A n \in 1 .. i : n \in 1 .. i - 1 \/ n = i
        /\ \A n \in 1 .. i - 1 : n \in 1 .. i
    BY <1>1
  <2>2. isControl(instructions[i])
    BY DEF AtControl
  <2> QED  BY <2>1, <2>2 DEF Controls
<1>5. i + 1 \in 1 .. Len(q) + 1
  <2>1. Len(q) \in Nat
    OBVIOUS
  <2> QED  BY <1>1, <2>1
<1> QED  BY <1>1, <1>3, <1>4, <1>5

\* What an action of the loop has to give for the invariant.
LEMMA InvFromParts ==
    ASSUME input' \in Seq(InstructionSet), instructions' \in Seq(InstructionSet),
           decisions' \in Seq(DecisionSet), i' \in 1 .. Len(instructions') + 1,
           Indices(decisions') = Controls(instructions', i' - 1), Increasing(decisions'),
           returned' \in BOOLEAN, returned' => i' > Len(instructions')
    PROVE  PassInv'
BY Zenon DEF PassInv, TypeOK, Indices, Controls, Increasing

\* An instruction that is no control instruction needs no decision.
LEMMA SkipKeeps ==
    ASSUME PassInv, Skip
    PROVE  PassInv'
<1>1. /\ i <= Len(instructions) /\ ~isControl(instructions[i]) /\ i' = i + 1
      /\ UNCHANGED <<input, instructions, decisions, returned>>
  BY DEF Skip
<1>2. /\ i \in 1 .. Len(instructions) /\ i \in Nat /\ Len(instructions) \in Nat
      /\ instructions \in Seq(InstructionSet) /\ input \in Seq(InstructionSet)
      /\ decisions \in Seq(DecisionSet) /\ Increasing(decisions)
      /\ Indices(decisions) = Controls(instructions, i - 1)
      /\ ~returned /\ returned \in BOOLEAN
  BY <1>1, AtPosition
<1>3. Controls(instructions, (i + 1) - 1) = Controls(instructions, i - 1)
  <2>1. /\ (i + 1) - 1 = i
        /\ \A n \in 1 .. i : n \in 1 .. i - 1 \/ n = i
        /\ \A n \in 1 .. i - 1 : n \in 1 .. i
    BY <1>2
  <2> QED  BY <1>1, <2>1 DEF Controls
<1>4. i + 1 \in 1 .. Len(instructions) + 1
  BY <1>2
<1> QED  BY <1>1, <1>2, <1>3, <1>4, InvFromParts, Zenon

\* A mark in the slot changes no opcode.
LEMMA KeepManualKeeps ==
    ASSUME PassInv, KeepManual
    PROVE  PassInv'
<1> DEFINE q == [instructions EXCEPT ![i + 1].manually_filled = TRUE]
           e == Decision(i, "manual", instructions[i + 1])
<1>1. /\ AtControl /\ i < Len(instructions) /\ i <= Len(instructions)
      /\ instructions' = q /\ decisions' = Append(decisions, e) /\ i' = i + 1
      /\ UNCHANGED <<input, returned>>
  BY DEF KeepManual, AtControl
<1>2. /\ i \in 1 .. Len(instructions) /\ i \in Nat /\ Len(instructions) \in Nat
      /\ instructions \in Seq(InstructionSet) /\ input \in Seq(InstructionSet)
      /\ ~returned /\ returned \in BOOLEAN
  BY <1>1, AtPosition
<1>3. i + 1 \in 1 .. Len(instructions) /\ i # i + 1
  BY <1>1, <1>2
<1>4. instructions[i + 1] \in InstructionSet
  BY <1>2, <1>3
<1>5. q \in Seq(InstructionSet) /\ Len(q) = Len(instructions)
  <2>1. [instructions[i + 1] EXCEPT !.manually_filled = TRUE] \in InstructionSet
    BY <1>4 DEF InstructionSet
  <2>2. q = [instructions EXCEPT ![i + 1]
                = [instructions[i + 1] EXCEPT !.manually_filled = TRUE]]
    OBVIOUS
  <2> QED  BY <1>2, <1>3, <2>1, <2>2
<1>6. \A n \in 1 .. i : q[n] = instructions[n]
  <2>1. \A n \in 1 .. i : n \in 1 .. Len(instructions) /\ n # i + 1
    BY <1>2
  <2> QED  BY <1>2, <2>1
<1>7. e \in DecisionSet /\ e.branch_index = i
  BY <1>2, <1>4 DEF Decision, DecisionSet
<1>8. Len(instructions) <= Len(q)
  BY <1>2, <1>5
<1> HIDE DEF q, e
<1>9. /\ Append(decisions, e) \in Seq(DecisionSet)
      /\ Indices(Append(decisions, e)) = Controls(q, (i + 1) - 1)
      /\ Increasing(Append(decisions, e))
      /\ i + 1 \in 1 .. Len(q) + 1
  BY <1>1, <1>5, <1>6, <1>7, <1>8, DecideHere
<1> QED  BY <1>1, <1>2, <1>5, <1>9, InvFromParts, Zenon

\* A nop at the end, or in the slot, is no control instruction.
LEMMA UseNopKeeps ==
    ASSUME PassInv, UseNop
    PROVE  PassInv'
<1> DEFINE q == [WithSlot EXCEPT ![i + 1].opcode = "nop"]
           e == Decision(i, "nop", NopInstruction)
<1>1. /\ AtControl /\ i <= Len(instructions)
      /\ instructions' = q /\ decisions' = Append(decisions, e) /\ i' = i + 1
      /\ UNCHANGED <<input, returned>>
  BY DEF UseNop, LeaveNop, SlotIsFree, AtControl
<1>2. /\ i \in 1 .. Len(instructions) /\ i \in Nat /\ Len(instructions) \in Nat
      /\ instructions \in Seq(InstructionSet) /\ input \in Seq(InstructionSet)
      /\ ~returned /\ returned \in BOOLEAN
  BY <1>1, AtPosition
<1>3. /\ WithSlot \in Seq(InstructionSet)
      /\ Len(WithSlot) \in Nat /\ i + 1 \in 1 .. Len(WithSlot)
      /\ Len(instructions) <= Len(WithSlot)
      /\ \A n \in 1 .. Len(instructions) : WithSlot[n] = instructions[n]
  BY <1>2, WithSlotFacts
<1>4. WithSlot[i + 1] \in InstructionSet
  BY <1>3
<1>5. q \in Seq(InstructionSet) /\ Len(q) = Len(WithSlot)
  <2>1. [WithSlot[i + 1] EXCEPT !.opcode = "nop"] \in InstructionSet
    BY <1>4 DEF InstructionSet, OpCode
  <2>2. q = [WithSlot EXCEPT ![i + 1] = [WithSlot[i + 1] EXCEPT !.opcode = "nop"]]
    OBVIOUS
  <2> QED  BY <1>3, <2>1, <2>2
<1>6. \A n \in 1 .. i : q[n] = instructions[n]
  <2>1. \A n \in 1 .. i : n \in 1 .. Len(instructions) /\ n # i + 1
    BY <1>2
  <2>2. \A n \in 1 .. i : n \in 1 .. Len(WithSlot)
    BY <1>2, <1>3
  <2>3. \A n \in 1 .. Len(WithSlot) : n # i + 1 => q[n] = WithSlot[n]
    BY <1>3
  <2> QED  BY <1>3, <2>1, <2>2, <2>3
<1>7. e \in DecisionSet /\ e.branch_index = i
  BY <1>2, NopType DEF Decision, DecisionSet
<1>8. Len(instructions) <= Len(q)
  BY <1>3, <1>5
<1> HIDE DEF q, e
<1>9. /\ Append(decisions, e) \in Seq(DecisionSet)
      /\ Indices(Append(decisions, e)) = Controls(q, (i + 1) - 1)
      /\ Increasing(Append(decisions, e))
      /\ i + 1 \in 1 .. Len(q) + 1
  BY <1>1, <1>5, <1>6, <1>7, <1>8, DecideHere
<1> QED  BY <1>1, <1>2, <1>5, <1>9, InvFromParts, Zenon

\* The control instruction comes one position forward, to where none had been before,
\* and all that are decided stay where they are, in front of the candidate.
LEMMA FillKeeps ==
    ASSUME PassInv, FillAutomatically
    PROVE  PassInv'
<1> DEFINE c == Nearest(Candidates(WithSlot, i))
           q == Move(WithSlot, c, i)
           e == Decision(i - 1, "filled", WithSlot[c])
<1>1. /\ AtControl /\ i <= Len(instructions) /\ Candidates(WithSlot, i) # {}
      /\ instructions' = q /\ decisions' = Append(decisions, e) /\ i' = i
      /\ UNCHANGED <<input, returned>>
  BY DEF FillAutomatically, Fill, SlotIsFree, AtControl
<1>2. /\ i \in 1 .. Len(instructions) /\ i \in Nat /\ Len(instructions) \in Nat
      /\ instructions \in Seq(InstructionSet) /\ input \in Seq(InstructionSet)
      /\ decisions \in Seq(DecisionSet) /\ Increasing(decisions)
      /\ Indices(decisions) = Controls(instructions, i - 1)
      /\ ~returned /\ returned \in BOOLEAN
  BY <1>1, AtPosition
<1>3. /\ WithSlot \in Seq(InstructionSet)
      /\ Len(WithSlot) \in Nat /\ i + 1 \in 1 .. Len(WithSlot)
      /\ Len(instructions) <= Len(WithSlot)
      /\ \A n \in 1 .. Len(instructions) : WithSlot[n] = instructions[n]
  BY <1>2, WithSlotFacts
<1>4. i \in 1 .. Len(WithSlot)
  BY <1>2, <1>3
<1>5. /\ c \in 1 .. i - 1 /\ ~isControl(WithSlot[c])
      /\ \A k \in c + 1 .. i - 1 : ~isControl(WithSlot[k])
  BY <1>1, <1>3, <1>4, NearestIsCandidate, CandidateFacts, Zenon
<1> HIDE DEF c
<1>6. /\ q \in Seq(InstructionSet) /\ Len(q) = Len(WithSlot)
      /\ \A k \in 1 .. c - 1 : q[k] = WithSlot[k]
      /\ \A k \in c .. i - 1 : q[k] = WithSlot[k + 1]
  <2>1. WithSlot \in Seq(InstructionSet) /\ i \in 1 .. Len(WithSlot) /\ c \in 1 .. i - 1
    BY <1>3, <1>4, <1>5, Zenon
  <2>2. /\ Move(WithSlot, c, i) \in Seq(InstructionSet)
        /\ Len(Move(WithSlot, c, i)) = Len(WithSlot)
        /\ \A k \in 1 .. c - 1 : Move(WithSlot, c, i)[k] = WithSlot[k]
        /\ \A k \in c .. i - 1 : Move(WithSlot, c, i)[k] = WithSlot[k + 1]
    BY <2>1, MoveShape
  <2> QED  BY <2>2
<1>7. WithSlot[c] \in InstructionSet /\ c \in Nat /\ c <= i - 1 /\ c >= 1
  <2>1. c \in 1 .. Len(WithSlot)
    BY <1>4, <1>5
  <2> QED  BY <1>2, <1>3, <1>5, <2>1
<1>8. e \in DecisionSet /\ e.branch_index = i - 1
  <2>1. i - 1 \in Nat
    BY <1>2
  <2> QED  BY <1>7, <2>1 DEF Decision, DecisionSet
<1> HIDE DEF q, e
<1>9. isControl(WithSlot[i])
  BY <1>1, <1>2, <1>3 DEF AtControl
<1>10. \A n \in 1 .. i - 1 : WithSlot[n] = instructions[n]
  <2>1. \A n \in 1 .. i - 1 : n \in 1 .. Len(instructions)
    BY <1>2
  <2> QED  BY <1>3, <2>1
<1>11. \A n \in Controls(instructions, i - 1) : n \in 1 .. c - 1
  <2> SUFFICES ASSUME NEW n \in 1 .. i - 1, isControl(WithSlot[n]) PROVE n \in 1 .. c - 1
    BY <1>10 DEF Controls
  <2>1. n # c /\ n \notin c + 1 .. i - 1
    BY <1>5
  <2> QED  BY <1>2, <1>7, <2>1
<1>12. Controls(q, i - 1) = Controls(instructions, i - 1) \cup {i - 1}
  <2>1. ASSUME NEW n \in 1 .. i - 1
        PROVE  isControl(q[n]) <=> n \in Controls(instructions, i - 1) \/ n = i - 1
    <3>1. CASE n < c
      <4>1. n \in 1 .. c - 1 /\ n # i - 1
        BY <1>2, <1>7, <3>1
      <4>2. q[n] = instructions[n]
        BY <1>6, <1>10, <4>1
      <4> QED  BY <4>1, <4>2 DEF Controls
    <3>2. CASE n >= c /\ n # i - 1
      <4>1. n \in c .. i - 1 /\ n + 1 \in c + 1 .. i - 1 /\ n \notin 1 .. c - 1
        BY <1>2, <1>7, <3>2
      <4>2. ~isControl(q[n])
        BY <1>5, <1>6, <4>1
      <4> QED  BY <1>11, <3>2, <4>1, <4>2
    <3>3. CASE n = i - 1
      <4>1. n \in c .. i - 1 /\ n + 1 = i
        BY <1>2, <1>7, <3>3
      <4> QED  BY <1>6, <1>9, <3>3, <4>1
    <3> QED  BY <1>2, <1>7, <3>1, <3>2, <3>3
  <2>2. i - 1 \in 1 .. i - 1
    BY <1>2, <1>7
  <2>3. \A n \in Controls(instructions, i - 1) : n \in 1 .. i - 1
    BY DEF Controls
  <2> QED  BY <2>1, <2>2, <2>3 DEF Controls
<1>13. \A n \in Indices(decisions) : n < e.branch_index
  <2>1. \A n \in 1 .. c - 1 : n < i - 1
    BY <1>2, <1>7
  <2> QED  BY <1>2, <1>8, <1>11, <2>1
<1>14. /\ Append(decisions, e) \in Seq(DecisionSet)
       /\ Indices(Append(decisions, e)) = Indices(decisions) \cup {i - 1}
       /\ Increasing(Append(decisions, e))
  BY <1>2, <1>8, <1>13, DecideOneMore
<1>15. i \in 1 .. Len(q) + 1
  BY <1>2, <1>3, <1>6
<1> QED  BY <1>1, <1>2, <1>6, <1>12, <1>14, <1>15, InvFromParts, Zenon

\* Targets have no part in the invariant.
LEMMA ReturnKeeps ==
    ASSUME PassInv, Return
    PROVE  PassInv'
<1>1. /\ i > Len(instructions) /\ instructions' = resolveTargets(instructions)
      /\ returned' = TRUE /\ UNCHANGED <<input, decisions, i>>
  BY DEF Return
<1>2. /\ instructions \in Seq(InstructionSet) /\ input \in Seq(InstructionSet)
      /\ decisions \in Seq(DecisionSet) /\ Increasing(decisions)
      /\ Indices(decisions) = Controls(instructions, i - 1)
      /\ i \in 1 .. Len(instructions) + 1
  BY Zenon DEF PassInv, TypeOK
<1>3. /\ instructions' \in Seq(InstructionSet) /\ Len(instructions') = Len(instructions)
      /\ \A n \in 1 .. Len(instructions) :
            isControl(instructions'[n]) <=> isControl(instructions[n])
  BY <1>1, <1>2, ResolveFacts
<1>4. Controls(instructions', i - 1) = Controls(instructions, i - 1)
  <2>1. \A n \in 1 .. i - 1 : n \in 1 .. Len(instructions)
    <3>1. Len(instructions) \in Nat
      BY <1>2
    <3> QED  BY <1>2, <3>1
  <2> QED  BY <1>3, <2>1 DEF Controls
<1> QED  BY <1>1, <1>2, <1>3, <1>4, InvFromParts, Zenon

-----------------------------------------------------------------------------
(* Theorems.                                                               *)

\* The invariant is inductive.
LEMMA PassInductive ==
    /\ Init => PassInv
    /\ PassInv /\ [Next]_vars => PassInv'
<1>1. Init => PassInv
  <2> SUFFICES ASSUME NEW p \in Seq(InstructionSet), Start(p)
               PROVE  PassInv
    BY DEF Init
  <2>1. /\ input = p /\ instructions = p /\ decisions = <<>> /\ i = 1 /\ returned = FALSE
    BY DEF Start
  <2>2. decisions \in Seq(DecisionSet) /\ DOMAIN decisions = {}
    BY <2>1
  <2>3. i \in 1 .. Len(instructions) + 1 /\ i - 1 = 0 /\ 1 .. 0 = {}
    BY <2>1
  <2>4. Indices(decisions) = Controls(instructions, i - 1) /\ Increasing(decisions)
    BY <2>2, <2>3 DEF Indices, Controls, Increasing
  <2>5. /\ input \in Seq(InstructionSet) /\ instructions \in Seq(InstructionSet)
        /\ returned \in BOOLEAN /\ ~returned
    BY <2>1
  <2> QED  BY <2>2, <2>3, <2>4, <2>5, Zenon DEF PassInv, TypeOK
<1>2. PassInv /\ UNCHANGED vars => PassInv'
  BY DEF PassInv, TypeOK, vars, Indices, Controls, Increasing
<1> QED  BY <1>1, <1>2, SkipKeeps, KeepManualKeeps, UseNopKeeps, FillKeeps, ReturnKeeps
            DEF Next

\* scheduler.cpp:154: for every program the vector under work stays one of well-formed
\* instructions and the index within it, although the loop erases and inserts.
THEOREM PassTypesCorrect == Spec => []TypeOK
<1>1. PassInv => TypeOK
  BY DEF PassInv
<1> QED  BY <1>1, PassInductive, PTL DEF Spec

\* scheduler.cpp:217: for every program the pass returns one decision for each control
\* instruction, at its place in the result, in the order of the program.
THEOREM EveryBranchDecided == Spec => []EachBranchDecided
<1>1. PassInv => EachBranchDecided
  <2> SUFFICES ASSUME PassInv, returned
               PROVE  /\ Indices(decisions)
                           = {n \in DOMAIN instructions : isControl(instructions[n])}
                      /\ Increasing(decisions)
    BY DEF EachBranchDecided, Indices, Increasing
  <2>1. /\ instructions \in Seq(InstructionSet) /\ i \in 1 .. Len(instructions) + 1
        /\ i > Len(instructions) /\ Increasing(decisions)
        /\ Indices(decisions) = Controls(instructions, i - 1)
    BY Zenon DEF PassInv, TypeOK
  <2>2. i - 1 = Len(instructions) /\ DOMAIN instructions = 1 .. Len(instructions)
    <3>1. Len(instructions) \in Nat /\ DOMAIN instructions = 1 .. Len(instructions)
      BY <2>1
    <3> QED  BY <2>1, <3>1
  <2> QED  BY <2>1, <2>2 DEF Controls
<1> QED  BY <1>1, PassInductive, PTL DEF Spec

-----------------------------------------------------------------------------
(* The end of the pass.                                                    *)

\* What is ahead can be counted.
LEMMA AheadFinite ==
    ASSUME NEW p \in Seq(InstructionSet), NEW from \in Nat
    PROVE  IsFiniteSet(Ahead(p, from)) /\ Cardinality(Ahead(p, from)) \in Nat
<1>1. Len(p) \in Nat /\ Ahead(p, from) \in SUBSET (from .. Len(p))
  BY DEF Ahead
<1>2. IsFiniteSet(from .. Len(p))
  <2>1. from \in Int /\ Len(p) \in Int
    BY <1>1
  <2> QED  BY <2>1, FS_Interval
<1>3. IsFiniteSet(Ahead(p, from))
  BY <1>1, <1>2, FS_Subset
<1> QED  BY <1>3, FS_CardinalityType

\* The control instruction at b is no longer ahead, and no other comes to be.
LEMMA OneFewerAhead ==
    ASSUME NEW p \in Seq(InstructionSet), NEW q \in Seq(InstructionSet),
           NEW b \in 1 .. Len(p), isControl(p[b]), Len(p) <= Len(q), NEW from \in {b, b + 1},
           from = b => ~isControl(q[b]),
           \A n \in b + 1 .. Len(p) : isControl(q[n]) <=> isControl(p[n]),
           \A n \in Len(p) + 1 .. Len(q) : ~isControl(q[n])
    PROVE  Cardinality(Ahead(q, from)) = Cardinality(Ahead(p, b)) - 1
<1>1. Len(p) \in Nat /\ Len(q) \in Nat /\ b \in Nat /\ b <= Len(p)
  OBVIOUS
<1>2. ASSUME NEW n \in Ahead(q, from) PROVE n \in Ahead(p, b) /\ n # b
  <2>1. n \in from .. Len(q) /\ isControl(q[n])
    BY DEF Ahead
  <2>2. n # b
    <3>1. from = b + 1 => n # b
      BY <1>1, <2>1
    <3> QED  BY <2>1, <3>1
  <2>3. n \in b + 1 .. Len(p) \/ n \in Len(p) + 1 .. Len(q)
    BY <1>1, <2>1, <2>2
  <2>4. n \in b + 1 .. Len(p) /\ isControl(p[n])
    BY <2>1, <2>3
  <2> QED  BY <1>1, <2>2, <2>4 DEF Ahead
<1>3. ASSUME NEW n \in Ahead(p, b), n # b PROVE n \in Ahead(q, from)
  <2>1. n \in b .. Len(p) /\ isControl(p[n])
    BY DEF Ahead
  <2>2. n \in b + 1 .. Len(p) /\ n \in from .. Len(q)
    BY <1>1, <1>3, <2>1
  <2> QED  BY <2>1, <2>2 DEF Ahead
<1>4. Ahead(q, from) = Ahead(p, b) \ {b}
  BY <1>2, <1>3
<1>5. b \in Ahead(p, b)
  BY <1>1 DEF Ahead
<1>6. IsFiniteSet(Ahead(p, b))
  BY <1>1, AheadFinite
<1> QED  BY <1>4, <1>5, <1>6, FS_RemoveElement

\* What an iteration that decides a control instruction has to give.
LEMMA FewerSteps ==
    ASSUME PassInv, AtControl, instructions' \in Seq(InstructionSet), ~returned',
           Len(instructions) <= Len(instructions'),
           Len(instructions') <= Len(instructions) + 1, i' \in {i, i + 1},
           Cardinality(Ahead(instructions', i')) = Cardinality(Ahead(instructions, i)) - 1
    PROVE  StepsLeft' \in 0 .. StepsLeft - 1
<1> DEFINE N == Len(instructions)
           M == Len(instructions')
           a == Cardinality(Ahead(instructions, i))
           z == Cardinality(Ahead(instructions', i'))
<1>1. /\ i \in 1 .. N /\ i \in Nat /\ N \in Nat /\ ~returned
      /\ instructions \in Seq(InstructionSet)
  BY AtPosition DEF AtControl
<1>2. M \in Nat /\ i' \in Nat
  BY <1>1
<1>3. a \in Nat /\ z \in Nat
  BY <1>1, <1>2, AheadFinite
<1>4. z = a - 1
  OBVIOUS
<1>5. StepsLeft = 2 * a + (N + 1 - i) + 1 /\ StepsLeft' = 2 * z + (M + 1 - i') + 1
  BY <1>1 DEF StepsLeft
<1> HIDE DEF a, z, N, M
<1>6. N <= M /\ M <= N + 1 /\ (i' = i \/ i' = i + 1)
  BY DEF N, M
<1>7. ASSUME NEW x \in Nat, NEW y \in Nat, NEW n \in Nat, NEW m \in Nat, NEW j \in Nat,
             NEW k \in Nat, y = x - 1, j <= n, n <= m, m <= n + 1, k = j \/ k = j + 1
      PROVE  2 * y + (m + 1 - k) + 1 \in 0 .. (2 * x + (n + 1 - j) + 1) - 1
  BY <1>7
<1>8. i <= N
  BY <1>1
<1> QED  BY <1>1, <1>2, <1>3, <1>4, <1>5, <1>6, <1>7, <1>8

\* Every step leaves fewer to be taken.
LEMMA StepsGoDown ==
    ASSUME PassInv, Next
    PROVE  StepsLeft' \in 0 .. StepsLeft - 1
<1>1. CASE Skip
  <2>1. /\ i <= Len(instructions) /\ ~isControl(instructions[i]) /\ i' = i + 1
        /\ instructions' = instructions /\ returned' = returned
    BY <1>1 DEF Skip
  <2>2. /\ i \in 1 .. Len(instructions) /\ i \in Nat /\ Len(instructions) \in Nat
        /\ instructions \in Seq(InstructionSet) /\ ~returned
    BY <2>1, AtPosition
  <2>3. Ahead(instructions, i + 1) = Ahead(instructions, i)
    <3>1. \A n \in i .. Len(instructions) : n = i \/ n \in i + 1 .. Len(instructions)
      BY <2>2
    <3>2. \A n \in i + 1 .. Len(instructions) : n \in i .. Len(instructions)
      BY <2>2
    <3> QED  BY <2>1, <3>1, <3>2 DEF Ahead
  <2>4. Cardinality(Ahead(instructions, i)) \in Nat
    BY <2>2, AheadFinite
  <2>5. StepsLeft' = StepsLeft - 1 /\ StepsLeft - 1 \in Nat
    BY <2>1, <2>2, <2>3, <2>4 DEF StepsLeft
  <2> QED  BY <2>5
<1>2. CASE KeepManual
  <2>1. /\ AtControl /\ i < Len(instructions) /\ i <= Len(instructions)
        /\ instructions' = [instructions EXCEPT ![i + 1].manually_filled = TRUE]
        /\ i' = i + 1 /\ returned' = returned /\ isControl(instructions[i])
    BY <1>2 DEF KeepManual, AtControl
  <2>2. /\ i \in 1 .. Len(instructions) /\ i \in Nat /\ Len(instructions) \in Nat
        /\ instructions \in Seq(InstructionSet) /\ ~returned
    BY <2>1, AtPosition
  <2>3. /\ instructions' \in Seq(InstructionSet) /\ Len(instructions') = Len(instructions)
        /\ \A n \in 1 .. Len(instructions) :
              isControl(instructions'[n]) <=> isControl(instructions[n])
    <3> DEFINE x == [instructions[i + 1] EXCEPT !.manually_filled = TRUE]
    <3>1. i + 1 \in 1 .. Len(instructions) /\ instructions[i + 1] \in InstructionSet
      BY <2>1, <2>2
    <3>2. x \in InstructionSet /\ x.opcode = instructions[i + 1].opcode
      BY <3>1 DEF InstructionSet
    <3>3. instructions' = [instructions EXCEPT ![i + 1] = x]
      BY <2>1
    <3> HIDE DEF x
    <3>4. isControl(x) <=> isControl(instructions[i + 1])
      BY <3>2 DEF isControl, isBranch, isJump
    <3> QED  BY <2>2, <3>1, <3>2, <3>3, <3>4
  <2>4. Cardinality(Ahead(instructions', i + 1)) = Cardinality(Ahead(instructions, i)) - 1
    <3>1. Len(instructions) <= Len(instructions')
      BY <2>2, <2>3
    <3>2. i + 1 # i /\ Len(instructions) + 1 .. Len(instructions') = {}
      BY <2>2, <2>3
    <3>3. \A n \in i + 1 .. Len(instructions) : n \in 1 .. Len(instructions)
      BY <2>2
    <3> QED  BY <2>1, <2>2, <2>3, <3>1, <3>2, <3>3, OneFewerAhead
  <2>5. Len(instructions) <= Len(instructions') /\ Len(instructions') <= Len(instructions) + 1
    BY <2>2, <2>3
  <2> QED  BY <2>1, <2>2, <2>3, <2>4, <2>5, FewerSteps
<1>3. ASSUME SlotIsFree
      PROVE  /\ AtControl /\ i \in 1 .. Len(instructions) /\ i \in Nat
             /\ Len(instructions) \in Nat /\ isControl(instructions[i]) /\ ~returned
             /\ instructions \in Seq(InstructionSet) /\ WithSlot \in Seq(InstructionSet)
             /\ i + 1 \in 1 .. Len(WithSlot) /\ Len(WithSlot) \in Nat
             /\ Len(instructions) <= Len(WithSlot) /\ Len(WithSlot) <= Len(instructions) + 1
             /\ isNop(WithSlot[i + 1])
             /\ \A n \in 1 .. Len(instructions) : WithSlot[n] = instructions[n]
             /\ \A n \in Len(instructions) + 1 .. Len(WithSlot) : ~isControl(WithSlot[n])
  <2>1. AtControl /\ i <= Len(instructions) /\ isControl(instructions[i])
        /\ isNop(WithSlot[i + 1])
    BY <1>3 DEF SlotIsFree, AtControl
  <2>2. /\ i \in 1 .. Len(instructions) /\ i \in Nat /\ Len(instructions) \in Nat
        /\ instructions \in Seq(InstructionSet) /\ ~returned
    BY <2>1, AtPosition
  <2>3. /\ WithSlot \in Seq(InstructionSet)
        /\ Len(WithSlot) \in Nat /\ i + 1 \in 1 .. Len(WithSlot)
        /\ Len(instructions) <= Len(WithSlot)
        /\ \A n \in 1 .. Len(instructions) : WithSlot[n] = instructions[n]
    BY <2>2, WithSlotFacts
  <2>4. /\ Len(WithSlot) <= Len(instructions) + 1
        /\ \A n \in Len(instructions) + 1 .. Len(WithSlot) : ~isControl(WithSlot[n])
    <3>1. CASE i = Len(instructions)
      <4>1. WithSlot = Append(instructions, NopInstruction)
        BY <3>1 DEF WithSlot
      <4>2. /\ Len(WithSlot) = Len(instructions) + 1
            /\ WithSlot[Len(instructions) + 1] = NopInstruction
        BY <2>2, <4>1
      <4> QED  BY <2>2, <4>2, NopType
    <3>2. CASE i # Len(instructions)
      <4>1. WithSlot = instructions
        BY <3>2 DEF WithSlot
      <4>2. Len(instructions) + 1 .. Len(instructions) = {}
        BY <2>2
      <4> QED  BY <2>2, <4>1, <4>2
    <3> QED  BY <3>1, <3>2
  <2> QED  BY <2>1, <2>2, <2>3, <2>4
<1>4. CASE FillAutomatically
  <2> DEFINE c == Nearest(Candidates(WithSlot, i))
  <2>1. /\ SlotIsFree /\ Candidates(WithSlot, i) # {}
        /\ instructions' = Move(WithSlot, c, i) /\ i' = i /\ returned' = returned
    BY <1>4 DEF FillAutomatically, Fill
  <2>2. i \in 1 .. Len(WithSlot)
    BY <1>3, <2>1
  <2>3. c \in 1 .. i - 1 /\ ~isControl(WithSlot[c])
    BY <1>3, <2>1, <2>2, NearestIsCandidate, CandidateFacts, Zenon
  <2> HIDE DEF c
  <2>4. /\ instructions' \in Seq(InstructionSet) /\ Len(instructions') = Len(WithSlot)
        /\ instructions'[i] = WithSlot[c]
        /\ \A n \in i + 1 .. Len(WithSlot) : instructions'[n] = WithSlot[n]
    <3>1. WithSlot \in Seq(InstructionSet) /\ i \in 1 .. Len(WithSlot) /\ c \in 1 .. i - 1
      BY <1>3, <2>1, <2>2, <2>3, Zenon
    <3>2. /\ Move(WithSlot, c, i) \in Seq(InstructionSet)
          /\ Len(Move(WithSlot, c, i)) = Len(WithSlot)
          /\ Move(WithSlot, c, i)[i] = WithSlot[c]
          /\ \A n \in i + 1 .. Len(WithSlot) : Move(WithSlot, c, i)[n] = WithSlot[n]
      BY <3>1, MoveShape
    <3> QED  BY <2>1, <3>2
  <2>5. Cardinality(Ahead(instructions', i)) = Cardinality(Ahead(instructions, i)) - 1
    <3>1. \A n \in i + 1 .. Len(instructions) : instructions'[n] = instructions[n]
      <4>1. \A n \in i + 1 .. Len(instructions) :
               n \in 1 .. Len(instructions) /\ n \in i + 1 .. Len(WithSlot)
        BY <1>3, <2>1
      <4> QED  BY <1>3, <2>1, <2>4, <4>1
    <3>2. \A n \in Len(instructions) + 1 .. Len(instructions') : ~isControl(instructions'[n])
      <4>1. \A n \in Len(instructions) + 1 .. Len(WithSlot) : n \in i + 1 .. Len(WithSlot)
        BY <1>3, <2>1
      <4> QED  BY <1>3, <2>1, <2>4, <4>1
    <3>3. Len(instructions) <= Len(instructions') /\ ~isControl(instructions'[i])
      BY <1>3, <2>1, <2>3, <2>4
    <3>4. instructions \in Seq(InstructionSet) /\ i \in 1 .. Len(instructions)
          /\ isControl(instructions[i])
      BY <1>3, <2>1
    <3> QED  BY <2>4, <3>1, <3>2, <3>3, <3>4, OneFewerAhead
  <2> QED  BY <1>3, <2>1, <2>4, <2>5, FewerSteps
<1>5. CASE UseNop
  <2>1. /\ SlotIsFree /\ instructions' = [WithSlot EXCEPT ![i + 1].opcode = "nop"]
        /\ i' = i + 1 /\ returned' = returned
    BY <1>5 DEF UseNop, LeaveNop
  <2>2. /\ instructions' \in Seq(InstructionSet) /\ Len(instructions') = Len(WithSlot)
        /\ \A n \in 1 .. Len(WithSlot) :
              isControl(instructions'[n]) <=> isControl(WithSlot[n])
    <3> DEFINE x == [WithSlot[i + 1] EXCEPT !.opcode = "nop"]
    <3>1. /\ WithSlot \in Seq(InstructionSet) /\ i + 1 \in 1 .. Len(WithSlot)
          /\ WithSlot[i + 1] \in InstructionSet /\ isNop(WithSlot[i + 1])
      BY <1>3, <2>1
    <3>2. x \in InstructionSet /\ x.opcode = "nop"
      BY <3>1 DEF InstructionSet, OpCode
    <3>3. instructions' = [WithSlot EXCEPT ![i + 1] = x]
      BY <2>1
    <3> HIDE DEF x
    <3>4. ~isControl(x) /\ ~isControl(WithSlot[i + 1])
      BY <3>1, <3>2 DEF isControl, isBranch, isJump, isNop
    <3> QED  BY <3>1, <3>2, <3>3, <3>4
  <2>3. Cardinality(Ahead(instructions', i + 1)) = Cardinality(Ahead(instructions, i)) - 1
    <3>1. \A n \in i + 1 .. Len(instructions) :
             isControl(instructions'[n]) <=> isControl(instructions[n])
      <4>1. \A n \in i + 1 .. Len(instructions) :
               n \in 1 .. Len(instructions) /\ n \in 1 .. Len(WithSlot)
        BY <1>3, <2>1
      <4> QED  BY <1>3, <2>1, <2>2, <4>1
    <3>2. \A n \in Len(instructions) + 1 .. Len(instructions') : ~isControl(instructions'[n])
      <4>1. \A n \in Len(instructions) + 1 .. Len(WithSlot) : n \in 1 .. Len(WithSlot)
        BY <1>3, <2>1
      <4> QED  BY <1>3, <2>1, <2>2, <4>1
    <3>3. Len(instructions) <= Len(instructions') /\ i + 1 # i
      BY <1>3, <2>1, <2>2
    <3>4. instructions \in Seq(InstructionSet) /\ i \in 1 .. Len(instructions)
          /\ isControl(instructions[i])
      BY <1>3, <2>1
    <3> QED  BY <2>2, <3>1, <3>2, <3>3, <3>4, OneFewerAhead
  <2> QED  BY <1>3, <2>1, <2>2, <2>3, FewerSteps
<1>6. CASE Return
  <2>1. /\ i > Len(instructions) /\ ~returned /\ returned' = TRUE
        /\ instructions' = resolveTargets(instructions) /\ i' = i
    BY <1>6 DEF Return
  <2>2. instructions \in Seq(InstructionSet) /\ i \in 1 .. Len(instructions) + 1
    BY Zenon DEF PassInv, TypeOK
  <2>3. instructions' \in Seq(InstructionSet) /\ Len(instructions') = Len(instructions)
    BY <2>1, <2>2, ResolveFacts
  <2>4. Len(instructions) \in Nat /\ i = Len(instructions) + 1
    <3>1. Len(instructions) \in Nat
      BY <2>2
    <3> QED  BY <2>1, <2>2, <3>1
  <2>5. Ahead(instructions, i) = {} /\ Ahead(instructions', i') = {}
    BY <2>1, <2>3, <2>4 DEF Ahead
  <2>6. Len(instructions) + 1 - i = 0 /\ Len(instructions') + 1 - i' = 0
    BY <2>1, <2>3, <2>4
  <2>7. /\ Cardinality(Ahead(instructions, i)) = 0
        /\ Cardinality(Ahead(instructions', i')) = 0
    BY <2>5, FS_EmptySet
  <2>8. StepsLeft = 1 /\ StepsLeft' = 0
    <3>1. StepsLeft = 2 * 0 + 0 + 1
      BY <2>1, <2>6, <2>7 DEF StepsLeft
    <3>2. StepsLeft' = 2 * 0 + 0 + 0
      BY <2>1, <2>6, <2>7 DEF StepsLeft
    <3> QED  BY <3>1, <3>2
  <2> QED  BY <2>8
<1> QED  BY <1>1, <1>2, <1>4, <1>5, <1>6 DEF Next

\* scheduler.cpp:164: for every program each iteration brings the end closer, so that the
\* pass is over after at most one step for each instruction, two for each control
\* instruction and one more.
THEOREM PassRunsOut == Spec => StepsRunOut
<1>1. PassInv /\ [Next]_vars => [StepsLeft' \in 0 .. StepsLeft - 1]_vars
  BY StepsGoDown
<1> QED  BY <1>1, PassInductive, PTL DEF Spec, StepsRunOut

-----------------------------------------------------------------------------
(* The dependence test against what the simulator executes.                *)

\* Operands where the parser puts them: the result of an immediate operation in rt.
\* That of the others is in rd, unless it has no name; this is one of the deviations.
AsParsed(x) ==
    /\ x.opcode \in {"addi", "li"} => x.rd = ""
    /\ ~ResultUnnamed(x)

\* The states of the simulator, whatever its values are.
Machines(Values) ==
    [pc : Nat, branch_pending : BOOLEAN, branch_target : Nat, branch_delay_slot : Nat,
     registers : [Registers -> Values], memory : Values]

\* The register that x writes, "" for none, and what it writes there.
Written(x) ==
    CASE x.opcode \in {"addi", "li", "lw"} -> x.rt
      [] x.opcode \in RdArithmetic         -> IF x.rd = "" THEN x.rt ELSE x.rd
      [] OTHER                             -> ""

Result(m, x) ==
    CASE x.opcode = "addi"         -> <<"addi", readRegister(m, x.rs), x.immediate>>
      [] x.opcode = "li"           -> <<"li", x.immediate>>
      [] x.opcode \in RdArithmetic -> <<x.opcode, readRegister(m, x.rs), readRegister(m, x.rt)>>
      [] x.opcode = "lw"           -> <<"lw", m.memory, readRegister(m, x.rs), x.immediate>>
      [] OTHER                     -> ""

Stored(m, x) == <<"sw", m.memory, readRegister(m, x.rs), x.immediate, readRegister(m, x.rt)>>

\* An instruction writes one register, or memory, or nothing.
LEMMA ExecuteWrites ==
    ASSUME NEW m, NEW x \in InstructionSet
    PROVE  Execute(m, x) = IF x.opcode = "sw" THEN [m EXCEPT !.memory = Stored(m, x)]
                           ELSE writeRegister(m, Written(x), Result(m, x))
<1>1. CASE x.opcode \in {"addi", "li", "lw", "sw"}
  BY <1>1 DEF Execute, Written, Result, Stored, RdArithmetic
<1>2. CASE x.opcode \in RdArithmetic
  BY <1>2 DEF Execute, Written, Result, RdArithmetic
<1>3. CASE x.opcode \notin RdArithmetic \cup {"addi", "li", "lw", "sw"}
  BY <1>3 DEF Execute, Written, writeRegister, RdArithmetic
<1> QED  BY <1>1, <1>2, <1>3

\* The register that is written is the one that the scheduler takes for defined.
LEMMA WrittenIsDefined ==
    ASSUME NEW x \in InstructionSet, AsParsed(x)
    PROVE  /\ Written(x) \in Registers \cup {""}
           /\ Written(x) = "" \/ Written(x) \in definedRegister(x)
<1>1. x.rt \in Registers \cup {""} /\ x.rd \in Registers \cup {""}
  BY DEF InstructionSet
<1>2. CASE x.opcode \in {"addi", "li", "lw"}
  BY <1>1, <1>2 DEF Written, definedRegister, AsParsed, ResultUnnamed, ArithmeticOps, RdArithmetic
<1>3. CASE x.opcode \in RdArithmetic
  BY <1>1, <1>3 DEF Written, definedRegister, AsParsed, ResultUnnamed, ArithmeticOps, RdArithmetic
<1>4. CASE x.opcode \notin RdArithmetic \cup {"addi", "li", "lw"}
  BY <1>4 DEF Written
<1> QED  BY <1>2, <1>3, <1>4

\* Reading past a write to another register.
LEMMA ReadPastWrite ==
    ASSUME NEW V, NEW m \in Machines(V), NEW r, NEW v,
           NEW s \in Registers \cup {""}, r = "" \/ s = "" \/ r # s
    PROVE  readRegister(writeRegister(m, r, v), s) = readRegister(m, s)
BY DEF readRegister, writeRegister, Machines

\* A result does not depend on a register that the scheduler does not take for used.
LEMMA ResultPastWrite ==
    ASSUME NEW V, NEW m \in Machines(V), NEW x \in InstructionSet,
           NEW r, NEW v, r = "" \/ r \notin usedRegisters(x)
    PROVE  /\ Result(writeRegister(m, r, v), x) = Result(m, x)
           /\ x.opcode = "sw" => Stored(writeRegister(m, r, v), x) = Stored(m, x)
<1> DEFINE n == writeRegister(m, r, v)
<1>1. n.memory = m.memory
  BY DEF writeRegister, Machines
<1>2. x.rs \in Registers \cup {""} /\ x.rt \in Registers \cup {""}
  BY DEF InstructionSet
<1>3. x.opcode \in RdArithmetic \cup {"sw", "addi", "lw"} =>
          readRegister(n, x.rs) = readRegister(m, x.rs)
  <2> SUFFICES ASSUME x.opcode \in RdArithmetic \cup {"sw", "addi", "lw"}
               PROVE  readRegister(n, x.rs) = readRegister(m, x.rs)
    OBVIOUS
  <2>1. r = "" \/ x.rs = "" \/ r # x.rs
    BY DEF usedRegisters, RdArithmetic
  <2>2. x.rs \in Registers \cup {""}
    BY <1>2
  <2> QED  BY <2>1, <2>2, ReadPastWrite
<1>4. x.opcode \in RdArithmetic \cup {"sw"} =>
          readRegister(n, x.rt) = readRegister(m, x.rt)
  <2> SUFFICES ASSUME x.opcode \in RdArithmetic \cup {"sw"}
               PROVE  readRegister(n, x.rt) = readRegister(m, x.rt)
    OBVIOUS
  <2>1. r = "" \/ x.rt = "" \/ r # x.rt
    BY DEF usedRegisters, RdArithmetic
  <2>2. x.rt \in Registers \cup {""}
    BY <1>2
  <2> QED  BY <2>1, <2>2, ReadPastWrite
<1> HIDE DEF n
<1>5. Result(n, x) = Result(m, x)
  BY <1>1, <1>3, <1>4 DEF Result
<1>6. x.opcode = "sw" => Stored(n, x) = Stored(m, x)
  BY <1>1, <1>3, <1>4 DEF Stored
<1> QED  BY <1>5, <1>6 DEF n

\* Writes to two registers, in either order.
WriteBoth(m, r, v, s, w) ==
    writeRegister(writeRegister(m, r, v), s, w) = writeRegister(writeRegister(m, s, w), r, v)

\* Writes to different registers commute.
LEMMA WritesCommute ==
    ASSUME NEW V, NEW m \in Machines(V), NEW r, NEW s, NEW v, NEW w,
           r = "" \/ s = "" \/ r # s
    PROVE  WriteBoth(m, r, v, s, w)
<1> SUFFICES writeRegister(writeRegister(m, r, v), s, w)
               = writeRegister(writeRegister(m, s, w), r, v)
  BY DEF WriteBoth
<1>1. CASE r = ""
  BY <1>1 DEF writeRegister
<1>2. CASE s = "" /\ r # ""
  BY <1>2 DEF writeRegister, Machines
<1>3. CASE r # "" /\ s # "" /\ r # s
  BY <1>3 DEF writeRegister, Machines
<1> QED  BY <1>1, <1>2, <1>3

\* Writes to a register and to memory, in either order.
StoreAndWrite(m, r, v, w) ==
    [writeRegister(m, r, v) EXCEPT !.memory = w] = writeRegister([m EXCEPT !.memory = w], r, v)

\* Memory and registers are apart.
LEMMA StoreCommutes ==
    ASSUME NEW V, NEW m \in Machines(V), NEW r, NEW v, NEW w
    PROVE  StoreAndWrite(m, r, v, w)
<1> SUFFICES [writeRegister(m, r, v) EXCEPT !.memory = w]
               = writeRegister([m EXCEPT !.memory = w], r, v)
  BY DEF StoreAndWrite
<1> QED  BY DEF writeRegister, Machines

\* What the scheduler knows of a candidate c and an instruction x that it passes.
Independent(c, x) ==
    /\ usedRegisters(c) \cap definedRegister(x) = {}
    /\ definedRegister(c) \cap (usedRegisters(x) \cup definedRegister(x)) = {}
    /\ ~isMemory(c)

\* So the order of the two does not matter.
LEMMA IndependentCommute ==
    ASSUME NEW V, NEW m \in Machines(V), NEW c \in InstructionSet, NEW x \in InstructionSet,
           AsParsed(c), AsParsed(x), Independent(c, x)
    PROVE  Execute(Execute(m, c), x) = Execute(Execute(m, x), c)
<1> DEFINE r == Written(c)
           s == Written(x)
           v == Result(m, c)
           w == Result(m, x)
<1>1. c.opcode # "sw" /\ c.opcode # "lw"
  BY DEF Independent, isMemory
<1>2. /\ r = "" \/ r \notin usedRegisters(x)
      /\ s = "" \/ s \notin usedRegisters(c)
      /\ r = "" \/ s = "" \/ r # s
  BY WrittenIsDefined DEF Independent
<1>3. Execute(m, c) = writeRegister(m, r, v)
  BY <1>1, ExecuteWrites
<1>4. CASE x.opcode # "sw"
  <2>1. Execute(m, x) = writeRegister(m, s, w)
    BY <1>4, ExecuteWrites
  <2>2. Result(writeRegister(m, r, v), x) = w
    BY <1>2, ResultPastWrite
  <2>3. Result(writeRegister(m, s, w), c) = v
    BY <1>2, ResultPastWrite
  <2>4. Execute(writeRegister(m, r, v), x) = writeRegister(writeRegister(m, r, v), s, w)
    BY <1>4, <2>2, ExecuteWrites
  <2>5. Execute(writeRegister(m, s, w), c) = writeRegister(writeRegister(m, s, w), r, v)
    BY <1>1, <2>3, ExecuteWrites
  <2> HIDE DEF r, s, v, w
  <2>6. writeRegister(writeRegister(m, r, v), s, w) = writeRegister(writeRegister(m, s, w), r, v)
    <3>1. WriteBoth(m, r, v, s, w)
      BY <1>2, WritesCommute
    <3> QED  BY <3>1 DEF WriteBoth
  <2> QED  BY <1>3, <2>1, <2>4, <2>5, <2>6
<1>5. CASE x.opcode = "sw"
  <2> DEFINE y == Stored(m, x)
             n == [m EXCEPT !.memory = y]
  <2>1. Execute(m, x) = n
    BY <1>5, ExecuteWrites
  <2>2. Stored(writeRegister(m, r, v), x) = y
    BY <1>2, <1>5, ResultPastWrite
  <2>3. Result(n, c) = v
    <3>1. /\ readRegister(n, c.rs) = readRegister(m, c.rs)
          /\ readRegister(n, c.rt) = readRegister(m, c.rt)
      BY DEF readRegister, Machines
    <3> HIDE DEF n
    <3> QED  BY <1>1, <3>1 DEF Result, RdArithmetic
  <2>4. Execute(writeRegister(m, r, v), x) = [writeRegister(m, r, v) EXCEPT !.memory = y]
    BY <1>5, <2>2, ExecuteWrites
  <2>5. Execute(n, c) = writeRegister(n, r, v)
    BY <1>1, <2>3, ExecuteWrites
  <2> HIDE DEF r, s, v, w, y
  <2>6. [writeRegister(m, r, v) EXCEPT !.memory = y] = writeRegister(n, r, v)
    <3>1. StoreAndWrite(m, r, v, y)
      BY StoreCommutes
    <3> QED  BY <3>1 DEF StoreAndWrite
  <2> QED  BY <1>3, <2>1, <2>4, <2>5, <2>6
<1> QED  BY <1>4, <1>5

\* scheduler.cpp:84: whatever the program, an instruction that passes the dependence
\* test commutes with each instruction it is moved past, and a branch reads the same
\* operands without it.
THEOREM CandidatesCommute ==
    ASSUME NEW p \in Seq(InstructionSet), NEW b \in 1 .. Len(p), NEW c \in Candidates(p, b),
           \A n \in c .. b - 1 : AsParsed(p[n]),
           NEW V, NEW m \in Machines(V)
    PROVE  /\ \A k \in c + 1 .. b - 1 :
                  Execute(Execute(m, p[c]), p[k]) = Execute(Execute(m, p[k]), p[c])
           /\ isBranch(p[b]) =>
                  \A r \in {p[b].rs, p[b].rt} :
                      readRegister(Execute(m, p[c]), r) = readRegister(m, r)
<1>1. c \in 1 .. Len(p) /\ c \in 1 .. b - 1
  <2>1. c \in 1 .. b - 1
    BY DEF Candidates
  <2> QED  BY <2>1
<1>2. p[c] \in InstructionSet /\ AsParsed(p[c]) /\ p[b] \in InstructionSet
  <2>1. c \in c .. b - 1
    BY <1>1
  <2> QED  BY <1>1, <2>1
<1>3. /\ ~isMemory(p[c])
      /\ definedRegister(p[c]) \cap usedRegisters(p[b]) = {}
      /\ \A k \in c + 1 .. b - 1 : Independent(p[c], p[k])
  BY DEF Candidates, isAcceptableDelaySlotInstruction, mayCauseException,
         dependenciesBlockMoveBackward, Independent
<1>4. ASSUME NEW k \in c + 1 .. b - 1
      PROVE  Execute(Execute(m, p[c]), p[k]) = Execute(Execute(m, p[k]), p[c])
  <2>1. k \in 1 .. Len(p) /\ k \in c .. b - 1
    BY <1>1
  <2>2. p[k] \in InstructionSet /\ AsParsed(p[k]) /\ Independent(p[c], p[k])
    BY <1>3, <2>1
  <2> QED  BY <1>2, <2>2, IndependentCommute
<1>5. ASSUME isBranch(p[b]), NEW r \in {p[b].rs, p[b].rt}
      PROVE  readRegister(Execute(m, p[c]), r) = readRegister(m, r)
  <2>1. Execute(m, p[c]) = writeRegister(m, Written(p[c]), Result(m, p[c]))
    BY <1>2, <1>3, ExecuteWrites DEF isMemory
  <2>2. r \in Registers \cup {""}
    BY <1>2 DEF InstructionSet
  <2>3. r = "" \/ r \in usedRegisters(p[b])
    BY <1>5 DEF usedRegisters, isBranch, RdArithmetic
  <2>4. Written(p[c]) = "" \/ r = "" \/ Written(p[c]) # r
    BY <1>2, <1>3, <2>3, WrittenIsDefined
  <2>5. readRegister(writeRegister(m, Written(p[c]), Result(m, p[c])), r) = readRegister(m, r)
    BY <2>2, <2>4, ReadPastWrite, Zenon
  <2> QED  BY <2>1, <2>5
<1> QED  BY <1>4, <1>5

\* Where the k-th exchange in a block takes place.
LEMMA BlockPositions ==
    ASSUME NEW b \in Nat, NEW c \in Nat, c < b, NEW k \in Nat, k < b - c - 1
    PROVE  /\ k + 1 \in 0 .. b - c - 1 /\ k \in 0 .. b - c - 2 /\ k \in 0 .. b - c
           /\ c + k \in c .. b - 1 /\ (c + k) + 1 = c + (k + 1) /\ c + (k + 1) \in c + 1 .. b - 1
OBVIOUS

\* scheduler.cpp:194: whatever the program, the instructions from the old place of a
\* moved one to the slot, executed on any machine, leave what they left before the
\* move, and the branch in between reads the same operands.
THEOREM BlocksSurviveMoves ==
    ASSUME NEW p \in Seq(InstructionSet), NEW b \in 1 .. Len(p), NEW c \in Candidates(p, b),
           \A n \in c .. b - 1 : AsParsed(p[n]), NEW V,
           \* The machines before the move, from s[0] in front of c to the branch, ...
           NEW s \in [0 .. b - c -> Machines(V)],
           \A k \in 0 .. b - c - 1 : s[k + 1] = Execute(s[k], p[c + k]),
           \* ... and after it, from the same machine through the slot.
           NEW t \in [0 .. b - c -> Machines(V)], t[0] = s[0],
           \A k \in 0 .. b - c - 2 : t[k + 1] = Execute(t[k], Move(p, c, b)[c + k]),
           t[b - c] = Execute(t[b - c - 1], Move(p, c, b)[b])
    PROVE  /\ t[b - c] = s[b - c]
           /\ Move(p, c, b)[b - 1] = p[b]
           /\ isBranch(p[b]) =>
                  \A r \in {p[b].rs, p[b].rt} :
                      readRegister(t[b - c - 1], r) = readRegister(s[b - c], r)
<1> DEFINE q == Move(p, c, b)
           L == b - c - 1
           P == {k \in 0 .. L : s[k + 1] = Execute(t[k], p[c])}
<1>1. c \in 1 .. b - 1 /\ b \in Nat /\ Len(p) \in Nat /\ c \in Nat
  <2>1. c \in 1 .. b - 1
    BY DEF Candidates
  <2> QED  BY <2>1
<1>2. L \in Nat /\ L + 1 = b - c /\ 0 \in 0 .. L /\ b - 1 = c + L
  BY <1>1
<1>3. /\ \A k \in c .. b - 1 : q[k] = p[k + 1]
      /\ q[b] = p[c]
  BY <1>1, MoveShape
<1>4. 0 \in P
  <2>1. s[0 + 1] = Execute(s[0], p[c + 0]) /\ c + 0 = c
    BY <1>1, <1>2
  <2> QED  BY <1>2, <2>1
<1>5. ASSUME NEW k \in 0 .. L, k < L, k \in P PROVE k + 1 \in P
  <2>1. /\ k + 1 \in 0 .. L /\ k + 1 \in 0 .. b - c - 1 /\ k \in 0 .. b - c - 2
        /\ c + k \in c .. b - 1 /\ (c + k) + 1 = c + (k + 1) /\ c + (k + 1) \in c + 1 .. b - 1
        /\ k \in 0 .. b - c
    <3>1. k \in Nat /\ k < b - c - 1 /\ c < b
      BY <1>1, <1>2, <1>5
    <3> QED  BY <1>1, <3>1, BlockPositions
  <2>2. s[(k + 1) + 1] = Execute(s[k + 1], p[c + (k + 1)])
    BY <2>1
  <2>3. t[k + 1] = Execute(t[k], p[c + (k + 1)])
    <3>1. t[k + 1] = Execute(t[k], q[c + k])
      BY <2>1
    <3>2. q[c + k] = p[c + (k + 1)]
      BY <1>3, <2>1
    <3> QED  BY <3>1, <3>2
  <2>4. s[k + 1] = Execute(t[k], p[c])
    BY <1>5
  <2>5. t[k] \in Machines(V)
    BY <2>1
  <2>6. Execute(Execute(t[k], p[c]), p[c + (k + 1)]) = Execute(Execute(t[k], p[c + (k + 1)]), p[c])
    BY <2>1, <2>5, CandidatesCommute
  <2> QED  BY <2>1, <2>2, <2>3, <2>4, <2>6
<1>6. s[L + 1] = Execute(t[L], p[c])
  <2>1. \A k \in 0 .. L : k \in P
    <3> HIDE DEF P, L
    <3> QED  BY <1>2, <1>4, <1>5, IntervalInduction
  <2>2. L \in 0 .. L
    BY <1>2
  <2> QED  BY <2>1, <2>2
<1>7. t[b - c] = s[b - c]
  BY <1>2, <1>3, <1>6
<1>8. q[b - 1] = p[b]
  <2>1. b - 1 \in c .. b - 1 /\ (b - 1) + 1 = b
    BY <1>1
  <2> QED  BY <1>3, <2>1
<1>9. ASSUME isBranch(p[b]), NEW r \in {p[b].rs, p[b].rt}
      PROVE  readRegister(t[L], r) = readRegister(s[b - c], r)
  <2>1. t[L] \in Machines(V)
    BY <1>1, <1>2
  <2>2. readRegister(Execute(t[L], p[c]), r) = readRegister(t[L], r)
    BY <1>9, <2>1, CandidatesCommute
  <2> QED  BY <1>2, <1>6, <2>2
<1> QED  BY <1>7, <1>8, <1>9
=============================================================================
