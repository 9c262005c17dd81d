-------------------------------- MODULE Loop --------------------------------
(***************************************************************************)
(* A loop over a sequence: Step is applied to a base and every element in  *)
(* turn.  The folds of the community modules take their operator as a      *)
(* parameter, and nothing can be proved about them for a given operator;   *)
(* here the operator is a constant of the module, so that every INSTANCE   *)
(* has the lemmas below for its own step.                                  *)
(***************************************************************************)
EXTENDS Integers, Sequences, WellFoundedInduction, TLAPS

CONSTANT Step(_, _)

Fold(base, seq) ==
    LET after[i \in 0..Len(seq)] ==
            IF i = 0 THEN base ELSE Step(after[i - 1], seq[i])
    IN  after[Len(seq)]

\* A set of naturals that is not empty has a least element: the induction
\* the last two lemmas rest on.
LEMMA LeastNat ==
    ASSUME NEW T \in SUBSET Nat, T # {}
    PROVE  \E x \in T : \A y \in T : x <= y
<1>1. \E x \in T : \A y \in T : ~ (<<y, x>> \in OpToRel(<, Nat))
  BY NatLessThanWellFounded, WFMin
<1>2. PICK x \in T : \A y \in T : ~ (<<y, x>> \in OpToRel(<, Nat))
  BY <1>1
<1>3. ASSUME NEW y \in T PROVE x <= y
  <2>1. <<y, x>> \notin {ss \in Nat \X Nat : ss[1] < ss[2]}
    BY <1>2 DEF OpToRel
  <2> QED
    BY <2>1
<1> QED
  BY <1>3

\* The recursion defines a function, on every prefix of the sequence.
LEMMA FoldExists ==
    ASSUME NEW E, NEW base, NEW seq \in Seq(E), NEW n \in 0..Len(seq)
    PROVE  \E g : g = [i \in 0..n |->
                         IF i = 0 THEN base ELSE Step(g[i - 1], seq[i])]
<1> DEFINE Q(m) == \E g : g = [i \in 0..m |->
                            IF i = 0 THEN base ELSE Step(g[i - 1], seq[i])]
           T == {m \in 0..Len(seq) : ~Q(m)}
<1>1. SUFFICES ASSUME T # {} PROVE FALSE
  OBVIOUS
<1>2. PICK m \in T : \A y \in T : m <= y
  <2>1. T \in SUBSET Nat
    OBVIOUS
  <2> HIDE DEF T
  <2> QED
    BY <1>1, <2>1, LeastNat
<1>3. m # 0
  <2>1. [i \in 0..0 |-> base] =
            [i \in 0..0 |-> IF i = 0 THEN base
                            ELSE Step([j \in 0..0 |-> base][i - 1], seq[i])]
    OBVIOUS
  <2>2. Q(0)
    BY <2>1
  <2> QED
    BY <2>2
<1>4. m - 1 \in 0..Len(seq) /\ Q(m - 1)
  <2> HIDE DEF Q
  <2> QED
    BY <1>2, <1>3
<1>5. PICK g : g = [i \in 0..(m - 1) |->
                      IF i = 0 THEN base ELSE Step(g[i - 1], seq[i])]
  BY <1>4
<1> DEFINE h == [i \in 0..m |->
                   IF i = m THEN Step(g[m - 1], seq[m]) ELSE g[i]]
<1>6. h = [i \in 0..m |-> IF i = 0 THEN base ELSE Step(h[i - 1], seq[i])]
  <2> SUFFICES ASSUME NEW i \in 0..m
               PROVE  h[i] = IF i = 0 THEN base ELSE Step(h[i - 1], seq[i])
    OBVIOUS
  <2>1. CASE i = m
    BY <2>1, <1>3, <1>4
  <2>2. CASE i # m
    <3>1. i \in 0..(m - 1) /\ (i # 0 => i - 1 \in 0..(m - 1))
      BY <2>2, <1>4
    <3>2. h[i] = g[i] /\ (i # 0 => h[i - 1] = g[i - 1])
      BY <3>1, <2>2, <1>4
    <3> HIDE DEF h
    <3> QED
      BY <1>5, <3>1, <3>2
  <2> QED
    BY <2>1, <2>2
<1> QED
  BY <1>6

\* A loop that takes its states from one set to the next ends in the last.
LEMMA FoldStages ==
    ASSUME NEW E, NEW base, NEW seq \in Seq(E), NEW Stage,
           base \in Stage[0],
           \A i \in 1..Len(seq) : \A b \in Stage[i - 1] :
               Step(b, seq[i]) \in Stage[i]
    PROVE  Fold(base, seq) \in Stage[Len(seq)]
<1> DEFINE after == CHOOSE g : g = [i \in 0..Len(seq) |->
                                IF i = 0 THEN base ELSE Step(g[i - 1], seq[i])]
<1>1. after = [i \in 0..Len(seq) |->
                 IF i = 0 THEN base ELSE Step(after[i - 1], seq[i])]
  BY FoldExists
<1>2. Fold(base, seq) = after[Len(seq)]
  BY DEF Fold
<1> HIDE DEF after
<1> DEFINE T == {m \in 0..Len(seq) : after[m] \notin Stage[m]}
<1>3. T = {}
  <2>1. SUFFICES ASSUME T # {} PROVE FALSE
    OBVIOUS
  <2>2. PICK m \in T : \A y \in T : m <= y
    <3>1. T \in SUBSET Nat
      OBVIOUS
    <3> HIDE DEF T
    <3> QED
      BY <2>1, <3>1, LeastNat
  <2>3. CASE m = 0
    BY <2>3, <1>1, <2>2
  <2>4. CASE m # 0
    <3>1. m - 1 \in 0..Len(seq) /\ m \in 1..Len(seq) /\ m - 1 \notin T
      BY <2>2, <2>4
    <3>2. after[m - 1] \in Stage[m - 1]
      BY <3>1
    <3>3. after[m] = Step(after[m - 1], seq[m])
      BY <1>1, <2>2, <2>4
    <3> QED
      BY <3>1, <3>2, <3>3, <2>2
  <2> QED
    BY <2>3, <2>4
<1> QED
  BY <1>3, <1>2

\* A loop whose steps stay in a set stays in the set.
LEMMA FoldStays ==
    ASSUME NEW S, NEW E, NEW base \in S, NEW seq \in Seq(E),
           \A b \in S, e \in E : Step(b, e) \in S
    PROVE  Fold(base, seq) \in S
<1> DEFINE Stage == [i \in 0..Len(seq) |-> S]
<1>1. \A i \in 1..Len(seq) : seq[i] \in E /\ i - 1 \in 0..Len(seq)
  OBVIOUS
<1>2. base \in Stage[0] /\ \A i \in 1..Len(seq) : \A b \in Stage[i - 1] :
          Step(b, seq[i]) \in Stage[i]
  BY <1>1
<1>3. Fold(base, seq) \in Stage[Len(seq)]
  <2> HIDE DEF Stage
  <2> QED
    BY <1>2, FoldStages
<1> QED
  BY <1>3
=============================================================================
