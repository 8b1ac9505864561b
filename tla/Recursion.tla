----------------------------- MODULE Recursion -----------------------------
(***************************************************************************)
(* Recursion over the numbers: what takes the place of induction in the    *)
(* proofs about recursive functions, and what FlattenSeq computes.         *)
(***************************************************************************)
EXTENDS SequencesExt, SequenceTheorems, NaturalsInduction, WellFoundedInduction, TLAPS
-----------------------------------------------------------------------------

LEMMA LeastOne ==
  ASSUME NEW S \in SUBSET Nat, S # {}
  PROVE  \E x \in S : \A y \in S : x <= y
<1>1. \E x \in S : \A y \in S : ~(<<y, x>> \in OpToRel(<, Nat))
  BY NatLessThanWellFounded, WFMin
<1>2. PICK x \in S : \A y \in S : ~(<<y, x>> \in OpToRel(<, Nat))
  BY <1>1
<1>3. ASSUME NEW y \in S PROVE x <= y
  <2>1. x \in Nat /\ y \in Nat /\ ~(<<y, x>> \in OpToRel(<, Nat))
    BY <1>2
  <2>2. ~(y < x)
    BY <2>1 DEF OpToRel
  <2>3. x \in Nat /\ y \in Nat
    OBVIOUS
  <2>4. QED
    BY <2>2, <2>3
<1>4. QED
  BY <1>3

\* What holds of the first number and goes from each number to the next one holds of
\* all: a set of numbers takes the place of a predicate.
LEMMA NumberByNumber ==
  ASSUME NEW m \in Nat, NEW n \in Nat, NEW S, m \in S,
         \A i \in m + 1 .. n : i - 1 \in S => i \in S
  PROVE  \A i \in m .. n : i \in S
<1> DEFINE bad == {i \in m .. n : i \notin S}
<1>1. SUFFICES ASSUME bad # {} PROVE FALSE
  OBVIOUS
<1>2. bad \in SUBSET Nat
  OBVIOUS
<1>3. PICK x \in bad : \A y \in bad : x <= y
  BY <1>1, <1>2, LeastOne
<1>4. x \in Nat /\ x \in m .. n /\ x # m /\ x \notin S
  BY <1>2
<1>5. x \in m + 1 .. n /\ x - 1 \in m .. n /\ ~(x <= x - 1)
  BY <1>4
<1>6. x - 1 \in S
  BY <1>3, <1>5
<1>7. QED
  BY <1>4, <1>5, <1>6

\* A recursive definition has a value: the steps are a function.
Recursive(n, S, c, step) ==
    {f \in [0 .. n -> S] : f[0] = c /\ \A i \in 1 .. n : f[i] = step[f[i - 1]][i]}

LEMMA StepByStep ==
  ASSUME NEW n \in Nat, NEW S, NEW c \in S, NEW step \in [S -> [1 .. n -> S]]
  PROVE  Recursive(n, S, c, step) # {}
<1> DEFINE Upto(f, m) == f[0] = c /\ \A i \in 1 .. m : f[i] = step[f[i - 1]][i]
           good == {m \in 0 .. n : \E f \in [0 .. m -> S] : Upto(f, m)}
<1>1. 0 \in good
  <2>1. [i \in 0 .. 0 |-> c] \in [0 .. 0 -> S] /\ Upto([i \in 0 .. 0 |-> c], 0)
    OBVIOUS
  <2>2. \E f \in [0 .. 0 -> S] : Upto(f, 0)
    BY <2>1
  <2>3. 0 \in 0 .. n
    OBVIOUS
  <2>4. QED
    BY <2>2, <2>3
<1>2. ASSUME NEW m \in 0 + 1 .. n, m - 1 \in good PROVE m \in good
  <2>1. PICK f \in [0 .. m - 1 -> S] : Upto(f, m - 1)
    BY <1>2
  <2>2. m \in Nat /\ m >= 1 /\ m - 1 \in 0 .. m - 1 /\ m \in 1 .. n
    OBVIOUS
  <2> DEFINE last == step[f[m - 1]][m]
             g == [i \in 0 .. m |-> IF i = m THEN last ELSE f[i]]
  <2>3. last \in S
    BY <2>2
  <2>4. \A i \in 0 .. m : i # m => i \in 0 .. m - 1
    BY <2>2
  <2>5. g \in [0 .. m -> S]
    BY <2>3, <2>4
  <2>6. \A i \in 0 .. m - 1 : g[i] = f[i]
    BY <2>2
  <2>7. g[m] = last /\ g[0] = c
    BY <2>1, <2>2, <2>6
  <2> HIDE DEF g
  <2>8. ASSUME NEW i \in 1 .. m PROVE g[i] = step[g[i - 1]][i]
    <3>1. CASE i = m
      BY <2>2, <2>6, <2>7, <3>1
    <3>2. CASE i # m
      <4>1. i \in 1 .. m - 1 /\ i \in 0 .. m - 1 /\ i - 1 \in 0 .. m - 1
        BY <2>2, <3>2
      <4>2. QED
        BY <2>1, <2>6, <4>1
    <3>3. QED
      BY <3>1, <3>2
  <2>9. g[0] = c /\ \A i \in 1 .. m : g[i] = step[g[i - 1]][i]
    BY <2>7, <2>8
  <2>10. \E h \in [0 .. m -> S] : Upto(h, m)
    BY <2>5, <2>9
  <2>11. m \in 0 .. n
    BY <2>2
  <2>12. QED
    BY <2>10, <2>11
<1> HIDE DEF good
<1>3. \A m \in 0 .. n : m \in good
  BY <1>1, <1>2, NumberByNumber
<1>4. n \in good
  BY <1>3
<1>5. PICK f \in [0 .. n -> S] : Upto(f, n)
  BY <1>4 DEF good
<1>6. f \in Recursive(n, S, c, step)
  BY <1>5 DEF Recursive
<1>7. QED
  BY <1>6
-----------------------------------------------------------------------------
(* Sequences of sequences                                                   *)

\* What FlattenSeq computes, one sequence after the other.
Flattening(S, ss) ==
    {h \in [0 .. Len(ss) -> Seq(S)] :
        h[0] = << >> /\ \A i \in 1 .. Len(ss) : h[i] = h[i - 1] \o ss[i]}

LEMMA FlattenSteps ==
  ASSUME NEW S, NEW ss \in Seq(Seq(S))
  PROVE  \E h \in Flattening(S, ss) : FlattenSeq(ss) = h[Len(ss)]
<1> DEFINE n == Len(ss)
           Seqs == Seq(S)
           none == << >>
           step == [s \in Seqs |-> [i \in 1 .. n |-> s \o ss[i]]]
           flatten == CHOOSE f : f = [i \in 1 .. n |->
                         IF i = 1 THEN ss[i] ELSE f[i - 1] \o ss[i]]
<1>1. n \in Nat /\ none \in Seqs /\ \A i \in 1 .. n : ss[i] \in Seqs
  OBVIOUS
<1>2. step \in [Seqs -> [1 .. n -> Seqs]]
  <2>1. ASSUME NEW s \in Seqs, NEW i \in 1 .. n PROVE s \o ss[i] \in Seqs
    BY <1>1
  <2>2. QED
    BY <2>1
<1>3. \A s \in Seqs, i \in 1 .. n : step[s][i] = s \o ss[i]
  OBVIOUS
<1>4. PICK h \in [0 .. n -> Seqs] : h[0] = none /\ \A i \in 1 .. n : h[i] = step[h[i - 1]][i]
  <2> HIDE DEF step, n, Seqs, none
  <2>1. Recursive(n, Seqs, none, step) # {}
    BY <1>1, <1>2, StepByStep
  <2>2. QED
    BY <2>1 DEF Recursive
<1>5. ASSUME NEW i \in 1 .. n PROVE h[i] = h[i - 1] \o ss[i]
  <2> HIDE DEF n, Seqs, step
  <2>1. i - 1 \in 0 .. n
    BY <1>1
  <2>2. h[i - 1] \in Seqs
    BY <2>1
  <2>3. QED
    BY <1>3, <1>4, <2>2
<1>6. h \in Flattening(S, ss)
  BY <1>4, <1>5 DEF Flattening
<1>7. FlattenSeq(ss) = h[n]
  <2>1. CASE n = 0
    BY <1>4, <2>1 DEF FlattenSeq
  <2>2. CASE n # 0
    <3> DEFINE g == [i \in 1 .. n |-> h[i]]
    <3>1. ASSUME NEW i \in 1 .. n PROVE g[i] = IF i = 1 THEN ss[i] ELSE g[i - 1] \o ss[i]
      <4>1. CASE i = 1
        <5>1. h[1] = h[0] \o ss[1] /\ ss[1] \in Seqs
          <6> HIDE DEF n, Seqs, step, g
          <6>1. 1 \in 1 .. n /\ 1 - 1 = 0
            BY <1>1, <4>1
          <6>2. QED
            BY <1>1, <1>5, <6>1
        <5>2. none \o ss[1] = ss[1]
          BY <5>1
        <5>3. QED
          BY <1>4, <4>1, <5>1, <5>2
      <4>2. CASE i # 1
        <5>1. i - 1 \in 1 .. n
          <6> HIDE DEF n
          <6>1. QED
            BY <1>1, <4>2
        <5>2. QED
          BY <1>5, <4>2, <5>1
      <4>3. QED
        BY <4>1, <4>2
    <3>2. g = [i \in 1 .. n |-> g[i]]
      OBVIOUS
    <3> HIDE DEF g, n
    <3>3. g = [i \in 1 .. n |-> IF i = 1 THEN ss[i] ELSE g[i - 1] \o ss[i]]
      BY <3>1, <3>2
    <3>4. flatten = [i \in 1 .. n |-> IF i = 1 THEN ss[i] ELSE flatten[i - 1] \o ss[i]]
      BY <3>3
    <3>5. FlattenSeq(ss) = flatten[n]
      BY <2>2 DEF FlattenSeq, n
    <3> HIDE DEF flatten
    <3> DEFINE same == {i \in 1 .. n : flatten[i] = h[i]}
    <3>6. n \in 1 .. n /\ 1 \in 1 .. n /\ 1 \in Nat
      BY <1>1, <2>2
    <3>7. 1 \in same
      <4>1. flatten[1] = ss[1]
        BY <3>4, <3>6
      <4>2. h[1] = ss[1]
        BY <3>1, <3>6 DEF g
      <4>3. QED
        BY <3>6, <4>1, <4>2
    <3>8. ASSUME NEW i \in 1 + 1 .. n, i - 1 \in same PROVE i \in same
      <4>1. i \in 1 .. n /\ i # 1
        BY <1>1
      <4>2. flatten[i] = flatten[i - 1] \o ss[i]
        BY <3>4, <4>1
      <4>3. QED
        BY <1>5, <3>8, <4>1, <4>2
    <3> HIDE DEF same
    <3>9. \A i \in 1 .. n : i \in same
      BY <1>1, <3>6, <3>7, <3>8, NumberByNumber
    <3>10. QED
      BY <3>5, <3>6, <3>9 DEF same
  <2>3. QED
    BY <2>1, <2>2
<1>8. QED
  BY <1>6, <1>7

LEMMA FlattenAppend ==
  ASSUME NEW S, NEW ss \in Seq(Seq(S)), NEW x \in Seq(S)
  PROVE  /\ FlattenSeq(ss) \in Seq(S)
         /\ FlattenSeq(Append(ss, x)) = FlattenSeq(ss) \o x
<1> DEFINE n == Len(ss)
           tt == Append(ss, x)
<1>1. n \in Nat /\ tt \in Seq(Seq(S)) /\ Len(tt) = n + 1
      /\ tt[n + 1] = x /\ \A i \in 1 .. n : tt[i] = ss[i]
  OBVIOUS
<1>2. PICK g \in Flattening(S, ss) : FlattenSeq(ss) = g[n]
  BY FlattenSteps
<1>3. PICK h \in Flattening(S, tt) : FlattenSeq(tt) = h[n + 1]
  <2> HIDE DEF tt
  <2>1. QED
    BY <1>1, FlattenSteps
<1> DEFINE same == {i \in 0 .. n : g[i] = h[i]}
<1>4. 0 \in same
  BY <1>1, <1>2, <1>3 DEF Flattening
<1>5. ASSUME NEW i \in 0 + 1 .. n, i - 1 \in same PROVE i \in same
  <2>1. i \in 1 .. n /\ i \in 0 .. n /\ i \in 1 .. n + 1
    BY <1>1
  <2>2. g[i] = g[i - 1] \o ss[i] /\ h[i] = h[i - 1] \o tt[i]
    <3> HIDE DEF tt
    <3>1. QED
      BY <1>1, <1>2, <1>3, <2>1 DEF Flattening
  <2>3. QED
    BY <1>1, <1>5, <2>1, <2>2
<1> HIDE DEF same, tt
<1>6. \A i \in 0 .. n : i \in same
  BY <1>1, <1>4, <1>5, NumberByNumber
<1>7. g[n] = h[n] /\ g[n] \in Seq(S)
  BY <1>1, <1>2, <1>6 DEF same, Flattening
<1>8. h[n + 1] = h[n] \o x
  <2>1. n + 1 \in 1 .. Len(tt) /\ (n + 1) - 1 = n
    BY <1>1
  <2>2. QED
    BY <1>1, <1>3, <2>1 DEF Flattening
<1>9. QED
  BY <1>2, <1>3, <1>7, <1>8 DEF tt
=============================================================================
