-------------------------- MODULE RecursionProofs --------------------------
(***************************************************************************)
(* Induction over the natural numbers and recursive functions on initial   *)
(* segments of them, stated of sets and functions: for any formula the set *)
(* of the numbers it holds of does.                                        *)
(***************************************************************************)
EXTENDS Integers, WellFoundedInduction, TLAPS

\* A set of natural numbers that is not empty has a smallest element.
LEMMA SmallestOf ==
  ASSUME NEW S \in SUBSET Nat, S # {}
  PROVE  \E x \in S : \A y \in S : x <= y
<1>1. PICK R : R = OpToRel(<, Nat)
  OBVIOUS
<1>2. IsWellFoundedOn(R, Nat)
  BY <1>1, NatLessThanWellFounded
<1>3. PICK x \in S : \A y \in S : <<y, x>> \notin R
  BY <1>2, WFMin
<1>4. \A y \in S : ~(y < x)
  BY <1>1, <1>3 DEF OpToRel
<1> QED
  BY <1>4

\* Induction up to n.
LEMMA InductionTo ==
  ASSUME NEW n \in Nat, NEW S, 0 \in S, \A i \in 1 .. n : i - 1 \in S => i \in S
  PROVE  \A i \in 0 .. n : i \in S
<1> SUFFICES ASSUME NEW j \in 0 .. n, j \notin S
             PROVE  FALSE
  OBVIOUS
<1> DEFINE T == {i \in 0 .. n : i \notin S}
<1>1. PICK x \in T : \A y \in T : x <= y
  <2>1. T \in SUBSET Nat /\ T # {}
    OBVIOUS
  <2> HIDE DEF T
  <2> QED
    BY <2>1, SmallestOf
<1>2. x \in 1 .. n /\ x \notin S
  BY <1>1
<1>3. x - 1 \in 0 .. n /\ ~(x <= x - 1)
  BY <1>2
<1>4. x - 1 \in S
  BY <1>1, <1>3
<1> QED
  BY <1>2, <1>4

\* f is given by its value at 0 and by how each value follows from the one before.
Follows(f, n, a, step) == f = [k \in 0 .. n |-> IF k = 0 THEN a ELSE step[k][f[k - 1]]]

\* There is such a function.
LEMMA RecursionTo ==
  ASSUME NEW n \in Nat, NEW S, NEW a \in S, NEW step,
         \A k \in 1 .. n : \A x \in S : step[k][x] \in S
  PROVE  \E f : Follows(f, n, a, step)
<1> DEFINE Upto(m) == {f \in [0 .. m -> S] :
                         f[0] = a /\ \A i \in 1 .. m : f[i] = step[i][f[i - 1]]}
           Done == {m \in 0 .. n : Upto(m) # {}}
<1>1. 0 \in Done
  <2>1. [i \in 0 .. 0 |-> a] \in Upto(0)
    OBVIOUS
  <2> QED
    BY <2>1
<1>2. ASSUME NEW m \in 1 .. n, m - 1 \in Done
      PROVE  m \in Done
  <2>1. PICK f \in [0 .. (m - 1) -> S] :
          f[0] = a /\ \A i \in 1 .. (m - 1) : f[i] = step[i][f[i - 1]]
    BY <1>2
  <2>2. PICK g : g = [i \in 0 .. m |-> IF i = m THEN step[m][f[m - 1]] ELSE f[i]]
    OBVIOUS
  <2>3. f[m - 1] \in S /\ step[m][f[m - 1]] \in S
    OBVIOUS
  <2>4. g \in [0 .. m -> S]
    BY <2>2, <2>3
  <2>5. g[0] = a
    BY <2>1, <2>2
  <2>6. \A i \in 1 .. m : g[i] = step[i][g[i - 1]]
    <3> SUFFICES ASSUME NEW i \in 1 .. m
                 PROVE  g[i] = step[i][g[i - 1]]
      OBVIOUS
    <3>1. i - 1 \in 0 .. m /\ i \in 0 .. m /\ i - 1 # m
      OBVIOUS
    <3>2. g[i - 1] = f[i - 1]
      BY <2>2, <3>1
    <3>3. CASE i = m
      <4>1. g[i] = step[m][f[m - 1]]
        BY <2>2, <3>1, <3>3
      <4> QED
        BY <3>2, <3>3, <4>1
    <3>4. CASE i # m
      <4>1. i \in 1 .. (m - 1) /\ g[i] = f[i]
        BY <2>2, <3>1, <3>4
      <4>2. f[i] = step[i][f[i - 1]]
        BY <2>1, <4>1
      <4> QED
        BY <3>2, <4>1, <4>2
    <3> QED
      BY <3>3, <3>4
  <2>7. g \in Upto(m)
    BY <2>4, <2>5, <2>6
  <2>8. Upto(m) # {} /\ m \in 0 .. n
    BY <2>7
  <2> QED
    BY <2>8
<1>3. n \in Done
  <2> HIDE DEF Done
  <2>1. \A i \in 0 .. n : i \in Done
    BY <1>1, <1>2, InductionTo
  <2> QED
    BY <2>1
<1>4. PICK f \in [0 .. n -> S] : f[0] = a /\ \A i \in 1 .. n : f[i] = step[i][f[i - 1]]
  BY <1>3
<1>5. Follows(f, n, a, step)
  BY <1>4 DEF Follows
<1> QED
  BY <1>5

\* A function iterated up to n times.
LEMMA IterationTo ==
  ASSUME NEW n \in Nat, NEW S, NEW a \in S, NEW next \in [S -> S]
  PROVE  \E f : f = [k \in 0 .. n |-> IF k = 0 THEN a ELSE next[f[k - 1]]]
<1>1. PICK step : step = [i \in 1 .. n |-> next]
  OBVIOUS
<1>2. \A k \in 1 .. n : \A x \in S : step[k][x] \in S
  BY <1>1
<1>3. PICK f : Follows(f, n, a, step)
  BY <1>2, RecursionTo
<1>4. \A k \in 0 .. n : k # 0 => step[k][f[k - 1]] = next[f[k - 1]]
  BY <1>1
<1> QED
  BY <1>3, <1>4 DEF Follows
=============================================================================
