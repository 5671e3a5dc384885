-------------------------------- MODULE Loop --------------------------------
(***************************************************************************)
(* Loops, which the models write as recursive functions on 0 .. n: step i  *)
(* takes the result of step i - 1.  A proof about one instantiates Step    *)
(* with the loop's body and Holds with its loop invariant; both have the   *)
(* loop's other inputs as their first argument.                            *)
(***************************************************************************)
EXTENDS Integers

LOCAL INSTANCE WellFoundedInduction

CONSTANTS Step(_, _, _),   \* of the inputs, i, and the result before step i
          Holds(_, _, _)   \* of the inputs, i, and the result after step i

\* The results after the steps, from before the first one on.
Run(p, base, n) ==
    LET f[i \in 0 .. n] == IF i = 0 THEN base ELSE Step(p, i, f[i - 1]) IN f

IsRun(p, base, n, f) == f = [i \in 0 .. n |-> IF i = 0 THEN base ELSE Step(p, i, f[i - 1])]

\* A nonempty set of naturals has a least element: induction by the least
\* counterexample.
LEMMA LeastNat ==
    ASSUME NEW T \in SUBSET Nat, T # {}
    PROVE  \E n \in T : \A m \in T : n <= m
<1> DEFINE R == OpToRel(<, Nat)
<1>1. IsWellFoundedOn(R, Nat)
  BY NatLessThanWellFounded
<1>2. \A x, y \in Nat : x < y => <<x, y>> \in R
  BY DEF OpToRel
<1> HIDE DEF R
<1>3. PICK n \in T : \A m \in T : ~(<<m, n>> \in R)
  BY <1>1, WFMin
<1>4. ASSUME NEW m \in T PROVE n <= m
  <2>1. m \in Nat /\ n \in Nat
    OBVIOUS
  <2>2. ~(m < n)
    BY <2>1, <1>2, <1>3
  <2> QED BY <2>1, <2>2
<1> QED BY <1>4

LEMMA RunExists ==
    ASSUME NEW p, NEW base, NEW n \in Nat
    PROVE  \E f : IsRun(p, base, n, f)
<1> DEFINE T == {m \in 0 .. n : ~\E f : IsRun(p, base, m, f)}
<1>1. CASE T = {}
  BY <1>1
<1>2. CASE T # {}
  <2>1. PICK m \in T : \A k \in T : m <= k
    BY <1>2, LeastNat, T \in SUBSET Nat
  <2>2. CASE m = 0
    <3>1. IsRun(p, base, 0, [i \in 0 .. 0 |-> base])
      BY DEF IsRun
    <3> QED BY <3>1, <2>1, <2>2
  <2>3. CASE m # 0
    <3>1. m - 1 \in 0 .. n /\ m - 1 \notin T
      BY <2>1, <2>3
    <3>2. PICK g : IsRun(p, base, m - 1, g)
      BY <3>1
    <3> DEFINE h == [i \in 0 .. m |-> IF i = m THEN Step(p, m, g[m - 1]) ELSE g[i]]
    <3>3. IsRun(p, base, m, h)
      <4>1. ASSUME NEW i \in 0 .. m
            PROVE  h[i] = IF i = 0 THEN base ELSE Step(p, i, h[i - 1])
        <5>1. CASE i = m
          <6>1. h[i] = Step(p, m, g[m - 1]) /\ h[i - 1] = g[m - 1]
            BY <5>1, <2>3
          <6> QED BY <6>1, <5>1, <2>3
        <5>2. CASE i # m
          <6>1. i \in 0 .. m - 1 /\ h[i] = g[i] /\ (i # 0 => h[i - 1] = g[i - 1])
            BY <5>2, <2>3
          <6> QED BY <6>1, <3>2 DEF IsRun
        <5> QED BY <5>1, <5>2
      <4> HIDE DEF h
      <4>2. h = [i \in 0 .. m |-> h[i]]
        BY DEF h
      <4> QED BY <4>1, <4>2 DEF IsRun
    <3> QED BY <3>3, <2>1
  <2> QED BY <2>2, <2>3
<1> QED BY <1>1, <1>2

\* The recursive function satisfies its defining equation.
THEOREM RunDef ==
    ASSUME NEW p, NEW base, NEW n \in Nat
    PROVE  /\ Run(p, base, n)[0] = base
           /\ \A i \in 1 .. n : Run(p, base, n)[i] = Step(p, i, Run(p, base, n)[i - 1])
<1>1. Run(p, base, n) = CHOOSE f : IsRun(p, base, n, f)
  BY DEF Run, IsRun
<1>2. IsRun(p, base, n, Run(p, base, n))
  BY <1>1, RunExists
<1> QED BY <1>2 DEF IsRun

\* What holds before the loop and is preserved by its body holds after each step.
THEOREM LoopInvariant ==
    ASSUME NEW p, NEW base, NEW n \in Nat,
           Holds(p, 0, base),
           \A i \in 1 .. n : \A x : Holds(p, i - 1, x) => Holds(p, i, Step(p, i, x))
    PROVE  \A i \in 0 .. n : Holds(p, i, Run(p, base, n)[i])
<1> DEFINE f == Run(p, base, n)
           T == {i \in 0 .. n : ~Holds(p, i, f[i])}
<1>1. f[0] = base /\ \A i \in 1 .. n : f[i] = Step(p, i, f[i - 1])
  BY RunDef
<1> HIDE DEF f
<1>2. CASE T = {}
  BY <1>2 DEF f
<1>3. CASE T # {}
  <2>1. PICK m \in T : \A k \in T : m <= k
    BY <1>3, LeastNat, T \in SUBSET Nat
  <2>2. m # 0
    BY <1>1, <2>1
  <2>3. m - 1 \in 0 .. n /\ m \in 1 .. n /\ Holds(p, m - 1, f[m - 1])
    BY <2>1, <2>2
  <2>4. Holds(p, m, f[m])
    BY <1>1, <2>3
  <2> QED BY <2>1, <2>4
<1> QED BY <1>2, <1>3

=============================================================================
