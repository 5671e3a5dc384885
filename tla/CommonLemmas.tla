---------------------------- MODULE CommonLemmas ----------------------------
(***************************************************************************)
(* Facts about integers, sequences and the operators of the community      *)
(* modules that the proofs of several components cite.                     *)
(***************************************************************************)
EXTENDS Integers, Sequences, SequencesExt, FiniteSets, FiniteSetsExt,
        WellFoundedInduction, TLAPS

\* A nonempty set of naturals has a least element: induction by the least
\* counterexample.
LEMMA LeastNat ==
    ASSUME NEW T \in SUBSET Nat, T # {}
    PROVE  \E n \in T : \A m \in T : n <= m
<1> DEFINE R == OpToRel(<, Nat)
<1>1. IsWellFoundedOn(R, Nat)
  BY NatLessThanWellFounded
<1>2. \A x, y \in Nat : x < y => <<x, y>> \in R
  BY DEF OpToRel
<1> HIDE DEF R
<1>3. PICK n \in T : \A m \in T : ~(<<m, n>> \in R)
  BY <1>1, WFMin
<1>4. ASSUME NEW m \in T PROVE n <= m
  <2>1. m \in Nat /\ n \in Nat
    OBVIOUS
  <2>2. ~(m < n)
    BY <2>1, <1>2, <1>3
  <2> QED BY <2>1, <2>2
<1> QED BY <1>4

\* Of finitely many integers one is the first least.
LEMMA FirstLeast ==
    ASSUME NEW n \in Nat \ {0}, NEW f, \A i \in 1 .. n : f[i] \in Int
    PROVE  \E i \in 1 .. n : \A j \in 1 .. n : f[i] < f[j] \/ (f[i] = f[j] /\ i <= j)
<1> DEFINE Has(m) == \E i \in 1 .. m : \A j \in 1 .. m :
                        f[i] < f[j] \/ (f[i] = f[j] /\ i <= j)
           T == {m \in 1 .. n : ~Has(m)}
<1>1. CASE T = {}
  BY <1>1
<1>2. CASE T # {}
  <2>1. PICK m \in T : \A k \in T : m <= k
    BY <1>2, LeastNat, T \in SUBSET Nat
  <2>2. m # 1
    <3>1. Has(1)
      OBVIOUS
    <3> QED BY <2>1, <3>1
  <2>3. m - 1 \in 1 .. n /\ Has(m - 1)
    <3>1. m - 1 \in 1 .. n /\ ~(m <= m - 1)
      BY <2>2
    <3>2. m - 1 \notin T
      BY <2>1, <3>1
    <3> QED BY <3>1, <3>2
  <2>4. PICK i \in 1 .. m - 1 : \A j \in 1 .. m - 1 :
            f[i] < f[j] \/ (f[i] = f[j] /\ i <= j)
    BY <2>3
  <2>5. CASE f[i] <= f[m]
    <3>1. Has(m)
      BY <2>1, <2>2, <2>4, <2>5
    <3> QED BY <2>1, <3>1
  <2>6. CASE f[m] < f[i]
    <3>1. Has(m)
      BY <2>1, <2>2, <2>4, <2>6
    <3> QED BY <2>1, <3>1
  <2> QED BY <2>5, <2>6, <2>1, <2>4
<1> QED BY <1>1, <1>2

-----------------------------------------------------------------------------
(* Max and Min.                                                            *)

LEMMA MinIs ==
    ASSUME NEW S \in SUBSET Int, NEW x \in S, \A y \in S : x <= y
    PROVE  Min(S) = x
<1> DEFINE P(z) == z \in S /\ \A y \in S : z <= y
<1>1. P(x)
  OBVIOUS
<1>2. ASSUME NEW z \in S, P(z) PROVE z = x
  <2>1. z <= x /\ x <= z /\ x \in Int /\ z \in Int
    BY <1>2
  <2> QED BY <2>1
<1>3. Min(S) \in S /\ P(Min(S))
  <2> HIDE DEF P
  <2>1. Min(S) = CHOOSE z : P(z)
    BY DEF Min, P
  <2> QED BY <1>1, <2>1 DEF P
<1> QED BY <1>2, <1>3

LEMMA MaxIs ==
    ASSUME NEW S \in SUBSET Int, NEW x \in S, \A y \in S : x >= y
    PROVE  Max(S) = x
<1> DEFINE P(z) == z \in S /\ \A y \in S : z >= y
<1>1. P(x)
  OBVIOUS
<1>2. ASSUME NEW z \in S, P(z) PROVE z = x
  <2>1. z <= x /\ x <= z /\ x \in Int /\ z \in Int
    BY <1>2
  <2> QED BY <2>1
<1>3. Max(S) \in S /\ P(Max(S))
  <2> HIDE DEF P
  <2>1. Max(S) = CHOOSE z : P(z)
    BY DEF Max, P
  <2> QED BY <1>1, <2>1 DEF P
<1> QED BY <1>2, <1>3

LEMMA MinPair ==
    ASSUME NEW a \in Int, NEW b \in Int
    PROVE  Min({a, b}) = IF a <= b THEN a ELSE b
<1>1. CASE a <= b
  BY <1>1, MinIs
<1>2. CASE ~(a <= b)
  BY <1>2, MinIs
<1> QED BY <1>1, <1>2

LEMMA MaxPair ==
    ASSUME NEW a \in Int, NEW b \in Int
    PROVE  Max({a, b}) = IF a <= b THEN b ELSE a
<1>1. CASE a <= b
  BY <1>1, MaxIs
<1>2. CASE ~(a <= b)
  BY <1>2, MaxIs
<1> QED BY <1>1, <1>2

LEMMA MinOfNats ==
    ASSUME NEW S \in SUBSET Nat, S # {}
    PROVE  Min(S) \in S /\ \A x \in S : Min(S) <= x
<1>1. PICK n \in S : \A m \in S : n <= m
  BY LeastNat
<1>2. Min(S) = n
  BY <1>1, MinIs, S \in SUBSET Int
<1> QED BY <1>1, <1>2

\* The extremes of the values of a function on 0 .. n - 1.
LEMMA LeastValue ==
    ASSUME NEW n \in Nat \ {0}, NEW f \in [0 .. n - 1 -> Int]
    PROVE  \E c \in 0 .. n - 1 : \A d \in 0 .. n - 1 : f[c] <= f[d]
<1> DEFINE g == [i \in 1 .. n |-> f[i - 1]]
<1>1. \A i \in 1 .. n : g[i] \in Int /\ g[i] = f[i - 1]
  OBVIOUS
<1> HIDE DEF g
<1>2. PICK i \in 1 .. n : \A j \in 1 .. n : g[i] < g[j] \/ (g[i] = g[j] /\ i <= j)
  BY <1>1, FirstLeast
<1>3. \A d \in 0 .. n - 1 : d + 1 \in 1 .. n /\ g[d + 1] = f[d]
  BY <1>1
<1>4. i - 1 \in 0 .. n - 1 /\ g[i] = f[i - 1]
  BY <1>1
<1>5. ASSUME NEW d \in 0 .. n - 1 PROVE f[i - 1] <= f[d]
  <2>1. d + 1 \in 1 .. n /\ g[d + 1] = f[d]
    BY <1>3
  <2>2. g[i] \in Int /\ g[d + 1] \in Int /\ (g[i] < g[d + 1] \/ g[i] = g[d + 1])
    BY <1>1, <1>2, <2>1
  <2> QED BY <2>1, <2>2, <1>4
<1> QED BY <1>4, <1>5

LEMMA GreatestValue ==
    ASSUME NEW n \in Nat \ {0}, NEW f \in [0 .. n - 1 -> Int]
    PROVE  \E c \in 0 .. n - 1 : \A d \in 0 .. n - 1 : f[c] >= f[d]
<1> DEFINE g == [i \in 0 .. n - 1 |-> -f[i]]
<1>1. g \in [0 .. n - 1 -> Int]
  OBVIOUS
<1>2. \A i \in 0 .. n - 1 : g[i] = -f[i]
  OBVIOUS
<1> HIDE DEF g
<1>3. PICK c \in 0 .. n - 1 : \A d \in 0 .. n - 1 : g[c] <= g[d]
  BY <1>1, LeastValue
<1>4. \A d \in 0 .. n - 1 : f[c] >= f[d]
  BY <1>2, <1>3
<1> QED BY <1>4

-----------------------------------------------------------------------------
(* ToSet: the elements of a sequence.                                      *)

LEMMA ToSetType ==
    ASSUME NEW S, NEW s \in Seq(S)
    PROVE  ToSet(s) \subseteq S /\ \A i \in DOMAIN s : s[i] \in ToSet(s)
  BY DEF ToSet

LEMMA ToSetEmpty == ToSet(<<>>) = {}
  BY DEF ToSet

LEMMA ToSetAppend ==
    ASSUME NEW S, NEW s \in Seq(S), NEW e
    PROVE  ToSet(Append(s, e)) = ToSet(s) \cup {e}
<1>1. DOMAIN Append(s, e) = 1 .. Len(s) + 1 /\ DOMAIN s = 1 .. Len(s) /\ Len(s) \in Nat
  OBVIOUS
<1>2. \A i \in 1 .. Len(s) : Append(s, e)[i] = s[i]
  OBVIOUS
<1>3. Append(s, e)[Len(s) + 1] = e
  OBVIOUS
<1>4. \A x \in ToSet(Append(s, e)) : x \in ToSet(s) \cup {e}
  BY <1>1, <1>2, <1>3 DEF ToSet
<1>5. \A x \in ToSet(s) \cup {e} : x \in ToSet(Append(s, e))
  BY <1>1, <1>2, <1>3 DEF ToSet
<1> QED BY <1>4, <1>5

LEMMA ToSetConcat ==
    ASSUME NEW S, NEW s \in Seq(S), NEW t \in Seq(S)
    PROVE  s \o t \in Seq(S) /\ ToSet(s \o t) = ToSet(s) \cup ToSet(t)
<1>1. DOMAIN s = 1 .. Len(s) /\ Len(s) \in Nat /\ DOMAIN t = 1 .. Len(t) /\ Len(t) \in Nat
  OBVIOUS
<1>2. s \o t \in Seq(S) /\ DOMAIN (s \o t) = 1 .. Len(s) + Len(t)
  OBVIOUS
<1>3. \A j \in 1 .. Len(s) : (s \o t)[j] = s[j]
  OBVIOUS
<1>4. \A j \in 1 .. Len(t) : (s \o t)[Len(s) + j] = t[j]
  OBVIOUS
<1>5. \A j \in 1 .. Len(s) + Len(t) :
         j \in 1 .. Len(s) \/ (j - Len(s) \in 1 .. Len(t) /\ j = Len(s) + (j - Len(s)))
  BY <1>1
<1>6. ASSUME NEW j \in 1 .. Len(s) + Len(t) PROVE (s \o t)[j] \in ToSet(s) \cup ToSet(t)
  BY <1>1, <1>3, <1>4, <1>5 DEF ToSet
<1>7. ASSUME NEW x \in ToSet(s) \cup ToSet(t) PROVE x \in ToSet(s \o t)
  <2>1. CASE x \in ToSet(s)
    BY <2>1, <1>1, <1>2, <1>3 DEF ToSet
  <2>2. CASE x \in ToSet(t)
    <3>1. PICK j \in 1 .. Len(t) : x = t[j]
      BY <2>2, <1>1 DEF ToSet
    <3>2. Len(s) + j \in 1 .. Len(s) + Len(t)
      BY <1>1
    <3> QED BY <3>1, <3>2, <1>2, <1>4 DEF ToSet
  <2> QED BY <2>1, <2>2
<1> QED BY <1>2, <1>6, <1>7 DEF ToSet

LEMMA ToSetRemoveAt ==
    ASSUME NEW S, NEW s \in Seq(S), NEW i \in DOMAIN s
    PROVE  RemoveAt(s, i) \in Seq(S) /\ ToSet(RemoveAt(s, i)) \subseteq ToSet(s)
<1> DEFINE a == SubSeq(s, 1, i - 1)
           b == SubSeq(s, i + 1, Len(s))
<1>1. DOMAIN s = 1 .. Len(s) /\ Len(s) \in Nat /\ i \in 1 .. Len(s)
  OBVIOUS
<1>2. a \in Seq(S) /\ Len(a) = i - 1 /\ DOMAIN a = 1 .. i - 1
  BY <1>1
<1>3. b \in Seq(S) /\ Len(b) = Len(s) - i /\ DOMAIN b = 1 .. Len(s) - i
  BY <1>1
<1>4. \A j \in 1 .. i - 1 : a[j] = s[j] /\ j \in DOMAIN s
  BY <1>1
<1>5. \A j \in 1 .. Len(s) - i : b[j] = s[i + j] /\ i + j \in DOMAIN s
  BY <1>1
<1> HIDE DEF a, b
<1>6. ToSet(a) \subseteq ToSet(s) /\ ToSet(b) \subseteq ToSet(s)
  BY <1>2, <1>3, <1>4, <1>5 DEF ToSet
<1>7. RemoveAt(s, i) = a \o b
  BY DEF RemoveAt, a, b
<1> QED BY <1>2, <1>3, <1>6, <1>7, ToSetConcat

=============================================================================
