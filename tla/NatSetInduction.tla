---------------------------- MODULE NatSetInduction ----------------------------
(***************************************************************************)
(* Induction over the naturals stated with a set instead of an operator,   *)
(* so that a proof can cite it for the set of numbers it is about, and what *)
(* follows of the lists that are worked out by recursion.                  *)
(***************************************************************************)
EXTENDS Integers, SequencesExt, Listas, WellFoundedInduction, SequenceTheorems, FiniteSetTheorems, FunctionTheorems, TLAPS

\* A set that contains 0 and is closed under successor contains every natural.
THEOREM InductionOverNat ==
    ASSUME NEW S,
           0 \in S,
           \A n \in Nat : n \in S => n + 1 \in S
    PROVE  Nat \subseteq S
<1> DEFINE T == Nat \ S
           R == OpToRel(<, Nat)
<1>1. SUFFICES ASSUME T # {} PROVE FALSE
  OBVIOUS
<1>2. IsWellFoundedOn(R, Nat)
  BY NatLessThanWellFounded
<1>3. PICK x \in T : \A y \in T : ~ (<<y, x>> \in R)
  <2>1. T \subseteq Nat
    OBVIOUS
  <2> HIDE DEF T, R
  <2>2. QED
    BY <1>1, <1>2, <2>1, WFMin
<1>4. x \in Nat /\ x # 0 /\ x \notin S
  OBVIOUS
<1>5. x - 1 \in Nat /\ (x - 1) + 1 = x
  BY <1>4
<1>6. <<x - 1, x>> \in R
  <2>1. <<x - 1, x>> \in Nat \X Nat
    BY <1>4, <1>5
  <2>2. x - 1 < x
    BY <1>4
  <2>3. QED
    BY <2>1, <2>2 DEF OpToRel
<1>7. x - 1 \in S
  BY <1>3, <1>5, <1>6
<1>8. QED
  BY <1>4, <1>5, <1>7

\* A set of naturals with a member has a least one.
THEOREM LeastOfNaturals ==
    ASSUME NEW S, S \subseteq Nat, S # {}
    PROVE  \E x \in S : \A y \in S : x <= y
<1> DEFINE R == OpToRel(<, Nat)
<1>1. IsWellFoundedOn(R, Nat)
  BY NatLessThanWellFounded
<1>2. PICK x \in S : \A y \in S : ~ (<<y, x>> \in R)
  <2> HIDE DEF R
  <2>1. QED
    BY <1>1, WFMin
<1>3. ASSUME NEW y \in S PROVE x <= y
  <2>1. x \in Nat /\ y \in Nat
    BY <1>3
  <2>2. ~ (y < x)
    <3>1. <<y, x>> \in Nat \X Nat
      BY <2>1
    <3>2. QED
      BY <1>2, <1>3, <3>1 DEF OpToRel
  <2>3. QED
    BY <2>1, <2>2
<1>4. QED
  BY <1>2, <1>3

\* f starts at a and goes on, at i, with the step i of the value before it.
IsRecursion(f, n, A, a, step) ==
    /\ f \in [0..n -> A]
    /\ f[0] = a
    /\ \A i \in 1..n : f[i] = step[i][f[i - 1]]

\* A function can be defined by recursion on 0..n, with steps that stay in A.
THEOREM RecursionOverNat ==
    ASSUME NEW n \in Nat, NEW A, NEW a \in A, NEW step \in [1..n -> [A -> A]]
    PROVE  \E f : IsRecursion(f, n, A, a, step)
<1> DEFINE Rec(m, f) == /\ f \in [0..m -> A]
                        /\ \A i \in 0..m : f[i] = IF i = 0 THEN a ELSE step[i][f[i - 1]]
           S == {m \in Nat : m <= n => \E f : Rec(m, f)}
<1>1. Rec(0, [i \in 0..0 |-> a])
  OBVIOUS
<1>2. ASSUME NEW m \in Nat, m + 1 <= n, NEW f, Rec(m, f)
      PROVE  \E g : Rec(m + 1, g)
  <2> DEFINE g == [i \in 0..(m + 1) |-> IF i = m + 1 THEN step[i][f[m]] ELSE f[i]]
  <2>1. f \in [0..m -> A] /\ \A i \in 0..m : f[i] = IF i = 0 THEN a ELSE step[i][f[i - 1]]
    BY <1>2
  <2> HIDE DEF Rec
  <2>2. f[m] \in A /\ m + 1 \in 1..n /\ m \in 0..m
    BY <1>2, <2>1
  <2>3. step[m + 1][f[m]] \in A
    BY <2>2
  <2>4. \A i \in 0..(m + 1) : i # m + 1 => i \in 0..m
    BY <1>2
  <2>5. g \in [0..(m + 1) -> A]
    BY <2>1, <2>3, <2>4
  <2>6. ASSUME NEW i \in 0..(m + 1) PROVE g[i] = IF i = 0 THEN a ELSE step[i][g[i - 1]]
    <3>1. CASE i = 0
      <4>1. i # m + 1 /\ i \in 0..m
        BY <1>2, <3>1
      <4>2. QED
        BY <2>1, <3>1, <4>1
    <3>2. CASE i = m + 1
      <4>1. i # 0 /\ i - 1 = m /\ m \in 0..(m + 1) /\ m # m + 1
        BY <1>2, <3>2
      <4>2. QED
        BY <3>2, <4>1
    <3>3. CASE i # 0 /\ i # m + 1
      <4>1. i \in 0..m /\ i - 1 \in 0..(m + 1) /\ i - 1 # m + 1
        BY <1>2, <3>3
      <4>2. QED
        BY <2>1, <3>3, <4>1
    <3>4. QED
      BY <3>1, <3>2, <3>3
  <2> HIDE DEF g
  <2>7. QED
    BY <2>5, <2>6 DEF Rec
<1> HIDE DEF Rec
<1>3. 0 \in S
  BY <1>1
<1>4. \A m \in Nat : m \in S => m + 1 \in S
  BY <1>2
<1>5. Nat \subseteq S
  <2> HIDE DEF S
  <2>1. QED
    BY <1>3, <1>4, InductionOverNat
<1>6. PICK f : Rec(n, f)
  BY <1>5
<1>7. f \in [0..n -> A] /\ \A i \in 0..n : f[i] = IF i = 0 THEN a ELSE step[i][f[i - 1]]
  BY <1>6 DEF Rec
<1>8. IsRecursion(f, n, A, a, step)
  BY <1>7 DEF IsRecursion
<1>9. QED
  BY <1>8

\* A bounded set of naturals with a member has a greatest one.
THEOREM GreatestOfNaturals ==
    ASSUME NEW S, S \subseteq Nat, S # {}, NEW n \in Nat, \A x \in S : x <= n
    PROVE  \E x \in S : \A y \in S : y <= x
<1> DEFINE B == {m \in Nat : \A x \in S : x <= m}
<1>1. PICK m \in B : \A k \in B : m <= k
  BY LeastOfNaturals
<1>2. PICK x \in S : ~ (x <= m - 1)
  <2>1. CASE m = 0
    <3>1. PICK x \in S : TRUE
      OBVIOUS
    <3>2. x \in Nat /\ ~ (x <= m - 1)
      BY <2>1, <3>1
    <3>3. QED
      BY <3>2
  <2>2. CASE m # 0
    <3>1. m - 1 \in Nat /\ ~ (m <= m - 1)
      BY <2>2
    <3>2. m - 1 \notin B
      BY <1>1, <3>1
    <3>3. QED
      BY <3>1, <3>2
  <2>3. QED
    BY <2>1, <2>2
<1>3. x = m
  BY <1>2
<1>4. QED
  BY <1>3

\* f and g start alike, and go on alike from what they have alike, up to n.
GoAlike(f, g, n) == f[0] = g[0] /\ \A i \in 1..n : f[i - 1] = g[i - 1] => f[i] = g[i]

\* Two recursions that start alike and go on alike are the same.
THEOREM SameRecursion ==
    ASSUME NEW n \in Nat, NEW f, NEW g, GoAlike(f, g, n)
    PROVE  \A i \in 0..n : f[i] = g[i]
<1> DEFINE S == {i \in Nat : i <= n => f[i] = g[i]}
<1>1. 0 \in S
  BY DEF GoAlike
<1>2. ASSUME NEW i \in Nat, i \in S PROVE i + 1 \in S
  <2>1. SUFFICES ASSUME i + 1 <= n PROVE f[i + 1] = g[i + 1]
    OBVIOUS
  <2>2. i + 1 \in 1..n /\ (i + 1) - 1 = i /\ f[i] = g[i]
    BY <1>2, <2>1
  <2>3. QED
    BY <2>2 DEF GoAlike
<1>3. Nat \subseteq S
  <2> HIDE DEF S
  <2>1. QED
    BY <1>1, <1>2, InductionOverNat
<1>4. QED
  BY <1>3

\* Two functions that start alike and differ at most in their last step give
\* the same before it.
THEOREM SameButLast ==
    ASSUME NEW n \in Nat \ {0}, NEW f, NEW g, f[0] = g[0],
           \A i \in 1..n : i # n /\ f[i - 1] = g[i - 1] => f[i] = g[i]
    PROVE  f[n - 1] = g[n - 1]
<1> DEFINE S == {i \in Nat : i < n => f[i] = g[i]}
<1>1. 0 \in S
  OBVIOUS
<1>2. ASSUME NEW i \in Nat, i \in S PROVE i + 1 \in S
  <2>1. SUFFICES ASSUME i + 1 < n PROVE f[i + 1] = g[i + 1]
    OBVIOUS
  <2>2. i + 1 \in 1..n /\ i + 1 # n /\ (i + 1) - 1 = i /\ f[i] = g[i]
    BY <1>2, <2>1
  <2>3. QED
    BY <2>2
<1>3. Nat \subseteq S
  <2> HIDE DEF S
  <2>1. QED
    BY <1>1, <1>2, InductionOverNat
<1>4. n - 1 \in Nat /\ n - 1 < n
  OBVIOUS
<1>5. QED
  BY <1>3, <1>4

\* f[i] is what Kept keeps of the first i.
Keeps(f, S, s, keep) ==
    /\ f \in [0..Len(s) -> Seq(S \cap keep)] /\ f[0] = <<>>
    /\ \A i \in 1..Len(s) : f[i] = IF s[i] \in keep THEN Append(f[i - 1], s[i]) ELSE f[i - 1]
    /\ Kept(s, keep) = f[Len(s)]

\* Kept is a recursion.
LEMMA KeptGoesOn ==
    ASSUME NEW S, NEW s \in Seq(S), NEW keep
    PROVE  \E f : Keeps(f, S, s, keep)
<1> DEFINE n == Len(s)
           A == Seq(S \cap keep)
           More(x, e) == IF e \in keep THEN Append(x, e) ELSE x
           Body(f) == [i \in 0..n |-> IF i = 0 THEN <<>>
                                      ELSE IF s[i] \in keep THEN Append(f[i - 1], s[i]) ELSE f[i - 1]]
           step == [i \in 1..n |-> [x \in A |-> More(x, s[i])]]
           F == CHOOSE f : f = Body(f)
<1>1. n \in Nat /\ <<>> \in A /\ \A i \in 1..n : s[i] \in S
  OBVIOUS
<1>2. Kept(s, keep) = F[n]
  BY DEF Kept
<1>3. \A i \in 1..n, x \in A : step[i][x] = More(x, s[i])
  OBVIOUS
<1>4. \A i \in 1..n, x \in A : More(x, s[i]) \in A
  BY <1>1, AppendProperties
<1>5. step \in [1..n -> [A -> A]]
  <2> HIDE DEF More, A
  <2>1. QED
    BY <1>4
<1> HIDE DEF n, A, step
<1>6. PICK f : IsRecursion(f, n, A, <<>>, step)
  BY <1>1, <1>5, RecursionOverNat
<1>7. /\ f \in [0..n -> A] /\ f[0] = <<>>
      /\ \A i \in 1..n : i - 1 \in 0..n /\ f[i] = step[i][f[i - 1]]
  BY <1>1, <1>6 DEF IsRecursion
<1>8. \A i \in 1..n : f[i] = IF s[i] \in keep THEN Append(f[i - 1], s[i]) ELSE f[i - 1]
  BY <1>3, <1>7
<1>9. f = Body(f)
  <2>1. \A i \in 0..n : i # 0 => i \in 1..n
    BY <1>1
  <2>2. \A i \in 0..n : f[i] = IF i = 0 THEN <<>>
                               ELSE IF s[i] \in keep THEN Append(f[i - 1], s[i]) ELSE f[i - 1]
    BY <1>7, <1>8, <2>1
  <2>3. f = [i \in 0..n |-> f[i]]
    BY <1>7
  <2>4. QED
    BY <2>2, <2>3
<1>10. F = Body(F)
  <2> HIDE DEF Body
  <2>1. QED
    BY <1>9
<1> HIDE DEF F
<1>11. GoAlike(F, f, n)
  <2>1. \A i \in 0..n : F[i] = IF i = 0 THEN <<>>
                               ELSE IF s[i] \in keep THEN Append(F[i - 1], s[i]) ELSE F[i - 1]
    BY <1>10
  <2>2. 0 \in 0..n /\ \A i \in 1..n : i \in 0..n /\ i # 0
    BY <1>1
  <2>3. QED
    BY <1>7, <1>8, <2>1, <2>2 DEF GoAlike
<1>12. \A i \in 0..n : F[i] = f[i]
  BY <1>1, <1>11, SameRecursion
<1>13. Kept(s, keep) = f[n] /\ f[n] \in A
  BY <1>1, <1>2, <1>7, <1>12
<1>14. QED
  BY <1>7, <1>8, <1>13 DEF Keeps, n, A

\* Kept returns the elements of s that are in keep, and nothing else.
LEMMA KeptIs ==
    ASSUME NEW S, NEW s \in Seq(S), NEW keep
    PROVE  Kept(s, keep) \in Seq(S \cap keep) /\ ToSet(Kept(s, keep)) = ToSet(s) \cap keep
<1> DEFINE n == Len(s)
           A == Seq(S \cap keep)
<1>1. n \in Nat /\ <<>> \in A /\ \A i \in 1..n : s[i] \in S
  OBVIOUS
<1> HIDE DEF n, A
<1>2. PICK f : Keeps(f, S, s, keep)
  BY KeptGoesOn
<1>3. f \in [0..n -> A] /\ f[0] = <<>>
  BY <1>2 DEF Keeps, n, A
<1>4. \A i \in 1..n : f[i] = IF s[i] \in keep THEN Append(f[i - 1], s[i]) ELSE f[i - 1]
  BY <1>2 DEF Keeps, n
<1>5. Kept(s, keep) = f[n] /\ f[n] \in A
  BY <1>1, <1>2, <1>3 DEF Keeps, n
<1> DEFINE Some(i) == \A x : x \in ToSet(f[i]) <=> x \in keep /\ \E j \in 1..i : s[j] = x
           T == {i \in Nat : i <= n => Some(i)}
<1>6. 0 \in T
  <2>1. ToSet(f[0]) = {}
    BY <1>3 DEF ToSet
  <2>2. \A j \in 1..0 : FALSE
    OBVIOUS
  <2>3. QED
    BY <2>1, <2>2
<1>7. ASSUME NEW i \in Nat, i \in T PROVE i + 1 \in T
  <2>1. SUFFICES ASSUME i + 1 <= n PROVE Some(i + 1)
    OBVIOUS
  <2>2. i + 1 \in 1..n /\ (i + 1) - 1 = i /\ i \in 0..n /\ Some(i)
    BY <1>1, <1>7, <2>1
  <2>3. \A j : j \in 1..(i + 1) <=> j \in 1..i \/ j = i + 1
    BY <1>1
  <2>4. f[i] \in Seq(S \cap keep) /\ s[i + 1] \in S
    BY <1>1, <1>3, <2>2 DEF A
  <2>5. CASE s[i + 1] \in keep
    <3>1. f[i + 1] = Append(f[i], s[i + 1])
      BY <1>4, <2>2, <2>5
    <3>2. ToSet(f[i + 1]) = ToSet(f[i]) \cup {s[i + 1]}
      <4> DEFINE t == f[i]
                 e == s[i + 1]
                 u == Append(t, e)
      <4>1. /\ u \in Seq(S \cap keep) /\ Len(u) = Len(t) + 1 /\ u[Len(t) + 1] = e
            /\ \A k \in 1..Len(t) : u[k] = t[k]
        BY <2>4, <2>5, AppendProperties
      <4>2. t \in Seq(S \cap keep) /\ Len(t) \in Nat
        BY <2>4
      <4> HIDE DEF t, e, u
      <4>3. ToSet(u) = ToSet(t) \cup {e}
        <5>1. DOMAIN u = 1..(Len(t) + 1) /\ DOMAIN t = 1..Len(t)
          BY <4>1, <4>2
        <5>2. \A k : k \in 1..(Len(t) + 1) <=> k \in 1..Len(t) \/ k = Len(t) + 1
          BY <4>2
        <5>3. QED
          BY <4>1, <5>1, <5>2 DEF ToSet
      <4>4. QED
        BY <3>1, <4>3 DEF t, e, u
    <3>3. QED
      BY <2>2, <2>3, <2>5, <3>2
  <2>6. CASE s[i + 1] \notin keep
    <3>1. f[i + 1] = f[i]
      BY <1>4, <2>2, <2>6
    <3>2. QED
      BY <2>2, <2>3, <2>6, <3>1
  <2>7. QED
    BY <2>5, <2>6
<1>8. Nat \subseteq T
  <2> HIDE DEF T
  <2>1. QED
    BY <1>6, <1>7, InductionOverNat
<1>9. Some(n)
  BY <1>1, <1>8
<1>10. ToSet(f[n]) = ToSet(s) \cap keep
  <2>1. \A x : x \in ToSet(s) <=> \E j \in 1..n : s[j] = x
    BY DEF ToSet, n
  <2>2. QED
    BY <1>9, <2>1
<1>11. QED
  BY <1>5, <1>10 DEF A

\* A list with nothing twice.
NoRepeats(s) == \A i, j \in DOMAIN s : s[i] = s[j] => i = j

\* It has as many elements as its length says.
LEMMA NoRepeatsCount ==
    ASSUME NEW S, NEW s \in Seq(S), NoRepeats(s)
    PROVE  Cardinality(ToSet(s)) = Len(s)
<1> DEFINE n == Len(s)
           T == ToSet(s)
<1>1. n \in Nat /\ DOMAIN s = 1..n /\ s \in [1..n -> S]
  OBVIOUS
<1>2. T = {s[i] : i \in 1..n}
  BY <1>1 DEF ToSet
<1> HIDE DEF n, T
<1>3. s \in [1..n -> T]
  BY <1>1, <1>2
<1>4. s \in Surjection(1..n, T)
  BY <1>2, <1>3 DEF Surjection
<1>5. s \in Injection(1..n, T)
  BY <1>1, <1>3, Fun_IsInj DEF NoRepeats
<1>6. IsFiniteSet(1..n) /\ Cardinality(1..n) = n
  <2>1. IsFiniteSet(1..n) /\ Cardinality(1..n) = IF 1 > n THEN 0 ELSE n - 1 + 1
    BY <1>1, FS_Interval
  <2>2. QED
    BY <1>1, <2>1
<1>7. Cardinality(T) = Cardinality(1..n)
  BY <1>4, <1>5, <1>6, FS_Surjection
<1>8. QED
  BY <1>6, <1>7 DEF n, T

\* One more, when it was not there, and the elements then.
LEMMA NoRepeatsMore ==
    ASSUME NEW S, NEW s \in Seq(S), NEW e \in S
    PROVE  /\ ToSet(Append(s, e)) = ToSet(s) \cup {e}
           /\ NoRepeats(s) /\ e \notin ToSet(s) => NoRepeats(Append(s, e))
<1> DEFINE n == Len(s)
           u == Append(s, e)
<1>1. n \in Nat /\ DOMAIN s = 1..n
  OBVIOUS
<1>2. u \in Seq(S) /\ Len(u) = n + 1 /\ u[n + 1] = e /\ \A k \in 1..n : u[k] = s[k]
  BY AppendProperties
<1> HIDE DEF u
<1>3. DOMAIN u = 1..n + 1
  BY <1>2
<1> HIDE DEF n
<1>4. \A k : k \in 1..n + 1 <=> k \in 1..n \/ k = n + 1
  BY <1>1
<1>5. ToSet(u) = ToSet(s) \cup {e}
  BY <1>1, <1>2, <1>3, <1>4 DEF ToSet
<1>6. ASSUME NoRepeats(s), e \notin ToSet(s) PROVE NoRepeats(u)
  <2>1. \A k \in 1..n : u[k] # e
    BY <1>1, <1>2, <1>6 DEF ToSet
  <2>2. \A i, j \in 1..n : u[i] = u[j] => i = j
    BY <1>1, <1>2, <1>6 DEF NoRepeats
  <2>3. QED
    BY <1>2, <1>3, <1>4, <2>1, <2>2 DEF NoRepeats
<1>7. QED
  BY <1>5, <1>6 DEF u

\* Two such lists, one after the other, when they share nothing.
LEMMA NoRepeatsConcat ==
    ASSUME NEW S, NEW a \in Seq(S), NEW b \in Seq(S), NoRepeats(a), NoRepeats(b), ToSet(a) \cap ToSet(b) = {}
    PROVE  NoRepeats(a \o b)
<1> DEFINE c == a \o b
           m == Len(a)
           n == Len(b)
<1>1. /\ c \in Seq(S) /\ Len(c) = m + n /\ m \in Nat /\ n \in Nat
      /\ \A i \in 1..m + n : c[i] = IF i <= m THEN a[i] ELSE b[i - m]
  BY ConcatProperties
<1> HIDE DEF c
<1>2. DOMAIN c = 1..m + n /\ DOMAIN a = 1..m /\ DOMAIN b = 1..n
  BY <1>1
<1> HIDE DEF m, n
<1>3. \A i \in 1..m, j \in 1..n : a[i] # b[j]
  BY <1>2 DEF ToSet
<1>4. ASSUME NEW i \in 1..m + n, NEW j \in 1..m + n, c[i] = c[j] PROVE i = j
  <2>1. \A k \in 1..m + n : (k <= m => k \in 1..m) /\ (~(k <= m) => k - m \in 1..n)
    BY <1>1
  <2>2. CASE i <= m /\ j <= m
    BY <1>1, <1>2, <1>4, <2>1, <2>2 DEF NoRepeats
  <2>3. CASE ~(i <= m) /\ ~(j <= m)
    <3>1. b[i - m] = b[j - m] /\ i - m \in 1..n /\ j - m \in 1..n
      BY <1>1, <1>4, <2>1, <2>3
    <3>2. i - m = j - m
      BY <1>2, <3>1 DEF NoRepeats
    <3>3. QED
      BY <1>1, <3>2
  <2>4. QED
    BY <1>1, <1>3, <1>4, <2>1, <2>2, <2>3
<1>5. QED
  BY <1>2, <1>4 DEF NoRepeats, c

\* Kept repeats nothing that was not repeated.
LEMMA NoRepeatsKept ==
    ASSUME NEW S, NEW s \in Seq(S), NEW keep, NoRepeats(s)
    PROVE  NoRepeats(Kept(s, keep))
<1> DEFINE n == Len(s)
           A == Seq(S \cap keep)
<1>1. n \in Nat /\ DOMAIN s = 1..n /\ \A i \in 1..n : s[i] \in S
  OBVIOUS
<1> HIDE DEF n, A
<1>2. PICK f : Keeps(f, S, s, keep)
  BY KeptGoesOn
<1>3. /\ f \in [0..n -> A] /\ f[0] = <<>> /\ Kept(s, keep) = f[n]
      /\ \A i \in 1..n : f[i] = IF s[i] \in keep THEN Append(f[i - 1], s[i]) ELSE f[i - 1]
  BY <1>2 DEF Keeps, n, A
<1> DEFINE Good(i) == NoRepeats(f[i]) /\ \A x \in ToSet(f[i]) : \E j \in 1..i : s[j] = x
           T == {i \in Nat : i <= n => Good(i)}
<1>4. 0 \in T
  <2>1. ToSet(f[0]) = {} /\ NoRepeats(f[0])
    BY <1>3 DEF ToSet, NoRepeats
  <2>2. QED
    BY <2>1
<1>5. ASSUME NEW i \in Nat, i \in T PROVE i + 1 \in T
  <2>1. SUFFICES ASSUME i + 1 <= n PROVE Good(i + 1)
    OBVIOUS
  <2>2. i + 1 \in 1..n /\ (i + 1) - 1 = i /\ i \in 0..n /\ Good(i)
    BY <1>1, <1>5, <2>1
  <2>3. \A j : j \in 1..(i + 1) <=> j \in 1..i \/ j = i + 1
    BY <1>1
  <2>4. f[i] \in Seq(S \cap keep)
    BY <1>3, <2>2 DEF A
  <2>5. CASE s[i + 1] \in keep
    <3>1. f[i + 1] = Append(f[i], s[i + 1])
      BY <1>3, <2>2, <2>5
    <3>2. s[i + 1] \in S \cap keep
      BY <1>1, <2>2, <2>5
    <3>3. s[i + 1] \notin ToSet(f[i])
      <4>1. \A j \in 1..i : j \in 1..n /\ j # i + 1
        BY <1>1, <2>2
      <4>2. QED
        BY <1>1, <2>2, <4>1 DEF NoRepeats
    <3>4. NoRepeats(f[i + 1]) /\ ToSet(f[i + 1]) = ToSet(f[i]) \cup {s[i + 1]}
      BY <2>2, <2>4, <3>1, <3>2, <3>3, NoRepeatsMore
    <3>5. QED
      BY <2>2, <2>3, <3>4
  <2>6. CASE s[i + 1] \notin keep
    <3>1. f[i + 1] = f[i]
      BY <1>3, <2>2, <2>6
    <3>2. QED
      BY <2>2, <2>3, <3>1
  <2>7. QED
    BY <2>5, <2>6
<1>6. Nat \subseteq T
  <2> HIDE DEF T
  <2>1. QED
    BY <1>4, <1>5, InductionOverNat
<1>7. QED
  BY <1>1, <1>3, <1>6

\* The i-th of S in the order R, for every i.
TieneOrden(S, R) ==
    \A i \in 1..Cardinality(S) : \E x \in S : Cardinality({y \in S : <<y, x>> \in R}) = i - 1

\* A finite set with an order, as pairs, has its i-th element for every i.
LEMMA PorOrden ==
    ASSUME NEW S, IsFiniteSet(S), NEW R,
           \A a, b, c \in S : <<a, b>> \in R /\ <<b, c>> \in R => <<a, c>> \in R,
           \A a \in S : <<a, a>> \notin R,
           \A a, b \in S : a # b => <<a, b>> \in R \/ <<b, a>> \in R
    PROVE  TieneOrden(S, R)
<1> DEFINE n == Cardinality(S)
           antes(x) == {y \in S : <<y, x>> \in R}
           lugar == [x \in S |-> Cardinality(antes(x)) + 1]
<1>1. n \in Nat
  BY FS_CardinalityType
<1>2. \A x \in S : /\ IsFiniteSet(antes(x)) /\ Cardinality(antes(x)) \in Nat
                   /\ Cardinality(antes(x)) < n
  <2>1. TAKE x \in S
  <2>2. antes(x) \in SUBSET S /\ antes(x) # S
    OBVIOUS
  <2>3. /\ IsFiniteSet(antes(x))
        /\ Cardinality(antes(x)) <= Cardinality(S)
        /\ Cardinality(S) = Cardinality(antes(x)) => S = antes(x)
    <3> HIDE DEF antes
    <3>1. QED
      BY <2>2, FS_Subset
  <2>4. Cardinality(antes(x)) \in Nat
    <3> HIDE DEF antes
    <3>1. QED
      BY <2>3, FS_CardinalityType
  <2>5. QED
    BY <1>1, <2>2, <2>3, <2>4
<1>3. \A a, b \in S : <<a, b>> \in R => Cardinality(antes(a)) < Cardinality(antes(b))
  <2>1. SUFFICES ASSUME NEW a \in S, NEW b \in S, <<a, b>> \in R
                 PROVE  Cardinality(antes(a)) < Cardinality(antes(b))
    OBVIOUS
  <2>2. antes(a) \in SUBSET antes(b) /\ antes(a) # antes(b)
    <3>1. a \in antes(b) /\ a \notin antes(a)
      BY <2>1
    <3>2. \A y \in antes(a) : y \in antes(b)
      BY <2>1
    <3>3. QED
      BY <3>1, <3>2
  <2>3. QED
    <3> HIDE DEF antes
    <3>1. /\ Cardinality(antes(a)) <= Cardinality(antes(b))
          /\ Cardinality(antes(b)) = Cardinality(antes(a)) => antes(b) = antes(a)
      BY <1>2, <2>2, FS_Subset
    <3>2. QED
      BY <1>2, <2>2, <3>1
<1>4. lugar \in [S -> 1..n]
  <2> HIDE DEF antes
  <2>1. QED
    BY <1>1, <1>2
<1>5. \A a, b \in S : lugar[a] = lugar[b] => a = b
  <2>1. SUFFICES ASSUME NEW a \in S, NEW b \in S, lugar[a] = lugar[b], a # b PROVE FALSE
    OBVIOUS
  <2> HIDE DEF antes
  <2>2. Cardinality(antes(a)) = Cardinality(antes(b))
    BY <1>2, <2>1
  <2>3. <<a, b>> \in R \/ <<b, a>> \in R
    BY <2>1
  <2>4. Cardinality(antes(a)) < Cardinality(antes(b)) \/ Cardinality(antes(b)) < Cardinality(antes(a))
    BY <1>3, <2>3
  <2>5. QED
    BY <1>2, <2>2, <2>4
<1>6. lugar \in Injection(S, 1..n)
  <2> HIDE DEF lugar
  <2>1. QED
    BY <1>4, <1>5, Fun_IsInj
<1>7. IsFiniteSet(1..n) /\ Cardinality(1..n) = n
  <2>1. IsFiniteSet(1..n) /\ Cardinality(1..n) = IF 1 > n THEN 0 ELSE n - 1 + 1
    BY <1>1, FS_Interval
  <2>2. QED
    BY <1>1, <2>1
<1>8. lugar \in Surjection(S, 1..n)
  <2> HIDE DEF lugar
  <2>1. QED
    BY <1>6, <1>7, FS_Injection
<1>9. \A i \in 1..n : \E x \in S : lugar[x] = i
  <2> HIDE DEF lugar
  <2>1. QED
    BY <1>8, Fun_SurjectionProperties
<1>10. \A x \in S, i \in 1..n : lugar[x] = i => Cardinality(antes(x)) = i - 1
  <2> HIDE DEF antes
  <2>1. QED
    BY <1>1, <1>2
<1>11. \A i \in 1..n : \E x \in S : Cardinality(antes(x)) = i - 1
  <2> HIDE DEF lugar, antes
  <2>1. QED
    BY <1>9, <1>10
<1>12. QED
  BY <1>11 DEF TieneOrden

\* The i-th of S by its distance d, and by its number on a draw, for every i.
HayPuesto(S, d) ==
    \A i \in 1..Cardinality(S) :
       \E x \in S : Cardinality({y \in S : d[y] < d[x] \/ (d[y] = d[x] /\ y < x)}) = i - 1

\* So it has when the order is a distance, and the number on a draw.
LEMMA PorDistancia ==
    ASSUME NEW S, IsFiniteSet(S), S \subseteq Int, NEW d \in [S -> Int]
    PROVE  HayPuesto(S, d)
<1> DEFINE R == {p \in S \X S : d[p[1]] < d[p[2]] \/ (d[p[1]] = d[p[2]] /\ p[1] < p[2])}
<1>1. \A a, b \in S : <<a, b>> \in R <=> d[a] < d[b] \/ (d[a] = d[b] /\ a < b)
  OBVIOUS
<1>2. \A a \in S : a \in Int /\ d[a] \in Int
  OBVIOUS
<1> HIDE DEF R
<1>3. \A x \in S : {y \in S : d[y] < d[x] \/ (d[y] = d[x] /\ y < x)} = {y \in S : <<y, x>> \in R}
  BY <1>1
<1>4. \A a, b, c \in S : <<a, b>> \in R /\ <<b, c>> \in R => <<a, c>> \in R
  BY <1>1, <1>2
<1>5. \A a \in S : <<a, a>> \notin R
  BY <1>1, <1>2
<1>6. \A a, b \in S : a # b => <<a, b>> \in R \/ <<b, a>> \in R
  <2>1. TAKE a \in S, b \in S
  <2>2. (a < b \/ b < a \/ a = b) /\ (d[a] < d[b] \/ d[b] < d[a] \/ d[a] = d[b])
    BY <1>2
  <2>3. QED
    BY <1>1, <2>2
<1>7. TieneOrden(S, R)
  BY <1>4, <1>5, <1>6, PorOrden
<1>8. QED
  BY <1>3, <1>7 DEF HayPuesto, TieneOrden

\* At each place of the list o is the member of S with that many before it.
PorSuOrden(o, S, R) ==
    /\ o \in [1..Cardinality(S) -> S]
    /\ \A i \in 1..Cardinality(S) : Cardinality({y \in S : <<y, o[i]>> \in R}) = i - 1

\* Such a list has every member of S, once.
LEMMA EnSuPuesto ==
    ASSUME NEW S, IsFiniteSet(S), NEW R, NEW o, PorSuOrden(o, S, R)
    PROVE  /\ \A i, j \in 1..Cardinality(S) : o[i] = o[j] => i = j
           /\ \A x \in S : \E i \in 1..Cardinality(S) : o[i] = x
<1> DEFINE n == Cardinality(S)
           antes(x) == Cardinality({y \in S : <<y, x>> \in R})
<1>1. n \in Nat
  BY FS_CardinalityType
<1>2. o \in [1..n -> S] /\ \A i \in 1..n : antes(o[i]) = i - 1
  BY DEF PorSuOrden
<1>3. \A i, j \in 1..n : o[i] = o[j] => i = j
  <2> HIDE DEF antes
  <2>1. TAKE i \in 1..n, j \in 1..n
  <2>2. HAVE o[i] = o[j]
  <2>3. i - 1 = j - 1
    BY <1>2, <2>2
  <2>4. QED
    BY <1>1, <2>3
<1>4. o \in Injection(1..n, S)
  BY <1>2, <1>3, Fun_IsInj
<1>5. IsFiniteSet(1..n) /\ Cardinality(1..n) = n
  <2>1. IsFiniteSet(1..n) /\ Cardinality(1..n) = IF 1 > n THEN 0 ELSE n - 1 + 1
    BY <1>1, FS_Interval
  <2>2. QED
    BY <1>1, <2>1
<1>6. o \in Surjection(1..n, S)
  BY <1>4, <1>5, FS_Injection
<1>7. \A x \in S : \E i \in 1..n : o[i] = x
  BY <1>6 DEF Surjection
<1>8. QED
  BY <1>3, <1>7

\* The elements of two lists one after the other.
LEMMA ToSetConcat ==
    ASSUME NEW S, NEW a \in Seq(S), NEW b \in Seq(S)
    PROVE  a \o b \in Seq(S) /\ ToSet(a \o b) = ToSet(a) \cup ToSet(b)
<1> DEFINE c == a \o b
           m == Len(a)
           n == Len(b)
<1>1. /\ c \in Seq(S) /\ Len(c) = m + n /\ m \in Nat /\ n \in Nat
      /\ \A i \in 1..m + n : c[i] = IF i <= m THEN a[i] ELSE b[i - m]
  BY ConcatProperties
<1> HIDE DEF c
<1>2. DOMAIN c = 1..m + n /\ DOMAIN a = 1..m /\ DOMAIN b = 1..n
  BY <1>1
<1> HIDE DEF m, n
<1>3. ToSet(c) \subseteq ToSet(a) \cup ToSet(b)
  <2>1. SUFFICES ASSUME NEW i \in 1..m + n PROVE c[i] \in ToSet(a) \cup ToSet(b)
    BY <1>2 DEF ToSet
  <2>2. i <= m => i \in 1..m
    BY <1>1
  <2>3. ~ (i <= m) => i - m \in 1..n
    BY <1>1
  <2>4. QED
    BY <1>1, <1>2, <2>2, <2>3 DEF ToSet
<1>4. ToSet(a) \subseteq ToSet(c)
  <2>1. SUFFICES ASSUME NEW i \in 1..m PROVE a[i] \in ToSet(c)
    BY <1>2 DEF ToSet
  <2>2. i \in 1..m + n /\ c[i] = a[i]
    BY <1>1
  <2>3. QED
    BY <1>2, <2>2 DEF ToSet
<1>5. ToSet(b) \subseteq ToSet(c)
  <2>1. SUFFICES ASSUME NEW i \in 1..n PROVE b[i] \in ToSet(c)
    BY <1>2 DEF ToSet
  <2>2. m + i \in 1..m + n /\ ~ (m + i <= m) /\ (m + i) - m = i
    BY <1>1
  <2>3. c[m + i] = b[i]
    BY <1>1, <2>2
  <2>4. QED
    BY <1>2, <2>2, <2>3 DEF ToSet
<1>6. QED
  BY <1>1, <1>3, <1>4, <1>5 DEF c
===============================================================================
