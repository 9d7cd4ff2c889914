---------------------------- MODULE OrderLemmas ----------------------------
(***************************************************************************)
(* Facts about numbers and queues that the proofs of several components    *)
(* need.                                                                   *)
(***************************************************************************)
EXTENDS Integers, Sequences, FiniteSetTheorems, WellFoundedInduction, TLAPS

\* The least element of a nonempty set of natural numbers.
LEMMA Least ==
  ASSUME NEW T \in SUBSET Nat, T # {}
  PROVE  \E x \in T : \A y \in T : x <= y
<1> DEFINE Below(x) == T \cap (0 .. x)
           Family == {Below(x) : x \in T}
<1>1. Family \subseteq FiniteSubsetsOf(Nat)
  <2> SUFFICES ASSUME NEW x \in T PROVE Below(x) \in SUBSET Nat /\ IsFiniteSet(Below(x))
    BY DEF FiniteSubsetsOf
  <2>1. IsFiniteSet(0 .. x)
    BY FS_Interval
  <2> QED
    BY <2>1, FS_Subset
<1>2. PICK B \in Family : \A C \in Family : <<C, B>> \notin StrictSubsetOrdering(Nat)
  <2>1. Family # {}
    OBVIOUS
  <2> QED
    BY <1>1, <2>1, WFMin, FS_StrictSubsetOrderingWellFounded
<1>3. PICK x \in T : B = Below(x)
  OBVIOUS
<1>4. ASSUME NEW y \in T, y < x PROVE FALSE
  <2>0. x \in Nat /\ y \in Nat
    OBVIOUS
  <2>1. /\ Below(y) \in Family
        /\ Below(y) \subseteq Below(x)
        /\ x \in Below(x) /\ x \notin Below(y)
    BY <1>4, <2>0
  <2>2. <<Below(y), Below(x)>> \in StrictSubsetOrdering(Nat)
    BY <2>1 DEF StrictSubsetOrdering
  <2> QED
    BY <1>2, <1>3, <2>1, <2>2
<1> QED
  BY <1>4

\* Two numbers less than D apart have different remainders modulo D: entries of a
\* ring of D slots do not meet.
LEMMA ResiduesApart ==
  ASSUME NEW D \in Nat \ {0}, NEW c \in Int, NEW d \in Int, c < d, d - c < D
  PROVE  c % D # d % D
<1>1. ASSUME NEW x \in Int PROVE \E m \in Int : x = D * m + (x % D)
  <2>1. x = D * (x \div D) + (x % D) /\ x \div D \in Int
    OBVIOUS
  <2> QED
    BY <2>1
<1>a. PICK m \in Int, n \in Int : c = D * m + (c % D) /\ d = D * n + (d % D)
  BY <1>1
<1> SUFFICES ASSUME c % D = d % D PROVE FALSE
  OBVIOUS
<1>2. PICK j \in Int : j = n - m
  OBVIOUS
<1>3. d - c = D * j
  BY <1>a, <1>2
<1>4. 0 < D * j /\ D * j < D
  BY <1>3
<1> QED
  BY <1>4

Elements(s) == {s[k] : k \in DOMAIN s}

Distinct(s) == \A k, l \in DOMAIN s : s[k] = s[l] => k = l

\* A queue after a push, and after a pop.
LEMMA Pushed ==
  ASSUME NEW S, NEW s \in Seq(S), NEW x
  PROVE  /\ Elements(Append(s, x)) = Elements(s) \cup {x}
         /\ Distinct(s) /\ x \notin Elements(s) => Distinct(Append(s, x))
<1> DEFINE t == Append(s, x)
           n == Len(s)
<1>1. n \in Nat /\ DOMAIN s = 1 .. n /\ DOMAIN t = 1 .. n + 1
      /\ t[n + 1] = x /\ \A k \in 1 .. n : t[k] = s[k]
  OBVIOUS
<1> HIDE DEF t, n
<1>2. 1 .. n + 1 = (1 .. n) \cup {n + 1}
  BY <1>1
<1>3. Elements(t) = Elements(s) \cup {x}
  BY <1>1, <1>2 DEF Elements
<1>4. ASSUME Distinct(s), x \notin Elements(s) PROVE Distinct(t)
  <2>1. \A k \in 1 .. n : s[k] # x
    BY <1>1, <1>4 DEF Elements
  <2> QED
    BY <1>1, <1>2, <1>4, <2>1 DEF Distinct
<1> QED
  BY <1>3, <1>4 DEF t

LEMMA Popped ==
  ASSUME NEW S, NEW s \in Seq(S), s # <<>>
  PROVE  /\ Tail(s) \in Seq(S) /\ Head(s) \in Elements(s)
         /\ Elements(s) = Elements(Tail(s)) \cup {Head(s)}
         /\ Distinct(s) => Distinct(Tail(s)) /\ Head(s) \notin Elements(Tail(s))
<1> DEFINE t == Tail(s)
           n == Len(s)
<1>1. /\ n \in Nat /\ n >= 1 /\ DOMAIN s = 1 .. n /\ DOMAIN t = 1 .. n - 1
      /\ Head(s) = s[1] /\ \A k \in 1 .. n - 1 : t[k] = s[k + 1]
      /\ t \in Seq(S)
  OBVIOUS
<1> HIDE DEF t, n
<1>2. \A k \in 1 .. n : k # 1 => \E l \in 1 .. n - 1 : t[l] = s[k]
  <2> SUFFICES ASSUME NEW k \in 1 .. n, k # 1 PROVE \E l \in 1 .. n - 1 : t[l] = s[k]
    OBVIOUS
  <2>1. k - 1 \in 1 .. n - 1 /\ (k - 1) + 1 = k
    BY <1>1
  <2> QED
    BY <1>1, <2>1
<1>3. 1 \in 1 .. n /\ \A k \in 1 .. n - 1 : k + 1 \in 1 .. n /\ k + 1 # 1
  BY <1>1
<1>4. Elements(s) = Elements(t) \cup {Head(s)} /\ Head(s) \in Elements(s)
  <2>1. Elements(t) \subseteq Elements(s) /\ Head(s) \in Elements(s)
    BY <1>1, <1>3 DEF Elements
  <2>2. Elements(s) \subseteq Elements(t) \cup {Head(s)}
    <3> SUFFICES ASSUME NEW x \in Elements(s), x # Head(s) PROVE x \in Elements(t)
      OBVIOUS
    <3>1. PICK k \in 1 .. n : x = s[k]
      BY <1>1 DEF Elements
    <3>2. PICK l \in 1 .. n - 1 : t[l] = s[k]
      BY <1>1, <1>2, <3>1
    <3> QED
      BY <3>1, <3>2, <1>1 DEF Elements
  <2> QED
    BY <2>1, <2>2
<1>5. ASSUME Distinct(s) PROVE Distinct(t) /\ Head(s) \notin Elements(t)
  <2>1. \A k, l \in 1 .. n - 1 : k + 1 = l + 1 => k = l
    BY <1>1
  <2>2. Distinct(t)
    BY <1>1, <1>3, <1>5, <2>1, SMTT(30) DEF Distinct
  <2>3. \A k \in 1 .. n - 1 : t[k] # s[1]
    BY <1>1, <1>3, <1>5 DEF Distinct
  <2> QED
    BY <1>1, <2>2, <2>3 DEF Elements
<1> QED
  BY <1>1, <1>4, <1>5 DEF t
==============================================================================
