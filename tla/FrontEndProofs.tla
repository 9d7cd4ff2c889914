---------------------------- MODULE FrontEndProofs ----------------------------
(***************************************************************************)
(* What safe_open.__init__ works out, for all arguments: a backend the     *)
(* system has, positive I/O parameters, and a device buffer that holds     *)
(* every tensor.                                                           *)
(***************************************************************************)
EXTENDS FrontEnd, OrderLemmas

\* The least and the greatest element of a set.
LEMMA MinIsLeast ==
  ASSUME NEW T \in SUBSET Nat, T # {}
  PROVE  Min(T) \in T /\ \A x \in T : Min(T) <= x
BY Least DEF Min

\* The elements of a finite sequence of numbers have a greatest.
LEMMA Greatest ==
  ASSUME NEW s \in Seq(Nat), s # <<>>
  PROVE  /\ Max({s[i] : i \in DOMAIN s}) \in {s[i] : i \in DOMAIN s}
         /\ Max({s[i] : i \in DOMAIN s}) \in Nat
         /\ \A j \in DOMAIN s : s[j] <= Max({s[i] : i \in DOMAIN s})
<1> DEFINE T == {s[i] : i \in DOMAIN s}
           n == Len(s)
           Largest(i, k) == \A j \in 1 .. k : s[j] <= s[i]
<1>1. n \in Nat /\ n >= 1 /\ DOMAIN s = 1 .. n /\ \A i \in 1 .. n : s[i] \in Nat
  OBVIOUS
<1> HIDE DEF n
<1>2. \A k \in 1 .. n : \E i \in 1 .. k : Largest(i, k)
  <2> DEFINE Bad == {k \in 1 .. n : ~\E i \in 1 .. k : Largest(i, k)}
  <2> SUFFICES ASSUME Bad # {} PROVE FALSE
    OBVIOUS
  <2>1. Bad \in SUBSET Nat
    BY <1>1
  <2>2. PICK k \in Bad : \A l \in Bad : k <= l
    BY <2>1, Least
  <2>3. k \in 1 .. n /\ k \in Nat /\ \A i \in 1 .. k : ~Largest(i, k)
    <3> HIDE DEF Largest
    <3>1. k \in 1 .. n /\ ~\E i \in 1 .. k : Largest(i, k)
      OBVIOUS
    <3> QED
      BY <1>1, <3>1
  <2> HIDE DEF Bad
  <2>4. k # 1
    <3> SUFFICES ASSUME k = 1 PROVE FALSE
      OBVIOUS
    <3>1. 1 .. k = {1}
      BY <1>1
    <3> QED
      BY <1>1, <2>3, <3>1
  <2>5. k - 1 \in 1 .. n /\ ~(k <= k - 1)
    BY <1>1, <2>3, <2>4
  <2>6. PICK m \in 1 .. k - 1 : Largest(m, k - 1)
    <3>1. k - 1 \notin Bad
      BY <2>2, <2>5
    <3> QED
      BY <2>5, <3>1 DEF Bad
  <2>7. m \in 1 .. n /\ m \in 1 .. k /\ k \in 1 .. k /\ 1 .. k = (1 .. k - 1) \cup {k}
    BY <1>1, <2>3, <2>4
  <2>8. CASE s[k] <= s[m]
    <3>1. Largest(m, k)
      BY <2>6, <2>7, <2>8
    <3> QED
      BY <2>3, <2>7, <3>1
  <2>9. CASE s[m] <= s[k]
    <3>1. s[m] \in Nat /\ s[k] \in Nat /\ \A j \in 1 .. k - 1 : s[j] \in Nat
      BY <1>1, <2>3, <2>7
    <3>2. \A j \in 1 .. k - 1 : s[j] <= s[k]
      <4> SUFFICES ASSUME NEW j \in 1 .. k - 1 PROVE s[j] <= s[k]
        OBVIOUS
      <4>1. s[j] \in Nat /\ s[j] <= s[m]
        BY <2>6, <3>1
      <4> QED
        BY <2>9, <3>1, <4>1
    <3>3. Largest(k, k)
      <4> SUFFICES ASSUME NEW j \in 1 .. k PROVE s[j] <= s[k]
        OBVIOUS
      <4>1. j = k \/ j \in 1 .. k - 1
        BY <2>3
      <4> QED
        BY <3>1, <3>2, <4>1
    <3> QED
      BY <2>3, <2>7, <3>3
  <2>10. s[m] \in Nat /\ s[k] \in Nat
    BY <1>1, <2>3, <2>7
  <2>11. s[k] <= s[m] \/ s[m] <= s[k]
    BY <2>10
  <2> QED
    BY <2>8, <2>9, <2>11
<1>3. PICK i \in 1 .. n : Largest(i, n)
  <2>1. n \in 1 .. n
    BY <1>1
  <2> QED
    BY <1>2, <2>1
<1>4. s[i] \in T /\ \A y \in T : s[i] >= y
  BY <1>1, <1>3
<1>5. Max(T) \in T /\ \A y \in T : Max(T) >= y
  BY <1>4, Zenon DEF Max
<1>6. T \subseteq Nat
  BY <1>1
<1> QED
  BY <1>5, <1>6, <1>1
-----------------------------------------------------------------------------
(* Sums.                                                                   *)

\* A sum of natural numbers exists, is one, and no summand exceeds it.
LEMMA SumFacts ==
  ASSUME NEW sizes \in Seq(Nat), NEW S
  PROVE  /\ SumOf(sizes, S) \in Nat
         /\ \A i \in DOMAIN sizes \cap S : sizes[i] <= SumOf(sizes, S)
<1> DEFINE n == Len(sizes)
           part(i) == IF i \in S THEN sizes[i] ELSE 0
           IsSum(f, k) == f = [i \in 0 .. k |-> IF i = 0 THEN 0 ELSE f[i - 1] + part(i)]
           sum == CHOOSE f : IsSum(f, n)
<1>1. n \in Nat /\ DOMAIN sizes = 1 .. n /\ \A i \in 1 .. n : part(i) \in Nat
  OBVIOUS
<1>2. SumOf(sizes, S) = sum[n]
  BY DEF SumOf
<1>3. \A i \in 1 .. n : i \in S => part(i) = sizes[i]
  OBVIOUS
<1> HIDE DEF n, part
<1>4. \A k \in 0 .. n : \E f : IsSum(f, k)
  <2> DEFINE Bad == {k \in 0 .. n : ~\E f : IsSum(f, k)}
  <2> SUFFICES ASSUME Bad # {} PROVE FALSE
    OBVIOUS
  <2>1. PICK k \in Bad : \A l \in Bad : k <= l
    <3>1. Bad \in SUBSET Nat
      BY <1>1
    <3> QED
      BY <3>1, Least
  <2>2. k \in 0 .. n /\ k \in Int
    BY <1>1
  <2>3. k # 0
    <3> SUFFICES ASSUME k = 0 PROVE FALSE
      OBVIOUS
    <3> DEFINE g == [i \in 0 .. 0 |-> 0]
    <3>1. g = [i \in 0 .. 0 |-> IF i = 0 THEN 0 ELSE g[i - 1] + part(i)]
      OBVIOUS
    <3> QED
      BY <3>1
  <2>4. k - 1 \in 0 .. n /\ ~(k <= k - 1)
    BY <1>1, <2>2, <2>3
  <2>5. PICK f : IsSum(f, k - 1)
    BY <2>1, <2>4
  <2> DEFINE g == [i \in 0 .. k |-> IF i = k THEN f[k - 1] + part(k) ELSE f[i]]
  <2>6. \A i \in 0 .. k : i # k => i \in 0 .. k - 1 /\ (i # 0 => i - 1 \in 0 .. k /\ i - 1 # k)
    BY <2>2, <2>3
  <2>7. k - 1 \in 0 .. k /\ k - 1 # k
    BY <2>2, <2>3
  <2>8. \A i \in 0 .. k : g[i] = IF i = 0 THEN 0 ELSE g[i - 1] + part(i)
    <3> SUFFICES ASSUME NEW i \in 0 .. k PROVE g[i] = IF i = 0 THEN 0 ELSE g[i - 1] + part(i)
      OBVIOUS
    <3>1. CASE i = k
      BY <2>3, <2>7, <3>1
    <3>2. CASE i # k
      <4>1. g[i] = f[i] /\ i \in 0 .. k - 1
        BY <2>6, <3>2
      <4>2. f[i] = IF i = 0 THEN 0 ELSE f[i - 1] + part(i)
        BY <2>5, <4>1
      <4>3. i # 0 => g[i - 1] = f[i - 1]
        BY <2>6, <3>2
      <4> QED
        BY <4>1, <4>2, <4>3
    <3> QED
      BY <3>1, <3>2
  <2>9. IsSum(g, k)
    <3> DEFINE h == [i \in 0 .. k |-> IF i = 0 THEN 0 ELSE g[i - 1] + part(i)]
    <3>1. \A i \in 0 .. k : g[i] = h[i]
      BY <2>8
    <3> HIDE DEF h
    <3>2. g = h
      BY <3>1 DEF h
    <3> QED
      BY <3>2 DEF h
  <2> QED
    BY <2>9
<1>5. IsSum(sum, n)
  <2>1. \E f : IsSum(f, n)
    <3>1. n \in 0 .. n
      BY <1>1
    <3> QED
      BY <1>4, <3>1
  <2> QED
    BY <2>1, Zenon
<1> HIDE DEF sum
<1>6. /\ 0 \in 0 .. n /\ sum[0] = 0
      /\ \A k \in 1 .. n : k - 1 \in 0 .. n /\ sum[k] = sum[k - 1] + part(k)
  BY <1>1, <1>5
<1>7. \A k \in 0 .. n : sum[k] \in Nat /\ \A i \in 1 .. k : part(i) <= sum[k]
  <2> DEFINE Bad == {k \in 0 .. n : ~(sum[k] \in Nat /\ \A i \in 1 .. k : part(i) <= sum[k])}
  <2> SUFFICES ASSUME Bad # {} PROVE FALSE
    OBVIOUS
  <2>1. PICK k \in Bad : \A l \in Bad : k <= l
    <3>1. Bad \in SUBSET Nat
      BY <1>1
    <3> QED
      BY <3>1, Least
  <2>2. k \in 0 .. n /\ k \in Int
    BY <1>1
  <2>3. k # 0
    BY <1>6
  <2>4. k \in 1 .. n /\ k - 1 \in 0 .. n /\ k - 1 \notin Bad
    BY <1>1, <2>1, <2>2, <2>3
  <2>5. sum[k - 1] \in Nat /\ \A i \in 1 .. k - 1 : part(i) <= sum[k - 1]
    BY <2>4
  <2>6. sum[k] = sum[k - 1] + part(k) /\ part(k) \in Nat
    BY <1>1, <1>6, <2>4
  <2>7. sum[k] \in Nat
    BY <2>5, <2>6
  <2>8. ASSUME NEW i \in 1 .. k PROVE part(i) <= sum[k]
    <3>1. part(i) \in Nat
      BY <1>1, <2>4
    <3>2. CASE i = k
      BY <2>5, <2>6, <3>1, <3>2
    <3>3. CASE i # k
      <4>1. i \in 1 .. k - 1
        BY <2>2, <3>3
      <4> QED
        BY <2>5, <2>6, <3>1, <4>1
    <3> QED
      BY <3>2, <3>3
  <2> QED
    BY <2>7, <2>8
<1>8. sum[n] \in Nat /\ \A i \in 1 .. n : part(i) <= sum[n]
  BY <1>1, <1>7
<1> QED
  BY <1>1, <1>2, <1>3, <1>8
-----------------------------------------------------------------------------
(* Backend and I/O parameters.                                             *)

Positive == Nat \ {0}
ParamRecord == [chunk_size : Positive, concurrency : Positive, io_depth : Positive]

\* The backend is one the system has, or none is.
LEMMA SelectedIsAvailable ==
  ASSUME NEW candidates, NEW supported, NEW available
  PROVE  LET b == select_backend(candidates, supported, available)
         IN b = NoBackend \/ b \in supported \cap available
<1> DEFINE P(b) == b \in supported /\ b \in available
           I == {i \in 1 .. Len(candidates) : P(candidates[i])}
           first == SelectInSeq(candidates, P)
<1>1. first = IF I # {} THEN Min(I) ELSE 0
  BY DEF SelectInSeq
<1>2. select_backend(candidates, supported, available)
        = IF first = 0 THEN NoBackend ELSE candidates[first]
  BY DEF select_backend
<1>3. CASE I = {}
  BY <1>1, <1>2, <1>3
<1>4. CASE I # {}
  <2>1. I \in SUBSET Nat
    OBVIOUS
  <2>2. Min(I) \in I
    BY <1>4, <2>1, MinIsLeast
  <2>3. first \in I
    BY <1>1, <1>4, <2>2
  <2> QED
    BY <1>2, <2>3
<1> QED
  BY <1>3, <1>4

\* Quotients of whole numbers are whole numbers, whatever the product below.
LEMMA Quotient ==
  ASSUME NEW a \in Nat, NEW b \in Positive, NEW least \in Positive
  PROVE  Larger(a \div b, least) \in Positive
<1>1. a \div b \in Int
  BY DEF Positive
<1> QED
  BY <1>1 DEF Larger, Positive

LEMMA Product ==
  ASSUME NEW a \in Positive, NEW b \in Positive
  PROVE  a * b \in Positive
<1>1. a * b \in Nat
  BY DEF Positive
<1>2. a * b # 0
  BY DEF Positive
<1> QED
  BY <1>1, <1>2 DEF Positive

\* Defaults and arguments are positive numbers.
LEMMA ParamsPositive ==
  ASSUME NEW backend, NEW in_memory, NEW world_size \in Positive, NEW cpu_count \in Positive,
         NEW args,
         \A f \in {"chunk_size", "concurrency", "io_depth"} : args[f] \in Positive \cup {None}
  PROVE  GivenParams(args, DefaultParams(backend, in_memory, world_size, cpu_count))
           \in ParamRecord
<1> DEFINE d == DefaultParams(backend, in_memory, world_size, cpu_count)
<1>1. {1, 2, 3, 8, 16, 32, 512} \subseteq Positive /\ Smaller(32, cpu_count) \in Nat
  BY DEF Positive, Smaller
<1>2. /\ Larger(Smaller(32, cpu_count) \div world_size, 1) \in Positive
      /\ Larger(32 \div world_size, 1) \in Positive
      /\ Larger(512 \div world_size, 3) \in Positive
  <2>1. Larger(Smaller(32, cpu_count) \div world_size, 1) \in Positive
    BY <1>1, Quotient
  <2>2. 32 \in Nat /\ 512 \in Nat
    OBVIOUS
  <2> QED
    BY <1>1, <2>1, <2>2, Quotient
<1>3. d \in ParamRecord
  BY <1>1, <1>2 DEF DefaultParams, ParamRecord
<1> HIDE DEF d
<1>4. d.chunk_size \in Positive /\ d.concurrency \in Positive /\ d.io_depth \in Positive
  BY <1>3 DEF ParamRecord
<1>5. /\ args.chunk_size \in Positive \cup {None}
      /\ args.concurrency \in Positive \cup {None}
      /\ args.io_depth \in Positive \cup {None}
  OBVIOUS
<1> QED
  BY <1>4, <1>5 DEF GivenParams, OrElse, ParamRecord, d

\* Shrinking keeps them positive.
LEMMA ShrinkPositive ==
  ASSUME NEW p \in ParamRecord, NEW world_size \in Positive, NEW avail \in Nat
  PROVE  Shrink(p, world_size, avail) \in ParamRecord
<1>1. ASSUME NEW q \in ParamRecord PROVE ShrinkIoDepth(q, world_size, avail) \in ParamRecord
  <2>1. q.chunk_size * q.concurrency * world_size \in Positive
    BY Product DEF ParamRecord
  <2>2. Larger(avail \div (q.chunk_size * q.concurrency * world_size), 3) \in Positive
    <3>1. 3 \in Positive
      BY DEF Positive
    <3> QED
      BY <2>1, <3>1, Quotient
  <2> QED
    BY <2>2 DEF ShrinkIoDepth, ParamRecord
<1>2. ASSUME NEW q \in ParamRecord PROVE ShrinkConcurrency(q, world_size, avail) \in ParamRecord
  <2>1. q.chunk_size * q.io_depth * world_size \in Positive
    BY Product DEF ParamRecord
  <2>2. Larger(avail \div (q.chunk_size * q.io_depth * world_size), 1) \in Positive
    <3>1. 1 \in Positive
      BY DEF Positive
    <3> QED
      BY <2>1, <3>1, Quotient
  <2> QED
    BY <2>2 DEF ShrinkConcurrency, ParamRecord
<1> QED
  BY <1>1, <1>2 DEF Shrink

\* What the ranks agree on is no more than any of them has.
LEMMA AgreedIsLeast ==
  ASSUME NEW n \in Positive, NEW avails \in [0 .. n - 1 -> Nat], NEW rank
  PROVE  /\ AgreedAvail(rank, avails) \in Nat
         /\ \A r \in 0 .. n - 1 : AgreedAvail(rank, avails) <= avails[r]
<1> DEFINE T == {avails[r] : r \in DOMAIN avails}
<1>1. DOMAIN avails = 0 .. n - 1 /\ 0 \in 0 .. n - 1
  BY DEF Positive
<1>2. T \in SUBSET Nat /\ T # {} /\ \A r \in 0 .. n - 1 : avails[r] \in T
  BY <1>1
<1>3. Min(T) \in T /\ \A x \in T : Min(T) <= x
  BY <1>2, MinIsLeast
<1> QED
  BY <1>2, <1>3 DEF AgreedAvail
-----------------------------------------------------------------------------
(* Device buffer.                                                          *)

\* The recommended size holds every tensor.
LEMMA RecommendedHoldsAll ==
  ASSUME NEW sizes \in Seq(Nat), sizes # <<>>
  PROVE  /\ recommended_buffer_size_for_tensors(sizes) \in Nat
         /\ \A i \in DOMAIN sizes : sizes[i] <= recommended_buffer_size_for_tensors(sizes)
<1> DEFINE D == DOMAIN sizes
           expects == [i \in 1 .. Len(sizes) |-> ExpectedBufferSize(sizes, i)]
           expected == {ExpectedBufferSize(sizes, i) : i \in D}
           overlapped(b) == SumOf(sizes, {i \in D : ExpectedBufferSize(sizes, i) <= b})
           Enough == {b \in expected : 10 * overlapped(b) >= 9 * SumOf(sizes, D)}
<1>1. Len(sizes) \in Positive /\ D = 1 .. Len(sizes) /\ \A i \in D : sizes[i] \in Nat
  BY DEF Positive
<1>2. \A i \in D : ExpectedBufferSize(sizes, i) \in Nat
  <2> SUFFICES ASSUME NEW i \in D PROVE ExpectedBufferSize(sizes, i) \in Nat
    OBVIOUS
  <2>1. i = 1 \/ i - 1 \in D
    BY <1>1 DEF Positive
  <2>2. sizes[i] \in Nat /\ (i # 1 => sizes[i - 1] \in Nat)
    BY <1>1, <2>1
  <2> QED
    BY <2>2 DEF ExpectedBufferSize
<1>3. expects \in Seq(Nat) /\ expects # <<>> /\ DOMAIN expects = D
  BY <1>1, <1>2 DEF Positive
<1>4. \A i \in D : expects[i] = ExpectedBufferSize(sizes, i)
  BY <1>1
<1> HIDE DEF expects
<1>5. {expects[i] : i \in DOMAIN expects} = expected
  BY <1>3, <1>4
<1>6. PICK m : m = Max(expected)
  OBVIOUS
<1>7. m \in expected /\ \A i \in D : ExpectedBufferSize(sizes, i) <= m
  BY <1>3, <1>4, <1>5, <1>6, Greatest
<1>8. {i \in D : ExpectedBufferSize(sizes, i) <= m} = D
  BY <1>7
<1>9. SumOf(sizes, D) \in Nat
  BY SumFacts
<1>10. m \in Enough
  BY <1>7, <1>8, <1>9
<1>11. Enough \in SUBSET Nat
  BY <1>2
<1>12. PICK least : least = Min(Enough)
  OBVIOUS
<1>13. least \in Nat
  BY <1>10, <1>11, <1>12, MinIsLeast
<1>14. recommended_buffer_size_for_tensors(sizes) = Larger(least, LargestOf(sizes))
  BY <1>12 DEF recommended_buffer_size_for_tensors
<1>15. LargestOf(sizes) \in Nat /\ \A i \in D : sizes[i] <= LargestOf(sizes)
  BY Greatest DEF LargestOf
<1> HIDE DEF Enough, expected, overlapped
<1>16. Larger(least, LargestOf(sizes)) \in Nat /\ LargestOf(sizes) <= Larger(least, LargestOf(sizes))
  BY <1>13, <1>15 DEF Larger
<1> QED
  BY <1>1, <1>14, <1>15, <1>16

\* Whatever size the caller asks for, the buffer holds every tensor.
LEMMA BufferHoldsAll ==
  ASSUME NEW sizes \in Seq(Nat), sizes # <<>>, NEW given \in Nat \cup {None},
         NEW p \in ParamRecord, NEW world_size \in Positive
  PROVE  /\ BufferSize(given, sizes, p, world_size) \in Nat
         /\ \A i \in DOMAIN sizes : sizes[i] <= BufferSize(given, sizes, p, world_size)
<1>1. \A i \in DOMAIN sizes : sizes[i] \in Nat
  OBVIOUS
<1>2. CASE given = None
  <2>1. InFlightBytes(p, world_size) \in Nat
    <3>1. p.chunk_size * p.concurrency * p.io_depth * world_size \in Positive
      BY Product DEF ParamRecord
    <3> QED
      BY <3>1 DEF InFlightBytes, Positive
  <2>2. PICK a : a = recommended_buffer_size_for_tensors(sizes)
    OBVIOUS
  <2>3. a \in Nat /\ \A i \in DOMAIN sizes : sizes[i] <= a
    BY <2>2, RecommendedHoldsAll
  <2>4. BufferSize(given, sizes, p, world_size) = Larger(a, InFlightBytes(p, world_size))
    BY <1>2, <2>2 DEF BufferSize
  <2>5. /\ Larger(a, InFlightBytes(p, world_size)) \in Nat
        /\ a <= Larger(a, InFlightBytes(p, world_size))
    BY <2>1, <2>3 DEF Larger
  <2> QED
    BY <1>1, <2>3, <2>4, <2>5
<1>3. CASE given # None
  <2>1. PICK a : a = LargestOf(sizes)
    OBVIOUS
  <2>2. PICK t : t = SumOf(sizes, DOMAIN sizes)
    OBVIOUS
  <2>3. a \in Nat /\ \A i \in DOMAIN sizes : sizes[i] <= a
    BY <2>1, Greatest DEF LargestOf
  <2>4. t \in Nat /\ \A i \in DOMAIN sizes : sizes[i] <= t
    BY <2>2, SumFacts
  <2>5. BufferSize(given, sizes, p, world_size) = Smaller(Larger(given, a), t)
    BY <1>3, <2>1, <2>2 DEF BufferSize
  <2>6. Larger(given, a) \in Nat /\ a <= Larger(given, a)
    BY <1>3, <2>3 DEF Larger
  <2>7. /\ Smaller(Larger(given, a), t) \in Nat
        /\ Smaller(Larger(given, a), t) \in {Larger(given, a), t}
    BY <2>4, <2>6 DEF Smaller
  <2> QED
    BY <1>1, <2>3, <2>4, <2>5, <2>6, <2>7
<1> QED
  BY <1>2, <1>3
==============================================================================
