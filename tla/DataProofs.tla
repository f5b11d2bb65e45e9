----------------------------- MODULE DataProofs -----------------------------
(***************************************************************************)
(* Facts about data that the other proofs rest on: the least element of a  *)
(* set of naturals, as HeapFile takes it of free slots and DbFile of free  *)
(* descriptors; induction, stated of a set instead of a predicate (a       *)
(* property P is shown of every natural with the set {n \in Nat : P(n)});  *)
(* the stacks of frames of PageCache; pieces of sequences; and functions   *)
(* defined by recursion over the nodes of a tree, as Operators has them.   *)
(***************************************************************************)
EXTENDS Integers, Sequences, SequencesExt, SequenceTheorems, WellFoundedInduction, TLAPS

-----------------------------------------------------------------------------
(* Naturals *)

\* The order of the naturals as a relation.
Less == {pair \in Nat \X Nat : pair[1] < pair[2]}

\* A nonempty set of naturals has a least element.
LEMMA LeastElement ==
    ASSUME NEW S, S \subseteq Nat, S # {}
    PROVE  \E n \in S : \A m \in S : n <= m
<1>1. IsWellFoundedOn(Less, Nat)
  BY NatLessThanWellFounded DEF Less, OpToRel
<1>2. PICK n \in S : \A m \in S : <<m, n>> \notin Less
  BY <1>1, WFMin
<1>3. ASSUME NEW m \in S
      PROVE  n <= m
  <2>1. <<m, n>> \in Nat \X Nat /\ <<m, n>>[1] = m /\ <<m, n>>[2] = n
    OBVIOUS
  <2>2. ~(m < n)
    BY <1>2, <2>1 DEF Less
  <2>3. QED
    BY <2>2
<1>4. QED
  BY <1>3

\* The minimum of a nonempty set of naturals is one of its elements.
LEMMA MinInSet ==
    ASSUME NEW S, S \subseteq Nat, S # {}
    PROVE  Min(S) \in S
BY LeastElement DEF Min

\* A set that contains zero and with a natural the next one contains them all.
LEMMA Induction ==
    ASSUME NEW S, 0 \in S, \A n \in Nat : n \in S => n + 1 \in S
    PROVE  Nat \subseteq S
<1> SUFFICES ASSUME Nat \ S # {}
             PROVE  FALSE
  OBVIOUS
<1>1. PICK n \in Nat \ S : \A m \in Nat \ S : n <= m
  <2>1. Nat \ S \subseteq Nat
    OBVIOUS
  <2>2. QED
    BY <2>1, LeastElement
<1>2. n # 0 /\ n - 1 \in Nat /\ n = (n - 1) + 1
  BY <1>1
<1>3. n - 1 \in S
  BY <1>1, <1>2
<1>4. QED
  BY <1>1, <1>2, <1>3

-----------------------------------------------------------------------------
(* Stacks *)

\* Popping a stack without repetitions.
LEMMA Popped ==
    ASSUME NEW S, NEW s \in Seq(S), s # <<>>
    PROVE  /\ Last(s) \in S /\ Last(s) \in Range(s)
           /\ Front(s) \in Seq(S) /\ Len(Front(s)) = Len(s) - 1
           /\ Range(Front(s)) \subseteq Range(s)
           /\ IsInjective(s) => IsInjective(Front(s)) /\ Last(s) \notin Range(Front(s))
<1>1. Len(s) \in Nat /\ Len(s) >= 1 /\ DOMAIN s = 1 .. Len(s)
  OBVIOUS
<1>2. \A k \in 1 .. Len(s) : s[k] \in S
  OBVIOUS
<1>3. Last(s) = s[Len(s)] /\ Front(s) = [k \in 1 .. Len(s) - 1 |-> s[k]]
  BY DEF Last, Front
<1>4. Front(s) \in Seq(S) /\ Len(Front(s)) = Len(s) - 1
  BY <1>1, <1>2, <1>3
<1>5. DOMAIN Front(s) = 1 .. Len(s) - 1
  BY <1>3
<1>6. Last(s) \in S /\ Last(s) \in Range(s)
  BY <1>1, <1>2, <1>3 DEF Range
<1>7. Range(Front(s)) \subseteq Range(s)
  BY <1>1, <1>3, <1>5 DEF Range
<1>8. ASSUME IsInjective(s)
      PROVE  IsInjective(Front(s)) /\ Last(s) \notin Range(Front(s))
  BY <1>1, <1>3, <1>5, <1>8 DEF IsInjective, Range
<1>9. QED
  BY <1>4, <1>6, <1>7, <1>8

\* Pushing an element a stack does not have.
LEMMA Pushed ==
    ASSUME NEW S, NEW s \in Seq(S), NEW x \in S
    PROVE  /\ Append(s, x) \in Seq(S) /\ Len(Append(s, x)) = Len(s) + 1
           /\ Append(s, x) # <<>> /\ Last(Append(s, x)) = x
           /\ Range(Append(s, x)) = Range(s) \cup {x}
           /\ IsInjective(s) /\ x \notin Range(s) => IsInjective(Append(s, x))
<1>1. Len(s) \in Nat /\ DOMAIN s = 1 .. Len(s)
  OBVIOUS
<1>2. /\ Append(s, x) \in Seq(S) /\ Len(Append(s, x)) = Len(s) + 1
      /\ DOMAIN Append(s, x) = 1 .. Len(s) + 1
      /\ \A k \in 1 .. Len(s) : Append(s, x)[k] = s[k]
      /\ Append(s, x)[Len(s) + 1] = x
  OBVIOUS
<1> DEFINE t == Append(s, x)
<1>3. t # <<>> /\ Last(t) = x
  BY <1>1, <1>2 DEF Last
<1> HIDE DEF t
<1>4. /\ DOMAIN t = 1 .. Len(s) + 1
      /\ \A k \in 1 .. Len(s) : t[k] = s[k]
      /\ t[Len(s) + 1] = x
  BY <1>2 DEF t
<1>5. Range(t) = Range(s) \cup {x}
  <2>1. \A y \in Range(t) : y \in Range(s) \cup {x}
    BY <1>1, <1>4 DEF Range
  <2>2. \A y \in Range(s) : y \in Range(t)
    BY <1>1, <1>4 DEF Range
  <2>3. x \in Range(t)
    BY <1>1, <1>4 DEF Range
  <2>4. QED
    BY <2>1, <2>2, <2>3
<1>6. IsInjective(s) /\ x \notin Range(s) => IsInjective(t)
  BY <1>1, <1>4 DEF IsInjective, Range
<1>7. QED
  BY <1>2, <1>3, <1>5, <1>6 DEF t

-----------------------------------------------------------------------------
(* Parts of sequences, and pairs *)

\* A piece of a sequence, and its beginning.
LEMMA CutSub ==
    ASSUME NEW S, NEW s \in Seq(S), NEW m \in Nat, NEW n \in Nat, n <= Len(s)
    PROVE  /\ SubSeq(s, m + 1, n) \in Seq(S)
           /\ Len(SubSeq(s, m + 1, n)) = IF m <= n THEN n - m ELSE 0
           /\ \A i \in 1 .. n - m : SubSeq(s, m + 1, n)[i] = s[m + i]
<1>1. PICK k \in Nat : k = m + 1
  OBVIOUS
<1>2. \A i \in k .. n : s[i] \in S
  BY <1>1
<1>3. /\ SubSeq(s, k, n) \in Seq(S)
      /\ Len(SubSeq(s, k, n)) = IF k <= n THEN n - k + 1 ELSE 0
      /\ \A i \in 1 .. n - k + 1 : SubSeq(s, k, n)[i] = s[k + i - 1]
  BY <1>1, <1>2, SubSeqProperties
<1>4. n - k + 1 = n - m /\ \A i \in 1 .. n - m : k + i - 1 = m + i
  BY <1>1
<1>5. QED
  BY <1>1, <1>3, <1>4

LEMMA PrefixFacts ==
    ASSUME NEW S, NEW s \in Seq(S), NEW n \in Nat, n <= Len(s)
    PROVE  /\ SubSeq(s, 1, n) \in Seq(S)
           /\ Len(SubSeq(s, 1, n)) = n
           /\ \A i \in 1 .. n : SubSeq(s, 1, n)[i] = s[i]
<1>1. \A i \in 1 .. n : s[i] \in S
  OBVIOUS
<1>2. /\ SubSeq(s, 1, n) \in Seq(S)
      /\ Len(SubSeq(s, 1, n)) = IF 1 <= n THEN n - 1 + 1 ELSE 0
      /\ \A i \in 1 .. n - 1 + 1 : SubSeq(s, 1, n)[i] = s[1 + i - 1]
  BY <1>1, SubSeqProperties
<1>3. n - 1 + 1 = n /\ (~(1 <= n) => n = 0) /\ \A i \in 1 .. n : 1 + i - 1 = i
  OBVIOUS
<1>4. QED
  BY <1>2, <1>3

\* The k-th pair of a rows and b rows, the right ones first.
LEMMA PairIndexes ==
    ASSUME NEW a \in Nat, NEW b \in Nat, NEW k \in 1 .. a * b
    PROVE  ((k - 1) \div b) + 1 \in 1 .. a /\ ((k - 1) % b) + 1 \in 1 .. b
<1>1. b # 0
  <2>1. SUFFICES ASSUME b = 0
                 PROVE  FALSE
    OBVIOUS
  <2>2. a * b = 0
    BY <2>1
  <2>3. QED
    BY <2>2
<1>2. PICK j \in Nat : j = k - 1
  OBVIOUS
<1>3. PICK q \in Int : q = j \div b
  BY <1>1, <1>2
<1>4. PICK r \in Int : r = j % b
  BY <1>1, <1>2
<1>5. r \in 0 .. b - 1 /\ j = b * q + r
  BY <1>1, <1>2, <1>3, <1>4
<1>6. q >= 0
  <2>1. SUFFICES ASSUME q <= -1
                 PROVE  FALSE
    BY <1>3
  <2>2. b * q <= b * (-1)
    BY <1>1, <2>1
  <2>3. QED
    BY <1>2, <1>5, <2>2
<1>7. q < a
  <2>1. SUFFICES ASSUME q >= a
                 PROVE  FALSE
    BY <1>3
  <2>2. b * q >= a * b
    BY <1>1, <2>1
  <2>3. QED
    BY <1>2, <1>5, <2>2
<1>8. QED
  BY <1>2, <1>3, <1>4, <1>5, <1>6, <1>7

\* The indexes of a pair, from its number.
LEMMA PairNumber ==
    ASSUME NEW b \in Nat, NEW i \in Nat, NEW j \in Nat, j < b
    PROVE  (i * b + j) \div b = i /\ (i * b + j) % b = j
<1>1. PICK k \in Nat : k = i * b + j
  OBVIOUS
<1>2. PICK q \in Int : q = k \div b
  OBVIOUS
<1>3. PICK m \in Int : m = k % b
  OBVIOUS
<1>4. m \in 0 .. b - 1 /\ k = b * q + m
  BY <1>1, <1>2, <1>3
<1>5. q <= i
  <2>1. SUFFICES ASSUME q >= i + 1
                 PROVE  FALSE
    BY <1>2
  <2>2. b * q >= b * (i + 1) /\ b * (i + 1) = i * b + b
    BY <2>1
  <2>3. QED
    BY <1>1, <1>4, <2>2
<1>6. q >= i
  <2>1. SUFFICES ASSUME q <= i - 1
                 PROVE  FALSE
    BY <1>2
  <2>2. b * q <= b * (i - 1) /\ b * (i - 1) = i * b - b
    BY <2>1
  <2>3. QED
    BY <1>1, <1>4, <2>2
<1>7. q = i /\ b * q = i * b
  BY <1>5, <1>6
<1>8. m = j
  BY <1>1, <1>4, <1>7
<1>9. QED
  BY <1>1, <1>2, <1>3, <1>7, <1>8

-----------------------------------------------------------------------------
(* Recursion from the leaves of a tree to its root *)

\* S has every number whose successors up to N it has.
Hereditary(S, N) == \A n \in 1 .. N : (\A m \in 1 .. N : m > n => m \in S) => n \in S

LEMMA Downwards ==
    ASSUME NEW N \in Nat, NEW S, Hereditary(S, N)
    PROVE  1 .. N \subseteq S
<1> DEFINE P == {k \in Nat : \A m \in 1 .. N : m > N - k => m \in S}
<1>1. 0 \in P
  OBVIOUS
<1>2. ASSUME NEW k \in Nat, k \in P
      PROVE  k + 1 \in P
  <2>1. ASSUME NEW m \in 1 .. N, m > N - (k + 1)
        PROVE  m \in S
    <3>1. \A i \in 1 .. N : i > m => i > N - k
      BY <2>1
    <3>2. \A i \in 1 .. N : i > m => i \in S
      BY <1>2, <3>1
    <3>3. QED
      BY <2>1, <3>2 DEF Hereditary
  <2>2. QED
    BY <2>1
<1>3. N \in P
  <2> HIDE DEF P
  <2>1. Nat \subseteq P
    BY <1>1, <1>2, Induction
  <2>2. QED
    BY <2>1
<1>4. \A m \in 1 .. N : m > N - N
  OBVIOUS
<1>5. QED
  BY <1>3, <1>4

\* What F makes of a function at n depends on its values after n only.
LooksAhead(F, N, V) ==
    \A n \in 1 .. N : \A f, g \in [1 .. N -> V] :
        (\A m \in 1 .. N : m > n => f[m] = g[m]) => F[n][f] = F[n][g]

\* f is, from the place k on, what F makes of it.
Unfolds(f, F, N, k) == \A n \in 1 .. N : n >= k => f[n] = F[n][f]

LEMMA Recursion ==
    ASSUME NEW N \in Nat, NEW V, V # {},
           NEW F \in [1 .. N -> [[1 .. N -> V] -> V]], LooksAhead(F, N, V)
    PROVE  \E f \in [1 .. N -> V] : Unfolds(f, F, N, 1)
<1> DEFINE P == {k \in Nat : \E f \in [1 .. N -> V] : Unfolds(f, F, N, N - k + 1)}
<1>1. 0 \in P
  <2>1. PICK v \in V : TRUE
    OBVIOUS
  <2>2. [n \in 1 .. N |-> v] \in [1 .. N -> V]
    BY <2>1
  <2>3. Unfolds([n \in 1 .. N |-> v], F, N, N - 0 + 1)
    BY DEF Unfolds
  <2>4. QED
    BY <2>2, <2>3
<1>2. ASSUME NEW k \in Nat, k \in P
      PROVE  k + 1 \in P
  <2>1. PICK f \in [1 .. N -> V] : Unfolds(f, F, N, N - k + 1)
    BY <1>2
  <2>2. CASE N - k \in 1 .. N
    <3>1. PICK p \in 1 .. N : p = N - k
      BY <2>2
    <3> DEFINE g == [f EXCEPT ![p] = F[p][f]]
    <3>2. F[p][f] \in V
      BY <3>1
    <3>3. g \in [1 .. N -> V] /\ g[p] = F[p][f] /\ \A m \in 1 .. N : m # p => g[m] = f[m]
      BY <3>1, <3>2
    <3> HIDE DEF g
    <3>4. ASSUME NEW n \in 1 .. N, n >= p
          PROVE  g[n] = F[n][g]
      <4>1. \A m \in 1 .. N : m > n => f[m] = g[m]
        BY <3>3, <3>4
      <4>2. F[n][f] = F[n][g]
        BY <3>3, <4>1 DEF LooksAhead
      <4>3. CASE n = p
        BY <3>3, <4>2, <4>3
      <4>4. CASE n # p
        <5>1. n >= N - k + 1
          BY <3>1, <3>4, <4>4
        <5>2. f[n] = F[n][f]
          BY <2>1, <5>1 DEF Unfolds
        <5>3. QED
          BY <3>3, <4>2, <4>4, <5>2
      <4>5. QED
        BY <4>3, <4>4
    <3>5. Unfolds(g, F, N, p)
      BY <3>4 DEF Unfolds
    <3>6. p = N - (k + 1) + 1
      BY <3>1
    <3>7. QED
      BY <3>3, <3>5, <3>6
  <2>3. CASE N - k \notin 1 .. N
    <3>1. \A n \in 1 .. N : n >= N - (k + 1) + 1 => n >= N - k + 1
      BY <2>3
    <3>2. Unfolds(f, F, N, N - (k + 1) + 1)
      BY <2>1, <3>1 DEF Unfolds
    <3>3. QED
      BY <3>2
  <2>4. QED
    BY <2>2, <2>3
<1>3. N \in P
  <2> HIDE DEF P
  <2>1. Nat \subseteq P
    BY <1>1, <1>2, Induction
  <2>2. QED
    BY <2>1
<1>4. N - N + 1 = 1
  OBVIOUS
<1>5. QED
  BY <1>3, <1>4
=============================================================================
