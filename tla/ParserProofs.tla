---------------------------- MODULE ParserProofs ----------------------------
(***************************************************************************)
(* Proofs about the SQL lexer and the SQL parser, for all statements and   *)
(* spellings that the assumptions allow:                                   *)
(*                                                                         *)
(*   TokensRight  the lexer reads the text of a statement as its tokens,   *)
(*                whatever the case of its letters and whatever spaces and *)
(*                comments stand between its words, and a text that is cut *)
(*                off as the tokens before the cut;                        *)
(*   TypeOK       the parser stops within the tokens or just after them:   *)
(*                every function of it consumes a token before it calls    *)
(*                itself, and none reads past the end.                     *)
(*                                                                         *)
(* The tokens of a text (Tokens) and what the functions of the parser read *)
(* (Parsed) are functions on positions, defined from the last position     *)
(* down; that there are such functions is proved by induction on positions *)
(* with Hereditary and Unfolding of DataProofs.                            *)
(***************************************************************************)
EXTENDS Parser, DataProofs

-----------------------------------------------------------------------------
(* Sequences *)

\* Two sequences with the same elements.
LEMMA SameSequence ==
    ASSUME NEW S, NEW s \in Seq(S), NEW u \in Seq(S), Len(s) = Len(u),
           \A i \in 1 .. Len(s) : s[i] = u[i]
    PROVE  s = u
BY SeqEqual

\* The pieces of a sequence that is put together from others follow each other.
LEMMA Pieces ==
    ASSUME NEW S, NEW seqs \in Seq(Seq(S))
    PROVE  /\ FlattenSeq(seqs) \in Seq(S)
           /\ \E at \in [1 .. Len(seqs) + 1 -> Nat] :
                /\ at[1] = 0 /\ at[Len(seqs) + 1] = Len(FlattenSeq(seqs))
                /\ \A i \in 1 .. Len(seqs) :
                      /\ at[i + 1] = at[i] + Len(seqs[i])
                      /\ \A j \in 1 .. Len(seqs[i]) : FlattenSeq(seqs)[at[i] + j] = seqs[i][j]
<1>0. PICK N \in Nat : N = Len(seqs)
  OBVIOUS
<1> DEFINE V == Seq(S)
           G(h, n) == IF n = N THEN seqs[1] ELSE h[n + 1] \o seqs[N + 1 - n]
           F == [n \in 1 .. N |-> [h \in [1 .. N -> V] |-> G(h, n)]]
<1>1. V # {} /\ \A i \in 1 .. N : seqs[i] \in V
  <2>1. V # {}
    BY EmptySeq
  <2>2. \A T : seqs \in Seq(T) => Len(seqs) \in Nat /\ \A i \in 1 .. Len(seqs) : seqs[i] \in T
    OBVIOUS
  <2>3. QED
    BY <1>0, <2>1, <2>2
<1>2. CASE N = 0
  <2>1. seqs = <<>> /\ FlattenSeq(seqs) = seqs
    <3>1. Len(seqs) = 0
      BY <1>0, <1>2
    <3>2. seqs = <<>>
      BY <3>1
    <3>3. QED
      BY <3>1, <3>2 DEF FlattenSeq
  <2>2. PICK at \in [1 .. 1 -> Nat] : at[1] = 0
    <3>1. [i \in 1 .. 1 |-> 0] \in [1 .. 1 -> Nat] /\ [i \in 1 .. 1 |-> 0][1] = 0
      OBVIOUS
    <3>2. QED
      BY <3>1
  <2>3. FlattenSeq(seqs) \in Seq(S) /\ Len(FlattenSeq(seqs)) = 0 /\ N + 1 = 1
    <3>1. FlattenSeq(seqs) = <<>>
      BY <2>1
    <3>2. <<>> \in Seq(S) /\ Len(<<>>) = 0
      BY EmptySeq
    <3>3. QED
      BY <1>2, <3>1, <3>2
  <2>4. \A i \in 1 .. N : FALSE
    BY <1>2
  <2>5. at \in [1 .. N + 1 -> Nat] /\ at[N + 1] = 0
    BY <2>2, <2>3
  <2>6. QED
    BY <1>0, <2>2, <2>3, <2>4, <2>5
<1>3. CASE N # 0
  <2>1. F \in [1 .. N -> [[1 .. N -> V] -> V]]
    <3>1. ASSUME NEW n \in 1 .. N, NEW h \in [1 .. N -> V]
          PROVE  G(h, n) \in V
      <4>1. N + 1 - n \in 1 .. N /\ 1 \in 1 .. N /\ (n # N => n + 1 \in 1 .. N)
        BY <1>1, <1>3
      <4>2. seqs[1] \in Seq(S) /\ seqs[N + 1 - n] \in Seq(S) /\ (n # N => h[n + 1] \in Seq(S))
        BY <1>1, <4>1
      <4>3. \A s, u \in Seq(S) : s \o u \in Seq(S)
        OBVIOUS
      <4>4. QED
        BY <4>2, <4>3
    <3>2. QED
      BY <3>1
  <2>2. LooksAhead(F, N, V)
    BY <1>1 DEF LooksAhead
  <2>3. PICK h \in [1 .. N -> V] : Unfolds(h, F, N, 1)
    <3> HIDE DEF F, V
    <3>1. QED
      BY <1>1, <2>1, <2>2, Recursion
  <2> DEFINE f == [i \in 1 .. N |-> h[N + 1 - i]]
  <2>4. ASSUME NEW i \in 1 .. N
        PROVE  f[i] = IF i = 1 THEN seqs[i] ELSE f[i - 1] \o seqs[i]
    <3>1. PICK n \in 1 .. N : n = N + 1 - i
      BY <1>1
    <3>2. h[n] = G(h, n)
      <4>1. F[n][h] = G(h, n)
        BY <2>3, <3>1
      <4> HIDE DEF F
      <4>2. h[n] = F[n][h]
        BY <2>3, <3>1 DEF Unfolds
      <4>3. QED
        BY <4>1, <4>2
    <3>3. (n = N <=> i = 1) /\ N + 1 - n = i /\ N + 1 - (i - 1) = n + 1
      BY <1>1, <3>1
    <3>4. i # 1 => i - 1 \in 1 .. N
      BY <1>1
    <3>5. f[i] = h[n] /\ (i # 1 => f[i - 1] = h[n + 1])
      BY <3>1, <3>3, <3>4
    <3> HIDE DEF f
    <3>6. QED
      BY <3>2, <3>3, <3>5
  <2>5. PICK flat : flat = [i \in 1 .. N |-> IF i = 1 THEN seqs[i] ELSE flat[i - 1] \o seqs[i]]
                    /\ FlattenSeq(seqs) = flat[N]
    <3>1. f = [i \in 1 .. N |-> IF i = 1 THEN seqs[i] ELSE f[i - 1] \o seqs[i]]
      BY <2>4
    <3> HIDE DEF f
    <3>2. QED
      BY <1>0, <1>3, <3>1 DEF FlattenSeq
  <2>6. \A i \in 1 .. N : flat[i] = IF i = 1 THEN seqs[i] ELSE flat[i - 1] \o seqs[i]
    BY <2>5
  <2> HIDE DEF V, F
  <2> DEFINE P == {n \in Nat : n \in 1 .. N => flat[n] \in V}
  <2>7. P = Nat
    <3>1. 0 \in P
      BY <1>1
    <3>2. ASSUME NEW n \in Nat, n \in P
          PROVE  n + 1 \in P
      <4>1. SUFFICES ASSUME n + 1 \in 1 .. N
                     PROVE  flat[n + 1] \in V
        BY <3>2
      <4>2. CASE n = 0
        BY <1>1, <2>6, <4>1, <4>2
      <4>3. CASE n # 0
        <5>1. n \in 1 .. N /\ (n + 1) - 1 = n
          BY <1>1, <4>1, <4>3
        <5>2. flat[n] \in V /\ seqs[n + 1] \in V
          BY <1>1, <3>2, <4>1, <5>1
        <5>3. flat[n + 1] = flat[n] \o seqs[n + 1]
          <6>1. PICK m \in 1 .. N : m = n + 1
            BY <4>1
          <6>2. m # 1 /\ m - 1 = n
            BY <4>3, <6>1
          <6>3. QED
            BY <2>6, <6>1, <6>2
        <5>4. \A s, u \in Seq(S) : s \o u \in Seq(S)
          OBVIOUS
        <5>5. QED
          BY <5>2, <5>3, <5>4 DEF V
      <4>4. QED
        BY <4>2, <4>3
    <3> HIDE DEF P
    <3>3. Nat \subseteq P
      BY <3>1, <3>2, Induction
    <3>4. QED
      BY <3>3 DEF P
  <2>8. \A i \in 1 .. N : flat[i] \in V
    BY <1>1, <2>7
  <2> HIDE DEF P
  <2> DEFINE at == [i \in 1 .. N + 1 |-> IF i = 1 THEN 0 ELSE Len(flat[i - 1])]
  <2>9. at \in [1 .. N + 1 -> Nat] /\ at[1] = 0 /\ at[N + 1] = Len(flat[N])
    <3>1. ASSUME NEW i \in 1 .. N + 1, i # 1
          PROVE  Len(flat[i - 1]) \in Nat
      <4>1. i - 1 \in 1 .. N
        BY <1>1, <3>1
      <4>2. QED
        BY <2>8, <4>1 DEF V
    <3>2. 1 \in 1 .. N + 1 /\ N + 1 \in 1 .. N + 1 /\ N + 1 # 1 /\ (N + 1) - 1 = N
      BY <1>1, <1>3
    <3>3. QED
      BY <3>1, <3>2
  <2>10. ASSUME NEW i \in 1 .. N
         PROVE  /\ at[i + 1] = Len(flat[i]) /\ at[i + 1] = at[i] + Len(seqs[i])
                /\ \A j \in 1 .. Len(seqs[i]) : flat[i][at[i] + j] = seqs[i][j]
                /\ i # 1 => \A k \in 1 .. at[i] : flat[i][k] = flat[i - 1][k]
    <3>1. i \in 1 .. N + 1 /\ i + 1 \in 1 .. N + 1 /\ i + 1 # 1 /\ (i + 1) - 1 = i
      BY <1>1
    <3>2. at[i + 1] = Len(flat[i])
      BY <3>1
    <3>3. CASE i = 1
      <4>1. flat[i] = seqs[i] /\ seqs[i] \in V /\ at[i] = 0
        BY <1>1, <2>6, <3>1, <3>3
      <4>2. QED
        BY <3>2, <3>3, <4>1 DEF V
    <3>4. CASE i # 1
      <4>1. i - 1 \in 1 .. N
        BY <1>1, <3>4
      <4>2. at[i] = Len(flat[i - 1]) /\ flat[i - 1] \in V /\ seqs[i] \in V
        BY <1>1, <2>8, <3>1, <3>4, <4>1
      <4>3. flat[i] = flat[i - 1] \o seqs[i]
        BY <2>6, <3>4
      <4>4. PICK x \in Seq(S), y \in Seq(S) : x = flat[i - 1] /\ y = seqs[i]
        BY <4>2 DEF V
      <4>5. /\ Len(x \o y) = Len(x) + Len(y)
            /\ \A j \in 1 .. Len(y) : (x \o y)[Len(x) + j] = y[j]
            /\ \A j \in 1 .. Len(x) : (x \o y)[j] = x[j]
        OBVIOUS
      <4> HIDE DEF at
      <4>6. QED
        BY <3>2, <4>2, <4>3, <4>4, <4>5
    <3>5. QED
      BY <3>3, <3>4
  <2>11. \A i \in 1 .. N : at[i] \in Nat /\ Len(seqs[i]) \in Nat
    BY <1>1, <2>9 DEF V
  <2> HIDE DEF at
  \* What stands in a piece is not moved by the pieces after it.
  <2> DEFINE K == {k \in Nat : k \in 1 .. N => \A i \in 1 .. k : \A j \in 1 .. Len(seqs[i]) :
                                  flat[k][at[i] + j] = seqs[i][j] /\ at[i] + j <= at[k + 1]}
  <2>12. K = Nat
    <3>1. 0 \in K
      BY <1>1
    <3>2. ASSUME NEW k \in Nat, k \in K
          PROVE  k + 1 \in K
      <4>1. SUFFICES ASSUME k + 1 \in 1 .. N, NEW i \in 1 .. k + 1, NEW j \in 1 .. Len(seqs[i])
                     PROVE  flat[k + 1][at[i] + j] = seqs[i][j] /\ at[i] + j <= at[(k + 1) + 1]
        OBVIOUS
      <4>2. i \in 1 .. N
        BY <1>1, <4>1
      <4>3. CASE i = k + 1
        BY <2>10, <2>11, <4>1, <4>2, <4>3
      <4>4. CASE i # k + 1
        <5>1. k \in 1 .. N /\ i \in 1 .. k /\ k + 1 # 1 /\ (k + 1) - 1 = k
          BY <1>1, <4>1, <4>4
        <5>2. flat[k][at[i] + j] = seqs[i][j] /\ at[i] + j <= at[k + 1]
          BY <3>2, <4>1, <5>1
        <5>3. at[i] + j \in 1 .. at[k + 1]
          BY <2>11, <4>1, <4>2, <5>2
        <5>4. flat[k + 1][at[i] + j] = flat[k][at[i] + j]
          BY <2>10, <4>1, <5>1, <5>3
        <5>5. at[k + 1] <= at[(k + 1) + 1]
          BY <2>10, <2>11, <4>1
        <5>6. at[(k + 1) + 1] \in Nat /\ at[k + 1] \in Nat
          BY <1>1, <2>9, <4>1
        <5>7. QED
          BY <2>11, <4>2, <5>2, <5>4, <5>5, <5>6
      <4>5. QED
        BY <4>3, <4>4
    <3> HIDE DEF K
    <3>3. Nat \subseteq K
      BY <3>1, <3>2, Induction
    <3>4. QED
      BY <3>3 DEF K
  <2>13. \A i \in 1 .. N : \A j \in 1 .. Len(seqs[i]) : flat[N][at[i] + j] = seqs[i][j]
    <3> HIDE DEF K
    <3>1. N \in K /\ N \in 1 .. N
      BY <1>3, <2>12
    <3> USE DEF K
    <3>2. QED
      BY <3>1
  <2> HIDE DEF K
  <2>14. flat[N] \in V
    BY <1>1, <1>3, <2>8
  <2>15. \A i \in 1 .. N : at[i + 1] = at[i] + Len(seqs[i])
    BY <2>10
  <2>16. QED
    BY <1>0, <2>5, <2>9, <2>13, <2>14, <2>15 DEF V
<1>4. QED
  BY <1>2, <1>3

-----------------------------------------------------------------------------
(* Characters *)

\* Capitals keep marks, spaces, digits and letters apart, and what a letter is
\* in capitals does not depend on how it is written.
LEMMA UpperFacts ==
    ASSUME NEW c
    PROVE  /\ Upper(c) = c \/ {c, Upper(c)} \subseteq STRING \ (Marks \cup Spaces \cup Digits)
           /\ c \notin DOMAIN Capitals => Upper(c) = c
           /\ Small(c) = c \/ {c, Small(c)} \subseteq STRING
           /\ Upper(Small(c)) = Upper(c)
<1> DEFINE Letters == STRING \ (Marks \cup Spaces \cup Digits)
<1>1. DOMAIN Capitals \cup Range(Capitals) \subseteq Letters /\ DOMAIN Capitals \cap Range(Capitals) = {}
  BY CharactersAssumption
<1>2. \A s \in DOMAIN Capitals : Capitals[s] \in Range(Capitals)
  BY DEF Range
<1>3. Upper(c) = c \/ (c \in Letters /\ Upper(c) \in Letters)
  BY <1>1, <1>2 DEF Upper
<1>5. CASE c \in Range(Capitals)
  <2>1. \E s \in DOMAIN Capitals : Capitals[s] = c
    BY <1>5 DEF Range
  <2>2. Small(c) \in DOMAIN Capitals /\ Capitals[Small(c)] = c
    BY <1>5, <2>1 DEF Small
  <2>3. Upper(Small(c)) = c /\ Upper(c) = c
    BY <1>1, <1>5, <2>2 DEF Upper
  <2>4. QED
    BY <1>1, <1>3, <1>5, <2>2, <2>3
<1>6. CASE c \notin Range(Capitals)
  <2>1. Small(c) = c
    BY <1>6 DEF Small
  <2>2. QED
    BY <1>3, <2>1 DEF Upper
<1>7. QED
  BY <1>5, <1>6

\* Marks, spaces, digits and letters are different characters.
LEMMA CharacterKinds ==
    /\ Marks \cap Spaces = {} /\ Digits \cap (Marks \cup Spaces) = {}
    /\ \A c \in Marks \cup Spaces \cup Digits : Upper(c) = c
    /\ Digits \subseteq STRING
<1>1. Marks \cap Spaces = {}
  <2>2. " " \notin Marks
    BY DEF Marks
  <2>3. "\n" \notin Marks
    BY DEF Marks
  <2>4. QED
    BY <2>2, <2>3 DEF Spaces
<1>2. Digits \subseteq STRING \ (Marks \cup Spaces)
  BY CharactersAssumption
<1>3. \A c \in Marks \cup Spaces \cup Digits : Upper(c) = c
  BY UpperFacts
<1>4. QED
  BY <1>1, <1>2, <1>3

-----------------------------------------------------------------------------
(* What is read at a position *)

\* The first position with one of the characters.
LEMMA UntilFacts ==
    ASSUME NEW C, NEW t \in Seq(C), NEW i \in 1 .. Len(t) + 1, NEW stops
    PROVE  LET end == Until(t, i, stops)
           IN  /\ end \in i .. Len(t) + 1
               /\ end <= Len(t) => t[end] \in stops
               /\ \A j \in i .. end - 1 : t[j] \notin stops
<1> DEFINE Ends == {e \in i .. Len(t) + 1 : e <= Len(t) => t[e] \in stops}
<1>1. Len(t) \in Nat
  OBVIOUS
<1>2. Ends \subseteq Nat /\ Len(t) + 1 \in Ends
  BY <1>1
<1>3. PICK e \in Ends : \A m \in Ends : e <= m
  <2> HIDE DEF Ends
  <2>1. QED
    BY <1>2, LeastElement
<1>4. \A j \in i .. e - 1 : t[j] \notin stops
  BY <1>1, <1>3
<1>5. \E end \in i .. Len(t) + 1 :
         /\ end <= Len(t) => t[end] \in stops
         /\ \A j \in i .. end - 1 : t[j] \notin stops
  BY <1>3, <1>4
<1>6. QED
  BY <1>5 DEF Until

\* There is only one such position.
LEMMA UntilIs ==
    ASSUME NEW C, NEW t \in Seq(C), NEW i \in 1 .. Len(t) + 1, NEW stops,
           NEW e \in i .. Len(t) + 1, e <= Len(t) => t[e] \in stops,
           \A j \in i .. e - 1 : t[j] \notin stops
    PROVE  Until(t, i, stops) = e
<1>1. PICK u \in i .. Len(t) + 1 : u = Until(t, i, stops)
  BY UntilFacts
<1>2. /\ u <= Len(t) => t[u] \in stops
      /\ \A j \in i .. u - 1 : t[j] \notin stops
  BY <1>1, UntilFacts
<1>3. ~(u < e) /\ ~(e < u)
  BY <1>1, <1>2
<1>4. QED
  BY <1>1, <1>3

\* What is left of a string from every position on.
LEMMA StringsUnfold ==
    ASSUME NEW C, NEW t \in Seq(C)
    PROVE  \A j \in 1 .. Len(t) + 2 :
              /\ Strings(t)[j] = StringFrom(Strings(t), t, j)
              /\ Strings(t)[j].chars \in Seq(C)
              /\ Strings(t)[j].at \in (IF j <= Len(t) THEN j + 1 ELSE Len(t) + 1) .. Len(t) + 1
<1>0. PICK N \in Nat : N = Len(t) + 2
  OBVIOUS
<1> DEFINE V == [at : Nat, chars : Seq(C)]
           F == [j \in 1 .. N |-> [S \in [1 .. N -> V] |-> StringFrom(S, t, j)]]
<1>1. V # {}
  <2>1. [at |-> 0, chars |-> <<>>] \in V
    BY EmptySeq
  <2>2. QED
    BY <2>1
<1>2. ASSUME NEW j \in 1 .. N, NEW S, j <= Len(t) => S[j + 1] \in V, j < Len(t) => S[j + 2] \in V
      PROVE  /\ StringFrom(S, t, j) \in V
             /\ \/ StringFrom(S, t, j).at = Len(t) + 1 /\ j > Len(t)
                \/ StringFrom(S, t, j).at = S[j + 1].at /\ j <= Len(t)
                \/ StringFrom(S, t, j).at = S[j + 2].at /\ j < Len(t)
                \/ StringFrom(S, t, j).at = j + 1 /\ j <= Len(t)
  <2>1. Len(t) \in Nat
    OBVIOUS
  <2>2. \A c \in C : \A r \in V :
           /\ [r EXCEPT !.chars = <<c>> \o @] \in V
           /\ [r EXCEPT !.chars = <<c>> \o @].at = r.at
    <3>1. ASSUME NEW c \in C, NEW r \in V
          PROVE  <<c>> \o r.chars \in Seq(C)
      <4>1. r.chars \in Seq(C) /\ <<c>> \in Seq(C)
        OBVIOUS
      <4>2. QED
        BY <4>1
    <3>2. QED
      BY <3>1
  <2>3. CASE j > Len(t)
    <3>1. StringFrom(S, t, j) = [at |-> Len(t) + 1, chars |-> <<>>]
      BY <2>1, <2>3 DEF StringFrom
    <3>2. QED
      BY <2>1, <2>3, <3>1, EmptySeq
  <2>4. CASE j <= Len(t) /\ t[j] # "'"
    <3>1. StringFrom(S, t, j) = [S[j + 1] EXCEPT !.chars = <<t[j]>> \o @]
      BY <2>1, <2>4 DEF StringFrom
    <3>2. t[j] \in C
      BY <2>4
    <3> HIDE DEF V
    <3>3. QED
      BY <1>2, <2>2, <2>4, <3>1, <3>2
  <2>5. CASE j < Len(t) /\ t[j] = "'" /\ t[j + 1] = "'"
    <3>1. StringFrom(S, t, j) = [S[j + 2] EXCEPT !.chars = <<t[j]>> \o @]
      BY <2>1, <2>5 DEF StringFrom
    <3>2. t[j] \in C
      BY <2>1, <2>5
    <3> HIDE DEF V
    <3>3. QED
      BY <1>2, <2>2, <2>5, <3>1, <3>2
  <2>6. CASE j <= Len(t) /\ t[j] = "'" /\ ~(j < Len(t) /\ t[j + 1] = "'")
    <3>1. StringFrom(S, t, j) = [at |-> j + 1, chars |-> <<>>]
      BY <2>1, <2>6 DEF StringFrom
    <3>2. QED
      BY <2>1, <2>6, <3>1, EmptySeq
  <2>7. QED
    BY <2>1, <2>3, <2>4, <2>5, <2>6
<1>3. F \in [1 .. N -> [[1 .. N -> V] -> V]]
  <2>1. ASSUME NEW j \in 1 .. N, NEW S \in [1 .. N -> V]
        PROVE  StringFrom(S, t, j) \in V
    <3>1. j <= Len(t) => j + 1 \in 1 .. N /\ j + 2 \in 1 .. N
      BY <1>0
    <3> HIDE DEF V
    <3>2. QED
      BY <1>2, <3>1
  <2> HIDE DEF V
  <2>2. QED
    BY <2>1
<1>4. LooksAhead(F, N, V)
  <2>1. ASSUME NEW j \in 1 .. N, NEW S \in [1 .. N -> V], NEW R \in [1 .. N -> V],
               \A m \in 1 .. N : m > j => S[m] = R[m]
        PROVE  StringFrom(S, t, j) = StringFrom(R, t, j)
    <3>1. j <= Len(t) => S[j + 1] = R[j + 1] /\ S[j + 2] = R[j + 2]
      BY <1>0, <2>1
    <3> HIDE DEF V
    <3>2. QED
      BY <1>0, <3>1 DEF StringFrom
  <2> HIDE DEF V
  <2>2. QED
    BY <2>1 DEF LooksAhead
<1>5. PICK S \in [1 .. N -> V] : Unfolds(S, F, N, 1)
  <2> HIDE DEF F, V
  <2>1. QED
    BY <1>1, <1>3, <1>4, Recursion
<1>6. S = [j \in 1 .. Len(t) + 2 |-> StringFrom(S, t, j)]
  <2> HIDE DEF V
  <2>1. QED
    BY <1>0, <1>5 DEF Unfolds
<1>7. Strings(t) = [j \in 1 .. Len(t) + 2 |-> StringFrom(Strings(t), t, j)]
  <2> HIDE DEF F, V
  <2>1. QED
    BY <1>6 DEF Strings
<1> DEFINE Z == Strings(t)
<1> HIDE DEF F
<1>8. \A j \in 1 .. N : Z[j] = StringFrom(Z, t, j)
  BY <1>0, <1>7
<1> HIDE DEF Z
<1> DEFINE Good == {j \in 1 .. N : Z[j] \in V /\ Z[j].at \in (IF j <= Len(t) THEN j + 1 ELSE Len(t) + 1) .. Len(t) + 1}
<1>9. Hereditary(Good, N)
  <2>1. ASSUME NEW j \in 1 .. N, \A m \in 1 .. N : m > j => m \in Good
        PROVE  j \in Good
    <3>1. j <= Len(t) => /\ j + 1 \in 1 .. N /\ Z[j + 1] \in V /\ Z[j + 1].at \in j + 1 .. Len(t) + 1
                         /\ Z[j + 2] \in V
      <4>1. j <= Len(t) => j + 1 \in 1 .. N /\ j + 2 \in 1 .. N
        BY <1>0
      <4>2. j <= Len(t) => j + 1 \in Good /\ j + 2 \in Good /\ (j + 1 > Len(t) => j + 1 = Len(t) + 1)
        BY <1>0, <2>1, <4>1
      <4>3. Len(t) \in Nat
        OBVIOUS
      <4>4. \A k \in Good : Z[k] \in V /\ Z[k].at \in (IF k <= Len(t) THEN k + 1 ELSE Len(t) + 1) .. Len(t) + 1
        OBVIOUS
      <4> HIDE DEF Good, V
      <4>5. ASSUME j <= Len(t)
            PROVE  /\ j + 1 \in 1 .. N /\ Z[j + 1] \in V /\ Z[j + 1].at \in j + 1 .. Len(t) + 1
                   /\ Z[j + 2] \in V
        <5>1. PICK k \in Good : k = j + 1
          BY <4>2, <4>5
        <5>2. Z[k].at \in (IF k <= Len(t) THEN k + 1 ELSE Len(t) + 1) .. Len(t) + 1
          BY <4>4
        <5>3. Z[k].at \in k .. Len(t) + 1
          BY <4>2, <4>3, <4>5, <5>1, <5>2
        <5>4. QED
          BY <4>1, <4>2, <4>4, <4>5, <5>1, <5>3
      <4>6. QED
        BY <4>5
    <3>2. j < Len(t) => Z[j + 2].at \in j + 1 .. Len(t) + 1
      BY <1>0, <2>1
    <3>3. Z[j] \in V /\ \/ Z[j].at = Len(t) + 1 /\ j > Len(t)
                        \/ Z[j].at = Z[j + 1].at /\ j <= Len(t)
                        \/ Z[j].at = Z[j + 2].at /\ j < Len(t)
                        \/ Z[j].at = j + 1 /\ j <= Len(t)
      <4> HIDE DEF V
      <4>1. QED
        BY <1>2, <1>8, <3>1
    <3>4. QED
      BY <1>0, <3>1, <3>2, <3>3
  <2>2. QED
    BY <2>1 DEF Hereditary
<1>10. 1 .. N \subseteq Good
  <2> HIDE DEF Good
  <2>1. QED
    BY <1>9, Downwards
<1>11. QED
  BY <1>0, <1>8, <1>10 DEF Z

\* A character and the next one, if there is one.
Pair(t, i) == IF i < Len(t) THEN <<t[i], t[i + 1]>> ELSE <<t[i]>>

\* What a pair of characters is, and which characters the pairs of an operator have.
LEMMA PairFacts ==
    ASSUME NEW t, NEW i
    PROVE  /\ \A a, b : Pair(t, i) = <<a, b>> <=> i < Len(t) /\ t[i] = a /\ t[i + 1] = b
           /\ Pair(t, i) \in Pairs =>
                i < Len(t) /\ t[i] \in {"<", ">", "!", ":", "|"} /\ t[i + 1] \in {">", "=", ":", "|"}
BY DEF Pair, Pairs

\* What is read is decided by the character and the next one.
LEMMA LexemeOf ==
    ASSUME NEW t, NEW i, NEW c, c = t[i]
    PROVE  /\ c \in Spaces => Lexeme(t, i) = Skip(i + 1)
           /\ Pair(t, i) = <<"-", "-">> => Lexeme(t, i) = LineComment(t, i)
           /\ Pair(t, i) = <<"/", "*">> => Lexeme(t, i) = BlockComment(t, i)
           /\ IsLetters(c) => Lexeme(t, i) = Name(t, i)
           /\ c \in Digits => Lexeme(t, i) = Number(t, i)
           /\ c = "'" => Lexeme(t, i) = StringLiteral(t, i)
           /\ c = "\"" => Lexeme(t, i) = QuotedName(t, i)
           /\ Pair(t, i) \in Pairs => Lexeme(t, i) = Emit(i + 2, "OPERATOR", Spelt(Pair(t, i)))
           /\ c \in Marks \ {"'", "\""} /\ Pair(t, i) \notin Pairs \cup {<<"-", "-">>, <<"/", "*">>} =>
                Lexeme(t, i) = Mark(t, i)
<1> DEFINE pair == Pair(t, i)
<1>1. Lexeme(t, i) =
        CASE c \in Spaces         -> Skip(i + 1)
          [] pair = <<"-", "-">>  -> LineComment(t, i)
          [] pair = <<"/", "*">>  -> BlockComment(t, i)
          [] IsLetters(c)         -> Name(t, i)
          [] c \in Digits         -> Number(t, i)
          [] c = "'"              -> StringLiteral(t, i)
          [] c = "\""             -> QuotedName(t, i)
          [] pair \in Pairs       -> Emit(i + 2, "OPERATOR", Spelt(pair))
          [] OTHER                -> Mark(t, i)
  BY DEF Lexeme, Pair
<1>2. /\ pair = <<"-", "-">> => c = "-"
      /\ pair = <<"/", "*">> => c = "/"
      /\ pair \in Pairs => c \in {"<", ">", "!", ":", "|"}
  BY PairFacts
<1>3. /\ "-" \in Marks /\ "/" \in Marks /\ "'" \in Marks /\ "\"" \in Marks
      /\ {"<", ">", "!", ":", "|"} \subseteq Marks
  BY DEF Marks
<1>4. pair = <<"-", "-">> => pair # <<"/", "*">>
  BY <1>2
<1> HIDE DEF pair
<1>5. /\ c \in Spaces => ~IsLetters(c) /\ c \notin Digits /\ c \notin Marks
      /\ c \in Marks => ~IsLetters(c) /\ c \notin Digits /\ c \notin Spaces
      /\ c \in Digits => ~IsLetters(c) /\ c \notin Spaces /\ c \notin Marks
      /\ IsLetters(c) => c \notin Spaces /\ c \notin Digits /\ c \notin Marks
  BY CharacterKinds DEF IsLetters
<1>6. QED
  BY <1>1, <1>2, <1>3, <1>4, <1>5 DEF pair

\* Something is read at every position, and at most one token.
LEMMA LexemeAdvances ==
    ASSUME NEW C, NEW t \in Seq(C), NEW i \in 1 .. Len(t)
    PROVE  /\ Lexeme(t, i).at \in i + 1 .. Len(t) + 1
           /\ Lexeme(t, i).tokens = <<>> \/ \E x : Lexeme(t, i).tokens = <<x>>
<1> DEFINE Ok(l) == l.at \in i + 1 .. Len(t) + 1 /\ (l.tokens = <<>> \/ \E x : l.tokens = <<x>>)
<1>1. PICK n \in Nat : n = Len(t)
  OBVIOUS
<1>2. /\ \A at \in i + 1 .. n + 1 : Ok(Skip(at))
      /\ \A at \in i + 1 .. n + 1 : \A type, value : Ok(Emit(at, type, value))
  BY <1>1 DEF Skip, Emit
<1>3. i \in Nat /\ i >= 1 /\ i <= n
  BY <1>1
<1>4. PICK c : c = t[i]
  OBVIOUS
<1>15. /\ c \in Spaces => Lexeme(t, i) = Skip(i + 1)
       /\ Pair(t, i) \in Pairs => Lexeme(t, i) = Emit(i + 2, "OPERATOR", Spelt(Pair(t, i)))
       /\ IsLetters(c) => Lexeme(t, i) = Name(t, i)
       /\ c \in Digits => Lexeme(t, i) = Number(t, i)
  BY <1>4, LexemeOf
<1>5. CASE c \in Spaces
  <2>1. i + 1 \in i + 1 .. n + 1
    BY <1>3
  <2>2. QED
    BY <1>1, <1>2, <1>5, <1>15, <2>1
<1>6. CASE Pair(t, i) = <<"-", "-">>
  <2>1. PICK e \in i .. n + 1 : e = Until(t, i, {"\n"}) /\ (e <= n => t[e] \in {"\n"})
    BY <1>1, <1>3, UntilFacts
  <2>2. t[i] = "-"
    BY <1>6, PairFacts
  <2>3. e # i
    BY <1>3, <2>1, <2>2
  <2>4. Lexeme(t, i) = Skip(e)
    BY <1>4, <1>6, <2>1, LexemeOf DEF LineComment
  <2>5. e \in i + 1 .. n + 1
    BY <1>3, <2>1, <2>3
  <2>6. QED
    BY <1>1, <1>2, <2>4, <2>5
<1>7. CASE Pair(t, i) = <<"/", "*">>
  <2> DEFINE ends == {j \in i + 2 .. Len(t) - 1 : t[j] = "*" /\ t[j + 1] = "/"}
             at == IF ends = {} THEN Len(t) + 1 ELSE Min(ends) + 2
  <2>1. Lexeme(t, i) = Skip(at)
    BY <1>4, <1>7, LexemeOf DEF BlockComment
  <2>2. ends \subseteq i + 2 .. n - 1 /\ ends \subseteq Nat
    BY <1>1, <1>3
  <2>3. ends # {} => Min(ends) \in i + 2 .. n - 1
    <3> HIDE DEF ends
    <3>1. QED
      BY <2>2, MinInSet
  <2> HIDE DEF ends
  <2>4. at \in i + 1 .. n + 1
    BY <1>1, <1>3, <2>3
  <2>5. QED
    BY <1>1, <1>2, <2>1, <2>4
<1>8. CASE IsLetters(c)
  <2>1. PICK e \in i .. n + 1 : /\ e = Until(t, i, Spaces \cup Marks)
                                /\ e <= n => t[e] \in Spaces \cup Marks
    BY <1>1, <1>3, UntilFacts
  <2>2. e # i
    BY <1>3, <1>4, <1>8, <2>1 DEF IsLetters
  <2>3. \E type, value : Lexeme(t, i) = Emit(e, type, value)
    <3>1. \E type, value : Name(t, i) = Emit(e, type, value)
      BY <2>1 DEF Name
    <3>2. QED
      BY <1>8, <1>15, <3>1
  <2>4. e \in i + 1 .. n + 1
    BY <1>3, <2>1, <2>2
  <2>5. QED
    BY <1>1, <1>2, <2>3, <2>4
<1>9. CASE c \in Digits
  <2> DEFINE digits(j) == IF j <= Len(t) /\ t[j] \in Digits THEN j + 1 ELSE j
             whole == digits(i)
             end   == IF whole <= Len(t) /\ t[whole] = "." THEN digits(whole + 1) ELSE whole
  <2>1. \E type, value : Lexeme(t, i) = Emit(end, type, value)
    <3>1. \E type, value : Number(t, i) = Emit(end, type, value)
      BY DEF Number
    <3>2. QED
      BY <1>9, <1>15, <3>1
  <2>2. whole = i + 1
    BY <1>1, <1>3, <1>4, <1>9
  <2>3. end \in i + 1 .. n + 1
    BY <1>1, <1>3, <2>2
  <2> HIDE DEF end
  <2>4. QED
    BY <1>1, <1>2, <2>1, <2>3
<1>10. CASE c = "'"
  <2>1. PICK j \in 1 .. n + 1 : j = i + 1
    BY <1>3
  <2>2. Strings(t)[j].at \in (IF j <= n THEN j + 1 ELSE n + 1) .. n + 1
    BY <1>1, <2>1, StringsUnfold
  <2>3. Strings(t)[j].at \in i + 1 .. n + 1
    BY <1>3, <2>1, <2>2
  <2>4. \E type, value : Lexeme(t, i) = Emit(Strings(t)[j].at, type, value)
    BY <1>4, <1>10, <2>1, LexemeOf DEF StringLiteral
  <2>5. QED
    BY <1>1, <1>2, <2>3, <2>4
<1>11. CASE c = "\""
  <2>1. i + 1 \in 1 .. Len(t) + 1
    BY <1>1, <1>3
  <2>2. PICK e \in i + 1 .. n + 1 : e = Until(t, i + 1, {"\""})
    BY <1>1, <2>1, UntilFacts
  <2>3. \E type, value : Lexeme(t, i) = Emit(IF e <= Len(t) THEN e + 1 ELSE e, type, value)
    BY <1>4, <1>11, <2>2, LexemeOf DEF QuotedName
  <2>4. (IF e <= Len(t) THEN e + 1 ELSE e) \in i + 1 .. n + 1
    BY <1>1, <1>3
  <2>5. QED
    BY <1>1, <1>2, <2>3, <2>4
<1>12. CASE Pair(t, i) \in Pairs
  <2>1. i + 2 \in i + 1 .. n + 1
    BY <1>1, <1>3, <1>12, PairFacts
  <2>2. QED
    BY <1>1, <1>2, <1>12, <1>15, <2>1
<1>13. CASE c \in Marks \ {"'", "\""} /\ Pair(t, i) \notin Pairs \cup {<<"-", "-">>, <<"/", "*">>}
  <2>1. Lexeme(t, i) = Mark(t, i)
    BY <1>4, <1>13, LexemeOf
  <2>2. \/ Mark(t, i) = Emit(i + 1, "SYMBOL", t[i])
        \/ Mark(t, i) = Emit(i + 1, "OPERATOR", t[i])
        \/ Mark(t, i) = [at |-> Len(t) + 1, tokens |-> <<Unexpected>>]
    BY DEF Mark
  <2>3. i + 1 \in i + 1 .. n + 1 /\ n + 1 \in i + 1 .. n + 1
    BY <1>3
  <2>4. QED
    BY <1>1, <1>2, <2>1, <2>2, <2>3
<1>14. QED
  BY <1>4, <1>5, <1>6, <1>7, <1>8, <1>9, <1>10, <1>11, <1>12, <1>13 DEF IsLetters

\* The tokens from every position on.
LEMMA TokensUnfold ==
    ASSUME NEW C, NEW t \in Seq(C)
    PROVE  /\ \A i \in 1 .. Len(t) : /\ Tokens(t)[i] = Lexeme(t, i).tokens \o Tokens(t)[Lexeme(t, i).at]
           /\ Tokens(t)[Len(t) + 1] = <<>>
           /\ \E T : Tokens(t) \in [1 .. Len(t) + 1 -> Seq(T)] /\ \A i \in 1 .. Len(t) : Lexeme(t, i).tokens \in Seq(T)
<1>0. PICK N \in Nat : N = Len(t) + 1
  OBVIOUS
<1> DEFINE T == {Lexeme(t, i).tokens[1] : i \in 1 .. Len(t)}
           V == Seq(T)
           F == [i \in 1 .. N |-> [f \in [1 .. N -> V] |-> TokensFrom(f, t, i)]]
<1>1. V # {}
  BY EmptySeq
<1>2. \A i \in 1 .. Len(t) : Lexeme(t, i).tokens \in V /\ Lexeme(t, i).at \in i + 1 .. N
  <2>1. ASSUME NEW i \in 1 .. Len(t)
        PROVE  Lexeme(t, i).tokens \in V
    <3>1. Lexeme(t, i).tokens[1] \in T
      OBVIOUS
    <3> HIDE DEF T
    <3>2. CASE Lexeme(t, i).tokens = <<>>
      BY <3>2, EmptySeq
    <3>3. ASSUME NEW x, Lexeme(t, i).tokens = <<x>>
          PROVE  Lexeme(t, i).tokens \in V
      <4>1. x \in T
        BY <3>1, <3>3
      <4>2. QED
        BY <3>3, <4>1
    <3>4. QED
      BY <3>2, <3>3, LexemeAdvances
  <2>2. QED
    BY <1>0, <2>1, LexemeAdvances
<1>3. ASSUME NEW i \in 1 .. N, NEW f \in [1 .. N -> V]
      PROVE  TokensFrom(f, t, i) \in V
  <2>1. CASE i > Len(t)
    <3>1. TokensFrom(f, t, i) = <<>>
      BY <2>1 DEF TokensFrom
    <3>2. QED
      BY <3>1, EmptySeq
  <2>2. CASE ~(i > Len(t))
    <3>1. TokensFrom(f, t, i) = Lexeme(t, i).tokens \o f[Lexeme(t, i).at]
      BY <2>2 DEF TokensFrom
    <3>2. i \in 1 .. Len(t)
      BY <1>0, <2>2
    <3>3. Lexeme(t, i).tokens \in V /\ Lexeme(t, i).at \in 1 .. N
      <4> HIDE DEF V
      <4>1. PICK at \in i + 1 .. N : at = Lexeme(t, i).at /\ Lexeme(t, i).tokens \in V
        BY <1>2, <3>2
      <4>2. at \in 1 .. N
        OBVIOUS
      <4>3. QED
        BY <4>1, <4>2
    <3> HIDE DEF T
    <3>4. QED
      BY <3>1, <3>3
  <2>3. QED
    BY <2>1, <2>2
<1>4. F \in [1 .. N -> [[1 .. N -> V] -> V]]
  <2> HIDE DEF V
  <2>1. QED
    BY <1>3
<1>5. LooksAhead(F, N, V)
  <2>1. ASSUME NEW i \in 1 .. N, NEW f \in [1 .. N -> V], NEW g \in [1 .. N -> V],
               \A m \in 1 .. N : m > i => f[m] = g[m]
        PROVE  TokensFrom(f, t, i) = TokensFrom(g, t, i)
    <3>1. i <= Len(t) => Lexeme(t, i).at \in 1 .. N /\ Lexeme(t, i).at > i
      <4>1. ASSUME i <= Len(t)
            PROVE  Lexeme(t, i).at \in i + 1 .. N
        <5>1. i \in 1 .. Len(t)
          BY <1>0, <4>1
        <5> HIDE DEF V
        <5>2. QED
          BY <1>2, <5>1
      <4>2. \A at \in i + 1 .. N : at \in 1 .. N /\ at > i
        OBVIOUS
      <4>3. QED
        BY <4>1, <4>2
    <3> HIDE DEF V
    <3>2. ~(i > Len(t)) <=> i <= Len(t)
      BY <1>0
    <3>3. i <= Len(t) => f[Lexeme(t, i).at] = g[Lexeme(t, i).at]
      BY <2>1, <3>1
    <3>4. QED
      BY <3>2, <3>3 DEF TokensFrom
  <2> HIDE DEF V
  <2>2. QED
    BY <2>1 DEF LooksAhead
<1>6. PICK f \in [1 .. N -> V] : Unfolds(f, F, N, 1)
  <2> HIDE DEF F, V
  <2>1. QED
    BY <1>1, <1>4, <1>5, Recursion
<1> DEFINE R == [i \in 1 .. Len(t) + 1 |-> TokensFrom(f, t, i)]
<1> HIDE DEF V
<1>7. f = R
  BY <1>0, <1>6 DEF Unfolds
<1>8. Tokens(t) = [i \in 1 .. Len(t) + 1 |-> TokensFrom(Tokens(t), t, i)]
  <2> HIDE DEF F
  <2>1. QED
    BY <1>7 DEF Tokens
<1> DEFINE Z == Tokens(t)
<1> HIDE DEF F
<1>9. \A i \in 1 .. N : Z[i] = TokensFrom(Z, t, i)
  BY <1>0, <1>8
<1> DEFINE Good == {i \in 1 .. N : Z[i] \in V}
<1>10. Hereditary(Good, N)
  <2>1. ASSUME NEW i \in 1 .. N, \A m \in 1 .. N : m > i => m \in Good
        PROVE  Z[i] \in V
    <3> HIDE DEF Z, T
    <3>1. CASE i > Len(t)
      <4>1. Z[i] = <<>>
        BY <1>9, <3>1 DEF TokensFrom
      <4>2. QED
        BY <4>1, EmptySeq DEF V
    <3>2. CASE ~(i > Len(t))
      <4>1. Z[i] = Lexeme(t, i).tokens \o Z[Lexeme(t, i).at]
        BY <1>9, <3>2 DEF TokensFrom
      <4>2. i \in 1 .. Len(t)
        BY <1>0, <3>2
      <4>3. Lexeme(t, i).tokens \in V /\ Lexeme(t, i).at \in 1 .. N /\ Lexeme(t, i).at > i
        BY <1>0, <1>2, <4>2
      <4>4. Z[Lexeme(t, i).at] \in V
        BY <2>1, <4>3
      <4>5. QED
        BY <4>1, <4>3, <4>4 DEF V
    <3>3. QED
      BY <3>1, <3>2
  <2>2. QED
    BY <2>1 DEF Hereditary
<1> HIDE DEF Z
<1>11. 1 .. N \subseteq Good
  <2> HIDE DEF Good
  <2>1. QED
    BY <1>10, Downwards
<1>12. Z \in [1 .. Len(t) + 1 -> V]
  <2>1. Z = [i \in 1 .. Len(t) + 1 |-> TokensFrom(Z, t, i)]
    BY <1>8 DEF Z
  <2>2. \A i \in 1 .. N : Z[i] \in V
    BY <1>11
  <2>3. QED
    BY <1>0, <2>1, <2>2
<1>13. /\ \A i \in 1 .. Len(t) : Z[i] = Lexeme(t, i).tokens \o Z[Lexeme(t, i).at]
       /\ Z[Len(t) + 1] = <<>>
  <2>1. N \in 1 .. N /\ N > Len(t) /\ N = Len(t) + 1
    BY <1>0
  <2>2. \A i \in 1 .. Len(t) : i \in 1 .. N /\ ~(i > Len(t))
    BY <1>0
  <2> HIDE DEF T
  <2>3. QED
    BY <1>9, <2>1, <2>2 DEF TokensFrom
<1>14. QED
  BY <1>2, <1>12, <1>13 DEF Z, V

-----------------------------------------------------------------------------
(* A text that is cut off *)

\* The least element of a set is the minimum that the community module chooses.
LEMMA MinIs ==
    ASSUME NEW S, S \subseteq Nat, NEW m \in S, \A y \in S : m <= y
    PROVE  Min(S) = m
<1>1. \E x \in S : \A y \in S : x <= y
  OBVIOUS
<1>2. PICK k \in S : k = Min(S) /\ \A y \in S : k <= y
  BY <1>1 DEF Min
<1>3. k <= m /\ m <= k
  BY <1>2
<1>4. QED
  BY <1>2, <1>3

\* u is the first characters of t.
Begins(u, t) == Len(u) <= Len(t) /\ \A j \in 1 .. Len(u) : u[j] = t[j]

\* What is cut out of the first characters is the same in both texts.
LEMMA SameParts ==
    ASSUME NEW C, NEW t \in Seq(C), NEW u \in Seq(C), Begins(u, t),
           NEW a \in Nat, NEW b \in Int, a >= 1, b <= Len(u)
    PROVE  SubSeq(u, a, b) = SubSeq(t, a, b)
<1>1. PICK n \in Nat, m \in Nat : n = Len(u) /\ m = Len(t) /\ n <= m
  BY DEF Begins
<1>2. \A k \in 1 .. b - a + 1 : a + k - 1 \in 1 .. n
  BY <1>1
<1>3. \A k \in 1 .. b - a + 1 : u[a + k - 1] = t[a + k - 1]
  BY <1>1, <1>2 DEF Begins
<1>4. /\ SubSeq(u, a, b) = [k \in 1 .. b - a + 1 |-> u[a + k - 1]]
      /\ SubSeq(t, a, b) = [k \in 1 .. b - a + 1 |-> t[a + k - 1]]
  OBVIOUS
<1>5. QED
  BY <1>3, <1>4

\* A search that ends before the cut ends where it does in the whole text.
LEMMA UntilCut ==
    ASSUME NEW C, NEW t \in Seq(C), NEW u \in Seq(C), Begins(u, t),
           NEW i \in 1 .. Len(u), NEW stops, Until(u, i, stops) <= Len(u)
    PROVE  Until(u, i, stops) = Until(t, i, stops) /\ Until(u, i, stops) \in i .. Len(u)
<1>1. PICK n \in Nat, m \in Nat : n = Len(u) /\ m = Len(t) /\ n <= m
  BY DEF Begins
<1>2. i \in 1 .. n + 1 /\ i \in 1 .. m + 1
  BY <1>1
<1>3. PICK e \in i .. n + 1 : /\ e = Until(u, i, stops)
                              /\ e <= n => u[e] \in stops
                              /\ \A j \in i .. e - 1 : u[j] \notin stops
  BY <1>1, <1>2, UntilFacts
<1>4. e \in i .. n /\ e \in i .. m + 1
  BY <1>1, <1>3
<1>5. t[e] \in stops /\ \A j \in i .. e - 1 : t[j] \notin stops
  <2>1. e \in 1 .. n /\ \A j \in i .. e - 1 : j \in 1 .. n
    BY <1>2, <1>4
  <2>2. QED
    BY <1>1, <1>3, <1>4, <2>1 DEF Begins
<1>6. Until(t, i, stops) = e
  BY <1>1, <1>2, <1>4, <1>5, UntilIs
<1>7. QED
  BY <1>1, <1>3, <1>4, <1>6

\* A string that ends before the cut.
LEMMA StringCut ==
    ASSUME NEW C, NEW t \in Seq(C), NEW u \in Seq(C), Begins(u, t)
    PROVE  \A j \in 1 .. Len(u) : Strings(u)[j].at <= Len(u) => Strings(u)[j] = Strings(t)[j]
<1>1. PICK n \in Nat, m \in Nat : n = Len(u) /\ m = Len(t) /\ n <= m
  BY DEF Begins
<1> DEFINE U == Strings(u)
           T == Strings(t)
           S == {j \in 1 .. n : U[j].at <= n => U[j] = T[j]}
<1>2. /\ \A j \in 1 .. n + 2 : U[j] = StringFrom(U, u, j)
      /\ \A j \in 1 .. m + 2 : T[j] = StringFrom(T, t, j)
      /\ \A j \in 1 .. n : u[j] = t[j]
  BY <1>1, StringsUnfold DEF Begins
<1>9. \A j \in n + 1 .. n + 2 : U[j].at = n + 1
  <2>1. ASSUME NEW j \in n + 1 .. n + 2
        PROVE  U[j].at = n + 1
    <3>1. j \in 1 .. n + 2 /\ ~(j <= n)
      OBVIOUS
    <3>2. U[j].at \in (IF j <= n THEN j + 1 ELSE n + 1) .. n + 1
      BY <1>1, <3>1, StringsUnfold
    <3> HIDE DEF U
    <3>3. QED
      BY <3>1, <3>2
  <2>2. QED
    BY <2>1
<1> HIDE DEF U, T
<1>3. Hereditary(S, n)
  <2>1. ASSUME NEW j \in 1 .. n, \A k \in 1 .. n : k > j => k \in S, U[j].at <= n
        PROVE  U[j] = T[j]
    <3>1. U[j] = StringFrom(U, u, j) /\ T[j] = StringFrom(T, t, j) /\ u[j] = t[j]
      BY <1>1, <1>2
    <3>2. CASE u[j] # "'"
      <4>1. /\ U[j] = [U[j + 1] EXCEPT !.chars = <<u[j]>> \o @]
            /\ T[j] = [T[j + 1] EXCEPT !.chars = <<u[j]>> \o @]
        BY <1>1, <3>1, <3>2 DEF StringFrom
      <4>2. U[j + 1].at <= n
        <5>1. PICK r : r = U[j + 1]
          OBVIOUS
        <5>2. U[j] = [r EXCEPT !.chars = <<u[j]>> \o r.chars]
          BY <4>1, <5>1
        <5>3. j + 1 \in 1 .. n + 2
          BY <1>1
        <5>4. r.at = U[j].at
          <6>1. r = StringFrom(U, u, j + 1)
            BY <1>2, <5>1, <5>3
          <6>2. QED
            BY <5>2
        <5>5. QED
          BY <2>1, <5>1, <5>4
      <4>3. j + 1 \in 1 .. n
        <5>1. j + 1 \in 1 .. n \/ j + 1 \in n + 1 .. n + 2
          BY <1>1
        <5>2. QED
          BY <1>1, <1>9, <4>2, <5>1
      <4>4. U[j + 1] = T[j + 1]
        BY <1>1, <2>1, <4>2, <4>3
      <4>5. QED
        BY <4>1, <4>4
    <3>3. CASE u[j] = "'" /\ j < n /\ u[j + 1] = "'"
      <4>0. j + 1 \in 1 .. n /\ u[j + 1] = t[j + 1] /\ j < m
        BY <1>1, <1>2, <3>3
      <4>1. /\ U[j] = [U[j + 2] EXCEPT !.chars = <<"'">> \o @]
            /\ T[j] = [T[j + 2] EXCEPT !.chars = <<"'">> \o @]
        BY <1>1, <3>1, <3>3, <4>0 DEF StringFrom
      <4>2. U[j + 2].at <= n
        <5>1. PICK r : r = U[j + 2]
          OBVIOUS
        <5>2. U[j] = [r EXCEPT !.chars = <<"'">> \o r.chars]
          BY <4>1, <5>1
        <5>4. r.at = U[j].at
          BY <5>2
        <5>5. QED
          BY <2>1, <5>1, <5>4
      <4>3. j + 2 \in 1 .. n
        <5>1. j + 2 \in 1 .. n \/ j + 2 \in n + 1 .. n + 2
          BY <1>1, <3>3
        <5>2. QED
          BY <1>1, <1>9, <4>2, <5>1
      <4>4. U[j + 2] = T[j + 2]
        BY <1>1, <2>1, <4>2, <4>3
      <4>5. QED
        BY <4>1, <4>4
    <3>4. CASE u[j] = "'" /\ ~(j < n /\ u[j + 1] = "'")
      <4>1. U[j] = [at |-> j + 1, chars |-> <<>>]
        BY <1>1, <3>1, <3>4 DEF StringFrom
      <4>2. j + 1 <= n
        BY <2>1, <4>1
      <4>3. j + 1 \in 1 .. n /\ u[j + 1] = t[j + 1]
        BY <1>1, <1>2, <4>2
      <4>4. t[j] = "'" /\ t[j + 1] # "'" /\ j <= m
        BY <1>1, <3>1, <3>4, <4>2, <4>3
      <4>5. T[j] = [at |-> j + 1, chars |-> <<>>]
        BY <1>1, <3>1, <4>4 DEF StringFrom
      <4>6. QED
        BY <4>1, <4>5
    <3>5. QED
      BY <3>2, <3>3, <3>4
  <2>2. QED
    BY <2>1 DEF Hereditary
<1>4. 1 .. n \subseteq S
  <2> HIDE DEF S
  <2>1. QED
    BY <1>3, Downwards
<1>5. QED
  BY <1>1, <1>4 DEF U, T

\* What ends before the cut is read as in the whole text.
LEMMA LexemeCut ==
    ASSUME NEW C, NEW t \in Seq(C), NEW u \in Seq(C), Begins(u, t),
           NEW i \in 1 .. Len(u), Lexeme(u, i).at <= Len(u)
    PROVE  Lexeme(u, i) = Lexeme(t, i)
<1>1. PICK n \in Nat, m \in Nat : n = Len(u) /\ m = Len(t) /\ n <= m
  BY DEF Begins
<1>2. i < n
  BY <1>1, LexemeAdvances
<1>3. \A j \in 1 .. n : u[j] = t[j]
  BY <1>1 DEF Begins
<1>4. PICK c : c = u[i] /\ c = t[i]
  BY <1>1, <1>3
<1>5. Pair(u, i) = Pair(t, i)
  BY <1>1, <1>2, <1>3 DEF Pair
<1>6. PICK v \in {u, t} : TRUE
  OBVIOUS
<1>7. CASE c \in Spaces
  BY <1>4, <1>7, LexemeOf
<1>8. CASE Pair(u, i) = <<"-", "-">>
  <2>1. Lexeme(u, i) = Skip(Until(u, i, {"\n"})) /\ Lexeme(t, i) = Skip(Until(t, i, {"\n"}))
    BY <1>4, <1>5, <1>8, LexemeOf DEF LineComment
  <2>2. Until(u, i, {"\n"}) <= Len(u)
    BY <2>1 DEF Skip
  <2>3. QED
    BY <2>1, <2>2, UntilCut
<1>9. CASE Pair(u, i) = <<"/", "*">>
  <2> DEFINE ends(x) == {j \in i + 2 .. Len(x) - 1 : x[j] = "*" /\ x[j + 1] = "/"}
             at(x) == IF ends(x) = {} THEN Len(x) + 1 ELSE Min(ends(x)) + 2
  <2>1. Lexeme(u, i) = Skip(at(u)) /\ Lexeme(t, i) = Skip(at(t))
    BY <1>4, <1>5, <1>9, LexemeOf DEF BlockComment
  <2>2. at(u) <= n
    BY <1>1, <2>1 DEF Skip
  <2>3. ends(u) # {}
    BY <1>1, <2>2
  <2>4. ends(u) \subseteq Nat /\ ends(t) \subseteq Nat
    BY <1>1
  <2>5. PICK e \in ends(u) : e = Min(ends(u)) /\ \A y \in ends(u) : e <= y
    <3> DEFINE E == ends(u)
    <3>1. E # {} /\ E \subseteq Nat
      BY <2>3, <2>4
    <3> HIDE DEF E
    <3>2. PICK e \in E : \A y \in E : e <= y
      BY <3>1, LeastElement
    <3>3. Min(E) = e
      BY <3>1, <3>2, MinIs
    <3>4. QED
      BY <3>2, <3>3 DEF E
  <2>6. e + 2 <= n
    BY <1>1, <2>2, <2>3, <2>5
  <2>7. e \in ends(t)
    BY <1>1, <1>3, <2>5, <2>6
  <2>8. ASSUME NEW y \in ends(t)
        PROVE  e <= y
    <3>1. SUFFICES ASSUME y < e
                   PROVE  FALSE
      BY <1>1, <2>4, <2>5, <2>8
    <3>2. y \in i + 2 .. n - 1 /\ y \in 1 .. n /\ y + 1 \in 1 .. n
      BY <1>1, <2>6, <3>1
    <3>3. y \in ends(u)
      BY <1>1, <1>3, <2>8, <3>2
    <3>4. QED
      BY <1>1, <2>5, <3>1, <3>3
  <2>9. Min(ends(t)) = e
    <3> DEFINE E == ends(t)
    <3>1. E \subseteq Nat /\ e \in E /\ \A y \in E : e <= y
      BY <2>4, <2>7, <2>8
    <3> HIDE DEF E
    <3>2. Min(E) = e
      BY <3>1, MinIs
    <3>3. QED
      BY <3>2 DEF E
  <2>10. at(u) = at(t)
    BY <2>3, <2>5, <2>7, <2>9
  <2>11. QED
    BY <2>1, <2>10
<1>10. CASE IsLetters(c)
  <2> DEFINE E(x) == Until(x, i, Spaces \cup Marks)
             word(x) == Spelt(SubSeq(x, i, E(x) - 1))
  <2>1. /\ Lexeme(u, i) = Emit(E(u), IF word(u) \in Keywords THEN "KEYWORD" ELSE "IDENTIFIER", word(u))
        /\ Lexeme(t, i) = Emit(E(t), IF word(t) \in Keywords THEN "KEYWORD" ELSE "IDENTIFIER", word(t))
    BY <1>4, <1>10, LexemeOf DEF Name
  <2>2. E(u) <= Len(u)
    BY <2>1 DEF Emit
  <2>3. E(u) = E(t) /\ E(u) \in i .. Len(u)
    BY <2>2, UntilCut
  <2>4. SubSeq(u, i, E(u) - 1) = SubSeq(t, i, E(t) - 1)
    <3>1. PICK e \in i .. Len(u) : e = E(u) /\ e = E(t)
      BY <2>3
    <3>2. e - 1 \in Int /\ e - 1 <= Len(u) /\ i \in Nat /\ i >= 1
      BY <1>1
    <3>3. SubSeq(u, i, e - 1) = SubSeq(t, i, e - 1)
      BY <3>2, SameParts
    <3>4. QED
      BY <3>1, <3>3
  <2>5. word(u) = word(t)
    BY <2>4
  <2> HIDE DEF word, E
  <2>6. QED
    BY <2>1, <2>3, <2>5
<1>11. CASE c \in Digits
  <2> DEFINE digits(x, j) == IF j <= Len(x) /\ x[j] \in Digits THEN j + 1 ELSE j
             whole(x) == digits(x, i)
             end(x) == IF whole(x) <= Len(x) /\ x[whole(x)] = "." THEN digits(x, whole(x) + 1) ELSE whole(x)
  <2>1. /\ Lexeme(u, i) = Emit(end(u), "NUMBER", Spelt(SubSeq(u, i, end(u) - 1)))
        /\ Lexeme(t, i) = Emit(end(t), "NUMBER", Spelt(SubSeq(t, i, end(t) - 1)))
    <3>1. Lexeme(u, i) = Number(u, i) /\ Lexeme(t, i) = Number(t, i)
      BY <1>4, <1>11, LexemeOf
    <3>2. QED
      BY <3>1 DEF Number
  <2>2. end(u) <= n
    BY <1>1, <2>1 DEF Emit
  <2>3. whole(u) = i + 1 /\ whole(t) = i + 1
    BY <1>1, <1>2, <1>4, <1>11
  <2>4. u[i + 1] = t[i + 1]
    BY <1>1, <1>2, <1>3
  <2>5. u[i + 1] = "." => i + 2 <= n /\ u[i + 2] = t[i + 2]
    <3>1. ASSUME u[i + 1] = ".", i + 2 > n
          PROVE  FALSE
      BY <1>1, <1>2, <2>2, <2>3, <3>1
    <3>2. QED
      BY <1>1, <1>2, <1>3, <3>1
  <2>6. end(u) = end(t) /\ end(u) \in i + 1 .. n
    BY <1>1, <1>2, <2>2, <2>3, <2>4, <2>5
  <2> HIDE DEF end
  <2>7. SubSeq(u, i, end(u) - 1) = SubSeq(t, i, end(t) - 1)
    <3>1. PICK e \in i + 1 .. n : e = end(u) /\ e = end(t)
      BY <2>6
    <3>2. e - 1 \in Int /\ e - 1 <= Len(u) /\ i \in Nat /\ i >= 1
      BY <1>1
    <3>3. SubSeq(u, i, e - 1) = SubSeq(t, i, e - 1)
      BY <3>2, SameParts
    <3>4. QED
      BY <3>1, <3>3
  <2>8. QED
    BY <2>1, <2>6, <2>7
<1>12. CASE c = "'"
  <2>1. /\ Lexeme(u, i) = Emit(Strings(u)[i + 1].at, "STRING", Spelt(Strings(u)[i + 1].chars))
        /\ Lexeme(t, i) = Emit(Strings(t)[i + 1].at, "STRING", Spelt(Strings(t)[i + 1].chars))
    <3>1. Lexeme(u, i) = StringLiteral(u, i) /\ Lexeme(t, i) = StringLiteral(t, i)
      BY <1>4, <1>12, LexemeOf
    <3>2. QED
      BY <3>1 DEF StringLiteral
  <2>2. Strings(u)[i + 1].at <= Len(u)
    BY <2>1 DEF Emit
  <2>3. i + 1 \in 1 .. Len(u)
    BY <1>1, <1>2
  <2>4. Strings(u)[i + 1] = Strings(t)[i + 1]
    BY <2>2, <2>3, StringCut
  <2>5. QED
    BY <2>1, <2>4
<1>13. CASE c = "\""
  <2> DEFINE E(x) == Until(x, i + 1, {"\""})
             at(x) == IF E(x) <= Len(x) THEN E(x) + 1 ELSE E(x)
  <2>1. /\ Lexeme(u, i) = Emit(at(u), "IDENTIFIER", Spelt(SubSeq(u, i + 1, E(u) - 1)))
        /\ Lexeme(t, i) = Emit(at(t), "IDENTIFIER", Spelt(SubSeq(t, i + 1, E(t) - 1)))
    <3>1. Lexeme(u, i) = QuotedName(u, i) /\ Lexeme(t, i) = QuotedName(t, i)
      BY <1>4, <1>13, LexemeOf
    <3>2. QED
      BY <3>1 DEF QuotedName
  <2>2. i + 1 \in 1 .. Len(u) /\ i + 1 \in 1 .. Len(u) + 1
    BY <1>1, <1>2
  <2>3. at(u) <= Len(u)
    <3> HIDE DEF at, E
    <3>1. QED
      BY <2>1 DEF Emit
  <2>4. E(u) \in i + 1 .. Len(u) + 1
    BY <2>2, UntilFacts
  <2>5. E(u) <= Len(u)
    BY <1>1, <2>3, <2>4
  <2>6. E(u) = E(t) /\ E(u) \in i + 1 .. Len(u)
    BY <2>2, <2>5, UntilCut
  <2>7. PICK e \in i + 1 .. n : e = E(u) /\ e = E(t)
    BY <1>1, <2>6
  <2>8. at(u) = at(t)
    <3> HIDE DEF E
    <3>1. at(u) = e + 1 /\ at(t) = e + 1
      BY <1>1, <2>7
    <3>2. QED
      BY <3>1
  <2>9. SubSeq(u, i + 1, e - 1) = SubSeq(t, i + 1, e - 1)
    <3>1. e - 1 \in Int /\ e - 1 <= Len(u) /\ i + 1 \in Nat /\ i + 1 >= 1
      BY <1>1
    <3>2. QED
      BY <3>1, SameParts
  <2> HIDE DEF at
  <2>10. QED
    BY <2>1, <2>7, <2>8, <2>9
<1>14. CASE Pair(u, i) \in Pairs
  BY <1>4, <1>5, <1>14, LexemeOf
<1>15. CASE c \in Marks \ {"'", "\""} /\ Pair(u, i) \notin Pairs \cup {<<"-", "-">>, <<"/", "*">>}
  <2>1. Lexeme(u, i) = Mark(u, i) /\ Lexeme(t, i) = Mark(t, i)
    BY <1>4, <1>5, <1>15, LexemeOf
  <2>6. Symbols \cap Operators = {}
    BY DEF Symbols, Operators
  <2>2. CASE c \in Symbols
    BY <1>4, <2>1, <2>2, <2>6 DEF Mark
  <2>3. CASE c \notin Symbols /\ c \in Operators
    BY <1>4, <2>1, <2>3 DEF Mark
  <2>4. CASE c \notin Symbols /\ c \notin Operators
    <3>1. Lexeme(u, i) = [at |-> Len(u) + 1, tokens |-> <<Unexpected>>]
      BY <1>4, <2>1, <2>4 DEF Mark
    <3>2. QED
      BY <1>1, <3>1
  <2>5. QED
    BY <2>2, <2>3, <2>4
<1>16. QED
  BY <1>7, <1>8, <1>9, <1>10, <1>11, <1>12, <1>13, <1>14, <1>15 DEF IsLetters

\* One sequence after another.
LEMMA Concat ==
    ASSUME NEW S, NEW a \in Seq(S), NEW b \in Seq(S)
    PROVE  /\ a \o b \in Seq(S) /\ Len(a \o b) = Len(a) + Len(b)
           /\ \A i \in 1 .. Len(a) : (a \o b)[i] = a[i]
           /\ \A i \in 1 .. Len(b) : (a \o b)[Len(a) + i] = b[i]
OBVIOUS

\* A token put before two sequences, and the empty sequence beside one.
LEMMA Around ==
    ASSUME NEW S, NEW s \in Seq(S), NEW r \in Seq(S), NEW x \in S
    PROVE  /\ <<>> \o s = s /\ s \o <<>> = s
           /\ <<x>> \o (s \o r) = (<<x>> \o s) \o r
           /\ IsPrefix(s, s \o r)
<1>1. /\ <<>> \o s \in Seq(S) /\ s \o <<>> \in Seq(S) /\ <<x>> \in Seq(S)
      /\ Len(<<>> \o s) = Len(s) /\ Len(s \o <<>>) = Len(s) /\ Len(<<x>>) = 1 /\ <<x>>[1] = x
      /\ Len(s) \in Nat /\ Len(r) \in Nat
  BY EmptySeq
<1>2. <<>> \o s = s
  BY <1>1, SameSequence
<1>3. s \o <<>> = s
  BY <1>1, SameSequence
<1>4. <<x>> \o (s \o r) = (<<x>> \o s) \o r
  <2>1. PICK h \in Seq(S) : h = <<x>> /\ Len(h) = 1
    BY <1>1
  <2>2. PICK b \in Seq(S) : b = s \o r
    BY Concat
  <2>3. PICK c \in Seq(S) : c = h \o s
    BY Concat
  <2>4. PICK left \in Seq(S) : left = h \o b
    BY Concat
  <2>5. PICK right \in Seq(S) : right = c \o r
    BY Concat
  <2>6. Len(b) = Len(s) + Len(r) /\ Len(c) = 1 + Len(s)
    BY <2>1, <2>2, <2>3, Concat
  <2>7. Len(left) = 1 + Len(b) /\ Len(right) = Len(c) + Len(r)
    BY <2>1, <2>4, <2>5, Concat
  <2>8. /\ \A i \in 1 .. Len(s) : b[i] = s[i]
        /\ \A i \in 1 .. Len(r) : b[Len(s) + i] = r[i]
    BY <2>2, Concat
  <2>9. /\ left[1] = h[1] /\ c[1] = h[1]
        /\ \A i \in 1 .. Len(b) : left[1 + i] = b[i]
        /\ \A i \in 1 .. Len(s) : c[1 + i] = s[i]
    <3>1. 1 \in 1 .. Len(h)
      BY <2>1
    <3>2. QED
      BY <2>1, <2>3, <2>4, <3>1, Concat
  <2>10. /\ \A i \in 1 .. Len(c) : right[i] = c[i]
         /\ \A i \in 1 .. Len(r) : right[Len(c) + i] = r[i]
    BY <2>5, Concat
  <2>11. ASSUME NEW i \in 1 .. Len(left)
         PROVE  left[i] = right[i]
    <3>1. CASE i = 1
      BY <1>1, <2>6, <2>9, <2>10, <3>1
    <3>2. CASE i # 1
      <4>1. PICK k \in 1 .. Len(b) : i = 1 + k
        BY <1>1, <2>6, <2>7, <3>2
      <4>2. left[i] = b[k]
        BY <2>9, <4>1
      <4>3. CASE k <= Len(s)
        <5>1. k \in 1 .. Len(s) /\ i \in 1 .. Len(c)
          BY <1>1, <2>6, <4>1, <4>3
        <5>2. QED
          BY <2>8, <2>9, <2>10, <4>1, <4>2, <5>1
      <4>4. CASE k > Len(s)
        <5>1. PICK m \in 1 .. Len(r) : k = Len(s) + m
          <6>1. k - Len(s) \in 1 .. Len(r) /\ k = Len(s) + (k - Len(s))
            BY <1>1, <2>6, <4>4
          <6>2. QED
            BY <6>1
        <5>2. i = Len(c) + m
          BY <1>1, <2>6, <4>1, <5>1
        <5>3. QED
          BY <2>8, <2>10, <4>2, <5>1, <5>2
      <4>5. QED
        BY <1>1, <4>3, <4>4
    <3>3. QED
      BY <3>1, <3>2
  <2>12. Len(left) = Len(right)
    BY <1>1, <2>6, <2>7
  <2>13. left = right
    BY <2>11, <2>12, SameSequence
  <2>14. QED
    BY <2>1, <2>2, <2>3, <2>4, <2>5, <2>13
<1>7. IsPrefix(s, s \o r)
  <2>1. PICK a \in Seq(S) : a = s \o r
    BY Concat
  <2>2. Len(a) = Len(s) + Len(r) /\ \A i \in 1 .. Len(s) : a[i] = s[i]
    BY <2>1
  <2>3. \A i \in 1 .. Len(s) : i \in 1 .. Len(a) /\ i \in DOMAIN a
    BY <1>1, <2>2
  <2>4. Len(s) <= Len(a)
    BY <1>1, <2>2
  <2>5. SubSeq(a, 1, Len(s)) = s /\ SubSeq(s, 1, Len(s)) = s
    <3>1. /\ SubSeq(a, 1, Len(s)) \in Seq(S) /\ Len(SubSeq(a, 1, Len(s))) = Len(s)
          /\ \A i \in 1 .. Len(s) : SubSeq(a, 1, Len(s))[i] = a[i]
      BY <1>1, <2>4, PrefixFacts
    <3>2. /\ SubSeq(s, 1, Len(s)) \in Seq(S) /\ Len(SubSeq(s, 1, Len(s))) = Len(s)
          /\ \A i \in 1 .. Len(s) : SubSeq(s, 1, Len(s))[i] = s[i]
      BY <1>1, PrefixFacts
    <3>3. SubSeq(a, 1, Len(s)) = s
      BY <2>2, <3>1, SameSequence
    <3>4. SubSeq(s, 1, Len(s)) = s
      BY <3>2, SameSequence
    <3>5. QED
      BY <3>3, <3>4
  <2>6. QED
    BY <2>1, <2>2, <2>3, <2>4, <2>5 DEF IsPrefix
<1>8. QED
  BY <1>2, <1>3, <1>4, <1>7

\* All but the last element, with one more element in front.
LEMMA FrontAfter ==
    ASSUME NEW S, NEW s \in Seq(S), NEW x \in S, s # <<>>
    PROVE  Front(<<x>> \o s) = <<x>> \o Front(s) /\ Front(s) \in Seq(S)
<1>1. PICK h \in Seq(S) : h = <<x>> /\ Len(h) = 1 /\ h[1] = x
  <2>1. <<x>> \in Seq(S) /\ Len(<<x>>) = 1 /\ <<x>>[1] = x
    OBVIOUS
  <2>2. QED
    BY <2>1
<1>2. PICK n \in Nat : Len(s) = n + 1
  <2>1. Len(s) \in Nat /\ Len(s) # 0
    OBVIOUS
  <2>2. QED
    BY <2>1
<1>3. PICK a \in Seq(S) : a = h \o s
  BY Concat
<1>4. Len(a) = n + 2 /\ a[1] = x /\ \A i \in 1 .. n + 1 : a[1 + i] = s[i]
  <2>1. 1 \in 1 .. Len(h)
    BY <1>1
  <2>2. Len(a) = 1 + (n + 1)
    BY <1>1, <1>2, <1>3, Concat
  <2>3. a[1] = x /\ \A i \in 1 .. n + 1 : a[1 + i] = s[i]
    BY <1>1, <1>2, <1>3, <2>1, Concat
  <2>4. QED
    BY <2>2, <2>3
<1>5. Front(a) = SubSeq(a, 1, n + 1) /\ Front(s) = SubSeq(s, 1, n)
  BY <1>2, <1>4 DEF Front
<1>6. PICK f \in Seq(S) : f = Front(s) /\ Len(f) = n /\ \A i \in 1 .. n : f[i] = s[i]
  <2>1. n <= Len(s)
    BY <1>2
  <2>2. SubSeq(s, 1, n) \in Seq(S) /\ Len(SubSeq(s, 1, n)) = n /\ \A i \in 1 .. n : SubSeq(s, 1, n)[i] = s[i]
    BY <2>1, PrefixFacts
  <2>3. QED
    BY <1>5, <2>2
<1>7. PICK g \in Seq(S) : g = Front(a) /\ Len(g) = n + 1 /\ \A i \in 1 .. n + 1 : g[i] = a[i]
  <2>1. PICK m \in Nat : m = n + 1 /\ m <= Len(a)
    BY <1>4
  <2>2. QED
    <3>1. SubSeq(a, 1, m) \in Seq(S) /\ Len(SubSeq(a, 1, m)) = m /\ \A i \in 1 .. m : SubSeq(a, 1, m)[i] = a[i]
      BY <2>1, PrefixFacts
    <3>2. QED
      BY <1>5, <2>1, <3>1
<1>8. PICK b \in Seq(S) : b = h \o f
  BY Concat
<1>9. Len(b) = n + 1 /\ b[1] = x /\ \A i \in 1 .. n : b[1 + i] = f[i]
  <2>1. 1 \in 1 .. Len(h)
    BY <1>1
  <2>2. Len(b) = 1 + n
    BY <1>1, <1>6, <1>8, Concat
  <2>3. b[1] = x /\ \A i \in 1 .. n : b[1 + i] = f[i]
    BY <1>1, <1>6, <1>8, <2>1, Concat
  <2>4. QED
    BY <2>2, <2>3
<1>10. ASSUME NEW i \in 1 .. Len(g)
       PROVE  g[i] = b[i]
  <2>1. g[i] = a[i]
    BY <1>7
  <2>2. CASE i = 1
    BY <1>4, <1>9, <2>1, <2>2
  <2>3. CASE i # 1
    <3>1. PICK k \in 1 .. n : i = 1 + k
      BY <1>7, <2>3
    <3>2. k \in 1 .. n + 1
      OBVIOUS
    <3>3. QED
      BY <1>4, <1>6, <1>9, <2>1, <3>1, <3>2
  <2>4. QED
    BY <2>2, <2>3
<1>11. g = b
  BY <1>7, <1>9, <1>10, SameSequence
<1>12. QED
  BY <1>1, <1>3, <1>6, <1>7, <1>8, <1>11

\* The tokens of a text that is cut off are those before the cut, and one more
\* at most.
LEMMA TokensCut ==
    ASSUME NEW C, NEW t \in Seq(C), NEW u \in Seq(C), Begins(u, t)
    PROVE  Tokens(u)[1] = <<>> \/ IsPrefix(Front(Tokens(u)[1]), Tokens(t)[1])
<1>1. PICK n \in Nat, m \in Nat : n = Len(u) /\ m = Len(t) /\ n <= m
  BY DEF Begins
<1>2. PICK T1 : /\ Tokens(u) \in [1 .. n + 1 -> Seq(T1)]
                /\ \A i \in 1 .. n : Lexeme(u, i).tokens \in Seq(T1)
  BY <1>1, TokensUnfold
<1>3. PICK T2 : /\ Tokens(t) \in [1 .. m + 1 -> Seq(T2)]
                /\ \A i \in 1 .. m : Lexeme(t, i).tokens \in Seq(T2)
  BY <1>1, TokensUnfold
<1>4. PICK S : S = T1 \cup T2
  OBVIOUS
<1>5. \A s : (s \in Seq(T1) => s \in Seq(S)) /\ (s \in Seq(T2) => s \in Seq(S))
  BY <1>4
<1> DEFINE U == Tokens(u)
           T == Tokens(t)
           K == {i \in 1 .. n + 1 : U[i] = <<>> \/ \E r \in Seq(S) : T[i] = Front(U[i]) \o r}
<1>6. /\ \A i \in 1 .. n + 1 : U[i] \in Seq(S) /\ T[i] \in Seq(S)
      /\ \A i \in 1 .. n : /\ U[i] = Lexeme(u, i).tokens \o U[Lexeme(u, i).at]
                           /\ T[i] = Lexeme(t, i).tokens \o T[Lexeme(t, i).at]
                           /\ Lexeme(u, i).tokens \in Seq(S)
      /\ U[n + 1] = <<>>
  <2>1. \A i \in 1 .. n + 1 : i \in 1 .. m + 1
    BY <1>1
  <2>2. \A i \in 1 .. n : i \in 1 .. m
    BY <1>1
  <2>3. \A i \in 1 .. n + 1 : U[i] \in Seq(S) /\ T[i] \in Seq(S)
    BY <1>2, <1>3, <1>5, <2>1
  <2>4. \A i \in 1 .. n : Lexeme(u, i).tokens \in Seq(S)
    BY <1>2, <1>5
  <2>5. /\ \A i \in 1 .. n : U[i] = Lexeme(u, i).tokens \o U[Lexeme(u, i).at]
        /\ U[n + 1] = <<>>
    BY <1>1, TokensUnfold
  <2>6. \A i \in 1 .. m : T[i] = Lexeme(t, i).tokens \o T[Lexeme(t, i).at]
    BY <1>1, TokensUnfold
  <2> HIDE DEF U, T
  <2>7. QED
    BY <2>2, <2>3, <2>4, <2>5, <2>6
<1> HIDE DEF U, T
<1>7. Hereditary(K, n + 1)
  <2>1. ASSUME NEW i \in 1 .. n + 1, \A k \in 1 .. n + 1 : k > i => k \in K
        PROVE  i \in K
    <3>1. CASE i = n + 1
      BY <1>6, <3>1
    <3>2. CASE i # n + 1
      <4>0. i \in 1 .. n /\ i \in 1 .. Len(u)
        BY <1>1, <3>2
      <4>1. PICK l : l = Lexeme(u, i)
        OBVIOUS
      <4>2. l.at \in i + 1 .. n + 1 /\ (l.tokens = <<>> \/ \E x : l.tokens = <<x>>)
        BY <1>1, <4>0, <4>1, LexemeAdvances
      <4>3. PICK k \in i + 1 .. n + 1 : k = l.at
        BY <4>2
      <4>4. k \in 1 .. n + 1 /\ k > i
        BY <4>0
      <4>5. PICK a \in Seq(S) : a = U[k]
        BY <1>6, <4>4
      <4>6. U[i] = l.tokens \o a /\ l.tokens \in Seq(S)
        BY <1>6, <4>0, <4>1, <4>3, <4>5
      <4>7. CASE a = <<>>
        <5>1. U[i] = l.tokens
          <6>1. PICK h \in Seq(S) : h = l.tokens
            BY <4>6
          <6>2. h \o <<>> = h
            BY Concat, EmptySeq, SameSequence
          <6>3. QED
            BY <4>6, <4>7, <6>1, <6>2
        <5>2. ASSUME NEW x, l.tokens = <<x>>
              PROVE  i \in K
          <6>1. Front(U[i]) = <<>>
            BY <5>1, <5>2 DEF Front
          <6>2. PICK r \in Seq(S) : r = T[i]
            BY <1>6
          <6>3. <<>> \o r = r
            <7>1. x \in S
              BY <4>6, <5>2
            <7>2. QED
              BY <7>1, Around
          <6>4. QED
            BY <6>1, <6>2, <6>3
        <5>3. QED
          BY <4>2, <5>1, <5>2
      <4>8. CASE a # <<>>
        <5>1. k <= n
          BY <1>6, <4>3, <4>5, <4>8
        <5>2. Lexeme(t, i) = l
          BY <1>1, <4>0, <4>1, <4>3, <5>1, LexemeCut
        <5>3. PICK b \in Seq(S) : b = T[k]
          BY <1>6, <4>4
        <5>4. T[i] = l.tokens \o b
          BY <1>6, <4>0, <4>3, <5>2, <5>3
        <5>5. PICK r \in Seq(S) : b = Front(a) \o r
          BY <2>1, <4>4, <4>5, <4>8, <5>3
        <5>6. PICK y \in S : TRUE
          BY <4>8
        <5>7. CASE l.tokens = <<>>
          <6>1. U[i] = a /\ T[i] = b
            BY <4>6, <5>4, <5>6, <5>7, Around
          <6>2. QED
            BY <5>5, <6>1
        <5>8. ASSUME NEW x, l.tokens = <<x>>
              PROVE  i \in K
          <6>1. x \in S
            BY <4>6, <5>8
          <6>2. Front(<<x>> \o a) = <<x>> \o Front(a) /\ Front(a) \in Seq(S)
            BY <4>8, <6>1, FrontAfter
          <6>3. <<x>> \o (Front(a) \o r) = (<<x>> \o Front(a)) \o r
            <7>1. PICK f \in Seq(S) : f = Front(a)
              BY <6>2
            <7>2. <<x>> \o (f \o r) = (<<x>> \o f) \o r
              BY <6>1, Around
            <7>3. QED
              BY <7>1, <7>2
          <6>4. T[i] = Front(U[i]) \o r
            BY <4>6, <5>4, <5>5, <5>8, <6>2, <6>3
          <6>5. QED
            BY <6>4
        <5>9. QED
          BY <4>2, <5>7, <5>8
      <4>9. QED
        BY <4>7, <4>8
    <3>3. QED
      BY <3>1, <3>2
  <2>2. QED
    BY <2>1 DEF Hereditary
<1>8. 1 .. n + 1 \subseteq K
  <2> HIDE DEF K
  <2>1. QED
    BY <1>7, Downwards
<1>9. SUFFICES ASSUME U[1] # <<>>
               PROVE  IsPrefix(Front(U[1]), T[1])
  BY DEF U, T
<1>10. 1 \in K
  BY <1>8
<1>11. PICK r \in Seq(S) : T[1] = Front(U[1]) \o r
  BY <1>9, <1>10
<1>12. PICK a \in Seq(S) : a = U[1] /\ a # <<>>
  BY <1>6, <1>9
<1>13. a[1] \in S
  BY <1>12
<1>14. Front(a) \in Seq(S)
  BY <1>12, Popped
<1>15. IsPrefix(Front(a), Front(a) \o r)
  <2>1. PICK f \in Seq(S) : f = Front(a)
    BY <1>14
  <2>2. IsPrefix(f, f \o r)
    BY <1>13, Around
  <2>3. QED
    BY <2>1, <2>2
<1>16. QED
  BY <1>11, <1>12, <1>15

-----------------------------------------------------------------------------
(* What is read where a lexeme is written *)

\* The characters s stand in t after the first m ones.
Occurs(s, t, m) ==
    /\ m \in Nat /\ m + Len(s) <= Len(t)
    /\ \A j \in 1 .. Len(s) : t[m + j] = s[j]

\* The positions where the characters stand are positions of the text.
LEMMA OccursAt ==
    ASSUME NEW t, NEW s, NEW m, Occurs(s, t, m),
           Len(s) \in Nat, Len(t) \in Nat
    PROVE  \A k \in m + 1 .. m + Len(s) : k \in 1 .. Len(t) /\ \E j \in 1 .. Len(s) : k = m + j /\ t[k] = s[j]
<1>1. PICK n \in Nat : n = Len(s) /\ m \in Nat /\ m + n <= Len(t)
  BY DEF Occurs
<1>2. ASSUME NEW k \in m + 1 .. m + n
      PROVE  k \in 1 .. Len(t) /\ \E j \in 1 .. n : k = m + j /\ t[k] = s[j]
  <2>1. k - m \in 1 .. n /\ k = m + (k - m) /\ k \in 1 .. Len(t)
    BY <1>1
  <2>2. t[m + (k - m)] = s[k - m]
    BY <1>1, <2>1 DEF Occurs
  <2>3. QED
    BY <2>1, <2>2
<1>3. QED
  BY <1>1, <1>2

\* The characters that stand there are what is cut out there.
LEMMA OccursSub ==
    ASSUME NEW C, NEW t \in Seq(C), NEW s \in Seq(C), NEW m, Occurs(s, t, m)
    PROVE  SubSeq(t, m + 1, m + Len(s)) = s
<1>1. PICK n \in Nat, e \in Nat : n = Len(s) /\ e = m + n /\ m \in Nat /\ e <= Len(t)
  BY DEF Occurs
<1>2. PICK u \in Seq(C) : u = SubSeq(t, m + 1, e) /\ Len(u) = n /\ \A j \in 1 .. n : u[j] = t[m + j]
  <2>1. /\ SubSeq(t, m + 1, e) \in Seq(C)
        /\ Len(SubSeq(t, m + 1, e)) = IF m <= e THEN e - m ELSE 0
        /\ \A j \in 1 .. e - m : SubSeq(t, m + 1, e)[j] = t[m + j]
    BY <1>1, CutSub
  <2>2. e - m = n /\ m <= e
    BY <1>1
  <2>3. QED
    BY <2>1, <2>2
<1>3. \A j \in 1 .. n : u[j] = s[j]
  BY <1>1, <1>2 DEF Occurs
<1>4. u = s
  BY <1>1, <1>2, <1>3, SameSequence
<1>5. QED
  BY <1>1, <1>2, <1>4

\* A word whose first character is no digit, up to a mark or a space, is read
\* as a keyword or as an identifier (src/sql-compiler/Lexer.cpp, readIdentifier).
LEMMA ReadsName ==
    ASSUME NEW C, NEW t \in Seq(C), NEW s \in Seq(C), NEW m, Occurs(s, t, m),
           Len(s) >= 1, s[1] \notin Digits, \A j \in 1 .. Len(s) : s[j] \notin Marks \cup Spaces,
           m + Len(s) + 1 <= Len(t) => t[m + Len(s) + 1] \in Marks \cup Spaces
    PROVE  Lexeme(t, m + 1) = Emit(m + Len(s) + 1, IF Spelt(s) \in Keywords THEN "KEYWORD" ELSE "IDENTIFIER", Spelt(s))
<1>1. PICK n \in Nat, i \in Nat, e \in Nat : n = Len(s) /\ n >= 1 /\ i = m + 1 /\ e = m + n + 1
  <2>1. Len(s) \in Nat /\ Len(s) >= 1
    OBVIOUS
  <2>2. QED
    BY <2>1 DEF Occurs
<1>2. m \in Nat /\ m + n <= Len(t) /\ Len(t) \in Nat
  BY <1>1 DEF Occurs
<1>3. i \in 1 .. Len(t) + 1 /\ e \in i .. Len(t) + 1 /\ e - 1 = m + n /\ i \in m + 1 .. m + n /\ i = m + 1
  BY <1>1, <1>2
<1>4. SubSeq(t, i, e - 1) = s
  <2>1. SubSeq(t, m + 1, m + n) = s
    BY <1>1, OccursSub
  <2>2. QED
    BY <1>1, <1>3, <2>1
<1>5. \A k \in m + 1 .. m + n : \E j \in 1 .. n : k = m + j /\ t[k] = s[j]
  <2>1. Len(s) \in Nat /\ Len(t) \in Nat /\ Occurs(s, t, m)
    OBVIOUS
  <2>2. \A k \in m + 1 .. m + Len(s) : \E j \in 1 .. Len(s) : k = m + j /\ t[k] = s[j]
    BY <2>1, OccursAt
  <2>3. QED
    BY <1>1, <2>2
<1>6. \A k \in i .. e - 1 : t[k] \notin Spaces \cup Marks
  <2>1. \A j \in 1 .. n : s[j] \notin Spaces \cup Marks
    BY <1>1
  <2>2. QED
    BY <1>1, <1>3, <1>5, <2>1
<1>7. e <= Len(t) => t[e] \in Spaces \cup Marks
  BY <1>1
<1>8. Until(t, i, Spaces \cup Marks) = e
  BY <1>3, <1>6, <1>7, UntilIs
<1>9. t[i] = s[1] /\ IsLetters(t[i])
  <2>1. 1 \in 1 .. n
    BY <1>1
  <2>2. t[m + 1] = s[1]
    BY <1>1, <2>1 DEF Occurs
  <2>3. s[1] \notin Marks \cup Spaces
    BY <1>1, <2>1
  <2>4. QED
    BY <1>1, <2>2, <2>3 DEF IsLetters
<1>10. Lexeme(t, i) = Name(t, i)
  BY <1>9, LexemeOf
<1>11. Name(t, i) = Emit(e, IF Spelt(s) \in Keywords THEN "KEYWORD" ELSE "IDENTIFIER", Spelt(s))
  BY <1>4, <1>8 DEF Name
<1>12. QED
  BY <1>1, <1>10, <1>11

\* A number is read to its last digit when nothing runs together with it.
LEMMA ReadsNumber ==
    ASSUME NEW C, NEW t \in Seq(C), NEW s \in Seq(C), NEW m, Occurs(s, t, m), IsNumber(s),
           m + Len(s) + 1 <= Len(t) => ~RunTogether(s[Len(s)], t[m + Len(s) + 1])
    PROVE  Lexeme(t, m + 1) = Emit(m + Len(s) + 1, "NUMBER", Spelt(s))
<1>1. PICK n \in 1 .. 3, i \in Nat, e \in Nat : n = Len(s) /\ i = m + 1 /\ e = m + n + 1
  BY DEF Occurs, IsNumber
<1>2. m \in Nat /\ m + n <= Len(t) /\ Len(t) \in Nat
  BY <1>1 DEF Occurs
<1>3. s[1] \in Digits /\ (n > 1 => s[2] = ".") /\ (n > 2 => s[3] \in Digits)
  BY <1>1 DEF IsNumber
<1>4. t[i] = s[1] /\ (n > 1 => t[i + 1] = s[2]) /\ (n > 2 => t[i + 2] = s[3])
  <2>1. 1 \in 1 .. n /\ (n > 1 => 2 \in 1 .. n) /\ (n > 2 => 3 \in 1 .. n)
    BY <1>1
  <2>2. m + 1 = i /\ m + 2 = i + 1 /\ m + 3 = i + 2
    BY <1>1, <1>2
  <2>3. t[m + 1] = s[1] /\ (n > 1 => t[m + 2] = s[2]) /\ (n > 2 => t[m + 3] = s[3])
    BY <1>1, <2>1 DEF Occurs
  <2>4. QED
    BY <2>2, <2>3
<1>5. SubSeq(t, i, e - 1) = s
  <2>1. SubSeq(t, m + 1, m + n) = s
    BY <1>1, OccursSub
  <2>2. e - 1 = m + n
    BY <1>1, <1>2
  <2>3. QED
    BY <1>1, <2>1, <2>2
<1>6. "." \notin Digits /\ \A c \in Digits : c \notin Marks \cup Spaces
  BY CharacterKinds DEF Marks
<1>7. /\ n = 1 /\ e <= Len(t) => t[e] # "." /\ t[e] \notin Digits
      /\ n = 2 /\ e <= Len(t) => t[e] \notin Digits
  <2>1. e <= Len(t) => ~RunTogether(s[n], t[e])
    BY <1>1
  <2>2. n = 1 => s[n] \in Digits
    BY <1>3
  <2>3. n = 2 => s[n] = "."
    BY <1>3
  <2>4. \A c, d : ~RunTogether(c, d) => /\ {c, d} \cap (Marks \cup Spaces) # {}
                                        /\ ~(c \in Digits /\ d = ".") /\ ~(c = "." /\ d \in Digits)
    BY DEF RunTogether
  <2>5. QED
    BY <1>6, <2>1, <2>2, <2>3, <2>4
<1> DEFINE digits(j) == IF j <= Len(t) /\ t[j] \in Digits THEN j + 1 ELSE j
           whole == digits(i)
           end == IF whole <= Len(t) /\ t[whole] = "." THEN digits(whole + 1) ELSE whole
<1>8. whole = i + 1
  BY <1>1, <1>2, <1>3, <1>4
<1>9. end = e
  <2>1. CASE n = 1
    BY <1>1, <1>2, <1>7, <1>8, <2>1
  <2>2. CASE n = 2
    <3>1. e = i + 2
      BY <1>1, <1>2, <2>2
    <3>2. whole <= Len(t) /\ t[whole] = "."
      BY <1>1, <1>2, <1>3, <1>4, <1>8, <2>2
    <3>3. digits(whole + 1) = e
      <4>1. whole + 1 = e
        BY <1>1, <1>8, <3>1
      <4>2. digits(e) = e
        BY <1>7, <2>2
      <4> HIDE DEF whole, digits
      <4>3. QED
        BY <4>1, <4>2
    <3> HIDE DEF whole, digits
    <3>4. QED
      BY <3>2, <3>3
  <2>3. CASE n = 3
    <3>1. e = i + 3
      BY <1>1, <1>2, <2>3
    <3>2. whole <= Len(t) /\ t[whole] = "."
      BY <1>1, <1>2, <1>3, <1>4, <1>8, <2>3
    <3>3. digits(whole + 1) = e
      <4>1. whole + 1 = i + 2 /\ i + 2 <= Len(t) /\ (i + 2) + 1 = e
        BY <1>1, <1>2, <1>8, <2>3, <3>1
      <4>2. t[i + 2] \in Digits
        BY <1>3, <1>4, <2>3
      <4>3. digits(i + 2) = e
        BY <4>1, <4>2
      <4> HIDE DEF whole, digits
      <4>4. QED
        BY <4>1, <4>3
    <3> HIDE DEF whole, digits
    <3>4. QED
      BY <3>2, <3>3
  <2>4. QED
    BY <2>1, <2>2, <2>3
<1>10. Number(t, i) = Emit(end, "NUMBER", Spelt(SubSeq(t, i, end - 1)))
  BY DEF Number
<1>11. Lexeme(t, i) = Number(t, i)
  BY <1>3, <1>4, LexemeOf
<1> HIDE DEF end
<1>12. QED
  BY <1>1, <1>5, <1>9, <1>10, <1>11

\* A single mark that makes no pair with the next character is a symbol or an
\* operator.
LEMMA ReadsMark ==
    ASSUME NEW C, NEW t \in Seq(C), NEW m \in Nat, NEW c, m + 1 <= Len(t), t[m + 1] = c,
           c \in Marks, c \in Symbols \cup Operators,
           m + 2 <= Len(t) => ~RunTogether(c, t[m + 2])
    PROVE  Lexeme(t, m + 1) = Emit(m + 2, IF c \in Symbols THEN "SYMBOL" ELSE "OPERATOR", c)
<1>1. PICK i \in Nat : i = m + 1 /\ i + 1 = m + 2
  OBVIOUS
<1>2. c \notin {"'", "\""}
  BY DEF Symbols, Operators
<1>3. Pair(t, i) \notin Pairs \cup {<<"-", "-">>, <<"/", "*">>}
  <2>1. CASE i < Len(t)
    <3>1. ~RunTogether(c, t[i + 1])
      BY <1>1, <2>1
    <3>2. Pair(t, i) = <<c, t[i + 1]>>
      BY <1>1, <2>1 DEF Pair
    <3>3. QED
      BY <3>1, <3>2 DEF RunTogether
  <2>2. CASE ~(i < Len(t))
    BY <2>2, PairFacts
  <2>3. QED
    BY <2>1, <2>2
<1>4. Lexeme(t, i) = Mark(t, i)
  BY <1>1, <1>2, <1>3, LexemeOf
<1>5. Mark(t, i) = Emit(i + 1, IF c \in Symbols THEN "SYMBOL" ELSE "OPERATOR", c)
  <2>1. c = t[i]
    BY <1>1
  <2>2. CASE c \in Symbols
    <3>1. c \notin Operators
      BY <2>2 DEF Symbols, Operators
    <3>2. QED
      BY <2>1, <2>2, <3>1 DEF Mark
  <2>3. CASE c \notin Symbols
    BY <2>1, <2>3 DEF Mark
  <2>4. QED
    BY <2>2, <2>3
<1>6. QED
  BY <1>1, <1>4, <1>5

\* The two characters of a pair are read as one operator.
LEMMA ReadsPair ==
    ASSUME NEW C, NEW t \in Seq(C), NEW s, NEW m, Occurs(s, t, m), s \in Pairs
    PROVE  Lexeme(t, m + 1) = Emit(m + Len(s) + 1, "OPERATOR", Spelt(s))
<1>1. PICK a, b : s = <<a, b>>
  BY DEF Pairs
<1>2. PICK i \in Nat : i = m + 1 /\ i + 1 = m + 2 /\ m \in Nat
  BY DEF Occurs
<1>3. Len(s) = 2 /\ s[1] = a /\ s[2] = b
  BY <1>1
<1>4. i < Len(t) /\ t[i] = a /\ t[i + 1] = b
  BY <1>2, <1>3 DEF Occurs
<1>5. Pair(t, i) = s
  BY <1>1, <1>4 DEF Pair
<1>6. Lexeme(t, i) = Emit(i + 2, "OPERATOR", Spelt(s))
  BY <1>5, LexemeOf
<1>7. QED
  BY <1>2, <1>3, <1>6

\* The quote of a name.
Quote == "\""

\* A name in double quotes is read as an identifier, without the quotes.
LEMMA ReadsQuotedName ==
    ASSUME NEW C, NEW t \in Seq(C), NEW s \in Seq(C), NEW m, NEW w \in Seq(C), Occurs(w, t, m),
           Len(w) = Len(s) + 2, w[1] = Quote, w[Len(s) + 2] = Quote,
           \A j \in 1 .. Len(s) : w[1 + j] = s[j] /\ s[j] # Quote
    PROVE  Lexeme(t, m + 1) = Emit(m + Len(w) + 1, "IDENTIFIER", Spelt(s))
<1>1. PICK n \in Nat, i \in Nat, e \in Nat : n = Len(s) /\ i = m + 1 /\ e = i + n + 1
  <2>1. Len(s) \in Nat /\ m \in Nat
    BY DEF Occurs
  <2>2. m + 1 \in Nat /\ m + 1 + Len(s) + 1 \in Nat
    BY <2>1
  <2>3. QED
    BY <2>1, <2>2
<1>2. m \in Nat /\ e <= Len(t) /\ Len(t) \in Nat
  BY <1>1 DEF Occurs
<1>3. t[i] = Quote /\ t[e] = Quote
  <2>1. 1 \in 1 .. Len(w) /\ n + 2 \in 1 .. Len(w) /\ m + (n + 2) = e
    BY <1>1, <1>2
  <2>2. t[m + 1] = w[1] /\ t[m + (n + 2)] = w[n + 2]
    BY <2>1 DEF Occurs
  <2>3. QED
    BY <1>1, <2>1, <2>2
<1>4. Occurs(s, t, i)
  <2>1. ASSUME NEW j \in 1 .. n
        PROVE  t[i + j] = s[j]
    <3>1. 1 + j \in 1 .. Len(w) /\ m + (1 + j) = i + j
      BY <1>1, <1>2
    <3>2. t[m + (1 + j)] = w[1 + j]
      BY <3>1 DEF Occurs
    <3>3. QED
      BY <1>1, <3>1, <3>2
  <2>2. i + n <= Len(t)
    BY <1>1, <1>2
  <2>3. QED
    BY <1>1, <2>1, <2>2 DEF Occurs
<1>5. SubSeq(t, i + 1, i + n) = s /\ \A k \in i + 1 .. i + n : \E j \in 1 .. n : t[k] = s[j]
  <2>1. /\ SubSeq(t, i + 1, i + Len(s)) = s
        /\ \A k \in i + 1 .. i + Len(s) : \E j \in 1 .. Len(s) : t[k] = s[j]
    <3>1. Occurs(s, t, i)
      BY <1>4
    <3>2. SubSeq(t, i + 1, i + Len(s)) = s
      BY <3>1, OccursSub
    <3>3. \A k \in i + 1 .. i + Len(s) : \E j \in 1 .. Len(s) : t[k] = s[j]
      <4>1. ASSUME NEW k \in i + 1 .. i + Len(s)
            PROVE  \E j \in 1 .. Len(s) : t[k] = s[j]
        <5>1. Len(s) \in Nat /\ Len(t) \in Nat
          OBVIOUS
        <5>2. \A x \in i + 1 .. i + Len(s) : \E j \in 1 .. Len(s) : x = i + j /\ t[x] = s[j]
          BY <3>1, <5>1, OccursAt
        <5>3. QED
          BY <5>2
      <4>2. QED
        BY <4>1
    <3>4. QED
      BY <3>2, <3>3
  <2>2. QED
    BY <1>1, <2>1
<1>6. i + 1 \in 1 .. Len(t) + 1 /\ e \in i + 1 .. Len(t) + 1 /\ e - 1 = i + n
  BY <1>1, <1>2
<1>7. \A k \in i + 1 .. e - 1 : t[k] \notin {Quote}
  <2>1. \A j \in 1 .. n : s[j] # Quote
    BY <1>1
  <2>2. QED
    BY <1>5, <1>6, <2>1
<1>8. Until(t, i + 1, {Quote}) = e
  BY <1>3, <1>6, <1>7, UntilIs
<1>9. QuotedName(t, i) = Emit(e + 1, "IDENTIFIER", Spelt(s))
  <2>1. Until(t, i + 1, {"\""}) = Until(t, i + 1, {Quote})
    BY DEF Quote
  <2>2. Until(t, i + 1, {"\""}) = e
    BY <1>8, <2>1, Zenon
  <2>3. QuotedName(t, i) = Emit(IF e <= Len(t) THEN e + 1 ELSE e, "IDENTIFIER", Spelt(SubSeq(t, i + 1, e - 1)))
    BY <2>2, Zenon DEF QuotedName
  <2>4. QED
    BY <1>2, <1>5, <1>6, <2>3
<1>10. Lexeme(t, i) = QuotedName(t, i)
  BY <1>3, LexemeOf, Zenon DEF Quote
<1>11. m + Len(w) + 1 = e + 1
  BY <1>1, <1>2
<1>12. QED
  BY <1>1, <1>9, <1>10, <1>11

\* Positions that never fall are all at most the last one.
LEMMA AtGrows ==
    ASSUME NEW n \in Nat, NEW at \in [1 .. n + 1 -> Nat], \A i \in 1 .. n : at[i] <= at[i + 1]
    PROVE  \A i \in 1 .. n + 1 : at[i] <= at[n + 1]
<1> DEFINE K == {i \in 1 .. n + 1 : at[i] <= at[n + 1]}
<1>1. Hereditary(K, n + 1)
  <2>1. ASSUME NEW i \in 1 .. n + 1, \A k \in 1 .. n + 1 : k > i => k \in K
        PROVE  i \in K
    <3>1. CASE i = n + 1
      BY <3>1
    <3>2. CASE i # n + 1
      <4>1. i \in 1 .. n
        BY <3>2
      <4>2. PICK k \in 1 .. n + 1 : k = i + 1
        BY <4>1
      <4>3. k \in K /\ at[i] <= at[k] /\ at[i] \in Nat /\ at[k] \in Nat /\ at[n + 1] \in Nat
        BY <2>1, <4>1, <4>2
      <4>4. QED
        BY <4>3
    <3>3. QED
      BY <3>1, <3>2
  <2>2. QED
    BY <2>1 DEF Hereditary
<1>2. 1 .. n + 1 \subseteq K
  <2> HIDE DEF K
  <2>1. n + 1 \in Nat
    OBVIOUS
  <2>2. QED
    BY <1>1, <2>1, Downwards
<1>3. QED
  BY <1>2

\* The rest of a sequence from a position on is the element there and the rest
\* after it.
LEMMA SubSeqStep ==
    ASSUME NEW C, NEW s \in Seq(C), NEW k \in 1 .. Len(s)
    PROVE  /\ SubSeq(s, k, Len(s)) = <<s[k]>> \o SubSeq(s, k + 1, Len(s))
           /\ SubSeq(s, Len(s) + 1, Len(s)) = <<>>
           /\ SubSeq(s, k + 1, Len(s)) \in Seq(C)
<1>1. PICK n \in Nat, m \in Nat : n = Len(s) /\ k = m + 1 /\ m < n
  <2>1. Len(s) \in Nat /\ k - 1 \in Nat /\ k = (k - 1) + 1 /\ k - 1 < Len(s)
    OBVIOUS
  <2>2. QED
    BY <2>1
<1>2. PICK a \in Seq(C) : a = SubSeq(s, m + 1, n) /\ Len(a) = n - m /\ \A i \in 1 .. n - m : a[i] = s[m + i]
  <2>1. m <= n /\ n <= Len(s)
    BY <1>1
  <2>2. /\ SubSeq(s, m + 1, n) \in Seq(C)
        /\ Len(SubSeq(s, m + 1, n)) = n - m
        /\ \A i \in 1 .. n - m : SubSeq(s, m + 1, n)[i] = s[m + i]
    BY <2>1, CutSub
  <2>3. QED
    BY <2>2
<1>3. PICK b \in Seq(C) : b = SubSeq(s, k + 1, n) /\ Len(b) = n - k /\ \A i \in 1 .. n - k : b[i] = s[k + i]
  <2>1. k <= n /\ n <= Len(s) /\ k \in Nat
    BY <1>1
  <2>2. /\ SubSeq(s, k + 1, n) \in Seq(C)
        /\ Len(SubSeq(s, k + 1, n)) = n - k
        /\ \A i \in 1 .. n - k : SubSeq(s, k + 1, n)[i] = s[k + i]
    BY <2>1, CutSub
  <2>3. QED
    BY <2>2
<1>4. PICK h \in Seq(C) : h = <<s[k]>> /\ Len(h) = 1 /\ h[1] = s[k]
  <2>1. s[k] \in C
    OBVIOUS
  <2>2. <<s[k]>> \in Seq(C) /\ Len(<<s[k]>>) = 1 /\ <<s[k]>>[1] = s[k]
    BY <2>1
  <2>3. QED
    BY <2>2
<1>5. PICK c \in Seq(C) : c = h \o b
  BY Concat
<1>6. /\ Len(c) = n - m
      /\ c[1] = s[k] /\ \A i \in 1 .. n - k : c[1 + i] = b[i]
  <2>1. 1 \in 1 .. Len(h)
    BY <1>4
  <2>2. Len(c) = 1 + (n - k)
    BY <1>3, <1>4, <1>5, Concat
  <2>3. c[1] = s[k] /\ \A i \in 1 .. n - k : c[1 + i] = b[i]
    BY <1>3, <1>4, <1>5, <2>1, Concat
  <2>4. 1 + (n - k) = n - m
    BY <1>1
  <2>5. QED
    BY <2>2, <2>3, <2>4
<1>7. ASSUME NEW i \in 1 .. n - m
      PROVE  a[i] = c[i]
  <2>1. a[i] = s[m + i]
    BY <1>2
  <2>2. CASE i = 1
    <3>1. m + 1 = k
      BY <1>1
    <3>2. QED
      BY <1>6, <2>1, <2>2, <3>1
  <2>3. CASE i # 1
    <3>1. PICK j \in 1 .. n - k : i = 1 + j
      <4>1. i - 1 \in 1 .. n - k /\ i = 1 + (i - 1)
        BY <1>1, <2>3
      <4>2. QED
        BY <4>1
    <3>2. m + i = k + j
      BY <1>1, <3>1
    <3>3. c[i] = s[k + j]
      BY <1>3, <1>6, <3>1
    <3>4. QED
      BY <2>1, <3>2, <3>3
  <2>4. QED
    BY <2>2, <2>3
<1>8. a = c
  BY <1>2, <1>6, <1>7, SameSequence
<1>9. SubSeq(s, n + 1, n) = <<>>
  BY <1>1
<1>10. QED
  BY <1>1, <1>2, <1>3, <1>4, <1>5, <1>8, <1>9

\* Where the characters of a string stand once its quotes are doubled.
LEMMA DoubledPieces ==
    ASSUME NEW C, "'" \in C, NEW s \in Seq(C)
    PROVE  /\ Doubled(s) \in Seq(C)
           /\ \E at \in [1 .. Len(s) + 1 -> Nat] :
                /\ at[1] = 0 /\ at[Len(s) + 1] = Len(Doubled(s))
                /\ \A k \in 1 .. Len(s) :
                     /\ s[k] # "'" => at[k + 1] = at[k] + 1 /\ Doubled(s)[at[k] + 1] = s[k]
                     /\ s[k] = "'" => /\ at[k + 1] = at[k] + 2
                                      /\ Doubled(s)[at[k] + 1] = "'" /\ Doubled(s)[at[k] + 2] = "'"
<1> DEFINE P == [i \in DOMAIN s |-> IF s[i] = "'" THEN <<"'", "'">> ELSE <<s[i]>>]
<1>1. PICK n \in Nat : n = Len(s) /\ DOMAIN s = 1 .. n
  OBVIOUS
<1>2. \A i \in 1 .. n : s[i] \in C
  BY <1>1
<1>3. <<"'", "'">> \in Seq(C) /\ \A c \in C : <<c>> \in Seq(C)
  OBVIOUS
<1>4. P = [i \in 1 .. n |-> IF s[i] = "'" THEN <<"'", "'">> ELSE <<s[i]>>]
  BY <1>1
<1>5. P \in [1 .. n -> Seq(C)]
  <2>1. ASSUME NEW i \in 1 .. n
        PROVE  (IF s[i] = "'" THEN <<"'", "'">> ELSE <<s[i]>>) \in Seq(C)
    BY <1>2, <1>3
  <2>2. QED
    BY <1>4, <2>1
<1>6. P \in Seq(Seq(C)) /\ Len(P) = n
  <2> HIDE DEF P
  <2>1. QED
    BY <1>1, <1>5
<1>7. \A k \in 1 .. n : P[k] = IF s[k] = "'" THEN <<"'", "'">> ELSE <<s[k]>>
  BY <1>4
<1>8. Doubled(s) = FlattenSeq(P)
  BY DEF Doubled
<1> HIDE DEF P
<1>9. PICK D : D = FlattenSeq(P) /\ D = Doubled(s)
  BY <1>8
<1>10. PICK at \in [1 .. n + 1 -> Nat] :
             /\ at[1] = 0 /\ at[n + 1] = Len(D)
             /\ \A i \in 1 .. n : /\ at[i + 1] = at[i] + Len(P[i])
                                  /\ \A j \in 1 .. Len(P[i]) : D[at[i] + j] = P[i][j]
  <2>1. /\ FlattenSeq(P) \in Seq(C)
        /\ \E at \in [1 .. Len(P) + 1 -> Nat] :
             /\ at[1] = 0 /\ at[Len(P) + 1] = Len(FlattenSeq(P))
             /\ \A i \in 1 .. Len(P) : /\ at[i + 1] = at[i] + Len(P[i])
                                       /\ \A j \in 1 .. Len(P[i]) : FlattenSeq(P)[at[i] + j] = P[i][j]
    BY <1>6, Pieces
  <2>2. PICK at \in [1 .. Len(P) + 1 -> Nat] :
             /\ at[1] = 0 /\ at[Len(P) + 1] = Len(FlattenSeq(P))
             /\ \A i \in 1 .. Len(P) : /\ at[i + 1] = at[i] + Len(P[i])
                                       /\ \A j \in 1 .. Len(P[i]) : FlattenSeq(P)[at[i] + j] = P[i][j]
    BY <2>1
  <2>3. at \in [1 .. n + 1 -> Nat] /\ at[1] = 0 /\ at[n + 1] = Len(D)
    BY <1>6, <1>9, <2>2
  <2>4. \A i \in 1 .. n : /\ at[i + 1] = at[i] + Len(P[i])
                          /\ \A j \in 1 .. Len(P[i]) : D[at[i] + j] = P[i][j]
    BY <1>6, <1>9, <2>2
  <2>5. QED
    BY <2>3, <2>4
<1>11. D \in Seq(C)
  BY <1>6, <1>9, Pieces
<1>12. ASSUME NEW k \in 1 .. n
       PROVE  /\ s[k] # "'" => at[k + 1] = at[k] + 1 /\ D[at[k] + 1] = s[k]
              /\ s[k] = "'" => /\ at[k + 1] = at[k] + 2
                               /\ D[at[k] + 1] = "'" /\ D[at[k] + 2] = "'"
  <2>1. PICK p : p = P[k]
    OBVIOUS
  <2>2. at[k + 1] = at[k] + Len(p) /\ \A j \in 1 .. Len(p) : D[at[k] + j] = p[j]
    BY <1>10, <2>1
  <2>3. CASE s[k] # "'"
    <3>1. p = <<s[k]>>
      BY <1>7, <2>1, <2>3
    <3>2. Len(p) = 1 /\ p[1] = s[k] /\ 1 \in 1 .. 1
      BY <3>1
    <3>3. QED
      BY <2>2, <2>3, <3>2
  <2>4. CASE s[k] = "'"
    <3>1. p = <<"'", "'">>
      BY <1>7, <2>1, <2>4
    <3>2. Len(p) = 2 /\ p[1] = "'" /\ p[2] = "'" /\ 1 \in 1 .. 2 /\ 2 \in 1 .. 2
      BY <3>1
    <3>3. QED
      BY <2>2, <2>4, <3>2
  <2>5. QED
    BY <2>3, <2>4
<1>13. /\ at \in [1 .. Len(s) + 1 -> Nat] /\ at[1] = 0 /\ at[Len(s) + 1] = Len(Doubled(s))
       /\ \A k \in 1 .. Len(s) :
            /\ s[k] # "'" => at[k + 1] = at[k] + 1 /\ Doubled(s)[at[k] + 1] = s[k]
            /\ s[k] = "'" => /\ at[k + 1] = at[k] + 2
                             /\ Doubled(s)[at[k] + 1] = "'" /\ Doubled(s)[at[k] + 2] = "'"
  BY <1>1, <1>9, <1>10, <1>12
<1>14. QED
  BY <1>9, <1>11, <1>13

\* A string with its quotes doubled is read to the quote that closes it, and
\* every doubled quote in it as one quote.
LEMMA ReadsString ==
    ASSUME NEW C, "'" \in C, NEW t \in Seq(C), NEW s \in Seq(C), NEW m, NEW w \in Seq(C),
           Occurs(w, t, m), Len(w) = Len(Doubled(s)) + 2, w[1] = "'", w[Len(Doubled(s)) + 2] = "'",
           \A j \in 1 .. Len(Doubled(s)) : w[1 + j] = Doubled(s)[j],
           m + Len(w) + 1 <= Len(t) => t[m + Len(w) + 1] # "'"
    PROVE  Lexeme(t, m + 1) = Emit(m + Len(w) + 1, "STRING", Spelt(s))
<1>1. PICK n \in Nat : n = Len(s)
  OBVIOUS
<1>2. PICK D \in Seq(C) : D = Doubled(s)
  BY DoubledPieces
<1>3. PICK at \in [1 .. n + 1 -> Nat] :
             /\ at[1] = 0 /\ at[n + 1] = Len(D)
             /\ \A k \in 1 .. n :
                  /\ s[k] # "'" => at[k + 1] = at[k] + 1 /\ D[at[k] + 1] = s[k]
                  /\ s[k] = "'" => /\ at[k + 1] = at[k] + 2
                                   /\ D[at[k] + 1] = "'" /\ D[at[k] + 2] = "'"
  BY <1>1, <1>2, DoubledPieces
<1>4. PICK d \in Nat, i \in Nat, f \in Nat, e \in Nat :
         d = Len(D) /\ i = m + 1 /\ f = i + 1 /\ e = f + d /\ m \in Nat
  <2>1. Len(D) \in Nat /\ m \in Nat
    BY DEF Occurs
  <2>2. m + 1 \in Nat /\ m + 1 + 1 \in Nat /\ m + 1 + 1 + Len(D) \in Nat
    BY <2>1
  <2>3. QED
    BY <2>1, <2>2
<1>5. Len(w) = d + 2 /\ w[1] = "'" /\ w[d + 2] = "'" /\ \A j \in 1 .. d : w[1 + j] = D[j]
  BY <1>2, <1>4
<1>6. e <= Len(t) /\ Len(t) \in Nat /\ m + (d + 2) = e
  BY <1>4, <1>5 DEF Occurs
<1>7. t[i] = "'" /\ t[e] = "'" /\ (e + 1 <= Len(t) => t[e + 1] # "'")
  <2>0. PICK l \in Nat : l = Len(w) /\ l = d + 2
    BY <1>4, <1>5
  <2>1. 1 \in 1 .. Len(w) /\ d + 2 \in 1 .. Len(w) /\ m + Len(w) + 1 = e + 1
    <3>1. 1 \in 1 .. l /\ d + 2 \in 1 .. l
      BY <2>0
    <3>2. m \in Nat /\ m + l = e
      BY <1>4, <1>6, <2>0
    <3>3. m + l + 1 = e + 1
      BY <3>2
    <3>4. QED
      BY <2>0, <3>1, <3>3
  <2>2. t[m + 1] = w[1] /\ t[m + (d + 2)] = w[d + 2]
    BY <2>1 DEF Occurs
  <2>3. t[i] = "'" /\ t[e] = "'"
    BY <1>4, <1>5, <1>6, <2>2
  <2>4. PICK x : x = m + Len(w) + 1 /\ x = e + 1
    BY <2>1
  <2>5. x <= Len(t) => t[x] # "'"
    BY <2>4
  <2>6. QED
    BY <2>3, <2>4, <2>5
<1>8. ASSUME NEW j \in 1 .. d
      PROVE  t[i + j] = D[j]
  <2>1. 1 + j \in 1 .. Len(w) /\ m + (1 + j) = i + j
    BY <1>4, <1>5
  <2>2. t[m + (1 + j)] = w[1 + j]
    BY <2>1 DEF Occurs
  <2>3. QED
    BY <1>5, <2>1, <2>2
<1>9. \A k \in 1 .. n + 1 : at[k] <= d /\ at[k] \in Nat
  <2>1. \A k \in 1 .. n : at[k] <= at[k + 1]
    <3>1. ASSUME NEW k \in 1 .. n
          PROVE  at[k] <= at[k + 1]
      <4>1. at[k] \in Nat /\ (at[k + 1] = at[k] + 1 \/ at[k + 1] = at[k] + 2)
        <5>1. k \in 1 .. n + 1
          OBVIOUS
        <5>2. at[k] \in Nat
          BY <5>1
        <5>3. s[k] = "'" \/ s[k] # "'"
          OBVIOUS
        <5>4. QED
          BY <1>3, <5>2, <5>3
      <4>2. QED
        BY <4>1
    <3>2. QED
      BY <3>1
  <2>2. \A k \in 1 .. n + 1 : at[k] <= at[n + 1]
    BY <2>1, AtGrows
  <2>3. QED
    BY <1>3, <1>4, <2>2
<1> DEFINE Z == Strings(t)
           K == {k \in 1 .. n + 1 : Z[f + at[k]] = [at |-> e + 1, chars |-> SubSeq(s, k, n)]}
<1>10. \A j \in 1 .. Len(t) + 2 : Z[j] = StringFrom(Z, t, j)
  BY StringsUnfold
<1> HIDE DEF Z
<1>11. Hereditary(K, n + 1)
  <2>1. ASSUME NEW k \in 1 .. n + 1, \A x \in 1 .. n + 1 : x > k => x \in K
        PROVE  k \in K
    <3>1. CASE k = n + 1
      <4>0. at[k] = d
        BY <1>3, <1>4, <3>1
      <4>1. f + at[k] = e /\ e \in 1 .. Len(t) + 2
        BY <1>4, <1>6, <4>0
      <4>2. StringFrom(Z, t, e) = [at |-> e + 1, chars |-> <<>>]
        <5>1. ~(e > Len(t)) /\ ~(t[e] # "'") /\ ~(e < Len(t) /\ t[e + 1] = "'")
          BY <1>6, <1>7
        <5>2. QED
          BY <5>1 DEF StringFrom
      <4>3. SubSeq(s, k, n) = <<>>
        BY <1>1, <3>1
      <4>4. Z[e] = StringFrom(Z, t, e)
        BY <1>10, <4>1
      <4>5. QED
        BY <4>1, <4>2, <4>3, <4>4
    <3>2. CASE k # n + 1
      <4>1. k \in 1 .. n
        BY <3>2
      <4>2. PICK y \in 1 .. n + 1 : y = k + 1 /\ y > k
        BY <4>1
      <4>3. Z[f + at[y]] = [at |-> e + 1, chars |-> SubSeq(s, y, n)]
        BY <2>1, <4>2
      <4>4. SubSeq(s, k, n) = <<s[k]>> \o SubSeq(s, y, n)
        BY <1>1, <4>1, <4>2, SubSeqStep
      <4>5. PICK p \in Nat : p = f + at[k]
        BY <1>4, <1>9
      <4>6. p \in 1 .. Len(t) + 2 => Z[p] = StringFrom(Z, t, p)
        BY <1>10
      <4>7. PICK a \in Nat, b \in Nat : a = at[k] /\ b = at[y] /\ b <= d
        BY <1>9, <4>2
      <4>8. CASE s[k] # "'"
        <5>1. b = a + 1 /\ D[a + 1] = s[k]
          BY <1>3, <4>1, <4>2, <4>7, <4>8
        <5>2. a + 1 \in 1 .. d /\ i + (a + 1) = p /\ p <= Len(t) /\ p \in 1 .. Len(t) + 2 /\ p + 1 = f + b
          <6>1. p = f + a /\ b = a + 1 /\ b <= d
            BY <4>5, <4>7, <5>1
          <6>2. a + 1 \in 1 .. d /\ p + 1 = f + b /\ p + 1 <= e
            BY <1>4, <6>1
          <6>3. i + (a + 1) = p
            BY <1>4, <6>1
          <6>4. p <= Len(t) /\ p \in 1 .. Len(t) + 2
            BY <1>4, <1>6, <6>1, <6>2
          <6>5. QED
            BY <6>2, <6>3, <6>4
        <5>3. t[p] = s[k]
          BY <1>8, <5>1, <5>2
        <5>4. StringFrom(Z, t, p) = [Z[p + 1] EXCEPT !.chars = <<t[p]>> \o Z[p + 1].chars]
          <6>1. ~(p > Len(t)) /\ p <= Len(t) /\ t[p] # "'"
            BY <1>6, <4>8, <5>2, <5>3
          <6>2. QED
            BY <6>1, Zenon DEF StringFrom
        <5>5. StringFrom(Z, t, p) = [at |-> e + 1, chars |-> <<s[k]>> \o SubSeq(s, y, n)]
          <6>1. Z[p + 1] = [at |-> e + 1, chars |-> SubSeq(s, y, n)]
            BY <4>3, <4>7, <5>2
          <6>2. PICK g : g = SubSeq(s, y, n)
            OBVIOUS
          <6>3. \A h : [[at |-> e + 1, chars |-> g] EXCEPT !.chars = h] = [at |-> e + 1, chars |-> h]
            OBVIOUS
          <6>4. QED
            <7>1. PICK z : z = Z[p + 1] /\ z = [at |-> e + 1, chars |-> g] /\ z.chars = g
              <8>1. [at |-> e + 1, chars |-> g].chars = g
                OBVIOUS
              <8>2. Z[p + 1] = [at |-> e + 1, chars |-> g]
                BY <6>1, <6>2
              <8>3. Z[p + 1].chars = g
                BY <8>1, <8>2
              <8>4. QED
                BY <8>2, <8>3
            <7>2. PICK h : h = <<t[p]>> \o z.chars /\ h = <<s[k]>> \o g
              BY <5>3, <7>1
            <7>3. StringFrom(Z, t, p) = [z EXCEPT !.chars = h]
              BY <5>4, <7>1, <7>2
            <7>4. [z EXCEPT !.chars = h] = [at |-> e + 1, chars |-> h]
              BY <6>3, <7>1
            <7>5. QED
              BY <6>2, <7>2, <7>3, <7>4
        <5>6. QED
          BY <4>4, <4>5, <4>6, <5>2, <5>5
      <4>9. CASE s[k] = "'"
        <5>1. b = a + 2 /\ D[a + 1] = "'" /\ D[a + 2] = "'"
          BY <1>3, <4>1, <4>2, <4>7, <4>9
        <5>2. /\ a + 1 \in 1 .. d /\ i + (a + 1) = p /\ p <= Len(t) /\ p \in 1 .. Len(t) + 2
              /\ a + 2 \in 1 .. d /\ i + (a + 2) = p + 1 /\ p < Len(t) /\ p + 2 = f + b
          <6>1. p = f + a /\ b = a + 2 /\ b <= d
            BY <4>5, <4>7, <5>1
          <6>2. a + 1 \in 1 .. d /\ a + 2 \in 1 .. d /\ p + 2 = f + b /\ p + 2 <= e
            BY <1>4, <6>1
          <6>3. i + (a + 1) = p /\ i + (a + 2) = p + 1
            BY <1>4, <6>1
          <6>4. p <= Len(t) /\ p \in 1 .. Len(t) + 2 /\ p < Len(t)
            BY <1>4, <1>6, <6>1, <6>2
          <6>5. QED
            BY <6>2, <6>3, <6>4
        <5>3. t[p] = "'" /\ t[p + 1] = "'"
          <6>1. t[i + (a + 1)] = D[a + 1] /\ t[i + (a + 2)] = D[a + 2]
            BY <1>8, <5>2
          <6>2. QED
            BY <5>1, <5>2, <6>1
        <5>4. StringFrom(Z, t, p) = [Z[p + 2] EXCEPT !.chars = <<"'">> \o Z[p + 2].chars]
          BY <1>6, <5>2, <5>3 DEF StringFrom
        <5>5. StringFrom(Z, t, p) = [at |-> e + 1, chars |-> <<s[k]>> \o SubSeq(s, y, n)]
          <6>1. Z[p + 2] = [at |-> e + 1, chars |-> SubSeq(s, y, n)]
            BY <4>3, <4>7, <5>2
          <6>2. PICK g : g = SubSeq(s, y, n)
            OBVIOUS
          <6>3. \A h : [[at |-> e + 1, chars |-> g] EXCEPT !.chars = h] = [at |-> e + 1, chars |-> h]
            OBVIOUS
          <6>4. QED
            <7>1. PICK z : z = Z[p + 2] /\ z = [at |-> e + 1, chars |-> g] /\ z.chars = g
              <8>1. [at |-> e + 1, chars |-> g].chars = g
                OBVIOUS
              <8>2. Z[p + 2] = [at |-> e + 1, chars |-> g]
                BY <6>1, <6>2
              <8>3. Z[p + 2].chars = g
                BY <8>1, <8>2
              <8>4. QED
                BY <8>2, <8>3
            <7>2. PICK h : h = <<"'">> \o z.chars /\ h = <<s[k]>> \o g
              BY <4>9, <7>1
            <7>3. StringFrom(Z, t, p) = [z EXCEPT !.chars = h]
              BY <5>4, <7>1, <7>2
            <7>4. [z EXCEPT !.chars = h] = [at |-> e + 1, chars |-> h]
              BY <6>3, <7>1
            <7>5. QED
              BY <6>2, <7>2, <7>3, <7>4
        <5>6. QED
          BY <4>4, <4>5, <4>6, <5>2, <5>5
      <4>10. QED
        BY <4>8, <4>9
    <3>3. QED
      BY <3>1, <3>2
  <2>2. QED
    BY <2>1 DEF Hereditary
<1>12. 1 .. n + 1 \subseteq K
  <2> HIDE DEF K
  <2>1. n + 1 \in Nat
    OBVIOUS
  <2>2. QED
    BY <1>11, <2>1, Downwards
<1>13. Z[f] = [at |-> e + 1, chars |-> s]
  <2>1. 1 \in K
    <3>1. 1 \in 1 .. n + 1
      OBVIOUS
    <3> HIDE DEF K
    <3>2. QED
      BY <1>12, <3>1
  <2>2. f + at[1] = f
    BY <1>3, <1>4
  <2>3. SubSeq(s, 1, n) = s
    <3>1. /\ SubSeq(s, 1, n) \in Seq(C) /\ Len(SubSeq(s, 1, n)) = n
          /\ \A j \in 1 .. n : SubSeq(s, 1, n)[j] = s[j]
      BY <1>1, PrefixFacts
    <3>2. QED
      BY <1>1, <3>1, SameSequence
  <2>4. Z[f + at[1]] = [at |-> e + 1, chars |-> SubSeq(s, 1, n)]
    BY <2>1
  <2>5. QED
    BY <2>2, <2>3, <2>4
<1>14. StringLiteral(t, i) = Emit(e + 1, "STRING", Spelt(s))
  <2>1. StringLiteral(t, i) = Emit(Z[i + 1].at, "STRING", Spelt(Z[i + 1].chars))
    BY DEF StringLiteral, Z
  <2>2. QED
    BY <1>4, <1>13, <2>1
<1>15. Lexeme(t, i) = StringLiteral(t, i)
  BY <1>7, LexemeOf
<1>16. m + Len(w) + 1 = e + 1
  BY <1>4, <1>5, <1>6
<1>17. QED
  BY <1>4, <1>14, <1>15, <1>16

-----------------------------------------------------------------------------
(* What the text of a lexeme is read as *)

\* A lexeme that is written without quotes.
Unquoted(l) == l.quote = ""

\* Which types of token a well-spelt lexeme has, and what it may be written with.
LEMMA TokenFacts ==
    ASSUME NEW l, WellSpelt(l)
    PROVE  \E type :
             /\ TokenOf(l) = Token(type, l.text)
             /\ l.quote = "'"   => type = "STRING"
             /\ l.quote = Quote => type = "IDENTIFIER"
             /\ Unquoted(l) =>
                  /\ \/ type \in {"KEYWORD", "IDENTIFIER"} /\ (type = "KEYWORD" <=> l.text \in Keywords)
                     \/ type = "SYMBOL" /\ l.text \in Symbols
                     \/ type = "OPERATOR" /\ l.text \in Operators \cup {"!="}
                     \/ type = "NUMBER"
                  /\ LET chars == Characters(l.text)
                     IN  /\ type \in {"KEYWORD", "IDENTIFIER"} =>
                              /\ chars # <<>> /\ chars[1] \notin Digits
                              /\ Range(chars) \cap (Marks \cup Spaces \cup DOMAIN Capitals) = {}
                         /\ type = "NUMBER" => IsNumber(chars)
                         /\ type \in {"SYMBOL", "OPERATOR"} =>
                              \/ chars = <<l.text>> /\ l.text \in Marks
                              \/ chars \in Pairs /\ type = "OPERATOR"
<1>1. CASE l.quote = "'"
  <2>1. TokenOf(l) = Token("STRING", l.text)
    BY <1>1, Zenon DEF TokenOf
  <2>2. "'" # Quote
    BY DEF Quote
  <2>3. ~Unquoted(l)
    BY <1>1 DEF Unquoted
  <2>4. QED
    BY <1>1, <2>1, <2>2, <2>3
<1>2. CASE l.quote = Quote
  <2>1. TokenOf(l) = Token("IDENTIFIER", l.text)
    BY <1>2, Zenon DEF TokenOf, Quote
  <2>2. "'" # Quote
    BY DEF Quote
  <2>3. ~Unquoted(l)
    BY <1>2, Zenon DEF Unquoted, Quote
  <2>4. QED
    BY <1>2, <2>1, <2>2, <2>3
<1>3. CASE Unquoted(l)
  <2> DEFINE v == l.text
             type == IF v \in Keywords THEN "KEYWORD"
                     ELSE IF v \in Symbols THEN "SYMBOL"
                     ELSE IF v \in Operators \cup {"!="} THEN "OPERATOR"
                     ELSE IF Characters(v)[1] \in Digits THEN "NUMBER"
                     ELSE "IDENTIFIER"
  <2>1. TokenOf(l) = Token(type, v)
    BY <1>3, Zenon DEF TokenOf, Unquoted
  <2>2. \/ type \in {"KEYWORD", "IDENTIFIER"} /\ (type = "KEYWORD" <=> v \in Keywords)
        \/ type = "SYMBOL" /\ v \in Symbols
        \/ type = "OPERATOR" /\ v \in Operators \cup {"!="}
        \/ type = "NUMBER"
    OBVIOUS
  <2> DEFINE chars == Characters(v)
  <2>3. TokenOf(l).type = type
    BY <2>1 DEF Token
  <2>4. (CASE TokenOf(l).type \in {"KEYWORD", "IDENTIFIER"} ->
                    /\ chars # <<>> /\ chars[1] \notin Digits
                    /\ Range(chars) \cap (Marks \cup Spaces \cup DOMAIN Capitals) = {}
          [] TokenOf(l).type = "NUMBER" -> IsNumber(chars)
          [] OTHER -> \/ chars = <<v>> /\ v \in Marks
                      \/ chars \in Pairs /\ TokenOf(l).type = "OPERATOR")
    BY <1>3, Zenon DEF WellSpelt, Unquoted
  <2> HIDE DEF chars, type
  <2>5. /\ type \in {"KEYWORD", "IDENTIFIER"} =>
             /\ chars # <<>> /\ chars[1] \notin Digits
             /\ Range(chars) \cap (Marks \cup Spaces \cup DOMAIN Capitals) = {}
        /\ type = "NUMBER" => IsNumber(chars)
        /\ type \in {"SYMBOL", "OPERATOR"} =>
             \/ chars = <<v>> /\ v \in Marks
             \/ chars \in Pairs /\ type = "OPERATOR"
    BY <2>3, <2>4
  <2>6. l.quote # "'" /\ l.quote # Quote
    BY <1>3, Zenon DEF Unquoted, Quote
  <2>7. QED
    BY <1>3, <2>1, <2>2, <2>5, <2>6 DEF chars
<1>4. Unquoted(l) \/ l.quote = "'" \/ l.quote = Quote
  BY Zenon DEF WellSpelt, Lexemes, Quote, Unquoted
<1>5. QED
  BY <1>1, <1>2, <1>3, <1>4

\* Whether two characters run together does not depend on their case.
LEMMA RunTogetherUpper ==
    ASSUME NEW c, NEW d
    PROVE  RunTogether(Upper(c), Upper(d)) <=> RunTogether(c, d)
<1> DEFINE M == Marks \cup Spaces
           P == Pairs \cup {<<"-", "-">>, <<"/", "*">>, <<"'", "'">>, <<Quote, Quote>>}
           R(x, y) == \/ {x, y} \cap M = {} \/ <<x, y>> \in P
                      \/ x \in Digits /\ y = "."
                      \/ x = "." /\ y \in Digits
<1>1. \A x, y : RunTogether(x, y) <=> R(x, y)
  BY Zenon DEF RunTogether, Quote
<1>2. \A x, y : <<x, y>> \in P => x \in M /\ y \in M
  <2>1. Quote \in Marks
    BY Zenon DEF Quote, Marks
  <2>2. QED
    BY <2>1 DEF Pairs, Marks
<1>3. "." \in M
  BY DEF Marks
<1>4. \A x : Upper(x) = x \/ {x, Upper(x)} \cap (M \cup Digits) = {}
  BY UpperFacts
<1> HIDE DEF P, M
<1>5. R(Upper(c), Upper(d)) <=> R(c, d)
  <2>1. PICK a, b : a = Upper(c) /\ b = Upper(d)
    OBVIOUS
  <2>2. (a = c \/ {c, a} \cap (M \cup Digits) = {}) /\ (b = d \/ {d, b} \cap (M \cup Digits) = {})
    BY <1>4, <2>1
  <2>3. {a, b} \cap M = {} <=> {c, d} \cap M = {}
    BY <2>2
  <2>4. <<a, b>> \in P <=> <<c, d>> \in P
    BY <1>2, <2>2
  <2>5. (a \in Digits /\ b = ".") <=> (c \in Digits /\ d = ".")
    BY <1>3, <2>2
  <2>6. (a = "." /\ b \in Digits) <=> (c = "." /\ d \in Digits)
    BY <1>3, <2>2
  <2>7. QED
    BY <2>1, <2>3, <2>4, <2>5, <2>6
<1>6. QED
  BY <1>1, <1>5

\* Characters of a text.
Chars == STRING \cup Marks \cup Spaces

\* The characters of a text include the quotes and the space, and are closed
\* under a change of case.
LEMMA CharsFacts ==
    /\ "'" \in Chars /\ Quote \in Chars /\ " " \in Chars
    /\ \A c \in Chars : Upper(c) \in Chars /\ Small(c) \in Chars
<1>1. "'" \in Marks /\ " " \in Spaces
  BY DEF Marks, Spaces
<1>2. Quote \in Marks
  BY Zenon DEF Quote, Marks
<1>3. ASSUME NEW c \in Chars
      PROVE  Upper(c) \in Chars /\ Small(c) \in Chars
  BY UpperFacts DEF Chars
<1>4. QED
  BY <1>1, <1>2, <1>3 DEF Chars

\* A sequence between two quotes.
LEMMA InQuotes ==
    ASSUME NEW S, NEW q \in S, NEW x \in Seq(S)
    PROVE  LET w == <<q>> \o x \o <<q>>
           IN  /\ w \in Seq(S) /\ Len(w) = Len(x) + 2 /\ w[1] = q /\ w[Len(x) + 2] = q
               /\ \A j \in 1 .. Len(x) : w[1 + j] = x[j]
<1>1. PICK h \in Seq(S) : h = <<q>> /\ Len(h) = 1 /\ h[1] = q
  <2>1. <<q>> \in Seq(S) /\ Len(<<q>>) = 1 /\ <<q>>[1] = q
    OBVIOUS
  <2>2. QED
    BY <2>1
<1>2. PICK n \in Nat : n = Len(x)
  OBVIOUS
<1>3. PICK b \in Seq(S) : b = h \o x
  BY Concat
<1>4. Len(b) = 1 + n /\ b[1] = q /\ \A j \in 1 .. n : b[1 + j] = x[j]
  <2>1. 1 \in 1 .. Len(h)
    BY <1>1
  <2>2. QED
    BY <1>1, <1>2, <1>3, <2>1, Concat
<1>5. PICK w \in Seq(S) : w = b \o h
  BY Concat
<1>6. Len(w) = n + 2 /\ w[n + 2] = q /\ \A j \in 1 .. n + 1 : w[j] = b[j]
  <2>1. 1 \in 1 .. Len(h) /\ Len(b) + 1 = n + 2
    BY <1>1, <1>4
  <2>2. Len(w) = Len(b) + 1 /\ w[Len(b) + 1] = q /\ \A j \in 1 .. Len(b) : w[j] = b[j]
    BY <1>1, <1>5, <2>1, Concat
  <2>3. QED
    BY <1>4, <2>1, <2>2
<1>7. w[1] = q /\ \A j \in 1 .. n : w[1 + j] = x[j]
  <2>1. 1 \in 1 .. n + 1 /\ \A j \in 1 .. n : 1 + j \in 1 .. n + 1
    OBVIOUS
  <2>2. QED
    BY <1>4, <1>6, <2>1
<1>8. QED
  BY <1>1, <1>2, <1>3, <1>5, <1>6, <1>7

\* A lexeme without quotes is read as its characters, whatever the case of its letters.
LEMMA WordWritten ==
    ASSUME NEW l, WellSpelt(l), Unquoted(l), NEW small
    PROVE  LET s == Characters(l.text)
               w == WrittenAs(l, small)
           IN  /\ s \in Seq(Chars) /\ Len(s) >= 1 /\ w \in Seq(Chars) /\ Len(w) = Len(s)
               /\ \A j \in 1 .. Len(s) : Upper(w[j]) = s[j]
<1>1. PICK s \in Seq(STRING) : s = Characters(l.text)
  BY Zenon DEF WellSpelt
<1>2. PICK n \in Nat : n = Len(s) /\ DOMAIN s = 1 .. n
  OBVIOUS
<1>3. \A j \in 1 .. n : s[j] \in STRING
  BY <1>2
<1>4. s \in Seq(Chars)
  BY DEF Chars
<1>5. PICK w : w = WrittenAs(l, small) /\ w = [j \in 1 .. n |-> IF small THEN Small(s[j]) ELSE s[j]]
  <2>1. WrittenAs(l, small) = [j \in DOMAIN Characters(l.text) |->
            IF small THEN Small(Characters(l.text)[j]) ELSE Characters(l.text)[j]]
    BY Zenon DEF WrittenAs, Unquoted
  <2>2. QED
    BY <1>1, <1>2, <2>1
<1>6. w \in Seq(Chars) /\ Len(w) = n
  <2>1. \A j \in 1 .. n : s[j] \in Chars /\ Small(s[j]) \in Chars
    BY <1>3, CharsFacts DEF Chars
  <2>2. w \in [1 .. n -> Chars]
    BY <1>5, <2>1
  <2>3. QED
    BY <2>2
<1>7. \A j \in 1 .. n : Upper(w[j]) = Upper(s[j])
  <2>1. ASSUME NEW j \in 1 .. n
        PROVE  Upper(w[j]) = Upper(s[j])
    <3>1. w[j] = IF small THEN Small(s[j]) ELSE s[j]
      BY <1>5
    <3>2. Upper(Small(s[j])) = Upper(s[j])
      BY UpperFacts
    <3>3. QED
      BY <3>1, <3>2
  <2>2. QED
    BY <2>1
<1>8. PICK type :
         /\ \/ type \in {"KEYWORD", "IDENTIFIER"} \/ type = "SYMBOL" \/ type = "OPERATOR" \/ type = "NUMBER"
         /\ type \in {"KEYWORD", "IDENTIFIER"} =>
                /\ s # <<>> /\ Range(s) \cap (Marks \cup Spaces \cup DOMAIN Capitals) = {}
         /\ type = "NUMBER" => IsNumber(s)
         /\ type \in {"SYMBOL", "OPERATOR"} => (s = <<l.text>> /\ l.text \in Marks) \/ s \in Pairs
  <2>1. \E type :
             /\ \/ type \in {"KEYWORD", "IDENTIFIER"} /\ (type = "KEYWORD" <=> l.text \in Keywords)
                \/ type = "SYMBOL" /\ l.text \in Symbols
                \/ type = "OPERATOR" /\ l.text \in Operators \cup {"!="}
                \/ type = "NUMBER"
             /\ LET chars == Characters(l.text)
                IN  /\ type \in {"KEYWORD", "IDENTIFIER"} =>
                              /\ chars # <<>> /\ chars[1] \notin Digits
                              /\ Range(chars) \cap (Marks \cup Spaces \cup DOMAIN Capitals) = {}
                    /\ type = "NUMBER" => IsNumber(chars)
                    /\ type \in {"SYMBOL", "OPERATOR"} =>
                              \/ chars = <<l.text>> /\ l.text \in Marks
                              \/ chars \in Pairs /\ type = "OPERATOR"
    BY TokenFacts
  <2>2. QED
    BY <1>1, <2>1
<1>9. n >= 1 /\ \A j \in 1 .. n : Upper(s[j]) = s[j]
  <2>1. CASE type \in {"KEYWORD", "IDENTIFIER"}
    <3>1. n >= 1
      BY <1>2, <1>8, <2>1
    <3>2. \A j \in 1 .. n : s[j] \notin DOMAIN Capitals
      BY <1>2, <1>8, <2>1 DEF Range
    <3>3. QED
      BY <3>1, <3>2, UpperFacts
  <2>2. CASE type = "NUMBER"
    <3>1. n \in 1 .. 3 /\ s[1] \in Digits /\ (n > 1 => s[2] = ".") /\ (n > 2 => s[3] \in Digits)
      BY <1>2, <1>8, <2>2 DEF IsNumber
    <3>2. "." \in Marks
      BY DEF Marks
    <3>3. \A j \in 1 .. n : s[j] \in Digits \cup Marks
      <4>1. ASSUME NEW j \in 1 .. n
            PROVE  s[j] \in Digits \cup Marks
        <5>1. j = 1 \/ (j = 2 /\ n > 1) \/ (j = 3 /\ n > 2)
          BY <3>1
        <5>2. QED
          BY <3>1, <3>2, <5>1
      <4>2. QED
        BY <4>1
    <3>4. QED
      BY <3>1, <3>3, CharacterKinds
  <2>3. CASE s = <<l.text>> /\ l.text \in Marks
    <3>1. n = 1 /\ s[1] \in Marks
      BY <1>2, <2>3
    <3>2. \A j \in 1 .. n : j = 1
      BY <3>1
    <3>3. QED
      BY <3>1, <3>2, CharacterKinds
  <2>4. CASE s \in Pairs
    <3>1. PICK a \in Marks, b \in Marks : s = <<a, b>>
      BY <2>4 DEF Pairs, Marks
    <3>2. n = 2 /\ s[1] \in Marks /\ s[2] \in Marks
      BY <1>2, <3>1
    <3>3. \A j \in 1 .. n : j = 1 \/ j = 2
      BY <3>2
    <3>4. QED
      BY <3>2, <3>3, CharacterKinds
  <2>5. QED
    BY <1>8, <2>1, <2>2, <2>3, <2>4
<1>10. QED
  BY <1>1, <1>2, <1>4, <1>5, <1>6, <1>7, <1>9

\* What a lexeme is read as in a text: its token.
LEMMA WordRead ==
    ASSUME NEW l, WellSpelt(l), Unquoted(l), NEW small,
           NEW t \in Seq(Chars), NEW m \in Nat, NEW w, w = WrittenAs(l, small), m + Len(w) <= Len(t),
           \A j \in 1 .. Len(w) : t[m + j] = Upper(w[j]),
           m + Len(w) + 1 <= Len(t) => ~RunTogether(Upper(w[Len(w)]), t[m + Len(w) + 1])
    PROVE  Lexeme(t, m + 1) = [at |-> m + Len(w) + 1, tokens |-> <<TokenOf(l)>>]
<1>1. PICK s \in Seq(Chars) : s = Characters(l.text)
  BY WordWritten
<1>2. PICK n \in Nat : n = Len(s) /\ n >= 1 /\ n = Len(w) /\ \A j \in 1 .. n : Upper(w[j]) = s[j]
  BY <1>1, WordWritten
<1>3. Occurs(s, t, m)
  BY <1>2 DEF Occurs
<1>4. PICK e \in Nat : e = m + n + 1
  OBVIOUS
<1>5. e <= Len(t) => ~RunTogether(s[n], t[e])
  <2>1. Upper(w[n]) = s[n]
    BY <1>2
  <2>2. QED
    BY <1>2, <1>4, <2>1
<1>6. Spelt(s) = l.text
  BY <1>1, Zenon DEF WellSpelt
<1>7. PICK type :
             /\ TokenOf(l) = Token(type, l.text)
             /\ \/ type \in {"KEYWORD", "IDENTIFIER"} /\ (type = "KEYWORD" <=> l.text \in Keywords)
                \/ type = "SYMBOL" /\ l.text \in Symbols
                \/ type = "OPERATOR" /\ l.text \in Operators \cup {"!="}
                \/ type = "NUMBER"
             /\ type \in {"KEYWORD", "IDENTIFIER"} =>
                     /\ s # <<>> /\ s[1] \notin Digits
                     /\ Range(s) \cap (Marks \cup Spaces \cup DOMAIN Capitals) = {}
             /\ type = "NUMBER" => IsNumber(s)
             /\ type \in {"SYMBOL", "OPERATOR"} =>
                     \/ s = <<l.text>> /\ l.text \in Marks
                     \/ s \in Pairs /\ type = "OPERATOR"
  BY <1>1, TokenFacts
<1>8. SUFFICES Lexeme(t, m + 1) = Emit(e, type, l.text)
  BY <1>2, <1>4, <1>7 DEF Emit
<1>9. CASE type \in {"KEYWORD", "IDENTIFIER"}
  <2>1. \A j \in 1 .. Len(s) : s[j] \notin Marks \cup Spaces
    BY <1>7, <1>9 DEF Range
  <2>2. e <= Len(t) => t[e] \in Marks \cup Spaces
    <3>1. s[n] \notin Marks \cup Spaces
      BY <1>2, <2>1
    <3>2. QED
      BY <1>5, <3>1, Zenon DEF RunTogether
  <2>3. Len(s) >= 1 /\ s[1] \notin Digits
    BY <1>2, <1>7, <1>9
  <2>4. m + Len(s) + 1 <= Len(t) => t[m + Len(s) + 1] \in Marks \cup Spaces
    BY <1>2, <1>4, <2>2
  <2>5. Lexeme(t, m + 1) = Emit(m + Len(s) + 1, IF Spelt(s) \in Keywords THEN "KEYWORD" ELSE "IDENTIFIER", Spelt(s))
    <3>1. Len(s) >= 1
      BY <2>3
    <3>2. s[1] \notin Digits
      BY <2>3
    <3>3. QED
      BY <1>3, <2>1, <2>4, <3>1, <3>2, ReadsName
  <2>6. type = IF l.text \in Keywords THEN "KEYWORD" ELSE "IDENTIFIER"
    BY <1>7, <1>9
  <2>7. QED
    BY <1>2, <1>4, <1>6, <2>5, <2>6
<1>10. CASE type = "NUMBER"
  <2>1. m + Len(s) + 1 <= Len(t) => ~RunTogether(s[Len(s)], t[m + Len(s) + 1])
    BY <1>2, <1>4, <1>5
  <2>2. Lexeme(t, m + 1) = Emit(m + Len(s) + 1, "NUMBER", Spelt(s))
    BY <1>3, <1>7, <1>10, <2>1, ReadsNumber
  <2>3. QED
    BY <1>2, <1>4, <1>6, <1>10, <2>2
<1>11. CASE type \in {"SYMBOL", "OPERATOR"} /\ s = <<l.text>> /\ l.text \in Marks
  <2>1. n = 1 /\ s[1] = l.text
    BY <1>2, <1>11
  <2>2. t[m + 1] = l.text /\ m + 1 <= Len(t)
    <3>1. 1 \in 1 .. Len(s)
      BY <1>2, <2>1
    <3>2. t[m + 1] = s[1] /\ m + Len(s) <= Len(t)
      BY <1>3, <3>1 DEF Occurs
    <3>3. QED
      BY <1>2, <2>1, <3>2
  <2>3. e = m + 2
    BY <1>4, <2>1
  <2>4. m + 2 <= Len(t) => ~RunTogether(l.text, t[m + 2])
    BY <1>5, <2>1, <2>3
  <2>5. l.text \in Symbols \cup Operators /\ type = IF l.text \in Symbols THEN "SYMBOL" ELSE "OPERATOR"
    <3>1. "!=" \notin Marks /\ Symbols \cap Operators = {}
      BY DEF Marks, Symbols, Operators
    <3>2. QED
      BY <1>7, <1>11, <3>1
  <2>6. Lexeme(t, m + 1) = Emit(m + 2, IF l.text \in Symbols THEN "SYMBOL" ELSE "OPERATOR", l.text)
    BY <1>11, <2>2, <2>4, <2>5, ReadsMark
  <2>7. QED
    BY <2>3, <2>5, <2>6
<1>12. CASE type = "OPERATOR" /\ s \in Pairs
  <2>1. Lexeme(t, m + 1) = Emit(m + Len(s) + 1, "OPERATOR", Spelt(s))
    BY <1>3, <1>12, ReadsPair
  <2>2. QED
    BY <1>2, <1>4, <1>6, <1>12, <2>1
<1>13. QED
  BY <1>7, <1>9, <1>10, <1>11, <1>12

\* The characters that the lexer leaves as they are.
Capital == {c \in Chars : Upper(c) = c}

\* None of the letters of a quoted lexeme are small.
InCapitals(l) == ~Unquoted(l) => Range(Characters(l.text)) \cap DOMAIN Capitals = {}

\* Text in capitals is not changed by the lexer, which puts all of the query in
\* capitals before it reads it.
LEMMA CapitalFacts ==
    /\ "'" \in Capital /\ Quote \in Capital /\ Capital \subseteq Chars
    /\ \A l : WellSpelt(l) /\ InCapitals(l) /\ ~Unquoted(l) => Characters(l.text) \in Seq(Capital)
    /\ \A w \in Seq(Capital) : w \in Seq(Chars) /\ \A j \in 1 .. Len(w) : Upper(w[j]) = w[j]
<1>1. "'" \in Marks
  BY DEF Marks
<1>2. Quote \in Marks
  BY Zenon DEF Quote, Marks
<1>3. "'" \in Capital /\ Quote \in Capital /\ Capital \subseteq Chars
  BY <1>1, <1>2, CharacterKinds, CharsFacts DEF Capital
<1>4. ASSUME NEW l, WellSpelt(l), InCapitals(l), ~Unquoted(l)
      PROVE  Characters(l.text) \in Seq(Capital)
  <2>1. PICK s \in Seq(STRING) : s = Characters(l.text)
    BY <1>4, Zenon DEF WellSpelt
  <2>2. PICK n \in Nat : n = Len(s) /\ DOMAIN s = 1 .. n
    OBVIOUS
  <2>3. \A j \in 1 .. n : s[j] \in Range(s) /\ s[j] \in STRING
    BY <2>2 DEF Range
  <2>4. Range(s) \cap DOMAIN Capitals = {}
    BY <1>4, <2>1, Zenon DEF InCapitals
  <2>5. \A j \in 1 .. n : s[j] \in Capital
    BY <2>3, <2>4, UpperFacts DEF Capital, Chars
  <2>6. s \in Seq(Capital)
    BY <2>2, <2>5
  <2>7. QED
    BY <2>1, <2>6
<1>5. ASSUME NEW w \in Seq(Capital)
      PROVE  w \in Seq(Chars) /\ \A j \in 1 .. Len(w) : Upper(w[j]) = w[j]
  <2>1. w \in Seq(Chars)
    BY <1>3
  <2>2. \A j \in 1 .. Len(w) : w[j] \in Capital
    OBVIOUS
  <2>3. QED
    BY <2>1, <2>2 DEF Capital
<1>6. QED
  BY <1>3, <1>4, <1>5

\* A string whose letters are capitals is read as its token.
LEMMA StringRead ==
    ASSUME NEW l, WellSpelt(l), InCapitals(l), l.quote = "'", NEW small
    PROVE  \A t \in Seq(Chars), m \in Nat :
                LET w == WrittenAs(l, small)
                IN  /\ m + Len(w) <= Len(t)
                    /\ \A j \in 1 .. Len(w) : t[m + j] = Upper(w[j])
                    /\ m + Len(w) + 1 <= Len(t) => ~RunTogether(Upper(w[Len(w)]), t[m + Len(w) + 1])
                    => Lexeme(t, m + 1) = [at |-> m + Len(w) + 1, tokens |-> <<TokenOf(l)>>]
<1>0. ~Unquoted(l)
  BY Zenon DEF Unquoted
<1>1. PICK s \in Seq(Capital) : s = Characters(l.text)
  BY <1>0, CapitalFacts
<1>2. PICK D \in Seq(Capital) : D = Doubled(s)
  BY CapitalFacts, DoubledPieces
<1>3. PICK w : w = WrittenAs(l, small) /\ w = <<"'">> \o D \o <<"'">>
  BY <1>1, <1>2, Zenon DEF WrittenAs
<1>4. /\ w \in Seq(Capital) /\ Len(w) = Len(D) + 2 /\ w[1] = "'" /\ w[Len(D) + 2] = "'"
      /\ \A j \in 1 .. Len(D) : w[1 + j] = D[j]
  BY <1>3, CapitalFacts, InQuotes
<1>5. w \in Seq(Chars) /\ s \in Seq(Chars) /\ Len(w) >= 1 /\ \A j \in 1 .. Len(w) : Upper(w[j]) = w[j]
  <2>1. Len(D) \in Nat
    OBVIOUS
  <2>2. QED
    BY <1>4, <2>1, CapitalFacts
<1>6. TokenOf(l) = Token("STRING", Spelt(s))
  <2>1. Spelt(s) = l.text
    BY <1>1, Zenon DEF WellSpelt
  <2>2. TokenOf(l) = Token("STRING", l.text)
    BY Zenon DEF TokenOf
  <2>3. QED
    BY <2>1, <2>2
<1>7. ASSUME NEW t \in Seq(Chars), NEW m \in Nat, m + Len(w) <= Len(t),
             \A j \in 1 .. Len(w) : t[m + j] = Upper(w[j]),
             m + Len(w) + 1 <= Len(t) => ~RunTogether(Upper(w[Len(w)]), t[m + Len(w) + 1])
      PROVE  Lexeme(t, m + 1) = [at |-> m + Len(w) + 1, tokens |-> <<TokenOf(l)>>]
  <2>1. Occurs(w, t, m)
    BY <1>5, <1>7 DEF Occurs
  <2>2. PICK e \in Nat : e = m + Len(w) + 1
    BY <1>5
  <2>3. e <= Len(t) => t[e] # "'"
    <3>1. Len(w) \in 1 .. Len(w)
      BY <1>5
    <3>2. Upper(w[Len(w)]) = "'"
      BY <1>4, <1>5, <3>1
    <3>3. e <= Len(t) => ~RunTogether("'", t[e])
      BY <1>7, <2>2, <3>2
    <3>4. RunTogether("'", "'")
      BY DEF RunTogether
    <3>5. QED
      BY <3>3, <3>4
  <2>4. m + Len(w) + 1 <= Len(t) => t[m + Len(w) + 1] # "'"
    BY <2>2, <2>3
  <2>5. /\ Len(w) = Len(Doubled(s)) + 2 /\ w[1] = "'" /\ w[Len(Doubled(s)) + 2] = "'"
        /\ \A j \in 1 .. Len(Doubled(s)) : w[1 + j] = Doubled(s)[j]
    BY <1>2, <1>4
  <2>6. Lexeme(t, m + 1) = Emit(m + Len(w) + 1, "STRING", Spelt(s))
    <3>1. w \in Seq(Chars) /\ s \in Seq(Chars) /\ "'" \in Chars
      BY <1>5, CharsFacts
    <3>2. Len(w) = Len(Doubled(s)) + 2 /\ w[1] = "'" /\ w[Len(Doubled(s)) + 2] = "'"
      BY <2>5
    <3>3. \A j \in 1 .. Len(Doubled(s)) : w[1 + j] = Doubled(s)[j]
      BY <2>5
    <3>4. QED
      BY <2>1, <2>4, <3>1, <3>2, <3>3, ReadsString, Zenon
  <2>7. QED
    BY <1>6, <2>6 DEF Emit
<1>8. QED
  BY <1>3, <1>5, <1>7

\* A quoted name whose letters are capitals is read as its token.
LEMMA QuotedNameRead ==
    ASSUME NEW l, WellSpelt(l), InCapitals(l), l.quote = Quote, NEW small
    PROVE  \A t \in Seq(Chars), m \in Nat :
                LET w == WrittenAs(l, small)
                IN  /\ m + Len(w) <= Len(t)
                    /\ \A j \in 1 .. Len(w) : t[m + j] = Upper(w[j])
                    => Lexeme(t, m + 1) = [at |-> m + Len(w) + 1, tokens |-> <<TokenOf(l)>>]
<1>0. ~Unquoted(l)
  BY Zenon DEF Unquoted, Quote
<1>1. PICK s \in Seq(Capital) : s = Characters(l.text)
  BY <1>0, CapitalFacts
<1>2. PICK w : w = WrittenAs(l, small) /\ w = <<Quote>> \o s \o <<Quote>>
  BY <1>1, Zenon DEF WrittenAs, Quote
<1>3. /\ w \in Seq(Capital) /\ Len(w) = Len(s) + 2 /\ w[1] = Quote /\ w[Len(s) + 2] = Quote
      /\ \A j \in 1 .. Len(s) : w[1 + j] = s[j]
  BY <1>2, CapitalFacts, InQuotes
<1>4. w \in Seq(Chars) /\ s \in Seq(Chars) /\ Len(w) >= 1 /\ \A j \in 1 .. Len(w) : Upper(w[j]) = w[j]
  <2>1. Len(s) \in Nat
    OBVIOUS
  <2>2. QED
    BY <1>3, <2>1, CapitalFacts
<1>5. TokenOf(l) = Token("IDENTIFIER", Spelt(s))
  <2>1. Spelt(s) = l.text
    BY <1>1, Zenon DEF WellSpelt
  <2>2. TokenOf(l) = Token("IDENTIFIER", l.text)
    BY Zenon DEF TokenOf, Quote
  <2>3. QED
    BY <2>1, <2>2
<1>6. \A j \in 1 .. Len(s) : s[j] # Quote
  <2>1. Quote \notin Range(s)
    BY <1>1, Zenon DEF WellSpelt, Quote
  <2>2. QED
    BY <2>1 DEF Range
<1>7. ASSUME NEW t \in Seq(Chars), NEW m \in Nat, m + Len(w) <= Len(t),
             \A j \in 1 .. Len(w) : t[m + j] = Upper(w[j])
      PROVE  Lexeme(t, m + 1) = [at |-> m + Len(w) + 1, tokens |-> <<TokenOf(l)>>]
  <2>1. Occurs(w, t, m)
    BY <1>4, <1>7 DEF Occurs
  <2>2. \A j \in 1 .. Len(s) : w[1 + j] = s[j] /\ s[j] # Quote
    BY <1>3, <1>6
  <2>3. Lexeme(t, m + 1) = Emit(m + Len(w) + 1, "IDENTIFIER", Spelt(s))
    <3>1. w \in Seq(Chars) /\ s \in Seq(Chars)
      BY <1>4
    <3>2. Len(w) = Len(s) + 2 /\ w[1] = Quote /\ w[Len(s) + 2] = Quote
      BY <1>3
    <3>3. QED
      BY <2>1, <2>2, <3>1, <3>2, ReadsQuotedName, Zenon
  <2>4. QED
    BY <1>5, <2>3 DEF Emit
<1>8. QED
  BY <1>2, <1>4, <1>7

\* What is read of a lexeme that ends before position e.
ReadAs(l, e) == [at |-> e, tokens |-> <<TokenOf(l)>>]

\* Every well-spelt lexeme is written with one character at least.
LEMMA LexemeWritten ==
    ASSUME NEW l, WellSpelt(l), NEW small
    PROVE  WrittenAs(l, small) \in Seq(Chars) /\ Len(WrittenAs(l, small)) >= 1
<1>1. CASE Unquoted(l)
  BY <1>1, WordWritten
<1>0. PICK C : C = STRING
  OBVIOUS
<1>2. PICK s \in Seq(C) : s = Characters(l.text)
  BY <1>0, Zenon DEF WellSpelt
<1>3. s \in Seq(Chars) /\ "'" \in Chars /\ Quote \in Chars
  <2>1. \A c \in C : c \in Chars
    BY <1>0 DEF Chars
  <2>2. s \in Seq(Chars)
    <3>1. PICK n \in Nat : n = Len(s) /\ DOMAIN s = 1 .. n
      OBVIOUS
    <3>2. \A i \in 1 .. n : s[i] \in Chars
      BY <2>1, <3>1
    <3>3. QED
      BY <3>1, <3>2
  <2>3. QED
    BY <2>2, CharsFacts
<1>4. CASE l.quote = "'"
  <2>1. PICK D \in Seq(Chars) : D = Doubled(s)
    BY <1>3, DoubledPieces
  <2>2. PICK w : w = WrittenAs(l, small) /\ w = <<"'">> \o D \o <<"'">>
    BY <1>2, <1>4, <2>1, Zenon DEF WrittenAs
  <2>3. w \in Seq(Chars) /\ Len(w) = Len(D) + 2
    BY <1>3, <2>2, InQuotes
  <2>4. Len(D) \in Nat
    OBVIOUS
  <2>5. QED
    BY <2>2, <2>3, <2>4
<1>5. CASE l.quote = Quote
  <2>1. PICK w : w = WrittenAs(l, small) /\ w = <<Quote>> \o s \o <<Quote>>
    BY <1>2, <1>5, Zenon DEF WrittenAs, Quote
  <2>2. w \in Seq(Chars) /\ Len(w) = Len(s) + 2
    BY <1>3, <2>1, InQuotes
  <2>3. Len(s) \in Nat
    OBVIOUS
  <2>4. QED
    BY <2>1, <2>2, <2>3
<1>6. Unquoted(l) \/ l.quote = "'" \/ l.quote = Quote
  BY Zenon DEF WellSpelt, Lexemes, Quote, Unquoted
<1>7. QED
  BY <1>1, <1>4, <1>5, <1>6

\* In t the characters w stand after the first m ones, in capitals, and nothing
\* that runs together with them comes next.
StandsAlone(w, t, m) ==
    /\ m + Len(w) <= Len(t)
    /\ \A j \in 1 .. Len(w) : t[m + j] = Upper(w[j])
    /\ m + Len(w) + 1 <= Len(t) => ~RunTogether(Upper(w[Len(w)]), t[m + Len(w) + 1])

\* Every lexeme is read as its token.
LEMMA LexemeRead ==
    ASSUME NEW l, WellSpelt(l), InCapitals(l), NEW small, NEW t \in Seq(Chars), NEW m \in Nat,
           StandsAlone(WrittenAs(l, small), t, m)
    PROVE  Lexeme(t, m + 1) = ReadAs(l, m + Len(WrittenAs(l, small)) + 1)
<1> USE DEF ReadAs
<1>0. PICK w : w = WrittenAs(l, small)
  OBVIOUS
<1>9. /\ m + Len(w) <= Len(t)
      /\ \A j \in 1 .. Len(w) : t[m + j] = Upper(w[j])
      /\ m + Len(w) + 1 <= Len(t) => ~RunTogether(Upper(w[Len(w)]), t[m + Len(w) + 1])
  BY <1>0 DEF StandsAlone
<1>1. CASE Unquoted(l)
  BY <1>0, <1>1, <1>9, WordRead
<1>2. CASE l.quote = "'"
  BY <1>0, <1>2, <1>9, StringRead
<1>3. CASE l.quote = Quote
  BY <1>0, <1>3, <1>9, QuotedNameRead
<1>4. Unquoted(l) \/ l.quote = "'" \/ l.quote = Quote
  BY Zenon DEF WellSpelt, Lexemes, Quote, Unquoted
<1>5. QED
  BY <1>1, <1>2, <1>3, <1>4

-----------------------------------------------------------------------------
(* What stands between two lexemes *)

\* Where nothing is read, the tokens are those from the end of what was skipped.
LEMMA SkipTo ==
    ASSUME NEW C, NEW t \in Seq(C), NEW i \in 1 .. Len(t), NEW e, Lexeme(t, i) = Skip(e)
    PROVE  e \in i + 1 .. Len(t) + 1 /\ Tokens(t)[i] = Tokens(t)[e]
<1>1. e \in i + 1 .. Len(t) + 1 /\ Lexeme(t, i).tokens = <<>> /\ Lexeme(t, i).at = e
  <2>1. Lexeme(t, i).at = e /\ Lexeme(t, i).tokens = <<>>
    BY DEF Skip
  <2>2. QED
    BY <2>1, LexemeAdvances
<1>2. PICK T : Tokens(t) \in [1 .. Len(t) + 1 -> Seq(T)]
  BY TokensUnfold
<1>3. PICK x \in Seq(T) : x = Tokens(t)[e]
  <2>1. e \in 1 .. Len(t) + 1
    BY <1>1
  <2>2. QED
    BY <1>2, <2>1
<1>4. Tokens(t)[i] = <<>> \o x
  BY <1>1, <1>3, TokensUnfold
<1>5. <<>> \o x = x
  <2>1. <<>> \o x \in Seq(T) /\ Len(<<>> \o x) = Len(x)
    BY EmptySeq
  <2>2. QED
    BY <2>1, SameSequence
<1>6. QED
  BY <1>1, <1>3, <1>4, <1>5

\* Marks and spaces are not letters in disguise.
LEMMA SameMark ==
    ASSUME NEW c, NEW x \in Marks \cup Spaces
    PROVE  Upper(c) = x <=> c = x
BY UpperFacts, CharacterKinds

\* The character that ends a line comment, and the one between two words.
Newline == "\n"
Blank   == " "

\* A line comment and the newline that ends it are skipped.
LEMMA RemarkSkipped ==
    ASSUME NEW t \in Seq(Chars), NEW m \in Nat, NEW b \in Seq(STRING), m + Len(b) <= Len(t), IsRemark(b),
           \A j \in 1 .. Len(b) : t[m + j] = Upper(b[j])
    PROVE  Tokens(t)[m + 1] = Tokens(t)[m + Len(b) + 1]
<1>1. PICK n \in Nat, i \in Nat, e \in Nat : n = Len(b) /\ n >= 4 /\ i = m + 1 /\ e = m + n /\ e <= Len(t)
  <2>1. Len(b) \in Nat
    OBVIOUS
  <2>2. Len(b) >= 4
    BY Zenon DEF IsRemark
  <2>3. QED
    BY <2>1, <2>2
<1>2. b[1] = Blank /\ b[2] = "-" /\ b[3] = "-" /\ \A j \in 4 .. n : b[j] = Newline <=> j = n
  BY <1>1, Zenon DEF IsRemark, Newline, Blank
<1>3. Blank \in Spaces /\ Newline \in Spaces /\ "-" \in Marks /\ "-" # Newline
  <2>1. Blank \in Spaces /\ Newline \in Spaces
    BY Zenon DEF Spaces, Newline, Blank
  <2>2. "-" \in Marks
    BY DEF Marks
  <2>3. QED
    BY <2>1, <2>2, CharacterKinds
<1>4. \A j \in 1 .. n : (t[m + j] = Newline <=> b[j] = Newline) /\ (t[m + j] = Blank <=> b[j] = Blank)
                        /\ (t[m + j] = "-" <=> b[j] = "-")
  <2>1. ASSUME NEW j \in 1 .. n
        PROVE  (t[m + j] = Newline <=> b[j] = Newline) /\ (t[m + j] = Blank <=> b[j] = Blank)
                        /\ (t[m + j] = "-" <=> b[j] = "-")
    <3>1. t[m + j] = Upper(b[j])
      BY <1>1
    <3>2. \A c : (Upper(c) = Newline <=> c = Newline) /\ (Upper(c) = Blank <=> c = Blank) /\ (Upper(c) = "-" <=> c = "-")
      BY <1>3, SameMark
    <3>3. QED
      BY <3>1, <3>2
  <2>2. QED
    BY <2>1
<1>5. t[i] = Blank /\ t[i + 1] = "-" /\ t[i + 2] = "-" /\ t[e] = Newline
  <2>1. 1 \in 1 .. n /\ 2 \in 1 .. n /\ 3 \in 1 .. n /\ n \in 1 .. n /\ n \in 4 .. n
    BY <1>1
  <2>2. m + 1 = i /\ m + 2 = i + 1 /\ m + 3 = i + 2 /\ m + n = e
    BY <1>1
  <2>3. t[m + 1] = Blank /\ t[m + 2] = "-" /\ t[m + 3] = "-" /\ t[m + n] = Newline
    BY <1>2, <1>4, <2>1
  <2>4. QED
    BY <2>2, <2>3
<1>6. i \in 1 .. Len(t) /\ i + 1 \in 1 .. Len(t) /\ i + 1 < Len(t) /\ e \in 1 .. Len(t) /\ e \in i + 1 .. Len(t) + 1
  BY <1>1
<1>7. \A k \in i + 1 .. e - 1 : t[k] \notin {Newline}
  <2>1. ASSUME NEW k \in i + 1 .. e - 1
        PROVE  t[k] \notin {Newline}
    <3>1. PICK j \in 2 .. n - 1 : k = m + j
      <4>1. k - m \in 2 .. n - 1 /\ k = m + (k - m)
        BY <1>1
      <4>2. QED
        BY <4>1
    <3>2. j \in 1 .. n /\ (j = 2 \/ j = 3 \/ (j \in 4 .. n /\ j # n))
      BY <1>1
    <3>3. b[j] # Newline
      BY <1>2, <1>3, <3>2
    <3>4. QED
      BY <1>4, <3>1, <3>2, <3>3
  <2>2. QED
    BY <2>1
<1>8. Tokens(t)[i] = Tokens(t)[i + 1]
  <2>1. Lexeme(t, i) = Skip(i + 1)
    BY <1>3, <1>5, LexemeOf
  <2>2. QED
    BY <1>6, <2>1, SkipTo
<1>9. Tokens(t)[i + 1] = Tokens(t)[e]
  <2>1. Until(t, i + 1, {Newline}) = e
    <3>1. i + 1 \in 1 .. Len(t) + 1 /\ t[e] \in {Newline}
      BY <1>5, <1>6
    <3>2. QED
      BY <1>6, <1>7, <3>1, UntilIs
  <2>2. Pair(t, i + 1) = <<"-", "-">>
    <3>1. (i + 1) + 1 = i + 2
      BY <1>1
    <3>2. QED
      BY <1>5, <1>6, <3>1 DEF Pair
  <2>3. Lexeme(t, i + 1) = LineComment(t, i + 1)
    BY <2>2, LexemeOf
  <2>4. Lexeme(t, i + 1) = Skip(e)
    BY <2>1, <2>3, Zenon DEF LineComment, Newline
  <2>5. QED
    BY <1>6, <2>4, SkipTo
<1>10. Tokens(t)[e] = Tokens(t)[e + 1]
  <2>1. Lexeme(t, e) = Skip(e + 1)
    BY <1>3, <1>5, LexemeOf
  <2>2. QED
    BY <1>6, <2>1, SkipTo
<1>11. m + Len(b) + 1 = e + 1
  BY <1>1
<1>12. QED
  BY <1>1, <1>8, <1>9, <1>10, <1>11

\* A space is skipped.
LEMMA SpaceSkipped ==
    ASSUME NEW t \in Seq(Chars), NEW m \in Nat, m + 1 <= Len(t), t[m + 1] = Blank
    PROVE  Tokens(t)[m + 1] = Tokens(t)[m + 2]
<1>1. Blank \in Spaces
  BY Zenon DEF Spaces, Blank
<1>2. Lexeme(t, m + 1) = Skip((m + 1) + 1)
  BY <1>1, LexemeOf
<1>3. m + 1 \in 1 .. Len(t) /\ (m + 1) + 1 = m + 2
  OBVIOUS
<1>4. Tokens(t)[m + 1] = Tokens(t)[(m + 1) + 1]
  BY <1>2, <1>3, SkipTo
<1>5. QED
  BY <1>3, <1>4

\* A block comment is skipped, to the first end mark in it.
LEMMA CommentSkipped ==
    ASSUME NEW t \in Seq(Chars), NEW m \in Nat, NEW b \in Seq(STRING), m + Len(b) <= Len(t), IsComment(b),
           \A j \in 1 .. Len(b) : t[m + j] = Upper(b[j])
    PROVE  Tokens(t)[m + 1] = Tokens(t)[m + Len(b) + 1]
<1>1. PICK n \in Nat, i \in Nat, e \in Nat : n = Len(b) /\ n >= 4 /\ i = m + 1 /\ e = m + n /\ e <= Len(t)
  <2>1. Len(b) \in Nat
    OBVIOUS
  <2>2. QED
    BY <2>1 DEF IsComment
<1>2. b[1] = "/" /\ b[2] = "*" /\ \A j \in 3 .. n - 1 : (b[j] = "*" /\ b[j + 1] = "/") <=> j = n - 1
  BY <1>1 DEF IsComment
<1>3. "*" \in Marks /\ "/" \in Marks
  BY DEF Marks
<1>4. \A j \in 1 .. n : (t[m + j] = "*" <=> b[j] = "*") /\ (t[m + j] = "/" <=> b[j] = "/")
  <2>1. \A c : (Upper(c) = "*" <=> c = "*") /\ (Upper(c) = "/" <=> c = "/")
    BY <1>3, SameMark
  <2>2. QED
    BY <1>1, <2>1
<1>5. t[i] = "/" /\ t[i + 1] = "*" /\ i < Len(t) /\ i \in 1 .. Len(t)
  <2>1. 1 \in 1 .. n /\ 2 \in 1 .. n
    BY <1>1
  <2>2. m + 1 = i /\ m + 2 = i + 1 /\ i < Len(t) /\ i \in 1 .. Len(t)
    BY <1>1
  <2>3. t[m + 1] = "/" /\ t[m + 2] = "*"
    BY <1>2, <1>4, <2>1
  <2>4. QED
    BY <2>2, <2>3
<1> DEFINE ends == {k \in i + 2 .. Len(t) - 1 : t[k] = "*" /\ t[k + 1] = "/"}
<1>6. \A j \in 3 .. n - 1 : (t[m + j] = "*" /\ t[m + (j + 1)] = "/") <=> j = n - 1
  <2>1. \A j \in 3 .. n - 1 : j \in 1 .. n /\ j + 1 \in 1 .. n
    BY <1>1
  <2>2. QED
    BY <1>2, <1>4, <2>1
<1>7. PICK y \in Nat : y = e - 1
  <2>1. e - 1 \in Nat
    BY <1>1
  <2>2. QED
    BY <2>1
<1>8. y \in ends
  <2>1. n - 1 \in 3 .. n - 1 /\ m + (n - 1) = y /\ m + ((n - 1) + 1) = y + 1
    BY <1>1, <1>7
  <2>2. t[y] = "*" /\ t[y + 1] = "/"
    BY <1>6, <2>1
  <2>3. y \in i + 2 .. Len(t) - 1
    BY <1>1, <1>7
  <2>4. QED
    BY <2>2, <2>3
<1>9. \A k \in ends : y <= k
  <2>1. ASSUME NEW k \in ends, k < y
        PROVE  FALSE
    <3>1. k \in i + 2 .. Len(t) - 1 /\ t[k] = "*" /\ t[k + 1] = "/"
      OBVIOUS
    <3>2. PICK j \in 3 .. n - 1 : k = m + j /\ k + 1 = m + (j + 1) /\ j # n - 1
      <4>1. k - m \in 3 .. n - 1 /\ k = m + (k - m) /\ k + 1 = m + ((k - m) + 1) /\ k - m # n - 1
        BY <1>1, <1>7, <2>1, <3>1
      <4>2. QED
        BY <4>1
    <3>3. QED
      BY <1>6, <3>1, <3>2
  <2>2. ends \subseteq Int
    BY <1>1
  <2> HIDE DEF ends
  <2>3. QED
    BY <2>1, <2>2
<1>10. ends \subseteq Nat
  BY <1>1
<1> HIDE DEF ends
<1>11. Min(ends) = y /\ ends # {}
  BY <1>8, <1>9, <1>10, MinIs
<1>12. Lexeme(t, i) = Skip(e + 1)
  <2>1. Pair(t, i) = <<"/", "*">>
    BY <1>5 DEF Pair
  <2>2. Lexeme(t, i) = BlockComment(t, i)
    BY <2>1, LexemeOf
  <2>3. BlockComment(t, i) = Skip(IF ends = {} THEN Len(t) + 1 ELSE Min(ends) + 2)
    BY DEF BlockComment, ends
  <2>4. y + 2 = e + 1
    BY <1>1, <1>7
  <2>5. QED
    BY <1>11, <2>2, <2>3, <2>4
<1>13. Tokens(t)[i] = Tokens(t)[e + 1]
  BY <1>5, <1>12, SkipTo
<1>14. m + Len(b) + 1 = e + 1
  BY <1>1
<1>15. QED
  BY <1>1, <1>13, <1>14

\* All that may stand between two lexemes is skipped.
LEMMA BlankSkipped ==
    ASSUME NEW t \in Seq(Chars), NEW m \in Nat, NEW b, m + Len(b) <= Len(t),
           b \in {<<>>, <<Blank>>} \/ (b \in Seq(STRING) /\ (IsComment(b) \/ IsRemark(b))),
           \A j \in 1 .. Len(b) : t[m + j] = Upper(b[j])
    PROVE  Tokens(t)[m + 1] = Tokens(t)[m + Len(b) + 1]
<1>1. CASE b = <<>>
  <2>1. Len(b) = 0
    BY <1>1
  <2>2. m + Len(b) + 1 = m + 1
    BY <2>1
  <2>3. QED
    BY <2>2
<1>2. CASE b = <<Blank>>
  <2>1. Len(b) = 1 /\ b[1] = Blank
    BY <1>2
  <2>2. t[m + 1] = Blank
    <3>1. Blank \in Spaces
      BY Zenon DEF Spaces, Blank
    <3>2. 1 \in 1 .. Len(b)
      BY <2>1
    <3>3. t[m + 1] = Upper(Blank)
      BY <2>1, <3>2
    <3>4. QED
      BY <3>1, <3>3, CharacterKinds
  <2>3. m + 1 <= Len(t)
    BY <2>1
  <2>4. m + Len(b) + 1 = m + 2
    BY <2>1
  <2>5. QED
    BY <2>2, <2>3, <2>4, SpaceSkipped
<1>3. CASE b \in Seq(STRING) /\ IsComment(b)
  BY <1>3, CommentSkipped
<1>4. CASE b \in Seq(STRING) /\ IsRemark(b)
  BY <1>4, RemarkSkipped
<1>5. QED
  BY <1>1, <1>2, <1>3, <1>4

-----------------------------------------------------------------------------
(* A text of lexemes *)

\* What can stand between two lexemes.
StandsBetween(b) == b \in {<<>>, <<Blank>>} \/ (b \in Seq(STRING) /\ (IsComment(b) \/ IsRemark(b)))

\* Nothing runs together with a space or a comment.
LEMMA Separates ==
    ASSUME NEW c, NEW d \in {Blank, "/"}
    PROVE  ~RunTogether(c, d) /\ Upper(d) = d
<1>1. d \in Marks \cup Spaces
  <2>1. Blank \in Spaces
    BY Zenon DEF Blank, Spaces
  <2>2. "/" \in Marks
    BY DEF Marks
  <2>3. QED
    BY <2>1, <2>2
<1>2. Upper(d) = d /\ d \notin Digits
  BY <1>1, CharacterKinds
<1>3. \A x, y : <<x, y>> \in Pairs => y \in {">", "=", ":", "|"}
  BY DEF Pairs
<1>4. d \notin {">", "=", ":", "|", "-", "*", "'", "."}
  BY DEF Blank
<1>5. d # Quote
  BY DEF Blank, Quote
<1>6. RunTogether(c, d) <=>
        \/ {c, d} \cap (Marks \cup Spaces) = {}
        \/ <<c, d>> \in Pairs \cup {<<"-", "-">>, <<"/", "*">>, <<"'", "'">>, <<Quote, Quote>>}
        \/ c \in Digits /\ d = "."
        \/ c = "." /\ d \in Digits
  BY Zenon DEF RunTogether, Quote
<1>7. <<c, d>> \notin Pairs \cup {<<"-", "-">>, <<"/", "*">>, <<"'", "'">>, <<Quote, Quote>>}
  BY <1>3, <1>4, <1>5
<1>8. QED
  BY <1>1, <1>2, <1>4, <1>6, <1>7

\* What a style puts between two lexemes is a text, and keeps them apart.
LEMMA StyleBetween ==
    ASSUME NEW style, IsStyle(style)
    PROVE  /\ StandsBetween(style.between) /\ style.between \in Seq(Chars)
           /\ style.between # <<>> => Len(style.between) >= 1 /\ style.between[1] \in {Blank, "/"}
<1>1. PICK b \in Seq(STRING) : b = style.between
  BY Zenon DEF IsStyle
<1>2. b \in {<<>>, <<Blank>>} \/ IsComment(b) \/ IsRemark(b)
  BY <1>1, Zenon DEF IsStyle, Blank
<1>3. StandsBetween(b)
  BY <1>2, Zenon DEF StandsBetween
<1>4. b \in Seq(Chars)
  BY DEF Chars
<1>5. ASSUME b # <<>>
      PROVE  Len(b) >= 1 /\ b[1] \in {Blank, "/"}
  <2>1. CASE b = <<Blank>>
    BY <2>1
  <2>2. CASE IsComment(b)
    BY <2>2 DEF IsComment
  <2>3. CASE IsRemark(b)
    <3>1. Len(b) >= 4 /\ b[1] = Blank
      BY <2>3, Zenon DEF IsRemark, Blank
    <3>2. QED
      BY <3>1
  <2>4. QED
    BY <1>2, <1>5, <2>1, <2>2, <2>3
<1>6. QED
  BY <1>1, <1>3, <1>4, <1>5

\* What a text is put together from.
Parts(L, style, text, W, G, at) ==
    /\ at[1] = 0 /\ at[Len(L) + 1] = Len(text)
    /\ \A i \in 1 .. Len(L) :
          /\ W[i] = WrittenAs(L[i], style.small) /\ Len(W[i]) >= 1
          /\ StandsBetween(G[i])
          /\ at[i + 1] = at[i] + Len(G[i]) + Len(W[i])
          /\ \A j \in 1 .. Len(G[i]) : text[at[i] + j] = G[i][j]
          /\ \A j \in 1 .. Len(W[i]) : text[at[i] + Len(G[i]) + j] = W[i][j]
          /\ i > 1 => \/ G[i] = <<>> /\ ~RunTogether(W[i - 1][Len(W[i - 1])], W[i][1])
                      \/ Len(G[i]) >= 1 /\ G[i][1] \in {Blank, "/"}

\* The text of a statement is put together from the lexemes and what stands
\* between them: where each of them begins, and that nothing runs together.
LEMMA TextParts ==
    ASSUME NEW L \in Seq(Lexemes), \A l \in Range(L) : WellSpelt(l),
           NEW style, IsStyle(style)
    PROVE  /\ TextOf(L, style) \in Seq(Chars)
           /\ \E W \in [1 .. Len(L) -> Seq(Chars)], G \in [1 .. Len(L) -> Seq(Chars)],
                 at \in [1 .. Len(L) + 1 -> Nat] : Parts(L, style, TextOf(L, style), W, G, at)
<1>1. PICK n \in Nat : n = Len(L) /\ DOMAIN L = 1 .. n
  OBVIOUS
<1>2. \A i \in 1 .. n : WellSpelt(L[i])
  BY <1>1 DEF Range
<1>3. PICK W : W = [i \in 1 .. n |-> WrittenAs(L[i], style.small)]
  OBVIOUS
<1>4. /\ W \in [1 .. n -> Seq(Chars)]
      /\ \A i \in 1 .. n : W[i] = WrittenAs(L[i], style.small) /\ Len(W[i]) >= 1
  <2>1. \A i \in 1 .. n : W[i] = WrittenAs(L[i], style.small)
    BY <1>3
  <2>2. \A i \in 1 .. n : W[i] \in Seq(Chars) /\ Len(W[i]) >= 1
    BY <1>2, <2>1, LexemeWritten
  <2>3. QED
    BY <1>3, <2>1, <2>2
<1> DEFINE gap(i) == IF i = 1 THEN <<>>
                     ELSE IF style.between # <<>> THEN style.between
                     ELSE IF RunTogether(Last(W[i - 1]), Head(W[i])) THEN <<Blank>> ELSE <<>>
<1>5. PICK G : G = [i \in 1 .. n |-> gap(i)]
  OBVIOUS
<1>6. \A i \in 1 .. n : G[i] = gap(i)
  BY <1>5
<1>7. ASSUME NEW i \in 1 .. n
      PROVE  /\ G[i] \in Seq(Chars) /\ StandsBetween(G[i])
             /\ i > 1 => \/ G[i] = <<>> /\ ~RunTogether(W[i - 1][Len(W[i - 1])], W[i][1])
                         \/ Len(G[i]) >= 1 /\ G[i][1] \in {Blank, "/"}
  <2>1. StandsBetween(<<>>) /\ StandsBetween(<<Blank>>)
    BY DEF StandsBetween
  <2>2. <<>> \in Seq(Chars) /\ <<Blank>> \in Seq(Chars) /\ Len(<<Blank>>) = 1 /\ <<Blank>>[1] = Blank
    <3>1. Blank \in Chars
      BY CharsFacts, Zenon DEF Blank
    <3>2. QED
      BY <3>1, EmptySeq
  <2>3. CASE i = 1
    <3>1. G[i] = <<>>
      BY <1>6, <2>3
    <3>2. ~(i > 1)
      BY <2>3
    <3>3. QED
      BY <2>1, <2>2, <3>1, <3>2
  <2>4. CASE i # 1 /\ style.between # <<>>
    <3>1. G[i] = style.between
      BY <1>6, <2>4
    <3>2. QED
      BY <2>4, <3>1, StyleBetween
  <2>5. CASE i # 1 /\ style.between = <<>>
    <3>1. PICK k \in 1 .. n : k = i - 1
      BY <2>5
    <3>2. Last(W[k]) = W[k][Len(W[k])] /\ Head(W[i]) = W[i][1]
      <4>1. W[k] \in Seq(Chars) /\ W[i] \in Seq(Chars)
        BY <1>4
      <4>2. QED
        BY <4>1 DEF Last
    <3>3. G[i] = IF RunTogether(W[k][Len(W[k])], W[i][1]) THEN <<Blank>> ELSE <<>>
      BY <1>6, <2>5, <3>1, <3>2
    <3>4. CASE RunTogether(W[k][Len(W[k])], W[i][1])
      BY <2>1, <2>2, <3>3, <3>4
    <3>5. CASE ~RunTogether(W[k][Len(W[k])], W[i][1])
      BY <2>1, <2>2, <3>1, <3>3, <3>5
    <3>6. QED
      BY <3>4, <3>5
  <2>6. QED
    BY <2>3, <2>4, <2>5
<1>8. G \in [1 .. n -> Seq(Chars)]
  <2> HIDE DEF gap
  <2>1. QED
    BY <1>5, <1>7
<1>9. PICK P : P = [i \in 1 .. n |-> G[i] \o W[i]]
  OBVIOUS
<1>10. \A i \in 1 .. n :
          /\ P[i] \in Seq(Chars) /\ Len(P[i]) = Len(G[i]) + Len(W[i])
          /\ \A j \in 1 .. Len(G[i]) : P[i][j] = G[i][j]
          /\ \A j \in 1 .. Len(W[i]) : P[i][Len(G[i]) + j] = W[i][j]
  <2>1. ASSUME NEW i \in 1 .. n
        PROVE  /\ P[i] \in Seq(Chars) /\ Len(P[i]) = Len(G[i]) + Len(W[i])
               /\ \A j \in 1 .. Len(G[i]) : P[i][j] = G[i][j]
               /\ \A j \in 1 .. Len(W[i]) : P[i][Len(G[i]) + j] = W[i][j]
    <3>1. PICK g \in Seq(Chars), w \in Seq(Chars) : g = G[i] /\ w = W[i]
      BY <1>4, <1>8
    <3>2. P[i] = g \o w
      BY <1>9, <3>1
    <3>3. /\ g \o w \in Seq(Chars) /\ Len(g \o w) = Len(g) + Len(w)
          /\ \A j \in 1 .. Len(g) : (g \o w)[j] = g[j]
          /\ \A j \in 1 .. Len(w) : (g \o w)[Len(g) + j] = w[j]
      BY Concat
    <3>4. QED
      BY <3>1, <3>2, <3>3
  <2>2. QED
    BY <2>1
<1>11. P \in Seq(Seq(Chars)) /\ Len(P) = n
  <2>1. P \in [1 .. n -> Seq(Chars)]
    BY <1>9, <1>10
  <2>2. QED
    BY <2>1
<1>12. PICK text : text = TextOf(L, style)
  OBVIOUS
<1>13. text = FlattenSeq(P)
  <2> DEFINE written == [i \in DOMAIN L |-> WrittenAs(L[i], style.small)]
             between(c, d) == IF style.between # <<>> THEN style.between
                              ELSE IF RunTogether(c, d) THEN <<" ">> ELSE <<>>
             pieces == [i \in DOMAIN L |-> IF i = 1 THEN written[i]
                                           ELSE between(Last(written[i - 1]), Head(written[i])) \o written[i]]
  <2>1. text = FlattenSeq(pieces)
    BY <1>12 DEF TextOf
  <2>2. written = W
    BY <1>1, <1>3
  <2>3. \A c, d : between(c, d) = IF style.between # <<>> THEN style.between
                                  ELSE IF RunTogether(c, d) THEN <<Blank>> ELSE <<>>
    BY DEF Blank
  <2> HIDE DEF written, between
  <2>4. ASSUME NEW i \in 1 .. n
        PROVE  pieces[i] = P[i]
    <3>1. CASE i = 1
      <4>1. PICK w \in Seq(Chars) : w = W[i]
        BY <1>4
      <4>2. <<>> \o w = w
        <5>1. <<>> \o w \in Seq(Chars) /\ Len(<<>> \o w) = Len(w)
          BY EmptySeq
        <5>2. QED
          BY <5>1, SameSequence
      <4>3. pieces[i] = w
        BY <1>1, <2>2, <3>1, <4>1
      <4>4. P[i] = <<>> \o w
        BY <1>6, <1>9, <3>1, <4>1
      <4>5. QED
        BY <4>2, <4>3, <4>4
    <3>2. CASE i # 1
      <4>1. pieces[i] = between(Last(W[i - 1]), Head(W[i])) \o W[i]
        BY <1>1, <2>2, <3>2
      <4>2. G[i] = between(Last(W[i - 1]), Head(W[i]))
        BY <1>6, <2>3, <3>2
      <4>3. QED
        BY <1>9, <4>1, <4>2
    <3>3. QED
      BY <3>1, <3>2
  <2>5. pieces = P
    <3>1. pieces = [i \in 1 .. n |-> pieces[i]]
      BY <1>1
    <3>2. P = [i \in 1 .. n |-> P[i]]
      BY <1>9
    <3> HIDE DEF pieces
    <3>3. QED
      BY <2>4, <3>1, <3>2
  <2>6. QED
    BY <2>1, <2>5
<1>14. text \in Seq(Chars)
  BY <1>11, <1>13, Pieces
<1>15. PICK at \in [1 .. Len(P) + 1 -> Nat] :
         /\ at[1] = 0 /\ at[Len(P) + 1] = Len(text)
         /\ \A i \in 1 .. Len(P) : /\ at[i + 1] = at[i] + Len(P[i])
                                   /\ \A j \in 1 .. Len(P[i]) : text[at[i] + j] = P[i][j]
  BY <1>11, <1>13, Pieces
<1>16. at \in [1 .. n + 1 -> Nat] /\ at[1] = 0 /\ at[n + 1] = Len(text)
  BY <1>11, <1>15
<1>17. ASSUME NEW i \in 1 .. n
       PROVE  /\ at[i + 1] = at[i] + Len(G[i]) + Len(W[i])
              /\ \A j \in 1 .. Len(G[i]) : text[at[i] + j] = G[i][j]
              /\ \A j \in 1 .. Len(W[i]) : text[at[i] + Len(G[i]) + j] = W[i][j]
  <2>1. PICK a \in Nat, g \in Nat, k \in Nat : a = at[i] /\ g = Len(G[i]) /\ k = Len(W[i])
    <3>1. G[i] \in Seq(Chars) /\ W[i] \in Seq(Chars) /\ i \in 1 .. n + 1
      BY <1>4, <1>8
    <3>2. at[i] \in Nat /\ Len(G[i]) \in Nat /\ Len(W[i]) \in Nat
      BY <1>16, <3>1
    <3>3. QED
      BY <3>2
  <2>2. PICK p : /\ p = P[i] /\ Len(p) = g + k
                 /\ \A j \in 1 .. g : p[j] = G[i][j]
                 /\ \A j \in 1 .. k : p[g + j] = W[i][j]
    <3>1. /\ Len(P[i]) = g + k
          /\ \A j \in 1 .. Len(G[i]) : P[i][j] = G[i][j]
          /\ \A j \in 1 .. Len(W[i]) : P[i][Len(G[i]) + j] = W[i][j]
      BY <1>10, <2>1
    <3>2. QED
      BY <2>1, <3>1
  <2>3. at[i + 1] = a + (g + k) /\ \A j \in 1 .. g + k : text[a + j] = p[j]
    BY <1>11, <1>15, <2>1, <2>2
  <2>4. a + (g + k) = a + g + k
    OBVIOUS
  <2>5. \A j \in 1 .. g : text[a + j] = G[i][j]
    <3>1. \A j \in 1 .. g : j \in 1 .. g + k
      OBVIOUS
    <3>2. QED
      BY <2>2, <2>3, <3>1
  <2>6. \A j \in 1 .. k : text[a + g + j] = W[i][j]
    <3>1. ASSUME NEW j \in 1 .. k
          PROVE  text[a + g + j] = W[i][j]
      <4>1. g + j \in 1 .. g + k /\ a + (g + j) = a + g + j
        OBVIOUS
      <4>2. text[a + (g + j)] = p[g + j]
        BY <2>3, <4>1
      <4>3. QED
        BY <2>2, <4>1, <4>2
    <3>2. QED
      BY <3>1
  <2>7. QED
    BY <2>1, <2>3, <2>4, <2>5, <2>6
<1> HIDE DEF gap
<1>18. Parts(L, style, text, W, G, at)
  BY <1>1, <1>4, <1>7, <1>16, <1>17 DEF Parts
<1>19. QED
  BY <1>1, <1>4, <1>8, <1>12, <1>14, <1>16, <1>18

\* What the lexer goes through: the text in capitals.
Raised(text) == <<>> \o [i \in DOMAIN text |-> Upper(text[i])]

\* The query in capitals has the length of the query, and its tokens are read
\* from its first position.
LEMMA RaisedFacts ==
    ASSUME NEW text \in Seq(Chars)
    PROVE  /\ Raised(text) \in Seq(Chars) /\ Len(Raised(text)) = Len(text)
           /\ \A i \in 1 .. Len(text) : Raised(text)[i] = Upper(text[i])
           /\ Tokenized(text) = Tokens(Raised(text))[1]
<1>1. PICK n \in Nat : n = Len(text) /\ DOMAIN text = 1 .. n
  OBVIOUS
<1>2. PICK u : u = [i \in 1 .. n |-> Upper(text[i])]
  OBVIOUS
<1>3. \A i \in 1 .. n : Upper(text[i]) \in Chars
  <2>1. \A i \in 1 .. n : text[i] \in Chars
    BY <1>1
  <2>2. QED
    BY <2>1, CharsFacts
<1>4. u \in Seq(Chars) /\ Len(u) = n /\ \A i \in 1 .. n : u[i] = Upper(text[i])
  <2>1. u \in [1 .. n -> Chars]
    BY <1>2, <1>3
  <2>2. QED
    BY <1>2, <2>1
<1>5. <<>> \o u = u
  <2>1. <<>> \o u \in Seq(Chars) /\ Len(<<>> \o u) = Len(u)
    BY <1>4, EmptySeq
  <2>2. \A i \in 1 .. Len(<<>> \o u) : (<<>> \o u)[i] = u[i]
    BY <1>4, <2>1
  <2>3. QED
    BY <1>4, <2>1, <2>2, SameSequence
<1>6. Raised(text) = u
  BY <1>1, <1>2, <1>5 DEF Raised
<1>7. QED
  BY <1>1, <1>4, <1>6 DEF Tokenized, Raised

\* Where a token is read, the tokens are it and those from its end on.
LEMMA EmitTo ==
    ASSUME NEW C, NEW t \in Seq(C), NEW i \in 1 .. Len(t), NEW e, NEW x, Lexeme(t, i) = [at |-> e, tokens |-> <<x>>]
    PROVE  Tokens(t)[i] = <<x>> \o Tokens(t)[e]
<1>1. Lexeme(t, i).at = e /\ Lexeme(t, i).tokens = <<x>>
  OBVIOUS
<1>2. QED
  BY <1>1, TokensUnfold

\* A text of lexemes is read as their tokens.
LEMMA TextRead ==
    ASSUME NEW L \in Seq(Lexemes), \A l \in Range(L) : WellSpelt(l) /\ InCapitals(l),
           NEW style, IsStyle(style)
    PROVE  /\ TextOf(L, style) \in Seq(Chars)
           /\ Tokenized(TextOf(L, style)) = [i \in DOMAIN L |-> TokenOf(L[i])]
<1>1. PICK n \in Nat : n = Len(L) /\ DOMAIN L = 1 .. n
  OBVIOUS
<1>2. PICK text \in Seq(Chars) : text = TextOf(L, style)
  BY TextParts
<1>3. PICK W \in [1 .. n -> Seq(Chars)], G \in [1 .. n -> Seq(Chars)], at \in [1 .. n + 1 -> Nat] :
         Parts(L, style, text, W, G, at)
  BY <1>1, <1>2, TextParts
<1>4. PICK t \in Seq(Chars) : /\ t = Raised(text) /\ Len(t) = Len(text)
                              /\ \A i \in 1 .. Len(text) : t[i] = Upper(text[i])
                              /\ Tokenized(text) = Tokens(t)[1]
  BY RaisedFacts
<1>5. PICK N \in Nat : N = Len(t) /\ N = Len(text)
  BY <1>4
<1>6. \A i \in 1 .. n : WellSpelt(L[i]) /\ InCapitals(L[i])
  BY <1>1 DEF Range
<1>7. at[1] = 0 /\ at[n + 1] = N
  BY <1>1, <1>3, <1>5 DEF Parts
<1>8. ASSUME NEW i \in 1 .. n
      PROVE  /\ W[i] = WrittenAs(L[i], style.small) /\ Len(W[i]) \in Nat /\ Len(W[i]) >= 1
             /\ Len(G[i]) \in Nat /\ StandsBetween(G[i]) /\ at[i] \in Nat
             /\ at[i + 1] = at[i] + Len(G[i]) + Len(W[i])
             /\ \A j \in 1 .. Len(G[i]) : text[at[i] + j] = G[i][j]
             /\ \A j \in 1 .. Len(W[i]) : text[at[i] + Len(G[i]) + j] = W[i][j]
             /\ i > 1 => \/ G[i] = <<>> /\ ~RunTogether(W[i - 1][Len(W[i - 1])], W[i][1])
                         \/ Len(G[i]) >= 1 /\ G[i][1] \in {Blank, "/"}
  <2>1. G[i] \in Seq(Chars) /\ W[i] \in Seq(Chars) /\ i \in 1 .. n + 1
    OBVIOUS
  <2>2. Len(G[i]) \in Nat /\ Len(W[i]) \in Nat /\ at[i] \in Nat
    BY <2>1
  <2>3. QED
    BY <1>1, <1>3, <2>2 DEF Parts
<1>9. \A i \in 1 .. n + 1 : at[i] <= N /\ at[i] \in Nat
  <2>1. \A i \in 1 .. n : at[i] <= at[i + 1]
    <3>1. ASSUME NEW i \in 1 .. n
          PROVE  at[i] <= at[i + 1]
      <4>1. PICK a \in Nat, g \in Nat, k \in Nat : a = at[i] /\ at[i + 1] = a + g + k
        <5>1. /\ at[i] \in Nat /\ Len(G[i]) \in Nat /\ Len(W[i]) \in Nat
              /\ at[i + 1] = at[i] + Len(G[i]) + Len(W[i])
          BY <1>8
        <5>2. QED
          BY <5>1
      <4>2. QED
        BY <4>1
    <3>2. QED
      BY <3>1
  <2>2. \A i \in 1 .. n + 1 : at[i] <= at[n + 1]
    BY <2>1, AtGrows
  <2>3. QED
    BY <1>7, <2>2
\* A lexeme and what comes before it are read as its token.
<1>10. ASSUME NEW i \in 1 .. n
       PROVE  Tokens(t)[at[i] + 1] = <<TokenOf(L[i])>> \o Tokens(t)[at[i + 1] + 1]
  <2>1. PICK a \in Nat, g \in Nat, k \in Nat, m \in Nat, e \in Nat :
           /\ a = at[i] /\ g = Len(G[i]) /\ k = Len(W[i]) /\ k >= 1 /\ m = a + g /\ e = m + k
           /\ e = at[i + 1] /\ e <= N
    <3>1. i + 1 \in 1 .. n + 1
      OBVIOUS
    <3>2. at[i + 1] <= N
      BY <1>9, <3>1
    <3>3. PICK a \in Nat, g \in Nat, k \in Nat :
             a = at[i] /\ g = Len(G[i]) /\ k = Len(W[i]) /\ k >= 1 /\ at[i + 1] = a + g + k
      <4>1. /\ at[i] \in Nat /\ Len(G[i]) \in Nat /\ Len(W[i]) \in Nat /\ Len(W[i]) >= 1
            /\ at[i + 1] = at[i] + Len(G[i]) + Len(W[i])
        BY <1>8
      <4>2. QED
        BY <4>1
    <3>4. a + g \in Nat /\ (a + g) + k \in Nat
      OBVIOUS
    <3>5. QED
      BY <3>2, <3>3, <3>4
  <2>0. a + g + k <= N /\ m + k <= N /\ m <= N /\ m + 1 <= N
    <3>1. m = a + g /\ e = m + k /\ e <= N /\ k >= 1
      BY <2>1
    <3>2. QED
      BY <3>1
  <2>2. \A j \in 1 .. g : t[a + j] = Upper(G[i][j])
    <3>1. ASSUME NEW j \in 1 .. g
          PROVE  t[a + j] = Upper(G[i][j])
      <4>1. a + j \in 1 .. N
        BY <2>0
      <4>2. text[a + j] = G[i][j]
        BY <1>8, <2>1
      <4>3. QED
        BY <1>4, <1>5, <4>1, <4>2
    <3>2. QED
      BY <3>1
  <2>3. \A j \in 1 .. k : t[m + j] = Upper(W[i][j])
    <3>1. ASSUME NEW j \in 1 .. k
          PROVE  t[m + j] = Upper(W[i][j])
      <4>1. m + j \in 1 .. N
        BY <2>0
      <4>2. text[m + j] = W[i][j]
        BY <1>8, <2>1
      <4>3. QED
        BY <1>4, <1>5, <4>1, <4>2
    <3>2. QED
      BY <3>1
  <2>4. Tokens(t)[a + 1] = Tokens(t)[m + 1]
    <3>1. PICK b : b = G[i] /\ Len(b) = g
      BY <2>1
    <3>2. b \in {<<>>, <<Blank>>} \/ (b \in Seq(STRING) /\ (IsComment(b) \/ IsRemark(b)))
      BY <1>8, <3>1, Zenon DEF StandsBetween
    <3>3. a + Len(b) <= Len(t) /\ \A j \in 1 .. Len(b) : t[a + j] = Upper(b[j])
      <4>1. a + g <= N
        BY <2>0
      <4>2. QED
        BY <1>5, <2>2, <3>1, <4>1
    <3>4. Tokens(t)[a + 1] = Tokens(t)[a + Len(b) + 1]
      BY <3>2, <3>3, BlankSkipped
    <3>5. QED
      BY <2>1, <3>1, <3>4
  <2>5. e + 1 <= N => ~RunTogether(Upper(W[i][k]), t[e + 1])
    <3>1. CASE i = n
      BY <1>5, <1>7, <2>1, <3>1
    <3>2. CASE i # n
      <4>1. PICK y \in 1 .. n : y = i + 1 /\ y > 1 /\ y - 1 = i
        <5>1. i + 1 \in 1 .. n /\ i + 1 > 1 /\ (i + 1) - 1 = i
          BY <3>2
        <5>2. QED
          BY <5>1
      <4>2. at[y] = e
        BY <2>1, <4>1
      <4>3. \/ G[y] = <<>> /\ ~RunTogether(W[i][k], W[y][1])
            \/ Len(G[y]) >= 1 /\ G[y][1] \in {Blank, "/"}
        BY <1>8, <2>1, <4>1
      <4>4. ASSUME e + 1 <= N
            PROVE  t[e + 1] = Upper(text[e + 1])
        <5>1. e + 1 \in 1 .. Len(text)
          BY <1>5, <4>4
        <5>2. QED
          BY <1>4, <5>1
      <4>5. CASE G[y] = <<>> /\ ~RunTogether(W[i][k], W[y][1])
        <5>1. Len(G[y]) = 0 /\ Len(W[y]) >= 1 /\ Len(W[y]) \in Nat
          BY <1>8, <4>5
        <5>2. text[at[y] + Len(G[y]) + 1] = W[y][1]
          <6>1. 1 \in 1 .. Len(W[y])
            BY <5>1
          <6>2. QED
            BY <1>8, <6>1
        <5>3. at[y] + Len(G[y]) + 1 = e + 1
          BY <4>2, <5>1
        <5>4. text[e + 1] = W[y][1]
          BY <5>2, <5>3
        <5>5. QED
          BY <4>4, <4>5, <5>4, RunTogetherUpper
      <4>6. CASE Len(G[y]) >= 1 /\ G[y][1] \in {Blank, "/"}
        <5>1. 1 \in 1 .. Len(G[y])
          BY <1>8, <4>6
        <5>2. text[at[y] + 1] = G[y][1]
          BY <1>8, <5>1
        <5>3. PICK d \in {Blank, "/"} : d = text[e + 1]
          BY <4>2, <4>6, <5>2
        <5>4. QED
          BY <4>4, <5>3, Separates
      <4>7. QED
        BY <4>3, <4>5, <4>6
    <3>3. QED
      BY <3>1, <3>2
  <2>6. Lexeme(t, m + 1) = [at |-> e + 1, tokens |-> <<TokenOf(L[i])>>]
    <3>1. PICK w : w = W[i] /\ w = WrittenAs(L[i], style.small) /\ Len(w) = k
      BY <1>8, <2>1
    <3>2. /\ m + Len(w) <= Len(t)
          /\ \A j \in 1 .. Len(w) : t[m + j] = Upper(w[j])
          /\ m + Len(w) + 1 <= Len(t) => ~RunTogether(Upper(w[Len(w)]), t[m + Len(w) + 1])
      BY <1>5, <2>1, <2>3, <2>5, <3>1
    <3>3. WellSpelt(L[i]) /\ InCapitals(L[i])
      BY <1>6
    <3>4. Lexeme(t, m + 1) = [at |-> m + Len(w) + 1, tokens |-> <<TokenOf(L[i])>>]
      <4>1. PICK l, small : l = L[i] /\ WellSpelt(l) /\ InCapitals(l) /\ w = WrittenAs(l, small)
        BY <3>1, <3>3
      <4>2. Lexeme(t, m + 1) = ReadAs(l, m + Len(w) + 1)
        <5>1. StandsAlone(w, t, m)
          BY <3>2 DEF StandsAlone
        <5>2. QED
          BY <4>1, <5>1, LexemeRead
      <4>3. QED
        BY <4>1, <4>2 DEF ReadAs
    <3>5. m + Len(w) + 1 = e + 1
      BY <2>1, <3>1
    <3>6. QED
      BY <3>4, <3>5
  <2>7. Tokens(t)[m + 1] = <<TokenOf(L[i])>> \o Tokens(t)[e + 1]
    <3>1. m + 1 \in 1 .. Len(t)
      BY <1>5, <2>0
    <3>2. QED
      BY <2>6, <3>1, EmitTo
  <2>8. QED
    BY <2>1, <2>4, <2>7
<1>11. PICK right : right = [i \in 1 .. n |-> TokenOf(L[i])]
  OBVIOUS
<1>12. PICK S : right \in Seq(S) /\ Len(right) = n
  <2>1. right \in [1 .. n -> Range(right)]
    BY <1>11 DEF Range
  <2>2. right \in Seq(Range(right)) /\ Len(right) = n
    BY <2>1
  <2>3. QED
    BY <2>2
<1> DEFINE K == {i \in 1 .. n + 1 : Tokens(t)[at[i] + 1] = SubSeq(right, i, n)}
<1>13. Hereditary(K, n + 1)
  <2>1. ASSUME NEW i \in 1 .. n + 1, \A k \in 1 .. n + 1 : k > i => k \in K
        PROVE  i \in K
    <3>1. CASE i = n + 1
      <4>1. Tokens(t)[N + 1] = <<>>
        BY <1>5, TokensUnfold
      <4>2. SubSeq(right, n + 1, n) = <<>>
        BY <1>12
      <4>3. QED
        BY <1>7, <3>1, <4>1, <4>2
    <3>2. CASE i # n + 1
      <4>1. i \in 1 .. n
        BY <3>2
      <4>2. PICK y \in 1 .. n + 1 : y = i + 1 /\ y > i
        BY <4>1
      <4>3. Tokens(t)[at[y] + 1] = SubSeq(right, y, n)
        BY <2>1, <4>2
      <4>4. SubSeq(right, i, n) = <<right[i]>> \o SubSeq(right, y, n)
        <5>1. SubSeq(right, i, Len(right)) = <<right[i]>> \o SubSeq(right, i + 1, Len(right))
          BY <1>12, <4>1, SubSeqStep
        <5>2. QED
          BY <1>12, <4>2, <5>1
      <4>5. right[i] = TokenOf(L[i])
        BY <1>11, <4>1
      <4>6. Tokens(t)[at[i] + 1] = <<TokenOf(L[i])>> \o Tokens(t)[at[y] + 1]
        BY <1>10, <4>1, <4>2
      <4>7. QED
        BY <4>3, <4>4, <4>5, <4>6
    <3>3. QED
      BY <3>1, <3>2
  <2>2. QED
    BY <2>1 DEF Hereditary
<1>14. 1 .. n + 1 \subseteq K
  <2> HIDE DEF K
  <2>1. n + 1 \in Nat
    OBVIOUS
  <2>2. QED
    BY <1>13, <2>1, Downwards
<1>15. Tokens(t)[1] = right
  <2>1. 1 \in K
    <3>1. 1 \in 1 .. n + 1
      OBVIOUS
    <3> HIDE DEF K
    <3>2. QED
      BY <1>14, <3>1
  <2>2. Tokens(t)[at[1] + 1] = SubSeq(right, 1, n)
    BY <2>1
  <2>3. SubSeq(right, 1, n) = right
    <3>1. n <= Len(right)
      BY <1>12
    <3>2. /\ SubSeq(right, 1, n) \in Seq(S) /\ Len(SubSeq(right, 1, n)) = n
          /\ \A j \in 1 .. n : SubSeq(right, 1, n)[j] = right[j]
      BY <1>12, <3>1, PrefixFacts
    <3>3. QED
      BY <1>12, <3>2, SameSequence
  <2>4. at[1] + 1 = 1
    BY <1>7
  <2>5. QED
    BY <2>2, <2>3, <2>4
<1>16. QED
  BY <1>1, <1>2, <1>4, <1>11, <1>15

\* A text of lexemes that is cut off is read as the tokens before the cut, and
\* one more at most.
LEMMA CutTextRead ==
    ASSUME NEW L \in Seq(Lexemes), \A l \in Range(L) : WellSpelt(l) /\ InCapitals(l),
           NEW style, IsStyle(style), NEW n \in 0 .. Len(TextOf(L, style)) - 1
    PROVE  LET read == Tokenized(SubSeq(TextOf(L, style), 1, n))
           IN  /\ \E T : read \in Seq(T)
               /\ read = <<>> \/ IsPrefix(Front(read), [i \in DOMAIN L |-> TokenOf(L[i])])
<1>1. PICK text \in Seq(Chars) : text = TextOf(L, style)
  BY TextRead
<1>2. PICK m \in Nat : m = n /\ m <= Len(text)
  BY <1>1
<1>3. PICK part \in Seq(Chars) : part = SubSeq(text, 1, m) /\ Len(part) = m /\ \A i \in 1 .. m : part[i] = text[i]
  <2>1. /\ SubSeq(text, 1, m) \in Seq(Chars) /\ Len(SubSeq(text, 1, m)) = m
        /\ \A i \in 1 .. m : SubSeq(text, 1, m)[i] = text[i]
    BY <1>2, PrefixFacts
  <2>2. QED
    BY <2>1
<1>4. PICK t \in Seq(Chars) : /\ Len(t) = Len(text) /\ \A i \in 1 .. Len(text) : t[i] = Upper(text[i])
                              /\ Tokenized(text) = Tokens(t)[1]
  BY RaisedFacts
<1>5. PICK u \in Seq(Chars) : /\ Len(u) = m /\ \A i \in 1 .. m : u[i] = Upper(part[i])
                              /\ Tokenized(part) = Tokens(u)[1]
  <2>1. PICK u \in Seq(Chars) : /\ Len(u) = Len(part) /\ \A i \in 1 .. Len(part) : u[i] = Upper(part[i])
                                /\ Tokenized(part) = Tokens(u)[1]
    BY RaisedFacts
  <2>2. Len(part) = m
    BY <1>3
  <2>3. QED
    BY <2>1, <2>2
<1>6. Begins(u, t)
  <2>1. \A i \in 1 .. m : i \in 1 .. Len(text)
    BY <1>2
  <2>2. \A i \in 1 .. m : u[i] = t[i]
    BY <1>3, <1>4, <1>5, <2>1
  <2>3. QED
    BY <1>2, <1>4, <1>5, <2>2 DEF Begins
<1>7. Tokens(u)[1] = <<>> \/ IsPrefix(Front(Tokens(u)[1]), Tokens(t)[1])
  BY <1>6, TokensCut
<1>8. \E T : Tokens(u)[1] \in Seq(T)
  <2>1. PICK T : Tokens(u) \in [1 .. Len(u) + 1 -> Seq(T)]
    BY TokensUnfold
  <2>2. 1 \in 1 .. Len(u) + 1
    BY <1>5
  <2>3. QED
    BY <2>1, <2>2
<1>9. Tokens(t)[1] = [i \in DOMAIN L |-> TokenOf(L[i])]
  BY <1>1, <1>4, TextRead
<1>10. QED
  BY <1>1, <1>2, <1>3, <1>5, <1>7, <1>8, <1>9

\* The beginning of a beginning is a beginning.
LEMMA PrefixOfMore ==
    ASSUME NEW S, NEW f, NEW T, f \in Seq(T), NEW a \in Seq(S), NEW b \in Seq(S), Begins(a, b), IsPrefix(f, a)
    PROVE  IsPrefix(f, b)
<1>1. PICK k \in Nat : k = Len(f) /\ k <= Len(a) /\ SubSeq(f, 1, k) = SubSeq(a, 1, k)
  BY DEF IsPrefix
<1>2. SubSeq(a, 1, k) = SubSeq(b, 1, k)
  BY <1>1, SameParts
<1>3. k <= Len(b)
  BY <1>1 DEF Begins
<1>4. QED
  BY <1>1, <1>2, <1>3 DEF IsPrefix

\* The lexemes of a statement, and with the semicolon at its end.
LEMMA StatementLexemes ==
    ASSUME NEW q \in Queries
    PROVE  /\ StatementText(q) \in Seq(Lexemes) /\ Ended(StatementText(q)) \in Seq(Lexemes)
           /\ Len(Ended(StatementText(q))) = Len(StatementText(q)) + 1
           /\ \A i \in 1 .. Len(StatementText(q)) : Ended(StatementText(q))[i] = StatementText(q)[i]
           /\ \A l \in Range(Ended(StatementText(q))) : WellSpelt(l)
           /\ Range(StatementText(q)) \subseteq Range(Ended(StatementText(q)))
<1>1. PICK s \in Seq(Lexemes) : s = StatementText(q) /\ \A l \in Range(Ended(s)) : WellSpelt(l)
  BY QueriesAssumption
<1>2. PICK x : x = Word(";") /\ Ended(s) = Append(s, x)
  BY DEF Ended
<1>3. PICK S : S = Lexemes \cup {x}
  OBVIOUS
<1>4. s \in Seq(S) /\ x \in S
  BY <1>3
<1>5. Range(Append(s, x)) = Range(s) \cup {x}
  BY <1>4, Pushed
<1>6. WellSpelt(x)
  BY <1>1, <1>2, <1>5
<1>7. x \in Lexemes
  BY <1>6, Zenon DEF WellSpelt
<1>8. /\ Append(s, x) \in Seq(Lexemes) /\ Len(Append(s, x)) = Len(s) + 1
      /\ \A i \in 1 .. Len(s) : Append(s, x)[i] = s[i]
  BY <1>7
<1>9. QED
  BY <1>1, <1>2, <1>5, <1>8

-----------------------------------------------------------------------------
\* The tokens are those of SQL, with the query one of the statements.
TokensInv == query \in Queries /\ TokensRight

\* None of the letters in quotes of the query are small.
QueryInCapitals == \A l \in Range(Ended(StatementText(query))) : InCapitals(l)

\* The tokens of the whole query, and what they are to be like.
Expected == LET L == Ended(StatementText(query)) IN [i \in DOMAIN L |-> TokenOf(L[i])]
\* The tokens that were read are as they are to be.
AsExpected == IF cut THEN tokens = <<>> \/ IsPrefix(Front(tokens), Expected) ELSE tokens = Expected

\* The property, put with the names above.
LEMMA TokensRightFacts ==
    TokensRight <=> (stage # "text" /\ QueryInCapitals => AsExpected)
BY Zenon DEF TokensRight, QueryInCapitals, AsExpected, Expected, InCapitals, Unquoted

\* The step that reads the tokens establishes the property.
LEMMA TokenizeRight ==
    ASSUME query \in Queries, TokenizeQuery
    PROVE  TokensRight'
<1>1. PICK s \in Seq(Lexemes), L \in Seq(Lexemes) :
         /\ s = StatementText(query) /\ L = Ended(s) /\ Len(L) = Len(s) + 1
         /\ \A i \in 1 .. Len(s) : L[i] = s[i]
         /\ \A l \in Range(L) : WellSpelt(l)
         /\ Range(s) \subseteq Range(L)
  BY StatementLexemes
<1>2. query' = query
  BY DEF TokenizeQuery
<1>3. PICK right : right = [i \in DOMAIN L |-> TokenOf(L[i])]
  OBVIOUS
<1>4. SUFFICES ASSUME \A l \in Range(L) : InCapitals(l)
               PROVE  IF cut' THEN tokens' = <<>> \/ IsPrefix(Front(tokens'), right) ELSE tokens' = right
  <2>1. QueryInCapitals' <=> \A l \in Range(L) : InCapitals(l)
    BY <1>1, <1>2 DEF QueryInCapitals
  <2>2. Expected' = right
    BY <1>1, <1>2, <1>3 DEF Expected
  <2>3. AsExpected' <=> IF cut' THEN tokens' = <<>> \/ IsPrefix(Front(tokens'), right) ELSE tokens' = right
    BY <2>2 DEF AsExpected
  <2>4. (TokensRight <=> (stage # "text" /\ QueryInCapitals => AsExpected))'
    BY TokensRightFacts, PTL
  <2>5. QED
    BY <1>4, <2>1, <2>3, <2>4
<1>5. CASE cut' = FALSE /\ \E style \in WholeStyles(query) : tokens' = Tokenized(TextOf(L, style))
  <2>1. PICK style \in WholeStyles(query) : tokens' = Tokenized(TextOf(L, style))
    BY <1>5
  <2>2. IsStyle(style)
    BY QueriesAssumption
  <2>3. tokens' = right
    BY <1>1, <1>3, <1>4, <2>1, <2>2, TextRead
  <2>4. QED
    BY <1>5, <2>3
<1>6. CASE cut' = TRUE /\ \E style \in CutStyles(query) :
              \E n \in 0 .. Len(TextOf(s, style)) - 1 : tokens' = Tokenized(SubSeq(TextOf(s, style), 1, n))
  <2>9. PICK style \in CutStyles(query) :
               \E n \in 0 .. Len(TextOf(s, style)) - 1 : tokens' = Tokenized(SubSeq(TextOf(s, style), 1, n))
    BY <1>6
  <2>1. PICK n \in 0 .. Len(TextOf(s, style)) - 1 : tokens' = Tokenized(SubSeq(TextOf(s, style), 1, n))
    BY <2>9
  <2>2. IsStyle(style)
    BY QueriesAssumption
  <2>3. \A l \in Range(s) : WellSpelt(l) /\ InCapitals(l)
    BY <1>1, <1>4
  <2>4. PICK short : short = [i \in DOMAIN s |-> TokenOf(s[i])]
    OBVIOUS
  <2>5. (\E T : tokens' \in Seq(T)) /\ (tokens' = <<>> \/ IsPrefix(Front(tokens'), short))
    BY <2>1, <2>2, <2>3, <2>4, CutTextRead
  <2>6. PICK S : short \in Seq(S) /\ right \in Seq(S) /\ Begins(short, right)
    <3>1. PICK k \in Nat : k = Len(s) /\ DOMAIN s = 1 .. k /\ Len(L) = k + 1 /\ DOMAIN L = 1 .. k + 1
      BY <1>1
    <3>2. right \in [1 .. k + 1 -> Range(right)]
      BY <1>3, <3>1 DEF Range
    <3>3. right \in Seq(Range(right)) /\ Len(right) = k + 1
      BY <3>1, <3>2
    <3>4. \A i \in 1 .. k : i \in 1 .. k + 1 /\ short[i] = right[i]
      BY <1>1, <1>3, <2>4, <3>1
    <3>5. short \in [1 .. k -> Range(right)]
      BY <2>4, <3>1, <3>2, <3>4
    <3>6. short \in Seq(Range(right)) /\ Len(short) = k
      BY <3>1, <3>5
    <3>7. Begins(short, right)
      BY <3>3, <3>4, <3>6 DEF Begins
    <3>8. QED
      BY <3>3, <3>6, <3>7
  <2>7. ASSUME IsPrefix(Front(tokens'), short), tokens' # <<>>
        PROVE  IsPrefix(Front(tokens'), right)
    <3>1. PICK T : tokens' \in Seq(T)
      BY <2>5
    <3>2. Front(tokens') \in Seq(T)
      BY <2>7, <3>1, Popped
    <3>3. QED
      BY <2>6, <2>7, <3>2, PrefixOfMore
  <2>8. QED
    BY <1>6, <2>5, <2>7
<1>7. QED
  BY <1>1, <1>5, <1>6 DEF TokenizeQuery

\* The lexer: the tokens of every text are those of SQL (TokensRight), for all
\* statements, spellings and styles that the assumptions allow.
THEOREM TokensRightHolds == Spec => []TokensRight
<1>1. Init => TokensInv
  BY TokensRightFacts DEF Init, TokensInv
<1>2. TokensInv /\ [Next]_vars => TokensInv'
  <2>1. SUFFICES ASSUME query \in Queries, TokensRight, [Next]_vars
                 PROVE  TokensInv'
    BY DEF TokensInv
  <2>2. CASE TokenizeQuery
    <3>1. TokensRight'
      BY <2>1, <2>2, TokenizeRight
    <3>2. query' = query
      BY <2>2 DEF TokenizeQuery
    <3>3. QED
      BY <2>1, <3>1, <3>2 DEF TokensInv
  <2>3. CASE Parse
    <3>1. query' = query /\ cut' = cut /\ tokens' = tokens /\ stage = "tokens"
      BY <2>3 DEF Parse
    <3>2. TokensRight'
      BY <2>1, <3>1 DEF TokensRight
    <3>3. QED
      BY <2>1, <3>1, <3>2 DEF TokensInv
  <2>4. CASE UNCHANGED vars
    BY <2>1, <2>4 DEF vars, TokensInv, TokensRight
  <2>5. QED
    BY <2>1, <2>2, <2>3, <2>4 DEF Next
<1>3. TokensInv => TokensRight
  BY DEF TokensInv
<1>4. QED
  BY <1>1, <1>2, <1>3, PTL DEF Spec

\* The position after the last token.
Limit == Len(tokens) + 1

\* The tokens are in a sequence.
Listed == Len(tokens) \in Nat /\ DOMAIN tokens = 1 .. Len(tokens)

\* Reading from i may stop at j, or only further on; at 0 there was an exception.
Stops(i, j)    == j = 0 \/ (i # 0 /\ j \in i .. Limit)
Advances(i, j) == j = 0 \/ (i # 0 /\ j \in i + 1 .. Limit)

\* What is read further on than i stops where it may.
ReadsOn(Q, i) ==
    \A j \in {0} \cup (i + 1 .. Limit), kind \in Kinds : Stops(j, Call(Q, kind, j).at)

\* What no token is.
Nothing == ""

-----------------------------------------------------------------------------
(* The tokens are read by position *)

\* The position of a result is the one it was made with, and 0 after an exception.
LEMMA ReadAt == (\A at, tree : Read(at, tree).at = at) /\ Throw.at = 0
BY Zenon DEF Read, Throw

\* A token that was found is one of the tokens: what matches, is consumed or is
\* taken is before the end, and reading goes on just after it.
LEMMA TokenRead ==
    ASSUME Listed, NEW i \in 0 .. Limit
    PROVE  /\ \A v : Has(i, v) => i # 0 /\ i # Limit
           /\ \A t : HasType(i, t) => i # 0 /\ i # Limit
           /\ \A v : Advances(i, Consume(i, v))
           /\ \A v : Match(i, v) = i \/ (Match(i, v) = i + 1 /\ i # 0 /\ i # Limit)
           /\ \A t : Advances(i, Take(i, t).at)
<1>1. PICK n \in Nat : Len(tokens) = n /\ DOMAIN tokens = 1 .. n /\ Limit = n + 1
  BY DEF Listed, Limit
<1>2. i \in DOMAIN tokens => i # 0 /\ i # Limit /\ i + 1 \in i + 1 .. Limit
  BY <1>1
<1>3. \A v : Has(i, v) => i # 0 /\ i # Limit /\ Advances(i, i + 1)
  BY <1>2 DEF Has, Advances
<1>4. \A t : HasType(i, t) => i # 0 /\ i # Limit /\ Advances(i, i + 1)
  BY <1>2 DEF HasType, Advances
<1>5. Advances(i, 0)
  BY DEF Advances
<1>6. \A v : Advances(i, Consume(i, v))
  BY <1>3, <1>5 DEF Consume
<1>7. \A v : Match(i, v) = i \/ (Match(i, v) = i + 1 /\ i # 0 /\ i # Limit)
  BY <1>3, Zenon DEF Match
<1>8. \A t : Advances(i, Take(i, t).at)
  BY <1>4, <1>5, ReadAt, Zenon DEF Take
<1>9. QED
  BY <1>3, <1>4, <1>6, <1>7, <1>8

\* An alias ends where it may.
LEMMA AliasRead ==
    ASSUME Listed, NEW i \in 0 .. Limit, NEW listed
    PROVE  Stops(i, Alias(i, listed).at)
<1>1. PICK n \in Nat : Limit = n + 1
  BY DEF Listed, Limit
<1>2. Advances(i, Take(i, "IDENTIFIER").at)
  BY TokenRead
<1>3. CASE Has(i, "AS")
  <2>1. i # 0 /\ i + 1 \in 0 .. Limit
    BY <1>1, <1>3, TokenRead
  <2>2. Advances(i + 1, Take(i + 1, "IDENTIFIER").at)
    BY <2>1, TokenRead
  <2>3. Alias(i, listed).at = Take(i + 1, "IDENTIFIER").at
    BY <1>3, Zenon DEF Alias
  <2>4. QED
    BY <1>1, <2>1, <2>2, <2>3 DEF Advances, Stops
<1>4. CASE ~Has(i, "AS")
  <2>1. Alias(i, listed).at = Take(i, "IDENTIFIER").at \/ Alias(i, listed).at = i
    BY <1>4, ReadAt, Zenon DEF Alias
  <2>2. QED
    BY <1>1, <1>2, <2>1 DEF Advances, Stops
<1>5. QED
  BY <1>3, <1>4

\* A position whose value is one of some words is that of a token.
LEMMA ValueRead ==
    ASSUME Listed, NEW i \in 0 .. Limit, NEW words, Value(i) \in words, Nothing \notin words
    PROVE  i # 0 /\ i # Limit
<1>1. i \in DOMAIN tokens
  BY Zenon DEF Value, Nothing
<1>2. QED
  BY <1>1 DEF Listed, Limit

\* At the position where a function is called.
LEMMA Here ==
    ASSUME Listed, NEW i \in 1 .. Limit
    PROVE  /\ \A v : Has(i, v) => Advances(i, i + 1)
           /\ \A t : HasType(i, t) => Advances(i, i + 1)
           /\ \A words : Value(i) \in words /\ Nothing \notin words => Advances(i, i + 1)
           /\ \A v : Advances(i, Consume(i, v))
           /\ \A t : Advances(i, Take(i, t).at)
<1>1. PICK n \in Nat : Limit = n + 1 /\ i \in 0 .. Limit /\ i # 0
  BY DEF Listed, Limit
<1>2. i # Limit => Advances(i, i + 1)
  BY <1>1 DEF Advances
<1>3. QED
  BY <1>1, <1>2, TokenRead, ValueRead

\* Further on.
LEMMA Further ==
    ASSUME Listed, NEW i \in 1 .. Limit, NEW j, Advances(i, j)
    PROVE  /\ \A v : Has(j, v) => Advances(i, j + 1)
           /\ \A t : HasType(j, t) => Advances(i, j + 1)
           /\ \A words : Value(j) \in words /\ Nothing \notin words => Advances(i, j + 1)
           /\ \A v : Advances(i, Consume(j, v))
           /\ \A v : Advances(i, Match(j, v))
           /\ \A t : Advances(i, Take(j, t).at)
           /\ \A listed : Advances(i, Alias(j, listed).at)
<1>1. PICK n \in Nat : Limit = n + 1 /\ j \in 0 .. Limit
  BY DEF Listed, Limit, Advances
<1>2. j # 0 /\ j # Limit => Advances(i, j + 1)
  BY <1>1 DEF Advances
<1>3. \A k : Stops(j, k) \/ Advances(j, k) => Advances(i, k)
  BY <1>1 DEF Advances, Stops
<1>4. \A v : Has(j, v) => Advances(i, j + 1)
  BY <1>1, <1>2, TokenRead
<1>5. \A t : HasType(j, t) => Advances(i, j + 1)
  BY <1>1, <1>2, TokenRead
<1>6. \A words : Value(j) \in words /\ Nothing \notin words => Advances(i, j + 1)
  BY <1>1, <1>2, ValueRead
<1>7. \A v : Advances(i, Consume(j, v))
  BY <1>1, <1>3, TokenRead
<1>8. \A v : Advances(i, Match(j, v))
  <2>1. \A v : Match(j, v) = j \/ (Match(j, v) = j + 1 /\ j # 0 /\ j # Limit)
    BY <1>1, TokenRead
  <2>2. QED
    BY <1>1, <2>1 DEF Advances
<1>9. \A t : Advances(i, Take(j, t).at)
  BY <1>1, <1>3, TokenRead
<1>10. \A listed : Advances(i, Alias(j, listed).at)
  BY <1>1, <1>3, AliasRead
<1>11. QED
  BY <1>4, <1>5, <1>6, <1>7, <1>8, <1>9, <1>10

\* A call that was come to further on stops further on.
LEMMA CallRead ==
    ASSUME Listed, NEW i \in 1 .. Limit, NEW Q, ReadsOn(Q, i), NEW j, Advances(i, j), NEW kind \in Kinds
    PROVE  Advances(i, Call(Q, kind, j).at)
<1>1. PICK n \in Nat : Limit = n + 1
  BY DEF Listed, Limit
<1>2. j \in {0} \cup (i + 1 .. Limit)
  BY <1>1 DEF Advances
<1>3. Stops(j, Call(Q, kind, j).at)
  BY <1>2 DEF ReadsOn
<1>4. QED
  BY <1>1, <1>2, <1>3 DEF Stops, Advances

\* Reading from i on, with what is read further on.
Onward(Q, i) == Listed /\ i \in 1 .. Limit /\ ReadsOn(Q, i)

\* The levels of binary operators.
Levels == {"expression", "and", "add", "mul"}

\* What the operators of a level stand between, and what reads on after one, are
\* functions of the parser; no operator is the empty string.
LEMMA LevelFacts ==
    ASSUME NEW level \in Levels
    PROVE  Operand[level] \in Kinds /\ Loop[level] \in Kinds /\ Nothing \notin LevelOps[level]
<1>1. Operand[level] \in Kinds /\ Loop[level] \in Kinds
  BY DEF Operand, Loop, Levels, Kinds
<1>2. /\ LevelOps["expression"] = {"OR"} /\ LevelOps["and"] = {"AND"}
      /\ LevelOps["add"] = {"+", "-", "||"} /\ LevelOps["mul"] = {"*", "/", "%"}
  BY DEF LevelOps
<1>3. Nothing \notin {"OR"} /\ Nothing \notin {"AND"} /\ Nothing \notin {"+", "-", "||"} /\ Nothing \notin {"*", "/", "%"}
  BY Zenon DEF Nothing
<1>4. QED
  BY <1>1, <1>2, <1>3 DEF Levels

\* What is in brackets ends after the bracket that closes them.
LEMMA BracketsRead ==
    ASSUME NEW Q, NEW i, Onward(Q, i), NEW r, Advances(i, r.at)
    PROVE  Advances(i, InBrackets(r).at)
<1>1. InBrackets(r).at = Consume(r.at, ")")
  BY ReadAt, Zenon DEF InBrackets
<1>2. QED
  BY <1>1, Further DEF Onward

\* A list ends after its last item.
LEMMA ItemsRead ==
    ASSUME NEW Q, NEW i, Onward(Q, i), NEW kind \in Kinds, NEW first, Advances(i, first.at)
    PROVE  Advances(i, Items(Q, kind, first).at)
<1>1. CASE Has(first.at, ",")
  <2>1. Items(Q, kind, first).at = Call(Q, kind, first.at + 1).at
    BY <1>1, ReadAt, Zenon DEF Items
  <2>2. Advances(i, first.at + 1)
    BY <1>1, Further DEF Onward
  <2>3. QED
    BY <2>1, <2>2, CallRead DEF Onward
<1>2. CASE ~Has(first.at, ",")
  <2>1. Items(Q, kind, first).at = first.at
    BY <1>2, ReadAt, Zenon DEF Items
  <2>2. QED
    BY <2>1
<1>3. QED
  BY <1>1, <1>2

-----------------------------------------------------------------------------
(* Expressions *)

\* The loop over the operators of a level ends where it began or further on.
LEMMA ChainRead ==
    ASSUME NEW Q, NEW i, Onward(Q, i), NEW level \in Levels
    PROVE  Stops(i, Chain(Q, level, i).at)
<1>1. CASE IsOp(level, i)
  <2>1. Advances(i, i + 1)
    BY <1>1, LevelFacts, Here DEF Onward, IsOp
  <2> DEFINE right == Call(Q, Operand[level], i + 1)
             more  == Call(Q, Loop[level], right.at)
  <2>2. Chain(Q, level, i).at = more.at
    BY <1>1, ReadAt, Zenon DEF Chain
  <2>3. Advances(i, right.at)
    BY <2>1, LevelFacts, CallRead DEF Onward
  <2> HIDE DEF right
  <2>4. Advances(i, more.at)
    BY <2>3, LevelFacts, CallRead DEF Onward
  <2>5. QED
    BY <2>2, <2>4 DEF Advances, Stops, Onward
<1>2. CASE ~IsOp(level, i)
  <2>1. Chain(Q, level, i).at = i
    BY <1>2, ReadAt, Zenon DEF Chain
  <2>2. QED
    BY <2>1 DEF Stops, Onward, Limit, Listed
<1>3. QED
  BY <1>1, <1>2

\* An operand and the loop after it.
LEMMA LevelRead ==
    ASSUME NEW Q, NEW i, Onward(Q, i), NEW level \in Levels, NEW left, Advances(i, left.at)
    PROVE  Advances(i, Level(Q, level, left).at)
<1>1. Level(Q, level, left).at = Call(Q, Loop[level], left.at).at
  BY ReadAt, Zenon DEF Level
<1>2. QED
  BY <1>1, LevelFacts, CallRead DEF Onward

\* [NOT] BETWEEN and its bounds.
LEMMA BetweenRead ==
    ASSUME NEW Q, NEW i, Onward(Q, i), NEW left, Advances(i, left.at),
           Has(Match(left.at, "NOT"), "BETWEEN")
    PROVE  Advances(i, Between(Q, left).at)
<1> DEFINE low  == Call(Q, "add", Match(left.at, "NOT") + 1)
           high == Call(Q, "add", Consume(low.at, "AND"))
<1>1. Between(Q, left).at = high.at
  BY ReadAt, Zenon DEF Between
<1>2. "add" \in Kinds
  BY DEF Kinds
<1>3. Advances(i, Match(left.at, "NOT"))
  BY Further DEF Onward
<1>4. Advances(i, Match(left.at, "NOT") + 1)
  BY <1>3, Further DEF Onward
<1>5. Advances(i, low.at)
  BY <1>2, <1>4, CallRead DEF Onward
<1> HIDE DEF low
<1>6. Advances(i, Consume(low.at, "AND"))
  BY <1>5, Further DEF Onward
<1>7. Advances(i, high.at)
  BY <1>2, <1>6, CallRead DEF Onward
<1>8. QED
  BY <1>1, <1>7

\* [NOT] IN and its list or its query.
LEMMA InRead ==
    ASSUME NEW Q, NEW i, Onward(Q, i), NEW left, Advances(i, left.at), Has(Match(left.at, "NOT"), "IN")
    PROVE  Advances(i, In(Q, left).at)
<1> DEFINE at   == Consume(Match(left.at, "NOT") + 1, "(")
           inner == Read(Call(Q, "select", at).at, None)
           list == Call(Q, "expressions", at)
<1>1. In(Q, left).at = InBrackets(IF Has(at, "SELECT") THEN inner ELSE list).at
  BY ReadAt, Zenon DEF In
<1>2. "select" \in Kinds /\ "expressions" \in Kinds
  BY DEF Kinds
<1>3. Advances(i, Match(left.at, "NOT"))
  BY Further DEF Onward
<1>4. Advances(i, Match(left.at, "NOT") + 1)
  BY <1>3, Further DEF Onward
<1>5. Advances(i, at)
  BY <1>4, Further DEF Onward
<1> HIDE DEF at
<1>6. Advances(i, list.at) /\ Advances(i, inner.at)
  BY <1>2, <1>5, ReadAt, CallRead DEF Onward
<1>7. QED
  BY <1>1, <1>6, BracketsRead

\* A comparison, or the sum that none follows.
LEMMA ComparisonRead ==
    ASSUME NEW Q, NEW i, Onward(Q, i), NEW left, Advances(i, left.at)
    PROVE  Advances(i, Comparison(Q, left).at)
<1> DEFINE at    == left.at
           null  == Match(at + 1, "NOT")
           right == Call(Q, "add", at + 1)
<1>1. \/ Has(Match(at, "NOT"), "IN") /\ Comparison(Q, left) = In(Q, left)
      \/ Has(Match(at, "NOT"), "BETWEEN") /\ Comparison(Q, left) = Between(Q, left)
      \/ Has(at, "IS") /\ Comparison(Q, left).at = Consume(null, "NULL")
      \/ (Has(at, "LIKE") \/ HasType(at, "OPERATOR")) /\ Comparison(Q, left).at = right.at
      \/ Comparison(Q, left) = left
  BY ReadAt, Zenon DEF Comparison
<1>2. Has(at, "IS") \/ Has(at, "LIKE") \/ HasType(at, "OPERATOR") => Advances(i, at + 1)
  BY Further DEF Onward
<1>3. Advances(i, at + 1) => Advances(i, right.at)
  BY CallRead DEF Onward, Kinds
<1>4. Advances(i, at + 1) => Advances(i, Consume(null, "NULL"))
  <2>1. Advances(i, at + 1) => Advances(i, null)
    BY Further DEF Onward
  <2> HIDE DEF null
  <2>2. QED
    BY <2>1, Further DEF Onward
<1>5. QED
  BY <1>1, <1>2, <1>3, <1>4, InRead, BetweenRead

\* A column, with its table or not, or a call of a function.
LEMMA ColumnRead ==
    ASSUME NEW Q, NEW i, Onward(Q, i)
    PROVE  Advances(i, ColumnOrFunction(Q, i).at)
<1> DEFINE args == Call(Q, "expressions", Match(i + 2, "DISTINCT"))
           r    == ColumnOrFunction(Q, i)
<1>1. CASE ~HasType(i, "IDENTIFIER")
  <2>1. r.at = 0
    BY <1>1, ReadAt, Zenon DEF ColumnOrFunction
  <2>2. QED
    BY <2>1 DEF Advances
<1>2. CASE HasType(i, "IDENTIFIER")
  <2>1. Advances(i, i + 1)
    BY <1>2, Here DEF Onward
  <2>2. Has(i + 1, "(") \/ Has(i + 1, ".") => Advances(i, i + 2)
    <3>1. Has(i + 1, "(") \/ Has(i + 1, ".") => Advances(i, (i + 1) + 1)
      BY <2>1, Further DEF Onward
    <3>2. QED
      BY <3>1 DEF Onward
  <2>3. Advances(i, i + 2) => /\ \A v : Has(i + 2, v) => Advances(i, i + 3)
                              /\ \A t : HasType(i + 2, t) => Advances(i, i + 3)
    <3>1. Advances(i, i + 2) => /\ \A v : Has(i + 2, v) => Advances(i, (i + 2) + 1)
                                /\ \A t : HasType(i + 2, t) => Advances(i, (i + 2) + 1)
      BY Further DEF Onward
    <3>2. QED
      BY <3>1 DEF Onward
  <2>4. Advances(i, i + 2) => Advances(i, InBrackets(args).at)
    <3>1. ASSUME Advances(i, i + 2)
          PROVE  Advances(i, args.at)
      <4>1. Advances(i, Match(i + 2, "DISTINCT"))
        BY <3>1, Further DEF Onward
      <4>2. QED
        BY <4>1, CallRead DEF Onward, Kinds
    <3> HIDE DEF args
    <3>2. QED
      BY <3>1, BracketsRead
  <2>5. Advances(i, i + 3) => Advances(i, InBrackets(Read(i + 3, Tree("call", "COUNT", <<Leaf("column", "*")>>))).at)
    BY ReadAt, BracketsRead
  <2>6. \/ /\ Has(i + 1, "(")
           /\ \/ Has(i + 2, "*") /\ r = InBrackets(Read(i + 3, Tree("call", "COUNT", <<Leaf("column", "*")>>)))
              \/ Has(i + 2, ")") /\ r.at = i + 3
              \/ r.at = InBrackets(args).at
        \/ /\ Has(i + 1, ".")
           /\ \/ (Has(i + 2, "*") \/ HasType(i + 2, "IDENTIFIER")) /\ r.at = i + 3
              \/ r.at = 0
        \/ r.at = i + 1
    BY <1>2, ReadAt, Zenon DEF ColumnOrFunction
  <2>7. Advances(i, 0)
    BY DEF Advances
  <2>8. Has(i + 2, "*") \/ Has(i + 2, ")") \/ HasType(i + 2, "IDENTIFIER") =>
           (Advances(i, i + 2) => Advances(i, i + 3))
    BY <2>3
  <2>9. PICK count : count = InBrackets(Read(i + 3, Tree("call", "COUNT", <<Leaf("column", "*")>>))).at
    OBVIOUS
  <2>10. PICK call : call = InBrackets(args).at
    OBVIOUS
  <2> HIDE DEF r, args
  <2>11. Advances(i, r.at)
    BY <2>1, <2>2, <2>4, <2>5, <2>6, <2>7, <2>8, <2>9, <2>10
  <2>12. QED
    BY <2>11 DEF r
<1>3. QED
  BY <1>1, <1>2

\* The WHEN arms of a CASE.
LEMMA ArmsRead ==
    ASSUME NEW Q, NEW i, Onward(Q, i)
    PROVE  Advances(i, Arms(Q, i).at)
<1> DEFINE when == Call(Q, "expression", i + 1)
           then == Call(Q, "expression", Consume(when.at, "THEN"))
           more == Call(Q, "arms", then.at)
<1>1. \/ Has(i, "WHEN") /\ Arms(Q, i).at = more.at
      \/ Has(i, "ELSE") /\ Arms(Q, i).at = Consume(when.at, "END")
      \/ Arms(Q, i).at = Consume(i, "END")
  BY ReadAt, Zenon DEF Arms
<1>2. Has(i, "WHEN") \/ Has(i, "ELSE") => Advances(i, i + 1)
  BY Here DEF Onward
<1>3. Advances(i, Consume(i, "END"))
  BY Here DEF Onward
<1>4. "expression" \in Kinds /\ "arms" \in Kinds
  BY DEF Kinds
<1>5. ASSUME Advances(i, i + 1)
      PROVE  Advances(i, more.at) /\ Advances(i, Consume(when.at, "END"))
  <2>1. Advances(i, when.at)
    BY <1>4, <1>5, CallRead DEF Onward
  <2> HIDE DEF when
  <2>2. Advances(i, Consume(when.at, "THEN")) /\ Advances(i, Consume(when.at, "END"))
    BY <2>1, Further DEF Onward
  <2>3. Advances(i, then.at)
    BY <1>4, <2>2, CallRead DEF Onward
  <2> HIDE DEF then
  <2>4. Advances(i, more.at)
    BY <1>4, <2>3, CallRead DEF Onward
  <2>5. QED
    BY <2>2, <2>4
<1> HIDE DEF when, more
<1>6. QED
  BY <1>1, <1>2, <1>3, <1>5

\* CASE, from the position after it.
LEMMA CaseRead ==
    ASSUME NEW Q, NEW i, Onward(Q, i), NEW j, Advances(i, j)
    PROVE  Advances(i, Case(Q, j).at)
<1> DEFINE operand == Call(Q, "expression", j)
<1>1. Case(Q, j) = Call(Q, "arms", j) \/ Case(Q, j) = Call(Q, "arms", operand.at)
  BY Zenon DEF Case
<1>2. "expression" \in Kinds /\ "arms" \in Kinds
  BY DEF Kinds
<1>3. Advances(i, operand.at)
  BY <1>2, CallRead DEF Onward
<1> HIDE DEF operand
<1>4. Advances(i, Call(Q, "arms", j).at) /\ Advances(i, Call(Q, "arms", operand.at).at)
  BY <1>2, <1>3, CallRead DEF Onward
<1>5. QED
  BY <1>1, <1>4

\* A primary expression is read to after its first token at least.
LEMMA PrimaryRead ==
    ASSUME NEW Q, NEW i, Onward(Q, i)
    PROVE  Advances(i, Primary(Q, i).at)
<1> DEFINE nested(j) == InBrackets(Call(Q, "select", j)).at
           inner == InBrackets(Call(Q, "expression", i + 1))
           r     == Primary(Q, i)
<1>1. \/ /\ Has(i, "(")
         /\ \/ Has(i + 1, "SELECT") /\ r.at = nested(i + 1)
            \/ r = inner
      \/ (Has(i, "NULL") \/ Value(i) \in {"TRUE", "FALSE"} \/ HasType(i, "NUMBER") \/ HasType(i, "STRING")) /\ r.at = i + 1
      \/ Has(i, "CASE") /\ r = Case(Q, i + 1)
      \/ Has(i, "EXISTS") /\ r.at = nested(Consume(i + 1, "("))
      \/ r = ColumnOrFunction(Q, i)
  BY ReadAt, Zenon DEF Primary
<1>2. Nothing \notin {"TRUE", "FALSE"}
  BY Zenon DEF Nothing
<1>3. /\ (\E v : Has(i, v)) => Advances(i, i + 1)
      /\ (\E t : HasType(i, t)) => Advances(i, i + 1)
      /\ Value(i) \in {"TRUE", "FALSE"} => Advances(i, i + 1)
  BY <1>2, Here DEF Onward
<1>4. "select" \in Kinds /\ "expression" \in Kinds
  BY DEF Kinds
<1>5. \A j : Advances(i, j) => Advances(i, nested(j))
  <2>1. ASSUME NEW j, Advances(i, j)
        PROVE  Advances(i, nested(j))
    <3>1. Advances(i, Call(Q, "select", j).at)
      BY <1>4, <2>1, CallRead DEF Onward
    <3>2. QED
      BY <3>1, BracketsRead
  <2>2. QED
    BY <2>1
<1>6. Advances(i, i + 1) => Advances(i, Consume(i + 1, "("))
  BY Further DEF Onward
<1>7. Advances(i, i + 1) => Advances(i, inner.at)
  BY <1>4, BracketsRead, CallRead DEF Onward
<1>8. Advances(i, i + 1) => Advances(i, Case(Q, i + 1).at)
  BY CaseRead
<1>9. Advances(i, ColumnOrFunction(Q, i).at)
  BY ColumnRead
<1> HIDE DEF nested, inner, r
<1>10. Advances(i, r.at)
  BY <1>1, <1>3, <1>5, <1>6, <1>7, <1>8, <1>9
<1>11. QED
  BY <1>10 DEF r

\* The levels of an expression, each from the one below it.
LEMMA ExpressionRead ==
    ASSUME NEW Q, NEW i, Onward(Q, i)
    PROVE  /\ Advances(i, Signed(Q, i).at) /\ Advances(i, Product(Q, i).at) /\ Advances(i, Sum(Q, i).at)
           /\ Advances(i, Negation(Q, i).at) /\ Advances(i, Conjunction(Q, i).at) /\ Advances(i, Expression(Q, i).at)
<1>1. "unary" \in Kinds /\ "not" \in Kinds
  BY DEF Kinds
<1>2. {"mul", "add", "and", "expression"} \subseteq Levels
  BY DEF Levels
<1>3. \A op, r : Prefixed(op, r).at = r.at
  BY ReadAt, Zenon DEF Prefixed
<1>4. Advances(i, Signed(Q, i).at)
  <2>1. CASE HasType(i, "OPERATOR") /\ Value(i) \in {"-", "+"}
    <3>1. Signed(Q, i).at = Call(Q, "unary", i + 1).at
      BY <1>3, <2>1, Zenon DEF Signed
    <3>2. Advances(i, i + 1)
      BY <2>1, Here DEF Onward
    <3>3. QED
      BY <1>1, <3>1, <3>2, CallRead DEF Onward
  <2>2. CASE ~(HasType(i, "OPERATOR") /\ Value(i) \in {"-", "+"})
    <3>1. Signed(Q, i) = Primary(Q, i)
      BY <2>2, Zenon DEF Signed
    <3>2. QED
      BY <3>1, PrimaryRead
  <2>3. QED
    BY <2>1, <2>2
<1>5. Advances(i, Product(Q, i).at)
  BY <1>2, <1>4, LevelRead DEF Product
<1>6. Advances(i, Sum(Q, i).at)
  BY <1>2, <1>5, LevelRead DEF Sum
<1>7. Advances(i, Negation(Q, i).at)
  <2>1. CASE Has(i, "NOT")
    <3>1. Negation(Q, i).at = Call(Q, "not", i + 1).at
      BY <1>3, <2>1, Zenon DEF Negation
    <3>2. Advances(i, i + 1)
      BY <2>1, Here DEF Onward
    <3>3. QED
      BY <1>1, <3>1, <3>2, CallRead DEF Onward
  <2>2. CASE ~Has(i, "NOT")
    <3>1. Negation(Q, i) = Comparison(Q, Sum(Q, i))
      BY <2>2, Zenon DEF Negation
    <3>2. QED
      BY <1>6, <3>1, ComparisonRead
  <2>3. QED
    BY <2>1, <2>2
<1>8. Advances(i, Conjunction(Q, i).at)
  BY <1>2, <1>7, LevelRead DEF Conjunction
<1>9. Advances(i, Expression(Q, i).at)
  BY <1>2, <1>8, LevelRead DEF Expression
<1>10. QED
  BY <1>4, <1>5, <1>6, <1>7, <1>8, <1>9

-----------------------------------------------------------------------------
(* SELECT *)

\* The select list, after SELECT and DISTINCT.
LEMMA SelectClauseRead ==
    ASSUME NEW Q, NEW i, Onward(Q, i), NEW j, Advances(i, j)
    PROVE  Advances(i, SelectClause(Q, j).at)
<1> DEFINE at == IF Has(j, "*") /\ Value(j + 1) \in {"FROM", ","} THEN j + 2 ELSE j
           items == Call(Q, "items", at)
<1>1. \/ Has(j, "*") /\ SelectClause(Q, j).at = j + 1
      \/ /\ SelectClause(Q, j).at = items.at
         /\ at = j \/ Has(j + 1, ",")
  BY ReadAt, Zenon DEF SelectClause
<1>2. Has(j, "*") => Advances(i, j + 1)
  BY Further DEF Onward
<1>3. Has(j, "*") /\ Has(j + 1, ",") => Advances(i, j + 2)
  <2>1. Has(j, "*") /\ Has(j + 1, ",") => Advances(i, (j + 1) + 1)
    BY <1>2, Further DEF Onward
  <2>2. (j + 1) + 1 = j + 2
    BY DEF Advances, Onward, Listed, Limit
  <2>3. QED
    BY <2>1, <2>2
<1>4. at = j \/ (Has(j, "*") /\ at = j + 2)
  OBVIOUS
<1> HIDE DEF at
<1>5. at = j \/ Has(j + 1, ",") => Advances(i, at)
  BY <1>3, <1>4
<1>6. "items" \in Kinds
  BY DEF Kinds
<1>7. at = j \/ Has(j + 1, ",") => Advances(i, items.at)
  BY <1>5, <1>6, CallRead DEF Onward
<1> HIDE DEF items
<1>8. QED
  BY <1>1, <1>2, <1>7

\* An item of the select list and its alias.
LEMMA SelectItemRead ==
    ASSUME NEW Q, NEW i, Onward(Q, i)
    PROVE  Advances(i, SelectItem(Q, i).at)
<1>1. \/ Has(i, "*") /\ SelectItem(Q, i).at = i + 1
      \/ SelectItem(Q, i).at = Alias(Expression(Q, i).at, {"FROM", ","}).at
  BY ReadAt, Zenon DEF SelectItem
<1>2. Has(i, "*") => Advances(i, i + 1)
  BY Here DEF Onward
<1>3. Advances(i, Alias(Expression(Q, i).at, {"FROM", ","}).at)
  BY ExpressionRead, Further DEF Onward
<1>4. QED
  BY <1>1, <1>2, <1>3

\* A table or a query in brackets, and its alias.
LEMMA ReferenceRead ==
    ASSUME NEW Q, NEW i, Onward(Q, i)
    PROVE  Advances(i, TableReference(Q, i).at)
<1> DEFINE nested == InBrackets(Call(Q, "select", i + 1))
           inner  == InBrackets(Call(Q, "reference", i + 1))
           name   == Take(i, "IDENTIFIER")
           r      == TableReference(Q, i)
<1>1. \/ Has(i, "(") /\ (r.at = inner.at \/ r.at = Alias(nested.at, {}).at)
      \/ \E listed : r.at = Alias(name.at, listed).at
  <2>1. CASE Has(i, "(")
    <3>1. CASE ~Has(i + 1, "SELECT")
      <4>1. r = inner
        BY <2>1, <3>1, Zenon DEF TableReference
      <4>2. QED
        BY <2>1, <4>1
    <3>2. CASE Has(i + 1, "SELECT")
      <4> DEFINE named == Alias(nested.at, {})
      <4>1. r = IF named.tree.label = "" THEN Read(named.at, nested.tree)
                ELSE Read(named.at, Node("RENAME", <<nested.tree, Leaf("alias", named.tree.label)>>))
        BY <2>1, <3>2, Zenon DEF TableReference
      <4> HIDE DEF named, r
      <4>2. r.at = named.at
        BY <4>1, ReadAt, Zenon
      <4>3. QED
        BY <2>1, <4>2 DEF named
    <3>3. QED
      BY <3>1, <3>2
  <2>2. CASE ~Has(i, "(")
    <3>1. r.at = Alias(name.at, {"JOIN", "INNER", "LEFT", "RIGHT", "FULL", "CROSS", "NATURAL",
                                 "ON", "WHERE", "GROUP", "ORDER", "LIMIT", ",", ";"}).at
      BY <2>2, ReadAt, Zenon DEF TableReference
    <3>2. QED
      BY <3>1
  <2>3. QED
    BY <2>1, <2>2
<1>2. "select" \in Kinds /\ "reference" \in Kinds
  BY DEF Kinds
<1>3. Has(i, "(") => Advances(i, i + 1)
  BY Here DEF Onward
<1>4. Advances(i, i + 1) => Advances(i, inner.at) /\ Advances(i, nested.at)
  <2>1. Advances(i, i + 1) => Advances(i, Call(Q, "select", i + 1).at) /\ Advances(i, Call(Q, "reference", i + 1).at)
    BY <1>2, CallRead DEF Onward
  <2>2. QED
    BY <2>1, BracketsRead
<1>5. Advances(i, name.at)
  BY Here DEF Onward
<1> HIDE DEF nested, inner, name, r
<1>6. Advances(i, i + 1) => Advances(i, Alias(nested.at, {}).at)
  BY <1>4, Further DEF Onward
<1>7. \A listed : Advances(i, Alias(name.at, listed).at)
  BY <1>5, Further DEF Onward
<1>8. Advances(i, r.at)
  BY <1>1, <1>3, <1>4, <1>6, <1>7
<1>9. QED
  BY <1>8 DEF r

\* What a join is on: a condition, columns, or nothing.
LEMMA ConditionRead ==
    ASSUME NEW Q, NEW i, Onward(Q, i), NEW j, Advances(i, j), NEW conditional
    PROVE  Advances(i, Condition(Q, j, conditional).at)
<1> DEFINE using == InBrackets(Call(Q, "names", Consume(j + 1, "(")))
           on    == Call(Q, "expression", j + 1)
           r     == Condition(Q, j, conditional)
<1>1. \/ Has(j, "ON") /\ r = on
      \/ Has(j, "USING") /\ r.at = using.at
      \/ r.at = j
  BY ReadAt, Zenon DEF Condition
<1>2. "names" \in Kinds /\ "expression" \in Kinds
  BY DEF Kinds
<1>3. Has(j, "ON") \/ Has(j, "USING") => Advances(i, j + 1)
  BY Further DEF Onward
<1>4. ASSUME Advances(i, j + 1)
      PROVE  Advances(i, on.at) /\ Advances(i, using.at)
  <2>1. Advances(i, Consume(j + 1, "("))
    BY <1>4, Further DEF Onward
  <2>2. Advances(i, on.at) /\ Advances(i, Call(Q, "names", Consume(j + 1, "(")).at)
    BY <1>2, <1>4, <2>1, CallRead DEF Onward
  <2>3. QED
    BY <2>2, BracketsRead
<1> HIDE DEF using, on, r
<1>5. Advances(i, r.at)
  BY <1>1, <1>3, <1>4
<1>6. QED
  BY <1>5 DEF r

\* A column to sort by and its direction.
LEMMA SortItemRead ==
    ASSUME NEW Q, NEW i, Onward(Q, i)
    PROVE  Advances(i, SortItem(i).at)
<1> DEFINE first  == Take(i, "IDENTIFIER")
           second == Take(first.at + 1, "IDENTIFIER")
           name   == IF Has(first.at, ".") THEN second ELSE first
           nulls  == IF Value(name.at) \in {"ASC", "DESC"} THEN name.at + 1 ELSE name.at
           last   == Match(nulls, "NULLS")
           end    == IF last # nulls /\ Value(last) \in {"FIRST", "LAST"} THEN last + 1 ELSE last
<1>1. SortItem(i).at = end
  BY ReadAt, Zenon DEF SortItem
<1>2. Nothing \notin {"ASC", "DESC"} /\ Nothing \notin {"FIRST", "LAST"}
  BY Zenon DEF Nothing
<1>3. Advances(i, first.at)
  BY Here DEF Onward
<1> HIDE DEF first
<1>4. Has(first.at, ".") => Advances(i, second.at)
  BY <1>3, Further DEF Onward
<1> HIDE DEF second
<1>5. Advances(i, name.at)
  BY <1>3, <1>4
<1> HIDE DEF name
<1>6. Advances(i, nulls)
  <2>1. Value(name.at) \in {"ASC", "DESC"} => Advances(i, name.at + 1)
    BY <1>2, <1>5, Further DEF Onward
  <2>2. QED
    BY <1>5, <2>1
<1> HIDE DEF nulls
<1>7. Advances(i, last)
  BY <1>6, Further DEF Onward
<1> HIDE DEF last
<1>8. Value(last) \in {"FIRST", "LAST"} => Advances(i, last + 1)
  BY <1>2, <1>7, Further DEF Onward
<1>9. Advances(i, end)
  BY <1>7, <1>8
<1>10. QED
  BY <1>1, <1>9

\* Here or further on.
LEMMA HereOn ==
    ASSUME Listed, NEW i \in 1 .. Limit, NEW j, j = i \/ Advances(i, j)
    PROVE  /\ \A words : Value(j) \in words /\ Nothing \notin words => Advances(i, j + 1)
           /\ \A v : Advances(i, Consume(j, v))
           /\ \A v : Match(j, v) = i \/ Advances(i, Match(j, v))
<1>1. CASE j = i
  <2>1. \A v : Match(i, v) = i \/ (Has(i, v) /\ Match(i, v) = i + 1)
    BY DEF Match
  <2>2. QED
    BY <1>1, <2>1, Here
<1>2. CASE Advances(i, j)
  BY <1>2, Further
<1>3. QED
  BY <1>1, <1>2

\* The words that begin a join.
JoinWords == DOMAIN JoinTypes

\* None of the words that a join begins with is the empty string.
LEMMA JoinWordFacts == Nothing \notin JoinWords /\ Nothing \notin JoinWords \cup {"JOIN", "NATURAL", ","}
<1>1. JoinWords = {"CROSS", "LEFT", "RIGHT", "FULL", "INNER"}
  BY DEF JoinWords, JoinTypes
<1>2. Nothing \notin {"CROSS", "LEFT", "RIGHT", "FULL", "INNER"} /\ Nothing \notin {"JOIN", "NATURAL", ","}
  BY Zenon DEF Nothing
<1>3. QED
  BY <1>1, <1>2

\* The words of a join end where its table begins.
LEMMA JoinOperandRead ==
    ASSUME NEW Q, NEW i, Onward(Q, i), NEW typed, typed = i \/ Advances(i, typed)
    PROVE  Advances(i, JoinOperand(i, typed))
<1> DEFINE outer == IF Value(typed) \in JoinWords THEN typed + 1 ELSE typed
           outside == JoinType(i, typed) \in {"LEFT_JOIN", "RIGHT_JOIN", "FULL_JOIN"}
           join  == IF outside THEN Match(outer, "OUTER") ELSE outer
           at    == IF Has(i, ",") THEN i + 1 ELSE Consume(join, "JOIN")
<1>1. JoinOperand(i, typed) = at
  BY DEF JoinOperand, JoinWords
<1>2. outer = i \/ Advances(i, outer)
  BY HereOn, JoinWordFacts DEF Onward
<1> HIDE DEF outer, outside
<1>3. join = i \/ Advances(i, join)
  BY <1>2, HereOn DEF Onward
<1> HIDE DEF join
<1>4. Advances(i, at)
  BY <1>3, HereOn, Here DEF Onward
<1>5. QED
  BY <1>1, <1>4

\* The loop over the joins ends where it began or further on.
LEMMA JoinsRead ==
    ASSUME NEW Q, NEW i, Onward(Q, i)
    PROVE  Stops(i, Joins(Q, i).at)
<1> DEFINE typed == Match(i, "NATURAL")
           at    == JoinOperand(i, typed)
           right == Call(Q, "reference", at)
           cond  == Condition(Q, right.at, JoinType(i, typed) # "CROSS_PRODUCT" /\ typed = i)
           more  == Call(Q, "joins", cond.at)
<1>1. Joins(Q, i).at = more.at \/ Joins(Q, i).at = i
  BY ReadAt DEF Joins
<1>2. "reference" \in Kinds /\ "joins" \in Kinds
  BY DEF Kinds
<1>3. typed = i \/ Advances(i, typed)
  BY HereOn DEF Onward
<1> HIDE DEF typed
<1>4. Advances(i, at)
  BY <1>3, JoinOperandRead
<1> HIDE DEF at
<1>5. Advances(i, right.at)
  BY <1>2, <1>4, CallRead DEF Onward
<1> HIDE DEF right
<1>6. Advances(i, cond.at)
  BY <1>5, ConditionRead
<1> HIDE DEF cond
<1>7. Advances(i, more.at)
  BY <1>2, <1>6, CallRead DEF Onward
<1> HIDE DEF more
<1>8. QED
  BY <1>1, <1>7 DEF Advances, Stops, Onward, Listed, Limit

\* FROM, its first table and the joins.
LEMMA FromClauseRead ==
    ASSUME NEW Q, NEW i, Onward(Q, i), NEW j, Advances(i, j)
    PROVE  Advances(i, FromClause(Q, j).at)
<1> DEFINE first == Call(Q, "reference", j)
           more  == Call(Q, "joins", first.at)
<1>1. FromClause(Q, j).at = more.at
  BY ReadAt, Zenon DEF FromClause
<1>2. "reference" \in Kinds /\ "joins" \in Kinds
  BY DEF Kinds
<1>3. Advances(i, first.at)
  BY <1>2, CallRead DEF Onward
<1> HIDE DEF first
<1>4. QED
  BY <1>1, <1>2, <1>3, CallRead DEF Onward

\* WHERE and HAVING, and the lists of the other clauses: absent or read to their end.
LEMMA ClausesRead ==
    ASSUME NEW Q, NEW i, Onward(Q, i), NEW j, Advances(i, j), NEW word
    PROVE  /\ Advances(i, Where(Q, word, j).at)
           /\ \A kind \in Kinds : Advances(i, Clause(Q, kind, word, j).at)
<1>1. Has(j, word) => Advances(i, j + 1)
  BY Further DEF Onward
<1>2. Where(Q, word, j).at = j \/ (Has(j, word) /\ Where(Q, word, j) = Call(Q, "expression", j + 1))
  BY ReadAt, Zenon DEF Where
<1>3. "expression" \in Kinds
  BY DEF Kinds
<1>4. Advances(i, Where(Q, word, j).at)
  BY <1>1, <1>2, <1>3, CallRead DEF Onward
<1>5. ASSUME NEW kind \in Kinds
      PROVE  Advances(i, Clause(Q, kind, word, j).at)
  <2>1. \/ Clause(Q, kind, word, j).at = j
        \/ Has(j, word) /\ Clause(Q, kind, word, j) = Call(Q, kind, Consume(j + 1, "BY"))
    BY ReadAt, Zenon DEF Clause
  <2>2. Advances(i, j + 1) => Advances(i, Consume(j + 1, "BY"))
    BY Further DEF Onward
  <2>3. Advances(i, j + 1) => Advances(i, Call(Q, kind, Consume(j + 1, "BY")).at)
    BY <2>2, CallRead DEF Onward
  <2>4. QED
    BY <1>1, <2>1, <2>3
<1>6. QED
  BY <1>4, <1>5

\* LIMIT and OFFSET, in either order.
LEMMA LimitClauseRead ==
    ASSUME NEW Q, NEW i, Onward(Q, i), NEW j, Advances(i, j)
    PROVE  Advances(i, LimitClause(j).at)
<1> DEFINE first  == Take(j + 1, "NUMBER")
           second == Take(first.at + 1, "NUMBER")
           comma  == Has(j, "LIMIT") /\ Has(first.at, ",")
           limit  == IF ~Has(j, "LIMIT") THEN Read(j, Leaf("NUMBER", "-1"))
                     ELSE IF comma THEN second ELSE first
           skip   == IF Has(limit.at, "OFFSET") THEN Take(limit.at + 1, "NUMBER") ELSE Read(limit.at, first.tree)
<1>1. LimitClause(j).at = skip.at
  BY DEF LimitClause
<1>2. Has(j, "LIMIT") => Advances(i, j + 1)
  BY Further DEF Onward
<1>3. Has(j, "LIMIT") => Advances(i, first.at)
  BY <1>2, Further DEF Onward
<1> HIDE DEF first
<1>4. comma => Advances(i, second.at)
  BY <1>3, Further DEF Onward
<1> HIDE DEF second
<1>5. Advances(i, limit.at)
  BY <1>3, <1>4, ReadAt
<1> HIDE DEF limit
<1>6. Advances(i, skip.at)
  BY <1>5, ReadAt, Further DEF Onward
<1>7. QED
  BY <1>1, <1>6

\* A SELECT statement, from its first word to its last clause.
LEMMA SelectStatementRead ==
    ASSUME NEW Q, NEW i, Onward(Q, i)
    PROVE  Advances(i, SelectStatement(Q, i).at)
<1> DEFINE quantified == Consume(i, "SELECT")
           start  == IF Value(quantified) \in {"DISTINCT", "ALL"} THEN quantified + 1 ELSE quantified
           select == SelectClause(Q, start)
           from   == FromClause(Q, Consume(select.at, "FROM"))
           where  == Where(Q, "WHERE", from.at)
           group  == Clause(Q, "expressions", "GROUP", where.at)
           having == Where(Q, "HAVING", group.at)
           order  == Clause(Q, "sorts", "ORDER", having.at)
<1>1. SelectStatement(Q, i).at = LimitClause(order.at).at
  BY ReadAt DEF SelectStatement
<1>2. Nothing \notin {"DISTINCT", "ALL"}
  BY Zenon DEF Nothing
<1>3. "expressions" \in Kinds /\ "sorts" \in Kinds
  BY DEF Kinds
<1>4. Advances(i, quantified)
  BY Here DEF Onward
<1> HIDE DEF quantified
<1>5. Advances(i, start)
  BY <1>2, <1>4, Further DEF Onward
<1> HIDE DEF start
<1>6. Advances(i, select.at)
  BY <1>5, SelectClauseRead
<1> HIDE DEF select
<1>7. Advances(i, Consume(select.at, "FROM"))
  BY <1>6, Further DEF Onward
<1>8. Advances(i, from.at)
  BY <1>7, FromClauseRead
<1> HIDE DEF from
<1>9. Advances(i, where.at)
  BY <1>8, ClausesRead
<1> HIDE DEF where
<1>10. Advances(i, group.at)
  BY <1>3, <1>9, ClausesRead
<1> HIDE DEF group
<1>11. Advances(i, having.at)
  BY <1>10, ClausesRead
<1> HIDE DEF having
<1>12. Advances(i, order.at)
  BY <1>3, <1>11, ClausesRead
<1> HIDE DEF order
<1>13. QED
  BY <1>1, <1>12, LimitClauseRead

-----------------------------------------------------------------------------
(* The other statements *)

\* A row of values.
LEMMA RowItemRead ==
    ASSUME NEW Q, NEW i, Onward(Q, i)
    PROVE  Advances(i, RowItem(Q, i).at)
<1> DEFINE values == Call(Q, "expressions", Consume(i, "("))
<1>1. RowItem(Q, i).at = InBrackets(values).at
  BY ReadAt DEF RowItem
<1>2. Advances(i, Consume(i, "("))
  BY Here DEF Onward
<1>3. Advances(i, values.at)
  BY <1>2, CallRead DEF Onward, Kinds
<1> HIDE DEF values
<1>4. QED
  BY <1>1, <1>3, BracketsRead

\* A column and the value it is set to.
LEMMA AssignmentRead ==
    ASSUME NEW Q, NEW i, Onward(Q, i)
    PROVE  Advances(i, Assignment(Q, i).at)
<1> DEFINE column == Take(i, "IDENTIFIER")
           value  == Call(Q, "expression", Consume(column.at, "="))
<1>1. Assignment(Q, i).at = value.at
  BY ReadAt DEF Assignment
<1>2. Advances(i, column.at)
  BY Here DEF Onward
<1> HIDE DEF column
<1>3. Advances(i, Consume(column.at, "="))
  BY <1>2, Further DEF Onward
<1>4. Advances(i, value.at)
  BY <1>3, CallRead DEF Onward, Kinds
<1>5. QED
  BY <1>1, <1>4

\* The loop over the constraints of a column ends where it began or further on.
LEMMA ConstraintsRead ==
    ASSUME NEW Q, NEW i, Onward(Q, i)
    PROVE  Stops(i, Constraints(Q, i).at)
<1> DEFINE value  == Call(Q, "expression", i + 1)
           check  == InBrackets(Call(Q, "expression", Consume(i + 1, "(")))
           set    == IF Has(i, "NOT") THEN Consume(i + 1, "NULL")
                     ELSE IF Has(i, "NULL") THEN i + 1
                     ELSE IF Has(i, "PRIMARY") THEN Consume(i + 1, "KEY")
                     ELSE IF Has(i, "DEFAULT") THEN value.at
                     ELSE IF Has(i, "UNIQUE") THEN i + 1
                     ELSE check.at
           more   == Call(Q, "constraints", set)
           words  == {"NOT", "NULL", "PRIMARY", "DEFAULT", "UNIQUE", "CHECK"}
<1>1. IF Value(i) \in words THEN Constraints(Q, i).at = more.at ELSE Constraints(Q, i).at = i
  BY ReadAt DEF Constraints
<1>2. CASE Value(i) \in words
  <2>1. Advances(i, i + 1)
    <3>1. Nothing \notin words
      BY Zenon DEF Nothing
    <3>2. QED
      BY <1>2, <3>1, Here DEF Onward
  <2>2. "expression" \in Kinds /\ "constraints" \in Kinds
    BY DEF Kinds
  <2>3. /\ Advances(i, Consume(i + 1, "NULL")) /\ Advances(i, Consume(i + 1, "KEY"))
        /\ Advances(i, Consume(i + 1, "("))
    BY <2>1, Further DEF Onward
  <2>4. Advances(i, value.at) /\ Advances(i, Call(Q, "expression", Consume(i + 1, "(")).at)
    BY <2>1, <2>2, <2>3, CallRead DEF Onward
  <2>5. Advances(i, check.at)
    BY <2>4, BracketsRead
  <2> HIDE DEF value, check
  <2>6. Advances(i, set)
    BY <2>1, <2>3, <2>4, <2>5
  <2> HIDE DEF set
  <2>7. Advances(i, more.at)
    BY <2>2, <2>6, CallRead DEF Onward
  <2> HIDE DEF more
  <2>8. QED
    BY <1>1, <1>2, <2>7 DEF Advances, Stops, Onward
<1>3. CASE Value(i) \notin words
  BY <1>1, <1>3 DEF Stops, Onward, Listed, Limit
<1>4. QED
  BY <1>2, <1>3

\* The type parameters of a column end at the bracket that was found.
LEMMA ColumnDefRead ==
    ASSUME NEW Q, NEW i, Onward(Q, i)
    PROVE  Advances(i, ColumnDef(Q, i).at)
<1> DEFINE name  == Take(i, "IDENTIFIER")
           type  == Take(name.at, "IDENTIFIER")
           closing == {")", ";"}
           stops == {j \in DOMAIN tokens : j > type.at /\ Value(j) \in closing}
           stop  == IF stops = {} THEN Len(tokens) + 1 ELSE Min(stops)
           end   == IF Has(type.at, "(") THEN Consume(stop, ")") ELSE type.at
           sets  == Call(Q, "constraints", end)
<1>1. ColumnDef(Q, i).at = sets.at
  BY ReadAt, Zenon DEF ColumnDef
<1>2. Advances(i, name.at)
  BY Here DEF Onward
<1> HIDE DEF name
<1>3. Advances(i, type.at)
  BY <1>2, Further DEF Onward
<1>4. PICK at : at = type.at
  OBVIOUS
<1> HIDE DEF type
<1> HIDE DEF closing
<1>5. Has(type.at, "(") => Advances(i, stop)
  <2>1. ASSUME Has(type.at, "(")
        PROVE  Advances(i, stop)
    <3>1. Advances(i, type.at + 1)
      BY <1>3, <2>1, Further DEF Onward
    <3>2. PICK n \in Nat : n = Len(tokens) /\ Limit = n + 1 /\ DOMAIN tokens = 1 .. n
      BY DEF Onward, Listed, Limit
    <3>3. PICK k \in Nat : k = type.at /\ k > i /\ k <= n
      BY <3>1, <3>2, <1>3, <2>1 DEF Advances, Onward
    <3>4. \A j \in Nat : j > i /\ j <= n + 1 => Advances(i, j)
      BY <3>2 DEF Advances, Onward
    <3>5. CASE stops = {}
      <4>1. stop = n + 1
        BY <3>2, <3>5
      <4>2. n + 1 > i
        BY <3>2, <3>3 DEF Onward
      <4> HIDE DEF stop
      <4>3. QED
        BY <3>2, <3>4, <4>1, <4>2
    <3>7. CASE stops # {}
      <4>1. stops \subseteq Nat /\ \A j \in stops : j > k /\ j <= n
        BY <3>2, <3>3
      <4>2. stop = Min(stops)
        BY <3>7
      <4> HIDE DEF stops, stop
      <4>3. Min(stops) \in stops
        BY <3>7, <4>1, MinInSet
      <4>4. stop \in Nat /\ stop > k /\ stop <= n
        BY <4>1, <4>2, <4>3
      <4>5. i \in Nat
        BY <3>2 DEF Onward
      <4>6. QED
        BY <3>2, <3>3, <3>4, <4>4, <4>5
    <3>6. QED
      BY <3>5, <3>7
  <2>2. QED
    BY <2>1
<1> HIDE DEF stop
<1>6. Advances(i, end)
  BY <1>3, <1>5, Further DEF Onward
<1> HIDE DEF end
<1>7. Advances(i, sets.at)
  BY <1>6, CallRead DEF Onward, Kinds
<1>8. QED
  BY <1>1, <1>7

\* An INSERT statement, from a table name and rows of values or a query.
LEMMA InsertRead ==
    ASSUME NEW Q, NEW i, Onward(Q, i), Advances(i, i + 1)
    PROVE  Advances(i, InsertStatement(Q, i).at)
<1> DEFINE name    == Take(Consume(i + 1, "INTO"), "IDENTIFIER")
           listed  == InBrackets(Call(Q, "names", name.at + 1))
           columns == IF Has(name.at, "(") THEN listed ELSE Read(name.at, Leaf("names", ""))
           rows    == Call(Q, "rows", Consume(columns.at, "VALUES"))
<1>1. InsertStatement(Q, i).at = rows.at
  BY ReadAt, Zenon DEF InsertStatement
<1>2. "names" \in Kinds /\ "rows" \in Kinds
  BY DEF Kinds
<1>3. Advances(i, Consume(i + 1, "INTO"))
  BY Further DEF Onward
<1>4. Advances(i, name.at)
  BY <1>3, Further DEF Onward
<1> HIDE DEF name
<1>5. Has(name.at, "(") => Advances(i, listed.at)
  <2>1. Has(name.at, "(") => Advances(i, name.at + 1)
    BY <1>4, Further DEF Onward
  <2>2. Has(name.at, "(") => Advances(i, Call(Q, "names", name.at + 1).at)
    BY <1>2, <2>1, CallRead DEF Onward
  <2>3. QED
    BY <2>2, BracketsRead
<1> HIDE DEF listed
<1>6. columns.at = IF Has(name.at, "(") THEN listed.at ELSE name.at
  BY ReadAt, Zenon
<1> HIDE DEF columns
<1>7. Advances(i, columns.at)
  BY <1>4, <1>5, <1>6
<1>8. Advances(i, Consume(columns.at, "VALUES"))
  BY <1>7, Further DEF Onward
<1>9. Advances(i, rows.at)
  BY <1>2, <1>8, CallRead DEF Onward
<1>10. QED
  BY <1>1, <1>9

\* An UPDATE statement.
LEMMA UpdateRead ==
    ASSUME NEW Q, NEW i, Onward(Q, i), Advances(i, i + 1)
    PROVE  Advances(i, UpdateStatement(Q, i).at)
<1> DEFINE name == Take(i + 1, "IDENTIFIER")
           set  == Call(Q, "sets", Consume(name.at, "SET"))
<1>1. UpdateStatement(Q, i).at = Where(Q, "WHERE", set.at).at
  BY ReadAt DEF UpdateStatement
<1>2. Advances(i, name.at)
  BY Further DEF Onward
<1> HIDE DEF name
<1>3. Advances(i, Consume(name.at, "SET"))
  BY <1>2, Further DEF Onward
<1>4. Advances(i, set.at)
  BY <1>3, CallRead DEF Onward, Kinds
<1> HIDE DEF set
<1>5. QED
  BY <1>1, <1>4, ClausesRead

\* A DELETE statement.
LEMMA DeleteRead ==
    ASSUME NEW Q, NEW i, Onward(Q, i), Advances(i, i + 1)
    PROVE  Advances(i, DeleteStatement(Q, i).at)
<1> DEFINE name == Take(Consume(i + 1, "FROM"), "IDENTIFIER")
<1>1. DeleteStatement(Q, i).at = Where(Q, "WHERE", name.at).at
  BY ReadAt DEF DeleteStatement
<1>2. Advances(i, Consume(i + 1, "FROM"))
  BY Further DEF Onward
<1>3. Advances(i, name.at)
  BY <1>2, Further DEF Onward
<1> HIDE DEF name
<1>4. QED
  BY <1>1, <1>3, ClausesRead

\* A CREATE TABLE statement.
LEMMA CreateRead ==
    ASSUME NEW Q, NEW i, Onward(Q, i), Advances(i, i + 1)
    PROVE  Advances(i, CreateStatement(Q, i).at)
<1> DEFINE name    == Take(Consume(i + 1, "TABLE"), "IDENTIFIER")
           columns == Call(Q, "columns", Consume(name.at, "("))
<1>1. CreateStatement(Q, i).at = InBrackets(columns).at
  BY ReadAt DEF CreateStatement
<1>2. Advances(i, Consume(i + 1, "TABLE"))
  BY Further DEF Onward
<1>3. Advances(i, name.at)
  BY <1>2, Further DEF Onward
<1> HIDE DEF name
<1>4. Advances(i, Consume(name.at, "("))
  BY <1>3, Further DEF Onward
<1>5. Advances(i, columns.at)
  BY <1>4, CallRead DEF Onward, Kinds
<1> HIDE DEF columns
<1>6. QED
  BY <1>1, <1>5, BracketsRead

\* A DROP TABLE statement.
LEMMA DropRead ==
    ASSUME NEW Q, NEW i, Onward(Q, i), Advances(i, i + 1)
    PROVE  Advances(i, DropStatement(i).at)
<1> DEFINE name == Take(Consume(i + 1, "TABLE"), "IDENTIFIER")
<1>1. DropStatement(i).at = name.at
  BY ReadAt DEF DropStatement
<1>2. Advances(i, Consume(i + 1, "TABLE"))
  BY Further DEF Onward
<1>3. Advances(i, name.at)
  BY <1>2, Further DEF Onward
<1>4. QED
  BY <1>1, <1>3

\* A token has one value.
LEMMA HasOne == \A i, v, w : Has(i, v) /\ Has(i, w) => v = w
BY DEF Has

\* A statement of any kind; the words that begin them exclude each other.
LEMMA StatementRead ==
    ASSUME NEW Q, NEW i, Onward(Q, i)
    PROVE  Advances(i, Statement(Q, i).at)
<1>1. \A v : Has(i, v) => Advances(i, i + 1)
  BY Here DEF Onward
<1>2. \/ Statement(Q, i) = SelectStatement(Q, i)
      \/ Has(i, "INSERT") /\ Statement(Q, i) = InsertStatement(Q, i)
      \/ Has(i, "UPDATE") /\ Statement(Q, i) = UpdateStatement(Q, i)
      \/ Has(i, "DELETE") /\ Statement(Q, i) = DeleteStatement(Q, i)
      \/ Has(i, "CREATE") /\ Statement(Q, i) = CreateStatement(Q, i)
      \/ Has(i, "DROP") /\ Statement(Q, i) = DropStatement(i)
      \/ Statement(Q, i) = Throw
  BY HasOne DEF Statement
<1>3. Advances(i, Throw.at)
  BY ReadAt DEF Advances
<1>4. QED
  BY <1>1, <1>2, <1>3, SelectStatementRead, InsertRead, UpdateRead, DeleteRead, CreateRead, DropRead

-----------------------------------------------------------------------------
(* What is read at a position *)

\* Every function of the parser stops where it was called or further on, given
\* that those it calls further on do.
LEMMA ReadingStops ==
    ASSUME NEW Q, NEW i, Onward(Q, i), NEW kind \in Kinds
    PROVE  Stops(i, Reading(Q, kind, i).at)
<1>1. \A j : Advances(i, j) => Stops(i, j)
  BY DEF Advances, Stops, Onward, Listed, Limit
<1>2. Levels = {"expression", "and", "add", "mul"}
  BY DEF Levels
<1>3. CASE kind \in {"select", "reference", "joins", "arms", "constraints"}
  <2>1. \/ Reading(Q, kind, i) = SelectStatement(Q, i)
        \/ Reading(Q, kind, i) = TableReference(Q, i)
        \/ Reading(Q, kind, i) = Joins(Q, i)
        \/ Reading(Q, kind, i) = Arms(Q, i)
        \/ Reading(Q, kind, i) = Constraints(Q, i)
    BY <1>3 DEF Reading
  <2>2. QED
    BY <1>1, <2>1, SelectStatementRead, ReferenceRead, JoinsRead, ArmsRead, ConstraintsRead
<1>4. CASE kind \in {"expression", "and", "not", "add", "mul", "unary"}
  <2>1. \/ Reading(Q, kind, i) = Expression(Q, i)
        \/ Reading(Q, kind, i) = Conjunction(Q, i)
        \/ Reading(Q, kind, i) = Negation(Q, i)
        \/ Reading(Q, kind, i) = Sum(Q, i)
        \/ Reading(Q, kind, i) = Product(Q, i)
        \/ Reading(Q, kind, i) = Signed(Q, i)
    BY <1>4 DEF Reading
  <2>2. QED
    BY <1>1, <2>1, ExpressionRead
<1>5. CASE kind \in {"ors", "ands", "adds", "muls"}
  <2>1. \E level \in Levels : Reading(Q, kind, i) = Chain(Q, level, i)
    BY <1>2, <1>5 DEF Reading
  <2>2. QED
    BY <2>1, ChainRead
<1>6. CASE kind \in {"expressions", "items", "names", "sorts", "rows", "sets", "columns"}
  <2>1. \E first : Reading(Q, kind, i) = Items(Q, kind, first) /\ Advances(i, first.at)
    <3>1. /\ Advances(i, Expression(Q, i).at) /\ Advances(i, SelectItem(Q, i).at)
          /\ Advances(i, Take(i, "IDENTIFIER").at) /\ Advances(i, SortItem(i).at)
          /\ Advances(i, RowItem(Q, i).at) /\ Advances(i, Assignment(Q, i).at)
          /\ Advances(i, ColumnDef(Q, i).at)
      BY ExpressionRead, SelectItemRead, SortItemRead, RowItemRead, AssignmentRead, ColumnDefRead, Here
         DEF Onward
    <3>2. \/ Reading(Q, kind, i) = Items(Q, kind, Expression(Q, i))
          \/ Reading(Q, kind, i) = Items(Q, kind, SelectItem(Q, i))
          \/ Reading(Q, kind, i) = Items(Q, kind, Take(i, "IDENTIFIER"))
          \/ Reading(Q, kind, i) = Items(Q, kind, SortItem(i))
          \/ Reading(Q, kind, i) = Items(Q, kind, RowItem(Q, i))
          \/ Reading(Q, kind, i) = Items(Q, kind, Assignment(Q, i))
          \/ Reading(Q, kind, i) = Items(Q, kind, ColumnDef(Q, i))
      BY <1>6 DEF Reading
    <3>3. QED
      BY <3>1, <3>2
  <2>2. QED
    BY <1>1, <2>1, ItemsRead
<1>7. kind \in {"select", "reference", "joins", "arms", "constraints"} \cup
               {"expression", "and", "not", "add", "mul", "unary"} \cup
               {"ors", "ands", "adds", "muls"} \cup
               {"expressions", "items", "names", "sorts", "rows", "sets", "columns"}
  BY DEF Kinds
<1>8. QED
  BY <1>3, <1>4, <1>5, <1>6, <1>7

\* What is read at a position, given what is read after it.
Row(Q, i)   == [kind \in Kinds |-> Reading(Q, kind, i)]
After(f, i) == [j \in i + 1 .. Limit |-> f[j]]

\* There is what Parsed is defined to be: it is built from the last position down.
LEMMA ParsedUnfold ==
    ASSUME Listed
    PROVE  Parsed = [i \in 1 .. Limit |-> Row(After(Parsed, i), i)]
<1>1. PICK N \in Nat : N = Limit
  BY DEF Listed, Limit
<1> DEFINE Built(f, k) == f = [i \in N - k + 1 .. N |-> Row(After(f, i), i)]
           P == {k \in Nat : \E f : Built(f, k)}
<1>2. 0 \in P
  <2> DEFINE f == [i \in N - 0 + 1 .. N |-> 0]
  <2>1. N - 0 + 1 .. N = {}
    OBVIOUS
  <2>2. Built(f, 0)
    BY <2>1
  <2>3. QED
    BY <2>2
<1>3. ASSUME NEW k \in Nat, k \in P
      PROVE  k + 1 \in P
  <2>1. PICK f : Built(f, k)
    BY <1>3
  <2>2. PICK p \in Int : p = N - k
    OBVIOUS
  <2> DEFINE g == [i \in p .. N |-> IF i = p THEN Row(f, p) ELSE f[i]]
  <2>3. f = [i \in p + 1 .. N |-> f[i]]
    BY <2>1, <2>2
  <2>4. \A i \in p .. N : After(g, i) = After(f, i)
    <3>1. ASSUME NEW i \in p .. N
          PROVE  After(g, i) = After(f, i)
      <4>1. \A j \in i + 1 .. N : g[j] = f[j]
        BY <2>2
      <4> HIDE DEF g
      <4>2. QED
        BY <1>1, <4>1 DEF After
    <3>2. QED
      BY <3>1
  <2>5. After(f, p) = f
    BY <1>1, <2>3 DEF After
  <2>6. \A i \in p + 1 .. N : f[i] = Row(After(f, i), i)
    BY <2>1, <2>2
  <2>7. g = [i \in p .. N |-> Row(After(g, i), i)]
    <3>1. ASSUME NEW i \in p .. N
          PROVE  (IF i = p THEN Row(f, p) ELSE f[i]) = Row(After(g, i), i)
      <4> HIDE DEF g
      <4>1. CASE i = p
        BY <2>4, <2>5, <4>1
      <4>2. CASE i # p
        <5>1. i \in p + 1 .. N
          BY <2>2, <4>2
        <5>2. QED
          BY <2>4, <2>6, <4>2, <5>1
      <4>3. QED
        BY <4>1, <4>2
    <3>2. QED
      BY <3>1
  <2> HIDE DEF g
  <2>8. N - (k + 1) + 1 = p
    BY <2>2
  <2>9. Built(g, k + 1)
    BY <2>7, <2>8
  <2>10. QED
    BY <2>9
<1>4. N \in P
  <2> HIDE DEF P
  <2>1. \A k \in Nat : k \in P => k + 1 \in P
    BY <1>3
  <2>2. Nat \subseteq P
    BY <1>2, <2>1, Induction
  <2>3. QED
    BY <2>2
<1>5. PICK f : Built(f, N)
  BY <1>4
<1>6. N - N + 1 = 1
  OBVIOUS
<1>7. f = [i \in 1 .. Limit |-> Row(After(f, i), i)]
  BY <1>1, <1>5, <1>6
<1>8. QED
  BY <1>7, Zenon DEF Parsed, Row, After, Limit

\* Every function stops, from every position, by induction down from the last.
LEMMA ParsedStops ==
    ASSUME Listed
    PROVE  \A i \in 1 .. Limit : Onward(After(Parsed, i), i)
<1>1. PICK N \in Nat : N = Limit /\ N >= 1
  BY DEF Listed, Limit
<1>2. PICK f : f = Parsed
  OBVIOUS
<1>3. \A i \in 1 .. N, kind \in Kinds : f[i][kind] = Reading(After(f, i), kind, i)
  <2>1. \A i \in 1 .. N : f[i] = Row(After(f, i), i)
    BY <1>1, <1>2, ParsedUnfold
  <2>2. QED
    BY <2>1 DEF Row
<1> DEFINE S == {i \in 1 .. N : \A kind \in Kinds : Stops(i, f[i][kind].at)}
<1>4. ASSUME NEW i \in 1 .. N, \A j \in 1 .. N : j > i => j \in S
      PROVE  Onward(After(f, i), i)
  <2>1. ASSUME NEW j \in {0} \cup (i + 1 .. Limit), NEW kind \in Kinds
        PROVE  Stops(j, Call(After(f, i), kind, j).at)
    <3>1. CASE j = 0
      BY <3>1, ReadAt DEF Call, Stops
    <3>2. CASE j # 0
      <4>1. j \in i + 1 .. N
        BY <1>1, <3>2
      <4>2. j \in 1 .. N /\ j > i
        BY <4>1
      <4>3. After(f, i)[j] = f[j]
        BY <1>1, <4>1 DEF After
      <4>4. Call(After(f, i), kind, j) = f[j][kind]
        BY <3>2, <4>3 DEF Call
      <4>5. Stops(j, f[j][kind].at)
        BY <1>4, <4>2
      <4>6. QED
        BY <4>4, <4>5
    <3>3. QED
      BY <3>1, <3>2
  <2>2. QED
    BY <1>1, <2>1 DEF Onward, ReadsOn
<1>5. Hereditary(S, N)
  <2>1. ASSUME NEW i \in 1 .. N, \A j \in 1 .. N : j > i => j \in S
        PROVE  i \in S
    <3>1. Onward(After(f, i), i)
      BY <1>4, <2>1
    <3>2. \A kind \in Kinds : Stops(i, f[i][kind].at)
      BY <1>3, <3>1, ReadingStops
    <3>3. QED
      BY <3>2
  <2>2. QED
    BY <2>1 DEF Hereditary
<1>6. 1 .. N \subseteq S
  <2> HIDE DEF S
  <2>1. QED
    BY <1>5, Downwards
<1>7. QED
  <2> HIDE DEF S
  <2>1. QED
    BY <1>1, <1>2, <1>4, <1>6

\* The statement that is parsed from the first token stops within the tokens.
LEMMA StatementStops ==
    ASSUME Listed
    PROVE  Stops(1, Statement(Parsed, 1).at)
<1>1. 1 \in 1 .. Limit
  BY DEF Listed, Limit
<1>2. ReadsOn(After(Parsed, 1), 1)
  BY <1>1, ParsedStops DEF Onward
<1>3. ASSUME NEW j \in {0} \cup (1 + 1 .. Limit), NEW kind \in Kinds
      PROVE  Stops(j, Call(Parsed, kind, j).at)
  <2>1. j # 0 => After(Parsed, 1)[j] = Parsed[j]
    BY <1>3 DEF After
  <2>2. Call(Parsed, kind, j) = Call(After(Parsed, 1), kind, j)
    BY <2>1 DEF Call
  <2>3. QED
    BY <1>2, <2>2 DEF ReadsOn
<1>4. Onward(Parsed, 1)
  BY <1>1, <1>3 DEF Onward, ReadsOn
<1>5. QED
  BY <1>1, <1>4, StatementRead DEF Advances, Stops

\* The tokens are a sequence, and there is no result before they are parsed.
ParserInv ==
    /\ TypeOK
    /\ query \in Queries
    /\ \E T : tokens \in Seq(T)
    /\ stage \in {"text", "tokens"} => result.at = 0

\* The lexer puts out a sequence of tokens for every text.
LEMMA TokenizedSequence ==
    ASSUME NEW text \in Seq(Chars)
    PROVE  \E T : Tokenized(text) \in Seq(T)
<1>1. PICK t \in Seq(Chars) : Tokenized(text) = Tokens(t)[1]
  BY RaisedFacts
<1>2. PICK T : Tokens(t) \in [1 .. Len(t) + 1 -> Seq(T)]
  BY TokensUnfold
<1>3. 1 \in 1 .. Len(t) + 1
  OBVIOUS
<1>4. QED
  BY <1>1, <1>2, <1>3

\* The tokens are a sequence after they were read, whole or cut off.
LEMMA TokensSequence ==
    ASSUME query \in Queries, TokenizeQuery
    PROVE  \E T : tokens' \in Seq(T)
<1>1. PICK s \in Seq(Lexemes), L \in Seq(Lexemes) :
         /\ s = StatementText(query) /\ L = Ended(s)
         /\ \A l \in Range(L) : WellSpelt(l)
         /\ Range(s) \subseteq Range(L)
  BY StatementLexemes
<1>2. CASE \E style \in WholeStyles(query) : tokens' = Tokenized(TextOf(L, style))
  <2>1. PICK style \in WholeStyles(query) : tokens' = Tokenized(TextOf(L, style))
    BY <1>2
  <2>2. IsStyle(style)
    BY QueriesAssumption
  <2>3. TextOf(L, style) \in Seq(Chars)
    BY <1>1, <2>2, TextParts
  <2>4. QED
    BY <2>1, <2>3, TokenizedSequence
<1>3. CASE \E style \in CutStyles(query) :
              \E n \in 0 .. Len(TextOf(s, style)) - 1 : tokens' = Tokenized(SubSeq(TextOf(s, style), 1, n))
  <2>1. PICK style \in CutStyles(query) :
               \E n \in 0 .. Len(TextOf(s, style)) - 1 : tokens' = Tokenized(SubSeq(TextOf(s, style), 1, n))
    BY <1>3
  <2>2. PICK n \in 0 .. Len(TextOf(s, style)) - 1 : tokens' = Tokenized(SubSeq(TextOf(s, style), 1, n))
    BY <2>1
  <2>3. IsStyle(style)
    BY QueriesAssumption
  <2>4. PICK text \in Seq(Chars) : text = TextOf(s, style)
    BY <1>1, <2>3, TextParts
  <2>5. PICK m \in Nat : m = n /\ m <= Len(text)
    BY <2>4
  <2>6. SubSeq(text, 1, m) \in Seq(Chars)
    BY <2>5, PrefixFacts
  <2>7. QED
    BY <2>2, <2>4, <2>5, <2>6, TokenizedSequence
<1>4. QED
  BY <1>1, <1>2, <1>3 DEF TokenizeQuery

\* The parser: it stops within the tokens or just after them (TypeOK), whatever
\* they are, and reads what it asks for only at positions that it came to.
THEOREM ParserTypeOK == Spec => []TypeOK
<1>1. Init => ParserInv
  <2>1. SUFFICES ASSUME Init
                 PROVE  ParserInv
    OBVIOUS
  <2>2. tokens \in Seq({}) /\ Len(tokens) = 0
    BY <2>1 DEF Init
  <2>3. result.at = 0
    BY <2>1, ReadAt DEF Init
  <2>4. QED
    BY <2>1, <2>2, <2>3 DEF Init, ParserInv, TypeOK
<1>2. ParserInv /\ [Next]_vars => ParserInv'
  <2>1. SUFFICES ASSUME ParserInv, [Next]_vars
                 PROVE  ParserInv'
    OBVIOUS
  <2>2. CASE TokenizeQuery
    <3>1. PICK T : tokens' \in Seq(T)
      BY <2>1, <2>2, TokensSequence DEF ParserInv
    <3>2. /\ query' = query /\ result' = result /\ stage = "text"
          /\ stage' \in {"failed", "tokens"}
      BY <2>2 DEF TokenizeQuery
    <3>3. result'.at = 0
      BY <2>1, <3>2 DEF ParserInv
    <3>4. Len(tokens') \in Nat
      BY <3>1
    <3>5. QED
      BY <2>1, <3>1, <3>2, <3>3, <3>4 DEF ParserInv, TypeOK
  <2>3. CASE Parse
    <3>1. PICK T : tokens \in Seq(T)
      BY <2>1 DEF ParserInv
    <3>2. Listed
      BY <3>1 DEF Listed
    <3>3. /\ query' = query /\ tokens' = tokens
          /\ result' = Statement(Parsed, 1)
          /\ stage' = IF result'.at = 0 THEN "failed" ELSE "done"
      BY <2>3 DEF Parse
    <3>4. Stops(1, result'.at)
      BY <3>2, <3>3, StatementStops
    <3>5. result'.at \in 0 .. Len(tokens) + 1
      BY <3>2, <3>4 DEF Stops, Limit, Listed
    <3>6. QED
      BY <2>1, <3>3, <3>5 DEF ParserInv, TypeOK
  <2>4. CASE UNCHANGED vars
    BY <2>1, <2>4 DEF vars, ParserInv, TypeOK
  <2>5. QED
    BY <2>1, <2>2, <2>3, <2>4 DEF Next
<1>3. ParserInv => TypeOK
  BY DEF ParserInv
<1>4. QED
  BY <1>1, <1>2, <1>3, PTL DEF Spec

=============================================================================
