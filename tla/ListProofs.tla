------------------------------ MODULE ListProofs ------------------------------
(***************************************************************************)
(* Proofs about the algorithms of MCAlgorithms that make lists and texts,  *)
(* over inputs of any size: the input of a synthesis, the merged answers   *)
(* of the read tools, the object taken out of a model's answer, the names  *)
(* and rewrites of canonicalization, the redirect of the callback, and the *)
(* search for a name in a text with the rewrite of the personal scan.      *)
(*                                                                         *)
(* The first sections are about the operators of Lists and about Distinct, *)
(* the reference they are compared with; then there is one section per     *)
(* module, each ending in its theorem.                                     *)
(***************************************************************************)
EXTENDS AlgorithmProofs, SequenceTheorems

-----------------------------------------------------------------------------
(* The numbers of a set in their order                                     *)

\* A recursion whose step stays in a set unfolds.
LEMMA Unfolding ==
    ASSUME NEW S, NEW base \in S, NEW N \in Nat, NEW F \in [S \X (1..N) -> S]
    PROVE  \E g \in [0..N -> S] :
              /\ g = [n \in 0..N |-> IF n = 0 THEN base ELSE F[<<g[n - 1], n>>]]
              /\ g[0] = base
              /\ \A n \in 1..N : g[n] = F[<<g[n - 1], n>>]
<1>1. PICK g \in [0..N -> S] : Follows(g, base, F, N)
  BY Recursion
<1>2. \A n \in 0..N : n = 0 \/ n \in 1..N
  OBVIOUS
<1>3. g = [n \in 0..N |-> g[n]]
  OBVIOUS
<1>4. \A n \in 0..N : g[n] = IF n = 0 THEN base ELSE F[<<g[n - 1], n>>]
  BY <1>1, <1>2 DEF Follows
<1> QED BY <1>1, <1>3, <1>4 DEF Follows

\* How Ascending(P, n) comes about.
Climbs(g, P, n) ==
    /\ g \in [0..n -> Seq(Nat)] /\ g[0] = <<>>
    /\ \A k \in 1..n : g[k] = IF k \in P THEN Append(g[k - 1], k) ELSE g[k - 1]

LEMMA AscendingUnfolds ==
    ASSUME NEW P, NEW n \in Nat
    PROVE  \E g : Climbs(g, P, n) /\ Ascending(P, n) = g[n]
<1> DEFINE S == Seq(Nat)
           F == [p \in S \X (1..n) |-> IF p[2] \in P THEN Append(p[1], p[2]) ELSE p[1]]
           Good(g) == g = [k \in 0..n |-> IF k = 0 THEN <<>>
                                          ELSE IF k \in P THEN Append(g[k - 1], k) ELSE g[k - 1]]
           start == <<>>
<1>1. F \in [S \X (1..n) -> S]
  <2>1. \A s \in S, k \in 1..n : Append(s, k) \in S
    BY AppendProperties
  <2> QED BY <2>1
<1>2. start \in S
  OBVIOUS
<1>3. PICK g \in [0..n -> S] :
         /\ g = [k \in 0..n |-> IF k = 0 THEN start ELSE F[<<g[k - 1], k>>]]
         /\ g[0] = start
         /\ \A k \in 1..n : g[k] = F[<<g[k - 1], k>>]
  <2> HIDE DEF F, S, start
  <2> QED BY <1>1, <1>2, Unfolding
<1>4. ASSUME NEW h \in [0..n -> S], NEW k \in 1..n
      PROVE  F[<<h[k - 1], k>>] = IF k \in P THEN Append(h[k - 1], k) ELSE h[k - 1]
  <2>1. k - 1 \in 0..n
    OBVIOUS
  <2>2. <<h[k - 1], k>> \in S \X (1..n)
    BY <2>1
  <2> QED BY <2>2
<1>5. Good(g)
  <2>1. \A k \in 0..n : k = 0 \/ k \in 1..n
    OBVIOUS
  <2> HIDE DEF F, S
  <2> QED BY <1>3, <1>4, <2>1
<1>6. Ascending(P, n) = (CHOOSE g1 : Good(g1))[n]
  BY DEF Ascending
<1>7. Good(CHOOSE g1 : Good(g1))
  <2> HIDE DEF Good
  <2> QED BY <1>5
<1> DEFINE c == CHOOSE g1 : Good(g1)
<1>8. /\ c = [k \in 0..n |-> IF k = 0 THEN <<>>
                             ELSE IF k \in P THEN Append(c[k - 1], k) ELSE c[k - 1]]
      /\ Ascending(P, n) = c[n]
  <2> HIDE DEF c
  <2> QED BY <1>6, <1>7 DEF c
<1> HIDE DEF c
<1>9. /\ c[0] = <<>>
      /\ \A k \in 1..n : c[k] = IF k \in P THEN Append(c[k - 1], k) ELSE c[k - 1]
  <2>1. \A k \in 0..n : c[k] = IF k = 0 THEN <<>>
                             ELSE IF k \in P THEN Append(c[k - 1], k) ELSE c[k - 1]
    BY <1>8
  <2>2. 0 \in 0..n /\ \A k \in 1..n : k \in 0..n /\ k # 0
    OBVIOUS
  <2> QED BY <2>1, <2>2
<1>10. \A k \in 0..n : c[k] \in Seq(Nat)
  <2> DEFINE V == {k \in 0..n : c[k] \in Seq(Nat)}
  <2>1. 0 \in V
    <3>1. 0 \in 0..n /\ <<>> \in Seq(Nat)
      OBVIOUS
    <3> QED BY <1>9, <3>1
  <2>2. ASSUME NEW k \in 1..n, k - 1 \in V PROVE k \in V
    <3>1. k \in 0..n /\ k \in Nat /\ c[k - 1] \in Seq(Nat)
      BY <2>2
    <3>2. Append(c[k - 1], k) \in Seq(Nat)
      BY <3>1, AppendProperties
    <3> QED BY <1>9, <3>1, <3>2
  <2>3. \A k \in 0..n : k \in V
    <3> HIDE DEF V
    <3> QED BY <2>1, <2>2, UptoInduction
  <2> QED BY <2>3
<1>11. c \in [0..n -> Seq(Nat)]
  BY <1>8, <1>10
<1> QED BY <1>8, <1>9, <1>11 DEF Climbs

\* One number more.
LEMMA AscendingStep ==
    ASSUME NEW P
    PROVE  /\ Ascending(P, 0) = <<>>
           /\ \A n \in Nat : Ascending(P, n) \in Seq(Nat)
           /\ \A n \in Nat \ {0} :
                 Ascending(P, n) = IF n \in P THEN Append(Ascending(P, n - 1), n)
                                   ELSE Ascending(P, n - 1)
<1>1. Ascending(P, 0) = <<>>
  BY AscendingUnfolds DEF Climbs
<1>2. \A n \in Nat : Ascending(P, n) \in Seq(Nat)
  <2> SUFFICES ASSUME NEW n \in Nat PROVE Ascending(P, n) \in Seq(Nat)
    OBVIOUS
  <2>1. PICK g : Climbs(g, P, n) /\ Ascending(P, n) = g[n]
    BY AscendingUnfolds
  <2> QED BY <2>1 DEF Climbs
<1>3. ASSUME NEW n \in Nat \ {0}
      PROVE  Ascending(P, n) = IF n \in P THEN Append(Ascending(P, n - 1), n)
                               ELSE Ascending(P, n - 1)
  <2>1. PICK g : Climbs(g, P, n) /\ Ascending(P, n) = g[n]
    BY AscendingUnfolds
  <2>2. n - 1 \in Nat
    OBVIOUS
  <2>3. PICK h : Climbs(h, P, n - 1) /\ Ascending(P, n - 1) = h[n - 1]
    BY <2>2, AscendingUnfolds
  <2> DEFINE V == {k \in 0..(n - 1) : g[k] = h[k]}
  <2>4. 0 \in V
    BY <2>1, <2>3 DEF Climbs
  <2>5. ASSUME NEW k \in 1..(n - 1), k - 1 \in V PROVE k \in V
    <3>1. k \in 1..n /\ k \in 0..(n - 1) /\ g[k - 1] = h[k - 1]
      BY <2>5
    <3>2. g[k] = IF k \in P THEN Append(g[k - 1], k) ELSE g[k - 1]
      BY <2>1, <3>1 DEF Climbs
    <3>3. h[k] = IF k \in P THEN Append(h[k - 1], k) ELSE h[k - 1]
      BY <2>3 DEF Climbs
    <3> QED BY <3>1, <3>2, <3>3
  <2>6. \A k \in 0..(n - 1) : k \in V
    <3> HIDE DEF V
    <3> QED BY <2>2, <2>4, <2>5, UptoInduction
  <2>7. g[n - 1] = h[n - 1]
    BY <2>6
  <2>8. g[n] = IF n \in P THEN Append(g[n - 1], n) ELSE g[n - 1]
    <3>1. n \in 1..n
      OBVIOUS
    <3> QED BY <2>1, <3>1 DEF Climbs
  <2> QED BY <2>1, <2>3, <2>7, <2>8
<1> QED BY <1>1, <1>2, <1>3

\* They are the numbers of P, each once, in their order.
Climbing(a, P, n) ==
    /\ a \in Seq(Nat) /\ Len(a) \in 0..n
    /\ \A k \in 1..Len(a) : a[k] \in P /\ a[k] \in 1..n
    /\ \A k, l \in 1..Len(a) : k < l => a[k] < a[l]
    /\ \A i \in P : i \in 1..n => \E k \in 1..Len(a) : a[k] = i

LEMMA AscendingFact ==
    ASSUME NEW P, NEW N \in Nat
    PROVE  Climbing(Ascending(P, N), P, N)
<1> DEFINE A(n) == Ascending(P, n)
           V == {n \in 0..N : Climbing(A(n), P, n)}
<1>1. 0 \in V
  <2>1. A(0) = <<>>
    BY AscendingStep
  <2>2. 0 \in 0..N /\ <<>> \in Seq(Nat) /\ Len(<<>>) = 0
    OBVIOUS
  <2>3. Climbing(<<>>, P, 0)
    BY <2>2 DEF Climbing
  <2> QED BY <2>1, <2>2, <2>3
<1>2. ASSUME NEW n \in 1..N, n - 1 \in V PROVE n \in V
  <2>1. n \in 0..N /\ n - 1 \in Nat /\ n \in Nat \ {0}
    OBVIOUS
  <2>2. Climbing(A(n - 1), P, n - 1)
    BY <1>2
  <2>3. A(n) = IF n \in P THEN Append(A(n - 1), n) ELSE A(n - 1)
    BY <2>1, AscendingStep
  <2> DEFINE a == A(n - 1)
             b == A(n)
  <2> HIDE DEF A
  <2>4. CASE n \notin P
    <3>1. b = a
      BY <2>3, <2>4
    <3>2. Len(a) \in 0..n
      BY <2>2 DEF Climbing
    <3>3. \A k \in 1..Len(a) : a[k] \in P /\ a[k] \in 1..n
      BY <2>2 DEF Climbing
    <3>4. \A i \in P : i \in 1..n => i \in 1..(n - 1)
      BY <2>4
    <3>5. Climbing(a, P, n)
      <4> HIDE DEF a
      <4>1. /\ a \in Seq(Nat)
            /\ \A k, l \in 1..Len(a) : k < l => a[k] < a[l]
            /\ \A i \in P : i \in 1..(n - 1) => \E k \in 1..Len(a) : a[k] = i
        BY <2>2 DEF Climbing, a
      <4> QED BY <3>2, <3>3, <3>4, <4>1 DEF Climbing
    <3> QED BY <2>1, <3>1, <3>5
  <2>5. CASE n \in P
    <3>1. b = Append(a, n)
      BY <2>3, <2>5
    <3> HIDE DEF a, b
    <3>2. a \in Seq(Nat) /\ Len(a) \in 0..(n - 1)
      BY <2>2 DEF Climbing, a
    <3>3. /\ b \in Seq(Nat) /\ Len(b) = Len(a) + 1
          /\ \A k \in 1..Len(a) : b[k] = a[k]
          /\ b[Len(a) + 1] = n
      BY <2>1, <3>1, <3>2, AppendProperties
    <3>4. \A k \in 1..Len(a) : a[k] \in P /\ a[k] \in 1..(n - 1)
      BY <2>2 DEF Climbing, a
    <3>5. \A k \in 1..Len(b) : k \in 1..Len(a) \/ k = Len(a) + 1
      BY <3>2, <3>3
    <3>6. \A k \in 1..Len(b) : b[k] \in P /\ b[k] \in 1..n
      BY <2>1, <2>5, <3>3, <3>4, <3>5
    <3>7. ASSUME NEW k \in 1..Len(b), NEW l \in 1..Len(b), k < l PROVE b[k] < b[l]
      <4>1. k \in 1..Len(a)
        BY <3>2, <3>3, <3>7
      <4>2. CASE l \in 1..Len(a)
        BY <2>2, <3>3, <3>7, <4>1, <4>2 DEF Climbing, a
      <4>3. CASE l = Len(a) + 1
        BY <3>3, <3>4, <4>1, <4>3
      <4> QED BY <3>5, <4>2, <4>3
    <3>8. ASSUME NEW i \in P, i \in 1..n PROVE \E k \in 1..Len(b) : b[k] = i
      <4>1. CASE i = n
        <5>1. Len(a) + 1 \in 1..Len(b)
          BY <3>2, <3>3
        <5> QED BY <3>3, <4>1, <5>1
      <4>2. CASE i # n
        <5>1. i \in 1..(n - 1)
          BY <3>8, <4>2
        <5>2. PICK k \in 1..Len(a) : a[k] = i
          BY <2>2, <5>1 DEF Climbing, a
        <5>3. k \in 1..Len(b)
          BY <3>2, <3>3
        <5> QED BY <3>3, <5>2, <5>3
      <4> QED BY <4>1, <4>2
    <3>9. Climbing(b, P, n)
      <4>1. Len(b) \in 0..n
        BY <3>2, <3>3
      <4> QED BY <3>3, <3>6, <3>7, <3>8, <4>1 DEF Climbing
    <3> QED BY <2>1, <3>9 DEF b
  <2> QED BY <2>4, <2>5
<1>3. \A n \in 0..N : n \in V
  <2> HIDE DEF V
  <2> QED BY <1>1, <1>2, UptoInduction
<1> QED BY <1>3

\* The first m are the beginning of the first n.
LEMMA AscendingPrefix ==
    ASSUME NEW P, NEW m \in Nat, NEW N \in Nat, m <= N
    PROVE  /\ Len(Ascending(P, m)) <= Len(Ascending(P, N))
           /\ \A k \in 1..Len(Ascending(P, m)) : Ascending(P, N)[k] = Ascending(P, m)[k]
<1> DEFINE A(n) == Ascending(P, n)
           Begins(n) == /\ Len(A(m)) <= Len(A(n))
                        /\ \A k \in 1..Len(A(m)) : A(n)[k] = A(m)[k]
           V == {n \in 0..N : m <= n => Begins(n)}
<1>1. \A n \in Nat : A(n) \in Seq(Nat) /\ Len(A(n)) \in Nat
  <2> SUFFICES ASSUME NEW n \in Nat PROVE A(n) \in Seq(Nat) /\ Len(A(n)) \in Nat
    OBVIOUS
  <2>1. A(n) \in Seq(Nat)
    BY AscendingStep
  <2> QED BY <2>1, LenProperties
<1>2. Begins(m)
  BY <1>1
<1>3. 0 \in V
  <2>1. 0 \in 0..N /\ (m <= 0 => m = 0)
    OBVIOUS
  <2> QED BY <1>2, <2>1
<1>4. ASSUME NEW n \in 1..N, n - 1 \in V PROVE n \in V
  <2>1. n \in 0..N /\ n - 1 \in Nat /\ n \in Nat \ {0} /\ n \in Nat
    OBVIOUS
  <2>2. A(n) = IF n \in P THEN Append(A(n - 1), n) ELSE A(n - 1)
    BY <2>1, AscendingStep
  <2>3. CASE m = n
    BY <1>2, <2>1, <2>3
  <2>4. CASE m # n /\ m <= n
    <3>1. Begins(n - 1)
      BY <1>4, <2>1, <2>4
    <3> HIDE DEF A
    <3>2. A(m) \in Seq(Nat) /\ Len(A(m)) \in Nat /\ A(n - 1) \in Seq(Nat) /\ Len(A(n - 1)) \in Nat
      BY <1>1, <2>1
    <3>3. CASE n \notin P
      BY <2>1, <2>2, <3>1, <3>3
    <3>4. CASE n \in P
      <4>1. A(n) = Append(A(n - 1), n)
        BY <2>2, <3>4
      <4>2. /\ Len(A(n)) = Len(A(n - 1)) + 1
            /\ \A k \in 1..Len(A(n - 1)) : A(n)[k] = A(n - 1)[k]
        BY <2>1, <3>2, <4>1, AppendProperties
      <4>3. Len(A(m)) <= Len(A(n))
        BY <3>1, <3>2, <4>2
      <4>4. \A k \in 1..Len(A(m)) : k \in 1..Len(A(n - 1))
        BY <3>1, <3>2
      <4> QED BY <2>1, <3>1, <4>2, <4>3, <4>4
    <3> QED BY <3>3, <3>4
  <2> QED BY <2>1, <2>3, <2>4
<1>5. \A n \in 0..N : n \in V
  <2> HIDE DEF V
  <2> QED BY <1>3, <1>4, UptoInduction
<1> QED BY <1>5

\* Only what P has up to n matters.
LEMMA AscendingSame ==
    ASSUME NEW P, NEW Q, NEW N \in Nat, \A i \in 1..N : i \in P <=> i \in Q
    PROVE  Ascending(P, N) = Ascending(Q, N)
<1> DEFINE V == {n \in 0..N : Ascending(P, n) = Ascending(Q, n)}
<1>1. 0 \in V
  BY AscendingStep
<1>2. ASSUME NEW n \in 1..N, n - 1 \in V PROVE n \in V
  <2>1. n \in 0..N /\ n \in Nat \ {0}
    OBVIOUS
  <2>2. Ascending(P, n - 1) = Ascending(Q, n - 1)
    BY <1>2
  <2>3. Ascending(P, n) = IF n \in P THEN Append(Ascending(P, n - 1), n) ELSE Ascending(P, n - 1)
    BY <2>1, AscendingStep
  <2>4. Ascending(Q, n) = IF n \in Q THEN Append(Ascending(Q, n - 1), n) ELSE Ascending(Q, n - 1)
    BY <2>1, AscendingStep
  <2> QED BY <2>1, <2>2, <2>3, <2>4
<1>3. \A n \in 0..N : n \in V
  <2> HIDE DEF V
  <2> QED BY <1>1, <1>2, UptoInduction
<1> QED BY <1>3

\* All of them, when P has all.
LEMMA AscendingAll ==
    ASSUME NEW P, NEW N \in Nat, 1..N \subseteq P
    PROVE  Ascending(P, N) = [k \in 1..N |-> k]
<1> DEFINE V == {n \in 0..N : Ascending(P, n) = [k \in 1..n |-> k]}
<1>1. 0 \in V
  BY AscendingStep
<1>2. ASSUME NEW n \in 1..N, n - 1 \in V PROVE n \in V
  <2>1. n \in 0..N /\ n \in Nat \ {0} /\ n \in P /\ n - 1 \in Nat
    OBVIOUS
  <2> DEFINE s == [k \in 1..(n - 1) |-> k]
             t == [k \in 1..n |-> k]
  <2>2. Ascending(P, n) = Append(s, n)
    BY <1>2, <2>1, AscendingStep
  <2>3. s \in Seq(Nat) /\ Len(s) = n - 1 /\ t \in Seq(Nat) /\ Len(t) = n
    BY <2>1
  <2>4. /\ Append(s, n) \in Seq(Nat) /\ Len(Append(s, n)) = n
        /\ \A k \in 1..(n - 1) : Append(s, n)[k] = s[k]
        /\ Append(s, n)[n] = n
    <3> HIDE DEF s
    <3> QED BY <2>1, <2>3, AppendProperties
  <2>5. \A k \in 1..n : Append(s, n)[k] = t[k]
    <3>1. \A k \in 1..n : k = n \/ k \in 1..(n - 1)
      OBVIOUS
    <3> QED BY <2>1, <2>4, <3>1
  <2>6. Append(s, n) = t
    <3> HIDE DEF s, t
    <3> QED BY <2>3, <2>4, <2>5, SeqEqual
  <2> QED BY <2>1, <2>2, <2>6
<1>3. \A n \in 0..N : n \in V
  <2> HIDE DEF V
  <2> QED BY <1>1, <1>2, UptoInduction
<1> QED BY <1>3

-----------------------------------------------------------------------------
(* Lists cut, filtered and freed of repetitions                            *)

LEMMA ShortenFact ==
    ASSUME NEW S, NEW s \in Seq(S), NEW n \in Nat
    PROVE  /\ Shorten(s, n) \in Seq(S)
           /\ Len(Shorten(s, n)) = IF Len(s) < n THEN Len(s) ELSE n
           /\ \A k \in 1..Len(Shorten(s, n)) : Shorten(s, n)[k] = s[k]
<1> DEFINE m == IF Len(s) < n THEN Len(s) ELSE n
<1>1. Len(s) \in Nat /\ \A i \in 1..Len(s) : s[i] \in S
  BY LenProperties, ElementOfSeq
<1>2. m \in Int /\ m \in 0..Len(s) /\ \A i \in 1..m : s[i] \in S
  BY <1>1
<1>3. Shorten(s, n) = SubSeq(s, 1, m)
  BY DEF Shorten
<1> HIDE DEF m
<1>4. /\ SubSeq(s, 1, m) \in Seq(S)
      /\ Len(SubSeq(s, 1, m)) = IF 1 <= m THEN m - 1 + 1 ELSE 0
      /\ \A i \in 1..m - 1 + 1 : SubSeq(s, 1, m)[i] = s[1 + i - 1]
  BY <1>2, SubSeqProperties
<1>5. Len(SubSeq(s, 1, m)) = m
  BY <1>1, <1>2, <1>4
<1>6. \A i \in 1..m : SubSeq(s, 1, m)[i] = s[i]
  BY <1>1, <1>2, <1>4
<1> QED BY <1>3, <1>4, <1>5, <1>6 DEF m

\* s is the beginning of t.
Begins(s, t) == Len(s) <= Len(t) /\ \A k \in 1..Len(s) : t[k] = s[k]

LEMMA PrefixFact ==
    ASSUME NEW S, NEW s \in Seq(S), NEW t \in Seq(S), Begins(s, t)
    PROVE  IsPrefix(s, t)
<1>1. Len(s) \in Nat /\ Len(t) \in Nat /\ Len(s) <= Len(t)
  BY LenProperties DEF Begins
<1>2. \A i \in 1..Len(s) : s[i] \in S /\ t[i] \in S
  BY <1>1, ElementOfSeq
<1>3. /\ SubSeq(t, 1, Len(s)) \in Seq(S)
      /\ Len(SubSeq(t, 1, Len(s))) = Len(s)
      /\ \A i \in 1..Len(s) : SubSeq(t, 1, Len(s))[i] = t[i]
  <2> DEFINE m == Len(s)
  <2> HIDE DEF m
  <2>1. m \in Int /\ m \in Nat /\ \A i \in 1..m : t[i] \in S
    BY <1>1, <1>2 DEF m
  <2>2. /\ SubSeq(t, 1, m) \in Seq(S)
        /\ Len(SubSeq(t, 1, m)) = IF 1 <= m THEN m - 1 + 1 ELSE 0
        /\ \A i \in 1..m - 1 + 1 : SubSeq(t, 1, m)[i] = t[1 + i - 1]
    BY <2>1, SubSeqProperties
  <2>3. Len(SubSeq(t, 1, m)) = m /\ \A i \in 1..m : SubSeq(t, 1, m)[i] = t[i]
    BY <2>1, <2>2
  <2> QED BY <2>2, <2>3 DEF m
<1>4. SubSeq(s, 1, Len(s)) = s
  BY SubSeqFull
<1>5. SubSeq(t, 1, Len(s)) = s
  BY <1>3, SeqEqual DEF Begins
<1> QED BY <1>1, <1>4, <1>5 DEF IsPrefix

LEMMA ConcatBegins ==
    ASSUME NEW S, NEW s \in Seq(S), NEW t \in Seq(S)
    PROVE  s \o t \in Seq(S) /\ Begins(s, s \o t)
<1>1. Len(s) \in Nat /\ Len(t) \in Nat
  BY LenProperties
<1>2. /\ s \o t \in Seq(S) /\ Len(s \o t) = Len(s) + Len(t)
      /\ \A i \in 1..Len(s) + Len(t) : (s \o t)[i] = IF i <= Len(s) THEN s[i] ELSE t[i - Len(s)]
  BY ConcatProperties
<1>3. \A k \in 1..Len(s) : k \in 1..Len(s) + Len(t) /\ k <= Len(s)
  BY <1>1
<1> QED BY <1>1, <1>2, <1>3 DEF Begins

LEMMA ConcatGrows ==
    ASSUME NEW S, NEW s \in Seq(S), NEW t \in Seq(S), NEW u \in Seq(S), Begins(t, u)
    PROVE  Begins(s \o t, s \o u)
<1>1. Len(s) \in Nat /\ Len(t) \in Nat /\ Len(u) \in Nat /\ Len(t) <= Len(u)
  BY LenProperties DEF Begins
<1>2. /\ Len(s \o t) = Len(s) + Len(t)
      /\ \A i \in 1..Len(s) + Len(t) : (s \o t)[i] = IF i <= Len(s) THEN s[i] ELSE t[i - Len(s)]
  BY ConcatProperties
<1>3. /\ Len(s \o u) = Len(s) + Len(u)
      /\ \A i \in 1..Len(s) + Len(u) : (s \o u)[i] = IF i <= Len(s) THEN s[i] ELSE u[i - Len(s)]
  BY ConcatProperties
<1>4. ASSUME NEW i \in 1..Len(s) + Len(t) PROVE (s \o u)[i] = (s \o t)[i]
  <2>1. i \in 1..Len(s) + Len(u) /\ (~(i <= Len(s)) => i - Len(s) \in 1..Len(t))
    BY <1>1
  <2>2. ~(i <= Len(s)) => t[i - Len(s)] = u[i - Len(s)]
    BY <2>1 DEF Begins
  <2> QED BY <1>2, <1>3, <2>1, <2>2
<1> QED BY <1>1, <1>2, <1>3, <1>4 DEF Begins

LEMMA BeginsTransitive ==
    ASSUME NEW S, NEW s \in Seq(S), NEW t \in Seq(S), NEW u \in Seq(S), Begins(s, t), Begins(t, u)
    PROVE  Begins(s, u)
<1>1. Len(s) \in Nat /\ Len(t) \in Nat /\ Len(u) \in Nat
  BY LenProperties
<1>2. \A k \in 1..Len(s) : k \in 1..Len(t)
  BY <1>1 DEF Begins
<1> QED BY <1>1, <1>2 DEF Begins

LEMMA BeginsDistinct ==
    ASSUME NEW S, NEW s \in Seq(S), NEW t \in Seq(S), Begins(s, t), IsDistinct(t)
    PROVE  IsDistinct(s)
<1>1. /\ Len(s) \in Nat /\ Len(t) \in Nat
      /\ DOMAIN s = 1..Len(s) /\ DOMAIN t = 1..Len(t)
  BY LenProperties
<1>2. \A k \in 1..Len(s) : k \in 1..Len(t) /\ s[k] = t[k]
  BY <1>1 DEF Begins
<1> QED BY <1>1, <1>2 DEF IsDistinct

LEMMA ShortenIs ==
    ASSUME NEW S, NEW s \in Seq(S), NEW n \in Nat
    PROVE  /\ Shorten(s, n) \in Seq(S) /\ Begins(Shorten(s, n), s)
           /\ Len(s) >= n => Len(Shorten(s, n)) = n
           /\ Len(s) <= n => Shorten(s, n) = s
<1> DEFINE a == Shorten(s, n)
<1>1. Len(s) \in Nat
  BY LenProperties
<1>2. /\ a \in Seq(S) /\ Len(a) = (IF Len(s) < n THEN Len(s) ELSE n)
      /\ \A k \in 1..Len(a) : a[k] = s[k]
  BY ShortenFact
<1> HIDE DEF a
<1>3. Len(a) <= Len(s) /\ (Len(s) >= n => Len(a) = n) /\ (Len(s) <= n => Len(a) = Len(s))
  BY <1>1, <1>2
<1>4. Len(s) <= n => a = s
  BY <1>2, <1>3, SeqEqual
<1>5. Begins(a, s)
  BY <1>2, <1>3 DEF Begins
<1> QED BY <1>2, <1>3, <1>4, <1>5 DEF a

\* Cutting both keeps a beginning a beginning, and makes them equal when the
\* shorter one is long enough.
LEMMA ShortenBegins ==
    ASSUME NEW S, NEW s \in Seq(S), NEW t \in Seq(S), NEW n \in Nat, Begins(s, t)
    PROVE  /\ Begins(Shorten(s, n), Shorten(t, n))
           /\ Begins(Shorten(s, n), t)
           /\ Len(s) >= n => Shorten(s, n) = Shorten(t, n)
           /\ Len(s) <= n => Shorten(s, n) = s
<1> DEFINE a == Shorten(s, n)
           b == Shorten(t, n)
<1>1. Len(s) \in Nat /\ Len(t) \in Nat /\ Len(s) <= Len(t)
  BY LenProperties DEF Begins
<1>2. /\ a \in Seq(S) /\ Len(a) = IF Len(s) < n THEN Len(s) ELSE n
      /\ \A k \in 1..Len(a) : a[k] = s[k]
  BY ShortenFact
<1>3. /\ b \in Seq(S) /\ Len(b) = IF Len(t) < n THEN Len(t) ELSE n
      /\ \A k \in 1..Len(b) : b[k] = t[k]
  BY ShortenFact
<1> HIDE DEF a, b
<1>4. Len(a) <= Len(b) /\ Len(a) <= Len(t) /\ Len(a) <= Len(s) /\ Len(a) \in Nat /\ Len(b) \in Nat
  BY <1>1, <1>2, <1>3
<1>5. \A k \in 1..Len(a) : k \in 1..Len(b) /\ k \in 1..Len(s)
  BY <1>1, <1>4
<1>6. \A k \in 1..Len(a) : t[k] = a[k] /\ b[k] = a[k]
  BY <1>2, <1>3, <1>5 DEF Begins
<1>7. ASSUME Len(s) >= n PROVE a = b
  <2>1. Len(a) = Len(b)
    BY <1>1, <1>2, <1>3, <1>7
  <2> QED BY <1>2, <1>3, <1>6, <2>1, SeqEqual
<1>8. ASSUME Len(s) <= n PROVE a = s
  <2>1. Len(a) = Len(s)
    BY <1>1, <1>2, <1>8
  <2> QED BY <1>2, <2>1, SeqEqual
<1> QED BY <1>4, <1>6, <1>7, <1>8 DEF Begins, a, b

LEMMA LengthFact ==
    ASSUME NEW n \in Nat, NEW f, f = [k \in 1..n |-> f[k]]
    PROVE  Len(f) = n
<1> DEFINE R == {f[k] : k \in 1..n}
<1>1. \A k \in 1..n : f[k] \in R
  OBVIOUS
<1> HIDE DEF R
<1>2. f \in [1..n -> R]
  BY <1>1
<1> QED BY <1>2

\* What a filter has let through after n items.
Taken(c, P, n) == [k \in 1..Len(Ascending(P, n)) |-> c[Ascending(P, n)[k]]]

LEMMA TakenFact ==
    ASSUME NEW S, NEW c, NEW P, NEW n \in Nat, \A i \in 1..n : c[i] \in S
    PROVE  /\ Taken(c, P, n) \in Seq(S)
           /\ Len(Taken(c, P, n)) = Len(Ascending(P, n))
           /\ Len(Taken(c, P, n)) \in 0..n
           /\ \A k \in 1..Len(Taken(c, P, n)) : Taken(c, P, n)[k] = c[Ascending(P, n)[k]]
<1> DEFINE a == Ascending(P, n)
           t == Taken(c, P, n)
<1>1. /\ Len(a) \in 0..n
      /\ \A k \in 1..Len(a) : a[k] \in 1..n
  BY AscendingFact DEF Climbing
<1>2. t = [k \in 1..Len(a) |-> c[a[k]]]
  BY DEF Taken
<1> HIDE DEF a, t
<1>3. t \in [1..Len(a) -> S] /\ Len(a) \in Nat
  BY <1>1, <1>2
<1>4. t \in Seq(S) /\ Len(t) = Len(a)
  BY <1>3
<1>5. \A k \in 1..Len(a) : t[k] = c[a[k]]
  BY <1>2
<1> QED BY <1>1, <1>4, <1>5 DEF a, t

LEMMA AtFact ==
    ASSUME NEW S, NEW c \in Seq(S), NEW P
    PROVE  At(c, P) = Taken(c, P, Len(c))
<1>1. Len(c) \in Nat
  BY LenProperties
<1>2. Ascending(P, Len(c)) \in Seq(Nat)
  BY <1>1, AscendingStep
<1>3. DOMAIN Ascending(P, Len(c)) = 1..Len(Ascending(P, Len(c)))
  BY <1>2, LenProperties
<1> QED BY <1>3 DEF At, Taken

LEMMA TakenBegins ==
    ASSUME NEW S, NEW c, NEW P, NEW m \in Nat, NEW n \in Nat, m <= n, \A i \in 1..n : c[i] \in S
    PROVE  Begins(Taken(c, P, m), Taken(c, P, n))
<1> DEFINE a == Ascending(P, m)
           b == Ascending(P, n)
           t == Taken(c, P, m)
           u == Taken(c, P, n)
<1>1. Len(a) <= Len(b) /\ \A k \in 1..Len(a) : b[k] = a[k]
  BY AscendingPrefix
<1>2. Len(a) \in Nat /\ Len(b) \in Nat
  BY AscendingFact DEF Climbing
<1>3. t = [k \in 1..Len(a) |-> c[a[k]]] /\ u = [k \in 1..Len(b) |-> c[b[k]]]
  BY DEF Taken
<1>4. Len(t) = Len(a) /\ Len(u) = Len(b)
  <2> HIDE DEF a, b, t, u
  <2>1. t = [k \in 1..Len(a) |-> t[k]] /\ u = [k \in 1..Len(b) |-> u[k]]
    BY <1>3
  <2> QED BY <1>2, <2>1, LengthFact
<1> HIDE DEF a, b, t, u
<1>5. \A k \in 1..Len(a) : k \in 1..Len(b)
  BY <1>1, <1>2
<1>6. \A k \in 1..Len(a) : t[k] = u[k]
  BY <1>1, <1>3, <1>5
<1> QED BY <1>1, <1>4, <1>6 DEF Begins, t, u

\* The places at which an item occurs for the first time.
Firsts(c) == {i \in DOMAIN c : \A j \in 1..i - 1 : c[j] # c[i]}

LEMMA FirstFact ==
    ASSUME NEW S, NEW c \in Seq(S), NEW i \in 1..Len(c)
    PROVE  \E j \in 1..i : j \in Firsts(c) /\ c[j] = c[i]
<1> DEFINE T == {j \in 1..i : c[j] = c[i]}
<1>1. Len(c) \in Nat /\ DOMAIN c = 1..Len(c)
  BY LenProperties
<1>2. T \subseteq Nat /\ i \in T
  BY <1>1
<1>3. PICK j \in T : \A k \in T : j <= k
  BY <1>2, LeastNumber
<1>4. \A k \in 1..j - 1 : c[k] # c[j]
  <2> SUFFICES ASSUME NEW k \in 1..j - 1, c[k] = c[j] PROVE FALSE
    OBVIOUS
  <2>1. k \in T
    BY <1>1, <1>3
  <2>2. j <= k
    BY <1>3, <2>1
  <2> QED BY <1>1, <2>2
<1> QED BY <1>1, <1>3, <1>4 DEF Firsts

\* Without its repetitions a list has the same items, each once.
LEMMA DistinctFact ==
    ASSUME NEW S, NEW c \in Seq(S)
    PROVE  /\ Distinct(c) \in Seq(S) /\ Distinct(c) = Taken(c, Firsts(c), Len(c))
           /\ Len(Distinct(c)) \in 0..Len(c)
           /\ \A k, l \in 1..Len(Distinct(c)) : Distinct(c)[k] = Distinct(c)[l] => k = l
           /\ \A k \in 1..Len(Distinct(c)) : \E i \in 1..Len(c) : Distinct(c)[k] = c[i]
           /\ \A i \in 1..Len(c) : \E k \in 1..Len(Distinct(c)) : Distinct(c)[k] = c[i]
<1> DEFINE P == Firsts(c)
           n == Len(c)
           a == Ascending(P, n)
           d == Distinct(c)
<1>1. n \in Nat /\ DOMAIN c = 1..n /\ \A i \in 1..n : c[i] \in S
  BY LenProperties, ElementOfSeq
<1>2. d = Taken(c, P, n)
  BY AtFact DEF Distinct, Firsts
<1>3. Climbing(a, P, n)
  BY <1>1, AscendingFact
<1>4. /\ d \in Seq(S) /\ Len(d) = Len(a) /\ Len(d) \in 0..n
      /\ \A k \in 1..Len(d) : d[k] = c[a[k]]
  <2> HIDE DEF n, P, d
  <2> QED BY <1>1, <1>2, TakenFact DEF n
<1> HIDE DEF P, n, a, d
<1>5. \A k \in 1..Len(d) : a[k] \in P /\ a[k] \in 1..n
  BY <1>3, <1>4 DEF Climbing
<1>6. ASSUME NEW k \in 1..Len(d), NEW l \in 1..Len(d), k < l PROVE d[k] # d[l]
  <2>1. a[k] < a[l]
    BY <1>3, <1>4, <1>6 DEF Climbing
  <2>2. a[k] \in 1..a[l] - 1
    BY <1>1, <1>5, <2>1
  <2>3. c[a[k]] # c[a[l]]
    BY <1>5, <2>2 DEF P, Firsts
  <2> QED BY <1>4, <2>3
<1>7. \A k, l \in 1..Len(d) : d[k] = d[l] => k = l
  <2> SUFFICES ASSUME NEW k \in 1..Len(d), NEW l \in 1..Len(d), d[k] = d[l], k # l PROVE FALSE
    OBVIOUS
  <2>1. k < l \/ l < k
    BY <1>4
  <2> QED BY <1>6, <2>1
<1>8. ASSUME NEW i \in 1..n PROVE \E k \in 1..Len(d) : d[k] = c[i]
  <2>1. PICK j \in 1..i : j \in P /\ c[j] = c[i]
    BY FirstFact DEF P, n
  <2>2. j \in 1..n
    BY <1>1, <1>8
  <2>3. PICK k \in 1..Len(a) : a[k] = j
    BY <1>3, <2>1, <2>2 DEF Climbing
  <2> QED BY <1>4, <2>1, <2>3
<1>9. \A k \in 1..Len(d) : \E i \in 1..n : d[k] = c[i]
  BY <1>4, <1>5
<1> QED BY <1>2, <1>4, <1>7, <1>8, <1>9 DEF P, n, d

\* The items of a beginning of a list that are new in it are new in the list.
LEMMA FirstsBegin ==
    ASSUME NEW S, NEW c \in Seq(S), NEW b \in Seq(S), Begins(b, c)
    PROVE  Distinct(b) = Taken(c, Firsts(c), Len(b))
<1> DEFINE n == Len(b)
<1>1. /\ n \in Nat /\ Len(c) \in Nat /\ n <= Len(c)
      /\ DOMAIN b = 1..n /\ DOMAIN c = 1..Len(c)
      /\ \A i \in 1..n : b[i] = c[i]
  BY LenProperties DEF Begins
<1>2. \A i \in 1..Len(c) : c[i] \in S
  BY ElementOfSeq
<1>3. \A i \in 1..n : i \in Firsts(b) <=> i \in Firsts(c)
  <2> SUFFICES ASSUME NEW i \in 1..n PROVE i \in Firsts(b) <=> i \in Firsts(c)
    OBVIOUS
  <2>1. i \in DOMAIN b /\ i \in DOMAIN c /\ \A j \in 1..i - 1 : j \in 1..n
    BY <1>1
  <2> HIDE DEF n
  <2> QED BY <1>1, <2>1 DEF Firsts
<1>4. Ascending(Firsts(b), n) = Ascending(Firsts(c), n)
  <2> HIDE DEF n
  <2> QED BY <1>1, <1>3, AscendingSame
<1>5. Taken(b, Firsts(b), n) = Taken(c, Firsts(c), n)
  <2> DEFINE a == Ascending(Firsts(c), n)
  <2>1. \A k \in 1..Len(a) : a[k] \in 1..n
    BY <1>1, AscendingFact DEF Climbing
  <2>2. Taken(b, Firsts(b), n) = [k \in 1..Len(a) |-> b[a[k]]]
    BY <1>4 DEF Taken
  <2>3. Taken(c, Firsts(c), n) = [k \in 1..Len(a) |-> c[a[k]]]
    BY DEF Taken
  <2> HIDE DEF a, n
  <2>4. \A k \in 1..Len(a) : b[a[k]] = c[a[k]]
    BY <1>1, <2>1
  <2> QED BY <2>2, <2>3, <2>4
<1> QED BY <1>5, DistinctFact

\* A beginning of a list without its repetitions is a beginning of the list
\* without its own.
LEMMA DistinctBegins ==
    ASSUME NEW S, NEW c \in Seq(S), NEW b \in Seq(S), Begins(b, c)
    PROVE  Begins(Distinct(b), Distinct(c))
<1> DEFINE n == Len(b)
           m == Len(c)
<1>1. n \in Nat /\ m \in Nat /\ n <= m /\ \A i \in 1..m : c[i] \in S
  BY LenProperties, ElementOfSeq DEF Begins
<1>2. Distinct(b) = Taken(c, Firsts(c), n) /\ Distinct(c) = Taken(c, Firsts(c), m)
  BY FirstsBegin, DistinctFact
<1> HIDE DEF n, m
<1>3. Begins(Taken(c, Firsts(c), n), Taken(c, Firsts(c), m))
  BY <1>1, TakenBegins
<1> QED BY <1>2, <1>3

\* A list without repetitions is left as it is.
LEMMA DistinctSame ==
    ASSUME NEW S, NEW c \in Seq(S), IsDistinct(c)
    PROVE  Distinct(c) = c
<1> DEFINE n == Len(c)
<1>1. n \in Nat /\ DOMAIN c = 1..n
  BY LenProperties
<1>2. 1..n \subseteq Firsts(c)
  <2> SUFFICES ASSUME NEW i \in 1..n, NEW j \in 1..i - 1, c[j] = c[i] PROVE FALSE
    BY <1>1 DEF Firsts
  <2>1. j \in DOMAIN c /\ i \in DOMAIN c /\ j # i
    BY <1>1
  <2> QED BY <2>1 DEF IsDistinct
<1>3. Ascending(Firsts(c), n) = [k \in 1..n |-> k]
  <2> HIDE DEF n
  <2> QED BY <1>1, <1>2, AscendingAll
<1>4. Distinct(c) = Taken(c, Firsts(c), n)
  BY DistinctFact
<1> HIDE DEF n
<1>5. [k \in 1..n |-> k] \in Seq(Nat) /\ Len([k \in 1..n |-> k]) = n
  BY <1>1
<1>6. Taken(c, Firsts(c), n) = [k \in 1..n |-> c[k]]
  <2> DEFINE a == [k \in 1..n |-> k]
  <2>1. Taken(c, Firsts(c), n) = [k \in 1..Len(a) |-> c[a[k]]]
    BY <1>3 DEF Taken
  <2>2. Len(a) = n /\ \A k \in 1..n : a[k] = k
    BY <1>5
  <2> HIDE DEF a
  <2> QED BY <2>1, <2>2
<1>7. c = [k \in 1..n |-> c[k]]
  <2>1. c \in [1..n -> S]
    BY LenProperties DEF n
  <2> QED BY <2>1
<1> QED BY <1>4, <1>6, <1>7

LEMMA IntervalCard ==
    ASSUME NEW n \in Nat
    PROVE  IsFiniteSet(1..n) /\ Cardinality(1..n) = n
<1>1. 1 \in Int /\ n \in Int
  OBVIOUS
<1>2. IsFiniteSet(1..n) /\ Cardinality(1..n) = IF 1 > n THEN 0 ELSE n - 1 + 1
  BY <1>1, FS_Interval
<1> QED BY <1>2

\* There are at least as many items as in any part that repeats none.
LEMMA DistinctLong ==
    ASSUME NEW S, NEW c \in Seq(S), NEW t \in Seq(S), IsDistinct(t)
    PROVE  Len(Distinct(c \o t)) >= Len(t)
<1> DEFINE d == Distinct(c \o t)
<1>1. Len(c) \in Nat /\ Len(t) \in Nat /\ DOMAIN t = 1..Len(t)
  BY LenProperties
<1>2. /\ c \o t \in Seq(S) /\ Len(c \o t) = Len(c) + Len(t)
      /\ \A i \in 1..Len(c) + Len(t) :
            (c \o t)[i] = IF i <= Len(c) THEN c[i] ELSE t[i - Len(c)]
  BY ConcatProperties
<1>3. /\ Len(d) \in 0..(Len(c) + Len(t))
      /\ \A i \in 1..Len(c) + Len(t) : \E k \in 1..Len(d) : d[k] = (c \o t)[i]
  BY <1>2, DistinctFact
<1> HIDE DEF d
<1>4. \A j \in 1..Len(t) : \E k \in 1..Len(d) : d[k] = t[j]
  <2> SUFFICES ASSUME NEW j \in 1..Len(t) PROVE \E k \in 1..Len(d) : d[k] = t[j]
    OBVIOUS
  <2>1. Len(c) + j \in 1..Len(c) + Len(t) /\ ~(Len(c) + j <= Len(c)) /\ Len(c) + j - Len(c) = j
    BY <1>1
  <2>2. (c \o t)[Len(c) + j] = t[j]
    BY <1>2, <2>1
  <2> QED BY <1>3, <2>1, <2>2
<1> DEFINE f == [j \in 1..Len(t) |-> CHOOSE k \in 1..Len(d) : d[k] = t[j]]
<1>5. \A j \in 1..Len(t) : f[j] \in 1..Len(d) /\ d[f[j]] = t[j]
  BY <1>4
<1>6. f \in Injection(1..Len(t), 1..Len(d))
  <2>1. f \in [1..Len(t) -> 1..Len(d)]
    BY <1>5
  <2>2. ASSUME NEW i \in 1..Len(t), NEW j \in 1..Len(t), f[i] = f[j] PROVE i = j
    <3>1. t[i] = t[j]
      BY <1>5, <2>2
    <3> QED BY <1>1, <3>1 DEF IsDistinct
  <2> HIDE DEF f
  <2> QED BY <2>1, <2>2 DEF Injection, IsInjective
<1>7. /\ IsFiniteSet(1..Len(d)) /\ Cardinality(1..Len(d)) = Len(d)
      /\ Cardinality(1..Len(t)) = Len(t)
  <2>1. Len(d) \in Nat
    BY <1>3
  <2> QED BY <1>1, <2>1, IntervalCard
<1>8. Cardinality(1..Len(t)) <= Cardinality(1..Len(d))
  <2> HIDE DEF f
  <2> QED BY <1>6, <1>7, FS_Injection
<1> QED BY <1>7, <1>8 DEF d

-----------------------------------------------------------------------------
(* The loop that pushes what is new                                        *)

Pushed(r, item, limit) == IF Len(r) >= limit \/ Contains(r, item) THEN r ELSE Append(r, item)

\* How PushNew comes about.
Fills(g, old, items, limit) ==
    /\ g[0] = old /\ \A n \in 1..Len(items) : g[n] = Pushed(g[n - 1], items[n], limit)
    /\ PushNew(old, items, limit) = g[Len(items)]

LEMMA PushUnfolds ==
    ASSUME NEW S, NEW old \in Seq(S), NEW items \in Seq(S), NEW limit
    PROVE  \E g \in [0..Len(items) -> Seq(S)] : Fills(g, old, items, limit)
<1> DEFINE N == Len(items)
           Q == Seq(S)
           F == [p \in Q \X (1..N) |-> Pushed(p[1], items[p[2]], limit)]
           Good(g) == g = [n \in 0..N |-> IF n = 0 THEN old
                                          ELSE Pushed(g[n - 1], items[n], limit)]
<1>1. N \in Nat /\ \A n \in 1..N : items[n] \in S
  BY LenProperties, ElementOfSeq
<1>2. ASSUME NEW r \in Q, NEW n \in 1..N PROVE Pushed(r, items[n], limit) \in Q
  BY <1>1, AppendProperties DEF Pushed
<1> HIDE DEF Q, N
<1>3. F \in [Q \X (1..N) -> Q]
  BY <1>2
<1>4. old \in Q
  BY DEF Q
<1>5. PICK g \in [0..N -> Q] : g[0] = old /\ \A n \in 1..N : g[n] = F[<<g[n - 1], n>>]
  <2> HIDE DEF F
  <2>1. \E g \in [0..N -> Q] : Follows(g, old, F, N)
    BY <1>1, <1>3, <1>4, Recursion
  <2> QED BY <2>1 DEF Follows
<1>6. ASSUME NEW h \in [0..N -> Q], NEW n \in 1..N
      PROVE  F[<<h[n - 1], n>>] = Pushed(h[n - 1], items[n], limit)
  <2>1. n - 1 \in 0..N
    BY <1>1
  <2>2. <<h[n - 1], n>> \in Q \X (1..N)
    BY <2>1
  <2> QED BY <2>2
<1>7. \A n \in 0..N : n = 0 \/ n \in 1..N
  BY <1>1
<1>8. Good(g)
  <2> HIDE DEF F
  <2>1. g = [n \in 0..N |-> g[n]]
    OBVIOUS
  <2>2. \A n \in 0..N : g[n] = IF n = 0 THEN old ELSE Pushed(g[n - 1], items[n], limit)
    BY <1>5, <1>6, <1>7
  <2> QED BY <2>1, <2>2
<1>9. PushNew(old, items, limit) = (CHOOSE h : Good(h))[N]
  BY DEF PushNew, Pushed, N
<1> DEFINE c == CHOOSE h : Good(h)
<1>10. Good(c)
  <2> HIDE DEF Good
  <2> QED BY <1>8
<1>11. /\ PushNew(old, items, limit) = c[N]
       /\ c = [n \in 0..N |-> IF n = 0 THEN old ELSE Pushed(c[n - 1], items[n], limit)]
  <2> HIDE DEF c
  <2> QED BY <1>9, <1>10 DEF c
<1> HIDE DEF c
<1>12. \A n \in 0..N : c[n] = IF n = 0 THEN old ELSE Pushed(c[n - 1], items[n], limit)
  BY <1>11
<1>13. c[0] = old /\ \A n \in 1..N : c[n] = Pushed(c[n - 1], items[n], limit)
  <2>1. 0 \in 0..N /\ \A n \in 1..N : n \in 0..N /\ n # 0
    BY <1>1
  <2> QED BY <1>12, <2>1
<1>14. \A n \in 0..N : c[n] \in Q
  <2> DEFINE V == {n \in 0..N : c[n] \in Q}
  <2>1. 0 \in V
    BY <1>1, <1>4, <1>13
  <2>2. ASSUME NEW n \in 1..N, n - 1 \in V PROVE n \in V
    <3>1. n \in 0..N
      BY <1>1
    <3> QED BY <1>2, <1>13, <2>2, <3>1
  <2>3. \A n \in 0..N : n \in V
    <3> HIDE DEF V
    <3> QED BY <1>1, <2>1, <2>2, UptoInduction
  <2> QED BY <2>3
<1>15. c \in [0..N -> Q]
  BY <1>11, <1>14
<1> QED BY <1>11, <1>13, <1>15 DEF Q, N, Fills

LEMMA TakenStep ==
    ASSUME NEW c, NEW P, NEW n \in Nat, n # 0
    PROVE  /\ n \in P => Taken(c, P, n) = Append(Taken(c, P, n - 1), c[n])
           /\ n \notin P => Taken(c, P, n) = Taken(c, P, n - 1)
<1> DEFINE S == {c[i] : i \in 1..n}
           a == Ascending(P, n - 1)
           b == Ascending(P, n)
           t == Taken(c, P, n - 1)
           u == Taken(c, P, n)
<1>1. /\ n - 1 \in Nat /\ n \in Nat /\ n \in 1..n
      /\ \A i \in 1..n : c[i] \in S
      /\ \A i \in 1..n - 1 : c[i] \in S
  OBVIOUS
<1> HIDE DEF S
<1>2. b = IF n \in P THEN Append(a, n) ELSE a
  BY AscendingStep
<1>3. t = [k \in 1..Len(a) |-> c[a[k]]] /\ u = [k \in 1..Len(b) |-> c[b[k]]]
  BY DEF Taken
<1>4. a \in Seq(Nat) /\ Len(a) \in Nat
  <2>1. a \in Seq(Nat)
    BY <1>1, AscendingStep
  <2> QED BY <2>1, LenProperties
<1>5. t \in Seq(S)
  BY <1>1, TakenFact
<1>6. u \in Seq(S)
  BY <1>1, TakenFact
<1> HIDE DEF a, b, t, u
<1>7. Len(t) = Len(a)
  <2>1. t = [k \in 1..Len(a) |-> t[k]]
    BY <1>3
  <2> QED BY <1>4, <2>1, LengthFact
<1>8. CASE n \in P
  <2>1. b = Append(a, n)
    BY <1>2, <1>8
  <2>2. Len(b) = Len(a) + 1 /\ b[Len(a) + 1] = n /\ \A k \in 1..Len(a) : b[k] = a[k]
    BY <1>1, <1>4, <2>1, AppendProperties
  <2>3. /\ Append(t, c[n]) \in Seq(S) /\ Len(Append(t, c[n])) = Len(a) + 1
        /\ Append(t, c[n])[Len(a) + 1] = c[n]
        /\ \A k \in 1..Len(a) : Append(t, c[n])[k] = t[k]
    BY <1>1, <1>5, <1>7, AppendProperties
  <2>4. Len(u) = Len(a) + 1
    <3>1. u = [k \in 1..Len(b) |-> u[k]]
      BY <1>3
    <3>2. Len(b) \in Nat
      BY <1>4, <2>2
    <3> QED BY <2>2, <3>1, <3>2, LengthFact
  <2>5. \A k \in 1..Len(a) + 1 : u[k] = Append(t, c[n])[k]
    <3>1. \A k \in 1..Len(a) + 1 : k = Len(a) + 1 \/ k \in 1..Len(a)
      BY <1>4
    <3> QED BY <1>3, <2>2, <2>3, <3>1
  <2>6. u = Append(t, c[n])
    BY <1>6, <2>3, <2>4, <2>5, SeqEqual
  <2> QED BY <1>8, <2>6 DEF t, u
<1>9. CASE n \notin P
  BY <1>2, <1>3, <1>9 DEF t, u
<1> QED BY <1>8, <1>9

\* The first occurrences up to m are the items up to m.
LEMMA TakenItems ==
    ASSUME NEW S, NEW c \in Seq(S), NEW m \in 0..Len(c)
    PROVE  /\ \A k \in 1..Len(Taken(c, Firsts(c), m)) :
                 \E j \in 1..m : Taken(c, Firsts(c), m)[k] = c[j]
           /\ \A j \in 1..m : \E k \in 1..Len(Taken(c, Firsts(c), m)) :
                 Taken(c, Firsts(c), m)[k] = c[j]
<1> DEFINE P == Firsts(c)
           a == Ascending(P, m)
           t == Taken(c, P, m)
<1>1. m \in Nat /\ Len(c) \in Nat /\ \A j \in 1..m : j \in 1..Len(c) /\ c[j] \in S
  BY LenProperties, ElementOfSeq
<1>2. Climbing(a, P, m)
  BY <1>1, AscendingFact
<1>3. Len(t) = Len(a) /\ \A k \in 1..Len(t) : t[k] = c[a[k]]
  <2> HIDE DEF P
  <2> QED BY <1>1, TakenFact
<1> HIDE DEF P, a, t
<1>4. \A k \in 1..Len(t) : a[k] \in 1..m /\ t[k] = c[a[k]]
  BY <1>2, <1>3 DEF Climbing
<1>5. ASSUME NEW j \in 1..m PROVE \E k \in 1..Len(t) : t[k] = c[j]
  <2>1. PICK i \in 1..j : i \in P /\ c[i] = c[j]
    BY <1>1, FirstFact DEF P
  <2>2. i \in 1..m
    BY <1>1, <2>1
  <2>3. PICK k \in 1..Len(a) : a[k] = i
    BY <1>2, <2>1, <2>2 DEF Climbing
  <2> QED BY <1>3, <2>1, <2>3
<1> QED BY <1>4, <1>5 DEF t, P

\* It pushes, up to the limit, what is left without the repetitions.
LEMMA PushFact ==
    ASSUME NEW S, NEW old \in Seq(S), NEW items \in Seq(S), NEW limit \in Nat,
           IsDistinct(old), Len(old) <= limit
    PROVE  PushNew(old, items, limit) = Shorten(Distinct(old \o items), limit)
<1> DEFINE c == old \o items
           P == Firsts(c)
           A == Len(old)
           N == Len(items)
           T(n) == Taken(c, P, n)
<1>1. /\ A \in Nat /\ N \in Nat /\ A <= limit
      /\ \A n \in 1..N : items[n] \in S
  BY LenProperties, ElementOfSeq
<1>2. /\ c \in Seq(S) /\ Len(c) = A + N
      /\ \A k \in 1..A : c[k] = old[k]
      /\ \A n \in 1..N : c[A + n] = items[n]
  <2>1. /\ c \in Seq(S) /\ Len(c) = A + N
        /\ \A i \in 1..A + N : c[i] = IF i <= A THEN old[i] ELSE items[i - A]
    BY ConcatProperties
  <2> HIDE DEF c, A, N
  <2>2. \A k \in 1..A : k \in 1..A + N /\ k <= A
    BY <1>1
  <2>3. \A n \in 1..N : A + n \in 1..A + N /\ ~(A + n <= A) /\ A + n - A = n
    BY <1>1
  <2>4. \A k \in 1..A : c[k] = old[k]
    BY <2>1, <2>2
  <2>5. \A n \in 1..N : c[A + n] = items[n]
    <3> SUFFICES ASSUME NEW n \in 1..N PROVE c[A + n] = items[n]
      OBVIOUS
    <3> DEFINE x == A + n
    <3>1. x \in 1..A + N /\ ~(x <= A) /\ x - A = n
      BY <1>1
    <3> HIDE DEF x
    <3>2. c[x] = items[x - A]
      BY <2>1, <3>1
    <3> QED BY <3>1, <3>2 DEF x
  <2> QED BY <2>1, <2>4, <2>5
<1>3. \A i \in 1..Len(c) : c[i] \in S
  BY <1>2, ElementOfSeq
<1>4. PICK g \in [0..N -> Seq(S)] :
         /\ g[0] = old /\ \A n \in 1..N : g[n] = Pushed(g[n - 1], items[n], limit)
         /\ PushNew(old, items, limit) = g[N]
  <2>1. \E g \in [0..N -> Seq(S)] : Fills(g, old, items, limit)
    BY PushUnfolds
  <2> HIDE DEF N
  <2> QED BY <2>1 DEF Fills, N
<1>5. T(A) = old
  <2>1. Begins(old, c)
    <3> HIDE DEF c
    <3> QED BY <1>1, <1>2 DEF Begins
  <2>2. Distinct(old) = T(A)
    <3> HIDE DEF c
    <3> QED BY <1>2, <2>1, FirstsBegin
  <2> QED BY <2>2, DistinctSame
<1>6. Distinct(c) = T(A + N)
  <2> HIDE DEF c, A, N
  <2> QED BY <1>2, DistinctFact
<1> HIDE DEF c, P, A, N
<1>7. ASSUME NEW n \in 0..A + N
      PROVE  T(n) \in Seq(S) /\ Len(T(n)) \in Nat
  <2>1. n \in Nat /\ \A i \in 1..n : c[i] \in S
    BY <1>1, <1>2, <1>3
  <2>2. T(n) \in Seq(S)
    BY <2>1, TakenFact
  <2> QED BY <2>2, LenProperties
<1> DEFINE V == {n \in 0..N : g[n] = Shorten(T(A + n), limit)}
<1>8. 0 \in V
  <2>1. Shorten(old, limit) = old
    <3>1. Begins(old, old)
      BY <1>1 DEF A, Begins
    <3> QED BY <1>1, <3>1, ShortenBegins DEF A
  <2>2. T(A + 0) = old /\ 0 \in 0..N
    BY <1>1, <1>5
  <2> QED BY <1>4, <2>1, <2>2
<1>9. ASSUME NEW n \in 1..N, n - 1 \in V PROVE n \in V
  <2> DEFINE i == A + n
             t == T(i - 1)
             u == T(i)
             r == g[n - 1]
  <2>1. /\ n \in 0..N /\ A + (n - 1) = i - 1 /\ i \in Nat \ {0}
        /\ i \in 0..A + N /\ i - 1 \in 0..A + N /\ i - 1 \in 0..Len(c) /\ i \in 1..Len(c)
        /\ i - 1 \in Nat
    BY <1>1, <1>2
  <2>2. r = Shorten(t, limit)
    BY <1>9, <2>1
  <2>3. g[n] = Pushed(r, c[i], limit)
    BY <1>2, <1>4
  <2>4. u = IF i \in P THEN Append(t, c[i]) ELSE t
    <3>1. i \in Nat /\ i # 0
      BY <2>1
    <3> HIDE DEF i, T
    <3>2. /\ i \in P => Taken(c, P, i) = Append(Taken(c, P, i - 1), c[i])
          /\ i \notin P => Taken(c, P, i) = Taken(c, P, i - 1)
      BY <3>1, TakenStep
    <3> QED BY <3>2 DEF T
  <2>5. t \in Seq(S) /\ Len(t) \in Nat /\ u \in Seq(S) /\ Len(u) \in Nat
    BY <1>7, <2>1
  <2>6. Begins(t, u)
    <3>1. \A j \in 1..i : c[j] \in S
      BY <1>3, <2>1
    <3>2. i - 1 <= i /\ i \in Nat
      BY <2>1
    <3> HIDE DEF i
    <3> QED BY <2>1, <3>1, <3>2, TakenBegins
  <2>7. i \in P <=> ~ \E k \in 1..Len(t) : t[k] = c[i]
    <3>1. i \in P <=> ~ \E j \in 1..i - 1 : c[j] = c[i]
      <4>1. DOMAIN c = 1..Len(c)
        BY <1>2, LenProperties
      <4> HIDE DEF i
      <4> QED BY <2>1, <4>1 DEF P, Firsts
    <3>2. /\ \A k \in 1..Len(t) : \E j \in 1..i - 1 : t[k] = c[j]
          /\ \A j \in 1..i - 1 : \E k \in 1..Len(t) : t[k] = c[j]
      <4> HIDE DEF i
      <4> QED BY <1>2, <2>1, TakenItems DEF P
    <3> HIDE DEF i, t
    <3> QED BY <3>1, <3>2
  <2> HIDE DEF i, t, u, r, T
  <2>8. CASE Len(t) >= limit
    <3>1. Len(r) >= limit
      BY <2>2, <2>5, <2>8, ShortenFact
    <3>2. g[n] = r
      BY <2>3, <3>1 DEF Pushed
    <3>3. Shorten(t, limit) = Shorten(u, limit)
      BY <2>5, <2>6, <2>8, ShortenBegins
    <3> QED BY <2>1, <2>2, <3>2, <3>3 DEF u, i
  <2>9. CASE Len(t) < limit
    <3>1. r = t
      <4>1. Len(t) <= limit
        BY <2>5, <2>9
      <4> QED BY <2>2, <2>5, <2>6, <4>1, ShortenBegins
    <3>2. Contains(r, c[i]) <=> i \notin P
      BY <2>7, <3>1 DEF Contains
    <3>3. g[n] = u
      <4>1. ~(Len(r) >= limit)
        BY <2>5, <2>9, <3>1
      <4> QED BY <2>3, <2>4, <3>1, <3>2, <4>1 DEF Pushed
    <3>4. Len(u) <= limit
      <4>1. CASE i \in P
        <5>1. c[i] \in S
          BY <1>3, <2>1
        <5>2. Len(u) = Len(t) + 1
          BY <2>4, <2>5, <4>1, <5>1, AppendProperties
        <5> QED BY <2>5, <2>9, <5>2
      <4>2. CASE i \notin P
        BY <2>4, <2>5, <2>9, <4>2
      <4> QED BY <4>1, <4>2
    <3>5. Shorten(u, limit) = u
      <4>1. Begins(u, u)
        BY <2>5 DEF Begins
      <4> QED BY <2>5, <3>4, <4>1, ShortenBegins
    <3> QED BY <2>1, <3>3, <3>5 DEF u, i
  <2> QED BY <2>5, <2>8, <2>9
<1>10. \A n \in 0..N : n \in V
  <2> HIDE DEF V
  <2> QED BY <1>1, <1>8, <1>9, UptoInduction
<1>11. g[N] = Shorten(T(A + N), limit)
  BY <1>1, <1>10
<1> QED BY <1>4, <1>6, <1>11 DEF c, N

\* Two such loops, one after the other, are one over both lists.
LEMMA PushBoth ==
    ASSUME NEW S, NEW old \in Seq(S), NEW a \in Seq(S), NEW b \in Seq(S),
           NEW limit \in Nat
    PROVE  PushNew(PushNew(old, a, limit), b, limit) = PushNew(old, a \o b, limit)
<1> DEFINE c == a \o b
           A == Len(a)
           B == Len(b)
           mid == PushNew(old, a, limit)
<1>1. A \in Nat /\ B \in Nat
  BY LenProperties
<1>2. /\ c \in Seq(S) /\ Len(c) = A + B
      /\ \A k \in 1..A : c[k] = a[k]
      /\ \A n \in 1..B : c[A + n] = b[n]
  <2>1. /\ c \in Seq(S) /\ Len(c) = A + B
        /\ \A i \in 1..A + B : c[i] = IF i <= A THEN a[i] ELSE b[i - A]
    BY ConcatProperties
  <2> HIDE DEF c, A, B
  <2>2. \A k \in 1..A : k \in 1..A + B /\ k <= A
    BY <1>1
  <2>3. \A k \in 1..A : c[k] = a[k]
    BY <2>1, <2>2
  <2>4. ASSUME NEW n \in 1..B PROVE c[A + n] = b[n]
    <3> DEFINE x == A + n
    <3>1. x \in 1..A + B /\ ~(x <= A) /\ x - A = n
      BY <1>1
    <3> HIDE DEF x
    <3>2. c[x] = b[x - A]
      BY <2>1, <3>1
    <3> QED BY <3>1, <3>2 DEF x
  <2> QED BY <2>1, <2>3, <2>4
<1>3. PICK f \in [0..A -> Seq(S)] : Fills(f, old, a, limit)
  BY PushUnfolds
<1>4. PICK g \in [0..Len(c) -> Seq(S)] : Fills(g, old, c, limit)
  <2> HIDE DEF c
  <2> QED BY <1>2, PushUnfolds
<1>5. mid \in Seq(S)
  <2>1. mid = f[A] /\ A \in 0..A
    BY <1>1, <1>3 DEF Fills
  <2> QED BY <2>1
<1>6. PICK h \in [0..B -> Seq(S)] : Fills(h, mid, b, limit)
  <2> HIDE DEF mid
  <2> QED BY <1>5, PushUnfolds
<1> HIDE DEF c, A, B, mid
<1>7. /\ f[0] = old /\ mid = f[A]
      /\ \A n \in 1..A : f[n] = Pushed(f[n - 1], a[n], limit)
  BY <1>3 DEF Fills, A, mid
<1>8. /\ g[0] = old /\ PushNew(old, c, limit) = g[A + B]
      /\ \A n \in 1..A + B : g[n] = Pushed(g[n - 1], c[n], limit)
  BY <1>2, <1>4 DEF Fills
<1>9. /\ h[0] = mid /\ PushNew(mid, b, limit) = h[B]
      /\ \A n \in 1..B : h[n] = Pushed(h[n - 1], b[n], limit)
  BY <1>6 DEF Fills, B
<1> DEFINE V == {n \in 0..A : g[n] = f[n]}
           W == {n \in 0..B : g[A + n] = h[n]}
<1>10. g[A] = mid
  <2>1. 0 \in V
    BY <1>1, <1>7, <1>8
  <2>2. ASSUME NEW n \in 1..A, n - 1 \in V PROVE n \in V
    <3>1. n \in 1..A + B /\ n \in 0..A /\ g[n - 1] = f[n - 1]
      BY <1>1, <2>2
    <3> QED BY <1>2, <1>7, <1>8, <3>1
  <2>3. \A n \in 0..A : n \in V
    <3> HIDE DEF V
    <3> QED BY <1>1, <2>1, <2>2, UptoInduction
  <2> QED BY <1>1, <1>7, <2>3
<1>11. g[A + B] = h[B]
  <2>1. 0 \in W
    BY <1>1, <1>9, <1>10
  <2>2. ASSUME NEW n \in 1..B, n - 1 \in W PROVE n \in W
    <3> DEFINE x == A + n
    <3>1. x \in 1..A + B /\ n \in 0..B /\ x - 1 = A + (n - 1)
      BY <1>1
    <3>2. g[x - 1] = h[n - 1] /\ c[x] = b[n]
      BY <1>2, <2>2, <3>1
    <3> HIDE DEF x
    <3>3. g[x] = Pushed(g[x - 1], c[x], limit)
      BY <1>8, <3>1
    <3>4. g[x] = h[n]
      BY <1>9, <3>2, <3>3
    <3> QED BY <3>1, <3>4 DEF x
  <2>3. \A n \in 0..B : n \in W
    <3> HIDE DEF W
    <3> QED BY <1>1, <2>1, <2>2, UptoInduction
  <2> QED BY <1>1, <2>3
<1> QED BY <1>8, <1>9, <1>11 DEF c, mid

\* The loop that starts with nothing.
LEMMA PushFromNothing ==
    ASSUME NEW S, NEW items \in Seq(S), NEW limit \in Nat
    PROVE  PushNew(<<>>, items, limit) = Shorten(Distinct(items), limit)
<1> DEFINE nothing == <<>>
<1>1. /\ nothing \in Seq(S) /\ IsDistinct(nothing) /\ Len(nothing) <= limit
      /\ nothing \o items = items
  BY ConcatEmptySeq DEF IsDistinct
<1> HIDE DEF nothing
<1>2. PushNew(nothing, items, limit) = Shorten(Distinct(nothing \o items), limit)
  BY <1>1, PushFact
<1> QED BY <1>1, <1>2 DEF nothing

-----------------------------------------------------------------------------
(* InputBuilder                                                            *)

LEMMA UpToLenFact ==
    ASSUME NEW S, NEW n \in Nat, NEW s \in UpToLen(S, n)
    PROVE  s \in Seq(S) /\ Len(s) \in 0..n /\ DOMAIN s = 1..Len(s)
<1>1. PICK k \in 0..n : s \in [1..k -> S]
  BY DEF UpToLen
<1>2. s \in Seq(S) /\ Len(s) = k
  BY <1>1
<1> QED BY <1>1, <1>2

LEMMA TableFact ==
    ASSUME NEW t \in Tables
    PROVE  /\ TableOf(t) \in Seq({TableOf(t)[i] : i \in Rows})
           /\ Len(TableOf(t)) = MaxRows /\ DOMAIN TableOf(t) = Rows
           /\ \A i \in Rows : /\ TableOf(t)[i].id = i
                              /\ t[i] = "hit" => TableOf(t)[i] = MineRow(i)
                              /\ t[i] # "hit" => \/ TableOf(t)[i].words = {"go"}
                                                 \/ TableOf(t)[i].owner_id = "u2"
<1> DEFINE T == TableOf(t)
           S == {T[i] : i \in Rows}
<1>1. T = [i \in Rows |-> T[i]]
  BY DEF TableOf
<1>2. \A i \in Rows : T[i] \in S
  OBVIOUS
<1>3. \A i \in Rows : t[i] \in {"hit", "miss", "other"}
  BY DEF Tables
<1>4. \A i \in Rows : T[i] = Row(t[i], i)
  BY DEF TableOf
<1>5. ASSUME NEW i \in Rows
      PROVE  /\ T[i].id = i
             /\ t[i] = "hit" => T[i] = MineRow(i)
             /\ t[i] # "hit" => T[i].words = {"go"} \/ T[i].owner_id = "u2"
  <2>1. CASE t[i] = "hit"
    <3>1. T[i] = MineRow(i)
      BY <1>4, <2>1 DEF Row
    <3>2. MineRow(i).id = i
      BY DEF MineRow
    <3> QED BY <2>1, <3>1, <3>2
  <2>2. CASE t[i] = "miss"
    BY <1>4, <2>2 DEF MineRow, Row
  <2>3. CASE t[i] = "other"
    BY <1>4, <2>3 DEF MineRow, Row
  <2> QED BY <1>3, <2>1, <2>2, <2>3
<1> HIDE DEF T, S
<1>6. T \in [1..MaxRows -> S] /\ MaxRows \in Nat
  BY <1>1, <1>2, ListsAssumption DEF Rows
<1>7. T \in Seq(S) /\ Len(T) = MaxRows /\ DOMAIN T = Rows
  BY <1>6 DEF Rows
<1> QED BY <1>5, <1>7 DEF T, S

\* What the search fetches.
IdsOf(hits) == [i \in DOMAIN hits |-> hits[i].id]

LEMMA HitsFact ==
    ASSUME NEW r \in InputInputs, NEW k \in Int
    PROVE  IdsOf(search_raws(TableOf(r.table), {"rust"}, "personal", "u1", k))
           = Shorten(Fillers(r), ClampTo(k, 1, SearchLimitMax))
<1> DEFINE t == r.table
           hits == search_raws(TableOf(t), {"rust"}, "personal", "u1", k)
           T == TableOf(t)
           S == {T[i] : i \in Rows}
           P == {i \in Rows : t[i] = "hit"}
           Q == {i \in DOMAIN T : /\ fts5_match({"rust"}, T[i])
                                  /\ T[i].scope = "personal" /\ T[i].owner_id = "u1"}
           a == Ascending(P, MaxRows)
           m == ClampTo(k, 1, SearchLimitMax)
           found == At(T, P)
           ids == [i \in DOMAIN hits |-> hits[i].id]
           all == Shorten(a, m)
<1>1. /\ T \in Seq(S) /\ Len(T) = MaxRows /\ DOMAIN T = Rows
      /\ \A i \in Rows : /\ T[i].id = i
                         /\ t[i] = "hit" => T[i] = MineRow(i)
                         /\ t[i] # "hit" => T[i].words = {"go"} \/ T[i].owner_id = "u2"
  <2>1. t \in Tables
    BY DEF InputInputs
  <2> QED BY <2>1, TableFact
<1>2. MaxRows \in Nat /\ SearchLimitMax \in Nat
  BY ListsAssumption, InputAssumption
<1>3. m \in Nat
  BY <1>2, InputAssumption DEF ClampTo
<1>4. Q = P
  <2> SUFFICES ASSUME NEW i \in Rows
               PROVE  t[i] = "hit" <=> /\ fts5_match({"rust"}, T[i])
                                       /\ T[i].scope = "personal" /\ T[i].owner_id = "u1"
    BY <1>1
  <2> HIDE DEF T
  <2>1. CASE t[i] = "hit"
    <3>1. T[i] = MineRow(i)
      BY <1>1, <2>1
    <3>2. /\ MineRow(i).words = {"rust", "go"} /\ MineRow(i).scope = "personal"
          /\ MineRow(i).owner_id = "u1"
      BY DEF MineRow
    <3>3. {"rust"} # {} /\ {"rust"} \subseteq {"rust", "go"}
      OBVIOUS
    <3> QED BY <2>1, <3>1, <3>2, <3>3 DEF fts5_match
  <2>2. CASE t[i] # "hit" /\ T[i].words = {"go"}
    BY <2>2 DEF fts5_match
  <2>3. CASE t[i] # "hit" /\ T[i].owner_id = "u2"
    BY <2>3
  <2> QED BY <1>1, <2>1, <2>2, <2>3
<1>5. hits = Shorten(found, m)
  <2>1. hits = Shorten(At(T, Q), m)
    BY DEF search_raws
  <2> QED BY <1>4, <2>1
<1>6. /\ a \in Seq(Nat) /\ Len(a) \in Nat
      /\ \A j \in 1..Len(a) : a[j] \in Rows
  <2>1. Climbing(a, P, MaxRows)
    BY <1>2, AscendingFact
  <2> HIDE DEF a
  <2> QED BY <1>2, <2>1 DEF Climbing, Rows
<1>7. found = Taken(T, P, MaxRows)
  <2> HIDE DEF T, S, P
  <2> QED BY <1>1, AtFact
<1>8. found = [j \in 1..Len(a) |-> T[a[j]]]
  BY <1>7 DEF Taken
<1> HIDE DEF T, S, P, Q, a, m, found, hits
<1>9. found \in Seq(S) /\ Len(found) = Len(a)
  <2>1. \A j \in 1..Len(a) : T[a[j]] \in S
    BY <1>6 DEF S
  <2>2. found \in [1..Len(a) -> S]
    BY <1>8, <2>1
  <2> QED BY <1>6, <2>2
<1>10. /\ hits \in Seq(S) /\ Len(hits) = (IF Len(a) < m THEN Len(a) ELSE m)
       /\ \A j \in 1..Len(hits) : hits[j] = found[j]
  <2>1. LET s == Shorten(found, m)
        IN  /\ s \in Seq(S) /\ Len(s) = (IF Len(found) < m THEN Len(found) ELSE m)
            /\ \A j \in 1..Len(s) : s[j] = found[j]
    BY <1>3, <1>9, ShortenFact
  <2> QED BY <1>5, <1>9, <2>1
<1>11. /\ all \in Seq(Nat) /\ Len(all) = (IF Len(a) < m THEN Len(a) ELSE m)
       /\ \A j \in 1..Len(all) : all[j] = a[j]
  BY <1>3, <1>6, ShortenFact
<1>12. DOMAIN hits = 1..Len(hits) /\ DOMAIN all = 1..Len(all) /\ Len(hits) = Len(all)
  BY <1>10, <1>11, LenProperties
<1>13. \A j \in 1..Len(hits) : hits[j].id = all[j]
  <2> SUFFICES ASSUME NEW j \in 1..Len(hits) PROVE hits[j].id = all[j]
    OBVIOUS
  <2>1. j \in 1..Len(a)
    BY <1>3, <1>6, <1>10
  <2>2. hits[j] = T[a[j]] /\ all[j] = a[j]
    BY <1>8, <1>10, <1>11, <1>12, <2>1
  <2> QED BY <1>1, <1>6, <2>1, <2>2
<1>14. all = [j \in 1..Len(all) |-> all[j]]
  <2> HIDE DEF all
  <2>1. all \in [1..Len(all) -> Nat]
    BY <1>11, LenProperties
  <2> QED BY <2>1
<1>15. ids = [j \in 1..Len(all) |-> all[j]]
  <2> HIDE DEF all
  <2> QED BY <1>12, <1>13
<1> QED BY <1>14, <1>15 DEF a, m, P, T, hits, IdsOf, Fillers

LEMMA GivenFact ==
    ASSUME NEW r \in InputInputs
    PROVE  /\ r.table \in Tables /\ r.refs \in Seq(Nat) /\ r.new_raws \in Seq(Nat)
           /\ \A k \in DOMAIN r.refs : r.refs[k] \in Rows \cup {Deleted}
           /\ \A P : At(r.refs, P) \in Seq(Nat)
           /\ Given(r) \in Seq(Nat)
<1>1. MaxRows \in Nat /\ MaxRefs \in Nat
  BY ListsAssumption
<1>2. Rows \cup {Deleted} \subseteq Nat
  BY <1>1 DEF Rows, Deleted
<1>3. r.table \in Tables /\ r.refs \in UpToLen(Rows \cup {Deleted}, MaxRefs)
  BY DEF InputInputs
<1>4. r.new_raws \in UpToLen(Rows, MaxRefs)
  BY DEF InputInputs, DistinctUpTo
<1>5. r.refs \in Seq(Rows \cup {Deleted}) /\ r.new_raws \in Seq(Rows)
  BY <1>1, <1>3, <1>4, UpToLenFact
<1>6. \A k \in DOMAIN r.refs : r.refs[k] \in Rows \cup {Deleted}
  <2>1. DOMAIN r.refs = 1..Len(r.refs)
    BY <1>5, LenProperties
  <2> QED BY <1>5, <2>1, ElementOfSeq
<1>7. r.refs \in Seq(Nat) /\ r.new_raws \in Seq(Nat)
  <2> DEFINE S == Rows \cup {Deleted}
  <2>1. \A q \in Seq(S) : q \in Seq(Nat)
    <3> SUFFICES ASSUME NEW q \in Seq(S) PROVE q \in Seq(Nat)
      OBVIOUS
    <3>1. q \in [1..Len(q) -> S] /\ Len(q) \in Nat
      BY LenProperties
    <3> HIDE DEF S
    <3>2. q \in [1..Len(q) -> Nat]
      BY <1>2, <3>1 DEF S
    <3> QED BY <3>1, <3>2
  <2>2. r.new_raws \in Seq(S)
    <3>1. r.new_raws \in [1..Len(r.new_raws) -> Rows] /\ Len(r.new_raws) \in Nat
      BY <1>5, LenProperties
    <3>2. r.new_raws \in [1..Len(r.new_raws) -> S]
      BY <3>1
    <3> QED BY <3>1, <3>2
  <2> QED BY <1>5, <2>1, <2>2
<1>8. ASSUME NEW P PROVE At(r.refs, P) \in Seq(Nat)
  <2> DEFINE c == r.refs
  <2>1. At(c, P) = Taken(c, P, Len(c))
    BY <1>7, AtFact
  <2>2. Len(c) \in Nat /\ \A i \in 1..Len(c) : c[i] \in Nat
    BY <1>7, LenProperties, ElementOfSeq
  <2>3. Taken(c, P, Len(c)) \in Seq(Nat)
    <3> HIDE DEF c
    <3> QED BY <2>2, TakenFact
  <2> QED BY <2>1, <2>3
<1>9. Given(r) \in Seq(Nat)
  BY <1>7, <1>8, ConcatProperties DEF Given
<1> QED BY <1>3, <1>6, <1>7, <1>8, <1>9

\* The input of a synthesis is what was given, then what the search found,
\* without repetitions and cut.
LEMMA BuildFact ==
    ASSUME NEW r \in InputInputs
    PROVE  LET o == Shorten(Distinct(Given(r)), INPUT_LIMIT)
               H == Shorten(Fillers(r), ClampTo(HitLimit(o), 1, SearchLimitMax))
           IN  build(TableOf(r.table), "personal", "u1", {"rust"}, r.refs, r.new_raws)
               = Shorten(Distinct(Given(r) \o H), INPUT_LIMIT)
<1> DEFINE L == INPUT_LIMIT
           T == TableOf(r.table)
           given == Given(r)
           o == Shorten(Distinct(given), L)
           k == HitLimit(o)
           H == Shorten(Fillers(r), ClampTo(k, 1, SearchLimitMax))
           exist == {j \in DOMAIN r.refs : \E i \in DOMAIN T : T[i].id = r.refs[j]}
           there == {j \in DOMAIN r.refs : r.refs[j] # Deleted}
           refs == PushDistinct(<<>>, At(r.refs, exist))
           two == PushDistinct(refs, r.new_raws)
           hits == search_raws(T, {"rust"}, "personal", "u1", HitLimit(two))
           ids == [i \in DOMAIN hits |-> hits[i].id]
           result == build(T, "personal", "u1", {"rust"}, r.refs, r.new_raws)
<1>1. /\ L \in Nat /\ L \in Nat \ {0} /\ SearchLimitMax \in Nat \ {0} /\ MaxRows \in Nat
  BY InputAssumption, ListsAssumption
<1>2. /\ r.table \in Tables /\ r.refs \in Seq(Nat) /\ r.new_raws \in Seq(Nat)
      /\ given \in Seq(Nat) /\ At(r.refs, there) \in Seq(Nat)
      /\ given = At(r.refs, there) \o r.new_raws
  BY GivenFact DEF Given
<1>3. exist = there
  <2>1. DOMAIN T = 1..MaxRows /\ \A i \in 1..MaxRows : T[i].id = i
    BY <1>2, TableFact DEF Rows
  <2>2. \A j \in DOMAIN r.refs : r.refs[j] \in (1..MaxRows) \cup {MaxRows + 1}
    BY GivenFact DEF Rows, Deleted
  <2> HIDE DEF T
  <2>3. \A j \in DOMAIN r.refs : (\E i \in DOMAIN T : T[i].id = r.refs[j]) <=> r.refs[j] # Deleted
    BY <1>1, <2>1, <2>2 DEF Deleted
  <2> QED BY <2>3
<1>4. result = IF Len(two) >= L THEN two ELSE PushDistinct(two, ids)
  BY DEF build
<1>5. two = PushNew(PushNew(<<>>, At(r.refs, there), L), r.new_raws, L)
  BY <1>3 DEF PushDistinct
<1> HIDE DEF L, T, given, exist, there, refs, two, hits, ids, result
<1> DEFINE nothing == <<>>
<1>6. nothing \in Seq(Nat)
  OBVIOUS
<1> HIDE DEF nothing
<1>7. two = PushNew(nothing, given, L)
  <2> DEFINE kept == At(r.refs, there)
  <2>1. two = PushNew(PushNew(nothing, kept, L), r.new_raws, L)
    BY <1>5 DEF nothing
  <2>2. kept \in Seq(Nat) /\ given = kept \o r.new_raws
    BY <1>2
  <2> HIDE DEF kept
  <2> QED BY <1>1, <1>2, <1>6, <2>1, <2>2, PushBoth
<1>8. two = o
  BY <1>1, <1>2, <1>7, PushFromNothing DEF nothing
<1>9. Distinct(given) \in Seq(Nat)
  BY <1>2, DistinctFact
<1>10. o \in Seq(Nat) /\ Len(o) \in 0..L
  <2>1. Len(Distinct(given)) \in Nat
    BY <1>9, LenProperties
  <2> HIDE DEF o
  <2>2. o \in Seq(Nat) /\ Len(o) = IF Len(Distinct(given)) < L THEN Len(Distinct(given)) ELSE L
    BY <1>1, <1>9, ShortenFact DEF o
  <2> QED BY <1>1, <2>1, <2>2
<1>11. ids = H
  <2>1. k \in Int
    BY <1>1, <1>10 DEF HitLimit, L
  <2>2. hits = search_raws(TableOf(r.table), {"rust"}, "personal", "u1", k)
    BY <1>8 DEF hits, T
  <2> HIDE DEF k
  <2>3. IdsOf(hits) = Shorten(Fillers(r), ClampTo(k, 1, SearchLimitMax))
    BY <2>1, <2>2, HitsFact
  <2> QED BY <2>3 DEF ids, IdsOf, k
<1>12. H \in Seq(Nat)
  <2>1. Fillers(r) \in Seq(Nat)
    BY <1>1, AscendingStep DEF Fillers
  <2>2. ClampTo(k, 1, SearchLimitMax) \in Nat
    BY <1>1, <1>10 DEF ClampTo, HitLimit, L
  <2> QED BY <2>1, <2>2, ShortenFact
<1> HIDE DEF H
<1>13. PushDistinct(two, ids) = Shorten(Distinct(given \o H), L)
  <2>1. given \o H \in Seq(Nat)
    BY <1>2, <1>12, ConcatProperties
  <2>2. PushDistinct(two, ids) = PushNew(PushNew(nothing, given, L), H, L)
    BY <1>7, <1>11 DEF PushDistinct, L
  <2>3. PushNew(PushNew(nothing, given, L), H, L) = PushNew(nothing, given \o H, L)
    <3>1. given \in Seq(Nat) /\ L \in Nat
      BY <1>1, <1>2
    <3> QED BY <1>6, <1>12, <3>1, PushBoth
  <2>4. PushNew(nothing, given \o H, L) = Shorten(Distinct(given \o H), L)
    BY <1>1, <2>1, PushFromNothing DEF nothing
  <2> QED BY <2>2, <2>3, <2>4
<1>14. CASE Len(two) >= L
  <2>1. given \o H \in Seq(Nat) /\ Begins(given, given \o H)
    BY <1>2, <1>12, ConcatBegins
  <2>2. Distinct(given \o H) \in Seq(Nat) /\ Begins(Distinct(given), Distinct(given \o H))
    BY <1>2, <2>1, DistinctFact, DistinctBegins
  <2>3. Len(Distinct(given)) >= L
    <3>1. Len(Distinct(given)) \in Nat
      BY <1>9, LenProperties
    <3>2. Len(o) = IF Len(Distinct(given)) < L THEN Len(Distinct(given)) ELSE L
      BY <1>1, <1>9, ShortenFact
    <3> HIDE DEF o
    <3> QED BY <1>1, <1>8, <1>14, <3>1, <3>2
  <2>4. o = Shorten(Distinct(given \o H), L)
    BY <1>1, <1>9, <2>2, <2>3, ShortenBegins
  <2> QED BY <1>4, <1>8, <1>14, <2>4 DEF result, T, given, H, o, k, L
<1>15. CASE ~(Len(two) >= L)
  BY <1>4, <1>13, <1>15 DEF result, T, given, H, o, k, L
<1> QED BY <1>14, <1>15

LEMMA InputFact ==
    ASSUME NEW r \in InputInputs, NEW s,
           s = build(TableOf(r.table), "personal", "u1", {"rust"}, r.refs, r.new_raws)
    PROVE  LET given == Distinct(Given(r))
               all == Distinct(Given(r) \o Fillers(r))
           IN  /\ Len(s) <= INPUT_LIMIT
               /\ IsPrefix(Shorten(given, INPUT_LIMIT), s)
               /\ IsPrefix(s, all)
               /\ 2 * Len(given) <= INPUT_LIMIT => s = Shorten(all, INPUT_LIMIT)
<1> DEFINE L == INPUT_LIMIT
           g == Given(r)
           f == Fillers(r)
           given == Distinct(g)
           all == Distinct(g \o f)
           o == Shorten(given, L)
           n == ClampTo(HitLimit(o), 1, SearchLimitMax)
           H == Shorten(f, n)
           mine == Distinct(g \o H)
<1>1. /\ L \in Nat /\ SearchLimitMax \in Nat /\ MaxRows \in Nat
      /\ L >= 1 /\ L <= SearchLimitMax
  BY InputAssumption, ListsAssumption
<1>2. g \in Seq(Nat) /\ f \in Seq(Nat)
  <2>1. g \in Seq(Nat)
    BY GivenFact
  <2>2. f \in Seq(Nat)
    BY <1>1, AscendingStep DEF Fillers
  <2> QED BY <2>1, <2>2
<1>3. IsDistinct(f)
  <2> DEFINE P == {i \in Rows : r.table[i] = "hit"}
  <2>1. Climbing(f, P, MaxRows)
    BY <1>1, AscendingFact DEF Fillers
  <2>2. DOMAIN f = 1..Len(f) /\ \A i \in 1..Len(f) : f[i] \in Nat
    BY <1>2, LenProperties, ElementOfSeq
  <2>3. Len(f) \in Nat
    BY <1>2, LenProperties
  <2>4. \A i, j \in 1..Len(f) : i < j => f[i] < f[j]
    BY <2>1 DEF Climbing
  <2> HIDE DEF f
  <2>5. ASSUME NEW i \in 1..Len(f), NEW j \in 1..Len(f), f[i] = f[j] PROVE i = j
    <3>1. i < j \/ j < i \/ i = j
      BY <2>3
    <3>2. f[i] \in Nat /\ f[j] \in Nat
      BY <2>2
    <3> QED BY <2>4, <2>5, <3>1, <3>2
  <2> QED BY <2>2, <2>5 DEF IsDistinct
<1>4. s = Shorten(mine, L)
  BY BuildFact
<1> HIDE DEF L, f, g, given, all, o, H, mine
<1>5. /\ given \in Seq(Nat) /\ Len(given) \in Nat
      /\ o \in Seq(Nat) /\ Len(o) = IF Len(given) < L THEN Len(given) ELSE L
  <2>1. given \in Seq(Nat)
    BY <1>2, DistinctFact DEF given
  <2> QED BY <1>1, <2>1, LenProperties, ShortenFact DEF o
<1>6. n \in Nat /\ n >= 1
  <2>1. HitLimit(o) \in Int
    BY <1>1, <1>5 DEF HitLimit, L
  <2> QED BY <1>1, <2>1 DEF ClampTo
<1>7. 2 * Len(given) <= L => n >= L
  <2>1. ASSUME 2 * Len(given) <= L PROVE n >= L
    <3>1. Len(o) = Len(given)
      BY <1>1, <1>5, <2>1
    <3>2. HitLimit(o) \in Int /\ HitLimit(o) >= L
      BY <1>1, <1>5, <2>1, <3>1 DEF HitLimit, L
    <3> QED BY <1>1, <3>2 DEF ClampTo
  <2> QED BY <2>1
<1> HIDE DEF n
<1>8. /\ H \in Seq(Nat) /\ Len(H) = IF Len(f) < n THEN Len(f) ELSE n
      /\ \A k \in 1..Len(H) : H[k] = f[k]
  BY <1>2, <1>6, ShortenFact DEF H
<1>9. Len(f) \in Nat
  BY <1>2, LenProperties
<1>10. /\ g \o H \in Seq(Nat) /\ g \o f \in Seq(Nat)
       /\ Begins(g, g \o H) /\ Begins(g \o H, g \o f)
  <2>1. /\ g \o H \in Seq(Nat) /\ g \o f \in Seq(Nat) /\ Begins(g, g \o H)
    BY <1>2, <1>8, ConcatBegins, ConcatProperties
  <2>2. Begins(H, f)
    BY <1>6, <1>8, <1>9 DEF Begins
  <2> QED BY <1>2, <1>8, <2>1, <2>2, ConcatGrows
<1>11. /\ mine \in Seq(Nat) /\ all \in Seq(Nat)
       /\ Begins(given, mine) /\ Begins(mine, all)
  <2>1. mine \in Seq(Nat) /\ all \in Seq(Nat)
    BY <1>10, DistinctFact DEF mine, all
  <2>2. Begins(given, mine)
    BY <1>2, <1>10, DistinctBegins DEF given, mine
  <2>3. Begins(mine, all)
    BY <1>10, DistinctBegins DEF mine, all
  <2> QED BY <2>1, <2>2, <2>3
<1>12. /\ s \in Seq(Nat) /\ Len(s) <= L
       /\ Begins(o, s) /\ Begins(s, all)
  <2>1. s \in Seq(Nat) /\ Len(s) = IF Len(mine) < L THEN Len(mine) ELSE L
    BY <1>1, <1>4, <1>11, ShortenFact
  <2>2. Len(mine) \in Nat
    BY <1>11, LenProperties
  <2>3. Begins(o, s)
    BY <1>1, <1>4, <1>5, <1>11, ShortenBegins DEF o
  <2>4. Begins(s, all)
    BY <1>1, <1>4, <1>11, ShortenBegins
  <2> QED BY <1>1, <2>1, <2>2, <2>3, <2>4
<1>13. IsPrefix(o, s) /\ IsPrefix(s, all)
  BY <1>5, <1>11, <1>12, PrefixFact
<1>14. ASSUME 2 * Len(given) <= L PROVE s = Shorten(all, L)
  <2>1. CASE Len(f) <= n
    <3>1. Len(H) = Len(f)
      BY <1>6, <1>8, <1>9, <2>1
    <3>2. H = f
      BY <1>2, <1>8, <3>1, SeqEqual
    <3> QED BY <1>4, <3>2 DEF mine, all
  <2>2. CASE Len(f) > n
    <3>1. Len(H) = n /\ DOMAIN H = 1..n /\ DOMAIN f = 1..Len(f)
      <4>1. Len(H) = n
        BY <1>6, <1>8, <1>9, <2>2
      <4> QED BY <1>2, <1>8, <4>1, LenProperties
    <3>2. \A k \in 1..n : k \in 1..Len(f) /\ H[k] = f[k]
      <4>1. \A k \in 1..n : k \in 1..Len(f)
        BY <1>6, <1>9, <2>2
      <4> QED BY <1>8, <3>1, <4>1
    <3>3. IsDistinct(H)
      BY <1>3, <3>1, <3>2 DEF IsDistinct
    <3>4. Len(mine) >= Len(H)
      BY <1>2, <1>8, <3>3, DistinctLong DEF mine
    <3>5. Len(mine) >= L
      <4>1. Len(mine) \in Nat
        BY <1>11, LenProperties
      <4> QED BY <1>1, <1>6, <1>7, <1>14, <3>1, <3>4, <4>1
    <3> QED BY <1>1, <1>4, <1>11, <3>5, ShortenBegins
  <2> QED BY <1>6, <1>9, <2>1, <2>2
<1> QED BY <1>12, <1>13, <1>14 DEF L, o, given, all, g, f

\* The input of a synthesis is what the concept refers to, what is new and
\* what the search finds, in this order, without repetitions and as much of it
\* as fits (InputComplete), for tables, references and limits of any size.
THEOREM SynthesisInputs == Spec => []InputComplete
<1> DEFINE Result(r) == build(TableOf(r.table), "personal", "u1", {"rust"}, r.refs, r.new_raws)
           Ran == alg = "input" => in \in InputInputs /\ (done => out = Result(in))
<1>1. Ran => InputComplete
  BY InputFact DEF InputComplete
<1>2. Init => Ran
  BY DEF Init
<1>3. Ran /\ [Next]_vars => Ran'
  BY DEF Next, Run, vars
<1> QED BY <1>1, <1>2, <1>3, PTL DEF Spec

-----------------------------------------------------------------------------
(* Merge                                                                   *)

\* R orders the numbers from 1 to n.
Orders(R, n) ==
    /\ \A i \in 1..n : <<i, i>> \notin R
    /\ \A i, j \in 1..n : i = j \/ <<i, j>> \in R \/ <<j, i>> \in R
    /\ \A i, j, k \in 1..n : <<i, j>> \in R /\ <<j, k>> \in R => <<i, k>> \in R

Down(R, n, i) == {j \in 1..n : <<j, i>> \in R}
Rank(R, n, i) == 1 + Cardinality(Down(R, n, i))

\* The ranks of the numbers from 1 to n are the numbers from 1 to n.
LEMMA RankFact ==
    ASSUME NEW n \in Nat, NEW R, Orders(R, n)
    PROVE  /\ \A i \in 1..n : Rank(R, n, i) \in 1..n
           /\ \A i, j \in 1..n : <<i, j>> \in R => Rank(R, n, i) < Rank(R, n, j)
           /\ \A k \in 1..n : \E i \in 1..n : Rank(R, n, i) = k
<1> DEFINE D(i) == Down(R, n, i)
           f == [i \in 1..n |-> Rank(R, n, i)]
<1>1. IsFiniteSet(1..n) /\ Cardinality(1..n) = n
  BY IntervalCard
<1>2. ASSUME NEW i \in 1..n
      PROVE  /\ IsFiniteSet(D(i)) /\ Cardinality(D(i)) \in Nat /\ Cardinality(D(i)) < n
  <2>1. D(i) \in SUBSET (1..n) /\ i \notin D(i)
    BY DEF Down, Orders
  <2>2. /\ IsFiniteSet(D(i)) /\ Cardinality(D(i)) <= n
        /\ Cardinality(D(i)) = n => D(i) = 1..n
    <3> HIDE DEF D
    <3> QED BY <1>1, <2>1, FS_Subset
  <2>3. Cardinality(D(i)) \in Nat
    <3> HIDE DEF D
    <3> QED BY <2>2, FS_CardinalityType
  <2>4. Cardinality(D(i)) # n
    BY <2>1, <2>2
  <2> HIDE DEF D
  <2> QED BY <2>2, <2>3, <2>4
<1>3. \A i \in 1..n : Rank(R, n, i) \in 1..n
  BY <1>2 DEF Rank
<1>4. ASSUME NEW i \in 1..n, NEW j \in 1..n, <<i, j>> \in R
      PROVE  Rank(R, n, i) < Rank(R, n, j)
  <2>1. D(i) \subseteq D(j) /\ i \in D(j) /\ i \notin D(i)
    <3>1. \A k \in D(i) : k \in 1..n /\ <<k, i>> \in R
      BY DEF Down
    <3>2. \A k \in D(i) : k \in D(j)
      BY <1>4, <3>1 DEF Down, Orders
    <3>3. i \in D(j) /\ i \notin D(i)
      BY <1>4 DEF Down, Orders
    <3> QED BY <3>2, <3>3
  <2> HIDE DEF D
  <2>2. IsFiniteSet(D(j)) /\ D(i) \in SUBSET D(j) /\ D(i) # D(j)
    BY <1>2, <2>1
  <2>3. Cardinality(D(i)) <= Cardinality(D(j)) /\ Cardinality(D(i)) # Cardinality(D(j))
    BY <2>2, FS_Subset
  <2> QED BY <1>2, <2>3 DEF Rank, D
<1>5. f \in Injection(1..n, 1..n)
  <2>1. f \in [1..n -> 1..n]
    BY <1>3
  <2>2. ASSUME NEW i \in 1..n, NEW j \in 1..n, f[i] = f[j] PROVE i = j
    <3>1. Rank(R, n, i) = Rank(R, n, j)
      BY <2>2
    <3>2. ~(<<i, j>> \in R) /\ ~(<<j, i>> \in R)
      BY <1>3, <1>4, <3>1
    <3> QED BY <3>2 DEF Orders
  <2> HIDE DEF f
  <2> QED BY <2>1, <2>2 DEF Injection, IsInjective
<1>6. f \in Surjection(1..n, 1..n)
  <2> HIDE DEF f
  <2> QED BY <1>1, <1>5, FS_Injection
<1>7. \A k \in 1..n : \E i \in 1..n : Rank(R, n, i) = k
  <2>1. \A k \in 1..n : \E i \in 1..n : f[i] = k
    <3> HIDE DEF f
    <3> QED BY <1>6 DEF Surjection
  <2> QED BY <2>1
<1> QED BY <1>3, <1>4, <1>7

\* ByScore is a permutation that sorts and keeps the order of equal scores.
Sorts(at, s) ==
    /\ at \in [1..Len(s) -> 1..Len(s)]
    /\ ByScore(s) = [k \in 1..Len(s) |-> s[at[k]]]
    /\ \A k, l \in 1..Len(s) : k < l =>
          \/ s[at[k]].score > s[at[l]].score
          \/ s[at[k]].score = s[at[l]].score /\ at[k] < at[l]
    /\ \A i \in 1..Len(s) : \E k \in 1..Len(s) : at[k] = i

LEMMA ByScoreFact ==
    ASSUME NEW S, NEW s \in Seq(S), \A i \in 1..Len(s) : s[i].score \in Nat
    PROVE  \E at : Sorts(at, s)
<1> DEFINE n == Len(s)
           B(i, j) == s[i].score > s[j].score \/ (s[i].score = s[j].score /\ i < j)
           R == {p \in (1..n) \X (1..n) : B(p[1], p[2])}
           at == [k \in 1..n |-> CHOOSE i \in 1..n : Rank(R, n, i) = k]
<1>1. n \in Nat /\ DOMAIN s = 1..n /\ \A i \in 1..n : s[i].score \in Nat
  BY LenProperties
<1>2. \A i, j \in 1..n : <<i, j>> \in R <=> B(i, j)
  BY DEF R
<1>3. Orders(R, n)
  <2> HIDE DEF n, R
  <2>1. \A i \in 1..n : <<i, i>> \notin R
    BY <1>1, <1>2
  <2>2. ASSUME NEW i \in 1..n, NEW j \in 1..n
        PROVE  i = j \/ <<i, j>> \in R \/ <<j, i>> \in R
    <3>1. s[i].score \in Nat /\ s[j].score \in Nat
      BY <1>1
    <3>2. i = j \/ B(i, j) \/ B(j, i)
      BY <1>1, <3>1
    <3> HIDE DEF B
    <3> QED BY <1>2, <3>2
  <2>3. ASSUME NEW i \in 1..n, NEW j \in 1..n, NEW k \in 1..n,
               <<i, j>> \in R /\ <<j, k>> \in R
        PROVE  <<i, k>> \in R
    <3>1. s[i].score \in Nat /\ s[j].score \in Nat /\ s[k].score \in Nat
      BY <1>1
    <3>2. B(i, j) /\ B(j, k)
      <4> HIDE DEF B
      <4> QED BY <1>2, <2>3
    <3>3. B(i, k)
      BY <1>1, <3>1, <3>2
    <3> HIDE DEF B
    <3> QED BY <1>2, <3>3
  <2> QED BY <2>1, <2>2, <2>3 DEF Orders
<1>4. /\ \A i \in 1..n : Rank(R, n, i) \in 1..n
      /\ \A i, j \in 1..n : <<i, j>> \in R => Rank(R, n, i) < Rank(R, n, j)
      /\ \A k \in 1..n : \E i \in 1..n : Rank(R, n, i) = k
  <2> HIDE DEF n, R
  <2> QED BY <1>1, <1>3, RankFact
<1>5. ByScore(s) = [k \in 1..n |-> s[at[k]]]
  <2>1. \A i \in 1..n : {j \in 1..n : B(j, i)} = Down(R, n, i)
    BY <1>2 DEF Down
  <2>2. \A i \in 1..n : 1 + Cardinality({j \in 1..n : B(j, i)}) = Rank(R, n, i)
    <3> HIDE DEF n, R, B
    <3> QED BY <2>1 DEF Rank
  <2>3. ByScore(s) = [k \in DOMAIN s |-> s[CHOOSE i \in DOMAIN s :
                                             1 + Cardinality({j \in DOMAIN s : B(j, i)}) = k]]
    BY DEF ByScore
  <2>4. ByScore(s) = [k \in 1..n |-> s[CHOOSE i \in 1..n :
                                             1 + Cardinality({j \in 1..n : B(j, i)}) = k]]
    <3> HIDE DEF n, R, B
    <3> QED BY <1>1, <2>3
  <2>5. ASSUME NEW k \in 1..n
        PROVE  (CHOOSE i \in 1..n : 1 + Cardinality({j \in 1..n : B(j, i)}) = k)
               = CHOOSE i \in 1..n : Rank(R, n, i) = k
    <3> HIDE DEF n, R, B
    <3> QED BY <2>2
  <2> HIDE DEF n, R, B
  <2> QED BY <2>4, <2>5
<1> HIDE DEF n, R, B
<1>6. \A k \in 1..n : at[k] \in 1..n /\ Rank(R, n, at[k]) = k
  BY <1>4
<1>7. at \in [1..n -> 1..n]
  BY <1>6
<1> HIDE DEF at
<1>8. ASSUME NEW k \in 1..n, NEW l \in 1..n, k < l PROVE B(at[k], at[l])
  <2>1. at[k] \in 1..n /\ at[l] \in 1..n /\ Rank(R, n, at[k]) = k /\ Rank(R, n, at[l]) = l
    BY <1>6
  <2>2. ~(<<at[l], at[k]>> \in R) /\ at[k] # at[l]
    <3>1. ~(Rank(R, n, at[l]) < Rank(R, n, at[k])) /\ Rank(R, n, at[l]) # Rank(R, n, at[k])
      BY <1>8, <2>1
    <3> QED BY <1>4, <2>1, <3>1
  <2>3. <<at[k], at[l]>> \in R
    BY <1>3, <2>1, <2>2 DEF Orders
  <2> QED BY <1>2, <2>1, <2>3
<1>9. \A i \in 1..n : \E k \in 1..n : at[k] = i
  <2> SUFFICES ASSUME NEW i \in 1..n PROVE at[Rank(R, n, i)] = i
    BY <1>4
  <2> DEFINE k == Rank(R, n, i)
             m == at[k]
  <2>1. k \in 1..n /\ m \in 1..n /\ Rank(R, n, m) = k
    BY <1>4, <1>6
  <2> HIDE DEF m
  <2>2. ~(<<i, m>> \in R) /\ ~(<<m, i>> \in R)
    <3>1. ~(Rank(R, n, i) < Rank(R, n, m)) /\ ~(Rank(R, n, m) < Rank(R, n, i))
      BY <1>1, <2>1
    <3> QED BY <1>4, <2>1, <3>1
  <2>3. i = m
    BY <1>3, <2>1, <2>2 DEF Orders
  <2> QED BY <2>3 DEF m
<1> QED BY <1>5, <1>7, <1>8, <1>9 DEF Sorts, n, B

SearchItems == Item("personal") \cup Item("shared")

LEMMA ItemsFact ==
    ASSUME NEW r \in SearchInputs
    PROVE  /\ r.personal \in Seq(SearchItems) /\ r.shared \in Seq(SearchItems) /\ r.top_k \in Nat \ {0}
           /\ \A item \in SearchItems : item.score \in Nat
           /\ \A i \in 1..Len(r.personal) : r.personal[i].from = "personal"
           /\ \A i \in 1..Len(r.shared) : r.shared[i].from = "shared"
<1>1. MaxResults \in Nat /\ MaxPage \in Nat /\ \A s \in Results : s.score \in Nat
  BY ListsAssumption
<1>2. /\ r.personal \in UpToLen(Item("personal"), MaxResults)
      /\ r.shared \in UpToLen(Item("shared"), MaxResults) /\ r.top_k \in 1..MaxPage
  BY DEF SearchInputs
<1>3. \A from, item : item \in Item(from) => item.score \in Nat /\ item.from = from
  BY <1>1 DEF Item
<1>4. ASSUME NEW from \in {"personal", "shared"}, NEW s \in UpToLen(Item(from), MaxResults)
      PROVE  s \in Seq(SearchItems) /\ \A i \in 1..Len(s) : s[i].from = from
  <2>1. PICK k \in 0..MaxResults : s \in [1..k -> Item(from)]
    BY DEF UpToLen
  <2>2. s \in [1..k -> SearchItems] /\ k \in Nat
    BY <1>1, <2>1 DEF SearchItems
  <2>3. s \in Seq(SearchItems) /\ Len(s) = k
    BY <2>2
  <2>4. \A i \in 1..k : s[i] \in Item(from)
    BY <2>1
  <2> QED BY <1>3, <2>3, <2>4
<1>5. \A item \in SearchItems : item.score \in Nat
  BY <1>3 DEF SearchItems
<1>6. r.top_k \in Nat \ {0}
  BY <1>1, <1>2
<1>7. r.personal \in Seq(SearchItems) /\ \A i \in 1..Len(r.personal) : r.personal[i].from = "personal"
  BY <1>2, <1>4
<1>8. r.shared \in Seq(SearchItems) /\ \A i \in 1..Len(r.shared) : r.shared[i].from = "shared"
  BY <1>2, <1>4
<1> QED BY <1>5, <1>6, <1>7, <1>8

SameItem(a, b) == a.id # NoId /\ Key(a) = Key(b)

\* Which results of both answers are shown, in which order: each once, sorted.
Shows(src, s, all, top_k) ==
    /\ s = [k \in 1..Len(s) |-> all[src[k]]] /\ Len(s) \in Nat /\ Len(s) <= top_k
    /\ \A k \in 1..Len(s) : src[k] \in 1..Len(all)
    /\ \A k \in 1..Len(s) : \A j \in 1..src[k] - 1 : ~SameItem(all[src[k]], all[j])
    /\ \A k, l \in 1..Len(s) : k < l =>
          \/ all[src[k]].score > all[src[l]].score
          \/ all[src[k]].score = all[src[l]].score /\ src[k] < src[l]
    /\ \A i \in 1..Len(all) :
          \/ \E k \in 1..Len(s) : src[k] = i
          \/ \E j \in 1..i - 1 : SameItem(all[i], all[j])
          \/ Len(s) = top_k /\ all[src[top_k]].score >= all[i].score

LEMMA ShowsFact ==
    ASSUME NEW S, NEW all \in Seq(S), NEW top_k \in Nat \ {0},
           \A i \in 1..Len(all) : all[i].score \in Nat
    PROVE  \E src : Shows(src, Shorten(ByScore(Kept(all)), top_k), all, top_k)
<1> DEFINE n == Len(all)
           First(i) == all[i].id = NoId \/ ~ \E j \in 1..i - 1 : Key(all[j]) = Key(all[i])
           P == {i \in DOMAIN all : First(i)}
           a == Ascending(P, n)
           kept == Kept(all)
           m == Len(kept)
           sorted == ByScore(kept)
           s == Shorten(sorted, top_k)
<1>1. n \in Nat /\ DOMAIN all = 1..n /\ \A i \in 1..n : all[i] \in S /\ all[i].score \in Nat
  BY LenProperties, ElementOfSeq
<1>2. kept = Taken(all, P, n)
  <2>1. kept = At(all, P)
    BY DEF Kept
  <2> HIDE DEF P, kept
  <2> QED BY <2>1, AtFact
<1>3. \A i \in 1..n : i \in P <=> ~ \E j \in 1..i - 1 : SameItem(all[i], all[j])
  BY <1>1 DEF SameItem
<1>4. Climbing(a, P, n)
  <2> HIDE DEF n, P
  <2> QED BY <1>1, AscendingFact
<1>5. /\ kept \in Seq(S) /\ m = Len(a) /\ m \in Nat
      /\ \A k \in 1..m : kept[k] = all[a[k]]
  <2> HIDE DEF n, P, kept
  <2>1. kept \in Seq(S) /\ m = Len(a) /\ \A k \in 1..m : kept[k] = all[a[k]]
    BY <1>1, <1>2, TakenFact
  <2> QED BY <2>1, LenProperties
<1> HIDE DEF P, a, n
<1>6. /\ \A k \in 1..m : a[k] \in 1..n /\ ~ \E j \in 1..a[k] - 1 : SameItem(all[a[k]], all[j])
      /\ \A k, l \in 1..m : k < l => a[k] < a[l]
      /\ \A i \in 1..n : i \notin P \/ \E k \in 1..m : a[k] = i
  <2>1. \A k \in 1..m : a[k] \in 1..n /\ a[k] \in P
    BY <1>4, <1>5 DEF Climbing
  <2> HIDE DEF kept, m
  <2>2. \A k \in 1..m : ~ \E j \in 1..a[k] - 1 : SameItem(all[a[k]], all[j])
    BY <1>3, <2>1
  <2>3. \A k, l \in 1..m : k < l => a[k] < a[l]
    BY <1>4, <1>5 DEF Climbing
  <2>4. \A i \in 1..n : i \notin P \/ \E k \in 1..m : a[k] = i
    BY <1>4, <1>5 DEF Climbing
  <2> QED BY <2>1, <2>2, <2>3, <2>4
<1>7. PICK at : Sorts(at, kept)
  <2>1. \A k \in 1..Len(kept) : kept[k].score \in Nat
    BY <1>1, <1>5, <1>6
  <2> HIDE DEF kept
  <2> QED BY <1>5, <2>1, ByScoreFact
<1>8. /\ sorted = [k \in 1..m |-> kept[at[k]]]
      /\ \A k \in 1..m : at[k] \in 1..m
      /\ \A k, l \in 1..m : k < l =>
          \/ kept[at[k]].score > kept[at[l]].score
          \/ kept[at[k]].score = kept[at[l]].score /\ at[k] < at[l]
      /\ \A i \in 1..m : \E k \in 1..m : at[k] = i
  <2> HIDE DEF kept
  <2> QED BY <1>7 DEF Sorts
<1> HIDE DEF m, kept, sorted
<1>9. sorted \in Seq(S) /\ Len(sorted) = m
  <2>1. \A k \in 1..m : kept[at[k]] \in S
    BY <1>1, <1>5, <1>6, <1>8
  <2>2. sorted \in [1..m -> S]
    BY <1>8, <2>1
  <2> QED BY <1>5, <2>2
<1>10. /\ s \in Seq(S) /\ Len(s) = (IF m < top_k THEN m ELSE top_k)
       /\ \A k \in 1..Len(s) : s[k] = sorted[k]
  <2>1. top_k \in Nat
    OBVIOUS
  <2> QED BY <1>9, <2>1, ShortenFact
<1>11. s = [k \in 1..Len(s) |-> s[k]]
  <2> HIDE DEF s
  <2>1. s \in [1..Len(s) -> S]
    BY <1>10, LenProperties
  <2> QED BY <2>1
<1> HIDE DEF s
<1> DEFINE src == [k \in 1..m |-> a[at[k]]]
<1>12. \A k \in 1..m : /\ src[k] = a[at[k]] /\ src[k] \in 1..n
                       /\ sorted[k] = all[src[k]] /\ kept[at[k]] = all[src[k]]
  BY <1>5, <1>6, <1>8
<1> HIDE DEF src
<1>13. Len(s) \in Nat /\ Len(s) <= top_k /\ Len(s) <= m /\ (m > Len(s) => Len(s) = top_k)
  BY <1>5, <1>10
<1>14. \A k \in 1..Len(s) : k \in 1..m /\ s[k] = all[src[k]] /\ src[k] \in 1..n
  BY <1>5, <1>10, <1>12, <1>13
<1>15. \A k \in 1..Len(s) : \A j \in 1..src[k] - 1 : ~SameItem(all[src[k]], all[j])
  <2> SUFFICES ASSUME NEW k \in 1..Len(s)
               PROVE  ~ \E j \in 1..src[k] - 1 : SameItem(all[src[k]], all[j])
    OBVIOUS
  <2>1. k \in 1..m /\ at[k] \in 1..m /\ src[k] = a[at[k]]
    BY <1>8, <1>12, <1>14
  <2> QED BY <1>6, <2>1
<1>16. ASSUME NEW k \in 1..m, NEW l \in 1..m, k < l
       PROVE  \/ all[src[k]].score > all[src[l]].score
              \/ all[src[k]].score = all[src[l]].score /\ src[k] < src[l]
  <2>1. at[k] \in 1..m /\ at[l] \in 1..m
    BY <1>8
  <2>2. \/ kept[at[k]].score > kept[at[l]].score
        \/ kept[at[k]].score = kept[at[l]].score /\ at[k] < at[l]
    BY <1>8, <1>16
  <2>3. at[k] < at[l] => src[k] < src[l]
    BY <1>6, <1>12, <2>1
  <2> QED BY <1>12, <2>2, <2>3
<1>17. ASSUME NEW i \in 1..n
       PROVE  \/ \E k \in 1..Len(s) : src[k] = i
              \/ \E j \in 1..i - 1 : SameItem(all[i], all[j])
              \/ Len(s) = top_k /\ all[src[top_k]].score >= all[i].score
  <2>1. CASE i \notin P
    BY <1>3, <2>1
  <2>2. CASE i \in P
    <3>1. PICK j \in 1..m : a[j] = i
      BY <1>6, <2>2
    <3>2. PICK k \in 1..m : at[k] = j
      BY <1>8
    <3>3. src[k] = i
      BY <1>12, <3>1, <3>2
    <3>4. CASE k <= Len(s)
      <4>1. k \in 1..Len(s)
        BY <1>5, <1>13, <3>4
      <4> QED BY <3>3, <4>1
    <3>5. CASE k > Len(s)
      <4>1. Len(s) = top_k /\ top_k \in 1..m /\ top_k < k
        BY <1>5, <1>13, <3>5
      <4>2. src[top_k] \in 1..n
        BY <1>12, <4>1
      <4>3. all[src[top_k]].score >= all[src[k]].score
        <5>1. all[src[top_k]].score \in Nat /\ all[src[k]].score \in Nat
          BY <1>1, <3>3, <4>2
        <5> QED BY <1>16, <4>1, <5>1
      <4> QED BY <3>3, <4>1, <4>3
    <3> QED BY <1>5, <1>13, <3>4, <3>5
  <2> QED BY <2>1, <2>2
<1>18. s = [k \in 1..Len(s) |-> all[src[k]]]
  BY <1>11, <1>14
<1>19. Shows(src, s, all, top_k)
  <2>1. \A k, l \in 1..Len(s) : k < l =>
          \/ all[src[k]].score > all[src[l]].score
          \/ all[src[k]].score = all[src[l]].score /\ src[k] < src[l]
    BY <1>14, <1>16
  <2> QED BY <1>13, <1>14, <1>15, <1>17, <1>18, <2>1 DEF Shows, n
<1> QED BY <1>19 DEF s, sorted, kept

LEMMA SearchFact ==
    ASSUME alg = "search", done, in \in SearchInputs,
           out = MergedSearch(in.personal, in.shared, in.top_k)
    PROVE  SearchMerged
<1> DEFINE p == in.personal
           all == in.personal \o in.shared
           n == Len(all)
           t == in.top_k
<1>1. /\ p \in Seq(SearchItems) /\ in.shared \in Seq(SearchItems) /\ t \in Nat \ {0}
      /\ \A item \in SearchItems : item.score \in Nat
      /\ \A i \in 1..Len(p) : p[i].from = "personal"
      /\ \A i \in 1..Len(in.shared) : in.shared[i].from = "shared"
  BY ItemsFact
<1>2. /\ all \in Seq(SearchItems) /\ n = Len(p) + Len(in.shared) /\ DOMAIN all = 1..n /\ n \in Nat
      /\ \A i \in 1..n : all[i] = IF i <= Len(p) THEN p[i] ELSE in.shared[i - Len(p)]
      /\ \A i \in 1..n : all[i] \in SearchItems
      /\ Len(p) \in Nat /\ Len(in.shared) \in Nat /\ DOMAIN p = 1..Len(p)
  <2>1. /\ all \in Seq(SearchItems) /\ n = Len(p) + Len(in.shared)
        /\ \A i \in 1..Len(p) + Len(in.shared) :
              all[i] = IF i <= Len(p) THEN p[i] ELSE in.shared[i - Len(p)]
    BY <1>1, ConcatProperties
  <2> HIDE DEF all, p
  <2>2. DOMAIN all = 1..n /\ n \in Nat /\ \A i \in 1..n : all[i] \in SearchItems
    BY <2>1, LenProperties, ElementOfSeq
  <2>3. Len(p) \in Nat /\ Len(in.shared) \in Nat /\ DOMAIN p = 1..Len(p)
    BY <1>1, LenProperties
  <2> QED BY <2>1, <2>2, <2>3
<1>3. PICK src : Shows(src, out, all, t)
  <2>1. \A i \in 1..n : all[i].score \in Nat
    BY <1>1, <1>2
  <2>2. out = Shorten(ByScore(Kept(all)), t)
    BY DEF MergedSearch
  <2> HIDE DEF all, t
  <2> QED BY <1>1, <1>2, <2>1, <2>2, ShowsFact
<1> HIDE DEF all, n, t, p
<1> DEFINE m == Len(out)
<1>4. /\ out = [k \in 1..m |-> all[src[k]]] /\ m \in Nat /\ m <= t
      /\ \A k \in 1..m : src[k] \in 1..n
      /\ \A k \in 1..m : \A j \in 1..src[k] - 1 : ~SameItem(all[src[k]], all[j])
      /\ \A k, l \in 1..m : k < l =>
          \/ all[src[k]].score > all[src[l]].score
          \/ all[src[k]].score = all[src[l]].score /\ src[k] < src[l]
      /\ \A i \in 1..n :
          \/ \E k \in 1..m : src[k] = i
          \/ \E j \in 1..i - 1 : SameItem(all[i], all[j])
          \/ m = t /\ all[src[t]].score >= all[i].score
  BY <1>3 DEF Shows, n
<1> HIDE DEF m
<1>5. DOMAIN out = 1..m /\ \A k \in 1..m : out[k] = all[src[k]]
  BY <1>4
<1>6. \A i \in 1..n : all[i].from = "personal" <=> i <= Len(p)
  <2> SUFFICES ASSUME NEW i \in 1..n PROVE all[i].from = "personal" <=> i <= Len(p)
    OBVIOUS
  <2>1. CASE i <= Len(p)
    <3>1. i \in 1..Len(p)
      BY <1>2, <2>1
    <3> QED BY <1>1, <1>2, <2>1, <3>1
  <2>2. CASE ~(i <= Len(p))
    <3>1. i - Len(p) \in 1..Len(in.shared)
      BY <1>2, <2>2
    <3>2. all[i] = in.shared[i - Len(p)]
      BY <1>2, <2>2
    <3>3. all[i].from = "shared"
      BY <1>1, <3>1, <3>2
    <3> QED BY <2>2, <3>3
  <2> QED BY <2>1, <2>2
<1>7. \A i \in 1..n : all[i].score \in Nat
  BY <1>1, <1>2
<1>8. \A i \in 1..Len(p) : i \in 1..n /\ all[i] = p[i]
  BY <1>2
<1>9. ASSUME NEW k \in 1..m, NEW l \in 1..m, out[k].id # NoId, Key(out[k]) = Key(out[l])
      PROVE  k = l
  <2> SUFFICES ASSUME k # l PROVE FALSE
    OBVIOUS
  <2>1. src[k] \in 1..n /\ src[l] \in 1..n
    BY <1>4
  <2>2. SameItem(all[src[k]], all[src[l]]) /\ SameItem(all[src[l]], all[src[k]])
    BY <1>5, <1>9 DEF SameItem, Key
  <2>3. ~(src[l] < src[k])
    <3>1. src[l] < src[k] => src[l] \in 1..src[k] - 1
      BY <1>2, <2>1
    <3> QED BY <1>4, <2>2, <3>1
  <2>4. ~(src[k] < src[l])
    <3>1. src[k] < src[l] => src[k] \in 1..src[l] - 1
      BY <1>2, <2>1
    <3> QED BY <1>4, <2>2, <3>1
  <2>5. src[k] = src[l]
    BY <1>2, <2>1, <2>3, <2>4
  <2>6. k < l \/ l < k
    BY <1>4
  <2>7. all[src[k]].score \in Nat /\ all[src[l]].score \in Nat
    BY <1>7, <2>1
  <2> QED BY <1>4, <2>1, <2>5, <2>6, <2>7
<1>10. ASSUME NEW k \in 1..m, NEW l \in 1..m, k < l
       PROVE  /\ out[k].score >= out[l].score
              /\ out[k].score = out[l].score /\ out[l].from = "personal" => out[k].from = "personal"
  <2>1. src[k] \in 1..n /\ src[l] \in 1..n
    BY <1>4
  <2>2. all[src[k]].score \in Nat /\ all[src[l]].score \in Nat
    BY <1>7, <2>1
  <2>3. \/ all[src[k]].score > all[src[l]].score
        \/ all[src[k]].score = all[src[l]].score /\ src[k] < src[l]
    BY <1>4, <1>10
  <2>4. src[k] < src[l] /\ src[l] <= Len(p) => src[k] <= Len(p)
    BY <1>2, <2>1
  <2>5. out[k] = all[src[k]] /\ out[l] = all[src[l]]
    BY <1>5
  <2>6. out[k].score >= out[l].score
    BY <2>2, <2>3, <2>5
  <2>7. ASSUME out[k].score = out[l].score, out[l].from = "personal"
        PROVE  out[k].from = "personal"
    <3>1. src[k] < src[l]
      BY <2>2, <2>3, <2>5, <2>7
    <3>2. src[l] <= Len(p)
      BY <1>6, <2>1, <2>5, <2>7
    <3> QED BY <1>6, <2>1, <2>4, <2>5, <3>1, <3>2
  <2> QED BY <2>6, <2>7
<1>11. ASSUME NEW i \in 1..n, ~ \E k \in 1..m : out[k] = all[i]
       PROVE  \/ \E j \in 1..i - 1 : all[i].id # NoId /\ Key(all[i]) = Key(all[j])
              \/ m = t /\ out[t].score >= all[i].score
  <2>1. ~ \E k \in 1..m : src[k] = i
    BY <1>5, <1>11
  <2>2. m = t => out[t] = all[src[t]]
    <3>1. m = t => t \in 1..m
      BY <1>1
    <3> QED BY <1>5, <3>1
  <2> QED BY <1>4, <2>1, <2>2 DEF SameItem
<1>12. ASSUME NEW k \in 1..m, NEW i \in 1..Len(p), out[k].id # NoId, Key(out[k]) = Key(p[i])
       PROVE  out[k].from = "personal"
  <2>1. src[k] \in 1..n /\ out[k] = all[src[k]]
    BY <1>4, <1>5
  <2>2. SameItem(all[src[k]], all[i])
    BY <1>8, <1>12, <2>1 DEF SameItem
  <2>3. ~(i \in 1..src[k] - 1)
    BY <1>4, <2>2
  <2>4. src[k] <= Len(p)
    BY <1>2, <2>1, <2>3
  <2> QED BY <1>6, <2>1, <2>4
<1>13. DOMAIN p = 1..Len(p) /\ DOMAIN all = 1..n
  BY <1>2
<1>14. \A k, l \in DOMAIN out : out[k].id # NoId /\ Key(out[k]) = Key(out[l]) => k = l
  BY <1>5, <1>9
<1>15. /\ \A k, l \in DOMAIN out : k < l => out[k].score >= out[l].score
       /\ \A k, l \in DOMAIN out :
              k < l /\ out[k].score = out[l].score /\ out[l].from = "personal"
                 => out[k].from = "personal"
  BY <1>5, <1>10
<1>16. \A i \in DOMAIN all : ~(\E k \in DOMAIN out : out[k] = all[i]) =>
              \/ \E j \in 1..i - 1 : all[i].id # NoId /\ Key(all[i]) = Key(all[j])
              \/ m = t /\ out[t].score >= all[i].score
  BY <1>5, <1>11, <1>13
<1>17. \A k \in DOMAIN out, i \in DOMAIN p :
              out[k].id # NoId /\ Key(out[k]) = Key(p[i]) => out[k].from = "personal"
  BY <1>5, <1>12, <1>13
<1> QED BY <1>14, <1>15, <1>16, <1>17, Zenon DEF SearchMerged, all, t, p, m

\* The stretch of a list that query_nodes returns.
Page(x, offset, limit) == Shorten(SubSeq(x, offset + 1, Len(x)), limit)

LEMMA PageFact ==
    ASSUME NEW S, NEW x \in Seq(S), NEW offset \in Nat, NEW limit \in Nat
    PROVE  /\ Page(x, offset, limit) \in Seq(S)
           /\ Len(Page(x, offset, limit)) <= limit
           /\ Len(Page(x, offset, limit)) \in Nat
           /\ Len(x) <= offset => Len(Page(x, offset, limit)) = 0
           /\ Len(x) > offset => Len(Page(x, offset, limit))
                                 = IF Len(x) - offset < limit THEN Len(x) - offset ELSE limit
           /\ \A k \in 1..Len(Page(x, offset, limit)) :
                 Page(x, offset, limit)[k] = x[offset + k] /\ offset + k \in 1..Len(x)
<1> DEFINE rest == SubSeq(x, offset + 1, Len(x))
           q == Page(x, offset, limit)
           n == Len(x)
<1>1. n \in Nat /\ \A i \in 1..n : x[i] \in S
  BY LenProperties, ElementOfSeq
<1>2. q = Shorten(rest, limit)
  BY DEF Page
<1>3. /\ rest \in Seq(S)
      /\ Len(rest) = IF offset + 1 <= n THEN n - (offset + 1) + 1 ELSE 0
      /\ \A i \in 1..n - (offset + 1) + 1 : rest[i] = x[offset + 1 + i - 1]
  <2> DEFINE o == offset + 1
  <2>1. o \in Int /\ n \in Int /\ \A i \in o..n : x[i] \in S
    BY <1>1
  <2> HIDE DEF o, n
  <2>2. /\ SubSeq(x, o, n) \in Seq(S)
        /\ Len(SubSeq(x, o, n)) = IF o <= n THEN n - o + 1 ELSE 0
        /\ \A i \in 1..n - o + 1 : SubSeq(x, o, n)[i] = x[o + i - 1]
    BY <2>1, SubSeqProperties
  <2> QED BY <2>2 DEF o, n
<1> HIDE DEF rest, q, n
<1>4. /\ q \in Seq(S) /\ Len(q) = (IF Len(rest) < limit THEN Len(rest) ELSE limit)
      /\ \A k \in 1..Len(q) : q[k] = rest[k]
  <2>1. LET s == Shorten(rest, limit)
        IN  /\ s \in Seq(S) /\ Len(s) = (IF Len(rest) < limit THEN Len(rest) ELSE limit)
            /\ \A k \in 1..Len(s) : s[k] = rest[k]
    BY <1>3, ShortenFact
  <2> QED BY <1>2, <2>1
<1>5. Len(q) \in Nat /\ Len(q) <= limit
  BY <1>1, <1>3, <1>4
<1>6. n <= offset => Len(q) = 0
  BY <1>1, <1>3, <1>4
<1>7. n > offset => Len(q) = IF n - offset < limit THEN n - offset ELSE limit
  BY <1>1, <1>3, <1>4
<1>8. ASSUME NEW k \in 1..Len(q) PROVE q[k] = x[offset + k] /\ offset + k \in 1..n
  <2>1. n > offset /\ k \in 1..n - (offset + 1) + 1 /\ offset + 1 + k - 1 = offset + k
    BY <1>1, <1>3, <1>4
  <2>2. offset + k \in 1..n
    BY <1>1, <2>1
  <2> QED BY <1>3, <1>4, <2>1, <2>2
<1> QED BY <1>4, <1>5, <1>6, <1>7, <1>8 DEF q, n

\* It depends on no more than the first offset + limit items, and repeats
\* nothing when the list does not.
LEMMA PageSame ==
    ASSUME NEW S, NEW x \in Seq(S), NEW y \in Seq(S), NEW offset \in Nat, NEW limit \in Nat,
           Shorten(x, offset + limit) = Shorten(y, offset + limit)
    PROVE  Page(x, offset, limit) = Page(y, offset, limit)
<1> DEFINE p == Page(x, offset, limit)
           q == Page(y, offset, limit)
           N == offset + limit
           a == Shorten(x, N)
           b == Shorten(y, N)
<1>1. Len(x) \in Nat /\ Len(y) \in Nat /\ N \in Nat
  BY LenProperties
<1>2. /\ Len(a) = IF Len(x) < N THEN Len(x) ELSE N
      /\ \A k \in 1..Len(a) : a[k] = x[k]
  <2> HIDE DEF N
  <2> QED BY <1>1, ShortenFact
<1>3. /\ Len(b) = IF Len(y) < N THEN Len(y) ELSE N
      /\ \A k \in 1..Len(b) : b[k] = y[k]
  <2> HIDE DEF N
  <2> QED BY <1>1, ShortenFact
<1>4. a = b
  OBVIOUS
<1> HIDE DEF a, b
<1>5. /\ p \in Seq(S) /\ Len(p) \in Nat /\ Len(p) <= limit
      /\ Len(x) <= offset => Len(p) = 0
      /\ Len(x) > offset => Len(p) = IF Len(x) - offset < limit THEN Len(x) - offset ELSE limit
      /\ \A k \in 1..Len(p) : p[k] = x[offset + k] /\ offset + k \in 1..Len(x)
  BY PageFact
<1>6. /\ q \in Seq(S) /\ Len(q) \in Nat /\ Len(q) <= limit
      /\ Len(y) <= offset => Len(q) = 0
      /\ Len(y) > offset => Len(q) = IF Len(y) - offset < limit THEN Len(y) - offset ELSE limit
      /\ \A k \in 1..Len(q) : q[k] = y[offset + k] /\ offset + k \in 1..Len(y)
  BY PageFact
<1> HIDE DEF p, q
<1>7. Len(p) = Len(q)
  <2>1. (IF Len(x) < N THEN Len(x) ELSE N) = (IF Len(y) < N THEN Len(y) ELSE N)
    BY <1>2, <1>3, <1>4
  <2>2. CASE Len(x) = Len(y)
    BY <1>1, <1>5, <1>6, <2>2
  <2>3. CASE Len(x) >= N /\ Len(y) >= N
    BY <1>1, <1>5, <1>6, <2>3
  <2> QED BY <1>1, <2>1, <2>2, <2>3
<1>8. ASSUME NEW k \in 1..Len(p) PROVE p[k] = q[k]
  <2> DEFINE i == offset + k
  <2>1. i \in 1..Len(x) /\ i \in 1..Len(y) /\ p[k] = x[i] /\ q[k] = y[i]
    BY <1>5, <1>6, <1>7
  <2>2. i <= N
    BY <1>5
  <2> HIDE DEF i, N
  <2>3. i \in 1..Len(a) /\ i \in 1..Len(b)
    BY <1>1, <1>2, <1>3, <2>1, <2>2
  <2>4. x[i] = y[i]
    BY <1>2, <1>3, <1>4, <2>3
  <2> QED BY <2>1, <2>4
<1> QED BY <1>5, <1>6, <1>7, <1>8, SeqEqual DEF p, q

LEMMA PageDistinct ==
    ASSUME NEW S, NEW x \in Seq(S), NEW offset \in Nat, NEW limit \in Nat,
           \A k, l \in 1..Len(x) : x[k] = x[l] => k = l
    PROVE  IsDistinct(Page(x, offset, limit))
<1> DEFINE p == Page(x, offset, limit)
<1>1. /\ p \in Seq(S) /\ Len(p) \in Nat
      /\ \A k \in 1..Len(p) : p[k] = x[offset + k] /\ offset + k \in 1..Len(x)
  BY PageFact
<1> HIDE DEF p
<1>2. DOMAIN p = 1..Len(p)
  BY <1>1, LenProperties
<1>3. ASSUME NEW k \in 1..Len(p), NEW l \in 1..Len(p), p[k] = p[l] PROVE k = l
  <2>1. offset + k = offset + l
    BY <1>1, <1>3
  <2> QED BY <2>1
<1> QED BY <1>2, <1>3 DEF IsDistinct, p

LEMMA NodesFact ==
    ASSUME alg = "nodes", done, in \in NodesInputs,
           out = MergedNodes(in.personal, in.shared, in.offset, in.limit)
    PROVE  NodesPage
<1> DEFINE p == in.personal
           s == in.shared
           o == in.offset
           lim == in.limit
           F == FetchLimit(o, lim)
           ps == Shorten(p, F)
           ss == Shorten(s, F)
           both == ps \o ss
           nodes == Distinct(both)
           all == Distinct(p \o s)
<1>1. /\ o \in Nat /\ lim \in Nat \ {0} /\ lim \in Nat
      /\ p \in Seq(Nodes) /\ s \in Seq(Nodes) /\ IsDistinct(p) /\ IsDistinct(s)
  <2>1. MaxPage \in Nat /\ MaxNodes \in Nat
    BY ListsAssumption
  <2>2. /\ in.personal \in DistinctUpTo(Nodes, MaxNodes) /\ in.shared \in DistinctUpTo(Nodes, MaxNodes)
        /\ in.offset \in 0..MaxPage /\ in.limit \in 1..MaxPage
    BY DEF NodesInputs
  <2>3. /\ p \in UpToLen(Nodes, MaxNodes) /\ IsDistinct(p)
        /\ s \in UpToLen(Nodes, MaxNodes) /\ IsDistinct(s)
    BY <2>2 DEF DistinctUpTo
  <2>4. p \in Seq(Nodes) /\ s \in Seq(Nodes)
    BY <2>1, <2>3, UpToLenFact
  <2> QED BY <2>1, <2>2, <2>3, <2>4
<1>2. F \in Nat /\ (o + lim <= QUERY_NODES_LIMIT_MAX => F = o + lim)
  BY <1>1, LimitMaxAssumption DEF FetchLimit
<1>3. /\ Len(p) \in Nat /\ Len(s) \in Nat
      /\ DOMAIN p = 1..Len(p) /\ DOMAIN s = 1..Len(s)
  BY <1>1, LenProperties
<1> HIDE DEF p, s, o, lim, F
<1>4. /\ ps \in Seq(Nodes) /\ Begins(ps, p)
      /\ (Len(p) >= F => Len(ps) = F) /\ (Len(p) <= F => ps = p)
  BY <1>1, <1>2, ShortenIs
<1>5. /\ ss \in Seq(Nodes) /\ Begins(ss, s)
      /\ (Len(s) >= F => Len(ss) = F) /\ (Len(s) <= F => ss = s)
  BY <1>1, <1>2, ShortenIs
<1> HIDE DEF ps, ss
<1>6. both \in Seq(Nodes) /\ p \o s \in Seq(Nodes) /\ Begins(ps, both)
  BY <1>1, <1>4, <1>5, ConcatBegins
<1>7. /\ nodes \in Seq(Nodes) /\ Len(nodes) \in 0..Len(both)
      /\ \A k, l \in 1..Len(nodes) : nodes[k] = nodes[l] => k = l
  <2> HIDE DEF both
  <2> QED BY <1>6, DistinctFact
<1>8. all \in Seq(Nodes)
  BY <1>6, DistinctFact
<1>9. out = Page(nodes, o, lim)
  <2> DEFINE q == PushNew(<<>>, both, Len(both))
  <2>1. out = Shorten(SubSeq(q, o + 1, Len(q)), lim)
    BY DEF MergedNodes, both, ps, ss, F, p, s, o, lim
  <2>2. Len(both) \in Nat
    BY <1>6, LenProperties
  <2> HIDE DEF both
  <2>3. q = Shorten(nodes, Len(both))
    BY <1>6, <2>2, PushFromNothing
  <2>4. Begins(nodes, nodes) /\ Len(nodes) <= Len(both)
    BY <1>7, <2>2 DEF Begins
  <2> HIDE DEF nodes
  <2>5. q = nodes
    BY <1>7, <2>2, <2>3, <2>4, ShortenBegins
  <2> QED BY <2>1, <2>5 DEF Page
<1> HIDE DEF both, nodes, all
<1>10. Len(out) <= lim /\ IsDistinct(out)
  <2>1. Len(out) <= lim
    BY <1>1, <1>7, <1>9, PageFact
  <2>2. IsDistinct(out)
    BY <1>1, <1>7, <1>9, PageDistinct
  <2> QED BY <2>1, <2>2
<1>11. Shorten(nodes, F) = Shorten(all, F)
  <2>1. CASE Len(p) >= F
    <3>1. Len(ps) = F /\ Len(ps) >= F
      BY <1>2, <1>4, <2>1
    <3>2. IsDistinct(ps)
      BY <1>1, <1>4, BeginsDistinct
    <3>3. Distinct(ps) = ps
      BY <1>4, <3>2, DistinctSame
    <3>4. Begins(ps, p \o s)
      <4>1. Begins(p, p \o s)
        BY <1>1, ConcatBegins
      <4> QED BY <1>1, <1>4, <1>6, <4>1, BeginsTransitive
    <3>5. Begins(ps, nodes)
      BY <1>4, <1>6, <3>3, DistinctBegins DEF nodes
    <3>6. Begins(ps, all)
      BY <1>4, <1>6, <3>3, <3>4, DistinctBegins DEF all
    <3>7. Shorten(ps, F) = Shorten(nodes, F)
      BY <1>2, <1>4, <1>7, <3>1, <3>5, ShortenBegins
    <3>8. Shorten(ps, F) = Shorten(all, F)
      BY <1>2, <1>4, <1>8, <3>1, <3>6, ShortenBegins
    <3> QED BY <3>7, <3>8
  <2>2. CASE Len(p) < F
    <3>1. ps = p
      BY <1>2, <1>3, <1>4, <2>2
    <3>2. CASE Len(s) <= F
      BY <1>5, <3>1, <3>2 DEF nodes, all, both
    <3>3. CASE Len(s) > F
      <4>1. Len(ss) = F
        BY <1>2, <1>3, <1>5, <3>3
      <4>2. Begins(both, p \o s)
        BY <1>1, <1>5, <3>1, ConcatGrows DEF both
      <4>3. Begins(nodes, all)
        BY <1>6, <4>2, DistinctBegins DEF nodes, all
      <4>4. IsDistinct(ss)
        BY <1>1, <1>5, BeginsDistinct
      <4>5. Len(nodes) >= F
        BY <1>4, <1>5, <4>1, <4>4, DistinctLong DEF nodes, both
      <4> QED BY <1>2, <1>7, <1>8, <4>3, <4>5, ShortenBegins
    <3> QED BY <1>2, <1>3, <3>2, <3>3
  <2> QED BY <1>2, <1>3, <2>1, <2>2
<1>12. o + lim <= QUERY_NODES_LIMIT_MAX => out = Page(all, o, lim)
  BY <1>1, <1>2, <1>7, <1>8, <1>9, <1>11, PageSame
<1> QED BY <1>10, <1>12 DEF NodesPage, Page, all, p, s, o, lim

LEMMA SchemasFact ==
    ASSUME alg = "schemas", done, in \in SchemaInputs,
           out = filter_schemas_for_user_and_shared(in.schemas, "user-1", "shared")
    PROVE  SchemasShown
<1> DEFINE s == in.schemas
           u == "user-1"
           c == "shared"
<1>1. DOMAIN s = 1..Len(s)
  <2>1. s \in UpToLen(Schemas, MaxSchemas) /\ MaxSchemas \in Nat
    BY ListsAssumption DEF SchemaInputs
  <2> QED BY <2>1, UpToLenFact
<1>2. ToSet(s) = {s[i] : i \in 1..Len(s)}
  BY <1>1 DEF ToSet
<1>3. \A x : Contains(s, x) <=> x \in ToSet(s)
  BY <1>2 DEF Contains
<1> DEFINE A == IF Contains(s, u) THEN <<u>> ELSE <<>>
           B == IF Contains(s, c) THEN <<c>> ELSE <<>>
<1>4. out = A \o B
  BY DEF filter_schemas_for_user_and_shared
<1>5. /\ \A x : IsFiniteSet({x}) /\ Cardinality({x}) = 1
      /\ Cardinality({}) = 0
      /\ Cardinality({u, c}) = 2
  <2>1. \A x : IsFiniteSet({x}) /\ Cardinality({x}) = 1
    BY FS_Singleton
  <2>2. Cardinality({}) = 0
    BY FS_EmptySet
  <2>3. Cardinality({u} \cup {c}) = Cardinality({u}) + 1
    BY <2>1, FS_AddElement
  <2>4. {u, c} = {u} \cup {c}
    OBVIOUS
  <2>5. Cardinality({u}) = 1
    BY <2>1
  <2>6. Cardinality({u, c}) = 2
    <3>1. Cardinality({u, c}) = Cardinality({u} \cup {c})
      BY <2>4
    <3> QED BY <2>3, <2>5, <3>1
  <2> QED BY <2>1, <2>2, <2>6
<1>6. \/ out = <<>> /\ ToSet(s) \cap {u, c} = {}
      \/ out = <<u>> /\ ToSet(s) \cap {u, c} = {u}
      \/ out = <<c>> /\ ToSet(s) \cap {u, c} = {c}
      \/ out = <<u, c>> /\ ToSet(s) \cap {u, c} = {u, c}
  <2> HIDE DEF s
  <2>1. CASE u \in ToSet(s) /\ c \in ToSet(s)
    <3>1. <<u>> \o <<c>> = <<u, c>>
      <4> DEFINE a == <<u>>
                 b == <<c>>
                 w == <<u, c>>
                 S == {u, c}
      <4>1. /\ a \in Seq(S) /\ b \in Seq(S) /\ w \in Seq(S)
            /\ Len(a) = 1 /\ Len(b) = 1 /\ Len(w) = 2
            /\ a[1] = u /\ b[1] = c /\ w[1] = u /\ w[2] = c
        OBVIOUS
      <4> HIDE DEF a, b, w, S
      <4>2. /\ a \o b \in Seq(S) /\ Len(a \o b) = 2
            /\ (a \o b)[1] = a[1] /\ (a \o b)[2] = b[1]
        BY <4>1, ConcatProperties
      <4>3. \A i \in 1..2 : i = 1 \/ i = 2
        OBVIOUS
      <4>4. \A i \in 1..2 : (a \o b)[i] = w[i]
        BY <4>1, <4>2, <4>3
      <4>5. a \o b = w
        BY <4>1, <4>2, <4>4, SeqEqual
      <4> QED BY <4>5 DEF a, b, w
    <3>2. A = <<u>> /\ B = <<c>>
      BY <1>3, <2>1
    <3>3. ToSet(s) \cap {u, c} = {u, c}
      BY <2>1
    <3> HIDE DEF A, B
    <3> QED BY <1>4, <3>1, <3>2, <3>3
  <2>2. CASE u \in ToSet(s) /\ c \notin ToSet(s)
    BY <1>3, <1>4, <2>2
  <2>3. CASE u \notin ToSet(s) /\ c \in ToSet(s)
    BY <1>3, <1>4, <2>3
  <2>4. CASE u \notin ToSet(s) /\ c \notin ToSet(s)
    BY <1>3, <1>4, <2>4
  <2> QED BY <2>1, <2>2, <2>3, <2>4
<1>7. /\ Len(<<>>) = 0 /\ ToSet(<<>>) = {}
      /\ \A x : Len(<<x>>) = 1 /\ DOMAIN <<x>> = {1} /\ <<x>>[1] = x /\ ToSet(<<x>>) = {x}
      /\ Len(<<u, c>>) = 2 /\ DOMAIN <<u, c>> = {1, 2} /\ ToSet(<<u, c>>) = {u, c}
      /\ <<u, c>>[1] = u /\ <<u, c>>[2] = c
  BY DEF ToSet
<1> HIDE DEF A, B
<1>8. ToSet(out) = ToSet(s) \cap {u, c}
  BY <1>6, <1>7
<1>9. \A i \in DOMAIN out : out[i] = u => i = 1
  BY <1>6, <1>7
<1>10. Len(out) = Cardinality(ToSet(out))
  <2>1. CASE out = <<>>
    BY <1>5, <1>7, <2>1
  <2>2. CASE out = <<u>>
    <3>1. ToSet(<<u>>) = {u} /\ Len(<<u>>) = 1
      BY <1>7
    <3>2. Cardinality({u}) = 1
      BY <1>5
    <3> QED BY <2>2, <3>1, <3>2
  <2>3. CASE out = <<c>>
    <3>1. ToSet(<<c>>) = {c} /\ Len(<<c>>) = 1
      BY <1>7
    <3>2. Cardinality({c}) = 1
      BY <1>5
    <3> QED BY <2>3, <3>1, <3>2
  <2>4. CASE out = <<u, c>>
    BY <1>5, <1>7, <2>4
  <2> QED BY <1>6, <2>1, <2>2, <2>3, <2>4
<1> QED BY <1>8, <1>9, <1>10 DEF SchemasShown

\* search, query_nodes and list_schemas: one answer made of two with nothing
\* lost, repeated or foreign in it (TwoAnswersOne), for answers of any length.
THEOREM AnswersMerged == Spec => []TwoAnswersOne
<1> DEFINE Ran ==
      /\ alg = "search" => in \in SearchInputs
            /\ (done => out = MergedSearch(in.personal, in.shared, in.top_k))
      /\ alg = "nodes" => in \in NodesInputs
            /\ (done => out = MergedNodes(in.personal, in.shared, in.offset, in.limit))
      /\ alg = "schemas" => in \in SchemaInputs
            /\ (done => out = filter_schemas_for_user_and_shared(in.schemas, "user-1", "shared"))
<1>1. Ran => TwoAnswersOne
  <2>1. Ran => SearchMerged
    BY SearchFact DEF SearchMerged
  <2>2. Ran => NodesPage
    BY NodesFact DEF NodesPage
  <2>3. Ran => SchemasShown
    BY SchemasFact DEF SchemasShown
  <2> QED BY <2>1, <2>2, <2>3 DEF TwoAnswersOne
<1>2. Init => Ran
  BY DEF Init
<1>3. Ran /\ [Next]_vars => Ran'
  BY DEF Next, Run, vars
<1> QED BY <1>1, <1>2, <1>3, PTL DEF Spec

-----------------------------------------------------------------------------
(* LlmClient                                                               *)

LEMMA GreatestNumber ==
    ASSUME NEW n \in Nat, NEW T \in SUBSET (0..n), T # {}
    PROVE  \E m \in T : \A k \in T : m >= k
<1> DEFINE U == {n - k : k \in T}
<1>1. \A k \in T : k \in 0..n /\ n - k \in Nat
  OBVIOUS
<1>2. U \in SUBSET Nat /\ U # {}
  BY <1>1
<1>3. PICK u \in U : \A v \in U : u <= v
  BY <1>2, LeastNumber
<1>4. PICK m \in T : u = n - m
  BY <1>3
<1>5. \A k \in T : n - m <= n - k
  BY <1>3, <1>4
<1> QED BY <1>1, <1>5

LEMMA PartFact ==
    ASSUME NEW S, NEW s \in Seq(S), NEW m \in 1..Len(s) + 1, NEW n \in m - 1..Len(s)
    PROVE  /\ SubSeq(s, m, n) \in Seq(S) /\ Len(SubSeq(s, m, n)) = n - m + 1
           /\ \A i \in 1..n - m + 1 : SubSeq(s, m, n)[i] = s[m + i - 1]
<1>1. Len(s) \in Nat /\ \A i \in 1..Len(s) : s[i] \in S
  BY LenProperties, ElementOfSeq
<1>2. m \in Int /\ n \in Int /\ \A i \in m..n : s[i] \in S
  BY <1>1
<1>3. /\ SubSeq(s, m, n) \in Seq(S)
      /\ Len(SubSeq(s, m, n)) = IF m <= n THEN n - m + 1 ELSE 0
      /\ \A i \in 1..n - m + 1 : SubSeq(s, m, n)[i] = s[m + i - 1]
  BY <1>2, SubSeqProperties
<1>4. Len(SubSeq(s, m, n)) = n - m + 1
  BY <1>1, <1>2, <1>3
<1> QED BY <1>3, <1>4

LEMMA FlattenTwo ==
    ASSUME NEW S, NEW a \in Seq(S), NEW b \in Seq(S)
    PROVE  FlattenSeq(<<a, b>>) = a \o b
<1> DEFINE s == <<a, b>>
           Good(f) == f = [i \in 1..Len(s) |-> IF i = 1 THEN s[i] ELSE f[i - 1] \o s[i]]
           g == [i \in 1..2 |-> IF i = 1 THEN a ELSE a \o b]
           c == CHOOSE f : Good(f)
<1>1. Len(s) = 2 /\ s[1] = a /\ s[2] = b
  OBVIOUS
<1>2. FlattenSeq(s) = c[Len(s)]
  BY <1>1 DEF FlattenSeq
<1> HIDE DEF s
<1>3. Good(g)
  <2>1. g[1] = a /\ g[2] = a \o b
    OBVIOUS
  <2>2. \A i \in 1..2 : g[i] = IF i = 1 THEN s[i] ELSE g[i - 1] \o s[i]
    <3> HIDE DEF g
    <3>1. g[1] = s[1] /\ g[2] = g[1] \o s[2]
      BY <1>1, <2>1
    <3> SUFFICES ASSUME NEW i \in 1..2
                 PROVE  g[i] = IF i = 1 THEN s[i] ELSE g[i - 1] \o s[i]
      OBVIOUS
    <3>2. CASE i = 1
      BY <3>1, <3>2
    <3>3. CASE i = 2
      <4>1. i - 1 = 1 /\ i # 1
        BY <3>3
      <4> QED BY <3>1, <3>3, <4>1
    <3> QED BY <3>2, <3>3
  <2>3. g = [i \in 1..2 |-> g[i]]
    OBVIOUS
  <2> HIDE DEF g
  <2> QED BY <1>1, <2>2, <2>3
<1>4. Good(c)
  <2> HIDE DEF Good
  <2> QED BY <1>3
<1>5. c = [i \in 1..2 |-> IF i = 1 THEN s[i] ELSE c[i - 1] \o s[i]]
  <2> HIDE DEF c
  <2> QED BY <1>1, <1>4 DEF c
<1> HIDE DEF c
<1>6. c[1] = a
  BY <1>1, <1>5
<1>7. c[2] = c[1] \o b
  <2>1. 2 \in 1..2 /\ 2 - 1 = 1 /\ 2 # 1
    OBVIOUS
  <2>2. c[2] = c[2 - 1] \o s[2]
    BY <1>5, <2>1
  <2> QED BY <1>1, <2>1, <2>2
<1> QED BY <1>1, <1>2, <1>6, <1>7 DEF s

\* The characters of a text, named: the provers know them apart by these names.
OpenBrace == "{"
CloseBrace == "}"
Quote == "q"
Chars == {"{", "}", "q", "x"}

LEMMA CharsFact ==
    /\ OpenBrace # CloseBrace /\ Quote # OpenBrace /\ Quote # CloseBrace
    /\ OpenBrace \in Chars /\ CloseBrace \in Chars /\ Quote \in Chars
BY Zenon DEF OpenBrace, CloseBrace, Quote, Chars

\* What a character outside of a string adds to the open braces.
Nesting(c) == CASE c = OpenBrace -> 1 [] c = CloseBrace -> -1 [] OTHER -> 0

JsonStates == [depth : Int, quoted : BOOLEAN]
Unread == [depth |-> 0, quoted |-> FALSE]

LEMMA NestingFact ==
    ASSUME NEW c
    PROVE  Nesting(c) \in Int /\ (c # CloseBrace => Nesting(c) >= 0)
BY CharsFact DEF Nesting

LEMMA ReadJsonFact ==
    ASSUME NEW r \in JsonStates, NEW c
    PROVE  /\ ReadJson(r, c) \in JsonStates
           /\ r.quoted => ReadJson(r, c).depth = r.depth
           /\ ~r.quoted => ReadJson(r, c).depth = r.depth + Nesting(c)
           /\ c = Quote => (ReadJson(r, c).quoted <=> ~r.quoted)
           /\ c # Quote => (ReadJson(r, c).quoted <=> r.quoted)
<1> DEFINE k == Nesting(c)
           depth == IF r.quoted THEN r.depth ELSE r.depth + k
           quoted == IF c = Quote THEN ~r.quoted ELSE r.quoted
<1>1. k \in Int /\ r.depth \in Int /\ r.quoted \in BOOLEAN
  BY NestingFact DEF JsonStates
<1>2. ReadJson(r, c) = [depth |-> depth, quoted |-> quoted]
  BY Zenon DEF ReadJson, Nesting, OpenBrace, CloseBrace, Quote
<1> HIDE DEF k
<1>3. depth \in Int /\ quoted \in BOOLEAN
  <2>1. depth \in Int
    BY <1>1
  <2>2. quoted \in BOOLEAN
    BY <1>1, Zenon
  <2> QED BY <2>1, <2>2
<1>4. r.quoted => depth = r.depth
  BY <1>1
<1>5. ~r.quoted => depth = r.depth + k
  BY <1>1
<1>6. (c = Quote => (quoted <=> ~r.quoted)) /\ (c # Quote => (quoted <=> r.quoted))
  BY <1>1, Zenon
<1> HIDE DEF depth, quoted
<1>7. ReadJson(r, c).depth = depth /\ ReadJson(r, c).quoted = quoted
  BY <1>2
<1>8. ReadJson(r, c) \in JsonStates
  BY <1>2, <1>3 DEF JsonStates
<1> QED BY <1>4, <1>5, <1>6, <1>7, <1>8, Zenon DEF k

JsonReads(d, s) == /\ d \in [0..Len(s) -> JsonStates] /\ d[0] = Unread
                   /\ \A n \in 1..Len(s) : d[n] = ReadJson(d[n - 1], s[n])

\* The braces of s match, and nothing comes behind the one that closes the first.
Matched(d, s) == /\ Len(s) > 1 /\ d[Len(s)].depth = 0
                 /\ \A n \in 1..Len(s) - 1 : d[n].depth > 0

LEMMA ObjectUnfolds ==
    ASSUME NEW S, NEW s \in Seq(S)
    PROVE  \E d : JsonReads(d, s) /\ (IsObject(s) <=> Matched(d, s))
<1> DEFINE N == Len(s)
           J == JsonStates
           F == [p \in J \X (1..N) |-> ReadJson(p[1], s[p[2]])]
           Good(g) == g = [n \in 0..N |-> IF n = 0 THEN [depth |-> 0, quoted |-> FALSE]
                                          ELSE ReadJson(g[n - 1], s[n])]
           c == CHOOSE g : Good(g)
<1>1. N \in Nat /\ Unread \in J
  BY LenProperties DEF Unread, JsonStates
<1>2. IsObject(s) <=> Matched(c, s)
  BY Zenon DEF IsObject, Matched
<1> HIDE DEF N
<1>3. \A r \in J, n \in 1..N : ReadJson(r, s[n]) \in J
  BY ReadJsonFact
<1> HIDE DEF J
<1>4. F \in [J \X (1..N) -> J]
  BY <1>3
<1>5. PICK g \in [0..N -> J] : g[0] = Unread /\ \A n \in 1..N : g[n] = F[<<g[n - 1], n>>]
  <2> HIDE DEF F
  <2>1. \E g \in [0..N -> J] : Follows(g, Unread, F, N)
    BY <1>1, <1>4, Recursion
  <2> QED BY <2>1 DEF Follows
<1>6. \A n \in 0..N : n = 0 \/ n \in 1..N
  BY <1>1
<1>7. \A n \in 1..N : F[<<g[n - 1], n>>] = ReadJson(g[n - 1], s[n])
  <2>1. \A n \in 1..N : <<g[n - 1], n>> \in J \X (1..N)
    BY <1>1
  <2> QED BY <2>1
<1>8. Good(g)
  <2> HIDE DEF F
  <2>1. g = [n \in 0..N |-> g[n]]
    OBVIOUS
  <2>2. \A n \in 0..N : g[n] = IF n = 0 THEN Unread ELSE ReadJson(g[n - 1], s[n])
    BY <1>5, <1>6, <1>7
  <2> QED BY <2>1, <2>2 DEF Unread
<1>9. Good(c)
  <2> HIDE DEF Good
  <2> QED BY <1>8
<1>10. \A n \in 0..N : c[n] = IF n = 0 THEN Unread ELSE ReadJson(c[n - 1], s[n])
  <2> HIDE DEF c
  <2> QED BY <1>9 DEF Unread
<1>11. c = [n \in 0..N |-> c[n]]
  <2> HIDE DEF c
  <2> QED BY <1>9
<1> HIDE DEF c, Good
<1>12. c[0] = Unread /\ \A n \in 1..N : c[n] = ReadJson(c[n - 1], s[n])
  <2>1. 0 \in 0..N /\ \A n \in 1..N : n \in 0..N /\ n # 0
    BY <1>1
  <2> QED BY <1>10, <2>1
<1>13. \A n \in 0..N : c[n] \in J
  <2> DEFINE V == {n \in 0..N : c[n] \in J}
  <2>1. 0 \in V
    BY <1>1, <1>12
  <2>2. ASSUME NEW n \in 1..N, n - 1 \in V PROVE n \in V
    <3>1. n \in 0..N
      BY <1>1
    <3> QED BY <1>3, <1>12, <2>2, <3>1
  <2>3. \A n \in 0..N : n \in V
    <3> HIDE DEF V
    <3> QED BY <1>1, <2>1, <2>2, UptoInduction
  <2> QED BY <2>3
<1>14. c \in [0..N -> J]
  BY <1>11, <1>13
<1>15. JsonReads(c, s)
  BY <1>12, <1>14 DEF JsonReads, N, J
<1> QED BY <1>2, <1>15

\* An object ends with a brace that no string holds.
LEMMA ObjectEnds ==
    ASSUME NEW S, NEW s \in Seq(S), NEW d, JsonReads(d, s), Matched(d, s)
    PROVE  s[Len(s)] = CloseBrace /\ ~d[Len(s)].quoted
<1> DEFINE m == Len(s)
           e == s[m]
           p == d[m - 1]
           k == Nesting(e)
<1>1. m \in Nat /\ m > 1
  BY LenProperties DEF Matched
<1>2. /\ p \in JsonStates /\ d[m] = ReadJson(p, e) /\ d[m].depth = 0 /\ p.depth > 0
  <2>1. m - 1 \in 0..m /\ m - 1 \in 1..m - 1 /\ m \in 1..m
    BY <1>1
  <2> QED BY <2>1 DEF JsonReads, Matched
<1>3. k \in Int /\ (e # CloseBrace => k >= 0)
  <2> HIDE DEF e
  <2> QED BY NestingFact
<1> HIDE DEF m, e, p
<1>4. p.depth \in Int
  BY <1>2 DEF JsonStates
<1>5. ~p.quoted
  <2> SUFFICES ASSUME p.quoted PROVE FALSE
    OBVIOUS
  <2>1. ReadJson(p, e).depth = p.depth
    BY <1>2, ReadJsonFact
  <2> QED BY <1>2, <1>4, <2>1
<1>6. d[m].depth = p.depth + k
  BY <1>2, <1>5, ReadJsonFact
<1> HIDE DEF k
<1>7. e = CloseBrace
  <2>1. ~(k >= 0)
    BY <1>2, <1>3, <1>4, <1>6
  <2> QED BY <1>3, <2>1
<1>8. ~d[m].quoted
  BY <1>2, <1>5, <1>7, ReadJsonFact, CharsFact
<1> QED BY <1>7, <1>8 DEF m, e

\* No beginning of an object is an object; an object ends with a brace.
LEMMA ObjectFact ==
    ASSUME NEW S, NEW s \in Seq(S), IsObject(s)
    PROVE  /\ Len(s) \in Nat /\ Len(s) > 1 /\ s[Len(s)] = CloseBrace
           /\ \A t \in Seq(S) : Begins(t, s) /\ Len(t) < Len(s) => ~IsObject(t)
<1> DEFINE m == Len(s)
<1>1. m \in Nat
  BY LenProperties
<1>2. PICK d : JsonReads(d, s) /\ Matched(d, s)
  BY ObjectUnfolds
<1>3. s[m] = CloseBrace /\ m > 1
  BY <1>2, ObjectEnds DEF Matched
<1>4. ASSUME NEW t \in Seq(S), Begins(t, s), Len(t) < m, IsObject(t) PROVE FALSE
  <2> DEFINE k == Len(t)
  <2>1. k \in Nat
    BY LenProperties
  <2>2. PICK e : JsonReads(e, t) /\ Matched(e, t)
    BY <1>4, ObjectUnfolds
  <2>3. k > 1 /\ e[k].depth = 0
    BY <2>2 DEF Matched
  <2>4. \A n \in 1..k : s[n] = t[n] /\ n \in 1..m
    BY <1>1, <1>4, <2>1 DEF Begins
  <2>5. e[0] = d[0] /\ \A n \in 1..k : e[n] = ReadJson(e[n - 1], t[n])
    BY <1>2, <2>2 DEF JsonReads
  <2>6. \A n \in 1..m : d[n] = ReadJson(d[n - 1], s[n])
    BY <1>2 DEF JsonReads
  <2>7. k < m
    BY <1>4
  <2> HIDE DEF k, m
  <2> DEFINE V == {n \in 0..k : e[n] = d[n]}
  <2>8. 0 \in V
    BY <2>1, <2>5
  <2>9. ASSUME NEW n \in 1..k, n - 1 \in V PROVE n \in V
    <3>1. n \in 0..k /\ e[n - 1] = d[n - 1]
      BY <2>1, <2>9
    <3> QED BY <2>4, <2>5, <2>6, <3>1
  <2>10. \A n \in 0..k : n \in V
    <3> HIDE DEF V
    <3> QED BY <2>1, <2>8, <2>9, UptoInduction
  <2>11. k \in 0..k /\ k \in 1..m - 1
    BY <1>1, <2>1, <2>3, <2>7
  <2>12. d[k].depth > 0
    BY <1>2, <2>11 DEF Matched, m
  <2>13. d[k].depth = 0
    BY <2>3, <2>10, <2>11
  <2> QED BY <2>12, <2>13
<1> QED BY <1>1, <1>3, <1>4 DEF m

\* The first and the last place at which c stands in t.
FirstPlace(t, c, o) == o \in 1..Len(t) /\ t[o] = c /\ \A i \in 1..o - 1 : t[i] # c
LastPlace(t, c, e) == e \in 1..Len(t) /\ t[e] = c /\ \A i \in e + 1..Len(t) : t[i] # c

LEMMA ExtractUnfolds ==
    ASSUME NEW t
    PROVE  extract_json(t) =
             IF Places(t, OpenBrace) = {} \/ Places(t, CloseBrace) = {} THEN <<>>
             ELSE SubSeq(t, CHOOSE i \in Places(t, OpenBrace) : \A j \in Places(t, OpenBrace) : i <= j,
                            CHOOSE i \in Places(t, CloseBrace) : \A j \in Places(t, CloseBrace) : i >= j)
BY Zenon DEF extract_json, OpenBrace, CloseBrace

\* extract_json takes out what lies between the two places, or nothing.
LEMMA ExtractFact ==
    ASSUME NEW S, NEW t \in Seq(S)
    PROVE  /\ \A o, e : FirstPlace(t, OpenBrace, o) /\ LastPlace(t, CloseBrace, e)
                          => extract_json(t) = SubSeq(t, o, e)
           /\ \/ extract_json(t) = <<>>
              \/ \E o, e : FirstPlace(t, OpenBrace, o) /\ LastPlace(t, CloseBrace, e)
<1> DEFINE opens == Places(t, OpenBrace)
           closes == Places(t, CloseBrace)
           first == CHOOSE i \in opens : \A j \in opens : i <= j
           last == CHOOSE i \in closes : \A j \in closes : i >= j
<1>1. Len(t) \in Nat /\ DOMAIN t = 1..Len(t)
  BY LenProperties
<1>2. /\ opens \in SUBSET (1..Len(t)) /\ closes \in SUBSET (1..Len(t))
      /\ \A i \in 1..Len(t) : (i \in opens <=> t[i] = OpenBrace)
      /\ \A i \in 1..Len(t) : (i \in closes <=> t[i] = CloseBrace)
  BY <1>1 DEF Places
<1>3. extract_json(t) = IF opens = {} \/ closes = {} THEN <<>> ELSE SubSeq(t, first, last)
  BY ExtractUnfolds
<1> HIDE DEF opens, closes
<1>4. opens # {} => first \in opens /\ \A j \in opens : first <= j
  <2> SUFFICES ASSUME opens # {} PROVE first \in opens /\ \A j \in opens : first <= j
    OBVIOUS
  <2>1. opens \in SUBSET Nat
    BY <1>1, <1>2
  <2>2. \E i \in opens : \A j \in opens : i <= j
    BY <2>1, LeastNumber
  <2> QED BY <2>2
<1>5. closes # {} => last \in closes /\ \A j \in closes : last >= j
  <2> SUFFICES ASSUME closes # {} PROVE last \in closes /\ \A j \in closes : last >= j
    OBVIOUS
  <2>1. closes \in SUBSET (0..Len(t))
    BY <1>1, <1>2
  <2>2. \E i \in closes : \A j \in closes : i >= j
    BY <1>1, <2>1, GreatestNumber
  <2> QED BY <2>2
<1> HIDE DEF first, last
<1>6. ASSUME NEW o, NEW e, FirstPlace(t, OpenBrace, o), LastPlace(t, CloseBrace, e)
      PROVE  extract_json(t) = SubSeq(t, o, e)
  <2>1. o \in opens /\ e \in closes /\ o \in 1..Len(t) /\ e \in 1..Len(t)
    BY <1>2, <1>6 DEF FirstPlace, LastPlace
  <2>2. first \in opens /\ first <= o /\ last \in closes /\ last >= e
    BY <1>4, <1>5, <2>1
  <2>3. first \in 1..Len(t) /\ t[first] = OpenBrace /\ last \in 1..Len(t) /\ t[last] = CloseBrace
    BY <1>2, <2>2
  <2>4. first = o
    BY <1>1, <1>6, <2>1, <2>2, <2>3 DEF FirstPlace
  <2>5. last = e
    BY <1>1, <1>6, <2>1, <2>2, <2>3 DEF LastPlace
  <2> QED BY <1>3, <2>1, <2>4, <2>5
<1>7. ASSUME extract_json(t) # <<>>
      PROVE  FirstPlace(t, OpenBrace, first) /\ LastPlace(t, CloseBrace, last)
  <2>1. opens # {} /\ closes # {}
    BY <1>3, <1>7
  <2>2. first \in 1..Len(t) /\ t[first] = OpenBrace /\ last \in 1..Len(t) /\ t[last] = CloseBrace
    BY <1>2, <1>4, <1>5, <2>1
  <2>3. \A i \in 1..first - 1 : i \in 1..Len(t) /\ ~(first <= i)
    BY <1>1, <2>2
  <2>4. \A i \in last + 1..Len(t) : i \in 1..Len(t) /\ ~(last >= i)
    BY <1>1, <2>2
  <2>5. FirstPlace(t, OpenBrace, first)
    BY <1>2, <1>4, <2>1, <2>2, <2>3 DEF FirstPlace
  <2>6. LastPlace(t, CloseBrace, last)
    BY <1>2, <1>5, <2>1, <2>2, <2>4 DEF LastPlace
  <2> QED BY <2>5, <2>6
<1> QED BY <1>6, <1>7

\* A text that ends with an object, and has an open brace before it, is none.
LEMMA OpenedFact ==
    ASSUME NEW S, NEW s \in Seq(S), NEW w \in Seq(S), IsObject(w), NEW M \in Nat, M > 0,
           Len(s) = M + Len(w), \A i \in 1..Len(w) : s[M + i] = w[i]
    PROVE  ~IsObject(s)
<1> DEFINE W == Len(w)
<1>1. W \in Nat /\ W > 1
  BY ObjectFact
<1>2. PICK d : JsonReads(d, w) /\ Matched(d, w)
  BY ObjectUnfolds
<1>3. PICK c : JsonReads(c, s) /\ (IsObject(s) <=> Matched(c, s))
  BY ObjectUnfolds
<1>4. ~d[W].quoted /\ d[W].depth = 0
  BY <1>2, ObjectEnds DEF Matched
<1>5. /\ \A n \in 0..W : d[n] \in JsonStates
      /\ d[0] = Unread /\ \A n \in 1..W : d[n] = ReadJson(d[n - 1], w[n])
  BY <1>2 DEF JsonReads
<1> SUFFICES ASSUME Matched(c, s) PROVE FALSE
  BY <1>3
<1>6. ~c[M + W].quoted /\ c[M + W].depth = 0 /\ c[M].depth > 0
  <2>1. M \in 1..Len(s) - 1
    BY <1>1
  <2> QED BY <1>3, <2>1, ObjectEnds DEF Matched
<1>7. \A n \in 0..W : c[M + n] \in JsonStates
  <2>1. \A n \in 0..W : M + n \in 0..Len(s)
    BY <1>1
  <2> QED BY <1>3, <2>1 DEF JsonReads
<1>8. \A n \in 1..W : c[M + n] = ReadJson(c[M + n - 1], w[n])
  <2>1. \A n \in 1..W : M + n \in 1..Len(s)
    BY <1>1
  <2> QED BY <1>3, <2>1 DEF JsonReads
<1> HIDE DEF W
<1>9. \A n \in 1..W : n - 1 \in 0..W /\ M + n - 1 = M + (n - 1)
  BY <1>1
<1>10. Unread.depth = 0 /\ ~Unread.quoted /\ M + 0 = M /\ 0 \in 0..W /\ W \in 0..W
  BY <1>1 DEF Unread
<1>11. CASE c[M].quoted
  <2> DEFINE V == {n \in 0..W : c[M + n].quoted <=> ~d[n].quoted}
  <2>1. 0 \in V
    BY <1>5, <1>10, <1>11
  <2>2. ASSUME NEW n \in 1..W, n - 1 \in V PROVE n \in V
    <3> DEFINE x == c[M + (n - 1)]
               y == d[n - 1]
               k == w[n]
    <3>1. n \in 0..W /\ x \in JsonStates /\ y \in JsonStates /\ (x.quoted <=> ~y.quoted)
      <4>1. n \in 0..W /\ n - 1 \in 0..W
        BY <1>1
      <4>2. x \in JsonStates /\ y \in JsonStates
        BY <1>5, <1>7, <4>1
      <4>3. x.quoted <=> ~y.quoted
        BY <2>2, Zenon
      <4> QED BY <4>1, <4>2, <4>3
    <3>2. c[M + n] = ReadJson(x, k) /\ d[n] = ReadJson(y, k)
      BY <1>5, <1>8, <1>9
    <3> HIDE DEF x, y, k
    <3>3. /\ k = Quote => (ReadJson(x, k).quoted <=> ~x.quoted)
          /\ k # Quote => (ReadJson(x, k).quoted <=> x.quoted)
          /\ k = Quote => (ReadJson(y, k).quoted <=> ~y.quoted)
          /\ k # Quote => (ReadJson(y, k).quoted <=> y.quoted)
      BY <3>1, ReadJsonFact
    <3>4. ReadJson(x, k).quoted <=> ~ReadJson(y, k).quoted
      BY <3>1, <3>3, Zenon
    <3> QED BY <3>1, <3>2, <3>4
  <2>3. \A n \in 0..W : n \in V
    <3> HIDE DEF V
    <3> QED BY <1>1, <2>1, <2>2, UptoInduction
  <2>4. c[M + W].quoted <=> ~d[W].quoted
    BY <1>10, <2>3
  <2> QED BY <1>4, <1>6, <2>4 DEF W
<1>12. CASE ~c[M].quoted
  <2> DEFINE h == c[M].depth
             V == {n \in 0..W : /\ c[M + n].quoted <=> d[n].quoted
                                /\ c[M + n].depth = h + d[n].depth}
  <2>1. h \in Int
    BY <1>7, <1>10 DEF JsonStates
  <2>2. 0 \in V
    <3>1. c[M + 0].quoted <=> d[0].quoted
      BY <1>5, <1>10, <1>12
    <3>2. c[M + 0].depth = h + d[0].depth
      BY <1>5, <1>10, <2>1
    <3> QED BY <1>10, <3>1, <3>2
  <2>3. ASSUME NEW n \in 1..W, n - 1 \in V PROVE n \in V
    <3> DEFINE x == c[M + (n - 1)]
               y == d[n - 1]
               k == w[n]
               z == Nesting(k)
    <3>1. /\ n \in 0..W /\ x \in JsonStates /\ y \in JsonStates
          /\ x.quoted <=> y.quoted
          /\ x.depth = h + y.depth
      <4>1. n \in 0..W /\ n - 1 \in 0..W
        BY <1>1
      <4>2. x \in JsonStates /\ y \in JsonStates
        BY <1>5, <1>7, <4>1
      <4>3. (x.quoted <=> y.quoted) /\ x.depth = h + y.depth
        BY <2>3, Zenon
      <4> QED BY <4>1, <4>2, <4>3
    <3>2. c[M + n] = ReadJson(x, k) /\ d[n] = ReadJson(y, k)
      BY <1>5, <1>8, <1>9
    <3> HIDE DEF x, y, k, h
    <3>3. /\ k = Quote => (ReadJson(x, k).quoted <=> ~x.quoted)
          /\ k # Quote => (ReadJson(x, k).quoted <=> x.quoted)
          /\ k = Quote => (ReadJson(y, k).quoted <=> ~y.quoted)
          /\ k # Quote => (ReadJson(y, k).quoted <=> y.quoted)
          /\ x.quoted => ReadJson(x, k).depth = x.depth
          /\ ~x.quoted => ReadJson(x, k).depth = x.depth + z
          /\ y.quoted => ReadJson(y, k).depth = y.depth
          /\ ~y.quoted => ReadJson(y, k).depth = y.depth + z
      BY <3>1, ReadJsonFact
    <3>4. ReadJson(x, k).quoted <=> ReadJson(y, k).quoted
      BY <3>1, <3>3, Zenon
    <3>5. z \in Int /\ x.depth \in Int /\ y.depth \in Int
      BY <3>1, NestingFact DEF JsonStates
    <3>6. ReadJson(x, k).depth = h + ReadJson(y, k).depth
      <4>1. CASE y.quoted
        BY <3>1, <3>3, <4>1, Zenon
      <4>2. CASE ~y.quoted
        <5>1. ReadJson(x, k).depth = x.depth + z /\ ReadJson(y, k).depth = y.depth + z
          BY <3>1, <3>3, <4>2, Zenon
        <5> QED BY <2>1, <3>1, <3>5, <5>1
      <4> QED BY <4>1, <4>2
    <3> QED BY <3>1, <3>2, <3>4, <3>6
  <2>4. \A n \in 0..W : n \in V
    <3> HIDE DEF V
    <3> QED BY <1>1, <2>2, <2>3, UptoInduction
  <2>5. c[M + W].depth = h + d[W].depth
    BY <1>10, <2>4
  <2> QED BY <1>4, <1>6, <2>1, <2>5 DEF W
<1> QED BY <1>11, <1>12

\* An object that is taken out of t, place by place.
TakenOut(json, t, o, e) ==
    /\ FirstPlace(t, OpenBrace, o) /\ LastPlace(t, CloseBrace, e) /\ o < e
    /\ Len(json) = e - o + 1 /\ \A i \in 1..e - o + 1 : json[i] = t[o + i - 1]

LEMMA TakenOutFact ==
    ASSUME NEW S, NEW t \in Seq(S), IsObject(extract_json(t))
    PROVE  extract_json(t) \in Seq(S) /\ \E o, e \in 1..Len(t) : TakenOut(extract_json(t), t, o, e)
<1> DEFINE json == extract_json(t)
<1>1. json # <<>>
  <2>1. Len(<<>>) = 0
    OBVIOUS
  <2>2. IsObject(<<>>) => Len(<<>>) > 1
    BY Zenon DEF IsObject
  <2> QED BY <2>1, <2>2
<1>2. PICK o, e : FirstPlace(t, OpenBrace, o) /\ LastPlace(t, CloseBrace, e)
  BY <1>1, ExtractFact
<1>3. json = SubSeq(t, o, e)
  BY <1>2, ExtractFact
<1>4. Len(t) \in Nat /\ o \in 1..Len(t) /\ e \in 1..Len(t)
  BY <1>2, LenProperties DEF FirstPlace, LastPlace
<1>5. e >= o
  <2> SUFFICES ASSUME e < o PROVE FALSE
    BY <1>4
  <2>1. SubSeq(t, o, e) = <<>>
    BY <1>4, SubSeqEmpty
  <2> QED BY <1>1, <1>3, <2>1
<1>6. o \in 1..Len(t) + 1 /\ e \in o - 1..Len(t)
  BY <1>4, <1>5
<1> HIDE DEF json
<1>7. /\ json \in Seq(S) /\ Len(json) = e - o + 1
      /\ \A i \in 1..e - o + 1 : json[i] = t[o + i - 1]
  BY <1>3, <1>6, PartFact
<1>8. Len(json) > 1
  BY <1>7, ObjectFact DEF json
<1>9. o < e
  BY <1>4, <1>7, <1>8
<1> QED BY <1>2, <1>4, <1>7, <1>9 DEF TakenOut, json

\* v is b, w and a one after the other.
InParts(v, b, w, a) ==
    /\ Len(v) = Len(b) + Len(w) + Len(a)
    /\ \A i \in 1..Len(b) : v[i] = b[i]
    /\ \A i \in 1..Len(w) : v[Len(b) + i] = w[i]
    /\ \A i \in 1..Len(a) : v[Len(b) + Len(w) + i] = a[i]

LEMMA InPartsFact ==
    ASSUME NEW S, NEW b \in Seq(S), NEW w \in Seq(S), NEW a \in Seq(S)
    PROVE  (b \o w) \o a \in Seq(S) /\ InParts((b \o w) \o a, b, w, a)
<1> DEFINE B == Len(b)
           W == Len(w)
           A == Len(a)
           v == (b \o w) \o a
<1>1. B \in Nat /\ W \in Nat /\ A \in Nat
  BY LenProperties
<1>2. /\ b \o w \in Seq(S) /\ Len(b \o w) = B + W
      /\ \A i \in 1..B + W : (b \o w)[i] = IF i <= B THEN b[i] ELSE w[i - B]
  BY ConcatProperties
<1>3. /\ v \in Seq(S) /\ Len(v) = (B + W) + A
      /\ \A i \in 1..(B + W) + A : v[i] = IF i <= B + W THEN (b \o w)[i] ELSE a[i - (B + W)]
  BY <1>2, ConcatProperties
<1> HIDE DEF v, B, W, A
<1>4. ASSUME NEW i \in 1..B PROVE v[i] = b[i]
  <2>1. i \in 1..B + W /\ i \in 1..(B + W) + A /\ i <= B /\ i <= B + W
    BY <1>1
  <2> QED BY <1>2, <1>3, <2>1
<1>5. ASSUME NEW i \in 1..W PROVE v[B + i] = w[i]
  <2> DEFINE k == B + i
  <2>1. k \in 1..B + W /\ k \in 1..(B + W) + A /\ k <= B + W /\ ~(k <= B) /\ k - B = i
    BY <1>1
  <2> HIDE DEF k
  <2>2. v[k] = w[i]
    BY <1>2, <1>3, <2>1
  <2> QED BY <2>2 DEF k
<1>6. ASSUME NEW i \in 1..A PROVE v[B + W + i] = a[i]
  <2> DEFINE k == B + W + i
  <2>1. k \in 1..(B + W) + A /\ ~(k <= B + W) /\ k - (B + W) = i
    BY <1>1
  <2> HIDE DEF k
  <2>2. v[k] = a[i]
    BY <1>3, <2>1
  <2> QED BY <2>2 DEF k
<1> QED BY <1>3, <1>4, <1>5, <1>6 DEF InParts, v, B, W, A

\* Without a brace before the object only the object is taken out, of any
\* beginning of the text.
LEMMA UnopenedFact ==
    ASSUME NEW S, NEW b \in Seq(S), NEW w \in Seq(S), NEW a \in Seq(S),
           NEW v \in Seq(S), InParts(v, b, w, a), w[1] = OpenBrace, IsObject(w),
           NEW t \in Seq(S), Begins(t, v), IsObject(extract_json(t)),
           \A i \in 1..Len(b) : b[i] # OpenBrace
    PROVE  extract_json(t) = w
<1> DEFINE B == Len(b)
           W == Len(w)
           json == extract_json(t)
           got == Len(t)
<1>1. /\ B \in Nat /\ W \in Nat /\ W > 1 /\ got \in Nat
      /\ \A s \in Seq(S) : Begins(s, w) /\ Len(s) < W => ~IsObject(s)
  BY LenProperties, ObjectFact
<1>2. json \in Seq(S) /\ IsObject(json)
  BY TakenOutFact
<1>3. PICK o, e \in 1..got : TakenOut(json, t, o, e)
  BY TakenOutFact
<1>4. /\ t[o] = OpenBrace /\ (\A i \in 1..o - 1 : t[i] # OpenBrace) /\ o < e
      /\ Len(json) = e - o + 1 /\ \A i \in 1..e - o + 1 : json[i] = t[o + i - 1]
  BY <1>3 DEF TakenOut, FirstPlace
<1>5. \A s \in Seq(S) : Begins(s, json) /\ Len(s) < Len(json) => ~IsObject(s)
  BY <1>2, ObjectFact
<1>6. /\ \A i \in 1..got : t[i] = v[i]
      /\ \A i \in 1..B : v[i] = b[i]
      /\ \A i \in 1..W : v[B + i] = w[i]
  BY DEF Begins, InParts
<1> HIDE DEF json, got, B, W
<1>7. o = B + 1
  <2>1. ~(o <= B)
    <3> SUFFICES ASSUME o <= B PROVE FALSE
      OBVIOUS
    <3>1. o \in 1..B
      BY <1>1
    <3> QED BY <1>4, <1>6, <3>1 DEF B
  <2>2. B + 1 \in 1..got /\ 1 \in 1..W
    BY <1>1, <2>1
  <2>3. t[B + 1] = OpenBrace
    BY <1>6, <2>2
  <2>4. ~(B + 1 < o)
    <3> SUFFICES ASSUME B + 1 < o PROVE FALSE
      OBVIOUS
    <3>1. B + 1 \in 1..o - 1
      BY <1>1
    <3> QED BY <1>4, <2>3, <3>1
  <2> QED BY <1>1, <2>1, <2>4
<1>8. Len(json) \in Nat
  BY <1>2, LenProperties
<1>9. ASSUME NEW i \in 1..Len(json), i <= W PROVE json[i] = w[i]
  <2>1. i \in 1..W /\ i \in 1..e - o + 1 /\ o + i - 1 = B + i /\ B + i \in 1..got
    BY <1>1, <1>4, <1>7, <1>8, <1>9
  <2> QED BY <1>4, <1>6, <2>1
<1>10. ~(Len(json) < W)
  <2> SUFFICES ASSUME Len(json) < W PROVE FALSE
    OBVIOUS
  <2>1. Begins(json, w)
    <3>1. Len(json) <= W /\ \A i \in 1..Len(json) : w[i] = json[i]
      BY <1>1, <1>8, <1>9
    <3> QED BY <3>1 DEF Begins, W
  <2> QED BY <1>1, <1>2, <2>1
<1>11. ~(W < Len(json))
  <2> SUFFICES ASSUME W < Len(json) PROVE FALSE
    OBVIOUS
  <2>1. Begins(w, json)
    <3>1. W <= Len(json) /\ \A i \in 1..W : json[i] = w[i]
      BY <1>1, <1>8, <1>9
    <3> QED BY <3>1 DEF Begins, W
  <2> QED BY <1>5, <2>1 DEF W
<1>12. Len(json) = W
  BY <1>1, <1>8, <1>10, <1>11
<1>13. \A i \in 1..Len(json) : json[i] = w[i]
  BY <1>1, <1>9, <1>12
<1>14. json = w
  BY <1>2, <1>12, <1>13, SeqEqual DEF W
<1> QED BY <1>14 DEF json

\* The object lies between the first opening and the last closing brace.
Enclosed(v, b, w, a, o, e) ==
    /\ o \in 1..Len(b) + 1 /\ e \in Len(b) + Len(w)..Len(v) /\ Len(v) \in Nat
    /\ (\A i \in 1..Len(b) : b[i] # OpenBrace) => o = Len(b) + 1
    /\ (\A i \in 1..Len(a) : a[i] # CloseBrace) => e = Len(b) + Len(w)

LEMMA EnclosedFact ==
    ASSUME NEW S, NEW b \in Seq(S), NEW w \in Seq(S), NEW a \in Seq(S),
           NEW v \in Seq(S), InParts(v, b, w, a), w[1] = OpenBrace, IsObject(w),
           NEW o, NEW e, FirstPlace(v, OpenBrace, o), LastPlace(v, CloseBrace, e)
    PROVE  Enclosed(v, b, w, a, o, e)
<1> DEFINE B == Len(b)
           W == Len(w)
           A == Len(a)
           N == Len(v)
<1>1. B \in Nat /\ W \in Nat /\ W > 1 /\ A \in Nat /\ w[W] = CloseBrace
  BY LenProperties, ObjectFact
<1>2. /\ N = B + W + A
      /\ \A i \in 1..B : v[i] = b[i]
      /\ \A i \in 1..W : v[B + i] = w[i]
      /\ \A i \in 1..A : v[B + W + i] = a[i]
  BY DEF InParts
<1>3. /\ o \in 1..N /\ v[o] = OpenBrace /\ (\A i \in 1..o - 1 : v[i] # OpenBrace)
      /\ e \in 1..N /\ v[e] = CloseBrace /\ (\A i \in e + 1..N : v[i] # CloseBrace)
  BY DEF FirstPlace, LastPlace
<1> HIDE DEF B, W, A, N
<1>4. v[B + 1] = OpenBrace /\ v[B + W] = CloseBrace
  <2>1. 1 \in 1..W /\ W \in 1..W
    BY <1>1
  <2> QED BY <1>1, <1>2, <2>1
<1>5. o \in 1..B + 1
  <2>1. ~(B + 1 < o)
    <3> SUFFICES ASSUME B + 1 < o PROVE FALSE
      OBVIOUS
    <3>1. B + 1 \in 1..o - 1
      BY <1>1, <1>2, <1>3
    <3> QED BY <1>3, <1>4, <3>1
  <2> QED BY <1>1, <1>2, <1>3, <2>1
<1>6. e \in B + W..N
  <2>1. ~(e < B + W)
    <3> SUFFICES ASSUME e < B + W PROVE FALSE
      OBVIOUS
    <3>1. B + W \in e + 1..N
      BY <1>1, <1>2, <1>3
    <3> QED BY <1>3, <1>4, <3>1
  <2> QED BY <1>1, <1>2, <1>3, <2>1
<1>7. ASSUME \A i \in 1..B : b[i] # OpenBrace PROVE o = B + 1
  <2> SUFFICES ASSUME o # B + 1 PROVE FALSE
    OBVIOUS
  <2>1. o \in 1..B
    BY <1>1, <1>5
  <2> QED BY <1>2, <1>3, <1>7, <2>1
<1>8. ASSUME \A i \in 1..A : a[i] # CloseBrace PROVE e = B + W
  <2> SUFFICES ASSUME e # B + W PROVE FALSE
    OBVIOUS
  <2> DEFINE i == e - (B + W)
  <2>1. i \in 1..A /\ B + W + i = e
    BY <1>1, <1>2, <1>6
  <2>2. v[e] = a[i]
    BY <1>2, <2>1
  <2> QED BY <1>3, <1>8, <2>1, <2>2
<1>9. N \in Nat
  BY <1>1, <1>2
<1> QED BY <1>5, <1>6, <1>7, <1>8, <1>9 DEF Enclosed, B, W, A, N

\* Without braces around it the object is taken out.
LEMMA BareFact ==
    ASSUME NEW S, NEW b \in Seq(S), NEW w \in Seq(S), NEW a \in Seq(S),
           NEW v \in Seq(S), InParts(v, b, w, a), w[1] = OpenBrace, IsObject(w),
           \A i \in 1..Len(b) : b[i] # OpenBrace, \A i \in 1..Len(a) : a[i] # CloseBrace
    PROVE  extract_json(v) = w
<1> DEFINE B == Len(b)
           W == Len(w)
           A == Len(a)
           N == Len(v)
<1>1. B \in Nat /\ W \in Nat /\ W > 1 /\ A \in Nat /\ w[W] = CloseBrace
  BY LenProperties, ObjectFact
<1>2. /\ N = B + W + A
      /\ \A i \in 1..B : v[i] = b[i]
      /\ \A i \in 1..W : v[B + i] = w[i]
      /\ \A i \in 1..A : v[B + W + i] = a[i]
  BY DEF InParts
<1> HIDE DEF B, W, A, N
<1>3. PICK o, e : o = B + 1 /\ e = B + W
  OBVIOUS
<1>4. /\ o \in 1..N /\ e \in 1..N /\ o \in 1..N + 1 /\ e \in o - 1..N /\ e - o + 1 = W
      /\ o = B + 1 /\ e = B + W /\ 1 \in 1..W /\ W \in 1..W
  BY <1>1, <1>2, <1>3
<1>5. FirstPlace(v, OpenBrace, o)
  <2>1. v[o] = OpenBrace
    BY <1>2, <1>4
  <2>2. ASSUME NEW i \in 1..o - 1 PROVE v[i] # OpenBrace
    <3>1. i \in 1..B
      BY <1>1, <1>4
    <3> QED BY <1>2, <3>1 DEF B
  <2> QED BY <1>4, <2>1, <2>2 DEF FirstPlace, N
<1>6. LastPlace(v, CloseBrace, e)
  <2>1. v[e] = CloseBrace
    BY <1>1, <1>2, <1>4
  <2>2. ASSUME NEW i \in e + 1..N PROVE v[i] # CloseBrace
    <3>1. PICK k : k = i - e
      OBVIOUS
    <3>2. k \in 1..A /\ B + W + k = i
      BY <1>1, <1>2, <1>4, <3>1
    <3>3. v[i] = a[k] /\ a[k] # CloseBrace
      BY <1>2, <3>2 DEF A
    <3> QED BY <3>3
  <2> QED BY <1>4, <2>1, <2>2 DEF LastPlace, N
<1> DEFINE json == SubSeq(v, o, e)
<1>7. extract_json(v) = json
  BY <1>5, <1>6, ExtractFact
<1>8. o \in 1..Len(v) + 1 /\ e \in o - 1..Len(v)
  BY <1>4 DEF N
<1>9. /\ json \in Seq(S) /\ Len(json) = e - o + 1
      /\ \A i \in 1..e - o + 1 : json[i] = v[o + i - 1]
  BY <1>8, PartFact
<1> HIDE DEF json
<1>10. Len(json) = W
  BY <1>4, <1>9
<1>11. ASSUME NEW i \in 1..W PROVE json[i] = w[i]
  <2>1. i \in 1..e - o + 1 /\ o + i - 1 = B + i
    BY <1>1, <1>4
  <2> QED BY <1>2, <1>9, <2>1
<1>12. json = w
  BY <1>9, <1>10, <1>11, SeqEqual DEF W
<1> QED BY <1>7, <1>12

\* Of a text that arrived the whole object is taken out, and more only with a
\* brace before it and one after it.
LEMMA ArrivedFact ==
    ASSUME NEW S, NEW b \in Seq(S), NEW w \in Seq(S), NEW a \in Seq(S),
           NEW v \in Seq(S), InParts(v, b, w, a), w[1] = OpenBrace, IsObject(w),
           IsObject(extract_json(v))
    PROVE  /\ \E i \in DOMAIN extract_json(v) : SubSeq(extract_json(v), i, i + Len(w) - 1) = w
           /\ (\A i \in 1..Len(a) : a[i] # CloseBrace) => extract_json(v) = w
<1> DEFINE B == Len(b)
           W == Len(w)
           N == Len(v)
           json == extract_json(v)
<1>1. B \in Nat /\ W \in Nat /\ W > 1
  BY LenProperties, ObjectFact
<1>2. json \in Seq(S) /\ IsObject(json)
  BY TakenOutFact
<1>3. PICK o, e \in 1..N : TakenOut(json, v, o, e)
  BY TakenOutFact
<1>4. /\ o < e /\ Len(json) = e - o + 1 /\ \A i \in 1..e - o + 1 : json[i] = v[o + i - 1]
  BY <1>3 DEF TakenOut
<1>5. /\ o \in 1..B + 1 /\ e \in B + W..N /\ N \in Nat
      /\ (\A i \in 1..Len(b) : b[i] # OpenBrace) => o = B + 1
      /\ (\A i \in 1..Len(a) : a[i] # CloseBrace) => e = B + W
  <2>1. FirstPlace(v, OpenBrace, o) /\ LastPlace(v, CloseBrace, e)
    BY <1>3 DEF TakenOut
  <2>2. Enclosed(v, b, w, a, o, e)
    BY <2>1, EnclosedFact
  <2> QED BY <2>2 DEF Enclosed
<1>6. \A i \in 1..W : v[B + i] = w[i]
  BY DEF InParts
<1> HIDE DEF B, W, N, json
<1> DEFINE M == B + 1 - o
<1>7. M \in Nat /\ M + W <= Len(json) /\ Len(json) \in Nat
  BY <1>1, <1>4, <1>5
<1>8. ASSUME NEW i \in 1..W PROVE M + i \in 1..Len(json) /\ json[M + i] = w[i]
  <2>1. M + i \in 1..e - o + 1 /\ o + (M + i) - 1 = B + i
    BY <1>1, <1>4, <1>5
  <2>2. json[M + i] = v[o + (M + i) - 1]
    BY <1>4, <2>1
  <2> QED BY <1>4, <1>6, <2>1, <2>2
<1>9. \E i \in DOMAIN json : SubSeq(json, i, i + W - 1) = w
  <2>0. PICK i, n : i = M + 1 /\ n = M + W
    OBVIOUS
  <2> DEFINE part == SubSeq(json, i, n)
  <2> HIDE DEF M
  <2>1. /\ i \in 1..Len(json) /\ i \in 1..Len(json) + 1 /\ n \in i - 1..Len(json)
        /\ n - i + 1 = W /\ i + W - 1 = n
    BY <1>1, <1>7, <2>0
  <2>2. \A k \in 1..W : i + k - 1 = M + k
    BY <1>7, <2>0
  <2>3. /\ part \in Seq(S) /\ Len(part) = n - i + 1
        /\ \A k \in 1..n - i + 1 : part[k] = json[i + k - 1]
    BY <1>2, <2>1, PartFact
  <2> HIDE DEF part
  <2>4. Len(part) = W /\ \A k \in 1..W : part[k] = w[k]
    BY <1>8, <2>1, <2>2, <2>3
  <2>5. part = w
    BY <2>3, <2>4, SeqEqual DEF W
  <2>6. i \in DOMAIN json
    BY <1>2, <2>1, LenProperties
  <2>7. SubSeq(json, i, i + W - 1) = w
    BY <2>1, <2>5 DEF part
  <2> QED BY <2>6, <2>7
<1>10. ASSUME \A i \in 1..Len(a) : a[i] # CloseBrace PROVE json = w
  <2>1. Len(json) = M + W
    BY <1>1, <1>4, <1>5, <1>10
  <2>2. ~(M > 0)
    <3> SUFFICES ASSUME M > 0 PROVE FALSE
      OBVIOUS
    <3> HIDE DEF M
    <3>1. ~IsObject(json)
      BY <1>2, <1>7, <1>8, <2>1, OpenedFact DEF W
    <3> QED BY <1>2, <3>1
  <2>3. M = 0
    BY <1>7, <2>2
  <2> HIDE DEF M
  <2>4. Len(json) = W /\ \A i \in 1..W : json[i] = w[i]
    <3>1. \A i \in 1..W : M + i = i
      BY <2>3
    <3> QED BY <1>1, <1>8, <2>1, <2>3, <3>1
  <2> QED BY <1>2, <2>4, SeqEqual DEF W
<1> QED BY <1>9, <1>10 DEF json, W

LEMMA ModelFact ==
    ASSUME NEW model \in Models
    PROVE  ProviderAccepts(build_gemini_payload(model))
BY DEF Models, ProviderAccepts, build_gemini_payload, thinking_budget_for_model, None

\* A call that ends well gives what is taken out of the text that arrived.
LEMMA CallFact ==
    ASSUME NEW r \in LlmInputs
    PROVE  LET v == (r.before \o r.object) \o r.after
               t == SubSeq(v, 1, r.got)
               good == /\ r.transport = "ok" /\ ~r.blocked /\ r.candidate
                       /\ r.finish \in {"STOP", "missing"} /\ t # <<>>
               result == extract(r.model, Response(r))
           IN  /\ v \in Seq(Chars) /\ InParts(v, r.before, r.object, r.after)
               /\ r.before \in Seq(Chars) /\ r.object \in Seq(Chars) /\ r.after \in Seq(Chars)
               /\ r.object[1] = OpenBrace /\ IsObject(r.object)
               /\ t \in Seq(Chars) /\ Len(t) = r.got /\ Begins(t, v)
               /\ r.got = Len(v) => t = v
               /\ r.finish = "STOP" => r.got = Len(v)
               /\ result.ok => good /\ IsObject(extract_json(t)) /\ result.text = extract_json(t)
               /\ good /\ IsObject(extract_json(t)) => result.ok
<1> DEFINE v == (r.before \o r.object) \o r.after
           t == SubSeq(v, 1, r.got)
           cut == IF r.split < r.got THEN r.split ELSE r.got
           resp == Response(r)
           joined == FlattenSeq(resp.parts)
           result == extract(r.model, resp)
<1>1. /\ r.model \in Models /\ r.object \in Objects /\ r.before \in Noise /\ r.after \in Noise
      /\ r.got \in 0..MaxText /\ r.split \in Splits /\ r.blocked \in BOOLEAN
      /\ r.candidate \in BOOLEAN
      /\ r.got <= Len(v) /\ (r.finish = "STOP" => r.got = Len(v))
  BY DEF LlmInputs
<1>2. MaxText \in Nat /\ r.split \in Nat
  <2>1. MaxText \in Nat /\ Splits \cup TextSizes \cup AnswerSizes \subseteq Nat
    BY TextsAssumption, Zenon
  <2> QED BY <1>1, <2>1
<1>3. /\ r.before \in Seq(Chars) /\ r.object \in Seq(Chars) /\ r.after \in Seq(Chars)
      /\ r.object[1] = OpenBrace /\ IsObject(r.object)
  <2>1. Objects \cup Noise \subseteq Seq(Chars)
    BY TextsAssumption, Zenon DEF Chars
  <2>2. r.object[1] = OpenBrace /\ IsObject(r.object)
    BY <1>1, TextsAssumption, Zenon DEF OpenBrace
  <2> QED BY <1>1, <2>1, <2>2
<1>4. v \in Seq(Chars) /\ InParts(v, r.before, r.object, r.after)
  BY <1>3, InPartsFact
<1> HIDE DEF v
<1>5. Len(v) \in Nat /\ r.got \in 0..Len(v)
  BY <1>1, <1>2, <1>4, LenProperties
<1>6. t \in Seq(Chars) /\ Len(t) = r.got /\ \A i \in 1..r.got : t[i] = v[i]
  <2>1. 1 \in 1..Len(v) + 1 /\ r.got \in 1 - 1..Len(v) /\ r.got - 1 + 1 = r.got
    BY <1>5
  <2>2. \A i \in 1..r.got : 1 + i - 1 = i
    BY <1>5
  <2>3. /\ t \in Seq(Chars) /\ Len(t) = r.got - 1 + 1
        /\ \A i \in 1..r.got - 1 + 1 : t[i] = v[1 + i - 1]
    BY <1>4, <2>1, PartFact
  <2> QED BY <2>1, <2>2, <2>3
<1>7. r.got = Len(v) => t = v
  BY <1>4, SubSeqFull
<1> HIDE DEF t
<1>8. Begins(t, v)
  BY <1>5, <1>6 DEF Begins
<1>9. joined = t
  <2>1. resp.parts = <<SubSeq(t, 1, cut), SubSeq(t, cut + 1, r.got)>>
    BY Zenon DEF Response, t, v
  <2>2. cut \in 0..r.got /\ r.got \in Nat
    BY <1>2, <1>5
  <2> HIDE DEF cut, resp
  <2>3. SubSeq(t, 1, cut) \in Seq(Chars) /\ SubSeq(t, cut + 1, r.got) \in Seq(Chars)
    <3>1. 1 \in 1..Len(t) + 1 /\ cut \in 1 - 1..Len(t)
      BY <1>6, <2>2
    <3>2. cut + 1 \in 1..Len(t) + 1 /\ r.got \in (cut + 1) - 1..Len(t)
      BY <1>6, <2>2
    <3> QED BY <1>6, <3>1, <3>2, PartFact
  <2>4. FlattenSeq(resp.parts) = SubSeq(t, 1, cut) \o SubSeq(t, cut + 1, r.got)
    BY <2>1, <2>3, FlattenTwo
  <2>5. SubSeq(t, 1, cut) \o SubSeq(t, cut + 1, r.got) = SubSeq(t, 1, r.got)
    BY <1>6, <2>2, ConcatAdjacentSubSeq
  <2>6. SubSeq(t, 1, r.got) = t
    BY <1>6, SubSeqFull
  <2> QED BY <2>4, <2>5, <2>6
<1>10. /\ resp.transport = r.transport /\ resp.blocked = r.blocked
       /\ resp.candidate = r.candidate /\ resp.finish_reason = r.finish
  BY Zenon DEF Response
<1> HIDE DEF resp
<1> DEFINE call == complete(r.model, resp)
           good == /\ r.transport = "ok" /\ ~r.blocked /\ r.candidate
                   /\ r.finish \in {"STOP", "missing"} /\ t # <<>>
<1>11. IF good THEN call = Ok(t) ELSE call = Err
  BY <1>1, <1>9, <1>10, ModelFact DEF complete, parse_gemini_response
<1>12. result = IF call.ok /\ IsObject(extract_json(call.text)) THEN Ok(extract_json(call.text)) ELSE Err
  BY Zenon DEF extract
<1>13. Err.ok = FALSE /\ \A x : Ok(x).ok = TRUE /\ Ok(x).text = x
  BY DEF Err, Ok
<1> HIDE DEF call, result
<1>14. result.ok => good /\ IsObject(extract_json(t)) /\ result.text = extract_json(t)
  <2>1. CASE good
    BY <1>11, <1>12, <1>13, <2>1, Zenon
  <2>2. CASE ~good
    BY <1>11, <1>12, <1>13, <2>2, Zenon
  <2> QED BY <2>1, <2>2
<1>15. good /\ IsObject(extract_json(t)) => result.ok
  BY <1>11, <1>12, <1>13, Zenon
<1> QED BY <1>1, <1>3, <1>4, <1>6, <1>7, <1>8, <1>14, <1>15, Zenon DEF result, resp, t, v

\* extract, for texts of any kind around the object.
LEMMA LlmFact ==
    ASSUME NEW r \in LlmInputs
    PROVE  LET result == extract(r.model, Response(r))
               arrived == r.got = Len((r.before \o r.object) \o r.after)
               opened == Places(r.before, OpenBrace) # {}
               closed == Places(r.after, CloseBrace) # {}
           IN  /\ result.ok => r.finish \in {"STOP", "missing"}
               /\ result.ok /\ ~opened => result.text = r.object
               /\ result.ok /\ arrived =>
                    /\ \E i \in DOMAIN result.text :
                         SubSeq(result.text, i, i + Len(r.object) - 1) = r.object
                    /\ result.text = r.object \/ (opened /\ closed)
               /\ /\ r.finish = "STOP" /\ r.transport = "ok" /\ ~r.blocked /\ r.candidate
                  /\ ~opened /\ ~closed
                  => result.ok
<1> DEFINE b == r.before
           w == r.object
           a == r.after
           v == (b \o w) \o a
           t == SubSeq(v, 1, r.got)
           json == extract_json(t)
           result == extract(r.model, Response(r))
           opened == Places(b, OpenBrace) # {}
           closed == Places(a, CloseBrace) # {}
           good == /\ r.transport = "ok" /\ ~r.blocked /\ r.candidate
                   /\ r.finish \in {"STOP", "missing"} /\ t # <<>>
<1>1. /\ v \in Seq(Chars) /\ InParts(v, b, w, a)
      /\ b \in Seq(Chars) /\ w \in Seq(Chars) /\ a \in Seq(Chars)
      /\ w[1] = OpenBrace /\ IsObject(w)
      /\ t \in Seq(Chars) /\ Len(t) = r.got /\ Begins(t, v)
      /\ r.got = Len(v) => t = v
      /\ r.finish = "STOP" => r.got = Len(v)
      /\ result.ok => good /\ IsObject(json) /\ result.text = json
      /\ good /\ IsObject(json) => result.ok
  BY CallFact, Zenon
<1> HIDE DEF b, w, a, v, t, json, result
<1>2. ~opened => \A i \in 1..Len(b) : b[i] # OpenBrace
  BY <1>1, LenProperties DEF Places
<1>3. ~closed => \A i \in 1..Len(a) : a[i] # CloseBrace
  BY <1>1, LenProperties DEF Places
<1> HIDE DEF opened, closed
<1>4. ASSUME result.ok, ~opened PROVE result.text = w
  <2>1. IsObject(extract_json(t)) /\ result.text = extract_json(t)
    BY <1>1, <1>4 DEF json
  <2> QED BY <1>1, <1>2, <1>4, <2>1, UnopenedFact
<1>5. ASSUME result.ok, r.got = Len(v)
      PROVE  /\ \E i \in DOMAIN result.text : SubSeq(result.text, i, i + Len(w) - 1) = w
             /\ result.text = w \/ (opened /\ closed)
  <2>1. IsObject(extract_json(v)) /\ result.text = extract_json(v)
    BY <1>1, <1>5 DEF json
  <2>2. \E i \in DOMAIN extract_json(v) : SubSeq(extract_json(v), i, i + Len(w) - 1) = w
    BY <1>1, <2>1, ArrivedFact
  <2>3. ~closed => extract_json(v) = w
    BY <1>1, <1>3, <2>1, ArrivedFact
  <2>4. ~opened => extract_json(v) = w
    BY <1>4, <1>5, <2>1
  <2> QED BY <2>1, <2>2, <2>3, <2>4, Zenon
<1>6. ASSUME r.finish = "STOP", r.transport = "ok", ~r.blocked, r.candidate, ~opened, ~closed
      PROVE  result.ok
  <2>1. t = v /\ r.got = Len(v)
    BY <1>1, <1>6
  <2>2. json = w
    <3>1. extract_json(v) = w
      BY <1>1, <1>2, <1>3, <1>6, BareFact
    <3> QED BY <2>1, <3>1 DEF json
  <2>3. t # <<>>
    <3>1. Len(v) = Len(b) + Len(w) + Len(a)
      BY <1>1 DEF InParts
    <3>2. Len(b) \in Nat /\ Len(a) \in Nat
      BY <1>1, LenProperties
    <3>3. Len(w) \in Nat /\ Len(w) > 1
      BY <1>1, ObjectFact
    <3>4. Len(v) > 1
      BY <3>1, <3>2, <3>3
    <3>5. Len(<<>>) = 0
      OBVIOUS
    <3> QED BY <2>1, <3>4, <3>5
  <2> QED BY <1>1, <1>6, <2>2, <2>3, Zenon
<1>7. result.ok => r.finish \in {"STOP", "missing"}
  BY <1>1
<1> QED BY <1>4, <1>5, <1>6, <1>7, Zenon DEF b, w, a, v, t, json, result, opened, closed

\* extract and synthesize: what is decoded is the object the model wrote or
\* nothing, for any object, any text after it and any cut of the answer, and
\* with it whole when braces before it open more (WholeAnswerOrNone).
THEOREM AnswersWhole == Spec => []WholeAnswerOrNone
<1> DEFINE Ran == alg = "llm" => in \in LlmInputs /\ (done => out = extract(in.model, Response(in)))
<1>1. Ran => WholeAnswerOrNone
  <2>1. CASE alg = "llm" /\ done
    BY <2>1, LlmFact, Zenon DEF WholeAnswerOrNone, OpenBrace, CloseBrace
  <2>2. CASE ~(alg = "llm" /\ done)
    BY <2>2 DEF WholeAnswerOrNone
  <2> QED BY <2>1, <2>2
<1>2. Init => Ran
  BY DEF Init
<1>3. Ran /\ [Next]_vars => Ran'
  BY DEF Next, Run, vars
<1> QED BY <1>1, <1>2, <1>3, PTL DEF Spec

-----------------------------------------------------------------------------
(* Canonicalize                                                            *)

NameChars == {"a", "W", "n", "c", "L", " "}
Blank == " "
NoChars == <<>>

LEMMA NameCharsFact ==
    /\ Blank \in NameChars /\ IsWhitespace(Blank) /\ ~IsLineLike(Blank)
    /\ \A c : LenUtf8(c) = 1 \/ LenUtf8(c) = 3
    /\ "a" \in NameChars /\ ~IsWhitespace("a") /\ ~IsLineLike("a") /\ LenUtf8("a") = 1
<1>1. Blank \in NameChars /\ IsWhitespace(Blank) /\ ~IsLineLike(Blank)
  BY Zenon DEF Blank, NameChars, IsWhitespace, IsLineLike
<1>2. \A c : LenUtf8(c) = 1 \/ LenUtf8(c) = 3
  BY Zenon DEF LenUtf8
<1>3. "a" \in NameChars /\ ~IsWhitespace("a") /\ ~IsLineLike("a") /\ LenUtf8("a") = 1
  BY Zenon DEF NameChars, IsWhitespace, IsLineLike, LenUtf8
<1> QED BY <1>1, <1>2, <1>3, Zenon

LEMMA NothingFact ==
    ASSUME NEW S
    PROVE  NoChars \in Seq(S) /\ Len(NoChars) = 0 /\ \A s \in Seq(S) : Len(s) = 0 => s = NoChars
<1>1. NoChars \in Seq(S) /\ Len(NoChars) = 0
  BY DEF NoChars
<1>2. \A s \in Seq(S) : Len(s) = 0 => s = NoChars
  BY EmptySeq DEF NoChars
<1> QED BY <1>1, <1>2

\* The bytes up to every character.
Weighed(d, s) == /\ d \in [0..Len(s) -> Nat] /\ d[0] = 0
                 /\ \A n \in 1..Len(s) : d[n] = d[n - 1] + LenUtf8(s[n])

LEMMA BytesUnfolds ==
    ASSUME NEW S, NEW s \in Seq(S)
    PROVE  \E d : Weighed(d, s) /\ Bytes(s) = d[Len(s)]
<1> DEFINE N == Len(s)
           F == [p \in Nat \X (1..N) |-> p[1] + LenUtf8(s[p[2]])]
           Good(g) == g = [n \in 0..N |-> IF n = 0 THEN 0 ELSE g[n - 1] + LenUtf8(s[n])]
           c == CHOOSE g : Good(g)
<1>1. N \in Nat
  BY LenProperties
<1>2. \A x : LenUtf8(x) \in Nat
  BY NameCharsFact
<1>3. Bytes(s) = c[N]
  BY Zenon DEF Bytes
<1> HIDE DEF N
<1>4. F \in [Nat \X (1..N) -> Nat]
  BY <1>2
<1>5. PICK g \in [0..N -> Nat] : g[0] = 0 /\ \A n \in 1..N : g[n] = F[<<g[n - 1], n>>]
  <2> HIDE DEF F
  <2>1. \E g \in [0..N -> Nat] : Follows(g, 0, F, N)
    <3>1. 0 \in Nat
      OBVIOUS
    <3> DEFINE I == Nat
    <3> HIDE DEF I
    <3>2. \E g \in [0..N -> I] : Follows(g, 0, F, N)
      BY <1>1, <1>4, <3>1, Recursion DEF I
    <3> QED BY <3>2 DEF I
  <2> QED BY <2>1 DEF Follows
<1>6. \A n \in 0..N : n = 0 \/ n \in 1..N
  BY <1>1
<1>7. \A n \in 1..N : F[<<g[n - 1], n>>] = g[n - 1] + LenUtf8(s[n])
  <2> SUFFICES ASSUME NEW n \in 1..N PROVE F[<<g[n - 1], n>>] = g[n - 1] + LenUtf8(s[n])
    OBVIOUS
  <2>1. n - 1 \in 0..N
    BY <1>1
  <2>2. <<g[n - 1], n>> \in Nat \X (1..N)
    BY <2>1
  <2> QED BY <2>2
<1>8. Good(g)
  <2> HIDE DEF F
  <2>1. g = [n \in 0..N |-> g[n]]
    OBVIOUS
  <2>2. \A n \in 0..N : g[n] = IF n = 0 THEN 0 ELSE g[n - 1] + LenUtf8(s[n])
    BY <1>5, <1>6, <1>7
  <2> QED BY <2>1, <2>2
<1>9. Good(c)
  <2> HIDE DEF Good
  <2> QED BY <1>8
<1>10. c = [n \in 0..N |-> IF n = 0 THEN 0 ELSE c[n - 1] + LenUtf8(s[n])]
  <2> HIDE DEF c
  <2> QED BY <1>9 DEF c
<1> HIDE DEF c
<1>11. c[0] = 0 /\ \A n \in 1..N : c[n] = c[n - 1] + LenUtf8(s[n])
  <2>1. \A n \in 0..N : c[n] = IF n = 0 THEN 0 ELSE c[n - 1] + LenUtf8(s[n])
    BY <1>10
  <2>2. 0 \in 0..N /\ \A n \in 1..N : n \in 0..N /\ n # 0
    BY <1>1
  <2> QED BY <2>1, <2>2
<1>12. \A n \in 0..N : c[n] \in Nat
  <2> DEFINE V == {n \in 0..N : c[n] \in Nat}
  <2>1. 0 \in V
    BY <1>1, <1>11
  <2>2. ASSUME NEW n \in 1..N, n - 1 \in V PROVE n \in V
    <3>1. n \in 0..N
      BY <1>1
    <3> QED BY <1>2, <1>11, <2>2, <3>1
  <2>3. \A n \in 0..N : n \in V
    <3> HIDE DEF V
    <3> QED BY <1>1, <2>1, <2>2, UptoInduction
  <2> QED BY <2>3
<1>13. c \in [0..N -> Nat]
  BY <1>10, <1>12
<1> QED BY <1>3, <1>11, <1>13 DEF Weighed, N

\* A part of a text has no more bytes than the text.
LEMMA PartBytes ==
    ASSUME NEW S, NEW s \in Seq(S), NEW m \in 1..Len(s) + 1, NEW n \in m - 1..Len(s)
    PROVE  /\ Bytes(SubSeq(s, m, n)) \in Nat /\ Bytes(s) \in Nat
           /\ Bytes(SubSeq(s, m, n)) <= Bytes(s)
<1> DEFINE p == SubSeq(s, m, n)
           a == m - 1
           N == n - m + 1
           L == Len(s)
           R == L - n
<1>1. /\ L \in Nat /\ m \in Nat /\ n \in Nat /\ a \in Nat /\ N \in Nat /\ a + N = n
      /\ R \in Nat /\ n + R = L
  BY LenProperties
<1>2. p \in Seq(S) /\ Len(p) = N /\ \A i \in 1..N : p[i] = s[m + i - 1]
  BY PartFact
<1> HIDE DEF p
<1>4. PICK e : Weighed(e, p) /\ Bytes(p) = e[N]
  BY <1>2, BytesUnfolds
<1>5. PICK d : Weighed(d, s) /\ Bytes(s) = d[L]
  BY BytesUnfolds
<1> HIDE DEF N, a, R
<1>6. /\ \A i \in 0..N : e[i] \in Nat
      /\ e[0] = 0 /\ \A i \in 1..N : e[i] = e[i - 1] + LenUtf8(p[i])
  BY <1>2, <1>4 DEF Weighed
<1>7. /\ \A i \in 0..L : d[i] \in Nat
      /\ d[0] = 0 /\ \A i \in 1..L : d[i] = d[i - 1] + LenUtf8(s[i])
  BY <1>5 DEF Weighed
<1> HIDE DEF L
<1> DEFINE V == {i \in 0..N : e[i] <= d[a + i]}
           U == {i \in 0..R : d[n] <= d[n + i]}
<1>8. 0 \in V
  <2>1. a + 0 = a /\ a \in 0..L /\ 0 \in 0..N
    BY <1>1
  <2> QED BY <1>6, <1>7, <2>1
<1>9. ASSUME NEW i \in 1..N, i - 1 \in V PROVE i \in V
  <2> DEFINE k == a + i
             w == LenUtf8(p[i])
  <2>1. /\ k \in 1..L /\ k - 1 = a + (i - 1) /\ k - 1 \in 0..L /\ i - 1 \in 0..N /\ i \in 0..N
        /\ m + i - 1 = k /\ k \in 0..L
    BY <1>1 DEF a
  <2> HIDE DEF k
  <2>2. p[i] = s[k]
    BY <1>2, <2>1
  <2>3. w = LenUtf8(s[k]) /\ w \in Nat
    BY <2>2, NameCharsFact
  <2> HIDE DEF w
  <2>4. e[i] = e[i - 1] + w /\ d[k] = d[k - 1] + w
    BY <1>6, <1>7, <2>1, <2>3 DEF w
  <2>5. e[i - 1] <= d[k - 1] /\ e[i - 1] \in Nat /\ d[k - 1] \in Nat
    BY <1>6, <1>7, <1>9, <2>1
  <2>6. e[i] <= d[k]
    BY <2>3, <2>4, <2>5
  <2> QED BY <2>1, <2>6 DEF k
<1>10. \A i \in 0..N : i \in V
  <2> HIDE DEF V
  <2> QED BY <1>1, <1>8, <1>9, UptoInduction
<1>11. 0 \in U
  <2>1. n + 0 = n /\ n \in 0..L /\ 0 \in 0..R
    BY <1>1
  <2> QED BY <1>7, <2>1
<1>12. ASSUME NEW i \in 1..R, i - 1 \in U PROVE i \in U
  <2> DEFINE k == n + i
             w == LenUtf8(s[k])
  <2>1. /\ k \in 1..L /\ k - 1 = n + (i - 1) /\ k - 1 \in 0..L /\ i \in 0..R /\ n \in 0..L
    BY <1>1
  <2>2. w \in Nat
    BY NameCharsFact
  <2> HIDE DEF k
  <2>3. d[k] = d[k - 1] + w
    BY <1>7, <2>1
  <2>4. d[n] <= d[k - 1] /\ d[k - 1] \in Nat /\ d[n] \in Nat
    BY <1>7, <1>12, <2>1
  <2> HIDE DEF w
  <2>5. d[n] <= d[k]
    BY <2>2, <2>3, <2>4
  <2> QED BY <2>1, <2>5 DEF k
<1>13. \A i \in 0..R : i \in U
  <2> HIDE DEF U
  <2> QED BY <1>1, <1>11, <1>12, UptoInduction
<1>14. /\ e[N] <= d[n] /\ e[N] \in Nat /\ d[n] \in Nat
       /\ d[n] <= d[L] /\ d[L] \in Nat
  <2>1. N \in 0..N /\ n \in 0..L /\ R \in 0..R /\ L \in 0..L
    BY <1>1
  <2> QED BY <1>1, <1>6, <1>7, <1>10, <1>13, <2>1
<1> QED BY <1>4, <1>5, <1>14 DEF p

\* A text without blanks at its ends, as TrimName leaves it.
Trimmed(s) ==
    s = NoChars \/ (Len(s) > 0 /\ ~IsWhitespace(s[1]) /\ ~IsWhitespace(s[Len(s)]))

\* What TrimName makes of s.
Trims(s, S) ==
    /\ TrimName(s) \in Seq(S) /\ Trimmed(TrimName(s))
    /\ \/ TrimName(s) = NoChars
       \/ \E f \in 1..Len(s) : \E l \in f..Len(s) : TrimName(s) = SubSeq(s, f, l)
    /\ Trimmed(s) => TrimName(s) = s

LEMMA TrimFact ==
    ASSUME NEW S, NEW s \in Seq(S)
    PROVE  Trims(s, S)
<1> DEFINE solid == {i \in DOMAIN s : ~IsWhitespace(s[i])}
           f == CHOOSE i \in solid : \A j \in solid : i <= j
           l == CHOOSE i \in solid : \A j \in solid : i >= j
           t == TrimName(s)
<1>1. Len(s) \in Nat /\ DOMAIN s = 1..Len(s)
  BY LenProperties
<1>2. /\ solid \in SUBSET (1..Len(s))
      /\ \A i \in 1..Len(s) : (i \in solid <=> ~IsWhitespace(s[i]))
  BY <1>1
<1>3. t = IF solid = {} THEN NoChars ELSE SubSeq(s, f, l)
  BY Zenon DEF TrimName, NoChars
<1> HIDE DEF solid, t
<1>4. ASSUME solid # {} PROVE /\ f \in solid /\ l \in solid
                              /\ \A j \in solid : f <= j /\ l >= j
  <2>1. solid \in SUBSET Nat /\ solid \in SUBSET (0..Len(s))
    BY <1>1, <1>2
  <2>2. \E i \in solid : \A j \in solid : i <= j
    BY <1>4, <2>1, LeastNumber
  <2>3. \E i \in solid : \A j \in solid : i >= j
    BY <1>1, <1>4, <2>1, GreatestNumber
  <2> QED BY <2>2, <2>3
<1> HIDE DEF f, l
<1>5. ASSUME solid = {} PROVE Trims(s, S)
  <2>1. t = NoChars
    BY <1>3, <1>5
  <2>2. ~(Len(s) > 0 /\ ~IsWhitespace(s[1]))
    <3> SUFFICES ASSUME Len(s) > 0, ~IsWhitespace(s[1]) PROVE FALSE
      OBVIOUS
    <3>1. 1 \in 1..Len(s)
      BY <1>1
    <3> QED BY <1>2, <1>5, <3>1
  <2>3. Trimmed(s) => s = NoChars
    BY <2>2 DEF Trimmed
  <2>4. NoChars \in Seq(S)
    BY NothingFact
  <2>6. Trimmed(NoChars)
    BY Zenon DEF Trimmed
  <2>5. TrimName(s) = NoChars
    BY <2>1 DEF t
  <2> QED BY <2>3, <2>4, <2>5, <2>6 DEF Trims
<1>6. ASSUME solid # {} PROVE Trims(s, S)
  <2>1. /\ f \in 1..Len(s) /\ l \in f..Len(s)
        /\ ~IsWhitespace(s[f]) /\ ~IsWhitespace(s[l])
    <3>1. f \in solid /\ l \in solid /\ f <= l
      BY <1>4, <1>6
    <3>2. f \in 1..Len(s) /\ l \in 1..Len(s)
      BY <1>2, <3>1
    <3>3. l \in f..Len(s)
      BY <1>1, <3>1, <3>2
    <3> QED BY <1>2, <3>1, <3>2, <3>3
  <2>2. t = SubSeq(s, f, l)
    BY <1>3, <1>6
  <2> DEFINE n == l - f + 1
  <2>3. /\ f \in 1..Len(s) + 1 /\ l \in f - 1..Len(s) /\ n \in Nat /\ n > 0
        /\ f + 1 - 1 = f /\ f + n - 1 = l /\ 1 \in 1..n /\ n \in 1..n
    BY <1>1, <2>1
  <2>4. t \in Seq(S) /\ Len(t) = n /\ \A i \in 1..n : t[i] = s[f + i - 1]
    <3> HIDE DEF n
    <3>1. /\ t \in Seq(S) /\ Len(t) = l - f + 1
          /\ \A i \in 1..l - f + 1 : t[i] = s[f + i - 1]
      BY <2>2, <2>3, PartFact
    <3> QED BY <3>1 DEF n
  <2> HIDE DEF n
  <2>5. t[1] = s[f] /\ t[n] = s[l]
    <3>1. t[1] = s[f + 1 - 1] /\ t[n] = s[f + n - 1]
      BY <2>3, <2>4
    <3> QED BY <2>3, <3>1
  <2>6. Trimmed(t)
    BY <2>1, <2>3, <2>4, <2>5 DEF Trimmed
  <2>7. Trimmed(s) => t = s
    <3> SUFFICES ASSUME Trimmed(s) PROVE t = s
      OBVIOUS
    <3>1. Len(s) > 0 /\ 1 \in 1..Len(s) /\ Len(s) \in 1..Len(s)
      BY <1>1, <2>1
    <3>2. s # NoChars
      BY <3>1, NothingFact
    <3>3. 1 \in solid /\ Len(s) \in solid
      BY <1>2, <3>1, <3>2 DEF Trimmed
    <3>4. f <= 1 /\ l >= Len(s)
      BY <1>4, <1>6, <3>3
    <3> DEFINE len == Len(s)
    <3>5. f \in 1..len /\ l \in f..len /\ len \in Nat /\ f <= 1 /\ l >= len
      BY <1>1, <2>1, <3>4
    <3> HIDE DEF len
    <3>6. f = 1 /\ l = len
      BY <3>5
    <3> QED BY <2>2, <3>6, SubSeqFull DEF len
  <2> QED BY <2>1, <2>2, <2>4, <2>6, <2>7 DEF Trims, t
<1> QED BY <1>5, <1>6

\* sanitize_catalogue_name in parts: the characters replaced, and how many of
\* them fit.
Cleaned(raw) == [i \in DOMAIN raw |-> IF IsLineLike(raw[i]) THEN Blank ELSE raw[i]]
Fitting(raw) ==
    {n \in 0..Len(raw) : Bytes(SubSeq(Cleaned(raw), 1, n)) <= MAX_CATALOGUE_NAME_BYTES}

LEMMA SanitizeUnfolds ==
    ASSUME NEW raw
    PROVE  sanitize_catalogue_name(raw) =
             TrimName(SubSeq(Cleaned(raw), 1, CHOOSE n \in Fitting(raw) : \A k \in Fitting(raw) : k <= n))
BY Zenon DEF sanitize_catalogue_name, Cleaned, Fitting, Blank

LEMMA CleanedFact ==
    ASSUME NEW raw \in Seq(NameChars)
    PROVE  /\ Cleaned(raw) \in Seq(NameChars) /\ Len(Cleaned(raw)) = Len(raw)
           /\ \A i \in 1..Len(raw) : ~IsLineLike(Cleaned(raw)[i])
           /\ (\A i \in 1..Len(raw) : ~IsLineLike(raw[i])) => Cleaned(raw) = raw
<1> DEFINE n == Len(raw)
           c == Cleaned(raw)
<1>1. n \in Nat /\ DOMAIN raw = 1..n /\ \A i \in 1..n : raw[i] \in NameChars
  BY LenProperties, ElementOfSeq
<1>2. c = [i \in 1..n |-> IF IsLineLike(raw[i]) THEN Blank ELSE raw[i]]
  BY <1>1 DEF Cleaned
<1> HIDE DEF c, n
<1>3. \A i \in 1..n : c[i] = IF IsLineLike(raw[i]) THEN Blank ELSE raw[i]
  BY <1>2
<1>4. \A i \in 1..n : c[i] \in NameChars /\ ~IsLineLike(c[i])
  BY <1>1, <1>3, NameCharsFact
<1>5. c = [i \in 1..n |-> c[i]]
  BY <1>2
<1>6. c \in [1..n -> NameChars]
  BY <1>4, <1>5
<1>7. c \in Seq(NameChars) /\ Len(c) = n
  BY <1>1, <1>6
<1>8. ASSUME \A i \in 1..n : ~IsLineLike(raw[i]) PROVE c = raw
  <2>1. \A i \in 1..n : c[i] = raw[i]
    BY <1>3, <1>8
  <2>2. Len(raw) = n
    BY DEF n
  <2> QED BY <1>7, <2>1, <2>2, SeqEqual
<1> QED BY <1>4, <1>7, <1>8 DEF c, n

\* A name that goes into the prompt as it stands.
Presentable(s) ==
    /\ s \in Seq(NameChars) /\ Trimmed(s) /\ Bytes(s) <= MAX_CATALOGUE_NAME_BYTES
    /\ \A i \in 1..Len(s) : ~IsLineLike(s[i])

LEMMA NothingPresentable ==
    NoChars \in Seq(NameChars) /\ Presentable(NoChars)
<1>1. NoChars \in Seq(NameChars) /\ Len(NoChars) = 0
  BY NothingFact
<1>2. PICK d : Weighed(d, NoChars) /\ Bytes(NoChars) = d[Len(NoChars)]
  BY <1>1, BytesUnfolds
<1>3. Bytes(NoChars) = 0 /\ MAX_CATALOGUE_NAME_BYTES \in Nat
  BY <1>1, <1>2, CatalogueAssumption DEF Weighed
<1>4. Trimmed(NoChars)
  BY Zenon DEF Trimmed
<1>5. \A i \in 1..Len(NoChars) : ~IsLineLike(NoChars[i])
  BY <1>1
<1> QED BY <1>1, <1>3, <1>4, <1>5 DEF Presentable

LEMMA FittingFact ==
    ASSUME NEW raw \in Seq(NameChars)
    PROVE  \E m \in Fitting(raw) :
             /\ m \in 0..Len(raw) /\ \A k \in Fitting(raw) : k <= m
             /\ sanitize_catalogue_name(raw) = TrimName(SubSeq(Cleaned(raw), 1, m))
<1> DEFINE F == Fitting(raw)
           m == CHOOSE n \in F : \A k \in F : k <= n
           c == Cleaned(raw)
<1>1. Len(raw) \in Nat /\ c \in Seq(NameChars) /\ Len(c) = Len(raw)
  BY LenProperties, CleanedFact
<1>2. F \in SUBSET (0..Len(raw))
  BY DEF Fitting
<1>3. 0 \in F
  <2> DEFINE start == SubSeq(c, 1, 0)
  <2>1. start = NoChars
    BY <1>1, SubSeqEmpty DEF NoChars
  <2>2. Bytes(NoChars) = 0
    <3>1. NoChars \in Seq(NameChars) /\ Len(NoChars) = 0
      BY NothingFact
    <3>2. PICK d : Weighed(d, NoChars) /\ Bytes(NoChars) = d[Len(NoChars)]
      BY <3>1, BytesUnfolds
    <3> QED BY <3>1, <3>2 DEF Weighed
  <2>3. MAX_CATALOGUE_NAME_BYTES \in Nat /\ 0 \in 0..Len(raw)
    BY <1>1, CatalogueAssumption
  <2> HIDE DEF start
  <2>4. Bytes(start) <= MAX_CATALOGUE_NAME_BYTES
    BY <2>1, <2>2, <2>3
  <2> QED BY <2>3, <2>4, Zenon DEF Fitting, start
<1> HIDE DEF F
<1>4. \E n \in F : \A k \in F : n >= k
  BY <1>1, <1>2, <1>3, GreatestNumber
<1>5. \E n \in F : \A k \in F : k <= n
  <2>1. \A k \in F : k \in Int
    BY <1>1, <1>2
  <2> QED BY <1>4, <2>1
<1>6. m \in F /\ \A k \in F : k <= m
  BY <1>5
<1>7. sanitize_catalogue_name(raw) = TrimName(SubSeq(c, 1, m))
  BY SanitizeUnfolds DEF F
<1> HIDE DEF m
<1>8. m \in 0..Len(raw)
  BY <1>2, <1>6
<1> QED BY <1>6, <1>7, <1>8 DEF F

\* What sanitize_catalogue_name returns is presentable, and it leaves a
\* presentable name as it is.
LEMMA SanitizeFact ==
    ASSUME NEW raw \in Seq(NameChars)
    PROVE  /\ Presentable(sanitize_catalogue_name(raw))
           /\ Presentable(raw) => sanitize_catalogue_name(raw) = raw
<1> DEFINE c == Cleaned(raw)
           s == sanitize_catalogue_name(raw)
<1>1. PICK m \in Fitting(raw) : /\ m \in 0..Len(raw) /\ \A k \in Fitting(raw) : k <= m
                                /\ s = TrimName(SubSeq(c, 1, m))
  BY FittingFact
<1>2. /\ Len(raw) \in Nat /\ c \in Seq(NameChars) /\ Len(c) = Len(raw)
      /\ \A i \in 1..Len(raw) : ~IsLineLike(c[i])
      /\ (\A i \in 1..Len(raw) : ~IsLineLike(raw[i])) => c = raw
  BY LenProperties, CleanedFact
<1> DEFINE p == SubSeq(c, 1, m)
<1>3. Bytes(p) <= MAX_CATALOGUE_NAME_BYTES
  BY <1>1 DEF Fitting
<1> HIDE DEF c, s
<1>4. p \in Seq(NameChars) /\ Len(p) = m /\ \A i \in 1..m : p[i] = c[i]
  <2>1. 1 \in 1..Len(c) + 1 /\ m \in 1 - 1..Len(c) /\ m - 1 + 1 = m
    BY <1>1, <1>2
  <2>2. \A i \in 1..m : 1 + i - 1 = i
    BY <1>1
  <2>3. p \in Seq(NameChars) /\ Len(p) = m - 1 + 1 /\ \A i \in 1..m - 1 + 1 : p[i] = c[1 + i - 1]
    BY <1>2, <2>1, PartFact
  <2> QED BY <2>1, <2>2, <2>3
<1> HIDE DEF p
<1>5. Trims(p, NameChars)
  BY <1>4, TrimFact
<1>6. s = TrimName(p)
  BY <1>1 DEF p
<1>7. s \in Seq(NameChars) /\ Trimmed(s)
  BY <1>5, <1>6 DEF Trims
<1>8. ASSUME NEW f \in 1..Len(p), NEW l \in f..Len(p), s = SubSeq(p, f, l)
      PROVE  Presentable(s)
  <2>1. /\ f \in 1..Len(p) + 1 /\ l \in f - 1..Len(p) /\ f \in Nat /\ l \in Nat
        /\ \A i \in 1..l - f + 1 : f + i - 1 \in 1..Len(p)
    BY <1>1, <1>4
  <2>2. Len(s) = l - f + 1 /\ \A i \in 1..l - f + 1 : s[i] = p[f + i - 1]
    BY <1>4, <1>8, <2>1, PartFact
  <2>3. \A i \in 1..Len(p) : ~IsLineLike(p[i])
    BY <1>1, <1>2, <1>4
  <2>4. \A i \in 1..Len(s) : ~IsLineLike(s[i])
    BY <2>1, <2>2, <2>3
  <2>5. Bytes(s) <= Bytes(p) /\ Bytes(s) \in Nat /\ Bytes(p) \in Nat
    BY <1>4, <1>8, <2>1, PartBytes
  <2>6. MAX_CATALOGUE_NAME_BYTES \in Nat
    BY CatalogueAssumption
  <2>7. Bytes(s) <= MAX_CATALOGUE_NAME_BYTES
    BY <1>3, <2>5, <2>6
  <2> QED BY <1>7, <2>4, <2>7 DEF Presentable
<1>9. Presentable(NoChars)
  BY NothingPresentable
<1>10. Presentable(s)
  BY <1>5, <1>6, <1>8, <1>9 DEF Trims
<1>11. ASSUME Presentable(raw) PROVE s = raw
  <2> DEFINE len == Len(raw)
  <2>1. c = raw
    BY <1>2, <1>11 DEF Presentable
  <2>2. SubSeq(raw, 1, len) = raw /\ len \in 0..Len(raw)
    BY <1>2, SubSeqFull
  <2>3. Bytes(SubSeq(c, 1, len)) <= MAX_CATALOGUE_NAME_BYTES
    BY <1>11, <2>1, <2>2 DEF Presentable
  <2>4. len \in Fitting(raw)
    BY <2>2, <2>3, Zenon DEF Fitting, c
  <2>5. m = len
    BY <1>1, <1>2, <2>4
  <2>6. p = raw
    BY <2>1, <2>2, <2>5 DEF p
  <2>7. Trimmed(p)
    BY <1>11, <2>6 DEF Presentable
  <2> QED BY <1>5, <1>6, <2>6, <2>7 DEF Trims
<1> QED BY <1>10, <1>11 DEF s

\* What a filter leaves of a list of names: those with a character.
Filled(c) == At(c, {i \in DOMAIN c : c[i] # NoChars})

LEMMA FilledFact ==
    ASSUME NEW S, NEW c \in Seq(S)
    PROVE  /\ Filled(c) \in Seq(S)
           /\ \A k \in 1..Len(Filled(c)) :
                 \E i \in 1..Len(c) : Filled(c)[k] = c[i] /\ c[i] # NoChars
           /\ \A i \in 1..Len(c) : c[i] # NoChars => \E k \in 1..Len(Filled(c)) : Filled(c)[k] = c[i]
           /\ (\A i \in 1..Len(c) : c[i] # NoChars) => Filled(c) = c
<1> DEFINE n == Len(c)
           P == {i \in DOMAIN c : c[i] # NoChars}
           a == Ascending(P, n)
           f == Filled(c)
<1>1. n \in Nat /\ DOMAIN c = 1..n /\ \A i \in 1..n : c[i] \in S
  BY LenProperties, ElementOfSeq
<1>2. f = Taken(c, P, n)
  BY AtFact DEF Filled
<1>3. \A i \in 1..n : i \in P <=> c[i] # NoChars
  BY <1>1
<1> HIDE DEF P, n, f
<1>4. /\ f \in Seq(S) /\ Len(f) = Len(a) /\ \A k \in 1..Len(f) : f[k] = c[a[k]]
  BY <1>1, <1>2, TakenFact
<1>5. Climbing(a, P, n)
  BY <1>1, AscendingFact
<1> HIDE DEF a
<1>6. \A k \in 1..Len(f) : \E i \in 1..n : f[k] = c[i] /\ c[i] # NoChars
  BY <1>3, <1>4, <1>5 DEF Climbing
<1>7. \A i \in 1..n : c[i] # NoChars => \E k \in 1..Len(f) : f[k] = c[i]
  BY <1>3, <1>4, <1>5 DEF Climbing
<1>8. ASSUME \A i \in 1..n : c[i] # NoChars PROVE f = c
  <2>1. 1..n \subseteq P
    BY <1>3, <1>8
  <2>2. a = [k \in 1..n |-> k]
    BY <1>1, <2>1, AscendingAll DEF a
  <2>3. Len(a) = n /\ \A k \in 1..n : a[k] = k
    BY <1>1, <2>2
  <2>4. Len(c) = n
    BY DEF n
  <2>5. Len(f) = n /\ \A k \in 1..n : f[k] = c[k]
    BY <1>4, <2>3
  <2> QED BY <1>4, <2>4, <2>5, SeqEqual
<1> QED BY <1>4, <1>6, <1>7, <1>8 DEF n, f

\* What the prompt holds of the names of a catalogue.
Prompts(names, result) ==
    LET T(i) == TrimName(names[i])
    IN  /\ result \in Seq(Seq(NameChars)) /\ Len(result) <= MAX_CATALOGUE_ENTRIES
        /\ \A k \in 1..Len(result) :
              /\ result[k] # NoChars /\ Presentable(result[k])
              /\ \E i \in 1..Len(names) : result[k] = sanitize_catalogue_name(T(i))
        /\ Len(result) < MAX_CATALOGUE_ENTRIES
              /\ (\A i \in 1..Len(names) : ~(T(i) # NoChars /\ sanitize_catalogue_name(T(i)) = NoChars))
              => \A i \in 1..Len(names) : sanitize_catalogue_name(T(i)) # NoChars
                    => \E k \in 1..Len(result) : result[k] = sanitize_catalogue_name(T(i))

LEMMA NamesFact ==
    ASSUME NEW names \in Seq(Seq(NameChars))
    PROVE  Prompts(names, sanitize_catalogue_names_for_prompt(catalogue_canonical_names(<<>>, names)))
<1> DEFINE S == Seq(NameChars)
           N == Len(names)
           M == MAX_CATALOGUE_ENTRIES
           t == [i \in DOMAIN names |-> TrimName(names[i])]
           d == catalogue_canonical_names(<<>>, names)
           c == [i \in DOMAIN d |-> sanitize_catalogue_name(d[i])]
           result == sanitize_catalogue_names_for_prompt(d)
<1>1. /\ N \in Nat /\ DOMAIN names = 1..N /\ \A i \in 1..N : names[i] \in S
      /\ M \in Nat /\ M > 0
  BY LenProperties, ElementOfSeq, CatalogueAssumption
<1>2. \A s \in S : TrimName(s) \in S /\ sanitize_catalogue_name(s) \in S
                   /\ Presentable(sanitize_catalogue_name(s))
  <2> SUFFICES ASSUME NEW s \in S
               PROVE  TrimName(s) \in S /\ sanitize_catalogue_name(s) \in S
                      /\ Presentable(sanitize_catalogue_name(s))
    OBVIOUS
  <2>1. TrimName(s) \in S
    BY TrimFact DEF Trims
  <2> QED BY <2>1, SanitizeFact DEF Presentable
<1>3. d = PushNew(<<>>, Filled(t), M)
  <2>1. <<>> \o names = names
    BY ConcatEmptySeq
  <2> QED BY <2>1 DEF catalogue_canonical_names, Filled, NoChars
<1>4. result = Shorten(Filled(c), M)
  BY Zenon DEF sanitize_catalogue_names_for_prompt, Filled, NoChars
<1> HIDE DEF S, M, d, result
<1>5. t \in Seq(S) /\ Len(t) = N /\ \A i \in 1..N : t[i] = TrimName(names[i])
  <2>1. t = [i \in 1..N |-> TrimName(names[i])]
    BY <1>1
  <2> HIDE DEF t, N
  <2>2. t \in [1..N -> S]
    BY <1>1, <1>2, <2>1
  <2> QED BY <1>1, <2>1, <2>2
<1> HIDE DEF t
<1> DEFINE f == Filled(t)
           u == Distinct(f)
<1>6. /\ f \in Seq(S) /\ Len(f) \in Nat
      /\ \A k \in 1..Len(f) : \E i \in 1..N : f[k] = t[i] /\ t[i] # NoChars
      /\ \A i \in 1..N : t[i] # NoChars => \E k \in 1..Len(f) : f[k] = t[i]
  BY <1>5, FilledFact, LenProperties
<1> HIDE DEF f
<1>7. /\ u \in Seq(S) /\ Len(u) \in Nat
      /\ \A k \in 1..Len(u) : \E i \in 1..Len(f) : u[k] = f[i]
      /\ \A i \in 1..Len(f) : \E k \in 1..Len(u) : u[k] = f[i]
  BY <1>6, DistinctFact, LenProperties
<1>8. d = Shorten(u, M)
  BY <1>1, <1>3, <1>6, PushFromNothing DEF f
<1> HIDE DEF u
<1>9. /\ d \in Seq(S) /\ Len(d) \in Nat /\ DOMAIN d = 1..Len(d)
      /\ \A k \in 1..Len(d) : k \in 1..Len(u) /\ d[k] = u[k]
      /\ Len(u) >= M => Len(d) = M
      /\ Len(u) <= M => d = u
  <2>1. d \in Seq(S) /\ Begins(d, u) /\ (Len(u) >= M => Len(d) = M) /\ (Len(u) <= M => d = u)
    BY <1>1, <1>7, <1>8, ShortenIs
  <2>2. Len(d) \in Nat /\ DOMAIN d = 1..Len(d)
    BY <2>1, LenProperties
  <2>3. \A k \in 1..Len(d) : k \in 1..Len(u) /\ d[k] = u[k]
    BY <1>7, <2>1, <2>2 DEF Begins
  <2> QED BY <2>1, <2>2, <2>3
<1>10. \A k \in 1..Len(d) : \E i \in 1..N : d[k] = t[i] /\ t[i] # NoChars
  <2> SUFFICES ASSUME NEW k \in 1..Len(d) PROVE \E i \in 1..N : d[k] = t[i] /\ t[i] # NoChars
    OBVIOUS
  <2>1. k \in 1..Len(u) /\ d[k] = u[k]
    BY <1>9
  <2>2. PICK j \in 1..Len(f) : u[k] = f[j]
    BY <1>7, <2>1
  <2>3. PICK i \in 1..N : f[j] = t[i] /\ t[i] # NoChars
    BY <1>6
  <2> QED BY <2>1, <2>2, <2>3
<1>11. c \in Seq(S) /\ Len(c) = Len(d) /\ \A k \in 1..Len(d) : c[k] = sanitize_catalogue_name(d[k])
  <2>1. c = [i \in 1..Len(d) |-> sanitize_catalogue_name(d[i])]
    BY <1>9
  <2>2. \A i \in 1..Len(d) : d[i] \in S
    BY <1>9, ElementOfSeq
  <2> HIDE DEF c
  <2>3. c \in [1..Len(d) -> S]
    BY <1>2, <2>1, <2>2
  <2>4. c \in Seq(S) /\ Len(c) = Len(d)
    BY <1>9, <2>3
  <2>5. \A k \in 1..Len(d) : c[k] = sanitize_catalogue_name(d[k])
    BY <2>1
  <2> QED BY <2>4, <2>5
<1> HIDE DEF c
<1>12. \A k \in 1..Len(d) : \E i \in 1..N : c[k] = sanitize_catalogue_name(t[i]) /\ t[i] # NoChars
  BY <1>10, <1>11
<1> DEFINE g == Filled(c)
<1>13. /\ g \in Seq(S) /\ Len(g) \in Nat
       /\ \A k \in 1..Len(g) : \E i \in 1..Len(d) : g[k] = c[i] /\ c[i] # NoChars
       /\ \A i \in 1..Len(d) : c[i] # NoChars => \E k \in 1..Len(g) : g[k] = c[i]
       /\ (\A i \in 1..Len(d) : c[i] # NoChars) => g = c
  BY <1>11, FilledFact, LenProperties
<1> HIDE DEF g
<1>14. /\ result \in Seq(S) /\ Len(result) \in Nat /\ Len(result) <= M
       /\ \A k \in 1..Len(result) : k \in 1..Len(g) /\ result[k] = g[k]
       /\ Len(g) >= M => Len(result) = M
       /\ Len(g) <= M => result = g
  <2>1. /\ result \in Seq(S) /\ Begins(result, g)
        /\ (Len(g) >= M => Len(result) = M) /\ (Len(g) <= M => result = g)
    BY <1>1, <1>4, <1>13, ShortenIs DEF g
  <2>2. Len(result) \in Nat
    BY <2>1, LenProperties
  <2>3. \A k \in 1..Len(result) : k \in 1..Len(g) /\ result[k] = g[k]
    BY <1>13, <2>1, <2>2 DEF Begins
  <2>4. Len(result) <= M
    BY <1>1, <1>13, <2>1, <2>2
  <2> QED BY <2>1, <2>2, <2>3, <2>4
<1>15. \A k \in 1..Len(result) :
          /\ result[k] # NoChars /\ Presentable(result[k])
          /\ \E i \in 1..N : result[k] = sanitize_catalogue_name(t[i])
  <2> SUFFICES ASSUME NEW k \in 1..Len(result)
               PROVE  /\ result[k] # NoChars /\ Presentable(result[k])
                      /\ \E i \in 1..N : result[k] = sanitize_catalogue_name(t[i])
    OBVIOUS
  <2>1. PICK j \in 1..Len(d) : result[k] = c[j] /\ c[j] # NoChars
    BY <1>13, <1>14
  <2>2. PICK i \in 1..N : c[j] = sanitize_catalogue_name(t[i])
    BY <1>12
  <2>3. t[i] \in S
    BY <1>5, ElementOfSeq
  <2> QED BY <1>2, <2>1, <2>2, <2>3
<1>16. ASSUME Len(result) < M,
              \A i \in 1..N : ~(t[i] # NoChars /\ sanitize_catalogue_name(t[i]) = NoChars),
              NEW i \in 1..N, sanitize_catalogue_name(t[i]) # NoChars
       PROVE  \E k \in 1..Len(result) : result[k] = sanitize_catalogue_name(t[i])
  <2>1. result = g /\ Len(g) < M
    BY <1>1, <1>13, <1>14, <1>16
  <2>2. \A k \in 1..Len(d) : c[k] # NoChars
    BY <1>12, <1>16
  <2>3. g = c
    BY <1>13, <2>2
  <2>4. Len(d) < M
    BY <1>11, <2>1, <2>3
  <2>5. d = u
    <3>3. Len(u) >= M => Len(d) = M
      BY <1>9
    <3>1. ~(Len(u) >= M)
      BY <1>1, <2>4, <3>3
    <3>2. Len(u) <= M
      BY <1>1, <1>7, <3>1
    <3> QED BY <1>9, <3>2
  <2>6. t[i] # NoChars
    <3>1. sanitize_catalogue_name(NoChars) = NoChars
      <4>1. NoChars \in Seq(NameChars) /\ Presentable(NoChars)
        BY NothingPresentable
      <4> QED BY <4>1, SanitizeFact
    <3> QED BY <1>16, <3>1
  <2>7. PICK k \in 1..Len(d) : d[k] = t[i]
    <3>1. PICK j \in 1..Len(f) : f[j] = t[i]
      BY <1>6, <2>6
    <3>2. PICK k \in 1..Len(u) : u[k] = f[j]
      BY <1>7
    <3> QED BY <2>5, <3>1, <3>2
  <2>8. k \in 1..Len(result) /\ result[k] = sanitize_catalogue_name(t[i])
    BY <1>11, <2>1, <2>3, <2>7
  <2> QED BY <2>8
<1>17. \A i \in 1..N : t[i] = TrimName(names[i])
  BY <1>5
<1> HIDE DEF N
<1>18. Prompts(names, result)
  BY <1>14, <1>15, <1>16, <1>17 DEF Prompts, S, M, N
<1> QED BY <1>18 DEF result, d

\* A prompt with one letter keeps it.
LEMMA LetterStays ==
    sanitize_catalogue_names_for_prompt(<< <<"a">> >>) # NoChars
<1> DEFINE a == <<"a">>
           names == <<a>>
           S == Seq(NameChars)
           c == [i \in DOMAIN names |-> sanitize_catalogue_name(names[i])]
           M == MAX_CATALOGUE_ENTRIES
           result == sanitize_catalogue_names_for_prompt(names)
<1>1. a \in S /\ Len(a) = 1 /\ a[1] = "a"
  BY NameCharsFact
<1>2. Presentable(a)
  <2> HIDE DEF a
  <2>1. PICK d : Weighed(d, a) /\ Bytes(a) = d[Len(a)]
    BY <1>1, BytesUnfolds
  <2>2. d[0] = 0 /\ d[1] = d[1 - 1] + LenUtf8(a[1])
    <3>1. 1 \in 1..Len(a)
      BY <1>1
    <3> QED BY <2>1, <3>1 DEF Weighed
  <2>3. Bytes(a) = 1
    BY <1>1, <2>1, <2>2, NameCharsFact
  <2>4. Bytes(a) <= MAX_CATALOGUE_NAME_BYTES
    BY <2>3, CatalogueAssumption
  <2>5. Trimmed(a)
    BY <1>1, NameCharsFact DEF Trimmed
  <2>6. \A i \in 1..Len(a) : ~IsLineLike(a[i])
    BY <1>1, NameCharsFact
  <2> QED BY <1>1, <2>4, <2>5, <2>6 DEF Presentable
<1>3. sanitize_catalogue_name(a) = a /\ a # NoChars
  <2>1. Len(NoChars) = 0
    BY DEF NoChars
  <2> HIDE DEF a
  <2>2. a # NoChars
    BY <1>1, <2>1
  <2> QED BY <1>1, <1>2, <2>2, SanitizeFact
<1> HIDE DEF a
<1>4. Len(names) = 1 /\ names[1] = a /\ DOMAIN names = 1..1
  OBVIOUS
<1> HIDE DEF names
<1>5. c \in Seq(S) /\ Len(c) = 1 /\ c[1] = a
  <2>1. c = [i \in 1..1 |-> sanitize_catalogue_name(names[i])]
    BY <1>4
  <2>2. \A i \in 1..1 : sanitize_catalogue_name(names[i]) = a
    BY <1>3, <1>4
  <2> HIDE DEF c, S
  <2>3. c \in [1..1 -> S] /\ c[1] = a
    BY <1>1, <2>1, <2>2
  <2> DEFINE n == 1
  <2>4. n \in Nat /\ c \in [1..n -> S]
    BY <2>3
  <2> HIDE DEF n
  <2>5. c \in Seq(S) /\ Len(c) = n
    BY <2>4
  <2> QED BY <2>3, <2>5 DEF n
<1>6. result = Shorten(Filled(c), M)
  BY Zenon DEF sanitize_catalogue_names_for_prompt, Filled, NoChars
<1> HIDE DEF c, S, M, result
<1>7. Filled(c) = c
  <2>1. \A i \in 1..Len(c) : c[i] # NoChars
    BY <1>3, <1>5
  <2> QED BY <1>5, <2>1, FilledFact
<1>8. Shorten(c, M) = c
  <2>1. M \in Nat /\ Len(c) <= M
    BY <1>5, CatalogueAssumption DEF M
  <2> QED BY <1>5, <2>1, ShortenIs
<1>9. c # NoChars
  BY <1>5, NothingFact
<1> QED BY <1>6, <1>7, <1>8, <1>9 DEF result, names, a

LEMMA PromptsFact ==
    ASSUME in.names \in Seq(Seq(NameChars)), Prompts(in.names, out)
    PROVE  PromptNames
<1> DEFINE N == Len(in.names)
           T(i) == TrimName(in.names[i])
           Q(i) == sanitize_catalogue_name(T(i))
           clean == {Q(i) : i \in DOMAIN in.names}
           gone(i) == T(i) # <<>> /\ Q(i) = <<>>
<1>1. /\ out \in Seq(Seq(NameChars)) /\ Len(out) <= MAX_CATALOGUE_ENTRIES
      /\ \A k \in 1..Len(out) : /\ out[k] # NoChars /\ Presentable(out[k])
                                /\ \E i \in 1..N : out[k] = Q(i)
  BY DEF Prompts
<1>2. Len(out) < MAX_CATALOGUE_ENTRIES /\ (\A i \in 1..N : ~(T(i) # NoChars /\ Q(i) = NoChars))
         => \A i \in 1..N : Q(i) # NoChars => \E k \in 1..Len(out) : out[k] = Q(i)
  BY Zenon DEF Prompts
<1>3. DOMAIN in.names = 1..N /\ DOMAIN out = 1..Len(out)
  BY <1>1, LenProperties
<1> HIDE DEF N, Q, T
<1>4. ASSUME NEW i \in DOMAIN out
      PROVE  /\ out[i] # <<>> /\ Bytes(out[i]) <= MAX_CATALOGUE_NAME_BYTES
             /\ ~ \E c \in ToSet(out[i]) : IsLineLike(c)
             /\ sanitize_catalogue_name(out[i]) = out[i]
             /\ out[i] \in clean
  <2> DEFINE s == out[i]
  <2>1. i \in 1..Len(out) /\ s # NoChars /\ Presentable(s)
    BY <1>1, <1>3
  <2>2. s \in clean
    BY <1>1, <1>3, <2>1
  <2> HIDE DEF s
  <2>3. /\ s \in Seq(NameChars) /\ Bytes(s) <= MAX_CATALOGUE_NAME_BYTES
        /\ \A j \in 1..Len(s) : ~IsLineLike(s[j])
    BY <2>1 DEF Presentable
  <2>4. DOMAIN s = 1..Len(s)
    BY <2>3, LenProperties
  <2>5. ~ \E c \in ToSet(s) : IsLineLike(c)
    BY <2>3, <2>4 DEF ToSet
  <2>6. sanitize_catalogue_name(s) = s
    BY <2>1, <2>3, SanitizeFact
  <2> QED BY <2>1, <2>2, <2>3, <2>5, <2>6, Zenon DEF s, NoChars
<1>5. ASSUME Len(out) < MAX_CATALOGUE_ENTRIES, \A i \in DOMAIN in.names : ~gone(i)
      PROVE  clean \ {<<>>} \subseteq ToSet(out)
  <2>1. \A i \in 1..N : ~(T(i) # NoChars /\ Q(i) = NoChars)
    BY <1>3, <1>5, Zenon DEF NoChars
  <2>2. \A i \in 1..N : Q(i) # NoChars => \E k \in 1..Len(out) : out[k] = Q(i)
    BY <1>2, <1>5, <2>1, Zenon
  <2> SUFFICES ASSUME NEW x \in clean, x # NoChars PROVE x \in ToSet(out)
    BY DEF NoChars
  <2>3. PICK i \in 1..N : x = Q(i)
    BY <1>3
  <2>4. PICK k \in 1..Len(out) : out[k] = x
    BY <2>2, <2>3
  <2> QED BY <1>3, <2>4 DEF ToSet
<1> QED BY <1>1, <1>4, <1>5, Zenon DEF PromptNames, Q, T

\* canonicalize: the original, or a rewrite that fits and that the token limit
\* has not cut, as far as its provider says why it ended; the rewrite when the
\* model came to its end below the limit and a token is worth two bytes.
LEMMA RewriteFact ==
    ASSUME NEW i \in CanonInputs
    PROVE  LET result == canonicalize(i.names, i.text, i.model)
               cap == output_cap_for(i.text.bytes)
           IN  /\ result.from = "answer" =>
                    /\ result.bytes \in 1..cap /\ result.bytes <= i.model.sent
                    /\ i.model.ends # "missing" => result.bytes = i.model.sent
                    /\ i.model.ends = "STOP" => result.bytes = i.model.meant
               /\ result.from = "text" => result.bytes = i.text.bytes
               /\ /\ i.names = << <<"a">> >> /\ ~i.text.blank /\ i.text.bytes <= MAX_TEXT_BYTES
                  /\ i.model.status = "success" /\ i.model.bytes_per_token >= 2
                  /\ i.model.ends = "STOP" /\ i.model.meant \in 1..cap - 1
                  => result.from = "answer"
<1> DEFINE size == i.text.bytes
           cap == output_cap_for(size)
           max == request_max_output_tokens_for(cap)
           room == max * i.model.bytes_per_token
           meant == i.model.meant
           sent == i.model.sent
           ends == i.model.ends
           resp == Answer(i.model, max)
           output == extract_text(resp)
           result == canonicalize(i.names, i.text, i.model)
           keep == \/ i.names = <<>> \/ i.text.blank \/ size > MAX_TEXT_BYTES
                   \/ sanitize_catalogue_names_for_prompt(i.names) = <<>>
                   \/ resp.status # "success"
                   \/ output = 0
                   \/ ~validate_output_size(size, output)
<1>1. /\ size \in Nat /\ meant \in Nat /\ sent \in Nat /\ i.model.bytes_per_token \in 1..4
      /\ i.text.blank \in BOOLEAN /\ (ends = "STOP" => sent = meant) /\ ends # "MAX_TOKENS"
  BY TextsAssumption DEF CanonInputs
<1>2. /\ resp.status = i.model.status
      /\ resp.bytes = IF sent > room THEN room ELSE sent
      /\ resp.finish = IF sent > room /\ ends # "missing" THEN "MAX_TOKENS" ELSE ends
  BY Zenon DEF Answer
<1>3. output = IF resp.finish = "MAX_TOKENS" THEN 0 ELSE resp.bytes
  BY Zenon DEF extract_text
<1>4. result = IF keep THEN Unchanged(i.text) ELSE [from |-> "answer", bytes |-> output]
  BY Zenon DEF canonicalize
<1>5. validate_output_size(size, output) <=> output <= cap
  BY Zenon DEF validate_output_size
<1>6. Unchanged(i.text).from = "text" /\ Unchanged(i.text).bytes = size
  BY DEF Unchanged
<1>7. /\ cap \in Nat /\ (size <= 32768 => cap <= 49152)
      /\ max \in Nat /\ (cap <= 49152 => 2 * max >= cap - 1)
  <2> DEFINE ratio == (size * 3 + 1) \div 2
             n == cap \div 2
  <2>1. ratio \in Nat /\ (size <= 32768 => ratio <= 49152)
    BY <1>1
  <2>2. cap = IF ratio < 256 THEN 256 ELSE ratio
    BY Zenon DEF output_cap_for, OUTPUT_ABSOLUTE_MIN_BYTES
  <2> HIDE DEF ratio, cap
  <2>3. cap \in Nat /\ (size <= 32768 => cap <= 49152)
    BY <2>1, <2>2
  <2>4. n \in Nat /\ 2 * n >= cap - 1 /\ 2 * n <= cap
    BY <2>3
  <2>5. max = IF n < 1 THEN 1 ELSE IF n > 32768 THEN 32768 ELSE n
    BY DEF request_max_output_tokens_for, OUTPUT_BYTES_PER_TOKEN_FLOOR, MaxTokens
  <2> HIDE DEF n, max
  <2>6. max \in Nat /\ (cap <= 49152 => 2 * max >= cap - 1)
    BY <2>3, <2>4, <2>5
  <2> QED BY <2>3, <2>6
<1> HIDE DEF size, cap, max, meant, sent, ends, resp, output, result
<1>8. room \in Nat /\ (i.model.bytes_per_token >= 2 => room >= 2 * max)
  <2>1. \/ i.model.bytes_per_token = 1 \/ i.model.bytes_per_token = 2
        \/ i.model.bytes_per_token = 3 \/ i.model.bytes_per_token = 4
    BY <1>1
  <2>2. \/ i.model.bytes_per_token = 1 /\ room = max * 1
        \/ i.model.bytes_per_token >= 2 /\ (room = max * 2 \/ room = max * 3 \/ room = max * 4)
    BY <2>1
  <2> HIDE DEF room
  <2> QED BY <1>7, <2>2
<1> HIDE DEF room
<1>9. output # 0 => /\ output <= sent
                    /\ ends # "missing" => output = sent
                    /\ ends = "STOP" => output = meant
  <2>1. CASE sent > room /\ ends # "missing"
    BY <1>2, <1>3, <2>1
  <2>2. CASE ~(sent > room /\ ends # "missing")
    <3>1. output = IF sent > room THEN room ELSE sent
      BY <1>1, <1>2, <1>3, <2>2
    <3> QED BY <1>1, <1>8, <2>2, <3>1
  <2> QED BY <2>1, <2>2
<1>10. ASSUME ~keep
       PROVE  /\ result.from = "answer" /\ result.bytes \in 1..cap /\ result.bytes <= sent
              /\ ends # "missing" => result.bytes = sent
              /\ ends = "STOP" => result.bytes = meant
  <2>1. result = [from |-> "answer", bytes |-> output]
    BY <1>4, <1>10
  <2>2. output # 0 /\ output <= cap
    BY <1>5, <1>10
  <2>3. output \in Nat
    BY <1>1, <1>2, <1>3, <1>8
  <2>4. output \in 1..cap
    BY <1>7, <2>2, <2>3
  <2> QED BY <1>9, <2>1, <2>2, <2>4
<1>11. ASSUME keep
       PROVE  result.from = "text" /\ result.bytes = size
  <2>1. result = Unchanged(i.text)
    BY <1>4, <1>11
  <2> QED BY <1>6, <2>1
<1>12. ASSUME i.names = << <<"a">> >>, ~i.text.blank, size <= MAX_TEXT_BYTES,
              i.model.status = "success", i.model.bytes_per_token >= 2, ends = "STOP",
              meant \in 1..cap - 1
       PROVE  ~keep
  <2>1. size <= 32768 /\ ~(size > MAX_TEXT_BYTES)
    BY <1>1, <1>12 DEF MAX_TEXT_BYTES
  <2>2. i.names # <<>>
    BY <1>12
  <2>3. sanitize_catalogue_names_for_prompt(i.names) # <<>>
    <3> DEFINE names == << <<"a">> >>
    <3>1. sanitize_catalogue_names_for_prompt(names) # NoChars
      BY LetterStays
    <3> QED BY <1>12, <3>1 DEF NoChars
  <2>4. resp.status = "success"
    BY <1>2, <1>12
  <2>5. ~(sent > room) /\ sent = meant
    BY <1>1, <1>7, <1>8, <1>12, <2>1
  <2>6. output = meant
    BY <1>2, <1>3, <1>12, <2>5
  <2>7. output # 0 /\ output <= cap
    BY <1>7, <1>12, <2>6
  <2>8. validate_output_size(size, output)
    BY <1>5, <2>7
  <2>9. ~i.text.blank
    BY <1>12
  <2> QED BY <2>1, <2>2, <2>3, <2>4, <2>7, <2>8, <2>9
<1> HIDE DEF keep
<1>13. result.from = "answer" => /\ result.bytes \in 1..cap /\ result.bytes <= sent
                                 /\ ends # "missing" => result.bytes = sent
                                 /\ ends = "STOP" => result.bytes = meant
  BY <1>10, <1>11
<1>14. result.from = "text" => result.bytes = size
  BY <1>10, <1>11
<1> QED BY <1>10, <1>12, <1>13, <1>14, Zenon DEF result, size, cap, meant, sent, ends

\* Prompts get clean names, and a text is replaced by an answer only when the
\* token limit has not cut it, for any catalogue and text and however the
\* answer ended (CanonicalizationSafe).
THEOREM CanonicalizationKept == Spec => []CanonicalizationSafe
<1> DEFINE Ran ==
      /\ alg = "names" => in \in NameInputs /\ (done => out =
             sanitize_catalogue_names_for_prompt(catalogue_canonical_names(<<>>, in.names)))
      /\ alg = "canon" => in \in CanonInputs
            /\ (done => out = canonicalize(in.names, in.text, in.model))
<1>1. Ran => PromptNames
  <2> SUFFICES ASSUME alg = "names", done, Ran PROVE PromptNames
    BY DEF PromptNames
  <2>1. in.names \in Seq(Seq(NameChars))
    BY TextsAssumption, Zenon DEF NameInputs, NameChars
  <2>2. Prompts(in.names, out)
    BY <2>1, NamesFact
  <2> QED BY <2>1, <2>2, PromptsFact
<1>2. Ran => RewriteUncut
  BY RewriteFact DEF RewriteUncut
<1>3. Init => Ran
  BY DEF Init
<1>4. Ran /\ [Next]_vars => Ran'
  BY DEF Next, Run, vars
<1>5. Ran => CanonicalizationSafe
  BY <1>1, <1>2 DEF CanonicalizationSafe
<1> QED BY <1>3, <1>4, <1>5, PTL DEF Spec

-----------------------------------------------------------------------------
(* AuthRedirect                                                            *)

\* How FlattenSeq(s) comes about.
Flattens(g, s, S) == /\ g \in [0..Len(s) -> Seq(S)] /\ g[0] = <<>>
                     /\ \A n \in 1..Len(s) : g[n] = g[n - 1] \o s[n]

LEMMA FlattenUnfolds ==
    ASSUME NEW S, NEW s \in Seq(Seq(S))
    PROVE  \E g : Flattens(g, s, S) /\ FlattenSeq(s) = g[Len(s)]
<1> DEFINE N == Len(s)
           T == Seq(S)
           F == [p \in T \X (1..N) |-> p[1] \o s[p[2]]]
           Good(f) == f = [i \in 1..N |-> IF i = 1 THEN s[i] ELSE f[i - 1] \o s[i]]
           c == CHOOSE f : Good(f)
           none == <<>>
<1>1. N \in Nat /\ DOMAIN s = 1..N /\ \A n \in 1..N : s[n] \in T
  BY LenProperties, ElementOfSeq
<1>2. FlattenSeq(s) = IF N = 0 THEN s ELSE c[N]
  BY DEF FlattenSeq
<1>3. none \in T /\ \A t \in T : none \o t = t
  BY EmptySeq, ConcatEmptySeq
<1>4. \A t, u \in T : t \o u \in T
  BY ConcatProperties
<1>5. N = 0 => s = none
  BY EmptySeq
<1> HIDE DEF N, T, none, c
<1>6. F \in [T \X (1..N) -> T]
  <2>1. \A p \in T \X (1..N) : p[1] \in T /\ p[2] \in 1..N
    OBVIOUS
  <2> QED BY <1>1, <1>4, <2>1
<1>7. PICK g \in [0..N -> T] : g[0] = none /\ \A n \in 1..N : g[n] = F[<<g[n - 1], n>>]
  <2> HIDE DEF F
  <2>1. \E g \in [0..N -> T] : Follows(g, none, F, N)
    BY <1>1, <1>3, <1>6, Recursion
  <2> QED BY <2>1 DEF Follows
<1>8. \A n \in 1..N : g[n] = g[n - 1] \o s[n]
  <2> SUFFICES ASSUME NEW n \in 1..N PROVE g[n] = g[n - 1] \o s[n]
    OBVIOUS
  <2>1. n - 1 \in 0..N
    BY <1>1
  <2>2. <<g[n - 1], n>> \in T \X (1..N)
    BY <2>1
  <2>3. F[<<g[n - 1], n>>] = g[n - 1] \o s[n]
    BY <2>2
  <2> HIDE DEF F
  <2> QED BY <1>7, <2>3
<1> HIDE DEF F
<1>9. N # 0 => Good(c)
  <2> SUFFICES ASSUME N # 0 PROVE Good(c)
    OBVIOUS
  <2> DEFINE f == [i \in 1..N |-> g[i]]
  <2>1. \A i \in 1..N : f[i] = IF i = 1 THEN s[i] ELSE f[i - 1] \o s[i]
    <3> SUFFICES ASSUME NEW i \in 1..N PROVE f[i] = IF i = 1 THEN s[i] ELSE f[i - 1] \o s[i]
      OBVIOUS
    <3>1. f[i] = g[i - 1] \o s[i]
      BY <1>8
    <3>2. CASE i = 1
      <4>1. i - 1 = 0
        BY <3>2
      <4> QED BY <1>1, <1>3, <1>7, <3>1, <3>2, <4>1
    <3>3. CASE i # 1
      <4>1. i - 1 \in 1..N
        BY <1>1, <3>3
      <4>2. f[i - 1] = g[i - 1]
        BY <4>1
      <4> HIDE DEF f
      <4> QED BY <3>1, <3>3, <4>2
    <3> QED BY <3>2, <3>3
  <2>2. f = [i \in 1..N |-> f[i]]
    OBVIOUS
  <2> HIDE DEF f
  <2>3. Good(f)
    BY <2>1, <2>2
  <2> HIDE DEF Good
  <2> QED BY <2>3 DEF c
<1>10. N # 0 => \A i \in 1..N : c[i] = IF i = 1 THEN s[i] ELSE c[i - 1] \o s[i]
  BY <1>9
<1> HIDE DEF Good
<1>11. \A n \in 0..N : n # 0 => c[n] = g[n]
  <2> DEFINE V == {n \in 0..N : n # 0 => c[n] = g[n]}
  <2>1. 0 \in V
    BY <1>1
  <2>2. ASSUME NEW n \in 1..N, n - 1 \in V PROVE n \in V
    <3>1. n \in 0..N /\ n # 0 /\ N # 0 /\ n - 1 \in 0..N
      BY <1>1
    <3>2. CASE n = 1
      <4>1. c[n] = s[n]
        BY <1>10, <3>1, <3>2
      <4>2. g[n] = g[n - 1] \o s[n]
        BY <1>8
      <4>3. g[n - 1] = none
        <5>1. n - 1 = 0
          BY <3>2
        <5> QED BY <1>7, <5>1
      <4>4. g[n] = s[n]
        BY <1>1, <1>3, <4>2, <4>3
      <4> QED BY <3>1, <4>1, <4>4
    <3>3. CASE n # 1
      <4>1. n - 1 # 0
        BY <3>3
      <4>2. c[n - 1] = g[n - 1]
        BY <2>2, <4>1
      <4>3. c[n] = c[n - 1] \o s[n]
        BY <1>10, <3>1, <3>3
      <4> QED BY <1>8, <3>1, <4>2, <4>3
    <3> QED BY <3>2, <3>3
  <2>3. \A n \in 0..N : n \in V
    <3> HIDE DEF V
    <3> QED BY <1>1, <2>1, <2>2, UptoInduction
  <2> QED BY <2>3
<1>12. FlattenSeq(s) = g[N]
  <2>1. CASE N = 0
    BY <1>2, <1>5, <1>7, <2>1
  <2>2. CASE N # 0
    <3>1. N \in 0..N
      BY <1>1
    <3> QED BY <1>2, <1>11, <2>2, <3>1
  <2> QED BY <2>1, <2>2
<1>13. Flattens(g, s, S)
  BY <1>7, <1>8 DEF Flattens, N, T, none
<1> QED BY <1>12, <1>13 DEF N

\* A list of texts joined is a text.
LEMMA FlattenType ==
    ASSUME NEW S, NEW s \in Seq(Seq(S))
    PROVE  FlattenSeq(s) \in Seq(S)
<1>1. PICK g : Flattens(g, s, S) /\ FlattenSeq(s) = g[Len(s)]
  BY FlattenUnfolds
<1>2. Len(s) \in 0..Len(s)
  BY LenProperties
<1> QED BY <1>1, <1>2 DEF Flattens

\* What a decoder has read, and one character more.
DigitOf(d) == IF d < 58 THEN d - 48 ELSE d - 55
ReadOne(r, c) ==
    CASE Len(r.open) = 2 ->
           [bytes |-> Append(r.bytes, 16 * DigitOf(r.open[2]) + DigitOf(c)), open |-> <<>>]
      [] Len(r.open) = 1 \/ (r.open = <<>> /\ c = Percent) ->
           [bytes |-> r.bytes, open |-> Append(r.open, c)]
      [] OTHER -> [bytes |-> Append(r.bytes, c), open |-> <<>>]
Readers == [bytes : Seq(Int), open : Seq(Nat)]
Fresh == [bytes |-> <<>>, open |-> <<>>]

\* How Unescaped(v) comes about.
Reads(r, v) == /\ r \in [0..Len(v) -> Readers] /\ r[0] = Fresh
               /\ \A n \in 1..Len(v) : r[n] = ReadOne(r[n - 1], v[n])

LEMMA ReadOneType ==
    ASSUME NEW r \in Readers, NEW c \in Nat
    PROVE  ReadOne(r, c) \in Readers
<1>1. r.bytes \in Seq(Int) /\ r.open \in Seq(Nat)
  BY DEF Readers
<1>2. <<>> \in Seq(Nat)
  BY EmptySeq
<1>3. CASE Len(r.open) = 2
  <2>1. r.open[2] \in Nat
    <3>1. 2 \in 1..Len(r.open)
      BY <1>3
    <3> QED BY <1>1, <3>1, ElementOfSeq
  <2> DEFINE b == 16 * DigitOf(r.open[2]) + DigitOf(c)
  <2>2. b \in Int
    BY <2>1 DEF DigitOf
  <2>3. ReadOne(r, c) = [bytes |-> Append(r.bytes, b), open |-> <<>>]
    BY <1>3 DEF ReadOne
  <2> HIDE DEF b
  <2>4. Append(r.bytes, b) \in Seq(Int)
    BY <1>1, <2>2
  <2> QED BY <1>2, <2>3, <2>4 DEF Readers
<1>4. CASE Len(r.open) # 2 /\ (Len(r.open) = 1 \/ (r.open = <<>> /\ c = Percent))
  <2>1. ReadOne(r, c) = [bytes |-> r.bytes, open |-> Append(r.open, c)]
    BY <1>4 DEF ReadOne
  <2>2. Append(r.open, c) \in Seq(Nat)
    BY <1>1
  <2> QED BY <1>1, <2>1, <2>2 DEF Readers
<1>5. CASE Len(r.open) # 2 /\ ~(Len(r.open) = 1 \/ (r.open = <<>> /\ c = Percent))
  <2>1. ReadOne(r, c) = [bytes |-> Append(r.bytes, c), open |-> <<>>]
    BY <1>5 DEF ReadOne
  <2>2. Append(r.bytes, c) \in Seq(Int)
    BY <1>1
  <2> QED BY <1>1, <1>2, <2>1, <2>2 DEF Readers
<1> QED BY <1>3, <1>4, <1>5

LEMMA UnescapeUnfolds ==
    ASSUME NEW v \in Seq(Nat)
    PROVE  \E r : Reads(r, v) /\ Unescaped(v) = r[Len(v)].bytes
<1> DEFINE N == Len(v)
           F == [p \in Readers \X (1..N) |-> ReadOne(p[1], v[p[2]])]
           Good(f) == f = [n \in 0..N |-> IF n = 0 THEN Fresh ELSE ReadOne(f[n - 1], v[n])]
           c == CHOOSE f : Good(f)
<1>1. N \in Nat /\ \A n \in 1..N : v[n] \in Nat
  BY LenProperties, ElementOfSeq
<1>2. Unescaped(v) = c[N].bytes
  BY DEF Unescaped, ReadOne, DigitOf, Fresh
<1> HIDE DEF N
<1>3. Fresh \in Readers
  BY EmptySeq DEF Fresh, Readers
<1>4. F \in [Readers \X (1..N) -> Readers]
  <2>1. \A p \in Readers \X (1..N) : p[1] \in Readers /\ p[2] \in 1..N
    OBVIOUS
  <2>2. \A p \in Readers \X (1..N) : ReadOne(p[1], v[p[2]]) \in Readers
    BY <1>1, <2>1, ReadOneType
  <2> QED BY <2>2
<1>5. PICK r \in [0..N -> Readers] : r[0] = Fresh /\ \A n \in 1..N : r[n] = F[<<r[n - 1], n>>]
  <2> HIDE DEF F
  <2>1. \E r \in [0..N -> Readers] : Follows(r, Fresh, F, N)
    BY <1>1, <1>3, <1>4, Recursion
  <2> QED BY <2>1 DEF Follows
<1>6. \A n \in 1..N : F[<<r[n - 1], n>>] = ReadOne(r[n - 1], v[n])
  <2> SUFFICES ASSUME NEW n \in 1..N PROVE F[<<r[n - 1], n>>] = ReadOne(r[n - 1], v[n])
    OBVIOUS
  <2>1. n - 1 \in 0..N
    BY <1>1
  <2>2. <<r[n - 1], n>> \in Readers \X (1..N)
    BY <2>1
  <2> QED BY <2>2
<1>7. \A n \in 0..N : n = 0 \/ n \in 1..N
  BY <1>1
<1>8. Good(r)
  <2> HIDE DEF F
  <2>1. r = [n \in 0..N |-> r[n]]
    OBVIOUS
  <2>2. \A n \in 0..N : r[n] = IF n = 0 THEN Fresh ELSE ReadOne(r[n - 1], v[n])
    BY <1>5, <1>6, <1>7
  <2> QED BY <2>1, <2>2
<1>9. Good(c)
  <2> HIDE DEF Good
  <2> QED BY <1>8
<1>10. c = [n \in 0..N |-> IF n = 0 THEN Fresh ELSE ReadOne(c[n - 1], v[n])]
  <2> HIDE DEF c
  <2> QED BY <1>9 DEF c
<1> HIDE DEF c, F
<1>11. c[0] = Fresh /\ \A n \in 1..N : c[n] = ReadOne(c[n - 1], v[n])
  <2>1. \A n \in 0..N : c[n] = IF n = 0 THEN Fresh ELSE ReadOne(c[n - 1], v[n])
    BY <1>10
  <2>2. 0 \in 0..N /\ \A n \in 1..N : n \in 0..N /\ n # 0
    BY <1>1
  <2> QED BY <2>1, <2>2
<1>12. \A n \in 0..N : c[n] \in Readers
  <2> DEFINE V == {n \in 0..N : c[n] \in Readers}
  <2>1. 0 \in V
    BY <1>1, <1>3, <1>11
  <2>2. ASSUME NEW n \in 1..N, n - 1 \in V PROVE n \in V
    <3>1. n \in 0..N
      BY <1>1
    <3>2. ReadOne(c[n - 1], v[n]) \in Readers
      BY <1>1, <2>2, ReadOneType
    <3> QED BY <1>11, <3>1, <3>2
  <2>3. \A n \in 0..N : n \in V
    <3> HIDE DEF V
    <3> QED BY <1>1, <2>1, <2>2, UptoInduction
  <2> QED BY <2>3
<1>13. c \in [0..N -> Readers]
  BY <1>10, <1>12
<1> QED BY <1>2, <1>11, <1>13 DEF Reads, N

\* A decoder has read v when it has come to this.
IsRead(v, s) == \E r : Reads(r, v) /\ s = r[Len(v)]

LEMMA ReadStart == IsRead(<<>>, Fresh)
<1> DEFINE none == <<>>
           N == Len(none)
           r == [n \in 0..0 |-> Fresh]
<1>1. N = 0
  BY EmptySeq
<1>2. Fresh \in Readers
  BY EmptySeq DEF Fresh, Readers
<1>3. r[0] = Fresh
  OBVIOUS
<1>4. r \in [0..0 -> Readers]
  BY <1>2
<1> HIDE DEF r
<1>5. \A n \in 1..0 : r[n] = ReadOne(r[n - 1], none[n])
  OBVIOUS
<1> HIDE DEF N
<1>6. Reads(r, none)
  <2>1. N = Len(none)
    BY DEF N
  <2> HIDE DEF none
  <2> QED BY <1>1, <1>3, <1>4, <1>5, <2>1 DEF Reads
<1> QED BY <1>1, <1>3, <1>6 DEF IsRead, N

LEMMA ReadStep ==
    ASSUME NEW v \in Seq(Nat), NEW c \in Nat, NEW s, IsRead(v, s)
    PROVE  IsRead(Append(v, c), ReadOne(s, c)) /\ s \in Readers
<1> DEFINE N == Len(v)
           w == Append(v, c)
<1>1. N \in Nat
  BY LenProperties
<1>2. PICK r : Reads(r, v) /\ s = r[N]
  BY DEF IsRead
<1>3. Len(w) = N + 1 /\ w[N + 1] = c /\ \A n \in 1..N : w[n] = v[n]
  BY AppendProperties
<1> HIDE DEF w
<1>4. /\ r \in [0..N -> Readers] /\ r[0] = Fresh
      /\ \A n \in 1..N : r[n] = ReadOne(r[n - 1], v[n])
  BY <1>2 DEF Reads
<1> HIDE DEF N
<1> DEFINE t == [n \in 0..N + 1 |-> IF n = N + 1 THEN ReadOne(s, c) ELSE r[n]]
<1>5. s \in Readers /\ ReadOne(s, c) \in Readers
  <2>1. N \in 0..N
    BY <1>1
  <2> QED BY <1>2, <1>4, <2>1, ReadOneType
<1>6. \A n \in 0..N + 1 : n = N + 1 \/ n \in 0..N
  BY <1>1
<1>7. t \in [0..N + 1 -> Readers]
  BY <1>4, <1>5, <1>6
<1>8. t[N + 1] = ReadOne(s, c) /\ \A n \in 0..N : t[n] = r[n]
  <2>1. N + 1 \in 0..N + 1 /\ \A n \in 0..N : n \in 0..N + 1 /\ n # N + 1
    BY <1>1
  <2> QED BY <2>1
<1> HIDE DEF t
<1>9. t[0] = Fresh
  <2>1. 0 \in 0..N
    BY <1>1
  <2> QED BY <1>4, <1>8, <2>1
<1>10. \A n \in 1..N + 1 : t[n] = ReadOne(t[n - 1], w[n])
  <2> SUFFICES ASSUME NEW n \in 1..N + 1 PROVE t[n] = ReadOne(t[n - 1], w[n])
    OBVIOUS
  <2>1. n - 1 \in 0..N /\ (n # N + 1 => n \in 1..N /\ n \in 0..N)
    BY <1>1
  <2>2. t[n - 1] = r[n - 1]
    BY <1>8, <2>1
  <2>3. CASE n = N + 1
    <3>1. n - 1 = N
      BY <1>1, <2>3
    <3>2. t[n - 1] = s
      BY <1>2, <2>2, <3>1
    <3> QED BY <1>3, <1>8, <2>3, <3>2
  <2>4. CASE n # N + 1
    BY <1>3, <1>4, <1>8, <2>1, <2>2, <2>4
  <2> QED BY <2>3, <2>4
<1>11. Reads(t, w)
  BY <1>3, <1>7, <1>9, <1>10 DEF Reads
<1> QED BY <1>3, <1>5, <1>8, <1>11 DEF IsRead, w

LEMMA ReadUnique ==
    ASSUME NEW v \in Seq(Nat), NEW s, IsRead(v, s)
    PROVE  Unescaped(v) = s.bytes
<1> DEFINE N == Len(v)
<1>1. N \in Nat
  BY LenProperties
<1>2. PICK r : Reads(r, v) /\ s = r[N]
  BY DEF IsRead
<1>3. PICK q : Reads(q, v) /\ Unescaped(v) = q[N].bytes
  BY UnescapeUnfolds
<1>4. /\ r[0] = Fresh /\ \A n \in 1..N : r[n] = ReadOne(r[n - 1], v[n])
      /\ q[0] = Fresh /\ \A n \in 1..N : q[n] = ReadOne(q[n - 1], v[n])
  BY <1>2, <1>3 DEF Reads
<1> HIDE DEF N
<1> DEFINE V == {n \in 0..N : r[n] = q[n]}
<1>5. 0 \in V
  BY <1>1, <1>4
<1>6. ASSUME NEW n \in 1..N, n - 1 \in V PROVE n \in V
  <2>1. n \in 0..N
    BY <1>1
  <2> QED BY <1>4, <1>6, <2>1
<1>7. \A n \in 0..N : n \in V
  <2> HIDE DEF V
  <2> QED BY <1>1, <1>5, <1>6, UptoInduction
<1>8. N \in 0..N
  BY <1>1
<1> QED BY <1>2, <1>3, <1>7, <1>8

\* No escaped text has an ampersand.
Clean == Nat \ {Ampersand}
SixDigits(n) == <<HexDigit(n \div 1048576), HexDigit(n \div 65536), HexDigit(n \div 4096),
                  HexDigit(n \div 256), HexDigit(n \div 16), HexDigit(n)>>

LEMMA HexDigitFact ==
    ASSUME NEW d \in Nat
    PROVE  HexDigit(d) \in Clean /\ HexDigit(d) \in Nat /\ DigitOf(HexDigit(d)) = d % 16
<1>1. d % 16 \in 0..15
  OBVIOUS
<1> DEFINE m == d % 16
<1> HIDE DEF m
<1>2. m \in 0..15
  BY <1>1 DEF m
<1>3. HexDigit(d) = IF m < 10 THEN 48 + m ELSE 55 + m
  BY DEF HexDigit, m
<1>4. HexDigit(d) \in Nat /\ HexDigit(d) # 38 /\ DigitOf(HexDigit(d)) = m
  BY <1>2, <1>3 DEF DigitOf
<1> QED BY <1>4 DEF Clean, Ampersand, m

LEMMA SixDigitsFact ==
    ASSUME NEW n \in Nat
    PROVE  /\ SixDigits(n) \in Seq(Clean) /\ Len(SixDigits(n)) = 6
           /\ SixDigits(n)[5] = HexDigit(n \div 16) /\ SixDigits(n)[6] = HexDigit(n)
<1> DEFINE a == HexDigit(n \div 1048576)
           b == HexDigit(n \div 65536)
           c == HexDigit(n \div 4096)
           d == HexDigit(n \div 256)
           e == HexDigit(n \div 16)
           f == HexDigit(n)
<1>1. /\ n \div 1048576 \in Nat /\ n \div 65536 \in Nat /\ n \div 4096 \in Nat
      /\ n \div 256 \in Nat /\ n \div 16 \in Nat
  OBVIOUS
<1>2. a \in Clean /\ b \in Clean /\ c \in Clean /\ d \in Clean /\ e \in Clean /\ f \in Clean
  BY <1>1, HexDigitFact
<1>3. SixDigits(n) = <<a, b, c, d, e, f>>
  BY DEF SixDigits
<1> HIDE DEF a, b, c, d, e, f
<1>4. /\ <<a, b, c, d, e, f>> \in Seq(Clean) /\ Len(<<a, b, c, d, e, f>>) = 6
      /\ <<a, b, c, d, e, f>>[5] = e /\ <<a, b, c, d, e, f>>[6] = f
  BY <1>2
<1> QED BY <1>3, <1>4 DEF e, f

LEMMA HexFact ==
    ASSUME NEW n \in Nat
    PROVE  Hex(n) \in Seq(Clean) /\ (n < 256 => Hex(n) = <<HexDigit(n \div 16), HexDigit(n)>>)
<1> DEFINE six == SixDigits(n)
           unused == IF n < 256 THEN 4 ELSE IF n < 4096 THEN 3 ELSE IF n < 65536 THEN 2
                     ELSE IF n < 1048576 THEN 1 ELSE 0
           c == HexDigit(n \div 16)
           d == HexDigit(n)
<1>1. six \in Seq(Clean) /\ Len(six) = 6 /\ six[5] = c /\ six[6] = d
  BY SixDigitsFact
<1>2. c \in Clean /\ d \in Clean
  <2>1. n \div 16 \in Nat
    OBVIOUS
  <2> QED BY <2>1, HexDigitFact
<1>3. Hex(n) = SubSeq(six, unused + 1, 6)
  BY SMT DEF Hex, SixDigits
<1>4. unused \in 0..4 /\ (n < 256 => unused = 4)
  OBVIOUS
<1> HIDE DEF six, unused, c, d
<1>5. /\ Hex(n) \in Seq(Clean) /\ Len(Hex(n)) = 6 - (unused + 1) + 1
      /\ \A i \in 1..6 - (unused + 1) + 1 : Hex(n)[i] = six[(unused + 1) + i - 1]
  <2> DEFINE u == unused + 1
  <2>1. u \in 1..Len(six) + 1 /\ 6 \in u - 1..Len(six)
    BY <1>1, <1>4
  <2> HIDE DEF u
  <2>2. /\ SubSeq(six, u, 6) \in Seq(Clean) /\ Len(SubSeq(six, u, 6)) = 6 - u + 1
        /\ \A i \in 1..6 - u + 1 : SubSeq(six, u, 6)[i] = six[u + i - 1]
    BY <1>1, <2>1, PartFact
  <2> QED BY <1>3, <2>2 DEF u
<1>6. ASSUME n < 256 PROVE Hex(n) = <<c, d>>
  <2> DEFINE t == <<c, d>>
             s == Hex(n)
  <2>1. t \in Seq(Clean) /\ Len(t) = 2 /\ t[1] = c /\ t[2] = d
    BY <1>2
  <2>2. Len(s) = 2 /\ s[1] = c /\ s[2] = d
    <3>1. unused = 4 /\ 6 - (unused + 1) + 1 = 2 /\ (unused + 1) + 1 - 1 = 5 /\ (unused + 1) + 2 - 1 = 6
      BY <1>4, <1>6
    <3>2. 1 \in 1..2 /\ 2 \in 1..2
      OBVIOUS
    <3> QED BY <1>1, <1>5, <3>1, <3>2
  <2>3. s \in Seq(Clean)
    BY <1>5
  <2> HIDE DEF s, t
  <2>4. \A i \in 1..Len(s) : s[i] = t[i]
    BY <2>1, <2>2
  <2>5. s = t
    BY <2>1, <2>2, <2>3, <2>4, SeqEqual
  <2> QED BY <2>5 DEF s, t
<1> QED BY <1>5, <1>6 DEF c, d

\* Escape leaves a character alone or makes it a percent sign and digits.
LEMMA EscapeFact ==
    ASSUME NEW n \in Nat
    PROVE  /\ Escape(n) \in Seq(Clean)
           /\ n \in Unreserved => Escape(n) = <<n>> /\ n # Percent
           /\ n \notin Unreserved /\ n < 256
                => Escape(n) = <<Percent, HexDigit(n \div 16), HexDigit(n)>>
<1>1. Hex(n) \in Seq(Clean) /\ (n < 256 => Hex(n) = <<HexDigit(n \div 16), HexDigit(n)>>)
  BY HexFact
<1>2. Percent \in Clean /\ <<Percent>> \in Seq(Clean)
  BY DEF Percent, Clean, Ampersand
<1>3. CASE n \in Unreserved
  <2>1. n # 37 /\ n # 38
    BY <1>3 DEF Unreserved
  <2>2. Escape(n) = <<n>>
    BY <1>3 DEF Escape
  <2>3. <<n>> \in Seq(Clean)
    BY <2>1 DEF Clean, Ampersand
  <2> QED BY <1>3, <2>1, <2>2, <2>3 DEF Percent
<1>4. CASE n \notin Unreserved
  <2>1. Escape(n) = <<Percent>> \o Hex(n)
    BY <1>4 DEF Escape
  <2>2. Escape(n) \in Seq(Clean)
    BY <1>1, <1>2, <2>1, ConcatProperties
  <2>3. n < 256 => Escape(n) = <<Percent, HexDigit(n \div 16), HexDigit(n)>>
    <3> DEFINE c == HexDigit(n \div 16)
               d == HexDigit(n)
    <3> HIDE DEF c, d
    <3>1. <<Percent>> \o <<c, d>> = <<Percent, c, d>>
      <4> DEFINE S == {Percent, c, d}
                 a == <<Percent>>
                 b == <<c, d>>
                 t == <<Percent, c, d>>
      <4>1. /\ a \in Seq(S) /\ Len(a) = 1 /\ a[1] = Percent
            /\ b \in Seq(S) /\ Len(b) = 2 /\ b[1] = c /\ b[2] = d
            /\ t \in Seq(S) /\ Len(t) = 3 /\ t[1] = Percent /\ t[2] = c /\ t[3] = d
        OBVIOUS
      <4> HIDE DEF a, b, t, S
      <4>2. /\ a \o b \in Seq(S) /\ Len(a \o b) = Len(a) + Len(b)
            /\ \A i \in 1..Len(a) + Len(b) :
                  (a \o b)[i] = IF i <= Len(a) THEN a[i] ELSE b[i - Len(a)]
        BY <4>1, ConcatProperties
      <4>3. \A i \in 1..3 : (a \o b)[i] = t[i]
        <5>1. /\ 1 \in 1..3 /\ 2 \in 1..3 /\ 3 \in 1..3 /\ 1 + 2 = 3
              /\ 2 - 1 = 1 /\ 3 - 1 = 2 /\ 1 <= 1 /\ ~(2 <= 1) /\ ~(3 <= 1)
          OBVIOUS
        <5>2. \A i \in 1..3 : i = 1 \/ i = 2 \/ i = 3
          OBVIOUS
        <5> QED BY <4>1, <4>2, <5>1, <5>2
      <4>4. a \o b = t
        BY <4>1, <4>2, <4>3, SeqEqual
      <4> QED BY <4>4 DEF a, b, t
    <3>2. n < 256 => Hex(n) = <<c, d>>
      BY <1>1 DEF c, d
    <3> QED BY <2>1, <3>1, <3>2 DEF c, d
  <2> QED BY <1>4, <2>2, <2>3
<1> QED BY <1>3, <1>4

LEMMA EscapesFact ==
    ASSUME NEW s \in Seq(Nat)
    PROVE  /\ [i \in DOMAIN s |-> Escape(s[i])] \in Seq(Seq(Clean))
           /\ EscapedChars(s) \in Seq(Clean)
<1> DEFINE e == [i \in DOMAIN s |-> Escape(s[i])]
           T == Seq(Clean)
<1>1. Len(s) \in Nat /\ DOMAIN s = 1..Len(s) /\ \A i \in 1..Len(s) : s[i] \in Nat
  BY LenProperties, ElementOfSeq
<1>2. \A i \in 1..Len(s) : Escape(s[i]) \in T
  BY <1>1, EscapeFact
<1> HIDE DEF T
<1>3. e \in [1..Len(s) -> T]
  BY <1>1, <1>2
<1>4. e \in Seq(T)
  BY <1>1, <1>3, SeqDef
<1>5. EscapedChars(s) = FlattenSeq(e)
  BY DEF EscapedChars
<1> HIDE DEF e
<1>6. FlattenSeq(e) \in Seq(Clean)
  BY <1>4, FlattenType DEF T
<1> QED BY <1>4, <1>5, <1>6 DEF e, T

LEMMA AppendOne ==
    ASSUME NEW S, NEW s \in Seq(S), NEW c \in S
    PROVE  s \o <<c>> = Append(s, c) /\ Append(s, c) \in Seq(S)
OBVIOUS

LEMMA AppendThree ==
    ASSUME NEW S, NEW s \in Seq(S), NEW a \in S, NEW b \in S, NEW c \in S
    PROVE  s \o <<a, b, c>> = Append(Append(Append(s, a), b), c)
<1> DEFINE t == <<a, b, c>>
           u == Append(Append(Append(s, a), b), c)
<1>1. t \in Seq(S) /\ Len(t) = 3 /\ t[1] = a /\ t[2] = b /\ t[3] = c
  OBVIOUS
<1>2. Len(s) \in Nat
  BY LenProperties
<1> DEFINE N == Len(s)
<1>3. u \in Seq(S) /\ Len(u) = N + 3
  BY AppendProperties
<1>4. u[N + 1] = a /\ u[N + 2] = b /\ u[N + 3] = c /\ \A i \in 1..N : u[i] = s[i]
  BY AppendProperties
<1> HIDE DEF t, u
<1>5. /\ s \o t \in Seq(S) /\ Len(s \o t) = N + Len(t)
      /\ \A i \in 1..N + Len(t) : (s \o t)[i] = IF i <= N THEN s[i] ELSE t[i - N]
  BY <1>1, ConcatProperties
<1> HIDE DEF N
<1>6. \A i \in 1..N + 3 : (s \o t)[i] = u[i]
  <2> SUFFICES ASSUME NEW i \in 1..N + 3 PROVE (s \o t)[i] = u[i]
    OBVIOUS
  <2>1. (s \o t)[i] = IF i <= N THEN s[i] ELSE t[i - N]
    BY <1>1, <1>5
  <2>2. CASE i <= N
    <3>1. i \in 1..N
      BY <1>2, <2>2 DEF N
    <3> QED BY <1>4, <2>1, <2>2, <3>1
  <2>3. CASE i = N + 1
    <3>1. ~(i <= N) /\ i - N = 1
      BY <1>2, <2>3 DEF N
    <3> QED BY <1>1, <1>4, <2>1, <2>3, <3>1
  <2>4. CASE i = N + 2
    <3>1. ~(i <= N) /\ i - N = 2
      BY <1>2, <2>4 DEF N
    <3> QED BY <1>1, <1>4, <2>1, <2>4, <3>1
  <2>5. CASE i = N + 3
    <3>1. ~(i <= N) /\ i - N = 3
      BY <1>2, <2>5 DEF N
    <3> QED BY <1>1, <1>4, <2>1, <2>5, <3>1
  <2>6. i <= N \/ i = N + 1 \/ i = N + 2 \/ i = N + 3
    BY <1>2 DEF N
  <2> QED BY <2>2, <2>3, <2>4, <2>5, <2>6
<1>7. Len(s \o t) = N + 3
  BY <1>1, <1>5
<1>8. s \o t = u
  BY <1>3, <1>5, <1>6, <1>7, SeqEqual
<1> QED BY <1>8 DEF t, u

LEMMA AppendPair ==
    ASSUME NEW a, NEW c
    PROVE  Append(<<a>>, c) = <<a, c>>
<1> DEFINE S == {a, c}
           s == <<a>>
           t == <<a, c>>
<1>1. s \in Seq(S) /\ Len(s) = 1 /\ s[1] = a /\ t \in Seq(S) /\ Len(t) = 2 /\ t[1] = a /\ t[2] = c
  OBVIOUS
<1>2. c \in S
  OBVIOUS
<1> HIDE DEF S, s, t
<1>3. /\ Append(s, c) \in Seq(S) /\ Len(Append(s, c)) = 2
      /\ Append(s, c)[1] = s[1] /\ Append(s, c)[2] = c
  <2>1. /\ Append(s, c) \in Seq(S) /\ Len(Append(s, c)) = Len(s) + 1
        /\ \A i \in 1..Len(s) : Append(s, c)[i] = s[i]
        /\ Append(s, c)[Len(s) + 1] = c
    <3>1. s \in Seq(S)
      BY <1>1
    <3> QED BY <3>1, <1>2, AppendProperties
  <2>2. Len(s) + 1 = 2 /\ 1 \in 1..Len(s)
    BY <1>1
  <2> QED BY <2>1, <2>2
<1>4. \A i \in 1..2 : Append(s, c)[i] = t[i]
  <2>1. \A i \in 1..2 : i = 1 \/ i = 2
    OBVIOUS
  <2>2. 1 + 1 = 2 /\ 1 \in 1..1
    OBVIOUS
  <2> QED BY <1>1, <1>3, <2>1, <2>2
<1>5. Append(s, c) = t
  BY <1>1, <1>3, <1>4, SeqEqual
<1> QED BY <1>5 DEF s, t

\* Having read an escape, a decoder has one byte more.
ByteRead(t) == [bytes |-> t, open |-> <<>>]

LEMMA ReadEscape ==
    ASSUME NEW v \in Seq(Nat), NEW t \in Seq(Int), NEW b \in 0..255, IsRead(v, ByteRead(t))
    PROVE  IsRead(v \o Escape(b), ByteRead(Append(t, b)))
<1>1. CASE b \in Unreserved
  <2>1. b \in Nat
    OBVIOUS
  <2> HIDE DEF Unreserved
  <2>a. Escape(b) = <<b>> /\ b # Percent
    BY <1>1, <2>1, EscapeFact
  <2>2. v \o Escape(b) = Append(v, b)
    BY <2>1, <2>a, AppendOne
  <2>3. ReadOne(ByteRead(t), b) = ByteRead(Append(t, b))
    <3> DEFINE r == ByteRead(t)
    <3>1. r.open = <<>> /\ r.bytes = t /\ Len(<<>>) = 0
      BY DEF ByteRead
    <3>2. Len(r.open) # 2 /\ Len(r.open) # 1
      BY <3>1
    <3> HIDE DEF r
    <3>3. ReadOne(r, b) = [bytes |-> Append(r.bytes, b), open |-> <<>>]
      BY <2>a, <3>2 DEF ReadOne
    <3> QED BY <3>1, <3>3 DEF r, ByteRead
  <2> QED BY <2>1, <2>2, <2>3, ReadStep
<1>2. CASE b \notin Unreserved
  <2> DEFINE c == HexDigit(b \div 16)
             d == HexDigit(b)
             r0 == ByteRead(t)
             r1 == [bytes |-> t, open |-> <<Percent>>]
             r2 == [bytes |-> t, open |-> <<Percent, c>>]
             r3 == ByteRead(Append(t, b))
  <2>1. b \in Nat /\ b < 256 /\ b \div 16 \in Nat /\ b \div 16 \in 0..15
    OBVIOUS
  <2>a. Escape(b) = <<Percent, c, d>>
    BY <1>2, <2>1, EscapeFact
  <2>2. /\ c \in Nat /\ d \in Nat /\ Percent \in Nat
        /\ DigitOf(c) = (b \div 16) % 16 /\ DigitOf(d) = b % 16
    BY <2>1, HexDigitFact DEF Percent
  <2>3. 16 * DigitOf(c) + DigitOf(d) = b
    <3>1. (b \div 16) % 16 = b \div 16
      <4>1. \A m \in 0..15 : m % 16 = m
        OBVIOUS
      <4> QED BY <2>1, <4>1
    <3>2. 16 * (b \div 16) + (b % 16) = b
      OBVIOUS
    <3> HIDE DEF c, d
    <3> QED BY <2>2, <3>1, <3>2
  <2> HIDE DEF c, d
  <2>4. ReadOne(r0, Percent) = r1
    <3>1. r0.open = <<>> /\ Len(r0.open) # 2
      BY DEF ByteRead
    <3>2. ReadOne(r0, Percent) = [bytes |-> r0.bytes, open |-> Append(r0.open, Percent)]
      <4> HIDE DEF r0
      <4> QED BY <3>1 DEF ReadOne
    <3>3. r0.bytes = t /\ Append(r0.open, Percent) = <<Percent>>
      BY <3>1 DEF ByteRead
    <3> QED BY <3>2, <3>3
  <2>5. ReadOne(r1, c) = r2
    <3>1. Len(r1.open) = 1
      OBVIOUS
    <3>2. ReadOne(r1, c) = [bytes |-> r1.bytes, open |-> Append(r1.open, c)]
      <4> HIDE DEF r1
      <4>1. Len(r1.open) # 2
        BY <3>1
      <4> QED BY <3>1, <4>1 DEF ReadOne
    <3>3. r1.bytes = t /\ Append(r1.open, c) = <<Percent, c>>
      BY AppendPair
    <3> QED BY <3>2, <3>3
  <2>6. ReadOne(r2, d) = r3
    <3>1. Len(r2.open) = 2 /\ r2.open[2] = c /\ r2.bytes = t
      OBVIOUS
    <3> HIDE DEF r2
    <3>2. ReadOne(r2, d) = [bytes |-> Append(r2.bytes, 16 * DigitOf(r2.open[2]) + DigitOf(d)),
                            open |-> <<>>]
      BY <3>1 DEF ReadOne
    <3> QED BY <2>3, <3>1, <3>2 DEF ByteRead
  <2> HIDE DEF r0, r1, r2, r3
  <2>7. IsRead(v, r0)
    BY DEF r0
  <2>8. IsRead(Append(v, Percent), r1) /\ Append(v, Percent) \in Seq(Nat)
    BY <2>2, <2>4, <2>7, ReadStep, AppendOne
  <2>9. IsRead(Append(Append(v, Percent), c), r2) /\ Append(Append(v, Percent), c) \in Seq(Nat)
    BY <2>2, <2>5, <2>8, ReadStep, AppendOne
  <2>10. IsRead(Append(Append(Append(v, Percent), c), d), r3)
    BY <2>2, <2>6, <2>9, ReadStep
  <2>11. v \o Escape(b) = Append(Append(Append(v, Percent), c), d)
    BY <2>1, <2>2, <2>a, AppendThree
  <2> QED BY <2>10, <2>11 DEF r3
<1> QED BY <1>1, <1>2

\* What was escaped byte by byte is read as it was.
LEMMA RoundTrip ==
    ASSUME NEW s \in Seq(0..255)
    PROVE  EscapedChars(s) \in Seq(Clean) /\ Unescaped(EscapedChars(s)) = s
<1> DEFINE e == [i \in DOMAIN s |-> Escape(s[i])]
           N == Len(s)
<1>1. N \in Nat /\ DOMAIN s = 1..N /\ \A i \in 1..N : s[i] \in 0..255
  BY LenProperties, ElementOfSeq
<1>2. s \in Seq(Nat)
  <2>1. 0..255 \subseteq Nat
    OBVIOUS
  <2> QED BY <2>1, SeqMonotonic
<1>3. e \in Seq(Seq(Clean)) /\ EscapedChars(s) \in Seq(Clean)
  BY <1>2, EscapesFact
<1>4. EscapedChars(s) = FlattenSeq(e)
  BY DEF EscapedChars
<1>5. Len(e) = N /\ \A i \in 1..N : e[i] = Escape(s[i])
  BY <1>1
<1> HIDE DEF e, N
<1>6. PICK g : Flattens(g, e, Clean) /\ FlattenSeq(e) = g[N]
  BY <1>3, <1>5, FlattenUnfolds
<1>7. /\ g[0] = <<>> /\ \A n \in 0..N : g[n] \in Seq(Clean)
      /\ \A n \in 1..N : g[n] = g[n - 1] \o Escape(s[n])
  BY <1>5, <1>6 DEF Flattens
<1>8. \A v \in Seq(Clean) : v \in Seq(Nat)
  <2>1. Clean \subseteq Nat
    BY DEF Clean
  <2> QED BY <2>1, SeqMonotonic
<1> DEFINE V == {n \in 0..N : IsRead(g[n], ByteRead(SubSeq(s, 1, n)))}
<1>9. 0 \in V
  <2>1. SubSeq(s, 1, 0) = <<>>
    BY SubSeqEmpty
  <2>2. ByteRead(SubSeq(s, 1, 0)) = Fresh
    BY <2>1 DEF ByteRead, Fresh
  <2> QED BY <1>1, <1>7, <2>2, ReadStart
<1>10. ASSUME NEW n \in 1..N, n - 1 \in V PROVE n \in V
  <2> DEFINE t == SubSeq(s, 1, n - 1)
             b == s[n]
  <2>1. n \in 0..N /\ n - 1 \in 0..N /\ b \in 0..255
    BY <1>1
  <2>2. t \in Seq(Int) /\ SubSeq(s, 1, n) = Append(t, b)
    <3>1. 1 \in 1..Len(s) /\ n \in 1..Len(s)
      BY <1>1 DEF N
    <3>2. SubSeq(s, 1, n) = t \o <<b>>
      BY <3>1, SubSeqRecursiveSecond
    <3>3. 1 \in 1..Len(s) + 1 /\ n - 1 \in 1 - 1..Len(s)
      BY <1>1, <2>1 DEF N
    <3>4. t \in Seq(0..255)
      BY <3>3, PartFact
    <3>5. 0..255 \subseteq Int
      OBVIOUS
    <3>6. t \in Seq(Int)
      BY <3>4, <3>5, SeqMonotonic
    <3> HIDE DEF t, b
    <3>7. b \in Int
      BY <2>1
    <3> QED BY <3>2, <3>6, <3>7, AppendOne
  <2>3. IsRead(g[n - 1], ByteRead(t)) /\ g[n - 1] \in Seq(Nat)
    BY <1>7, <1>8, <1>10, <2>1
  <2> HIDE DEF t, b
  <2>4. IsRead(g[n - 1] \o Escape(b), ByteRead(Append(t, b)))
    BY <2>1, <2>2, <2>3, ReadEscape
  <2>5. g[n] = g[n - 1] \o Escape(b)
    BY <1>7 DEF b
  <2> QED BY <2>1, <2>2, <2>4, <2>5
<1>11. N \in V
  <2>1. \A n \in 0..N : n \in V
    <3> HIDE DEF V
    <3> QED BY <1>1, <1>9, <1>10, UptoInduction
  <2>2. N \in 0..N
    BY <1>1
  <2> HIDE DEF V
  <2> QED BY <2>1, <2>2
<1>12. SubSeq(s, 1, N) = s
  BY SubSeqFull DEF N
<1>13. IsRead(g[N], ByteRead(s)) /\ g[N] \in Seq(Nat)
  <2>1. N \in 0..N
    BY <1>1
  <2> QED BY <1>7, <1>8, <1>11, <1>12, <2>1
<1>14. Unescaped(g[N]) = ByteRead(s).bytes
  BY <1>13, ReadUnique
<1> QED BY <1>3, <1>4, <1>6, <1>14 DEF ByteRead

\* The code points become bytes.
LEMMA Utf8Fact ==
    ASSUME NEW c \in CodePoints
    PROVE  Utf8(c) \in Seq(0..255) /\ (c < 128 => Utf8(c) = <<c>>)
<1> DEFINE Continued(n) == 128 + (n % 64)
           B == 0..255
           a2 == 192 + (c \div 64)
           a3 == 224 + (c \div 4096)
           a4 == 240 + (c \div 262144)
           m1 == Continued(c)
           m2 == Continued(c \div 64)
           m3 == Continued(c \div 4096)
<1>1. c \in Nat /\ c < 1114112
  BY SMT DEF CodePoints
<1>2. \A n \in Nat : Continued(n) \in B
  BY SMT
<1>3. c \div 64 \in Nat /\ c \div 4096 \in Nat
  BY <1>1, SMT
<1>4. m1 \in B /\ m2 \in B /\ m3 \in B
  <2> HIDE DEF Continued, B
  <2> QED BY <1>1, <1>2, <1>3, SMT
<1>5. /\ c < 128 => c \in B
      /\ c < 2048 => a2 \in B
      /\ c < 65536 => a3 \in B
      /\ a4 \in B
  <2>1. c < 2048 => c \div 64 \in 0..31
    BY <1>1, SMT
  <2>2. c < 65536 => c \div 4096 \in 0..15
    BY <1>1, SMT
  <2>3. c \div 262144 \in 0..4
    BY <1>1, SMT
  <2> QED BY <1>1, <2>1, <2>2, <2>3, SMT
<1>6. Utf8(c) = IF c < 128 THEN <<c>>
                ELSE IF c < 2048 THEN <<a2, m1>>
                ELSE IF c < 65536 THEN <<a3, m2, m1>>
                ELSE <<a4, m3, m2, m1>>
  BY SMT DEF Utf8
<1> HIDE DEF Continued, B, a2, a3, a4, m1, m2, m3
<1>7. /\ c < 128 => <<c>> \in Seq(B)
      /\ c < 2048 => <<a2, m1>> \in Seq(B)
      /\ c < 65536 => <<a3, m2, m1>> \in Seq(B)
      /\ <<a4, m3, m2, m1>> \in Seq(B)
  BY <1>4, <1>5, SMT
<1>8. Utf8(c) \in Seq(B)
  BY <1>6, <1>7, SMT
<1>9. c < 128 => Utf8(c) = <<c>>
  BY <1>6, SMT
<1> QED BY <1>8, <1>9 DEF B

LEMMA BytesFact ==
    ASSUME NEW s \in Seq(CodePoints)
    PROVE  /\ as_bytes(s) \in Seq(0..255)
           /\ (\A i \in 1..Len(s) : s[i] < 128) => as_bytes(s) = s
<1> DEFINE e == [i \in DOMAIN s |-> Utf8(s[i])]
           N == Len(s)
           B == 0..255
           T == Seq(B)
<1>1. N \in Nat /\ DOMAIN s = 1..N /\ \A i \in 1..N : s[i] \in CodePoints
  BY LenProperties, ElementOfSeq
<1>2. \A i \in 1..N : Utf8(s[i]) \in T
  BY <1>1, Utf8Fact
<1>3. as_bytes(s) = FlattenSeq(e)
  BY DEF as_bytes
<1>4. e \in [1..N -> T]
  <2> HIDE DEF T, N
  <2> QED BY <1>1, <1>2
<1>5. e \in Seq(T) /\ Len(e) = N /\ \A i \in 1..N : e[i] = Utf8(s[i])
  <2> HIDE DEF T
  <2>1. e \in Seq(T)
    BY <1>1, <1>4, SeqDef
  <2>2. Len(e) = N /\ \A i \in 1..N : e[i] = Utf8(s[i])
    BY <1>1
  <2> QED BY <2>1, <2>2
<1> HIDE DEF e, B, N
<1>6. FlattenSeq(e) \in Seq(B)
  BY <1>5, FlattenType
<1>7. ASSUME \A i \in 1..N : s[i] < 128
      PROVE  as_bytes(s) = s
  <2>1. PICK g : Flattens(g, e, B) /\ FlattenSeq(e) = g[N]
    BY <1>5, FlattenUnfolds
  <2>2. g[0] = <<>> /\ \A n \in 1..N : g[n] = g[n - 1] \o Utf8(s[n])
    BY <1>5, <2>1 DEF Flattens
  <2> DEFINE V == {n \in 0..N : g[n] = SubSeq(s, 1, n)}
  <2>3. 0 \in V
    <3>1. SubSeq(s, 1, 0) = <<>>
      BY SubSeqEmpty
    <3>2. 0 \in 0..N
      BY <1>1
    <3> QED BY <2>2, <3>1, <3>2
  <2>4. ASSUME NEW n \in 1..N, n - 1 \in V PROVE n \in V
    <3>1. Utf8(s[n]) = <<s[n]>>
      BY <1>1, <1>7, Utf8Fact
    <3>2. 1 \in 1..Len(s) /\ n \in 1..Len(s)
      BY <1>1 DEF N
    <3>3. SubSeq(s, 1, n) = SubSeq(s, 1, n - 1) \o <<s[n]>>
      BY <3>2, SubSeqRecursiveSecond
    <3>4. n \in 0..N
      BY <1>1
    <3> QED BY <2>2, <2>4, <3>1, <3>3, <3>4
  <2>5. N \in V
    <3>1. \A n \in 0..N : n \in V
      <4> HIDE DEF V
      <4> QED BY <1>1, <2>3, <2>4, UptoInduction
    <3>2. N \in 0..N
      BY <1>1
    <3> HIDE DEF V
    <3> QED BY <3>1, <3>2
  <2>6. SubSeq(s, 1, N) = s
    BY SubSeqFull DEF N
  <2> QED BY <1>3, <2>1, <2>5, <2>6
<1> QED BY <1>3, <1>6, <1>7 DEF B, N

\* What a client gets as its state and what it stands for.
LEMMA EncodedFact ==
    ASSUME NEW generation \in {1, 2}, NEW s \in Seq(CodePoints)
    PROVE  /\ urlencoding(generation, s) \in Seq(Clean)
           /\ generation = 2 \/ (\A i \in 1..Len(s) : s[i] < 128)
                => Unescaped(urlencoding(generation, s)) = as_bytes(s)
<1>1. as_bytes(s) \in Seq(0..255) /\ ((\A i \in 1..Len(s) : s[i] < 128) => as_bytes(s) = s)
  BY BytesFact
<1>2. s \in Seq(Nat)
  <2>1. CodePoints \subseteq Nat
    BY SMT DEF CodePoints
  <2> QED BY <2>1, SeqMonotonic
<1>3. EscapedChars(s) \in Seq(Clean)
  BY <1>2, EscapesFact
<1>4. /\ EscapedChars(as_bytes(s)) \in Seq(Clean)
      /\ Unescaped(EscapedChars(as_bytes(s))) = as_bytes(s)
  BY <1>1, RoundTrip
<1>5. CASE generation = 1
  BY <1>1, <1>3, <1>4, <1>5 DEF urlencoding
<1>6. CASE generation = 2
  BY <1>4, <1>6 DEF urlencoding, EscapedBytes
<1> QED BY <1>5, <1>6

LEMMA ConcatAt ==
    ASSUME NEW S, NEW s \in Seq(S), NEW t \in Seq(S)
    PROVE  /\ s \o t \in Seq(S) /\ Len(s) \in Nat /\ Len(t) \in Nat
           /\ Len(s \o t) = Len(s) + Len(t)
           /\ \A i \in 1..Len(s) : (s \o t)[i] = s[i]
           /\ \A i \in 1..Len(t) : (s \o t)[Len(s) + i] = t[i]
<1>1. Len(s) \in Nat /\ Len(t) \in Nat
  BY LenProperties
<1>2. /\ s \o t \in Seq(S) /\ Len(s \o t) = Len(s) + Len(t)
      /\ \A i \in 1..Len(s) + Len(t) : (s \o t)[i] = IF i <= Len(s) THEN s[i] ELSE t[i - Len(s)]
  BY ConcatProperties
<1> DEFINE a == Len(s)
           b == Len(t)
           c == s \o t
<1> HIDE DEF a, b, c
<1>3. \A i \in 1..a : i \in 1..a + b /\ i <= a
  BY <1>1 DEF a, b
<1>5. \A i \in 1..a + b : c[i] = IF i <= a THEN s[i] ELSE t[i - a]
  BY <1>2 DEF a, b, c
<1>6. \A i \in 1..a : c[i] = s[i]
  BY <1>3, <1>5
<1>7. \A i \in 1..b : c[a + i] = t[i]
  <2> SUFFICES ASSUME NEW i \in 1..b PROVE c[a + i] = t[i]
    OBVIOUS
  <2> DEFINE j == a + i
  <2>1. j \in 1..a + b /\ ~(j <= a) /\ j - a = i
    BY <1>1 DEF a, b
  <2> HIDE DEF j
  <2>2. c[j] = t[i]
    BY <1>5, <2>1
  <2> QED BY <2>2 DEF j
<1> QED BY <1>1, <1>2, <1>6, <1>7 DEF a, b, c

\* Where a parameter may begin: behind an ampersand of the query, or behind
\* the question mark that the query begins with.
Break(url, b) == /\ \E q \in 1..b : url[q] = QuestionMark
                 /\ \/ url[b] = Ampersand
                    \/ \A q \in 1..b : url[q] = QuestionMark <=> q = b
Stands(url, param, b) == \A k \in 1..Len(param) : url[b + k] = param[k]

LEMMA StartsFact ==
    ASSUME NEW url \in Seq(Nat), NEW param \in Seq(Nat), NEW i
    PROVE  i \in ParamStarts(url, param)
             <=> /\ i \in 1..Len(url) - Len(param) + 1
                 /\ Break(url, i - 1) /\ Stands(url, param, i - 1)
<1>1. DOMAIN param = 1..Len(param) /\ Len(param) \in Nat /\ Len(url) \in Nat
  BY LenProperties
<1> DEFINE n == Len(param)
           m == Len(url)
<1>2. /\ i \in ParamStarts(url, param)
           <=> /\ i \in 1..m - n + 1
               /\ Break(url, i - 1)
               /\ \A k \in 1..n : url[i + k - 1] = param[k]
  BY <1>1, Zenon DEF ParamStarts, Break
<1> HIDE DEF n, m
<1>3. n \in Nat /\ m \in Nat
  BY <1>1 DEF n, m
<1>4. i \in 1..m - n + 1 => \A k \in 1..n : i + k - 1 = (i - 1) + k
  BY <1>3
<1>5. i \in 1..m - n + 1 =>
        ((\A k \in 1..n : url[i + k - 1] = param[k]) <=> \A k \in 1..n : url[(i - 1) + k] = param[k])
  BY <1>4, Zenon
<1> QED BY <1>2, <1>5 DEF Stands, n, m

\* The value of a parameter ends before the next ampersand.
ValueEnd(url, i) == CHOOSE e \in i - 1..Len(url) : /\ e = Len(url) \/ url[e + 1] = Ampersand
                                                   /\ \A j \in i..e : url[j] # Ampersand

LEMMA ValueFact ==
    ASSUME NEW url \in Seq(Nat), NEW value \in Seq(Clean), NEW i \in Nat \ {0},
           i + Len(value) - 1 <= Len(url),
           \A k \in 1..Len(value) : url[i + k - 1] = value[k],
           i + Len(value) - 1 = Len(url) \/ url[i + Len(value)] = Ampersand
    PROVE  SubSeq(url, i, ValueEnd(url, i)) = value
<1> DEFINE n == Len(value)
           m == Len(url)
           end == i + n - 1
           Right(e) == /\ e = m \/ url[e + 1] = Ampersand
                       /\ \A j \in i..e : url[j] # Ampersand
<1>1. n \in Nat /\ m \in Nat /\ \A k \in 1..n : value[k] # Ampersand
  <2>1. \A k \in 1..n : value[k] \in Clean
    BY ElementOfSeq
  <2> QED BY <2>1, LenProperties DEF Clean
<1>2. /\ end <= m /\ (\A k \in 1..n : url[i + k - 1] = value[k])
      /\ (end = m \/ url[i + n] = Ampersand) /\ ValueEnd(url, i) = CHOOSE e \in i - 1..m : Right(e)
  BY DEF ValueEnd
<1> HIDE DEF n, m
<1>3. \A j \in i..end : url[j] # Ampersand
  <2> SUFFICES ASSUME NEW j \in i..end PROVE url[j] # Ampersand
    OBVIOUS
  <2>1. j - i + 1 \in 1..n /\ i + (j - i + 1) - 1 = j
    BY <1>1
  <2>2. url[j] = value[j - i + 1]
    BY <1>2, <2>1
  <2> QED BY <1>1, <2>1, <2>2
<1>4. end \in i - 1..m /\ end + 1 = i + n
  <2>1. end <= m
    BY <1>2
  <2> QED BY <1>1, <2>1
<1>5. Right(end)
  BY <1>2, <1>3, <1>4
<1>6. ASSUME NEW e \in i - 1..m, Right(e) PROVE e = end
  <2>1. e < end => FALSE
    <3> SUFFICES ASSUME e < end PROVE FALSE
      OBVIOUS
    <3>1. e + 1 \in i..end /\ e # m
      BY <1>1, <1>2
    <3> QED BY <1>3, <1>6, <3>1
  <2>2. end < e => FALSE
    <3> SUFFICES ASSUME end < e PROVE FALSE
      OBVIOUS
    <3>1. i + n \in i..e /\ end # m
      BY <1>1
    <3> QED BY <1>2, <1>6, <3>1
  <2>3. e \in Int /\ end \in Int
    BY <1>1
  <2> HIDE DEF end
  <2> QED BY <2>1, <2>2, <2>3
<1>7. ValueEnd(url, i) = end
  <2>2. end \in i - 1..m /\ ValueEnd(url, i) = CHOOSE e \in i - 1..m : Right(e)
    BY <1>2, <1>4
  <2> HIDE DEF Right, end
  <2>1. \A e \in i - 1..m : Right(e) <=> e = end
    BY <1>5, <1>6
  <2> QED BY <2>1, <2>2
<1>8. /\ SubSeq(url, i, end) \in Seq(Nat) /\ Len(SubSeq(url, i, end)) = n
      /\ \A k \in 1..n : SubSeq(url, i, end)[k] = value[k]
  <2>1. i \in 1..Len(url) + 1 /\ end \in i - 1..Len(url) /\ end - i + 1 = n
    BY <1>1, <1>2 DEF m
  <2> HIDE DEF end
  <2>2. /\ SubSeq(url, i, end) \in Seq(Nat) /\ Len(SubSeq(url, i, end)) = n
        /\ \A k \in 1..n : SubSeq(url, i, end)[k] = url[i + k - 1]
    BY <2>1, PartFact
  <2> QED BY <1>2, <2>2
<1>9. value \in Seq(Nat)
  <2>1. Clean \subseteq Nat
    BY DEF Clean
  <2> QED BY <2>1, SeqMonotonic
<1>10. SubSeq(url, i, end) = value
  BY <1>8, <1>9, SeqEqual DEF n
<1> QED BY <1>7, <1>10

\* The url is u, a separator that begins or goes on with a query, rest, which
\* has no ampersand, and tail, which begins with its only one or is empty.
Laid(url, u, sep, rest, tail) ==
    /\ url \in Seq(Nat) /\ u \in Seq(Nat) /\ rest \in Seq(Clean) /\ tail \in Seq(Nat)
    /\ sep = IF Contains(u, QuestionMark) THEN Ampersand ELSE QuestionMark
    /\ Len(tail) > 0 => tail[1] = Ampersand /\ \A k \in 2..Len(tail) : tail[k] # Ampersand
    /\ Len(url) = Len(u) + 1 + Len(rest) + Len(tail)
    /\ \A k \in 1..Len(u) : url[k] = u[k]
    /\ url[Len(u) + 1] = sep
    /\ \A k \in 1..Len(rest) : url[Len(u) + 1 + k] = rest[k]
    /\ \A k \in 1..Len(tail) : url[Len(u) + 1 + Len(rest) + k] = tail[k]

LEMMA BreaksFact ==
    ASSUME NEW url, NEW u, NEW sep, NEW rest, NEW tail, Laid(url, u, sep, rest, tail),
           NEW b \in 1..Len(url)
    PROVE  Break(url, b) <=> \/ b <= Len(u) /\ Break(u, b)
                             \/ b = Len(u) + 1
                             \/ Len(tail) > 0 /\ b = Len(u) + 1 + Len(rest) + 1
<1> DEFINE L == Len(u)
           R == Len(rest)
           T == Len(tail)
<1>1. L \in Nat /\ R \in Nat /\ T \in Nat
  BY LenProperties DEF Laid
<1>2. /\ sep = IF \E q \in 1..L : u[q] = QuestionMark THEN Ampersand ELSE QuestionMark
      /\ T > 0 => tail[1] = Ampersand /\ \A k \in 2..T : tail[k] # Ampersand
      /\ Len(url) = L + 1 + R + T
      /\ \A k \in 1..L : url[k] = u[k]
      /\ url[L + 1] = sep
      /\ \A k \in 1..R : url[L + 1 + k] = rest[k]
      /\ \A k \in 1..T : url[L + 1 + R + k] = tail[k]
  BY Zenon DEF Laid, Contains
<1>3. \A k \in 1..R : rest[k] # Ampersand
  <2>1. \A k \in 1..R : rest[k] \in Clean
    BY ElementOfSeq DEF Laid
  <2> QED BY <2>1 DEF Clean
<1>4. Ampersand # QuestionMark
  BY DEF Ampersand, QuestionMark
<1> HIDE DEF L, R, T
<1>5. \E q \in 1..L + 1 : url[q] = QuestionMark
  <2>1. CASE \E q \in 1..L : u[q] = QuestionMark
    <3>1. PICK q \in 1..L : u[q] = QuestionMark
      BY <2>1
    <3>2. q \in 1..L + 1
      BY <1>1
    <3> QED BY <1>2, <3>1, <3>2
  <2>2. CASE ~ \E q \in 1..L : u[q] = QuestionMark
    <3>1. L + 1 \in 1..L + 1
      BY <1>1
    <3> QED BY <1>2, <2>2, <3>1
  <2> QED BY <2>1, <2>2
<1>6. b \in 1..L + 1 + R + T
  BY <1>2
<1>7. CASE b <= L
  <2>1. \A q \in 1..b : q \in 1..L
    BY <1>1, <1>7
  <2>2. \A q \in 1..b : url[q] = u[q]
    BY <1>2, <2>1
  <2>3. b \in 1..b
    BY <1>6
  <2>4. Break(url, b) <=> Break(u, b)
    BY <2>2, <2>3 DEF Break
  <2>5. b # L + 1 /\ b # L + 1 + R + 1
    BY <1>1, <1>7
  <2> QED BY <1>7, <2>4, <2>5 DEF L, R, T
<1>8. CASE b = L + 1
  <2>1. Break(url, b)
    <3>1. CASE \E q \in 1..L : u[q] = QuestionMark
      <4>1. url[b] = Ampersand
        BY <1>2, <1>8, <3>1
      <4> QED BY <1>5, <1>8, <4>1 DEF Break
    <3>2. CASE ~ \E q \in 1..L : u[q] = QuestionMark
      <4>1. url[b] = QuestionMark
        BY <1>2, <1>8, <3>2
      <4>2. ASSUME NEW q \in 1..b PROVE url[q] = QuestionMark <=> q = b
        <5>1. q = b \/ q \in 1..L
          BY <1>1, <1>8
        <5>2. q \in 1..L => url[q] # QuestionMark
          BY <1>2, <3>2
        <5> QED BY <4>1, <5>1, <5>2
      <4> QED BY <1>5, <1>8, <4>2 DEF Break
    <3> QED BY <3>1, <3>2
  <2> QED BY <1>8, <2>1 DEF L
<1>9. CASE b > L + 1
  <2>1. \E q \in 1..b : url[q] = QuestionMark /\ q # b
    <3>1. PICK q \in 1..L + 1 : url[q] = QuestionMark
      BY <1>5
    <3>2. q \in 1..b /\ q # b
      BY <1>1, <1>6, <1>9
    <3> QED BY <3>1, <3>2
  <2>2. Break(url, b) <=> url[b] = Ampersand
    BY <2>1 DEF Break
  <2>3. CASE b <= L + 1 + R
    <3> DEFINE k == b - (L + 1)
    <3>1. k \in 1..R /\ L + 1 + k = b
      BY <1>1, <1>6, <1>9, <2>3
    <3> HIDE DEF k
    <3>2. url[b] # Ampersand
      BY <1>2, <1>3, <3>1
    <3>3. ~(b <= L) /\ b # L + 1 /\ b # L + 1 + R + 1
      BY <1>1, <1>6, <1>9, <2>3
    <3> QED BY <2>2, <3>2, <3>3 DEF L, R, T
  <2>4. CASE b > L + 1 + R
    <3> DEFINE k == b - (L + 1 + R)
    <3>1. k \in 1..T /\ L + 1 + R + k = b /\ T > 0 /\ (k = 1 <=> b = L + 1 + R + 1)
      BY <1>1, <1>6, <2>4
    <3> HIDE DEF k
    <3>2. url[b] = tail[k]
      BY <1>2, <3>1
    <3>3. k = 1 \/ k \in 2..T
      BY <1>1, <3>1
    <3>4. url[b] = Ampersand <=> k = 1
      BY <1>2, <3>1, <3>2, <3>3
    <3>5. ~(b <= L) /\ b # L + 1
      BY <1>1, <1>6, <1>9
    <3> QED BY <2>2, <3>1, <3>4, <3>5 DEF L, R, T
  <2> QED BY <1>1, <1>6, <2>3, <2>4
<1> QED BY <1>1, <1>6, <1>7, <1>8, <1>9

\* A parameter that u does not have begins with rest or with tail.
LEMMA StartsWhere ==
    ASSUME NEW url, NEW u, NEW sep, NEW rest, NEW tail, Laid(url, u, sep, rest, tail),
           NEW param \in Seq(Clean), Len(param) > 0, ParamStarts(u, param) = {}, NEW i
    PROVE  i \in ParamStarts(url, param)
             <=> /\ \/ i = Len(u) + 2
                    \/ Len(tail) > 0 /\ i = Len(u) + Len(rest) + 3
                 /\ i <= Len(url) - Len(param) + 1 /\ Stands(url, param, i - 1)
<1> DEFINE L == Len(u)
           R == Len(rest)
           T == Len(tail)
           P == Len(param)
           m == Len(url)
<1>1. /\ L \in Nat /\ R \in Nat /\ T \in Nat /\ P \in Nat /\ P > 0 /\ m \in Nat
      /\ m = L + 1 + R + T
  BY LenProperties DEF Laid
<1>2. /\ \A k \in 1..L : url[k] = u[k]
      /\ url[L + 1] = IF Contains(u, QuestionMark) THEN Ampersand ELSE QuestionMark
  BY Zenon DEF Laid
<1>3. param \in Seq(Nat) /\ \A k \in 1..P : param[k] # Ampersand
  <2>1. \A k \in 1..P : param[k] \in Clean
    BY ElementOfSeq
  <2>2. Clean \subseteq Nat
    BY DEF Clean
  <2> QED BY <2>1, <2>2, SeqMonotonic DEF Clean
<1>4. url \in Seq(Nat) /\ u \in Seq(Nat)
  BY DEF Laid
<1>5. \A x : x \in ParamStarts(url, param)
        <=> x \in 1..m - P + 1 /\ Break(url, x - 1) /\ Stands(url, param, x - 1)
  BY <1>3, <1>4, StartsFact
<1>6. \A x : ~(x \in 1..L - P + 1 /\ Break(u, x - 1) /\ Stands(u, param, x - 1))
  <2>1. \A x : x \in ParamStarts(u, param)
          <=> x \in 1..L - P + 1 /\ Break(u, x - 1) /\ Stands(u, param, x - 1)
    BY <1>3, <1>4, StartsFact
  <2> QED BY <2>1
<1>7. \A b \in 1..m : Break(url, b) <=> \/ b <= L /\ Break(u, b)
                                        \/ b = L + 1
                                        \/ T > 0 /\ b = L + 1 + R + 1
  BY BreaksFact
<1> HIDE DEF L, R, T, P, m
<1>8. ASSUME NEW b \in 1..L, Break(u, b), Stands(url, param, b) PROVE FALSE
  <2>1. CASE b + P <= L
    <3>1. \A k \in 1..P : b + k \in 1..L
      BY <1>1, <2>1
    <3>2. Stands(u, param, b)
      BY <1>2, <1>8, <3>1 DEF Stands, P
    <3> DEFINE x == b + 1
    <3>3. x \in 1..L - P + 1 /\ x - 1 = b
      BY <1>1, <2>1
    <3> HIDE DEF x
    <3> QED BY <1>6, <1>8, <3>2, <3>3
  <2>2. CASE b + P > L
    <3> DEFINE k == L + 1 - b
    <3>1. k \in 1..P /\ b + k = L + 1
      BY <1>1, <2>2
    <3> HIDE DEF k
    <3>2. url[L + 1] = param[k]
      BY <1>8, <3>1 DEF Stands, P
    <3>3. Contains(u, QuestionMark)
      <4>1. PICK q \in 1..b : u[q] = QuestionMark
        BY <1>8 DEF Break
      <4>2. q \in 1..L
        BY <1>1
      <4> QED BY <4>1, <4>2 DEF Contains, L
    <3> QED BY <1>2, <1>3, <3>1, <3>2, <3>3
  <2> QED BY <1>1, <2>1, <2>2
<1>9. ASSUME i \in ParamStarts(url, param)
      PROVE  /\ i = L + 2 \/ (T > 0 /\ i = L + R + 3)
             /\ i <= m - P + 1 /\ Stands(url, param, i - 1)
  <2>1. i \in 1..m - P + 1 /\ Break(url, i - 1) /\ Stands(url, param, i - 1)
    BY <1>5, <1>9
  <2>2. i # 1
    <3>1. i = 1 => 1..i - 1 = {}
      OBVIOUS
    <3> QED BY <2>1, <3>1 DEF Break
  <2> DEFINE b == i - 1
  <2>3. b \in 1..m /\ i = b + 1 /\ (b <= L => b \in 1..L) /\ i <= m - P + 1
    BY <1>1, <2>1, <2>2
  <2>4. Break(url, b) /\ Stands(url, param, b)
    BY <2>1
  <2> HIDE DEF b
  <2>5. b = L + 1 \/ (T > 0 /\ b = L + 1 + R + 1)
    BY <1>7, <1>8, <2>3, <2>4
  <2>6. i = L + 2 \/ (T > 0 /\ i = L + R + 3)
    BY <1>1, <2>3, <2>5
  <2> QED BY <2>1, <2>3, <2>6
<1>10. ASSUME i = L + 2 \/ (T > 0 /\ i = L + R + 3), i <= m - P + 1, Stands(url, param, i - 1)
       PROVE  i \in ParamStarts(url, param)
  <2> DEFINE b == i - 1
  <2>1. i \in 1..m - P + 1 /\ b \in 1..m /\ (b = L + 1 \/ (T > 0 /\ b = L + 1 + R + 1))
    BY <1>1, <1>10
  <2> HIDE DEF b
  <2>2. Break(url, b)
    BY <1>7, <2>1
  <2> QED BY <1>5, <1>10, <2>1, <2>2 DEF b
<1> QED BY <1>9, <1>10 DEF L, R, T, P, m

Concatenated(c, s, t) ==
    /\ c \in Seq(Nat) /\ Len(c) = Len(s) + Len(t)
    /\ \A i \in 1..Len(s) : c[i] = s[i]
    /\ \A i \in 1..Len(t) : c[Len(s) + i] = t[i]

LEMMA ConcatenatedFact ==
    ASSUME NEW s \in Seq(Nat), NEW t \in Seq(Nat), NEW c, c = s \o t
    PROVE  Concatenated(c, s, t)
BY ConcatAt DEF Concatenated

LEMMA ConcatThree ==
    ASSUME NEW s \in Seq(Nat), NEW t \in Seq(Nat), NEW u \in Seq(Nat)
    PROVE  (s \o t) \o u = s \o (t \o u)
BY ConcatAssociative

\* What RedirectUrl writes behind the code.
StateTail(t, enc) ==
    /\ t \in Seq(Nat) /\ Len(t) = 7 + Len(enc) /\ t[1] = Ampersand
    /\ \A k \in 2..Len(t) : t[k] # Ampersand
    /\ \A k \in 1..6 : t[1 + k] = StateParam[k]
    /\ \A k \in 1..Len(enc) : t[7 + k] = enc[k]

LEMMA TailFact ==
    ASSUME NEW enc \in Seq(Clean), NEW t, t = (<<Ampersand>> \o StateParam) \o enc
    PROVE  StateTail(t, enc)
<1> DEFINE one == <<Ampersand>>
           head == one \o StateParam
           n == Len(enc)
<1>1. /\ one \in Seq(Nat) /\ Len(one) = 1 /\ one[1] = Ampersand
      /\ StateParam \in Seq(Nat) /\ Len(StateParam) = 6
      /\ \A k \in 1..6 : StateParam[k] # Ampersand
  BY DEF StateParam, Ampersand, Equals
<1>2. enc \in Seq(Nat) /\ n \in Nat /\ \A k \in 1..n : enc[k] # Ampersand
  <2>1. \A k \in 1..n : enc[k] \in Clean
    BY ElementOfSeq
  <2>2. Clean \subseteq Nat
    BY DEF Clean
  <2> QED BY <2>1, <2>2, LenProperties, SeqMonotonic DEF Clean
<1> HIDE DEF one
<1>3. /\ head \in Seq(Nat) /\ Len(head) = 7 /\ head[1] = Ampersand
      /\ \A k \in 1..6 : head[1 + k] = StateParam[k]
  <2>1. head = one \o StateParam
    OBVIOUS
  <2> HIDE DEF head
  <2>2. Concatenated(head, one, StateParam)
    BY <1>1, <2>1, ConcatenatedFact
  <2> QED BY <1>1, <2>2 DEF Concatenated
<1>4. t = head \o enc
  BY DEF head, one
<1> HIDE DEF head
<1>5. Concatenated(t, head, enc)
  BY <1>2, <1>3, <1>4, ConcatenatedFact
<1> HIDE DEF n
<1>6. /\ Len(t) = 7 + Len(enc) /\ t[1] = Ampersand
      /\ \A i \in 1..7 : t[i] = head[i]
      /\ \A k \in 1..Len(enc) : t[7 + k] = enc[k]
  <2>1. /\ Len(t) = 7 + Len(enc)
        /\ \A i \in 1..7 : t[i] = head[i]
        /\ \A k \in 1..Len(enc) : t[7 + k] = enc[k]
    BY <1>3, <1>5, Zenon DEF Concatenated
  <2>2. 1 \in 1..7
    OBVIOUS
  <2> QED BY <1>3, <2>1, <2>2, Zenon
<1>7. \A k \in 1..6 : t[1 + k] = StateParam[k]
  <2>1. \A k \in 1..6 : 1 + k \in 1..7
    OBVIOUS
  <2> QED BY <1>3, <1>6, <2>1
<1>8. ASSUME NEW k \in 2..Len(t) PROVE t[k] # Ampersand
  <2>1. CASE k <= 7
    <3> DEFINE j == k - 1
    <3>1. j \in 1..6 /\ 1 + j = k
      BY <2>1
    <3> HIDE DEF j
    <3>2. t[k] = StateParam[j]
      BY <1>7, <3>1
    <3> QED BY <1>1, <3>1, <3>2
  <2>2. CASE k > 7
    <3> DEFINE j == k - 7
    <3>1. j \in 1..n /\ 7 + j = k
      BY <1>2, <1>6, <2>2 DEF n
    <3> HIDE DEF j
    <3>2. t[k] = enc[j]
      BY <1>6, <3>1 DEF n
    <3> QED BY <1>2, <3>1, <3>2
  <2> QED BY <2>1, <2>2
<1> QED BY <1>5, <1>6, <1>7, <1>8 DEF Concatenated, StateTail

\* RedirectUrl writes the redirect_uri, the separator, the code and the tail.
LEMMA LaidFact ==
    ASSUME NEW u \in Seq(Nat), NEW code \in Seq(Clean), NEW tail \in Seq(Nat), NEW sep, NEW url,
           sep = IF Contains(u, QuestionMark) THEN Ampersand ELSE QuestionMark,
           url = (((u \o <<sep>>) \o CodeParam) \o code) \o tail,
           Len(tail) > 0 => tail[1] = Ampersand /\ \A k \in 2..Len(tail) : tail[k] # Ampersand
    PROVE  Laid(url, u, sep, CodeParam \o code, tail)
<1> DEFINE one == <<sep>>
           head == u \o one
           rest == CodeParam \o code
           both == head \o rest
           L == Len(u)
           R == Len(rest)
           T == Len(tail)
<1>1. one \in Seq(Nat) /\ Len(one) = 1 /\ one[1] = sep
  BY DEF Ampersand, QuestionMark
<1>2. CodeParam \in Seq(Clean)
  BY DEF CodeParam, Clean, Equals, Ampersand
<1>3. Clean \subseteq Nat
  BY DEF Clean
<1>4. rest \in Seq(Clean)
  BY <1>2, ConcatAt
<1>5. rest \in Seq(Nat) /\ CodeParam \in Seq(Nat) /\ code \in Seq(Nat)
  BY <1>2, <1>3, <1>4, SeqMonotonic
<1> HIDE DEF one
<1>6. Concatenated(head, u, one)
  <2>1. head = u \o one
    OBVIOUS
  <2> HIDE DEF head
  <2> QED BY <1>1, <2>1, ConcatenatedFact
<1>7. url = both \o tail
  <2>1. (head \o CodeParam) \o code = head \o rest
    <3> HIDE DEF head
    <3> QED BY <1>5, <1>6, ConcatThree DEF Concatenated
  <2> QED BY <2>1 DEF one
<1> HIDE DEF head, rest
<1>8. Concatenated(both, head, rest)
  <2>1. both = head \o rest
    OBVIOUS
  <2> HIDE DEF both
  <2>2. head \in Seq(Nat)
    BY <1>6 DEF Concatenated
  <2> QED BY <1>5, <2>1, <2>2, ConcatenatedFact
<1> HIDE DEF both
<1>9. Concatenated(url, both, tail)
  <2>1. both \in Seq(Nat)
    BY <1>8 DEF Concatenated
  <2> QED BY <1>7, <2>1, ConcatenatedFact
<1>10. L \in Nat /\ R \in Nat /\ T \in Nat
  BY <1>4, LenProperties
<1> HIDE DEF L, R, T
<1>11. Len(head) = L + 1 /\ Len(both) = L + 1 + R
  BY <1>1, <1>6, <1>8 DEF Concatenated, L, R
<1>12. Len(url) = L + 1 + R + T /\ \A k \in 1..T : url[L + 1 + R + k] = tail[k]
  BY <1>9, <1>11 DEF Concatenated, T
<1>13. \A k \in 1..L : url[k] = u[k]
  <2>1. \A k \in 1..L : k \in 1..L + 1 /\ k \in 1..L + 1 + R
    BY <1>10
  <2> QED BY <1>6, <1>8, <1>9, <1>11, <2>1 DEF Concatenated, L
<1>14. url[L + 1] = sep
  <2>1. 1 \in 1..1 /\ L + 1 \in 1..L + 1 /\ L + 1 \in 1..L + 1 + R
    BY <1>10
  <2>2. head[L + 1] = sep
    BY <1>1, <1>6 DEF Concatenated, L
  <2> QED BY <1>8, <1>9, <1>11, <2>1, <2>2 DEF Concatenated
<1>15. \A k \in 1..R : url[L + 1 + k] = rest[k]
  <2>1. \A k \in 1..R : L + 1 + k \in 1..L + 1 + R
    BY <1>10
  <2>2. \A k \in 1..R : both[L + 1 + k] = rest[k]
    BY <1>8, <1>11 DEF Concatenated, R
  <2> QED BY <1>9, <1>11, <2>1, <2>2 DEF Concatenated
<1> QED BY <1>4, <1>9, <1>12, <1>13, <1>14, <1>15, Zenon DEF Concatenated, Laid, rest, L, R, T

\* The redirect to u with this code, and what it holds of the state.
Redirects(url, u, code, tail) ==
    /\ u \in Uris /\ code \in Codes /\ tail \in Seq(Nat)
    /\ url = (((u \o <<IF Contains(u, QuestionMark) THEN Ampersand ELSE QuestionMark>>)
                 \o CodeParam) \o code) \o tail
    /\ Len(tail) > 0 => /\ Len(tail) >= 7 /\ tail[1] = Ampersand
                        /\ \A k \in 2..Len(tail) : tail[k] # Ampersand
                        /\ \A k \in 1..6 : tail[1 + k] = StateParam[k]

\* Where its parts are.
Placed(url, u, code, tail) ==
    /\ url \in Seq(Nat) /\ code \in Seq(Clean) /\ Len(u) \in Nat /\ Len(code) \in Nat /\ Len(tail) \in Nat
    /\ Len(url) = Len(u) + 6 + Len(code) + Len(tail)
    /\ \A k \in 1..5 : url[Len(u) + 1 + k] = CodeParam[k]
    /\ \A k \in 1..Len(code) : url[Len(u) + 6 + k] = code[k]
    /\ \A k \in 1..Len(tail) : url[Len(u) + 6 + Len(code) + k] = tail[k]

LEMMA PlacedFact ==
    ASSUME NEW url, NEW u, NEW code, NEW tail, Redirects(url, u, code, tail)
    PROVE  /\ Placed(url, u, code, tail)
           /\ \E sep, rest : Laid(url, u, sep, rest, tail) /\ Len(rest) = 5 + Len(code)
<1> DEFINE sep == IF Contains(u, QuestionMark) THEN Ampersand ELSE QuestionMark
           rest == CodeParam \o code
           L == Len(u)
           C == Len(code)
           T == Len(tail)
<1>1. u \in Seq(Nat) /\ code \in Seq(Clean)
  <2>1. code \in Seq((48..57) \cup (65..90)) /\ u \in Seq(Nat)
    BY RedirectAssumption DEF Redirects
  <2>2. (48..57) \cup (65..90) \subseteq Clean
    BY DEF Clean, Ampersand
  <2> QED BY <2>1, <2>2, SeqMonotonic
<1>2. Laid(url, u, sep, rest, tail)
  <2>1. /\ tail \in Seq(Nat) /\ url = (((u \o <<sep>>) \o CodeParam) \o code) \o tail
        /\ Len(tail) > 0 => tail[1] = Ampersand /\ \A k \in 2..Len(tail) : tail[k] # Ampersand
    BY DEF Redirects
  <2>2. sep = IF Contains(u, QuestionMark) THEN Ampersand ELSE QuestionMark
    OBVIOUS
  <2> HIDE DEF sep
  <2> QED BY <1>1, <2>1, <2>2, LaidFact
<1>3. CodeParam \in Seq(Nat) /\ Len(CodeParam) = 5 /\ code \in Seq(Nat)
  <2>1. Clean \subseteq Nat
    BY DEF Clean
  <2>2. CodeParam \in Seq(Nat) /\ Len(CodeParam) = 5
    BY DEF CodeParam, Equals
  <2> QED BY <1>1, <2>1, <2>2, SeqMonotonic
<1>4. Concatenated(rest, CodeParam, code)
  <2>1. rest = CodeParam \o code
    OBVIOUS
  <2> HIDE DEF rest
  <2> QED BY <1>3, <2>1, ConcatenatedFact
<1> HIDE DEF sep, rest, L, C, T
<1>5. /\ Len(rest) = 5 + C
      /\ \A k \in 1..5 : rest[k] = CodeParam[k]
      /\ \A k \in 1..C : rest[5 + k] = code[k]
  BY <1>3, <1>4, Zenon DEF Concatenated, C
<1>6. L \in Nat /\ C \in Nat /\ T \in Nat
  BY <1>1, <1>2, LenProperties DEF Laid, L, C, T
<1>7. /\ url \in Seq(Nat) /\ Len(url) = L + 1 + (5 + C) + T
      /\ \A k \in 1..5 + C : url[L + 1 + k] = rest[k]
      /\ \A k \in 1..T : url[L + 1 + (5 + C) + k] = tail[k]
  BY <1>2, <1>5, Zenon DEF Laid, L, T
<1>8. \A k \in 1..5 : url[L + 1 + k] = CodeParam[k]
  <2>1. \A k \in 1..5 : k \in 1..5 + C
    BY <1>6
  <2> QED BY <1>5, <1>7, <2>1
<1>9. \A k \in 1..C : url[L + 6 + k] = code[k]
  <2> SUFFICES ASSUME NEW k \in 1..C PROVE url[L + 6 + k] = code[k]
    OBVIOUS
  <2> DEFINE j == 5 + k
  <2>1. j \in 1..5 + C /\ L + 1 + j = L + 6 + k
    BY <1>6
  <2>2. rest[j] = code[k]
    BY <1>5
  <2> HIDE DEF j
  <2> QED BY <1>7, <2>1, <2>2
<1>10. Len(url) = L + 6 + C + T /\ \A k \in 1..T : url[L + 6 + C + k] = tail[k]
  <2>1. L + 1 + (5 + C) = L + 6 + C
    BY <1>6
  <2> QED BY <1>7, <2>1
<1> QED BY <1>1, <1>2, <1>5, <1>6, <1>7, <1>8, <1>9, <1>10 DEF Placed, L, C, T

\* Each of the two parameters begins where RedirectUrl writes it, and nowhere else.
LEMMA OwnStarts ==
    ASSUME NEW url, NEW u, NEW code, NEW tail, Redirects(url, u, code, tail)
    PROVE  /\ ParamStarts(url, CodeParam) = {Len(u) + 2}
           /\ ParamStarts(url, StateParam)
                = IF Len(tail) > 0 THEN {Len(u) + 8 + Len(code)} ELSE {}
<1> DEFINE L == Len(u)
           C == Len(code)
           T == Len(tail)
           m == Len(url)
<1>1. /\ L \in Nat /\ C \in Nat /\ T \in Nat /\ m = L + 6 + C + T
      /\ \A k \in 1..5 : url[L + 1 + k] = CodeParam[k]
      /\ \A k \in 1..T : url[L + 6 + C + k] = tail[k]
  BY PlacedFact DEF Placed
<1>2. /\ T > 0 => T >= 7 /\ \A k \in 1..6 : tail[1 + k] = StateParam[k]
      /\ ParamStarts(u, CodeParam) = {} /\ ParamStarts(u, StateParam) = {}
  BY RedirectAssumption DEF Redirects
<1>3. /\ CodeParam \in Seq(Clean) /\ Len(CodeParam) = 5 /\ CodeParam[1] = 99
      /\ StateParam \in Seq(Clean) /\ Len(StateParam) = 6 /\ StateParam[1] = 115
  BY DEF CodeParam, StateParam, Equals, Clean, Ampersand
<1>4. PICK sep, rest : Laid(url, u, sep, rest, tail) /\ Len(rest) = 5 + C
  BY PlacedFact
<1>5. \A i : i \in ParamStarts(url, CodeParam)
        <=> /\ i = L + 2 \/ (T > 0 /\ i = L + Len(rest) + 3)
            /\ i <= m - 5 + 1 /\ Stands(url, CodeParam, i - 1)
  <2>1. Len(CodeParam) > 0
    BY <1>3
  <2>2. \A i : i \in ParamStarts(url, CodeParam)
          <=> /\ i = Len(u) + 2 \/ (Len(tail) > 0 /\ i = Len(u) + Len(rest) + 3)
              /\ i <= Len(url) - Len(CodeParam) + 1 /\ Stands(url, CodeParam, i - 1)
    BY <1>2, <1>3, <1>4, <2>1, StartsWhere
  <2> QED BY <1>3, <2>2
<1>6. \A i : i \in ParamStarts(url, StateParam)
        <=> /\ i = L + 2 \/ (T > 0 /\ i = L + Len(rest) + 3)
            /\ i <= m - 6 + 1 /\ Stands(url, StateParam, i - 1)
  <2>1. Len(StateParam) > 0
    BY <1>3
  <2>2. \A i : i \in ParamStarts(url, StateParam)
          <=> /\ i = Len(u) + 2 \/ (Len(tail) > 0 /\ i = Len(u) + Len(rest) + 3)
              /\ i <= Len(url) - Len(StateParam) + 1 /\ Stands(url, StateParam, i - 1)
    BY <1>2, <1>3, <1>4, <2>1, StartsWhere
  <2> QED BY <1>3, <2>2
<1> HIDE DEF L, C, T, m
<1>7. L + Len(rest) + 3 = L + 8 + C
  BY <1>1, <1>4
<1>8. Stands(url, CodeParam, L + 1)
  BY <1>1, <1>3 DEF Stands
<1>9. ~Stands(url, StateParam, L + 1)
  <2>1. url[L + 1 + 1] = 99
    BY <1>1, <1>3
  <2> QED BY <1>3, <2>1 DEF Stands
<1>10. T > 0 => Stands(url, StateParam, L + 7 + C)
  <2> SUFFICES ASSUME T > 0, NEW k \in 1..6 PROVE url[L + 7 + C + k] = StateParam[k]
    BY <1>3 DEF Stands
  <2> DEFINE j == 1 + k
  <2>1. j \in 1..T /\ L + 6 + C + j = L + 7 + C + k
    BY <1>1, <1>2
  <2>2. tail[j] = StateParam[k]
    BY <1>2
  <2> HIDE DEF j
  <2> QED BY <1>1, <2>1, <2>2
<1>11. T > 0 => ~Stands(url, CodeParam, L + 7 + C)
  <2> SUFFICES ASSUME T > 0 PROVE url[L + 7 + C + 1] # CodeParam[1]
    BY <1>3 DEF Stands
  <2>1. url[L + 7 + C + 1] = StateParam[1]
    BY <1>3, <1>10 DEF Stands
  <2> QED BY <1>3, <2>1
<1>12. /\ (L + 2) - 1 = L + 1 /\ (L + 8 + C) - 1 = L + 7 + C /\ L + 2 # L + 8 + C
       /\ L + 2 <= m - 5 + 1 /\ (T > 0 => L + 8 + C <= m - 6 + 1)
  BY <1>1, <1>2
<1>13. ParamStarts(url, CodeParam) = {L + 2}
  <2>1. \A i : i \in ParamStarts(url, CodeParam) <=> i = L + 2
    BY <1>5, <1>7, <1>8, <1>11, <1>12
  <2> QED BY <2>1
<1>14. ParamStarts(url, StateParam) = IF T > 0 THEN {L + 8 + C} ELSE {}
  <2>1. \A i : i \in ParamStarts(url, StateParam) <=> T > 0 /\ i = L + 8 + C
    BY <1>6, <1>7, <1>9, <1>10, <1>12
  <2> QED BY <2>1
<1> QED BY <1>13, <1>14 DEF L, C, T

LEMMA OwnValues ==
    ASSUME NEW url, NEW u, NEW code, NEW tail, Redirects(url, u, code, tail), NEW enc \in Seq(Clean),
           Len(tail) > 0 => Len(tail) = 7 + Len(enc) /\ \A k \in 1..Len(enc) : tail[7 + k] = enc[k]
    PROVE  /\ ParamValues(url, CodeParam) = {code}
           /\ ParamValues(url, StateParam) = IF Len(tail) > 0 THEN {enc} ELSE {}
<1> DEFINE L == Len(u)
           C == Len(code)
           T == Len(tail)
           E == Len(enc)
           m == Len(url)
<1>1. /\ url \in Seq(Nat) /\ code \in Seq(Clean)
      /\ L \in Nat /\ C \in Nat /\ T \in Nat /\ m = L + 6 + C + T
      /\ \A k \in 1..C : url[L + 6 + k] = code[k]
      /\ \A k \in 1..T : url[L + 6 + C + k] = tail[k]
  <2>1. Placed(url, u, code, tail)
    BY PlacedFact
  <2> QED BY <2>1 DEF Placed
<1>2. T > 0 => T = 7 + E /\ tail[1] = Ampersand /\ \A k \in 1..E : tail[7 + k] = enc[k]
  BY DEF Redirects
<1>3. E \in Nat
  BY LenProperties
<1>4. /\ ParamStarts(url, CodeParam) = {L + 2}
      /\ ParamStarts(url, StateParam) = IF T > 0 THEN {L + 8 + C} ELSE {}
  BY OwnStarts
<1>5. \A param : ParamValues(url, param)
                   = {SubSeq(url, i + Len(param), ValueEnd(url, i + Len(param))) : i \in ParamStarts(url, param)}
  BY Zenon DEF ParamValues, ValueEnd
<1>6. Len(CodeParam) = 5 /\ Len(StateParam) = 6
  BY DEF CodeParam, StateParam
<1> HIDE DEF L, C, T, E, m
<1>7. SubSeq(url, L + 7, ValueEnd(url, L + 7)) = code
  <2> DEFINE i == L + 7
  <2>1. /\ i \in Nat \ {0} /\ i + C - 1 <= m /\ (i + C - 1 = m \/ T > 0)
        /\ i + C = L + 6 + C + 1 /\ (T > 0 => 1 \in 1..T)
    BY <1>1
  <2>2. \A k \in 1..C : i + k - 1 = L + 6 + k
    BY <1>1
  <2>3. T > 0 => url[i + C] = Ampersand
    BY <1>1, <1>2, <2>1
  <2>4. \A k \in 1..C : url[i + k - 1] = code[k]
    BY <1>1, <2>2
  <2> HIDE DEF i
  <2>5. /\ i + Len(code) - 1 <= Len(url)
        /\ \A k \in 1..Len(code) : url[i + k - 1] = code[k]
        /\ i + Len(code) - 1 = Len(url) \/ url[i + Len(code)] = Ampersand
    BY <2>1, <2>3, <2>4 DEF C, m
  <2>6. SubSeq(url, i, ValueEnd(url, i)) = code
    BY <1>1, <2>1, <2>5, ValueFact
  <2> QED BY <2>6 DEF i
<1>8. T > 0 => SubSeq(url, L + 14 + C, ValueEnd(url, L + 14 + C)) = enc
  <2> SUFFICES ASSUME T > 0 PROVE SubSeq(url, L + 14 + C, ValueEnd(url, L + 14 + C)) = enc
    OBVIOUS
  <2> DEFINE i == L + 14 + C
  <2>0. T = 7 + E
    BY <1>2
  <2>1. i \in Nat \ {0} /\ i + E - 1 <= m /\ i + E - 1 = m
    <3>1. L \in Nat /\ C \in Nat /\ m = L + 6 + C + T
      BY <1>1
    <3> QED BY <1>3, <2>0, <3>1
  <2>2. \A k \in 1..E : url[i + k - 1] = enc[k]
    <3> SUFFICES ASSUME NEW k \in 1..E PROVE url[i + k - 1] = enc[k]
      OBVIOUS
    <3> DEFINE j == 7 + k
    <3>1. j \in 1..T /\ L + 6 + C + j = i + k - 1
      BY <1>1, <1>2, <1>3
    <3>2. tail[j] = enc[k]
      BY <1>2
    <3> HIDE DEF j, i
    <3> QED BY <1>1, <3>1, <3>2
  <2> HIDE DEF i
  <2>3. /\ i + Len(enc) - 1 <= Len(url)
        /\ \A k \in 1..Len(enc) : url[i + k - 1] = enc[k]
        /\ i + Len(enc) - 1 = Len(url) \/ url[i + Len(enc)] = Ampersand
    BY <2>1, <2>2 DEF E, m
  <2>4. SubSeq(url, i, ValueEnd(url, i)) = enc
    BY <1>1, <2>1, <2>3, ValueFact
  <2> QED BY <2>4 DEF i
<1>9. (L + 2) + 5 = L + 7 /\ (L + 8 + C) + 6 = L + 14 + C
  BY <1>1
<1>10. ParamValues(url, CodeParam) = {code}
  <2>0. ParamValues(url, CodeParam) = {SubSeq(url, i + Len(CodeParam), ValueEnd(url, i + Len(CodeParam)))
                                         : i \in ParamStarts(url, CodeParam)}
    BY <1>5
  <2>1. ParamValues(url, CodeParam) = {SubSeq(url, i + 5, ValueEnd(url, i + 5)) : i \in {L + 2}}
    BY <1>4, <1>6, <2>0
  <2>2. ParamValues(url, CodeParam) = {SubSeq(url, (L + 2) + 5, ValueEnd(url, (L + 2) + 5))}
    BY <2>1
  <2> QED BY <1>7, <1>9, <2>2
<1>11. ParamValues(url, StateParam) = IF T > 0 THEN {enc} ELSE {}
  <2>1. CASE T > 0
    <3>0. ParamValues(url, StateParam) = {SubSeq(url, i + Len(StateParam), ValueEnd(url, i + Len(StateParam)))
                                            : i \in ParamStarts(url, StateParam)}
      BY <1>5
    <3>3. ParamStarts(url, StateParam) = {L + 8 + C}
      BY <1>4, <2>1
    <3>1. ParamValues(url, StateParam) = {SubSeq(url, i + 6, ValueEnd(url, i + 6)) : i \in {L + 8 + C}}
      BY <1>6, <3>0, <3>3
    <3>2. ParamValues(url, StateParam) = {SubSeq(url, (L + 8 + C) + 6, ValueEnd(url, (L + 8 + C) + 6))}
      BY <3>1
    <3> QED BY <1>8, <1>9, <2>1, <3>2
  <2>2. CASE ~(T > 0)
    <3>1. ParamStarts(url, StateParam) = {}
      BY <1>4, <2>2
    <3>2. ParamValues(url, StateParam)
            = {SubSeq(url, i + Len(StateParam), ValueEnd(url, i + Len(StateParam))) : i \in {}}
      BY <1>5, <3>1
    <3> QED BY <2>2, <3>2
  <2> QED BY <2>1, <2>2
<1> QED BY <1>10, <1>11 DEF T

Returns(url, generation, code, states) ==
    /\ ParamValues(url, CodeParam) = {code}
    /\ \/ {Unescaped(v) : v \in ParamValues(url, StateParam)} = {as_bytes(s) : s \in ToSet(states)}
       \/ generation = 1 /\ \E s \in ToSet(states) : \E c \in ToSet(s) : c > 127

LEMMA RedirectFact ==
    ASSUME NEW generation \in {1, 2}, NEW u \in Uris, NEW code \in Codes,
           NEW states \in {<<>>} \cup {<<s>> : s \in UpToLen(StateChars, MaxState)}
    PROVE  Returns(RedirectUrl(generation, u, code, states), generation, code, states)
<1> DEFINE sep == IF Contains(u, QuestionMark) THEN Ampersand ELSE QuestionMark
           none == <<>>
           url == RedirectUrl(generation, u, code, states)
<1>1. CASE states = none
  <2>1. url = (((u \o <<sep>>) \o CodeParam) \o code) \o none
    BY <1>1 DEF RedirectUrl
  <2>2. none \in Seq(Nat) /\ none \in Seq(Clean) /\ Len(none) = 0
    OBVIOUS
  <2>3. ToSet(states) = {}
    BY <1>1 DEF ToSet
  <2> HIDE DEF none, url
  <2>4. Redirects(url, u, code, none)
    BY <2>1, <2>2 DEF Redirects
  <2>5. ParamValues(url, CodeParam) = {code} /\ ParamValues(url, StateParam) = {}
    <3>1. ~(Len(none) > 0)
      BY <2>2
    <3>2. /\ ParamValues(url, CodeParam) = {code}
          /\ ParamValues(url, StateParam) = IF Len(none) > 0 THEN {none} ELSE {}
      BY <2>2, <2>4, <3>1, OwnValues
    <3> QED BY <3>1, <3>2
  <2>6. /\ {Unescaped(v) : v \in ParamValues(url, StateParam)} = {}
        /\ {as_bytes(s) : s \in ToSet(states)} = {}
    BY <2>3, <2>5
  <2> QED BY <2>5, <2>6 DEF Returns, url
<1>2. CASE states \in {<<s>> : s \in UpToLen(StateChars, MaxState)}
  <2>1. PICK s \in UpToLen(StateChars, MaxState) : states = <<s>>
    BY <1>2
  <2>2. s \in Seq(CodePoints)
    <3>1. PICK k \in 0..MaxState : s \in [1..k -> StateChars]
      BY DEF UpToLen
    <3>2. s \in [1..k -> CodePoints] /\ k \in Nat
      BY <3>1, RedirectAssumption
    <3> QED BY <3>2
  <2> DEFINE enc == urlencoding(generation, s)
             tail == (<<Ampersand>> \o StateParam) \o enc
  <2>3. /\ enc \in Seq(Clean)
        /\ generation = 2 \/ (\A i \in 1..Len(s) : s[i] < 128) => Unescaped(enc) = as_bytes(s)
    BY <2>2, EncodedFact
  <2>4. url = (((u \o <<sep>>) \o CodeParam) \o code) \o tail
    <3>1. states # <<>> /\ states[1] = s
      BY <2>1
    <3> QED BY <3>1, Zenon DEF RedirectUrl
  <2>5. ToSet(states) = {s} /\ ToSet(s) = {s[i] : i \in 1..Len(s)}
    BY <2>1, <2>2 DEF ToSet
  <2> HIDE DEF enc, url
  <2>6. tail = (<<Ampersand>> \o StateParam) \o enc
    OBVIOUS
  <2> HIDE DEF tail
  <2>7. /\ tail \in Seq(Nat) /\ Len(tail) = 7 + Len(enc) /\ tail[1] = Ampersand
        /\ \A k \in 2..Len(tail) : tail[k] # Ampersand
        /\ \A k \in 1..6 : tail[1 + k] = StateParam[k]
        /\ \A k \in 1..Len(enc) : tail[7 + k] = enc[k]
    <3>1. StateTail(tail, enc)
      BY <2>3, <2>6, TailFact
    <3> QED BY <3>1 DEF StateTail
  <2>8. Len(tail) >= 7 /\ Len(tail) > 0
    BY <2>3, <2>7, LenProperties
  <2>9. Redirects(url, u, code, tail)
    BY <2>4, <2>7, <2>8 DEF Redirects
  <2>10. ParamValues(url, CodeParam) = {code} /\ ParamValues(url, StateParam) = {enc}
    <3>1. /\ ParamValues(url, CodeParam) = {code}
          /\ ParamValues(url, StateParam) = IF Len(tail) > 0 THEN {enc} ELSE {}
      BY <2>3, <2>7, <2>9, OwnValues, Zenon
    <3> QED BY <2>8, <3>1
  <2>11. CASE generation = 2 \/ \A i \in 1..Len(s) : s[i] < 128
    <3>1. Unescaped(enc) = as_bytes(s)
      BY <2>3, <2>11
    <3>2. /\ {Unescaped(v) : v \in ParamValues(url, StateParam)} = {Unescaped(enc)}
          /\ {as_bytes(x) : x \in ToSet(states)} = {as_bytes(s)}
      BY <2>5, <2>10
    <3> QED BY <2>10, <3>1, <3>2 DEF Returns, url
  <2>12. CASE generation = 1 /\ \E i \in 1..Len(s) : ~(s[i] < 128)
    <3>1. PICK i \in 1..Len(s) : ~(s[i] < 128)
      BY <2>12
    <3>2. s[i] \in Nat
      BY <2>2, ElementOfSeq, SMT DEF CodePoints
    <3>3. s[i] > 127
      BY <3>1, <3>2
    <3>4. \E x \in ToSet(states) : \E c \in ToSet(x) : c > 127
      BY <2>5, <3>3
    <3> QED BY <2>10, <2>12, <3>4 DEF Returns, url
  <2> QED BY <2>11, <2>12
<1> QED BY <1>1, <1>2

\* callback_google: the client reads exactly the code and its own state from
\* the redirect, whatever characters the state has and whether or not the
\* redirect_uri has a query, for every registered redirect_uri without a code
\* or state parameter of its own.
THEOREM ClientReadsItsState == Spec => []ClientGetsItsState
<1> DEFINE Ran == alg = "redirect" =>
                    /\ in \in RedirectInputs
                    /\ done => out = RedirectUrl(in.generation, in.uri, in.code, in.states)
<1>1. Ran => ClientGetsItsState
  <2> SUFFICES ASSUME alg = "redirect", done, Ran PROVE Returns(out, in.generation, in.code, in.states)
    BY DEF ClientGetsItsState, Returns
  <2>1. out = RedirectUrl(in.generation, in.uri, in.code, in.states)
    OBVIOUS
  <2>2. /\ in.generation \in {1, 2} /\ in.uri \in Uris /\ in.code \in Codes
        /\ in.states \in {<<>>} \cup {<<s>> : s \in UpToLen(StateChars, MaxState)}
    BY DEF RedirectInputs
  <2> QED BY <2>1, <2>2, RedirectFact
<1>2. Init => Ran
  BY DEF Init
<1>3. Ran /\ [Next]_vars => Ran'
  BY DEF Next, Run, vars
<1> QED BY <1>1, <1>2, <1>3, PTL DEF Spec

-----------------------------------------------------------------------------
(* Words                                                                   *)

\* A list grows from its beginnings.
LEMMA Beginnings ==
    ASSUME NEW S, NEW s \in Seq(S)
    PROVE  /\ SubSeq(s, 1, 0) = <<>> /\ SubSeq(s, 1, Len(s)) = s
           /\ \A n \in 0..Len(s) : SubSeq(s, 1, n) \in Seq(S)
           /\ \A n \in 1..Len(s) : /\ s[n] \in S /\ SubSeq(s, 1, n - 1) \in Seq(S)
                                   /\ SubSeq(s, 1, n) = Append(SubSeq(s, 1, n - 1), s[n])
<1>1. Len(s) \in Nat /\ \A n \in 1..Len(s) : s[n] \in S
  BY LenProperties, ElementOfSeq
<1>2. SubSeq(s, 1, 0) = <<>> /\ SubSeq(s, 1, Len(s)) = s
  BY SubSeqEmpty, SubSeqFull
<1>3. ASSUME NEW n \in 0..Len(s) PROVE SubSeq(s, 1, n) \in Seq(S)
  <2>1. 1 \in 1..Len(s) + 1 /\ n \in 1 - 1..Len(s)
    BY <1>1
  <2> QED BY <2>1, PartFact
<1>4. ASSUME NEW n \in 1..Len(s)
      PROVE  /\ SubSeq(s, 1, n - 1) \in Seq(S)
             /\ SubSeq(s, 1, n) = Append(SubSeq(s, 1, n - 1), s[n])
  <2> DEFINE t == SubSeq(s, 1, n - 1)
             c == s[n]
  <2>1. n - 1 \in 0..Len(s) /\ 1 \in 1..Len(s)
    BY <1>1
  <2>2. t \in Seq(S) /\ c \in S
    BY <1>1, <1>3, <2>1
  <2>3. SubSeq(s, 1, n) = t \o <<c>>
    BY <2>1, SubSeqRecursiveSecond
  <2> HIDE DEF t, c
  <2>4. SubSeq(s, 1, n) = Append(t, c)
    BY <2>2, <2>3, AppendOne
  <2> QED BY <2>2, <2>4 DEF t, c
<1> QED BY <1>1, <1>2, <1>3, <1>4

LEMMA FlattenAppend ==
    ASSUME NEW S, NEW e \in Seq(Seq(S)), NEW x \in Seq(S)
    PROVE  FlattenSeq(Append(e, x)) = FlattenSeq(e) \o x
<1> DEFINE N == Len(e)
           f == Append(e, x)
<1>1. N \in Nat
  BY LenProperties
<1>2. f \in Seq(Seq(S)) /\ Len(f) = N + 1 /\ f[N + 1] = x /\ \A n \in 1..N : f[n] = e[n]
  BY AppendProperties
<1> HIDE DEF f
<1>3. PICK g : Flattens(g, e, S) /\ FlattenSeq(e) = g[N]
  BY FlattenUnfolds
<1>4. PICK h : Flattens(h, f, S) /\ FlattenSeq(f) = h[N + 1]
  BY <1>2, FlattenUnfolds
<1>5. /\ g[0] = <<>> /\ h[0] = <<>>
      /\ \A n \in 1..N : g[n] = g[n - 1] \o e[n]
      /\ \A n \in 1..N + 1 : h[n] = h[n - 1] \o f[n]
  BY <1>2, <1>3, <1>4 DEF Flattens
<1> HIDE DEF N
<1> DEFINE V == {n \in 0..N : g[n] = h[n]}
<1>6. 0 \in V
  BY <1>1, <1>5
<1>7. ASSUME NEW n \in 1..N, n - 1 \in V PROVE n \in V
  <2>1. n \in 0..N /\ n \in 1..N + 1
    BY <1>1
  <2> QED BY <1>2, <1>5, <1>7, <2>1
<1>8. \A n \in 0..N : n \in V
  <2> HIDE DEF V
  <2> QED BY <1>1, <1>6, <1>7, UptoInduction
<1>9. N \in 0..N /\ N + 1 \in 1..N + 1 /\ (N + 1) - 1 = N
  BY <1>1
<1>10. h[N + 1] = g[N] \o x
  BY <1>2, <1>5, <1>8, <1>9
<1> QED BY <1>3, <1>4, <1>10 DEF f

LEMMA FlattenNone == FlattenSeq(<<>>) = <<>>
<1> DEFINE none == <<>>
<1>1. none \in Seq(Seq(Nat)) /\ Len(none) = 0
  BY EmptySeq
<1> HIDE DEF none
<1>2. PICK g : Flattens(g, none, Nat) /\ FlattenSeq(none) = g[Len(none)]
  BY <1>1, FlattenUnfolds
<1>3. g[0] = <<>>
  BY <1>2 DEF Flattens
<1> QED BY <1>1, <1>2, <1>3 DEF none

Letters == DOMAIN Lower

LEMMA LetterFact ==
    /\ Space \in Letters /\ Lower[Space] = <<Space>>
    /\ \A c \in Letters : /\ Lower[c] \in Seq(Letters) /\ Len(Lower[c]) \in Nat \ {0}
                          /\ c # Space => \A i \in 1..Len(Lower[c]) : Lower[c][i] # Space
<1>1. Space \in Letters /\ Lower[Space] = <<Space>>
  BY WordsAssumption DEF Letters
<1>2. ASSUME NEW c \in Letters
      PROVE  /\ Lower[c] \in Seq(Letters) /\ Len(Lower[c]) \in Nat \ {0}
             /\ c # Space => \A i \in 1..Len(Lower[c]) : Lower[c][i] # Space
  <2>1. CASE c = Space
    <3> DEFINE l == <<Space>>
    <3>1. l \in Seq(Letters) /\ Len(l) \in Nat \ {0}
      BY <1>1
    <3>2. Lower[c] = l
      BY <1>1, <2>1
    <3> HIDE DEF l
    <3> QED BY <2>1, <3>1, <3>2
  <2>2. CASE c # Space
    <3> DEFINE l == Lower[c]
    <3>1. l \in Seq(Letters \ {Space}) /\ l # <<>>
      BY <2>2, WordsAssumption DEF Letters
    <3> HIDE DEF l
    <3>2. l \in Seq(Letters) /\ Len(l) \in Nat /\ Len(l) # 0
      <4>1. Letters \ {Space} \subseteq Letters
        OBVIOUS
      <4> QED BY <3>1, <4>1, SeqMonotonic, LenProperties, EmptySeq
    <3>3. \A i \in 1..Len(l) : l[i] \in Letters \ {Space}
      BY <3>1, ElementOfSeq
    <3> QED BY <3>2, <3>3 DEF l
  <2> QED BY <2>1, <2>2
<1> QED BY <1>1, <1>2

LEMMA LowerStep ==
    /\ LowerText(<<>>) = <<>>
    /\ \A s \in Seq(Letters) : LowerText(s) \in Seq(Letters)
    /\ \A s \in Seq(Letters), c \in Letters : LowerText(Append(s, c)) = LowerText(s) \o Lower[c]
<1>1. ASSUME NEW s \in Seq(Letters)
      PROVE  /\ [i \in DOMAIN s |-> Lower[s[i]]] \in Seq(Seq(Letters))
             /\ Len([i \in DOMAIN s |-> Lower[s[i]]]) = Len(s)
  <2>1. DOMAIN s = 1..Len(s) /\ Len(s) \in Nat /\ \A i \in 1..Len(s) : s[i] \in Letters
    BY LenProperties, ElementOfSeq
  <2>2. \A i \in 1..Len(s) : Lower[s[i]] \in Seq(Letters)
    BY <2>1, LetterFact
  <2> QED BY <2>1, <2>2
<1>2. LowerText(<<>>) = <<>>
  <2> DEFINE none == <<>>
  <2>1. DOMAIN none = {}
    BY EmptySeq
  <2>2. [i \in DOMAIN none |-> Lower[none[i]]] = <<>>
    BY <2>1
  <2> QED BY <2>2, FlattenNone DEF LowerText
<1>3. ASSUME NEW s \in Seq(Letters) PROVE LowerText(s) \in Seq(Letters)
  BY <1>1, FlattenType DEF LowerText
<1>4. ASSUME NEW s \in Seq(Letters), NEW c \in Letters
      PROVE  LowerText(Append(s, c)) = LowerText(s) \o Lower[c]
  <2> DEFINE t == Append(s, c)
             e == [i \in DOMAIN s |-> Lower[s[i]]]
             f == [i \in DOMAIN t |-> Lower[t[i]]]
             n == Len(s)
  <2>1. /\ DOMAIN s = 1..n /\ n \in Nat /\ t \in Seq(Letters) /\ Len(t) = n + 1
        /\ t[n + 1] = c /\ \A i \in 1..n : t[i] = s[i]
    BY LenProperties, AppendProperties
  <2>2. DOMAIN t = 1..n + 1
    BY <2>1, LenProperties
  <2>3. e \in Seq(Seq(Letters)) /\ Len(e) = n /\ \A i \in 1..n : e[i] = Lower[s[i]]
    BY <1>1, <2>1
  <2> HIDE DEF t
  <2>4. /\ f \in Seq(Seq(Letters)) /\ Len(f) = n + 1
        /\ \A i \in 1..n + 1 : f[i] = Lower[t[i]]
    BY <1>1, <2>1, <2>2
  <2> HIDE DEF e, f, n
  <2> DEFINE x == Lower[c]
             g == Append(e, x)
  <2>5. x \in Seq(Letters)
    BY LetterFact
  <2> HIDE DEF x
  <2>6. /\ g \in Seq(Seq(Letters)) /\ Len(g) = n + 1 /\ g[n + 1] = x
        /\ \A i \in 1..n : g[i] = e[i]
    BY <2>3, <2>5, AppendProperties
  <2> HIDE DEF g
  <2>7. \A i \in 1..n + 1 : f[i] = g[i]
    <3> SUFFICES ASSUME NEW i \in 1..n + 1 PROVE f[i] = g[i]
      OBVIOUS
    <3>1. CASE i = n + 1
      <4>1. f[i] = Lower[c]
        BY <2>1, <2>4, <3>1
      <4> QED BY <2>6, <3>1, <4>1 DEF x
    <3>2. CASE i # n + 1
      <4>1. i \in 1..n
        BY <2>1, <3>2
      <4>2. f[i] = Lower[s[i]]
        BY <2>1, <2>4, <4>1
      <4> QED BY <2>3, <2>6, <4>1, <4>2
    <3> QED BY <3>1, <3>2
  <2>8. f = g
    BY <2>4, <2>6, <2>7, SeqEqual
  <2>9. FlattenSeq(g) = FlattenSeq(e) \o x
    BY <2>3, <2>5, FlattenAppend DEF g
  <2> QED BY <2>8, <2>9 DEF LowerText, e, f, t, x
<1> QED BY <1>2, <1>3, <1>4

\* The three lists as members of one set: the provers find no set otherwise.
LEMMA LettersThree ==
    \A a, b, c \in Seq(Letters) : (a \o b) \o c = a \o (b \o c)
BY ConcatAssociative

Regrouped(a, b, c, d) == ((a \o b) \o c) \o d = a \o ((b \o c) \o d)

LEMMA LettersFour ==
    \A a, b, c, d \in Seq(Letters) : Regrouped(a, b, c, d)
<1> SUFFICES ASSUME NEW a \in Seq(Letters), NEW b \in Seq(Letters),
                    NEW c \in Seq(Letters), NEW d \in Seq(Letters)
             PROVE  ((a \o b) \o c) \o d = a \o ((b \o c) \o d)
  BY DEF Regrouped
<1> DEFINE ab == a \o b
           bc == b \o c
<1>1. ab \in Seq(Letters) /\ bc \in Seq(Letters)
  BY ConcatProperties
<1>2. ab \o c = a \o bc
  BY ConcatAssociative
<1> HIDE DEF ab, bc
<1>3. (a \o bc) \o d = a \o (bc \o d)
  BY <1>1, LettersThree, Zenon
<1> QED BY <1>2, <1>3 DEF ab, bc

\* What holds of the empty list and is kept by every item more holds of every list.
LEMMA ListInduction ==
    ASSUME NEW S, NEW V, <<>> \in V,
           \A s \in Seq(S), c \in S : s \in V => Append(s, c) \in V,
           NEW s \in Seq(S)
    PROVE  s \in V
<1> DEFINE N == Len(s)
           U == {n \in 0..N : SubSeq(s, 1, n) \in V}
<1>1. N \in Nat /\ 0 \in 0..N /\ N \in 0..N
  BY LenProperties
<1>2. 0 \in U
  BY <1>1, Beginnings
<1>3. ASSUME NEW n \in 1..N, n - 1 \in U PROVE n \in U
  <2> DEFINE t == SubSeq(s, 1, n - 1)
             c == s[n]
  <2>1. t \in Seq(S) /\ c \in S /\ SubSeq(s, 1, n) = Append(t, c)
    BY Beginnings
  <2>2. t \in V /\ n \in 0..N
    BY <1>1, <1>3
  <2> HIDE DEF t, c
  <2>3. Append(t, c) \in V
    BY <2>1, <2>2
  <2> QED BY <2>1, <2>2, <2>3
<1>4. \A n \in 0..N : n \in U
  <2> HIDE DEF U, N
  <2> QED BY <1>1, <1>2, <1>3, UptoInduction
<1>5. N \in U
  BY <1>1, <1>4
<1> QED BY <1>5, Beginnings

LEMMA AppendConcat ==
    ASSUME NEW S, NEW a \in Seq(S), NEW b \in Seq(S), NEW c \in S
    PROVE  a \o Append(b, c) = Append(a \o b, c)
<1> DEFINE one == <<c>>
           ab == a \o b
<1>1. one \in Seq(S)
  OBVIOUS
<1>2. ab \in Seq(S)
  BY ConcatProperties
<1>3. b \o one = Append(b, c) /\ ab \o one = Append(ab, c)
  BY <1>2, AppendOne
<1> HIDE DEF one
<1>4. (a \o b) \o one = a \o (b \o one)
  BY <1>1, ConcatAssociative
<1> QED BY <1>3, <1>4

LEMMA LowerConcat ==
    ASSUME NEW a \in Seq(Letters), NEW b \in Seq(Letters)
    PROVE  LowerText(a \o b) = LowerText(a) \o LowerText(b)
<1> DEFINE V == {s \in Seq(Letters) : LowerText(a \o s) = LowerText(a) \o LowerText(s)}
<1>1. <<>> \in V
  <2> DEFINE none == <<>>
             l == LowerText(a)
  <2>1. none \in Seq(Letters) /\ a \o none = a /\ LowerText(none) = none /\ l \in Seq(Letters)
    BY LowerStep, EmptySeq, ConcatEmptySeq
  <2>2. l \o none = l
    <3> HIDE DEF l
    <3> QED BY <2>1, ConcatEmptySeq
  <2> QED BY <2>1, <2>2
<1>2. ASSUME NEW s \in Seq(Letters), NEW c \in Letters, s \in V PROVE Append(s, c) \in V
  <2> DEFINE la == LowerText(a)
             ls == LowerText(s)
             lc == Lower[c]
             as == a \o s
  <2>1. as \in Seq(Letters) /\ Append(s, c) \in Seq(Letters)
    BY ConcatProperties, AppendProperties
  <2>2. la \in Seq(Letters) /\ ls \in Seq(Letters) /\ lc \in Seq(Letters)
    BY LowerStep, LetterFact
  <2>3. a \o Append(s, c) = Append(as, c)
    BY AppendConcat
  <2>4. LowerText(as) = la \o ls
    BY <1>2
  <2> HIDE DEF as
  <2>5. LowerText(Append(as, c)) = LowerText(as) \o lc
    BY <2>1, LowerStep
  <2>6. LowerText(Append(s, c)) = ls \o lc
    BY LowerStep
  <2> HIDE DEF la, ls, lc
  <2>7. (la \o ls) \o lc = la \o (ls \o lc)
    BY <2>2, ConcatAssociative
  <2> QED BY <2>1, <2>3, <2>4, <2>5, <2>6, <2>7 DEF la
<1>3. b \in V
  <2> HIDE DEF V
  <2> QED BY <1>1, <1>2, ListInduction
<1> QED BY <1>3

\* A text whose characters are lowered one to one.
Even(t) == t \in Seq(Letters) /\ is_lowercase_byte_aligned(t)

LEMMA EvenText ==
    ASSUME NEW t, Even(t)
    PROVE  /\ LowerText(t) \in Seq(Letters) /\ Len(LowerText(t)) = Len(t)
           /\ \A i \in 1..Len(t) : LowerText(t)[i] = Lower[t[i]][1]
<1> DEFINE Done(s) == /\ Len(LowerText(s)) = Len(s)
                      /\ \A i \in 1..Len(s) : LowerText(s)[i] = Lower[s[i]][1]
           V == {s \in Seq(Letters) : is_lowercase_byte_aligned(s) => Done(s)}
<1>1. <<>> \in V
  <2> DEFINE none == <<>>
  <2>1. none \in Seq(Letters) /\ Len(none) = 0 /\ LowerText(none) = none
    BY LowerStep, EmptySeq
  <2> QED BY <2>1
<1>2. ASSUME NEW s \in Seq(Letters), NEW c \in Letters, s \in V PROVE Append(s, c) \in V
  <2> DEFINE u == Append(s, c)
             n == Len(s)
             lc == Lower[c]
             ls == LowerText(s)
             lu == LowerText(u)
  <2>1. /\ n \in Nat /\ u \in Seq(Letters) /\ Len(u) = n + 1 /\ u[n + 1] = c
        /\ \A i \in 1..n : u[i] = s[i]
    BY LenProperties, AppendProperties
  <2>2. DOMAIN u = 1..n + 1 /\ DOMAIN s = 1..n
    BY <2>1, LenProperties
  <2>3. lu = ls \o lc /\ ls \in Seq(Letters) /\ lc \in Seq(Letters)
    BY LowerStep, LetterFact
  <2> SUFFICES ASSUME is_lowercase_byte_aligned(u) PROVE Done(u)
    BY <2>1
  <2> HIDE DEF u, n
  <2>4. is_lowercase_byte_aligned(s) /\ Len(lc) = 1
    BY <2>1, <2>2 DEF is_lowercase_byte_aligned
  <2>5. Len(ls) = n /\ \A i \in 1..n : ls[i] = Lower[s[i]][1]
    BY <1>2, <2>4 DEF n
  <2> HIDE DEF lc, ls, lu
  <2>6. /\ Len(lu) = Len(ls) + Len(lc)
        /\ \A i \in 1..Len(ls) : lu[i] = ls[i]
        /\ \A i \in 1..Len(lc) : lu[Len(ls) + i] = lc[i]
    BY <2>3, ConcatAt
  <2>7. Len(lu) = Len(u) /\ lu[n + 1] = lc[1] /\ \A i \in 1..n : lu[i] = Lower[s[i]][1]
    BY <2>1, <2>4, <2>5, <2>6
  <2>8. ASSUME NEW i \in 1..Len(u) PROVE lu[i] = Lower[u[i]][1]
    <3>1. i = n + 1 \/ i \in 1..n
      BY <2>1
    <3> QED BY <2>1, <2>7, <3>1 DEF lc
  <2> QED BY <2>7, <2>8 DEF lu
<1>3. t \in Seq(Letters)
  BY DEF Even
<1>4. t \in V
  <2> HIDE DEF V
  <2> QED BY <1>1, <1>2, <1>3, ListInduction
<1> QED BY <1>3, <1>4, LowerStep DEF Even

LEMMA EvenParts ==
    ASSUME NEW a \in Seq(Letters), NEW b \in Seq(Letters)
    PROVE  Even(a \o b) <=> Even(a) /\ Even(b)
<1> DEFINE c == a \o b
           One(x) == Len(Lower[x]) = 1
<1>1. /\ c \in Seq(Letters) /\ Len(a) \in Nat /\ Len(b) \in Nat /\ Len(c) = Len(a) + Len(b)
      /\ \A i \in 1..Len(a) : c[i] = a[i]
      /\ \A i \in 1..Len(b) : c[Len(a) + i] = b[i]
  BY ConcatAt
<1>2. DOMAIN a = 1..Len(a) /\ DOMAIN b = 1..Len(b) /\ DOMAIN c = 1..Len(c)
  BY <1>1, LenProperties
<1>3. /\ Even(a) <=> \A i \in 1..Len(a) : One(a[i])
      /\ Even(b) <=> \A i \in 1..Len(b) : One(b[i])
      /\ Even(c) <=> \A i \in 1..Len(c) : One(c[i])
  BY <1>1, <1>2 DEF Even, is_lowercase_byte_aligned
<1> HIDE DEF c, One
<1>4. ASSUME Even(c) PROVE Even(a) /\ Even(b)
  <2>1. \A i \in 1..Len(a) : i \in 1..Len(c)
    BY <1>1
  <2>2. \A i \in 1..Len(b) : Len(a) + i \in 1..Len(c)
    BY <1>1
  <2> QED BY <1>1, <1>3, <1>4, <2>1, <2>2
<1>5. ASSUME Even(a), Even(b) PROVE Even(c)
  <2>1. ASSUME NEW i \in 1..Len(c) PROVE One(c[i])
    <3>1. i \in 1..Len(a) \/ (i - Len(a) \in 1..Len(b) /\ Len(a) + (i - Len(a)) = i)
      BY <1>1
    <3> QED BY <1>1, <1>3, <1>5, <3>1
  <2> QED BY <1>3, <2>1
<1> QED BY <1>4, <1>5 DEF c

LEMMA EvenPart ==
    ASSUME NEW t, Even(t), NEW m \in 1..Len(t) + 1, NEW n \in m - 1..Len(t)
    PROVE  /\ Even(SubSeq(t, m, n))
           /\ LowerText(SubSeq(t, m, n)) = SubSeq(LowerText(t), m, n)
<1> DEFINE l == LowerText(t)
           u == SubSeq(t, m, n)
           v == SubSeq(l, m, n)
           lu == LowerText(u)
           k == n - m + 1
<1>1. t \in Seq(Letters) /\ Len(t) \in Nat /\ DOMAIN t = 1..Len(t)
  BY LenProperties DEF Even
<1>2. l \in Seq(Letters) /\ Len(l) = Len(t) /\ \A i \in 1..Len(t) : l[i] = Lower[t[i]][1]
  BY EvenText
<1>3. /\ u \in Seq(Letters) /\ Len(u) = k
      /\ \A i \in 1..k : u[i] = t[m + i - 1]
  BY <1>1, PartFact
<1> HIDE DEF l
<1>4. /\ v \in Seq(Letters) /\ Len(v) = k
      /\ \A i \in 1..k : v[i] = l[m + i - 1]
  BY <1>2, PartFact
<1>5. \A i \in 1..k : m + i - 1 \in 1..Len(t)
  BY <1>1
<1>6. k \in Nat /\ DOMAIN u = 1..k
  BY <1>1, <1>3, LenProperties
<1> HIDE DEF u, v, k
<1>7. \A i \in 1..Len(t) : Len(Lower[t[i]]) = 1
  BY <1>1 DEF Even, is_lowercase_byte_aligned
<1>8. Even(u)
  BY <1>3, <1>5, <1>6, <1>7 DEF Even, is_lowercase_byte_aligned
<1>9. lu \in Seq(Letters) /\ Len(lu) = k /\ \A i \in 1..k : lu[i] = Lower[u[i]][1]
  BY <1>3, <1>8, EvenText
<1> HIDE DEF lu
<1>10. \A i \in 1..k : lu[i] = v[i]
  BY <1>2, <1>3, <1>4, <1>5, <1>9
<1>11. lu = v
  BY <1>4, <1>9, <1>10, SeqEqual
<1> QED BY <1>8, <1>11 DEF lu, v, u, l

Spaces == Seq({Space})

LEMMA SpacesFact ==
    ASSUME NEW p \in Spaces
    PROVE  p \in Seq(Letters) /\ Even(p) /\ LowerText(p) = p
<1> DEFINE l == LowerText(p)
<1>1. {Space} \subseteq Letters
  BY LetterFact
<1>2. p \in Seq(Letters) /\ DOMAIN p = 1..Len(p) /\ \A i \in 1..Len(p) : p[i] = Space
  BY <1>1, SeqMonotonic, LenProperties, ElementOfSeq DEF Spaces
<1>3. Len(Lower[Space]) = 1 /\ Lower[Space][1] = Space
  BY LetterFact
<1>4. Even(p)
  BY <1>2, <1>3 DEF Even, is_lowercase_byte_aligned
<1>5. l \in Seq(Letters) /\ Len(l) = Len(p) /\ \A i \in 1..Len(p) : l[i] = Lower[p[i]][1]
  BY <1>4, EvenText
<1>6. \A i \in 1..Len(p) : l[i] = p[i]
  BY <1>2, <1>3, <1>5
<1> HIDE DEF l
<1>7. l = p
  BY <1>2, <1>5, <1>6, SeqEqual
<1> QED BY <1>2, <1>4, <1>7 DEF l

\* What trim leaves has no space at its ends.
Edged(w) == w # <<>> => w[1] # Space /\ w[Len(w)] # Space

Padded(s, p, w, q) == p \in Spaces /\ q \in Spaces /\ s = (p \o w) \o q

LEMMA NameTrimmed ==
    ASSUME NEW s \in Seq(Letters)
    PROVE  /\ Trim(s) \in Seq(Letters) /\ Edged(Trim(s))
           /\ \E p, q : Padded(s, p, Trim(s), q)
<1> DEFINE solid == {i \in DOMAIN s : s[i] # Space}
           N == Len(s)
           none == <<>>
<1>1. N \in Nat /\ DOMAIN s = 1..N /\ \A i \in 1..N : s[i] \in Letters
  BY LenProperties, ElementOfSeq
<1>2. none \in Spaces /\ none \in Seq(Letters)
  BY EmptySeq DEF Spaces
<1>3. CASE solid = {}
  <2>1. Trim(s) = none
    BY <1>3 DEF Trim
  <2>2. \A i \in 1..N : s[i] \in {Space}
    BY <1>1, <1>3
  <2>3. s = [i \in 1..N |-> s[i]]
    BY <1>1
  <2>4. s \in Spaces
    BY <1>1, <2>2, <2>3 DEF Spaces
  <2>5. s \o none = s
    BY ConcatEmptySeq
  <2>6. Padded(s, s, none, none)
    BY <1>2, <2>4, <2>5 DEF Padded
  <2> QED BY <1>2, <2>1, <2>6 DEF Edged
<1>4. CASE solid # {}
  <2> DEFINE a == CHOOSE i \in solid : \A j \in solid : i <= j
             b == CHOOSE i \in solid : \A j \in solid : i >= j
             w == SubSeq(s, a, b)
             p == SubSeq(s, 1, a - 1)
             q == SubSeq(s, b + 1, N)
  <2>1. Trim(s) = w
    BY <1>4 DEF Trim
  <2>2. a \in solid /\ \A j \in solid : a <= j
    <3>1. solid \in SUBSET Nat
      BY <1>1
    <3>2. \E i \in solid : \A j \in solid : i <= j
      <4> HIDE DEF solid
      <4> QED BY <1>4, <3>1, LeastNumber
    <3> HIDE DEF solid
    <3> QED BY <3>2
  <2>3. b \in solid /\ \A j \in solid : b >= j
    <3>1. solid \in SUBSET (0..N)
      BY <1>1
    <3>2. \E i \in solid : \A j \in solid : i >= j
      <4> HIDE DEF solid, N
      <4> QED BY <1>1, <1>4, <3>1, GreatestNumber
    <3> HIDE DEF solid
    <3> QED BY <3>2
  <2> HIDE DEF a, b
  <2>4. a \in 1..N /\ b \in a..N /\ s[a] # Space /\ s[b] # Space
    BY <1>1, <2>2, <2>3
  <2>5. \A i \in 1..N : i < a \/ i > b => s[i] = Space
    BY <1>1, <2>2, <2>3, <2>4
  <2>6. a \in 1..N + 1 /\ b \in a - 1..N
    BY <1>1, <2>4
  <2>7. /\ w \in Seq(Letters) /\ Len(w) = b - a + 1
        /\ \A i \in 1..b - a + 1 : w[i] = s[a + i - 1]
    BY <2>6, PartFact
  <2>8. 1 \in 1..b - a + 1 /\ b - a + 1 \in 1..b - a + 1
    BY <1>1, <2>4
  <2>9. a + 1 - 1 = a /\ a + (b - a + 1) - 1 = b
    BY <1>1, <2>4
  <2>10. Edged(w)
    BY <2>4, <2>7, <2>8, <2>9 DEF Edged
  <2>11. 1 \in 1..N + 1 /\ a - 1 \in 1 - 1..N /\ (a - 1) - 1 + 1 = a - 1
    BY <1>1, <2>4
  <2>12. /\ p \in Seq(Letters) /\ Len(p) = a - 1
         /\ \A i \in 1..a - 1 : p[i] = s[1 + i - 1]
    <3>1. /\ p \in Seq(Letters) /\ Len(p) = (a - 1) - 1 + 1
          /\ \A i \in 1..(a - 1) - 1 + 1 : p[i] = s[1 + i - 1]
      BY <2>11, PartFact
    <3> QED BY <2>11, <3>1
  <2>13. b + 1 \in 1..N + 1 /\ N \in (b + 1) - 1..N
    BY <1>1, <2>4
  <2>14. /\ q \in Seq(Letters) /\ Len(q) = N - (b + 1) + 1
         /\ \A i \in 1..N - (b + 1) + 1 : q[i] = s[(b + 1) + i - 1]
    BY <2>13, PartFact
  <2>15. p \in Spaces /\ q \in Spaces
    <3>1. \A i \in 1..a - 1 : 1 + i - 1 \in 1..N /\ 1 + i - 1 < a
      BY <1>1, <2>4
    <3>2. \A i \in 1..N - (b + 1) + 1 : (b + 1) + i - 1 \in 1..N /\ (b + 1) + i - 1 > b
      BY <1>1, <2>4
    <3> HIDE DEF p, q
    <3>3. DOMAIN p = 1..Len(p) /\ DOMAIN q = 1..Len(q) /\ Len(p) \in Nat /\ Len(q) \in Nat
      BY <2>12, <2>14, LenProperties
    <3>4. (\A i \in 1..Len(p) : p[i] \in {Space}) /\ \A i \in 1..Len(q) : q[i] \in {Space}
      BY <2>5, <2>12, <2>14, <3>1, <3>2
    <3>5. p = [i \in 1..Len(p) |-> p[i]] /\ q = [i \in 1..Len(q) |-> q[i]]
      BY <2>12, <2>14, <3>3
    <3> QED BY <3>3, <3>4, <3>5 DEF Spaces
  <2>16. s = (p \o w) \o q
    <3>1. 1 \in 1..Len(s) + 1 /\ a - 1 \in 1 - 1..Len(s) /\ b \in a - 1..Len(s)
          /\ b \in 1 - 1..Len(s) /\ Len(s) \in b..Len(s) /\ (a - 1) + 1 = a
      BY <1>1, <2>4
    <3>2. SubSeq(s, 1, a - 1) \o SubSeq(s, (a - 1) + 1, b) = SubSeq(s, 1, b)
      BY <3>1, ConcatAdjacentSubSeq
    <3>3. SubSeq(s, 1, b) \o SubSeq(s, b + 1, Len(s)) = SubSeq(s, 1, Len(s))
      BY <3>1, ConcatAdjacentSubSeq
    <3> QED BY <3>1, <3>2, <3>3, SubSeqFull
  <2> QED BY <2>1, <2>7, <2>10, <2>15, <2>16 DEF Padded
<1> QED BY <1>3, <1>4

LEMMA EntityKey ==
    ASSUME NEW s \in Seq(Letters)
    PROVE  LET key == normalize_entity_key(s)
           IN  /\ key \in Seq(Letters) /\ Edged(key)
               /\ \E p, q : Padded(LowerText(s), p, key, q)
<1> DEFINE w == Trim(s)
           key == LowerText(w)
<1>1. PICK p, q : w \in Seq(Letters) /\ Edged(w) /\ Padded(s, p, w, q)
  BY NameTrimmed
<1>2. key = normalize_entity_key(s)
  BY DEF normalize_entity_key
<1> HIDE DEF w
<1>3. key \in Seq(Letters)
  BY <1>1, LowerStep
<1>4. /\ p \in Seq(Letters) /\ LowerText(p) = p
      /\ q \in Seq(Letters) /\ LowerText(q) = q
  BY <1>1, SpacesFact DEF Padded
<1>5. Padded(LowerText(s), p, key, q)
  <2> DEFINE pw == p \o w
  <2>1. pw \in Seq(Letters)
    BY <1>1, <1>4, ConcatProperties
  <2>2. LowerText(pw) = p \o key
    BY <1>1, <1>4, LowerConcat
  <2>3. s = pw \o q
    BY <1>1 DEF Padded
  <2> HIDE DEF pw
  <2>4. LowerText(s) = LowerText(pw) \o q
    BY <1>4, <2>1, <2>3, LowerConcat
  <2> QED BY <1>1, <2>2, <2>4 DEF Padded
<1>6. Edged(key)
  <2> SUFFICES ASSUME key # <<>> PROVE key[1] # Space /\ key[Len(key)] # Space
    BY DEF Edged
  <2> DEFINE n == Len(w)
  <2>1. w # <<>>
    BY LowerStep
  <2>2. n \in Nat /\ n # 0 /\ \A i \in 1..n : w[i] \in Letters
    BY <1>1, <2>1, LenProperties, ElementOfSeq, EmptySeq
  <2>3. 1 \in 1..n /\ n \in 1..n /\ n \in 1..n + 1 /\ n \in 2 - 1..n
        /\ 1 \in 2 - 1..n /\ 1 \in 1 - 1..n /\ 1 \in 1..n + 1 /\ n - 1 \in 1 - 1..n /\ 2 \in 1..n + 1
    BY <2>2
  <2>4. w[1] # Space /\ w[n] # Space
    BY <1>1, <2>1 DEF Edged
  <2>5. key[1] # Space
    <3> DEFINE c == w[1]
               rest == SubSeq(w, 2, n)
               one == <<c>>
               lc == Lower[c]
               lr == LowerText(rest)
    <3>1. w = one \o rest
      <4>1. SubSeq(w, 1, n) = one \o SubSeq(w, 1 + 1, n)
        BY <1>1, <2>3, SubSeqRecursiveFirst
      <4> QED BY <1>1, <4>1, SubSeqFull
    <3>2. rest \in Seq(Letters) /\ c \in Letters
      BY <1>1, <2>2, <2>3, PartFact
    <3> HIDE DEF rest, c
    <3>3. one \in Seq(Letters) /\ LowerText(one) = lc
      <4> DEFINE none == <<>>
      <4>1. none \in Seq(Letters) /\ one = Append(none, c) /\ LowerText(none) = none
        BY <3>2, LowerStep, EmptySeq
      <4>2. LowerText(one) = none \o lc /\ lc \in Seq(Letters)
        BY <3>2, <4>1, LowerStep, LetterFact
      <4> HIDE DEF lc
      <4> QED BY <3>2, <4>2, ConcatEmptySeq
    <3> HIDE DEF one
    <3>4. key = lc \o lr /\ lr \in Seq(Letters)
      BY <3>1, <3>2, <3>3, LowerConcat, LowerStep
    <3>5. lc \in Seq(Letters) /\ Len(lc) \in Nat \ {0} /\ \A i \in 1..Len(lc) : lc[i] # Space
      BY <2>4, <3>2, LetterFact DEF c
    <3> HIDE DEF lc, lr, key
    <3>6. \A i \in 1..Len(lc) : key[i] = lc[i]
      BY <3>4, <3>5, ConcatAt
    <3> QED BY <3>5, <3>6
  <2>6. key[Len(key)] # Space
    <3> DEFINE c == w[n]
               rest == SubSeq(w, 1, n - 1)
               lc == Lower[c]
               lr == LowerText(rest)
    <3>1. rest \in Seq(Letters) /\ c \in Letters /\ w = Append(rest, c)
      BY <1>1, <2>3, Beginnings
    <3> HIDE DEF rest, c
    <3>2. key = lr \o lc /\ lr \in Seq(Letters)
      BY <3>1, LowerStep
    <3>3. lc \in Seq(Letters) /\ Len(lc) \in Nat \ {0} /\ \A i \in 1..Len(lc) : lc[i] # Space
      BY <2>4, <3>1, LetterFact DEF c
    <3> HIDE DEF lc, lr, key
    <3>4. Len(key) = Len(lr) + Len(lc) /\ \A i \in 1..Len(lc) : key[Len(lr) + i] = lc[i]
      BY <3>2, <3>3, ConcatAt
    <3> QED BY <3>3, <3>4
  <2> QED BY <2>5, <2>6
<1> QED BY <1>2, <1>3, <1>5, <1>6

\* A place where key is written in l, and one where it is written as words.
Written(l, key, i) == /\ i \in Nat /\ i >= 1 /\ i + Len(key) - 1 <= Len(l)
                      /\ SubSeq(l, i, i + Len(key) - 1) = key

Bounded(l, key, i) == Written(l, key, i) /\ Boundary(l, i, i + Len(key) - 1)

LEMMA FindFact ==
    ASSUME NEW l \in Seq(Letters), NEW key \in Seq(Letters), NEW start \in Nat, start >= 1
    PROVE  LET at == Find(l, key, start)
           IN  /\ at = 0 => \A i \in Nat : i >= start => ~Written(l, key, i)
               /\ at # 0 => /\ at >= start /\ Written(l, key, at)
                            /\ \A i \in Nat : i >= start /\ i < at => ~Written(l, key, i)
<1> DEFINE hits == {i \in start..Len(l) - Len(key) + 1 : OccursAt(l, key, i)}
           at == Find(l, key, start)
<1>1. Len(l) \in Nat /\ Len(key) \in Nat
  BY LenProperties
<1>2. \A i \in Nat : i \in hits <=> i >= start /\ Written(l, key, i)
  BY <1>1 DEF OccursAt, Written
<1>3. hits \in SUBSET Nat
  BY <1>1
<1>4. at = IF hits = {} THEN 0 ELSE CHOOSE i \in hits : \A j \in hits : i <= j
  BY DEF Find
<1> HIDE DEF hits, at
<1>5. CASE hits = {}
  BY <1>2, <1>4, <1>5 DEF at
<1>6. CASE hits # {}
  <2>1. \E i \in hits : \A j \in hits : i <= j
    BY <1>3, <1>6, LeastNumber
  <2>2. at \in hits /\ \A j \in hits : at <= j
    BY <1>4, <1>6, <2>1
  <2>3. at \in Nat /\ at >= start /\ Written(l, key, at)
    BY <1>2, <1>3, <2>2
  <2>4. \A i \in Nat : i >= start /\ i < at => ~Written(l, key, i)
    BY <1>2, <2>2, <2>3
  <2> QED BY <2>3, <2>4 DEF at
<1> QED BY <1>5, <1>6

ScanStates == [start : Nat \ {0}, found : BOOLEAN]

LEMMA ScanPassType ==
    ASSUME NEW l \in Seq(Letters), NEW key \in Seq(Letters), NEW r \in ScanStates
    PROVE  ScanPass(l, key, r) \in ScanStates
<1> DEFINE at == Find(l, key, r.start)
<1>1. r.start \in Nat /\ r.start >= 1
  BY DEF ScanStates
<1>2. at # 0 => at \in Nat
  BY <1>1, FindFact DEF Written
<1> HIDE DEF at
<1>3. Boundary(l, at, at + Len(key) - 1) \in BOOLEAN
  BY DEF Boundary
<1>4. at # 0 => at + 1 \in Nat \ {0}
  BY <1>2
<1> QED BY <1>3, <1>4 DEF ScanPass, ScanStates, NextSearch, at

Scans(g, l, key) ==
    /\ g \in [0..Len(l) -> ScanStates] /\ g[0] = [start |-> 1, found |-> FALSE]
    /\ \A n \in 1..Len(l) : g[n] = ScanPass(l, key, g[n - 1])

LEMMA ScanUnfolds ==
    ASSUME NEW l \in Seq(Letters), NEW key \in Seq(Letters), key # <<>>
    PROVE  \E g : Scans(g, l, key) /\ word_boundary_contains_in_lowercased(l, key) = g[Len(l)].found
<1> DEFINE N == Len(l)
           S == ScanStates
           base == [start |-> 1, found |-> FALSE]
           F == [p \in S \X (1..N) |-> ScanPass(l, key, p[1])]
           Good(g) == g = [n \in 0..N |-> IF n = 0 THEN [start |-> 1, found |-> FALSE] ELSE ScanPass(l, key, g[n - 1])]
           c == CHOOSE g : Good(g)
<1>1. N \in Nat /\ base \in S
  BY LenProperties DEF ScanStates
<1>2. word_boundary_contains_in_lowercased(l, key) = c[Len(l)].found
  BY Zenon DEF word_boundary_contains_in_lowercased
<1> HIDE DEF N
<1>3. \A x \in S, n \in 1..N : ScanPass(l, key, x) \in S
  BY ScanPassType
<1> HIDE DEF S, base
<1>4. F \in [S \X (1..N) -> S]
  BY <1>3
<1>5. PICK g \in [0..N -> S] : g[0] = base /\ \A n \in 1..N : g[n] = F[<<g[n - 1], n>>]
  <2> HIDE DEF F
  <2>1. \E g \in [0..N -> S] : Follows(g, base, F, N)
    BY <1>1, <1>4, Recursion
  <2> QED BY <2>1 DEF Follows
<1>6. \A n \in 0..N : n = 0 \/ n \in 1..N
  BY <1>1
<1>7. \A n \in 1..N : F[<<g[n - 1], n>>] = ScanPass(l, key, g[n - 1])
  <2>1. \A n \in 1..N : <<g[n - 1], n>> \in S \X (1..N)
    BY <1>1
  <2> QED BY <2>1
<1>8. Good(g)
  <2> HIDE DEF F
  <2>1. g = [n \in 0..N |-> g[n]]
    OBVIOUS
  <2>2. \A n \in 0..N : g[n] = IF n = 0 THEN base ELSE ScanPass(l, key, g[n - 1])
    BY <1>5, <1>6, <1>7
  <2> QED BY <2>1, <2>2 DEF base
<1>9. Good(c)
  <2> HIDE DEF Good
  <2> QED BY <1>8
<1>10. \A n \in 0..N : c[n] = IF n = 0 THEN base ELSE ScanPass(l, key, c[n - 1])
  <2> HIDE DEF c
  <2> QED BY <1>9 DEF base
<1>11. c = [n \in 0..N |-> c[n]]
  <2> HIDE DEF c
  <2> QED BY <1>9
<1> HIDE DEF c, Good
<1>12. c[0] = base /\ \A n \in 1..N : c[n] = ScanPass(l, key, c[n - 1])
  <2>1. 0 \in 0..N /\ \A n \in 1..N : n \in 0..N /\ n # 0
    BY <1>1
  <2> QED BY <1>10, <2>1
<1>13. \A n \in 0..N : c[n] \in S
  <2> DEFINE V == {n \in 0..N : c[n] \in S}
  <2>1. 0 \in V
    BY <1>1, <1>12
  <2>2. ASSUME NEW n \in 1..N, n - 1 \in V PROVE n \in V
    <3>1. n \in 0..N
      BY <1>1
    <3> QED BY <1>3, <1>12, <2>2, <3>1
  <2>3. \A n \in 0..N : n \in V
    <3> HIDE DEF V
    <3> QED BY <1>1, <2>1, <2>2, UptoInduction
  <2> QED BY <2>3
<1>14. c \in [0..N -> S]
  BY <1>11, <1>13
<1>15. Scans(c, l, key)
  BY <1>12, <1>14 DEF Scans, N, S, base
<1> QED BY <1>2, <1>15 DEF N

\* A search finds a place where key is written as words exactly if there is one.
LEMMA ScanFact ==
    ASSUME NEW l \in Seq(Letters), NEW key \in Seq(Letters)
    PROVE  word_boundary_contains_in_lowercased(l, key)
           <=> key # <<>> /\ \E i \in 1..Len(l) : Bounded(l, key, i)
<1>1. key = <<>> => ~word_boundary_contains_in_lowercased(l, key)
  BY DEF word_boundary_contains_in_lowercased
<1> SUFFICES ASSUME key # <<>>
             PROVE  word_boundary_contains_in_lowercased(l, key)
                    <=> \E i \in 1..Len(l) : Bounded(l, key, i)
  BY <1>1
<1> DEFINE N == Len(l)
           Some == \E i \in 1..N : Bounded(l, key, i)
           Ended(r) == Find(l, key, r.start) = 0
           Right(r, n) == /\ r.found => Some
                          /\ ~r.found => /\ \A i \in Nat : i < r.start => ~Bounded(l, key, i)
                                         /\ Ended(r) \/ r.start > n
<1>2. PICK g : Scans(g, l, key) /\ word_boundary_contains_in_lowercased(l, key) = g[N].found
  BY ScanUnfolds
<1>3. N \in Nat /\ Len(key) \in Nat /\ Len(key) # 0
  BY LenProperties, EmptySeq
<1>4. \A i \in Nat : Bounded(l, key, i) => i \in 1..N
  BY <1>3 DEF Bounded, Written
<1>5. ASSUME NEW n \in 1..N, Right(g[n - 1], n - 1) PROVE Right(g[n], n)
  <2> DEFINE r == g[n - 1]
             at == Find(l, key, r.start)
  <2>1. n - 1 \in 0..N
    BY <1>3
  <2>2. r \in ScanStates /\ g[n] = ScanPass(l, key, r)
    BY <1>2, <2>1 DEF Scans
  <2>3. Right(r, n - 1)
    BY <1>5
  <2> HIDE DEF r
  <2>4. r.start \in Nat /\ r.start >= 1 /\ r.found \in BOOLEAN
    BY <2>2 DEF ScanStates
  <2>5. CASE at = 0 \/ r.found
    <3>1. g[n] = r
      BY <2>2, <2>5 DEF ScanPass
    <3> QED BY <2>3, <2>5, <3>1
  <2>6. CASE at # 0 /\ ~r.found
    <3> DEFINE end == at + Len(key) - 1
    <3>1. g[n] = [start |-> at + 1, found |-> Boundary(l, at, end)]
      BY <2>2, <2>6 DEF ScanPass, NextSearch
    <3>2. /\ at >= r.start /\ Written(l, key, at)
          /\ \A i \in Nat : i >= r.start /\ i < at => ~Written(l, key, i)
      BY <2>4, <2>6, FindFact
    <3>3. at \in Nat
      BY <3>2 DEF Written
    <3>4. r.start > n - 1 /\ \A i \in Nat : i < r.start => ~Bounded(l, key, i)
      BY <2>3, <2>6
    <3> HIDE DEF at, Ended, Some
    <3>5. CASE Boundary(l, at, end)
      <4>1. Bounded(l, key, at)
        BY <3>2, <3>5 DEF Bounded
      <4>2. Some
        BY <1>4, <3>3, <4>1 DEF Some
      <4>3. g[n].found
        BY <3>1, <3>5
      <4> QED BY <4>2, <4>3
    <3>6. CASE ~Boundary(l, at, end)
      <4>1. ~g[n].found /\ g[n].start = at + 1
        BY <3>1, <3>6
      <4>2. ~Bounded(l, key, at)
        BY <3>6 DEF Bounded
      <4>3. ASSUME NEW i \in Nat, i < at + 1 PROVE ~Bounded(l, key, i)
        <5>1. i < r.start \/ (i >= r.start /\ i < at) \/ i = at
          BY <2>4, <3>3, <4>3
        <5> QED BY <3>2, <3>4, <4>2, <5>1 DEF Bounded
      <4>4. at + 1 > n
        BY <1>3, <2>4, <3>2, <3>3, <3>4
      <4> QED BY <4>1, <4>3, <4>4
    <3> QED BY <3>5, <3>6
  <2> QED BY <2>5, <2>6
<1>6. Right(g[0], 0)
  <2>1. g[0].start = 1 /\ ~g[0].found
    BY <1>2 DEF Scans
  <2>2. \A i \in Nat : i < 1 => ~Bounded(l, key, i)
    BY DEF Bounded, Written
  <2> HIDE DEF Ended
  <2> QED BY <2>1, <2>2
<1>7. Right(g[N], N)
  <2> DEFINE V == {n \in 0..N : Right(g[n], n)}
  <2> HIDE DEF Right
  <2>1. 0 \in V
    BY <1>3, <1>6
  <2>2. \A n \in 1..N : n - 1 \in V => n \in V
    <3>1. \A n \in 1..N : n \in 0..N
      BY <1>3
    <3> QED BY <1>5, <3>1
  <2>3. \A n \in 0..N : n \in V
    <3> HIDE DEF V
    <3> QED BY <1>3, <2>1, <2>2, UptoInduction
  <2>4. N \in 0..N
    BY <1>3
  <2> QED BY <2>3, <2>4
<1>8. N \in 0..N /\ g[N] \in ScanStates
  BY <1>2, <1>3 DEF Scans
<1>9. ASSUME ~g[N].found PROVE ~Some
  <2> DEFINE r == g[N]
  <2>1. r.start \in Nat /\ r.start >= 1
    BY <1>8 DEF ScanStates
  <2>2. /\ \A i \in Nat : i < r.start => ~Bounded(l, key, i)
        /\ Find(l, key, r.start) = 0 \/ r.start > N
    BY <1>7, <1>9
  <2> HIDE DEF r
  <2>3. ASSUME NEW i \in 1..N PROVE ~Bounded(l, key, i)
    <3>1. i \in Nat /\ (i < r.start \/ i >= r.start)
      BY <2>1
    <3>2. CASE i >= r.start
      <4>1. ~(r.start > N)
        BY <1>3, <2>1, <3>2
      <4>2. ~Written(l, key, i)
        BY <2>1, <2>2, <3>1, <3>2, <4>1, FindFact
      <4> QED BY <4>2 DEF Bounded
    <3> QED BY <2>2, <3>1, <3>2
  <2> QED BY <2>3
<1>10. g[N].found => Some
  BY <1>7
<1> QED BY <1>2, <1>9, <1>10

MatchStates == [start : Nat \ {0}, at : Seq(Nat)]

LEMMA MatchPassType ==
    ASSUME NEW l \in Seq(Letters), NEW key \in Seq(Letters), NEW r \in MatchStates
    PROVE  MatchPass(l, key, r) \in MatchStates
<1> DEFINE at == Find(l, key, r.start)
           end == at + Len(key) - 1
<1>1. r.start \in Nat /\ r.start >= 1 /\ r.at \in Seq(Nat)
  BY DEF MatchStates
<1>2. at # 0 => at \in Nat
  BY <1>1, FindFact DEF Written
<1>3. Len(key) \in Nat
  BY LenProperties
<1>4. MatchPass(l, key, r) =
        IF at = 0 THEN r
        ELSE IF Boundary(l, at, end) THEN [start |-> end + 1, at |-> Append(r.at, at)]
        ELSE [start |-> at + 1, at |-> r.at]
  BY DEF MatchPass, NextSearch
<1> HIDE DEF at
<1>5. at # 0 => /\ at + 1 \in Nat \ {0} /\ end + 1 \in Nat \ {0}
                /\ Append(r.at, at) \in Seq(Nat)
  BY <1>1, <1>2, <1>3, AppendProperties
<1> HIDE DEF end
<1> QED BY <1>1, <1>4, <1>5 DEF MatchStates

Collects(g, l, key) ==
    /\ g \in [0..Len(l) -> MatchStates] /\ g[0] = [start |-> 1, at |-> <<>>]
    /\ \A n \in 1..Len(l) : g[n] = MatchPass(l, key, g[n - 1])

LEMMA MatchesUnfold ==
    ASSUME NEW l \in Seq(Letters), NEW key \in Seq(Letters), key # <<>>
    PROVE  \E g : Collects(g, l, key) /\ Matches(l, key) = g[Len(l)].at
<1> DEFINE N == Len(l)
           S == MatchStates
           base == [start |-> 1, at |-> <<>>]
           F == [p \in S \X (1..N) |-> MatchPass(l, key, p[1])]
           Good(g) == g = [n \in 0..N |-> IF n = 0 THEN [start |-> 1, at |-> <<>>] ELSE MatchPass(l, key, g[n - 1])]
           c == CHOOSE g : Good(g)
<1>1. N \in Nat /\ base \in S
  BY LenProperties DEF MatchStates
<1>2. Matches(l, key) = c[Len(l)].at
  BY Zenon DEF Matches
<1> HIDE DEF N
<1>3. \A x \in S, n \in 1..N : MatchPass(l, key, x) \in S
  BY MatchPassType
<1> HIDE DEF S, base
<1>4. F \in [S \X (1..N) -> S]
  BY <1>3
<1>5. PICK g \in [0..N -> S] : g[0] = base /\ \A n \in 1..N : g[n] = F[<<g[n - 1], n>>]
  <2> HIDE DEF F
  <2>1. \E g \in [0..N -> S] : Follows(g, base, F, N)
    BY <1>1, <1>4, Recursion
  <2> QED BY <2>1 DEF Follows
<1>6. \A n \in 0..N : n = 0 \/ n \in 1..N
  BY <1>1
<1>7. \A n \in 1..N : F[<<g[n - 1], n>>] = MatchPass(l, key, g[n - 1])
  <2>1. \A n \in 1..N : <<g[n - 1], n>> \in S \X (1..N)
    BY <1>1
  <2> QED BY <2>1
<1>8. Good(g)
  <2> HIDE DEF F
  <2>1. g = [n \in 0..N |-> g[n]]
    OBVIOUS
  <2>2. \A n \in 0..N : g[n] = IF n = 0 THEN base ELSE MatchPass(l, key, g[n - 1])
    BY <1>5, <1>6, <1>7
  <2> QED BY <2>1, <2>2 DEF base
<1>9. Good(c)
  <2> HIDE DEF Good
  <2> QED BY <1>8
<1>10. \A n \in 0..N : c[n] = IF n = 0 THEN base ELSE MatchPass(l, key, c[n - 1])
  <2> HIDE DEF c
  <2> QED BY <1>9 DEF base
<1>11. c = [n \in 0..N |-> c[n]]
  <2> HIDE DEF c
  <2> QED BY <1>9
<1> HIDE DEF c, Good
<1>12. c[0] = base /\ \A n \in 1..N : c[n] = MatchPass(l, key, c[n - 1])
  <2>1. 0 \in 0..N /\ \A n \in 1..N : n \in 0..N /\ n # 0
    BY <1>1
  <2> QED BY <1>10, <2>1
<1>13. \A n \in 0..N : c[n] \in S
  <2> DEFINE V == {n \in 0..N : c[n] \in S}
  <2>1. 0 \in V
    BY <1>1, <1>12
  <2>2. ASSUME NEW n \in 1..N, n - 1 \in V PROVE n \in V
    <3>1. n \in 0..N
      BY <1>1
    <3> QED BY <1>3, <1>12, <2>2, <3>1
  <2>3. \A n \in 0..N : n \in V
    <3> HIDE DEF V
    <3> QED BY <1>1, <2>1, <2>2, UptoInduction
  <2> QED BY <2>3
<1>14. c \in [0..N -> S]
  BY <1>11, <1>13
<1>15. Collects(c, l, key)
  BY <1>12, <1>14 DEF Collects, N, S, base
<1> QED BY <1>2, <1>15 DEF N

\* Places that are words each, from the left to the right, and do not overlap.
Apart(l, key, at) == /\ at \in Seq(Nat)
                     /\ \A k \in 1..Len(at) : Bounded(l, key, at[k])
                     /\ \A k \in 2..Len(at) : at[k] >= at[k - 1] + Len(key)

LEMMA MatchesFact ==
    ASSUME NEW l \in Seq(Letters), NEW key \in Seq(Letters)
    PROVE  /\ Apart(l, key, Matches(l, key))
           /\ key = <<>> => Matches(l, key) = <<>>
<1>1. key = <<>> => Matches(l, key) = <<>>
  BY DEF Matches
<1>2. key = <<>> => Apart(l, key, Matches(l, key))
  <2> DEFINE none == <<>>
  <2>1. none \in Seq(Nat) /\ Len(none) = 0
    BY EmptySeq
  <2> HIDE DEF none
  <2>2. Apart(l, key, none)
    BY <2>1 DEF Apart
  <2> QED BY <1>1, <2>2 DEF none
<1> SUFFICES ASSUME key # <<>> PROVE Apart(l, key, Matches(l, key))
  BY <1>1, <1>2
<1> DEFINE N == Len(l)
           Right(r) == /\ Apart(l, key, r.at)
                       /\ Len(r.at) # 0 => r.start >= r.at[Len(r.at)] + Len(key)
<1>3. PICK g : Collects(g, l, key) /\ Matches(l, key) = g[N].at
  BY MatchesUnfold
<1>4. N \in Nat /\ Len(key) \in Nat /\ Len(key) # 0
  BY LenProperties, EmptySeq
<1>5. ASSUME NEW n \in 1..N, Right(g[n - 1]) PROVE Right(g[n])
  <2> DEFINE r == g[n - 1]
             at == Find(l, key, r.start)
             end == at + Len(key) - 1
  <2>1. n - 1 \in 0..N
    BY <1>4
  <2>2. r \in MatchStates /\ g[n] = MatchPass(l, key, r)
    BY <1>3, <2>1 DEF Collects
  <2>3. Right(r)
    BY <1>5
  <2> HIDE DEF r
  <2>4. r.start \in Nat /\ r.start >= 1 /\ r.at \in Seq(Nat) /\ Len(r.at) \in Nat
    BY <2>2, LenProperties DEF MatchStates
  <2>5. \A k \in 1..Len(r.at) : r.at[k] \in Nat
    BY <2>4, ElementOfSeq
  <2>6. CASE at = 0
    <3>1. g[n] = r
      BY <2>2, <2>6 DEF MatchPass
    <3> QED BY <2>3, <3>1
  <2>7. CASE at # 0
    <3>1. at >= r.start /\ Written(l, key, at)
      BY <2>4, <2>7, FindFact
    <3>2. at \in Nat
      BY <3>1 DEF Written
    <3>3. g[n] = IF Boundary(l, at, end) THEN [start |-> end + 1, at |-> Append(r.at, at)]
                 ELSE [start |-> at + 1, at |-> r.at]
      BY <2>2, <2>7 DEF MatchPass, NextSearch
    <3> HIDE DEF at
    <3>4. CASE Boundary(l, at, end)
      <4> DEFINE u == Append(r.at, at)
                 m == Len(r.at)
      <4>1. /\ u \in Seq(Nat) /\ Len(u) = m + 1 /\ u[m + 1] = at
            /\ \A k \in 1..m : u[k] = r.at[k]
        BY <2>4, <3>2, AppendProperties
      <4>2. g[n].start = end + 1 /\ g[n].at = u
        BY <3>3, <3>4
      <4>3. Bounded(l, key, at)
        BY <3>1, <3>4 DEF Bounded
      <4>4. Apart(l, key, r.at) /\ (m # 0 => r.start >= r.at[m] + Len(key))
        BY <2>3
      <4> HIDE DEF u
      <4>5. ASSUME NEW k \in 1..Len(u) PROVE Bounded(l, key, u[k])
        <5>1. k = m + 1 \/ k \in 1..m
          BY <2>4, <4>1
        <5> QED BY <4>1, <4>3, <4>4, <5>1 DEF Apart
      <4>6. ASSUME NEW k \in 2..Len(u) PROVE u[k] >= u[k - 1] + Len(key)
        <5>1. CASE k = m + 1
          <6>1. m # 0 /\ m \in 1..m /\ k - 1 = m
            BY <2>4, <5>1
          <6>2. u[k] = at /\ u[k - 1] = r.at[m] /\ r.at[m] \in Nat
            BY <2>5, <4>1, <5>1, <6>1
          <6> QED BY <1>4, <2>4, <3>1, <3>2, <4>4, <6>1, <6>2
        <5>2. CASE k # m + 1
          <6>1. k \in 2..m /\ k \in 1..m /\ k - 1 \in 1..m
            BY <2>4, <4>1, <5>2
          <6> QED BY <4>1, <4>4, <6>1 DEF Apart
        <5> QED BY <5>1, <5>2
      <4>7. Apart(l, key, u)
        BY <4>1, <4>5, <4>6 DEF Apart
      <4>8. end + 1 >= u[Len(u)] + Len(key)
        BY <1>4, <3>2, <4>1
      <4> QED BY <4>2, <4>7, <4>8
    <3>5. CASE ~Boundary(l, at, end)
      <4>1. g[n].start = at + 1 /\ g[n].at = r.at
        BY <3>3, <3>5
      <4>2. Len(r.at) # 0 => at + 1 >= r.at[Len(r.at)] + Len(key)
        <5> SUFFICES ASSUME Len(r.at) # 0 PROVE at + 1 >= r.at[Len(r.at)] + Len(key)
          OBVIOUS
        <5>1. Len(r.at) \in 1..Len(r.at)
          BY <2>4
        <5>2. r.at[Len(r.at)] \in Nat /\ r.start >= r.at[Len(r.at)] + Len(key)
          BY <2>3, <2>5, <5>1
        <5> QED BY <1>4, <2>4, <3>1, <3>2, <5>2
      <4> QED BY <2>3, <4>1, <4>2
    <3> QED BY <3>4, <3>5
  <2> QED BY <2>6, <2>7
<1>6. Right(g[0])
  <2> DEFINE none == <<>>
  <2>1. g[0].at = none
    BY <1>3 DEF Collects
  <2>2. none \in Seq(Nat) /\ Len(none) = 0
    BY EmptySeq
  <2> HIDE DEF none
  <2>3. Apart(l, key, none)
    BY <2>2 DEF Apart
  <2> QED BY <2>1, <2>2, <2>3
<1>7. Right(g[N])
  <2> DEFINE V == {n \in 0..N : Right(g[n])}
  <2> HIDE DEF Right
  <2>1. 0 \in V
    BY <1>4, <1>6
  <2>2. \A n \in 1..N : n - 1 \in V => n \in V
    <3>1. \A n \in 1..N : n \in 0..N
      BY <1>4
    <3> QED BY <1>5, <3>1
  <2>3. \A n \in 0..N : n \in V
    <3> HIDE DEF V
    <3> QED BY <1>4, <2>1, <2>2, UptoInduction
  <2>4. N \in 0..N
    BY <1>4
  <2> QED BY <2>3, <2>4
<1> QED BY <1>3, <1>7

ReadStates == [words : Seq(Seq(Letters)), open : Seq(Letters)]

LEMMA ReadOnType ==
    ASSUME NEW r \in ReadStates, NEW c \in Letters
    PROVE  ReadOn(r, c) \in ReadStates /\ Closed(r) \in Seq(Seq(Letters))
<1> DEFINE none == <<>>
<1>1. r.words \in Seq(Seq(Letters)) /\ r.open \in Seq(Letters) /\ none \in Seq(Letters)
  BY EmptySeq DEF ReadStates
<1>2. /\ Append(r.open, c) \in Seq(Letters)
      /\ Append(r.words, r.open) \in Seq(Seq(Letters))
  BY <1>1, AppendProperties
<1>3. Closed(r) \in Seq(Seq(Letters))
  BY <1>1, <1>2 DEF Closed
<1>4. ReadOn(r, c) = IF c = Space THEN [words |-> Closed(r), open |-> none]
                     ELSE [words |-> r.words, open |-> Append(r.open, c)]
  BY DEF ReadOn
<1> HIDE DEF none
<1> QED BY <1>1, <1>2, <1>3, <1>4 DEF ReadStates

WordReads(g, l) ==
    /\ g \in [0..Len(l) -> ReadStates] /\ g[0] = [words |-> <<>>, open |-> <<>>]
    /\ \A n \in 1..Len(l) : g[n] = ReadOn(g[n - 1], l[n])

LEMMA ReadingUnfolds ==
    ASSUME NEW l \in Seq(Letters)
    PROVE  \E g : WordReads(g, l) /\ Reading(l) = g[Len(l)]
<1> DEFINE N == Len(l)
           S == ReadStates
           base == [words |-> <<>>, open |-> <<>>]
           F == [p \in S \X (1..N) |-> ReadOn(p[1], l[p[2]])]
           Good(g) == g = [n \in 0..N |-> IF n = 0 THEN [words |-> <<>>, open |-> <<>>] ELSE ReadOn(g[n - 1], l[n])]
           c == CHOOSE g : Good(g)
<1>1. N \in Nat /\ base \in S
  BY LenProperties, EmptySeq DEF ReadStates
<1>2. Reading(l) = c[Len(l)]
  BY Zenon DEF Reading
<1> HIDE DEF N
<1>3. \A x \in S, n \in 1..N : ReadOn(x, l[n]) \in S
  BY ReadOnType, ElementOfSeq DEF N
<1> HIDE DEF S, base
<1>4. F \in [S \X (1..N) -> S]
  BY <1>3
<1>5. PICK g \in [0..N -> S] : g[0] = base /\ \A n \in 1..N : g[n] = F[<<g[n - 1], n>>]
  <2> HIDE DEF F
  <2>1. \E g \in [0..N -> S] : Follows(g, base, F, N)
    BY <1>1, <1>4, Recursion
  <2> QED BY <2>1 DEF Follows
<1>6. \A n \in 0..N : n = 0 \/ n \in 1..N
  BY <1>1
<1>7. \A n \in 1..N : F[<<g[n - 1], n>>] = ReadOn(g[n - 1], l[n])
  <2>1. \A n \in 1..N : <<g[n - 1], n>> \in S \X (1..N)
    BY <1>1
  <2> QED BY <2>1
<1>8. Good(g)
  <2> HIDE DEF F
  <2>1. g = [n \in 0..N |-> g[n]]
    OBVIOUS
  <2>2. \A n \in 0..N : g[n] = IF n = 0 THEN base ELSE ReadOn(g[n - 1], l[n])
    BY <1>5, <1>6, <1>7
  <2> QED BY <2>1, <2>2 DEF base
<1>9. Good(c)
  <2> HIDE DEF Good
  <2> QED BY <1>8
<1>10. \A n \in 0..N : c[n] = IF n = 0 THEN base ELSE ReadOn(c[n - 1], l[n])
  <2> HIDE DEF c
  <2> QED BY <1>9 DEF base
<1>11. c = [n \in 0..N |-> c[n]]
  <2> HIDE DEF c
  <2> QED BY <1>9
<1> HIDE DEF c, Good
<1>12. c[0] = base /\ \A n \in 1..N : c[n] = ReadOn(c[n - 1], l[n])
  <2>1. 0 \in 0..N /\ \A n \in 1..N : n \in 0..N /\ n # 0
    BY <1>1
  <2> QED BY <1>10, <2>1
<1>13. \A n \in 0..N : c[n] \in S
  <2> DEFINE V == {n \in 0..N : c[n] \in S}
  <2>1. 0 \in V
    BY <1>1, <1>12
  <2>2. ASSUME NEW n \in 1..N, n - 1 \in V PROVE n \in V
    <3>1. n \in 0..N
      BY <1>1
    <3> QED BY <1>3, <1>12, <2>2, <3>1
  <2>3. \A n \in 0..N : n \in V
    <3> HIDE DEF V
    <3> QED BY <1>1, <2>1, <2>2, UptoInduction
  <2> QED BY <2>3
<1>14. c \in [0..N -> S]
  BY <1>11, <1>13
<1>15. WordReads(c, l)
  BY <1>12, <1>14 DEF WordReads, N, S, base
<1> QED BY <1>2, <1>15 DEF N

LEMMA ReadingStep ==
    /\ Reading(<<>>) = [words |-> <<>>, open |-> <<>>]
    /\ \A s \in Seq(Letters) : Reading(s) \in ReadStates
    /\ \A s \in Seq(Letters), c \in Letters : Reading(Append(s, c)) = ReadOn(Reading(s), c)
<1>1. Reading(<<>>) = [words |-> <<>>, open |-> <<>>]
  <2> DEFINE none == <<>>
             start == [words |-> <<>>, open |-> <<>>]
  <2>1. none \in Seq(Letters) /\ Len(none) = 0
    BY EmptySeq
  <2> HIDE DEF none
  <2>2. PICK g : WordReads(g, none) /\ Reading(none) = g[Len(none)]
    BY <2>1, ReadingUnfolds
  <2>3. g[0] = start
    BY <2>2 DEF WordReads
  <2> HIDE DEF start
  <2>4. Reading(none) = start
    BY <2>1, <2>2, <2>3
  <2> QED BY <2>4 DEF none, start
<1>2. ASSUME NEW s \in Seq(Letters) PROVE Reading(s) \in ReadStates
  <2>1. PICK g : WordReads(g, s) /\ Reading(s) = g[Len(s)]
    BY ReadingUnfolds
  <2>2. Len(s) \in 0..Len(s)
    BY LenProperties
  <2> QED BY <2>1, <2>2 DEF WordReads
<1>3. ASSUME NEW s \in Seq(Letters), NEW c \in Letters
      PROVE  Reading(Append(s, c)) = ReadOn(Reading(s), c)
  <2> DEFINE N == Len(s)
             t == Append(s, c)
  <2>1. N \in Nat /\ t \in Seq(Letters) /\ Len(t) = N + 1 /\ t[N + 1] = c
        /\ \A n \in 1..N : t[n] = s[n]
    BY LenProperties, AppendProperties
  <2> HIDE DEF t
  <2>2. PICK g : WordReads(g, s) /\ Reading(s) = g[N]
    BY ReadingUnfolds
  <2>3. PICK h : WordReads(h, t) /\ Reading(t) = h[N + 1]
    BY <2>1, ReadingUnfolds
  <2>4. /\ h[0] = g[0]
        /\ \A n \in 1..N : g[n] = ReadOn(g[n - 1], s[n])
        /\ \A n \in 1..N + 1 : h[n] = ReadOn(h[n - 1], t[n])
    BY <2>1, <2>2, <2>3 DEF WordReads
  <2> DEFINE V == {n \in 0..N : g[n] = h[n]}
  <2> HIDE DEF N
  <2>5. 0 \in V
    BY <2>1, <2>4
  <2>6. ASSUME NEW n \in 1..N, n - 1 \in V PROVE n \in V
    <3>1. n \in 0..N /\ n \in 1..N + 1
      BY <2>1
    <3> QED BY <2>1, <2>4, <2>6, <3>1
  <2>7. \A n \in 0..N : n \in V
    <3> HIDE DEF V
    <3> QED BY <2>1, <2>5, <2>6, UptoInduction
  <2>8. N \in 0..N /\ N + 1 \in 1..N + 1 /\ (N + 1) - 1 = N
    BY <2>1
  <2>9. g[N] = h[N]
    BY <2>7, <2>8
  <2>10. h[N + 1] = ReadOn(h[N], c)
    BY <2>1, <2>4, <2>8
  <2> QED BY <2>2, <2>3, <2>9, <2>10 DEF t
<1> QED BY <1>1, <1>2, <1>3

LEMMA ReadingSame ==
    ASSUME NEW a \in Seq(Letters), NEW b \in Seq(Letters), Reading(a) = Reading(b),
           NEW c \in Seq(Letters)
    PROVE  Reading(a \o c) = Reading(b \o c)
<1> DEFINE V == {s \in Seq(Letters) : Reading(a \o s) = Reading(b \o s)}
<1>1. <<>> \in V
  <2> DEFINE none == <<>>
  <2>1. none \in Seq(Letters) /\ a \o none = a /\ b \o none = b
    BY EmptySeq, ConcatEmptySeq
  <2> QED BY <2>1
<1>2. ASSUME NEW s \in Seq(Letters), NEW x \in Letters, s \in V PROVE Append(s, x) \in V
  <2> DEFINE as == a \o s
             bs == b \o s
  <2>1. as \in Seq(Letters) /\ bs \in Seq(Letters) /\ Append(s, x) \in Seq(Letters)
    BY ConcatProperties, AppendProperties
  <2>2. a \o Append(s, x) = Append(as, x) /\ b \o Append(s, x) = Append(bs, x)
    BY AppendConcat
  <2>3. Reading(as) = Reading(bs)
    BY <1>2
  <2> HIDE DEF as, bs
  <2>4. Reading(Append(as, x)) = Reading(Append(bs, x))
    BY <2>1, <2>3, ReadingStep
  <2> QED BY <2>1, <2>2, <2>4
<1>3. c \in V
  <2> HIDE DEF V
  <2> QED BY <1>1, <1>2, ListInduction
<1> QED BY <1>3

LEMMA ReadingSpaces ==
    ASSUME NEW a \in Seq(Letters), NEW p \in Spaces
    PROVE  /\ Closed(Reading(a \o p)) = Closed(Reading(a))
           /\ Reading(a).open = <<>> => Reading(a \o p) = Reading(a)
<1> DEFINE S == {Space}
           ra == Reading(a)
           V == {s \in Seq(S) : /\ Closed(Reading(a \o s)) = Closed(ra)
                                /\ ra.open = <<>> => Reading(a \o s) = ra}
<1>1. <<>> \in V
  <2> DEFINE none == <<>>
  <2>1. none \in Seq(S) /\ a \o none = a
    BY EmptySeq, ConcatEmptySeq
  <2> QED BY <2>1
<1>2. ASSUME NEW s \in Seq(S), NEW x \in S, s \in V PROVE Append(s, x) \in V
  <2> DEFINE as == a \o s
             r == Reading(as)
  <2>1. x = Space /\ x \in Letters /\ s \in Seq(Letters)
    BY LetterFact, SpacesFact DEF Spaces
  <2>2. as \in Seq(Letters) /\ Append(s, x) \in Seq(S)
    BY <2>1, ConcatProperties, AppendProperties
  <2>3. a \o Append(s, x) = Append(as, x)
    BY <2>1, AppendConcat
  <2>4. Closed(r) = Closed(ra) /\ (ra.open = <<>> => r = ra)
    BY <1>2
  <2> HIDE DEF as
  <2>5. Reading(Append(as, x)) = [words |-> Closed(r), open |-> <<>>]
    BY <2>1, <2>2, ReadingStep DEF ReadOn
  <2>6. Closed([words |-> Closed(r), open |-> <<>>]) = Closed(r)
    BY DEF Closed
  <2>7. ra.open = <<>> => [words |-> Closed(r), open |-> <<>>] = ra
    <3> SUFFICES ASSUME ra.open = <<>> PROVE [words |-> Closed(r), open |-> <<>>] = ra
      OBVIOUS
    <3>1. ra \in ReadStates
      BY ReadingStep
    <3> HIDE DEF ra, r
    <3>2. ra = [words |-> ra.words, open |-> ra.open]
      BY <3>1 DEF ReadStates
    <3>3. Closed(r) = ra.words
      BY <2>4 DEF Closed
    <3> QED BY <3>2, <3>3
  <2> HIDE DEF r, ra
  <2> QED BY <2>2, <2>3, <2>4, <2>5, <2>6, <2>7 DEF ra
<1>3. p \in V
  <2>1. p \in Seq(S)
    BY DEF Spaces
  <2> HIDE DEF V, S
  <2> QED BY <1>1, <1>2, <2>1, ListInduction
<1> QED BY <1>3

LEMMA ReadingApart ==
    ASSUME NEW a \in Seq(Letters), NEW b \in Seq(Letters),
           Closed(Reading(a)) = Closed(Reading(b)),
           NEW c \in Seq(Letters), c # <<>>, c[1] = Space
    PROVE  Reading(a \o c) = Reading(b \o c)
<1> DEFINE one == <<Space>>
           rest == SubSeq(c, 2, Len(c))
           as == Append(a, Space)
           bs == Append(b, Space)
<1>1. Len(c) \in Nat /\ Len(c) # 0 /\ Space \in Letters
  BY LenProperties, EmptySeq, LetterFact
<1>2. 1 \in 1..Len(c) /\ Len(c) \in 1..Len(c) /\ 2 \in 1..Len(c) + 1 /\ Len(c) \in 2 - 1..Len(c)
  BY <1>1
<1>3. one \in Seq(Letters) /\ rest \in Seq(Letters)
  BY <1>1, <1>2, PartFact
<1>4. c = one \o rest
  <2>1. SubSeq(c, 1, Len(c)) = <<c[1]>> \o SubSeq(c, 1 + 1, Len(c))
    BY <1>2, SubSeqRecursiveFirst
  <2> QED BY <2>1, SubSeqFull
<1>5. a \o one = as /\ b \o one = bs /\ as \in Seq(Letters) /\ bs \in Seq(Letters)
  BY <1>1, AppendOne
<1>6. Reading(as) = Reading(bs)
  BY <1>1, ReadingStep DEF ReadOn
<1> HIDE DEF one, rest, as, bs
<1>7. (a \o one) \o rest = a \o (one \o rest) /\ (b \o one) \o rest = b \o (one \o rest)
  BY <1>3, LettersThree
<1>8. a \o c = as \o rest /\ b \o c = bs \o rest
  BY <1>4, <1>5, <1>7
<1>9. Reading(as \o rest) = Reading(bs \o rest)
  <2> HIDE DEF as, bs, rest
  <2>1. as \in Seq(Letters) /\ bs \in Seq(Letters) /\ rest \in Seq(Letters)
    BY <1>3, <1>5
  <2> QED BY <1>6, <2>1, ReadingSame
<1> QED BY <1>8, <1>9

LEMMA ReadingOpen ==
    ASSUME NEW a \in Seq(Letters), a # <<>> => a[Len(a)] = Space
    PROVE  Reading(a).open = <<>>
<1>1. CASE a = <<>>
  BY <1>1, ReadingStep
<1>2. CASE a # <<>>
  <2> DEFINE n == Len(a)
             s == SubSeq(a, 1, n - 1)
             c == a[n]
  <2>1. n \in Nat /\ n # 0
    BY <1>2, LenProperties, EmptySeq
  <2>2. n \in 1..n /\ SubSeq(a, 1, n) = a
    BY <2>1, Beginnings
  <2>3. s \in Seq(Letters) /\ c \in Letters /\ a = Append(s, c)
    BY <2>2, Beginnings
  <2>4. c = Space
    BY <1>2
  <2> HIDE DEF s, c
  <2>5. Reading(a) = ReadOn(Reading(s), c)
    BY <2>3, ReadingStep
  <2> QED BY <2>4, <2>5 DEF ReadOn
<1> QED BY <1>1, <1>2

\* A match and the stretch before it read as they did when the match is
\* written with another spelling, and with spaces around it.
LEMMA ReadingMatch ==
    ASSUME NEW a \in Seq(Letters), NEW b \in Seq(Letters),
           Closed(Reading(a)) = Closed(Reading(b)),
           NEW m \in Seq(Letters), m # <<>> => m[Len(m)] = Space,
           (a = <<>> /\ b = <<>>) \/ (m # <<>> /\ m[1] = Space),
           NEW key \in Seq(Letters), NEW p, NEW q, NEW s, Padded(s, p, key, q)
    PROVE  Closed(Reading((a \o m) \o s)) = Closed(Reading((b \o m) \o key))
<1> DEFINE am == a \o m
           bm == b \o m
           amp == am \o p
           ampk == amp \o key
           bmk == bm \o key
<1>1. /\ p \in Spaces /\ q \in Spaces /\ s = (p \o key) \o q
      /\ p \in Seq(Letters) /\ q \in Seq(Letters)
  BY SpacesFact DEF Padded
<1>2. /\ am \in Seq(Letters) /\ bm \in Seq(Letters) /\ amp \in Seq(Letters)
      /\ ampk \in Seq(Letters) /\ bmk \in Seq(Letters)
  BY <1>1, ConcatProperties
<1>3. Reading(am) = Reading(bm)
  <2>1. CASE m # <<>> /\ m[1] = Space
    BY <2>1, ReadingApart
  <2>2. CASE a = <<>> /\ b = <<>>
    BY <2>2
  <2> QED BY <2>1, <2>2
<1>4. Reading(am).open = <<>>
  <2>1. CASE m = <<>>
    <3>1. a = <<>>
      BY <2>1
    <3>2. am = m
      BY <3>1, ConcatEmptySeq
    <3> QED BY <1>2, <2>1, <3>2, ReadingOpen
  <2>2. CASE m # <<>>
    <3>1. Len(m) \in 1..Len(m) /\ Len(m) \in Nat
      BY <2>2, LenProperties, EmptySeq
    <3>2. Len(am) = Len(a) + Len(m) /\ am[Len(a) + Len(m)] = m[Len(m)]
      BY <3>1, ConcatAt
    <3> HIDE DEF am
    <3> QED BY <1>2, <2>2, <3>2, ReadingOpen
  <2> QED BY <2>1, <2>2
<1> HIDE DEF am, bm
<1>5. Reading(amp) = Reading(bm)
  BY <1>1, <1>2, <1>3, <1>4, ReadingSpaces
<1> HIDE DEF amp
<1>6. Reading(ampk) = Reading(bmk)
  BY <1>2, <1>5, ReadingSame
<1> HIDE DEF ampk
<1>7. Closed(Reading(ampk \o q)) = Closed(Reading(ampk))
  BY <1>1, <1>2, ReadingSpaces
<1>8. ampk \o q = am \o s
  <2>1. am \in Seq(Letters) /\ p \in Seq(Letters) /\ q \in Seq(Letters)
    BY <1>1, <1>2
  <2>2. Regrouped(am, p, key, q)
    BY <2>1, LettersFour
  <2> QED BY <1>1, <2>2 DEF Regrouped, amp, ampk
<1> QED BY <1>6, <1>7, <1>8 DEF am, bm

\* Where the text behind the first k matches begins.
CopyFrom(at, n, k) == IF k = 0 THEN 1 ELSE at[k] + n

Seated(at, n, N) ==
    /\ at \in Seq(Nat) /\ n \in Nat /\ n >= 1 /\ N \in Nat
    /\ \A k \in 1..Len(at) : at[k] \in Nat /\ at[k] >= CopyFrom(at, n, k - 1) /\ at[k] + n - 1 <= N
    /\ \A k \in 0..Len(at) : CopyFrom(at, n, k) \in Nat /\ CopyFrom(at, n, k) >= 1
                             /\ CopyFrom(at, n, k) <= N + 1

LEMMA ApartPlaced ==
    ASSUME NEW l \in Seq(Letters), NEW key \in Seq(Letters), key # <<>>, NEW at, Apart(l, key, at)
    PROVE  Seated(at, Len(key), Len(l))
<1> DEFINE N == Len(l)
           n == Len(key)
           K == Len(at)
<1>1. N \in Nat /\ n \in Nat /\ n >= 1 /\ at \in Seq(Nat) /\ K \in Nat
  BY LenProperties, EmptySeq DEF Apart
<1>2. \A k \in 1..K : at[k] \in Nat /\ at[k] >= 1 /\ at[k] + n - 1 <= N
  BY DEF Apart, Bounded, Written
<1>3. \A k \in 2..K : at[k] >= at[k - 1] + n
  BY DEF Apart
<1> HIDE DEF N, n, K
<1>4. ASSUME NEW k \in 1..K PROVE at[k] >= CopyFrom(at, n, k - 1)
  <2>1. k = 1 \/ (k - 1 # 0 /\ k \in 2..K)
    BY <1>1
  <2> QED BY <1>2, <1>3, <2>1 DEF CopyFrom
<1>5. ASSUME NEW k \in 0..K
      PROVE  CopyFrom(at, n, k) \in Nat /\ CopyFrom(at, n, k) >= 1 /\ CopyFrom(at, n, k) <= N + 1
  <2>1. CASE k = 0
    BY <1>1, <2>1 DEF CopyFrom
  <2>2. CASE k # 0
    <3>1. k \in 1..K
      BY <1>1, <2>2
    <3>2. CopyFrom(at, n, k) = at[k] + n /\ at[k] \in Nat /\ at[k] + n - 1 <= N
      BY <1>2, <2>2, <3>1 DEF CopyFrom
    <3> QED BY <1>1, <3>2
  <2> QED BY <2>1, <2>2
<1> QED BY <1>1, <1>2, <1>4, <1>5 DEF Seated, N, n, K

\* The text as the rewrite puts it together, match by match.
Builds(g, t, at, n, name) ==
    /\ g \in [0..Len(at) -> Seq(Letters)] /\ g[0] = <<>>
    /\ \A k \in 1..Len(at) :
         g[k] = g[k - 1] \o (SubSeq(t, CopyFrom(at, n, k - 1), at[k] - 1) \o name)

LEMMA RewriteUnfolds ==
    ASSUME NEW t \in Seq(Letters), NEW name \in Seq(Letters), NEW at, NEW n,
           Seated(at, n, Len(t))
    PROVE  \E g : /\ Builds(g, t, at, n, name)
                  /\ Rewrite(t, at, n, name)
                       = g[Len(at)] \o SubSeq(t, CopyFrom(at, n, Len(at)), Len(t))
<1> DEFINE K == Len(at)
           Piece(k) == SubSeq(t, CopyFrom(at, n, k - 1), at[k] - 1) \o name
           e == [k \in DOMAIN at |->
                   SubSeq(t, IF k = 1 THEN 1 ELSE at[k - 1] + n, at[k] - 1) \o name]
<1>1. K \in Nat /\ DOMAIN at = 1..K /\ (at = <<>> <=> K = 0)
  BY LenProperties, EmptySeq DEF Seated
<1>2. ASSUME NEW k \in 1..K PROVE e[k] = Piece(k) /\ Piece(k) \in Seq(Letters)
  <2> DEFINE from == CopyFrom(at, n, k - 1)
             u == SubSeq(t, from, at[k] - 1)
  <2>1. (IF k = 1 THEN 1 ELSE at[k - 1] + n) = from
    BY <1>1 DEF CopyFrom
  <2>2. e[k] = Piece(k)
    BY <1>1, <2>1
  <2>3. k \in 1..Len(at) /\ k - 1 \in 0..Len(at)
    BY <1>1
  <2>4. /\ from \in Nat /\ from >= 1 /\ from <= Len(t) + 1
        /\ at[k] \in Nat /\ at[k] >= from /\ at[k] + n - 1 <= Len(t)
        /\ n \in Nat /\ n >= 1 /\ Len(t) \in Nat
    BY <2>3 DEF Seated
  <2> HIDE DEF from
  <2>5. from \in 1..Len(t) + 1 /\ at[k] - 1 \in from - 1..Len(t)
    BY <2>4
  <2>6. u \in Seq(Letters)
    BY <2>5, PartFact
  <2> HIDE DEF u
  <2>7. u \o name \in Seq(Letters)
    BY <2>6, ConcatProperties
  <2> QED BY <2>2, <2>7 DEF u, from
<1>3. e \in Seq(Seq(Letters)) /\ Len(e) = K
  <2>1. e = [k \in 1..K |-> e[k]]
    BY <1>1
  <2> HIDE DEF e, Piece
  <2>2. \A k \in 1..K : e[k] \in Seq(Letters)
    BY <1>2
  <2> QED BY <1>1, <2>1, <2>2
<1>4. Rewrite(t, at, n, name) = FlattenSeq(e) \o SubSeq(t, CopyFrom(at, n, K), Len(t))
  <2>1. (IF at = <<>> THEN 1 ELSE at[Len(at)] + n) = CopyFrom(at, n, K)
    BY <1>1 DEF CopyFrom
  <2> QED BY <2>1 DEF Rewrite
<1> HIDE DEF e
<1>5. PICK g : Flattens(g, e, Letters) /\ FlattenSeq(e) = g[Len(e)]
  BY <1>3, FlattenUnfolds
<1>6. Builds(g, t, at, n, name)
  BY <1>2, <1>3, <1>5 DEF Flattens, Builds
<1> QED BY <1>3, <1>4, <1>5, <1>6

\* The stretch of the text that Builds copies before the match k.
Stretch(l, at, n, k) ==
    LET from == CopyFrom(at, n, k - 1)
    IN  /\ from \in 1..Len(l) + 1 /\ from - 1 \in 0..Len(l)
        /\ at[k] \in 1..Len(l) /\ at[k] - 1 \in from - 1..Len(l)
        /\ SubSeq(l, from, at[k] - 1) \in Seq(Letters)
        /\ Len(SubSeq(l, from, at[k] - 1)) = at[k] - from
        /\ \A i \in 1..at[k] - from : SubSeq(l, from, at[k] - 1)[i] = l[from + i - 1]
        /\ SubSeq(l, 1, from - 1) \in Seq(Letters)
        /\ (SubSeq(l, 1, from - 1) \o SubSeq(l, from, at[k] - 1))
             \o SubSeq(l, at[k], at[k] + n - 1) = SubSeq(l, 1, CopyFrom(at, n, k) - 1)

LEMMA StretchFact ==
    ASSUME NEW l \in Seq(Letters), NEW at, NEW n, Seated(at, n, Len(l)), NEW k \in 1..Len(at)
    PROVE  Stretch(l, at, n, k)
<1> DEFINE N == Len(l)
           from == CopyFrom(at, n, k - 1)
           x == at[k]
           m == SubSeq(l, from, x - 1)
<1>1. k \in Nat /\ k # 0 /\ k - 1 \in 0..Len(at)
  BY LenProperties DEF Seated
<1>2. /\ from \in Nat /\ from >= 1 /\ from <= N + 1 /\ x \in Nat /\ x >= from /\ x + n - 1 <= N
      /\ n \in Nat /\ n >= 1 /\ N \in Nat
  BY <1>1 DEF Seated
<1>3. CopyFrom(at, n, k) = x + n
  BY <1>1 DEF CopyFrom
<1> HIDE DEF from, x, N
<1>4. /\ from \in 1..N + 1 /\ from - 1 \in 0..N /\ x \in 1..N /\ x - 1 \in from - 1..N
      /\ x - 1 \in 1 - 1..N /\ 1 \in 1..N + 1 /\ from - 1 \in 1 - 1..N /\ x + n - 1 \in x - 1..N
      /\ (from - 1) + 1 = from /\ (x - 1) + 1 = x /\ x - 1 - from + 1 = x - from
      /\ (x + n) - 1 = x + n - 1
  BY <1>2
<1>5. /\ m \in Seq(Letters) /\ Len(m) = x - 1 - from + 1
      /\ \A i \in 1..x - 1 - from + 1 : m[i] = l[from + i - 1]
  BY <1>4, PartFact DEF N
<1>6. SubSeq(l, 1, from - 1) \in Seq(Letters)
  BY <1>4, PartFact DEF N
<1>7. SubSeq(l, 1, from - 1) \o SubSeq(l, (from - 1) + 1, x - 1) = SubSeq(l, 1, x - 1)
  BY <1>4, ConcatAdjacentSubSeq DEF N
<1>8. SubSeq(l, 1, x - 1) \o SubSeq(l, (x - 1) + 1, x + n - 1) = SubSeq(l, 1, x + n - 1)
  BY <1>4, ConcatAdjacentSubSeq DEF N
<1> QED BY <1>3, <1>4, <1>5, <1>6, <1>7, <1>8 DEF from, x, N, Stretch

\* A rewrite changes the spelling of the words, and no word.
LEMMA RewriteWords ==
    ASSUME NEW t, Even(t), NEW name \in Seq(Letters), NEW at,
           normalize_entity_key(name) # <<>>,
           Apart(LowerText(t), normalize_entity_key(name), at)
    PROVE  LET u == Rewrite(t, at, Len(normalize_entity_key(name)), name)
           IN  u \in Seq(Letters) /\ WordsOf(u) = WordsOf(t)
<1> DEFINE key == normalize_entity_key(name)
           n == Len(key)
           l == LowerText(t)
           N == Len(l)
           K == Len(at)
           ln == LowerText(name)
           u == Rewrite(t, at, n, name)
           Cut(k) == CopyFrom(at, n, k)
           Head0(k) == SubSeq(l, 1, Cut(k) - 1)
<1>1. /\ t \in Seq(Letters) /\ l \in Seq(Letters) /\ Len(t) = N /\ N \in Nat
      /\ key # <<>> /\ Apart(l, key, at)
  BY EvenText, LenProperties DEF Even
<1>2. key \in Seq(Letters) /\ Edged(key) /\ \E p, q : Padded(ln, p, key, q)
  BY EntityKey
<1>3. PICK p, q : Padded(ln, p, key, q)
  BY <1>2
<1> HIDE DEF key, l, ln
<1>4. Seated(at, n, N)
  BY <1>1, <1>2, ApartPlaced
<1>5. n \in Nat /\ n >= 1 /\ K \in Nat
  BY <1>4, LenProperties DEF Seated
<1>6. PICK g : /\ Builds(g, t, at, n, name)
               /\ u = g[K] \o SubSeq(t, Cut(K), Len(t))
  BY <1>1, <1>4, RewriteUnfolds
<1>7. /\ g[0] = <<>> /\ \A k \in 0..K : g[k] \in Seq(Letters)
      /\ \A k \in 1..K : g[k] = g[k - 1] \o (SubSeq(t, Cut(k - 1), at[k] - 1) \o name)
  BY <1>6 DEF Builds
<1>8. ASSUME NEW k \in 1..K
      PROVE  /\ Cut(k) = at[k] + n
             /\ at[k] = 1 \/ l[at[k] - 1] = Space
             /\ Cut(k) > N \/ l[Cut(k)] = Space
             /\ SubSeq(l, at[k], at[k] + n - 1) = key
             /\ l[at[k]] # Space
  <2> DEFINE x == at[k]
             end == x + n - 1
  <2>1. Bounded(l, key, x) /\ k # 0 /\ k \in Nat
    BY <1>1, <1>5 DEF Apart
  <2>2. Cut(k) = x + n
    BY <2>1 DEF CopyFrom
  <2>3. x \in Nat /\ x >= 1 /\ end <= N /\ SubSeq(l, x, end) = key
    BY <2>1 DEF Bounded, Written
  <2> HIDE DEF x
  <2>4. x = 1 \/ l[x - 1] = Space
    BY <2>1 DEF Bounded, Boundary, is_word_char
  <2>5. end = N \/ l[end + 1] = Space
    BY <2>1 DEF Bounded, Boundary, is_word_char
  <2>6. end + 1 = x + n /\ (end = N => x + n > N)
    BY <1>1, <1>5, <2>3
  <2>7. key[1] # Space
    BY <1>1, <1>2 DEF Edged
  <2>8. x \in 1..N + 1 /\ end \in x - 1..N /\ 1 \in 1..end - x + 1 /\ x + 1 - 1 = x
    BY <1>1, <1>5, <2>3
  <2>9. key[1] = l[x]
    <3>1. \A i \in 1..end - x + 1 : SubSeq(l, x, end)[i] = l[x + i - 1]
      BY <1>1, <2>8, PartFact
    <3>2. SubSeq(l, x, end)[1] = l[x + 1 - 1]
      BY <2>8, <3>1
    <3> QED BY <2>3, <2>8, <3>2
  <2> QED BY <2>2, <2>3, <2>4, <2>5, <2>6, <2>7, <2>9 DEF x
<1>9. ASSUME NEW k \in 1..K,
             Closed(Reading(LowerText(g[k - 1]))) = Closed(Reading(Head0(k - 1)))
      PROVE  Closed(Reading(LowerText(g[k]))) = Closed(Reading(Head0(k)))
  <2> DEFINE from == Cut(k - 1)
             x == at[k]
             m == SubSeq(l, from, x - 1)
             tm == SubSeq(t, from, x - 1)
             a == LowerText(g[k - 1])
             b == Head0(k - 1)
             mn == tm \o name
  <2>1. k - 1 \in 0..K /\ k \in 0..K
    BY <1>5
  <2>2. /\ from \in 1..N + 1 /\ from - 1 \in 0..N /\ x \in 1..N /\ x - 1 \in from - 1..N
        /\ m \in Seq(Letters) /\ Len(m) = x - from
        /\ \A i \in 1..x - from : m[i] = l[from + i - 1]
        /\ b \in Seq(Letters)
        /\ (b \o m) \o SubSeq(l, x, x + n - 1) = Head0(k)
    <3>1. Stretch(l, at, n, k)
      BY <1>1, <1>4, StretchFact
    <3> QED BY <3>1 DEF Stretch
  <2>3. Head0(k) = (b \o m) \o key
    BY <1>8, <2>2
  <2>4. Even(tm) /\ LowerText(tm) = m
    BY <1>1, <2>2, EvenPart DEF l
  <2>5. a \in Seq(Letters) /\ ln \in Seq(Letters) /\ g[k - 1] \in Seq(Letters) /\ tm \in Seq(Letters)
    BY <1>7, <2>1, <2>4, LowerStep DEF Even, ln
  <2>6. LowerText(g[k]) = (a \o m) \o ln
    <3>1. g[k] = g[k - 1] \o mn
      BY <1>7
    <3>2. mn \in Seq(Letters)
      BY <2>5, ConcatProperties
    <3>3. LowerText(mn) = m \o ln
      BY <2>4, <2>5, LowerConcat DEF ln
    <3> HIDE DEF mn
    <3>4. LowerText(g[k - 1] \o mn) = a \o LowerText(mn)
      BY <2>5, <3>2, LowerConcat
    <3> HIDE DEF a, m, b
    <3>5. a \in Seq(Letters) /\ m \in Seq(Letters) /\ ln \in Seq(Letters)
      BY <2>2, <2>5
    <3>6. (a \o m) \o ln = a \o (m \o ln)
      BY <3>5, LettersThree, Zenon
    <3> QED BY <3>1, <3>3, <3>4, <3>6
  <2>7. m # <<>> => m[Len(m)] = Space
    <3> SUFFICES ASSUME m # <<>> PROVE m[Len(m)] = Space
      OBVIOUS
    <3>1. Len(m) # 0
      BY <2>2, EmptySeq
    <3> HIDE DEF from, x, m
    <3>2. x - from \in 1..x - from /\ from + (x - from) - 1 = x - 1 /\ x # 1
      BY <1>1, <2>2, <3>1
    <3>3. m[x - from] = l[x - 1]
      BY <2>2, <3>2
    <3>4. l[x - 1] = Space
      BY <1>8, <3>2 DEF x
    <3> QED BY <2>2, <3>3, <3>4
  <2>8. (a = <<>> /\ b = <<>>) \/ (m # <<>> /\ m[1] = Space)
    <3>1. CASE k = 1
      <4>1. from = 1 /\ k - 1 = 0
        BY <3>1 DEF CopyFrom
      <4>2. b = <<>>
        BY <4>1, SubSeqEmpty
      <4>3. a = <<>>
        BY <1>7, <4>1, LowerStep
      <4> QED BY <4>2, <4>3
    <3>2. CASE k # 1
      <4>1. k - 1 \in 1..K
        BY <1>5, <3>2
      <4>2. from > N \/ l[from] = Space
        BY <1>8, <4>1
      <4>3. l[x] # Space
        BY <1>8
      <4> HIDE DEF from, x, m
      <4>4. l[from] = Space /\ x # from
        BY <1>1, <2>2, <4>2, <4>3
      <4>5. 1 \in 1..x - from /\ from + 1 - 1 = from
        BY <1>1, <2>2, <4>4
      <4>6. m[1] = Space
        BY <2>2, <4>4, <4>5
      <4>7. Len(m) # 0
        BY <1>1, <2>2, <4>5
      <4>8. m # <<>>
        BY <4>7
      <4> QED BY <4>6, <4>8
    <3> QED BY <3>1, <3>2
  <2> HIDE DEF a, b, m
  <2>9. Closed(Reading(a)) = Closed(Reading(b))
    BY <1>9 DEF a, b
  <2>10. Closed(Reading((a \o m) \o ln)) = Closed(Reading((b \o m) \o key))
    <3>1. /\ a \in Seq(Letters) /\ b \in Seq(Letters) /\ m \in Seq(Letters)
          /\ key \in Seq(Letters)
      BY <1>2, <2>2, <2>5
    <3> HIDE DEF K
    <3> QED BY <1>3, <2>7, <2>8, <2>9, <3>1, ReadingMatch
  <2> QED BY <2>3, <2>6, <2>10
<1>10. Closed(Reading(LowerText(g[0]))) = Closed(Reading(Head0(0)))
  <2>1. Cut(0) = 1
    BY DEF CopyFrom
  <2>2. Head0(0) = <<>>
    BY <2>1, SubSeqEmpty
  <2> QED BY <1>7, <2>2, LowerStep
<1>11. Closed(Reading(LowerText(g[K]))) = Closed(Reading(Head0(K)))
  <2> DEFINE V == {k \in 0..K : Closed(Reading(LowerText(g[k]))) = Closed(Reading(Head0(k)))}
  <2> HIDE DEF Head0, K
  <2>1. 0 \in V
    BY <1>5, <1>10
  <2>2. \A k \in 1..K : k - 1 \in V => k \in V
    <3>1. \A k \in 1..K : k \in 0..K
      BY <1>5
    <3> QED BY <1>9, <3>1
  <2>3. \A k \in 0..K : k \in V
    <3> HIDE DEF V
    <3> QED BY <1>5, <2>1, <2>2, UptoInduction
  <2>4. K \in 0..K
    BY <1>5
  <2> QED BY <2>3, <2>4
<1>12. u \in Seq(Letters) /\ Closed(Reading(LowerText(u))) = Closed(Reading(l))
  <2> DEFINE from == Cut(K)
             rest == SubSeq(t, from, Len(t))
             lr == SubSeq(l, from, N)
             a == LowerText(g[K])
             b == Head0(K)
  <2>1. K \in 0..K
    BY <1>5
  <2>2. from \in Nat /\ from >= 1 /\ from <= N + 1
    BY <1>4, <2>1 DEF Seated
  <2>3. from \in 1..Len(t) + 1 /\ Len(t) \in from - 1..Len(t) /\ from \in 1..N + 1 /\ N \in from - 1..N
        /\ 1 \in 1..N + 1 /\ from - 1 \in 1 - 1..N /\ N \in from - 1..N /\ (from - 1) + 1 = from
    BY <1>1, <2>2
  <2>4. Even(rest) /\ LowerText(rest) = lr
    BY <1>1, <2>3, EvenPart DEF l
  <2>5. /\ lr \in Seq(Letters) /\ Len(lr) = N - from + 1
        /\ \A i \in 1..N - from + 1 : lr[i] = l[from + i - 1]
    BY <1>1, <2>3, PartFact
  <2>6. b \in Seq(Letters)
    BY <1>1, <2>3, PartFact
  <2>7. b \o lr = l
    <3>1. SubSeq(l, 1, from - 1) \o SubSeq(l, (from - 1) + 1, N) = SubSeq(l, 1, N)
      BY <1>1, <2>3, ConcatAdjacentSubSeq
    <3> QED BY <1>1, <2>3, <3>1, SubSeqFull
  <2>8. g[K] \in Seq(Letters) /\ rest \in Seq(Letters) /\ u = g[K] \o rest
    BY <1>6, <1>7, <2>1, <2>4 DEF Even
  <2>9. u \in Seq(Letters) /\ LowerText(u) = a \o lr /\ a \in Seq(Letters)
    <3> HIDE DEF rest, u
    <3>1. u \in Seq(Letters) /\ LowerText(u) = a \o LowerText(rest)
      BY <2>8, ConcatProperties, LowerConcat
    <3> QED BY <2>4, <2>8, <3>1, LowerStep
  <2>10. Closed(Reading(a \o lr)) = Closed(Reading(b \o lr))
    <3>1. Closed(Reading(a)) = Closed(Reading(b))
      BY <1>11
    <3>2. CASE lr = <<>>
      <4> HIDE DEF a, b, lr
      <4>1. a \o lr = a /\ b \o lr = b
        BY <2>6, <2>9, <3>2, ConcatEmptySeq
      <4> QED BY <3>1, <4>1
    <3>3. CASE lr # <<>>
      <4> HIDE DEF from
      <4>1. Len(lr) # 0
        BY <2>5, <3>3, EmptySeq
      <4>2. 1 \in 1..N - from + 1 /\ from + 1 - 1 = from /\ from <= N
        BY <1>1, <2>2, <2>5, <4>1
      <4>3. lr[1] = l[from]
        BY <2>5, <4>2
      <4>4. CASE K = 0
        <5>1. from = 1
          BY <4>4 DEF CopyFrom, from
        <5>2. a = <<>> /\ b = <<>>
          BY <1>7, <4>4, <5>1, LowerStep, SubSeqEmpty DEF from
        <5> QED BY <5>2
      <4>5. CASE K # 0
        <5>1. K \in 1..K
          BY <1>5, <4>5
        <5>2. l[from] = Space
          BY <1>1, <1>8, <2>2, <4>2, <5>1 DEF from
        <5> HIDE DEF a, b, lr
        <5>3. Reading(a \o lr) = Reading(b \o lr)
          BY <2>5, <2>6, <2>9, <3>1, <3>3, <4>3, <5>2, ReadingApart
        <5> QED BY <5>3
      <4> QED BY <4>4, <4>5
    <3> QED BY <3>2, <3>3
  <2> HIDE DEF a, b, lr, u
  <2> QED BY <2>7, <2>9, <2>10
<1> QED BY <1>12 DEF WordsOf, key, l

-----------------------------------------------------------------------------
\* The names one after the other.
RewriteStates == {r \in [text : Seq(Letters), rewrites : Seq(Seq(Letters)), stop : BOOLEAN] :
                     r.stop <=> ~Even(r.text)}

\* Every match of name in text already reads as name.
ReadsAs(text, name) ==
    LET key == normalize_entity_key(name)
        at == Matches(LowerText(text), key)
    IN  \A k \in 1..Len(at) : SubSeq(text, at[k], at[k] + Len(key) - 1) = name

Rewritten(text, name) ==
    LET key == normalize_entity_key(name)
    IN  Rewrite(text, Matches(LowerText(text), key), Len(key), name)

LEMMA RewriteNameCases ==
    ASSUME NEW r \in RewriteStates, NEW name \in Seq(Letters)
    PROVE  RewriteName(r, name) =
             IF r.stop \/ ReadsAs(r.text, name) THEN r
             ELSE [text |-> Rewritten(r.text, name), rewrites |-> Append(r.rewrites, name),
                   stop |-> ~is_lowercase_byte_aligned(Rewritten(r.text, name))]
<1> DEFINE key == normalize_entity_key(name)
           l == LowerText(r.text)
           at == Matches(l, key)
           new == Rewritten(r.text, name)
           updated == IF ReadsAs(r.text, name) THEN <<>> ELSE <<new>>
<1>1. l \in Seq(Letters) /\ key \in Seq(Letters)
  BY LowerStep, EntityKey DEF RewriteStates
<1>2. DOMAIN at = 1..Len(at)
  <2> HIDE DEF l, key
  <2>1. at \in Seq(Nat)
    BY <1>1, MatchesFact DEF Apart
  <2> QED BY <2>1, LenProperties
<1>3. replace_word_case_insensitive_with_lc(r.text, l, key, name) = updated
  BY <1>2 DEF replace_word_case_insensitive_with_lc, ReadsAs, Rewritten
<1>4. RewriteName(r, name) =
        IF r.stop \/ updated = <<>> THEN r
        ELSE [text |-> updated[1], rewrites |-> Append(r.rewrites, name),
              stop |-> ~is_lowercase_byte_aligned(updated[1])]
  BY <1>3 DEF RewriteName
<1> HIDE DEF new
<1>5. <<new>> # <<>> /\ <<new>>[1] = new
  OBVIOUS
<1>6. CASE ReadsAs(r.text, name)
  BY <1>4, <1>6
<1>7. CASE ~ReadsAs(r.text, name)
  <2>1. updated = <<new>>
    BY <1>7
  <2> HIDE DEF updated
  <2>2. updated # <<>> /\ updated[1] = new
    BY <1>5, <2>1
  <2> QED BY <1>4, <1>7, <2>2 DEF new
<1> QED BY <1>6, <1>7

LEMMA RewriteNameFact ==
    ASSUME NEW r \in RewriteStates, NEW name \in Seq(Letters)
    PROVE  /\ RewriteName(r, name) \in RewriteStates
           /\ WordsOf(RewriteName(r, name).text) = WordsOf(r.text)
<1> DEFINE key == normalize_entity_key(name)
           l == LowerText(r.text)
           at == Matches(l, key)
           u == Rewritten(r.text, name)
<1>1. CASE r.stop \/ ReadsAs(r.text, name)
  BY <1>1, RewriteNameCases
<1>2. CASE ~r.stop /\ ~ReadsAs(r.text, name)
  <2>1. RewriteName(r, name) = [text |-> u, rewrites |-> Append(r.rewrites, name),
                                stop |-> ~is_lowercase_byte_aligned(u)]
    BY <1>2, RewriteNameCases
  <2>2. Even(r.text) /\ r.rewrites \in Seq(Seq(Letters))
    BY <1>2 DEF RewriteStates
  <2>3. l \in Seq(Letters) /\ key \in Seq(Letters)
    BY <2>2, LowerStep, EntityKey DEF Even
  <2>4. Apart(l, key, at) /\ (key = <<>> => at = <<>>)
    <3> HIDE DEF l, key
    <3> QED BY <2>3, MatchesFact
  <2>5. key # <<>>
    <3> SUFFICES ASSUME key = <<>> PROVE FALSE
      OBVIOUS
    <3>1. at = <<>>
      BY <2>4
    <3>2. Len(at) = 0
      BY <3>1
    <3>3. ReadsAs(r.text, name)
      BY <3>2 DEF ReadsAs
    <3> QED BY <1>2, <3>3
  <2>6. u \in Seq(Letters) /\ WordsOf(u) = WordsOf(r.text)
    BY <2>2, <2>4, <2>5, RewriteWords DEF Rewritten
  <2>7. Append(r.rewrites, name) \in Seq(Seq(Letters))
    BY <2>2, AppendProperties
  <2>8. is_lowercase_byte_aligned(u) \in BOOLEAN
    BY DEF is_lowercase_byte_aligned
  <2> DEFINE v == RewriteName(r, name)
  <2> HIDE DEF u
  <2>9. v \in [text : Seq(Letters), rewrites : Seq(Seq(Letters)), stop : BOOLEAN]
    BY <2>1, <2>6, <2>7, <2>8
  <2>10. v.text = u /\ (v.stop <=> ~Even(u))
    <3>1. v.text = u /\ v.stop = ~is_lowercase_byte_aligned(u)
      BY <2>1
    <3>2. Even(u) <=> is_lowercase_byte_aligned(u)
      BY <2>6 DEF Even
    <3> HIDE DEF v
    <3> QED BY <3>1, <3>2, Zenon
  <2> HIDE DEF v
  <2>11. v \in RewriteStates
    BY <2>9, <2>10 DEF RewriteStates
  <2> QED BY <2>6, <2>10, <2>11 DEF v
<1> QED BY <1>1, <1>2

Rewrites(g, personal, text) ==
    /\ g \in [0..Len(personal) -> RewriteStates]
    /\ g[0] = [text |-> text, rewrites |-> <<>>, stop |-> FALSE]
    /\ \A n \in 1..Len(personal) : g[n] = RewriteName(g[n - 1], personal[n])

LEMMA RewritePersonalUnfolds ==
    ASSUME NEW personal \in Seq(Seq(Letters)), NEW text, Even(text)
    PROVE  \E g : Rewrites(g, personal, text) /\ RewritePersonal(personal, text) = g[Len(personal)]
<1> DEFINE N == Len(personal)
           S == RewriteStates
           base == [text |-> text, rewrites |-> <<>>, stop |-> FALSE]
           F == [p \in S \X (1..N) |-> RewriteName(p[1], personal[p[2]])]
           Good(g) == g = [n \in 0..N |-> IF n = 0 THEN [text |-> text, rewrites |-> <<>>, stop |-> FALSE] ELSE RewriteName(g[n - 1], personal[n])]
           c == CHOOSE g : Good(g)
<1>1. N \in Nat /\ base \in S
  BY LenProperties, EmptySeq DEF RewriteStates, Even
<1>2. RewritePersonal(personal, text) = c[Len(personal)]
  BY Zenon DEF RewritePersonal
<1> HIDE DEF N
<1>3. \A x \in S, n \in 1..N : RewriteName(x, personal[n]) \in S
  BY RewriteNameFact, ElementOfSeq DEF N
<1> HIDE DEF S, base
<1>4. F \in [S \X (1..N) -> S]
  BY <1>3
<1>5. PICK g \in [0..N -> S] : g[0] = base /\ \A n \in 1..N : g[n] = F[<<g[n - 1], n>>]
  <2> HIDE DEF F
  <2>1. \E g \in [0..N -> S] : Follows(g, base, F, N)
    BY <1>1, <1>4, Recursion
  <2> QED BY <2>1 DEF Follows
<1>6. \A n \in 0..N : n = 0 \/ n \in 1..N
  BY <1>1
<1>7. \A n \in 1..N : F[<<g[n - 1], n>>] = RewriteName(g[n - 1], personal[n])
  <2>1. \A n \in 1..N : <<g[n - 1], n>> \in S \X (1..N)
    BY <1>1
  <2> QED BY <2>1
<1>8. Good(g)
  <2> HIDE DEF F
  <2>1. g = [n \in 0..N |-> g[n]]
    OBVIOUS
  <2>2. \A n \in 0..N : g[n] = IF n = 0 THEN base ELSE RewriteName(g[n - 1], personal[n])
    BY <1>5, <1>6, <1>7
  <2> QED BY <2>1, <2>2 DEF base
<1>9. Good(c)
  <2> HIDE DEF Good
  <2> QED BY <1>8
<1>10. \A n \in 0..N : c[n] = IF n = 0 THEN base ELSE RewriteName(c[n - 1], personal[n])
  <2> HIDE DEF c
  <2> QED BY <1>9 DEF base
<1>11. c = [n \in 0..N |-> c[n]]
  <2> HIDE DEF c
  <2> QED BY <1>9
<1> HIDE DEF c, Good
<1>12. c[0] = base /\ \A n \in 1..N : c[n] = RewriteName(c[n - 1], personal[n])
  <2>1. 0 \in 0..N /\ \A n \in 1..N : n \in 0..N /\ n # 0
    BY <1>1
  <2> QED BY <1>10, <2>1
<1>13. \A n \in 0..N : c[n] \in S
  <2> DEFINE V == {n \in 0..N : c[n] \in S}
  <2>1. 0 \in V
    BY <1>1, <1>12
  <2>2. ASSUME NEW n \in 1..N, n - 1 \in V PROVE n \in V
    <3>1. n \in 0..N
      BY <1>1
    <3> QED BY <1>3, <1>12, <2>2, <3>1
  <2>3. \A n \in 0..N : n \in V
    <3> HIDE DEF V
    <3> QED BY <1>1, <2>1, <2>2, UptoInduction
  <2> QED BY <2>3
<1>14. c \in [0..N -> S]
  BY <1>11, <1>13
<1>15. Rewrites(c, personal, text)
  BY <1>12, <1>14 DEF Rewrites, N, S, base
<1> QED BY <1>2, <1>15 DEF N

LEMMA RewritePersonalWords ==
    ASSUME NEW personal \in Seq(Seq(Letters)), NEW text, Even(text)
    PROVE  WordsOf(RewritePersonal(personal, text).text) = WordsOf(text)
<1> DEFINE N == Len(personal)
<1>1. PICK g : Rewrites(g, personal, text) /\ RewritePersonal(personal, text) = g[N]
  BY RewritePersonalUnfolds
<1>2. N \in Nat /\ \A n \in 1..N : personal[n] \in Seq(Letters)
  BY LenProperties, ElementOfSeq
<1> DEFINE V == {n \in 0..N : WordsOf(g[n].text) = WordsOf(text)}
<1>3. 0 \in V
  BY <1>1, <1>2 DEF Rewrites
<1>4. ASSUME NEW n \in 1..N, n - 1 \in V PROVE n \in V
  <2>1. n \in 0..N /\ n - 1 \in 0..N
    BY <1>2
  <2>2. g[n - 1] \in RewriteStates /\ g[n] = RewriteName(g[n - 1], personal[n])
    BY <1>1, <2>1 DEF Rewrites
  <2>3. WordsOf(g[n].text) = WordsOf(g[n - 1].text)
    BY <1>2, <2>2, RewriteNameFact
  <2> QED BY <1>4, <2>1, <2>3
<1>5. \A n \in 0..N : n \in V
  <2> HIDE DEF V, N
  <2> QED BY <1>2, <1>3, <1>4, UptoInduction
<1>6. N \in V
  BY <1>2, <1>5
<1> QED BY <1>1, <1>6

-----------------------------------------------------------------------------
Linked(c, s, t) == /\ c \in Seq(Letters) /\ Len(c) = Len(s) + Len(t)
                   /\ \A i \in 1..Len(s) : c[i] = s[i]
                   /\ \A i \in 1..Len(t) : c[Len(s) + i] = t[i]

LEMMA LettersConcat ==
    ASSUME NEW a \in Seq(Letters), NEW b \in Seq(Letters), NEW c, c = a \o b
    PROVE  Linked(c, a, b)
BY ConcatAt DEF Linked

\* What a rewrite does to every character of the text.
Covers(x, n, i) == x <= i /\ i <= x + n - 1

Painted(v, t, at, n, name) ==
    /\ Len(v) = Len(t)
    /\ \A i \in 1..Len(t) : (\A k \in 1..Len(at) : ~Covers(at[k], n, i)) => v[i] = t[i]
    /\ \A i \in 1..Len(t), k \in 1..Len(at) : Covers(at[k], n, i) => v[i] = name[i - at[k] + 1]

LEMMA SeatedOrder ==
    ASSUME NEW at, NEW n, NEW N, Seated(at, n, N), NEW k \in 1..Len(at)
    PROVE  \A j \in 1..Len(at) : j < k => at[j] + n <= at[k]
<1> DEFINE K == Len(at)
           V == {m \in 0..K : \A j \in 1..K : j < m => at[j] + n <= at[m]}
<1>1. K \in Nat /\ n \in Nat /\ \A m \in 1..K : at[m] \in Nat /\ at[m] >= CopyFrom(at, n, m - 1)
  BY LenProperties DEF Seated
<1> HIDE DEF K
<1>2. 0 \in V
  BY <1>1
<1>3. ASSUME NEW m \in 1..K, m - 1 \in V PROVE m \in V
  <2> SUFFICES ASSUME NEW j \in 1..K, j < m PROVE at[j] + n <= at[m]
    BY <1>1
  <2>1. m - 1 # 0 /\ m - 1 \in 1..K /\ (j = m - 1 \/ j < m - 1)
    BY <1>1
  <2>2. at[m] >= at[m - 1] + n /\ at[m] \in Nat /\ at[m - 1] \in Nat /\ at[j] \in Nat
    BY <1>1, <2>1 DEF CopyFrom
  <2>3. CASE j = m - 1
    BY <2>2, <2>3
  <2>4. CASE j < m - 1
    <3>1. at[j] + n <= at[m - 1]
      BY <1>3, <2>4
    <3> QED BY <1>1, <2>2, <3>1
  <2> QED BY <2>1, <2>3, <2>4
<1>4. \A m \in 0..K : m \in V
  <2> HIDE DEF V
  <2> QED BY <1>1, <1>2, <1>3, UptoInduction
<1>5. k \in 0..K
  BY <1>1 DEF K
<1> QED BY <1>4, <1>5 DEF K

LEMMA RewritePaints ==
    ASSUME NEW t \in Seq(Letters), NEW name \in Seq(Letters), NEW at,
           Seated(at, Len(name), Len(t))
    PROVE  Painted(Rewrite(t, at, Len(name), name), t, at, Len(name), name)
<1> DEFINE n == Len(name)
           N == Len(t)
           K == Len(at)
           u == Rewrite(t, at, n, name)
           Right(x, i) == /\ (\A k \in 1..K : ~Covers(at[k], n, i)) => x = t[i]
                          /\ \A k \in 1..K : Covers(at[k], n, i) => x = name[i - at[k] + 1]
           Done(x, k) == /\ Len(x) = CopyFrom(at, n, k) - 1
                         /\ \A i \in 1..Len(x) : Right(x[i], i)
<1>1. /\ K \in Nat /\ n \in Nat /\ n >= 1 /\ N \in Nat /\ at \in Seq(Nat)
      /\ \A k \in 1..K : at[k] \in Nat
  BY LenProperties DEF Seated
<1>2. PICK g : /\ Builds(g, t, at, n, name)
               /\ u = g[K] \o SubSeq(t, CopyFrom(at, n, K), N)
  BY RewriteUnfolds
<1>3. /\ g[0] = <<>> /\ \A k \in 0..K : g[k] \in Seq(Letters)
      /\ \A k \in 1..K : g[k] = g[k - 1] \o (SubSeq(t, CopyFrom(at, n, k - 1), at[k] - 1) \o name)
  BY <1>2 DEF Builds
<1>4. ASSUME NEW k \in 1..K, NEW i \in Nat, at[k] <= i, i <= at[k] + n - 1
      PROVE  Right(name[i - at[k] + 1], i)
  <2>1. Covers(at[k], n, i)
    BY <1>4 DEF Covers
  <2>2. ASSUME NEW j \in 1..K, Covers(at[j], n, i) PROVE j = k
    <3>1. at[j] \in Nat /\ at[k] \in Nat /\ at[j] <= i /\ i <= at[j] + n - 1
      BY <1>1, <2>2 DEF Covers
    <3>2. ~(at[j] + n <= at[k]) /\ ~(at[k] + n <= at[j])
      <4> DEFINE x == at[j]
                 y == at[k]
      <4>1. x \in Nat /\ y \in Nat /\ x <= i /\ i <= x + n - 1 /\ y <= i /\ i <= y + n - 1
        BY <1>4, <3>1
      <4> HIDE DEF x, y, n
      <4>2. ~(x + n <= y) /\ ~(y + n <= x)
        BY <1>1, <4>1
      <4> QED BY <4>2 DEF x, y
    <3>3. ~(j < k) /\ ~(k < j)
      BY <3>2, SeatedOrder
    <3> QED BY <1>1, <3>3
  <2> QED BY <2>1, <2>2
<1>5. ASSUME NEW k \in 0..K, NEW i \in Nat, i >= CopyFrom(at, n, k),
             k < K => i < at[k + 1]
      PROVE  Right(t[i], i)
  <2>1. ASSUME NEW j \in 1..K PROVE ~Covers(at[j], n, i)
    <3>1. j < k \/ j = k \/ j = k + 1 \/ j > k + 1
      BY <1>1
    <3>2. at[j] \in Nat
      BY <1>1
    <3>3. CASE j <= k
      <4>1. k \in 1..K /\ k # 0 /\ at[k] \in Nat /\ CopyFrom(at, n, k) = at[k] + n
        BY <1>1, <3>3 DEF CopyFrom
      <4>2. j < k => at[j] + n <= at[k]
        BY <4>1, SeatedOrder
      <4>3. at[j] + n <= at[k] + n
        BY <1>1, <3>1, <3>2, <3>3, <4>1, <4>2
      <4>4. i >= at[k] + n
        BY <1>5, <4>1
      <4> QED BY <1>1, <3>2, <4>1, <4>3, <4>4 DEF Covers
    <3>4. CASE j > k
      <4>1. k < K /\ k + 1 \in 1..K /\ at[k + 1] \in Nat /\ (j = k + 1 \/ k + 1 < j)
        BY <1>1, <3>1, <3>4
      <4>2. k + 1 < j => at[k + 1] + n <= at[j]
        BY <4>1, SeatedOrder
      <4>3. i < at[j]
        BY <1>1, <1>5, <3>2, <4>1, <4>2
      <4> QED BY <3>2, <4>3 DEF Covers
    <3> QED BY <1>1, <3>3, <3>4
  <2> QED BY <2>1
<1>6. ASSUME NEW k \in 1..K, Done(g[k - 1], k - 1) PROVE Done(g[k], k)
  <2> DEFINE from == CopyFrom(at, n, k - 1)
             x == at[k]
             m == SubSeq(t, from, x - 1)
             mn == m \o name
             a == g[k - 1]
             w == g[k]
  <2>1. k - 1 \in 0..K /\ k # 0 /\ k \in Nat /\ (k - 1) + 1 = k
    BY <1>1
  <2>2. Stretch(t, at, n, k)
    BY StretchFact
  <2>3. /\ from \in 1..N + 1 /\ x \in 1..N /\ x - 1 \in from - 1..N
        /\ m \in Seq(Letters) /\ Len(m) = x - from
        /\ \A i \in 1..x - from : m[i] = t[from + i - 1]
    BY <2>2 DEF Stretch
  <2>4. CopyFrom(at, n, k) = x + n
    BY <2>1 DEF CopyFrom
  <2>5. a \in Seq(Letters) /\ Len(a) = from - 1 /\ \A i \in 1..Len(a) : Right(a[i], i)
    BY <1>3, <1>6, <2>1
  <2>6. w = a \o mn
    BY <1>3
  <2>7. \A i \in Nat : i >= from /\ i < x => Right(t[i], i)
    <3> HIDE DEF Right
    <3> QED BY <1>5, <2>1
  <2>8. \A i \in Nat : x <= i /\ i <= x + n - 1 => Right(name[i - x + 1], i)
    <3> HIDE DEF Right
    <3> QED BY <1>4
  <2> HIDE DEF from, x, m, a, w, Right
  <2>9. /\ mn \in Seq(Letters) /\ Len(mn) = Len(m) + n
        /\ \A i \in 1..Len(m) : mn[i] = m[i]
        /\ \A i \in 1..n : mn[Len(m) + i] = name[i]
    <3>1. Linked(mn, m, name)
      BY <2>3, LettersConcat
    <3> QED BY <3>1 DEF Linked
  <2> HIDE DEF mn
  <2>10. /\ Len(w) = Len(a) + Len(mn)
         /\ \A i \in 1..Len(a) : w[i] = a[i]
         /\ \A i \in 1..Len(mn) : w[Len(a) + i] = mn[i]
    <3>1. Linked(w, a, mn)
      BY <2>5, <2>6, <2>9, LettersConcat
    <3> QED BY <3>1 DEF Linked
  <2>11. Len(w) = x + n - 1
    BY <1>1, <2>3, <2>5, <2>9, <2>10
  <2>12. ASSUME NEW i \in 1..Len(w) PROVE Right(w[i], i)
    <3>1. i \in Nat /\ i <= x + n - 1 /\ x \in Nat /\ from \in Nat
      BY <1>1, <2>3, <2>11
    <3>2. CASE i < from
      <4>1. i \in 1..Len(a)
        BY <2>5, <3>1, <3>2
      <4> QED BY <2>5, <2>10, <4>1
    <3>3. CASE i >= from /\ i < x
      <4> DEFINE j == i - from + 1
      <4>1. /\ j \in 1..Len(m) /\ j \in 1..x - from /\ j \in 1..Len(mn)
            /\ Len(a) + j = i /\ from + j - 1 = i
        BY <1>1, <2>3, <2>5, <2>9, <3>1, <3>3
      <4> HIDE DEF j
      <4>2. w[i] = t[i]
        BY <2>3, <2>9, <2>10, <4>1
      <4> QED BY <2>7, <3>1, <3>3, <4>2
    <3>4. CASE i >= x
      <4> DEFINE j == i - x + 1
      <4>1. j \in 1..n /\ Len(m) + j \in 1..Len(mn) /\ Len(a) + (Len(m) + j) = i
        BY <1>1, <2>3, <2>5, <2>9, <3>1, <3>4
      <4>2. w[i] = name[j]
        BY <2>9, <2>10, <4>1
      <4> QED BY <2>8, <3>1, <3>4, <4>2
    <3> QED BY <3>1, <3>2, <3>3, <3>4
  <2>13. Len(g[k]) = CopyFrom(at, n, k) - 1
    <3>1. x \in Nat
      BY <2>3
    <3> QED BY <1>1, <2>4, <2>11, <3>1 DEF w, x
  <2>14. \A i \in 1..Len(g[k]) : Right(g[k][i], i)
    BY <2>12 DEF w
  <2> QED BY <2>13, <2>14 DEF Right
<1>7. Done(g[0], 0)
  <2> DEFINE none == <<>>
  <2>1. Len(none) = 0 /\ CopyFrom(at, n, 0) = 1
    BY DEF CopyFrom
  <2> HIDE DEF none
  <2>2. Done(none, 0)
    BY <2>1
  <2> QED BY <1>3, <2>2 DEF none
<1>8. Done(g[K], K)
  <2> DEFINE V == {k \in 0..K : Done(g[k], k)}
  <2> HIDE DEF Done, K
  <2>1. 0 \in V
    BY <1>1, <1>7
  <2>2. \A k \in 1..K : k - 1 \in V => k \in V
    <3>1. \A k \in 1..K : k \in 0..K
      BY <1>1
    <3> QED BY <1>6, <3>1
  <2>3. \A k \in 0..K : k \in V
    <3> HIDE DEF V
    <3> QED BY <1>1, <2>1, <2>2, UptoInduction
  <2>4. K \in 0..K
    BY <1>1
  <2> QED BY <2>3, <2>4
<1>9. Len(u) = N /\ \A i \in 1..N : Right(u[i], i)
  <2> DEFINE from == CopyFrom(at, n, K)
             rest == SubSeq(t, from, N)
             a == g[K]
  <2>1. K \in 0..K /\ ~(K < K)
    BY <1>1
  <2>2. from \in Nat /\ from >= 1 /\ from <= N + 1
    BY <2>1 DEF Seated
  <2>3. Len(a) = from - 1 /\ (\A i \in 1..Len(a) : Right(a[i], i)) /\ a \in Seq(Letters)
    BY <1>3, <1>8, <2>1
  <2>4. \A i \in Nat : i >= from => Right(t[i], i)
    <3> HIDE DEF Right
    <3> QED BY <1>5, <2>1
  <2>5. from \in 1..N + 1 /\ N \in from - 1..N
    BY <1>1, <2>2
  <2>6. /\ rest \in Seq(Letters) /\ Len(rest) = N - from + 1
        /\ \A i \in 1..N - from + 1 : rest[i] = t[from + i - 1]
    BY <2>5, PartFact
  <2>7. u = a \o rest
    BY <1>2
  <2> HIDE DEF from, a, rest, u, Right
  <2>8. /\ Len(u) = Len(a) + Len(rest)
        /\ \A i \in 1..Len(a) : u[i] = a[i]
        /\ \A i \in 1..Len(rest) : u[Len(a) + i] = rest[i]
    <3>1. Linked(u, a, rest)
      BY <2>3, <2>6, <2>7, LettersConcat
    <3> QED BY <3>1 DEF Linked
  <2>9. ASSUME NEW i \in 1..N PROVE Right(u[i], i)
    <3>1. CASE i < from
      <4>1. i \in 1..Len(a)
        BY <1>1, <2>2, <2>3, <3>1
      <4> QED BY <2>3, <2>8, <4>1
    <3>2. CASE i >= from
      <4> DEFINE j == i - from + 1
      <4>1. /\ j \in 1..Len(rest) /\ j \in 1..N - from + 1 /\ i \in Nat
            /\ Len(a) + j = i /\ from + j - 1 = i
        BY <1>1, <2>2, <2>3, <2>6, <3>2
      <4> HIDE DEF j
      <4>2. u[i] = t[i]
        BY <2>6, <2>8, <4>1
      <4> QED BY <2>4, <3>2, <4>1, <4>2
    <3> QED BY <1>1, <2>2, <3>1, <3>2
  <2>10. Len(u) = N
    BY <1>1, <2>2, <2>3, <2>6, <2>8
  <2> QED BY <2>9, <2>10
<1> QED BY <1>9 DEF Painted

\* A name that a text of the lowered form l can be rewritten to and stay even.
KeepsEven(l, name) == Matches(l, LowerText(name)) = <<>> \/ Even(name)

LEMMA MatchesPlaces ==
    ASSUME NEW l \in Seq(Letters), NEW key \in Seq(Letters), Matches(l, key) # <<>>
    PROVE  /\ Apart(l, key, Matches(l, key)) /\ Seated(Matches(l, key), Len(key), Len(l))
           /\ Len(Matches(l, key)) \in Nat /\ Len(Matches(l, key)) # 0
<1> DEFINE at == Matches(l, key)
<1>1. Apart(l, key, at) /\ (key = <<>> => at = <<>>)
  BY MatchesFact
<1>2. at # <<>>
  OBVIOUS
<1> HIDE DEF at
<1>3. Seated(at, Len(key), Len(l))
  BY <1>1, <1>2, ApartPlaced
<1>4. at \in Seq(Nat)
  BY <1>1 DEF Apart
<1>5. Len(at) \in Nat /\ Len(at) # 0
  BY <1>2, <1>4, LenProperties, EmptySeq
<1> QED BY <1>1, <1>3, <1>5 DEF at

LEMMA RewriteFits ==
    ASSUME NEW r \in RewriteStates, Even(r.text), NEW name \in Seq(Letters), Trim(name) = name,
           Even(RewriteName(r, name).text)
    PROVE  KeepsEven(LowerText(r.text), name)
<1> DEFINE t == r.text
           l == LowerText(t)
           key == LowerText(name)
           n == Len(key)
           at == Matches(l, key)
           K == Len(at)
           u == Rewritten(t, name)
<1> SUFFICES ASSUME at # <<>> PROVE Even(name)
  BY DEF KeepsEven
<1>1. t \in Seq(Letters) /\ l \in Seq(Letters) /\ key \in Seq(Letters) /\ Len(l) = Len(t) /\ ~r.stop
  BY LowerStep, EvenText DEF Even, RewriteStates
<1>2. key = normalize_entity_key(name)
  BY DEF normalize_entity_key
<1> HIDE DEF l, key
<1>3. Seated(at, n, Len(t)) /\ K \in Nat /\ K # 0
  BY <1>1, MatchesPlaces
<1>4. CASE ReadsAs(t, name)
  <2>1. 1 \in 1..K
    BY <1>3
  <2>2. SubSeq(t, at[1], at[1] + n - 1) = name
    BY <1>2, <1>4, <2>1 DEF ReadsAs, l
  <2>3. /\ at[1] \in Nat /\ at[1] >= CopyFrom(at, n, 1 - 1) /\ at[1] + n - 1 <= Len(t)
        /\ n \in Nat /\ n >= 1 /\ Len(t) \in Nat
    BY <1>3, <2>1 DEF Seated
  <2>4. CopyFrom(at, n, 1 - 1) = 1
    BY DEF CopyFrom
  <2>5. at[1] \in 1..Len(t) + 1 /\ at[1] + n - 1 \in at[1] - 1..Len(t)
    BY <2>3, <2>4
  <2>6. Even(SubSeq(t, at[1], at[1] + n - 1))
    BY <2>5, EvenPart
  <2> QED BY <2>2, <2>6
<1>5. CASE ~ReadsAs(t, name)
  <2>1. RewriteName(r, name).text = u
    BY <1>1, <1>5, RewriteNameCases
  <2>2. u = Rewrite(t, at, n, name)
    BY <1>2 DEF Rewritten, l
  <2>3. Even(u)
    BY <2>1
  <2> HIDE DEF at, u
  <2>4. PICK g : /\ Builds(g, t, at, n, name)
                 /\ Rewrite(t, at, n, name) = g[K] \o SubSeq(t, CopyFrom(at, n, K), Len(t))
    BY <1>1, <1>3, RewriteUnfolds
  <2> DEFINE rest == SubSeq(t, CopyFrom(at, n, K), Len(t))
             m == SubSeq(t, CopyFrom(at, n, K - 1), at[K] - 1)
             a == g[K - 1]
             mn == m \o name
             amn == a \o mn
  <2>5. K \in 1..K /\ K \in 0..K /\ K - 1 \in 0..K
    BY <1>3
  <2>6. Stretch(t, at, n, K)
    BY <1>1, <1>3, <2>5, StretchFact
  <2>7. m \in Seq(Letters)
    BY <2>6 DEF Stretch
  <2>8. a \in Seq(Letters) /\ g[K] = amn /\ g[K] \in Seq(Letters)
    BY <2>4, <2>5 DEF Builds
  <2>9. rest \in Seq(Letters)
    <3>1. /\ CopyFrom(at, n, K) \in Nat /\ CopyFrom(at, n, K) >= 1
          /\ CopyFrom(at, n, K) <= Len(t) + 1 /\ Len(t) \in Nat
      BY <1>3, <2>5 DEF Seated
    <3> DEFINE from == CopyFrom(at, n, K)
    <3> HIDE DEF from
    <3>2. from \in 1..Len(t) + 1 /\ Len(t) \in from - 1..Len(t)
      BY <3>1 DEF from
    <3>3. SubSeq(t, from, Len(t)) \in Seq(Letters)
      BY <1>1, <3>2, PartFact
    <3> QED BY <3>3 DEF from
  <2>10. Even(amn \o rest)
    BY <2>2, <2>3, <2>4, <2>8
  <2> HIDE DEF rest, m, a
  <2>11. mn \in Seq(Letters)
    BY <2>7, ConcatProperties
  <2> HIDE DEF mn
  <2>12. amn \in Seq(Letters)
    BY <2>8, <2>11, ConcatProperties
  <2> HIDE DEF amn
  <2>13. Even(amn)
    BY <2>9, <2>10, <2>12, EvenParts
  <2>14. Even(mn)
    BY <2>8, <2>11, <2>13, EvenParts DEF amn
  <2> QED BY <2>7, <2>14, EvenParts DEF mn
<1> QED BY <1>4, <1>5

LEMMA RewriteStepPaints ==
    ASSUME NEW r \in RewriteStates, Even(r.text), NEW name \in Seq(Letters), Trim(name) = name,
           KeepsEven(LowerText(r.text), name)
    PROVE  Painted(RewriteName(r, name).text, r.text,
                   Matches(LowerText(r.text), LowerText(name)), Len(name), name)
<1> DEFINE t == r.text
           l == LowerText(t)
           key == LowerText(name)
           n == Len(name)
           at == Matches(l, key)
<1>1. t \in Seq(Letters) /\ l \in Seq(Letters) /\ key \in Seq(Letters) /\ Len(l) = Len(t) /\ ~r.stop
  BY LowerStep, EvenText DEF Even, RewriteStates
<1>2. key = normalize_entity_key(name)
  BY DEF normalize_entity_key
<1> HIDE DEF key
<1>3. RewriteName(r, name).text = IF ReadsAs(t, name) THEN t ELSE Rewritten(t, name)
  BY <1>1, RewriteNameCases
<1>4. CASE at = <<>>
  <2>1. Len(at) = 0
    BY <1>4
  <2>2. ReadsAs(t, name)
    BY <1>2, <2>1 DEF ReadsAs
  <2> HIDE DEF at
  <2>3. Painted(t, t, at, n, name)
    BY <2>1 DEF Painted
  <2> QED BY <1>3, <2>2, <2>3 DEF key, at
<1>5. CASE at # <<>>
  <2>1. Even(name)
    BY <1>5 DEF KeepsEven, key
  <2>2. Len(key) = n
    BY <2>1, EvenText DEF key
  <2>3. Seated(at, n, Len(t))
    <3> HIDE DEF l, n
    <3> QED BY <1>1, <1>5, <2>2, MatchesPlaces
  <2>4. CASE ReadsAs(t, name)
    <3>1. \A k \in 1..Len(at) : SubSeq(t, at[k], at[k] + n - 1) = name
      BY <1>2, <2>2, <2>4 DEF ReadsAs
    <3> HIDE DEF at, n
    <3>2. ASSUME NEW i \in 1..Len(t), NEW k \in 1..Len(at), Covers(at[k], n, i)
          PROVE  t[i] = name[i - at[k] + 1]
      <4> DEFINE x == at[k]
                 j == i - x + 1
      <4>1. /\ x \in Nat /\ x >= CopyFrom(at, n, k - 1) /\ x + n - 1 <= Len(t)
            /\ n \in Nat /\ n >= 1 /\ Len(t) \in Nat /\ k - 1 \in 0..Len(at)
        BY <2>3, LenProperties DEF Seated
      <4>2. CopyFrom(at, n, k - 1) >= 1 /\ CopyFrom(at, n, k - 1) \in Nat
        BY <2>3, <4>1 DEF Seated
      <4>3. x <= i /\ i <= x + n - 1
        BY <3>2 DEF Covers
      <4>4. SubSeq(t, x, x + n - 1) = name
        BY <3>1
      <4> HIDE DEF x
      <4>5. /\ x \in 1..Len(t) + 1 /\ x + n - 1 \in x - 1..Len(t)
            /\ j \in 1..(x + n - 1) - x + 1 /\ x + j - 1 = i
        BY <4>1, <4>2, <4>3
      <4> HIDE DEF j
      <4>6. SubSeq(t, x, x + n - 1)[j] = t[x + j - 1]
        BY <1>1, <4>5, PartFact
      <4> QED BY <4>4, <4>5, <4>6 DEF j, x
    <3>3. Painted(t, t, at, n, name)
      <4>1. \A i \in 1..Len(t), k \in 1..Len(at) :
               Covers(at[k], n, i) => t[i] = name[i - at[k] + 1]
        BY <3>2
      <4> QED BY <4>1 DEF Painted
    <3> QED BY <1>3, <2>4, <3>3 DEF at, n, key
  <2>5. CASE ~ReadsAs(t, name)
    <3>1. Rewritten(t, name) = Rewrite(t, at, n, name)
      BY <1>2, <2>2 DEF Rewritten
    <3>2. RewriteName(r, name).text = Rewrite(t, at, n, name)
      BY <1>3, <2>5, <3>1
    <3> HIDE DEF at
    <3>3. Painted(Rewrite(t, at, n, name), t, at, n, name)
      BY <1>1, <2>3, RewritePaints
    <3> QED BY <3>2, <3>3 DEF at, key
  <2> QED BY <2>4, <2>5
<1> QED BY <1>4, <1>5

\* A text that was painted has the same lowered form.
LEMMA PaintedLower ==
    ASSUME NEW t, Even(t), NEW v \in Seq(Letters), NEW name \in Seq(Letters),
           KeepsEven(LowerText(t), name),
           Painted(v, t, Matches(LowerText(t), LowerText(name)), Len(name), name)
    PROVE  Even(v) /\ LowerText(v) = LowerText(t)
<1> DEFINE l == LowerText(t)
           key == LowerText(name)
           n == Len(name)
           at == Matches(l, key)
           N == Len(t)
<1>1. /\ t \in Seq(Letters) /\ l \in Seq(Letters) /\ key \in Seq(Letters) /\ Len(l) = N /\ N \in Nat
      /\ \A i \in 1..N : l[i] = Lower[t[i]][1] /\ Len(Lower[t[i]]) = 1
  <2>1. t \in Seq(Letters) /\ DOMAIN t = 1..N /\ N \in Nat
    BY LenProperties DEF Even
  <2>2. \A i \in 1..N : Len(Lower[t[i]]) = 1
    BY <2>1 DEF Even, is_lowercase_byte_aligned
  <2> QED BY <2>1, <2>2, EvenText, LowerStep
<1>2. ASSUME NEW i \in 1..N PROVE Len(Lower[v[i]]) = 1 /\ Lower[v[i]][1] = l[i]
  <2>1. CASE \A k \in 1..Len(at) : ~Covers(at[k], n, i)
    <3>1. v[i] = t[i]
      BY <2>1 DEF Painted
    <3> QED BY <1>1, <3>1
  <2>2. CASE \E k \in 1..Len(at) : Covers(at[k], n, i)
    <3>1. PICK k \in 1..Len(at) : Covers(at[k], n, i)
      BY <2>2
    <3> DEFINE x == at[k]
               j == i - x + 1
    <3>2. v[i] = name[j]
      BY <3>1 DEF Painted
    <3>3. at # <<>>
      <4>1. at = <<>> => Len(at) = 0
        OBVIOUS
      <4> HIDE DEF at
      <4> QED BY <4>1
    <3>4. Even(name)
      BY <3>3 DEF KeepsEven
    <3>5. /\ Len(key) = n /\ n \in Nat /\ \A m \in 1..n : key[m] = Lower[name[m]][1]
          /\ \A m \in 1..n : Len(Lower[name[m]]) = 1
      <4>1. DOMAIN name = 1..n /\ n \in Nat
        BY LenProperties
      <4>2. \A m \in 1..n : Len(Lower[name[m]]) = 1
        BY <3>4, <4>1 DEF Even, is_lowercase_byte_aligned
      <4> QED BY <3>4, <4>1, <4>2, EvenText
    <3>6. Apart(l, key, at)
      <4> HIDE DEF l, key
      <4> QED BY <1>1, MatchesFact
    <3>7. x \in Nat /\ x >= 1 /\ x + n - 1 <= N /\ SubSeq(l, x, x + n - 1) = key
      BY <1>1, <3>1, <3>5, <3>6 DEF Apart, Bounded, Written
    <3>8. x <= i /\ i <= x + n - 1
      BY <3>1 DEF Covers
    <3> HIDE DEF x, l, key, n
    <3>9. /\ j \in 1..n /\ x \in 1..Len(l) + 1 /\ x + n - 1 \in x - 1..Len(l)
          /\ j \in 1..(x + n - 1) - x + 1 /\ x + j - 1 = i
      BY <1>1, <3>5, <3>7, <3>8
    <3> HIDE DEF j
    <3>10. SubSeq(l, x, x + n - 1)[j] = l[x + j - 1]
      BY <1>1, <3>9, PartFact
    <3> QED BY <3>2, <3>5, <3>7, <3>9, <3>10
  <2> QED BY <2>1, <2>2
<1>3. Len(v) = N /\ DOMAIN v = 1..N
  BY LenProperties DEF Painted
<1>4. Even(v)
  BY <1>2, <1>3 DEF Even, is_lowercase_byte_aligned
<1> DEFINE lv == LowerText(v)
<1>5. lv \in Seq(Letters) /\ Len(lv) = N /\ \A i \in 1..N : lv[i] = Lower[v[i]][1]
  BY <1>3, <1>4, EvenText
<1> HIDE DEF lv, l
<1>6. \A i \in 1..N : lv[i] = l[i]
  BY <1>2, <1>5
<1>7. lv = l
  BY <1>1, <1>5, <1>6, SeqEqual
<1> QED BY <1>4, <1>7 DEF lv, l

\* A run over names without spaces around them paints, name by name.
LEMMA RunPaints ==
    ASSUME NEW personal \in Seq(Seq(Letters)),
           \A n \in DOMAIN personal : Trim(personal[n]) = personal[n],
           NEW text, Even(text), NEW g, Rewrites(g, personal, text),
           \A n \in 1..Len(personal) :
              KeepsEven(LowerText(text), personal[n]) \/ Even(g[n].text)
    PROVE  /\ \A n \in 0..Len(personal) :
                Even(g[n].text) /\ LowerText(g[n].text) = LowerText(text)
           /\ \A n \in 1..Len(personal) :
                /\ KeepsEven(LowerText(text), personal[n])
                /\ Painted(g[n].text, g[n - 1].text,
                           Matches(LowerText(text), LowerText(personal[n])),
                           Len(personal[n]), personal[n])
<1> DEFINE N == Len(personal)
           l == LowerText(text)
           Even0(n) == Even(g[n].text) /\ LowerText(g[n].text) = l
           Paint0(n) == /\ KeepsEven(l, personal[n])
                        /\ Painted(g[n].text, g[n - 1].text, Matches(l, LowerText(personal[n])),
                                   Len(personal[n]), personal[n])
<1>1. N \in Nat /\ DOMAIN personal = 1..N /\ \A n \in 1..N : personal[n] \in Seq(Letters)
  BY LenProperties, ElementOfSeq
<1>2. ASSUME NEW n \in 1..N, Even0(n - 1) PROVE Even0(n) /\ Paint0(n)
  <2> DEFINE r == g[n - 1]
             name == personal[n]
             v == g[n].text
             at == Matches(l, LowerText(name))
  <2>1. n - 1 \in 0..N /\ n \in 0..N
    BY <1>1
  <2>2. r \in RewriteStates /\ g[n] \in RewriteStates /\ g[n] = RewriteName(r, name)
    BY <2>1 DEF Rewrites
  <2>3. Even(r.text) /\ LowerText(r.text) = l
    BY <1>2
  <2>4. name \in Seq(Letters) /\ Trim(name) = name
    BY <1>1
  <2>5. v \in Seq(Letters)
    BY <2>2 DEF RewriteStates
  <2> HIDE DEF r, name, l
  <2>6. KeepsEven(l, name)
    <3>1. CASE Even(v)
      <4>1. Even(RewriteName(r, name).text)
        BY <2>2, <3>1
      <4> QED BY <2>2, <2>3, <2>4, <4>1, RewriteFits
    <3> QED BY <3>1 DEF name, l
  <2>7. Painted(v, r.text, at, Len(name), name)
    <3>1. KeepsEven(LowerText(r.text), name)
      BY <2>3, <2>6
    <3>2. Painted(RewriteName(r, name).text, r.text,
                  Matches(LowerText(r.text), LowerText(name)), Len(name), name)
      BY <2>2, <2>3, <2>4, <3>1, RewriteStepPaints
    <3> QED BY <2>2, <2>3, <3>2
  <2>8. Even(v) /\ LowerText(v) = LowerText(r.text)
    <3> DEFINE t == r.text
    <3> HIDE DEF v, at
    <3>1. /\ Even(t) /\ KeepsEven(LowerText(t), name)
          /\ Painted(v, t, Matches(LowerText(t), LowerText(name)), Len(name), name)
      BY <2>3, <2>6, <2>7 DEF at
    <3> HIDE DEF t
    <3>2. Even(v) /\ LowerText(v) = LowerText(t)
      BY <2>4, <2>5, <3>1, PaintedLower
    <3> QED BY <3>2 DEF t
  <2> QED BY <2>3, <2>6, <2>7, <2>8 DEF r, name
<1>3. Even0(0)
  BY DEF Rewrites
<1>4. \A n \in 0..N : Even0(n)
  <2> DEFINE V == {n \in 0..N : Even0(n)}
  <2> HIDE DEF Even0, Paint0, N
  <2>1. 0 \in V
    BY <1>1, <1>3
  <2>2. \A n \in 1..N : n - 1 \in V => n \in V
    <3>1. \A n \in 1..N : n \in 0..N
      BY <1>1
    <3> QED BY <1>2, <3>1
  <2>3. \A n \in 0..N : n \in V
    <3> HIDE DEF V
    <3> QED BY <1>1, <2>1, <2>2, UptoInduction
  <2> QED BY <2>3
<1>5. \A n \in 1..N : Paint0(n)
  <2>1. \A n \in 1..N : n - 1 \in 0..N
    BY <1>1
  <2> HIDE DEF Even0, Paint0
  <2> QED BY <1>2, <1>4, <2>1
<1> QED BY <1>4, <1>5

LEMMA RunEven ==
    ASSUME NEW personal \in Seq(Seq(Letters)), NEW text, NEW g, Rewrites(g, personal, text),
           Even(g[Len(personal)].text)
    PROVE  \A n \in 0..Len(personal) : Even(g[n].text)
<1> DEFINE N == Len(personal)
           V == {k \in 0..N : Even(g[N - k].text)}
<1>1. N \in Nat /\ \A n \in 1..N : personal[n] \in Seq(Letters)
  BY LenProperties, ElementOfSeq
<1>2. 0 \in V
  <2>1. N - 0 = N /\ 0 \in 0..N
    BY <1>1
  <2> QED BY <2>1
<1>3. ASSUME NEW k \in 1..N, k - 1 \in V PROVE k \in V
  <2> DEFINE m == N - k + 1
             r == g[m - 1]
  <2>1. /\ m \in 1..N /\ m \in 0..N /\ m - 1 \in 0..N /\ m - 1 = N - k /\ m = N - (k - 1)
        /\ k \in 0..N
    BY <1>1
  <2>2. Even(g[m].text)
    BY <1>3, <2>1
  <2> HIDE DEF m, N
  <2>3. r \in RewriteStates /\ g[m] = RewriteName(r, personal[m])
    BY <2>1 DEF Rewrites, N
  <2>4. ~Even(r.text) => r.stop
    BY <2>3 DEF RewriteStates
  <2>5. r.stop => g[m] = r
    <3> HIDE DEF r
    <3> QED BY <1>1, <2>1, <2>3, RewriteNameCases
  <2>6. Even(r.text)
    BY <2>2, <2>4, <2>5
  <2> QED BY <2>1, <2>6
<1>4. \A k \in 0..N : k \in V
  <2> HIDE DEF V, N
  <2> QED BY <1>1, <1>2, <1>3, UptoInduction
<1>5. ASSUME NEW n \in 0..N PROVE Even(g[n].text)
  <2>1. N - n \in 0..N /\ N - (N - n) = n
    BY <1>1
  <2> QED BY <1>4, <2>1
<1> QED BY <1>5

\* A second run over the same names leaves the text as the first one left it.
LEMMA RewriteTwice ==
    ASSUME NEW personal \in Seq(Seq(Letters)),
           \A n \in DOMAIN personal : Trim(personal[n]) = personal[n],
           NEW text, Even(text), NEW u, u = RewritePersonal(personal, text).text, Even(u)
    PROVE  RewritePersonal(personal, u).text = u
<1> DEFINE N == Len(personal)
           l == LowerText(text)
           M == Len(text)
           at(n) == Matches(l, LowerText(personal[n]))
<1>1. PICK g : Rewrites(g, personal, text) /\ RewritePersonal(personal, text) = g[N]
  BY RewritePersonalUnfolds
<1>2. PICK h : Rewrites(h, personal, u) /\ RewritePersonal(personal, u) = h[N]
  BY RewritePersonalUnfolds
<1>3. N \in Nat /\ N \in 0..N
  BY LenProperties
<1>4. \A n \in 1..N : Even(g[n].text)
  <2>1. Even(g[Len(personal)].text)
    BY <1>1
  <2>2. \A n \in 0..N : Even(g[n].text)
    BY <1>1, <2>1, RunEven
  <2> QED BY <1>3, <2>2
<1>5. /\ \A n \in 0..N : Even(g[n].text) /\ LowerText(g[n].text) = l
      /\ \A n \in 1..N :
           /\ KeepsEven(l, personal[n])
           /\ Painted(g[n].text, g[n - 1].text, at(n), Len(personal[n]), personal[n])
  BY <1>1, <1>4, RunPaints
<1>6. LowerText(u) = l
  BY <1>1, <1>3, <1>5
<1>7. /\ \A n \in 0..N : Even(h[n].text) /\ LowerText(h[n].text) = l
      /\ \A n \in 1..N :
           Painted(h[n].text, h[n - 1].text, at(n), Len(personal[n]), personal[n])
  <2>1. \A n \in 1..N : KeepsEven(LowerText(u), personal[n]) \/ Even(h[n].text)
    BY <1>5, <1>6
  <2>2. /\ \A n \in 0..N : Even(h[n].text) /\ LowerText(h[n].text) = LowerText(u)
        /\ \A n \in 1..N :
             /\ KeepsEven(LowerText(u), personal[n])
             /\ Painted(h[n].text, h[n - 1].text, Matches(LowerText(u), LowerText(personal[n])),
                        Len(personal[n]), personal[n])
    BY <1>2, <2>1, RunPaints
  <2> QED BY <1>6, <2>2
<1>8. \A n \in 0..N : Len(g[n].text) = M /\ Len(h[n].text) = M
  <2>1. Len(l) = M
    BY EvenText
  <2> HIDE DEF l, M
  <2>2. ASSUME NEW n \in 0..N PROVE Len(g[n].text) = M /\ Len(h[n].text) = M
    <3> DEFINE x == g[n].text
               y == h[n].text
    <3>1. Even(x) /\ Even(y) /\ LowerText(x) = l /\ LowerText(y) = l
      BY <1>5, <1>7
    <3> HIDE DEF x, y
    <3>2. Len(LowerText(x)) = Len(x) /\ Len(LowerText(y)) = Len(y)
      BY <3>1, EvenText
    <3>3. Len(x) = M /\ Len(y) = M
      BY <2>1, <3>1, <3>2
    <3> QED BY <3>3 DEF x, y
  <2> QED BY <2>2
<1> DEFINE Same(n) == \A i \in 1..M : h[n].text[i] = u[i] \/ h[n].text[i] = g[n].text[i]
<1>9. Same(0)
  <2>1. h[0].text = u
    BY <1>2 DEF Rewrites
  <2> QED BY <2>1
<1>10. ASSUME NEW n \in 1..N, Same(n - 1) PROVE Same(n)
  <2> DEFINE a == at(n)
             k0 == Len(personal[n])
             name == personal[n]
             x == g[n].text
             x0 == g[n - 1].text
             y == h[n].text
             y0 == h[n - 1].text
  <2>1. n - 1 \in 0..N
    BY <1>3
  <2>2. Painted(x, x0, a, k0, name) /\ Painted(y, y0, a, k0, name)
    BY <1>5, <1>7
  <2>3. Len(x0) = M /\ Len(y0) = M
    BY <1>8, <2>1
  <2>4. \A i \in 1..M : y0[i] = u[i] \/ y0[i] = x0[i]
    BY <1>10
  <2> HIDE DEF a, k0, name, x, x0, y, y0, M
  <2>5. ASSUME NEW i \in 1..M PROVE y[i] = u[i] \/ y[i] = x[i]
    <3>1. CASE \A k \in 1..Len(a) : ~Covers(a[k], k0, i)
      <4>1. x[i] = x0[i] /\ y[i] = y0[i]
        BY <2>2, <2>3, <3>1 DEF Painted
      <4> QED BY <2>4, <4>1
    <3>2. CASE \E k \in 1..Len(a) : Covers(a[k], k0, i)
      <4>1. PICK k \in 1..Len(a) : Covers(a[k], k0, i)
        BY <3>2
      <4>2. x[i] = name[i - a[k] + 1] /\ y[i] = name[i - a[k] + 1]
        BY <2>2, <2>3, <4>1 DEF Painted
      <4> QED BY <4>2
    <3> QED BY <3>1, <3>2
  <2> QED BY <2>5 DEF x, y
<1>11. Same(N)
  <2> DEFINE V == {n \in 0..N : Same(n)}
  <2> HIDE DEF Same, N
  <2>1. 0 \in V
    BY <1>3, <1>9
  <2>2. \A n \in 1..N : n - 1 \in V => n \in V
    <3>1. \A n \in 1..N : n \in 0..N
      BY <1>3
    <3> QED BY <1>10, <3>1
  <2>3. \A n \in 0..N : n \in V
    <3> HIDE DEF V
    <3> QED BY <1>3, <2>1, <2>2, UptoInduction
  <2> QED BY <1>3, <2>3
<1>12. h[N].text = u
  <2> DEFINE y == h[N].text
  <2>1. y \in Seq(Letters) /\ u \in Seq(Letters)
    BY <1>3, <1>7 DEF Even
  <2>2. g[N].text = u
    BY <1>1
  <2>3. Len(y) = M /\ Len(u) = M
    BY <1>3, <1>8, <2>2
  <2>4. \A i \in 1..M : y[i] = u[i]
    BY <1>11, <2>2
  <2> HIDE DEF y, M
  <2>5. y = u
    BY <2>1, <2>3, <2>4, SeqEqual
  <2> QED BY <2>5 DEF y
<1> QED BY <1>2, <1>12

-----------------------------------------------------------------------------
LEMMA WordInputFact ==
    ASSUME NEW r \in WordInputs
    PROVE  /\ r.text \in Seq(Letters)
           /\ r.shared \in Seq(Seq(Letters)) /\ r.personal \in Seq(Seq(Letters))
<1>1. /\ r.text \in Texts /\ r.shared \in SharedLists
      /\ r.personal \in UpToLen(EntityNames, MaxNames)
  BY DEF WordInputs
<1>2. /\ Texts \subseteq Seq(Letters) /\ EntityNames \subseteq Seq(Letters)
      /\ SharedLists \subseteq Seq(Seq(Letters)) /\ MaxNames \in Nat
  BY WordsAssumption DEF Letters
<1>3. r.personal \in Seq(EntityNames)
  BY <1>1, <1>2, UpToLenFact
<1>4. r.personal \in Seq(Seq(Letters))
  BY <1>2, <1>3, SeqMonotonic
<1> QED BY <1>1, <1>2, <1>4

\* A scan answers with the text it was given or with what its names rewrite it to.
LEMMA ScanCases ==
    ASSUME NEW c \in WordInputs, NEW t \in Seq(Letters)
    PROVE  LET s == scan_text_with_catalogue(c, t)
               Hit == \E n \in DOMAIN c.shared :
                         word_boundary_contains_in_lowercased(
                             LowerText(t), normalize_entity_key(c.shared[n]))
           IN  /\ s.check = "BlockedByShared" <=> Even(t) /\ Hit
               /\ s.text = IF ~Even(t) \/ Hit THEN t ELSE RewritePersonal(c.personal, t).text
<1> DEFINE s == scan_text_with_catalogue(c, t)
           Hit == \E n \in DOMAIN c.shared :
                     word_boundary_contains_in_lowercased(
                         LowerText(t), normalize_entity_key(c.shared[n]))
           r == RewritePersonal(c.personal, t)
<1>1. s = IF ~is_lowercase_byte_aligned(t) THEN [check |-> "Proceed", text |-> t]
          ELSE IF Hit THEN [check |-> "BlockedByShared", text |-> t]
          ELSE [check |-> IF r.rewrites = <<>> THEN "Proceed" ELSE "Rewritten", text |-> r.text]
  BY DEF scan_text_with_catalogue
<1>2. Even(t) <=> is_lowercase_byte_aligned(t)
  BY DEF Even
<1> HIDE DEF Hit, r, s
<1>3. CASE ~Even(t)
  BY <1>1, <1>2, <1>3 DEF s, Hit
<1>4. CASE Even(t) /\ Hit
  BY <1>1, <1>2, <1>4 DEF s, Hit
<1>5. CASE Even(t) /\ ~Hit
  BY <1>1, <1>2, <1>5 DEF s, Hit, r
<1> QED BY <1>3, <1>4, <1>5

LEMMA ScanFindsFact ==
    ASSUME NEW l \in Seq(Letters), NEW key \in Seq(Letters), NEW i \in 1..Len(l), key # <<>>
    PROVE  Bounded(l, key, i) <=>
             /\ i + Len(key) - 1 <= Len(l)
             /\ SubSeq(l, i, i + Len(key) - 1) = key
             /\ i = 1 \/ l[i - 1] = Space
             /\ i + Len(key) > Len(l) \/ l[i + Len(key)] = Space
<1> DEFINE n == Len(key)
           N == Len(l)
           end == i + n - 1
<1>1. N \in Nat /\ n \in Nat /\ i \in Nat /\ i >= 1
  BY LenProperties
<1>2. Bounded(l, key, i) <=> /\ end <= N /\ SubSeq(l, i, end) = key
                             /\ i = 1 \/ l[i - 1] = Space
                             /\ end = N \/ l[end + 1] = Space
  BY <1>1 DEF Bounded, Written, Boundary, is_word_char
<1>3. end + 1 = i + n /\ (end <= N => (end = N <=> i + n > N))
  BY <1>1
<1> QED BY <1>2, <1>3

LEMMA ScanIsExact ==
    ASSUME alg = "words", in \in WordInputs, out = scan_text_with_catalogue(in, in.text)
    PROVE  ScanAndRewrite
<1> DEFINE t == in.text
           l == LowerText(t)
           key(n) == normalize_entity_key(in.shared[n])
           Hit == \E n \in DOMAIN in.shared : word_boundary_contains_in_lowercased(l, key(n))
           personal == in.personal
           u == RewritePersonal(personal, t).text
<1>1. /\ t \in Seq(Letters) /\ in.shared \in Seq(Seq(Letters)) /\ personal \in Seq(Seq(Letters))
      /\ l \in Seq(Letters)
  BY WordInputFact, LowerStep
<1>2. /\ out.check = "BlockedByShared" <=> Even(t) /\ Hit
      /\ out.text = IF ~Even(t) \/ Hit THEN t ELSE u
  BY <1>1, ScanCases
<1>3. ScanFindsOccurrences
  <2>1. ASSUME NEW n \in DOMAIN in.shared, Even(t)
        PROVE  word_boundary_contains_in_lowercased(l, key(n)) <=>
                 \E i \in DOMAIN t :
                   LET k == LowerText(Trim(in.shared[n]))
                       ll == LowerText(t)
                   IN  /\ k # <<>> /\ i + Len(k) - 1 <= Len(ll)
                       /\ SubSeq(ll, i, i + Len(k) - 1) = k
                       /\ i = 1 \/ ll[i - 1] = Space
                       /\ i + Len(k) > Len(ll) \/ ll[i + Len(k)] = Space
    <3> DEFINE k == key(n)
               Here(i) == /\ k # <<>> /\ i + Len(k) - 1 <= Len(l)
                          /\ SubSeq(l, i, i + Len(k) - 1) = k
                          /\ i = 1 \/ l[i - 1] = Space
                          /\ i + Len(k) > Len(l) \/ l[i + Len(k)] = Space
    <3>1. k = LowerText(Trim(in.shared[n]))
      BY DEF normalize_entity_key
    <3>2. k \in Seq(Letters)
      <4>1. in.shared[n] \in Seq(Letters)
        BY <1>1, LenProperties, ElementOfSeq
      <4> QED BY <4>1, EntityKey
    <3>3. DOMAIN t = 1..Len(l)
      BY <1>1, <2>1, LenProperties, EvenText
    <3> HIDE DEF k, l
    <3>4. word_boundary_contains_in_lowercased(l, k)
          <=> k # <<>> /\ \E i \in 1..Len(l) : Bounded(l, k, i)
      BY <1>1, <3>2, ScanFact
    <3>5. \A i \in 1..Len(l) : k # <<>> => (Bounded(l, k, i) <=> Here(i))
      <4> SUFFICES ASSUME NEW i \in 1..Len(l), k # <<>> PROVE Bounded(l, k, i) <=> Here(i)
        OBVIOUS
      <4> QED BY <1>1, <3>2, ScanFindsFact
    <3>6. \A i \in 1..Len(l) : Here(i) => k # <<>>
      OBVIOUS
    <3>7. word_boundary_contains_in_lowercased(l, k) <=> \E i \in 1..Len(l) : Here(i)
      <4> HIDE DEF Here
      <4> QED BY <3>4, <3>5, <3>6
    <3> QED BY <3>1, <3>3, <3>7 DEF k, l
  <2>2. Even(t) <=> is_lowercase_byte_aligned(in.text)
    BY <1>1 DEF Even
  <2> QED BY <1>2, <2>1, <2>2 DEF ScanFindsOccurrences
<1>4. RewriteKeepsWords
  <2>1. CASE ~Even(t) \/ Hit
    BY <1>2, <2>1 DEF RewriteKeepsWords
  <2>2. CASE ~(~Even(t) \/ Hit)
    <3>1. WordsOf(u) = WordsOf(t)
      BY <1>1, <2>2, RewritePersonalWords
    <3> QED BY <1>2, <2>2, <3>1 DEF RewriteKeepsWords
  <2> QED BY <2>1, <2>2
<1>5. RewriteStable
  <2> SUFFICES ASSUME \A n \in DOMAIN personal : Trim(personal[n]) = personal[n]
               PROVE  scan_text_with_catalogue(in, out.text).text = out.text
    BY DEF RewriteStable
  <2>1. CASE ~Even(t) \/ Hit
    BY <1>2, <2>1
  <2>2. CASE ~(~Even(t) \/ Hit)
    <3>1. out.text = u
      BY <1>2, <2>2
    <3>2. u \in Seq(Letters)
      <4>1. PICK g : Rewrites(g, personal, t) /\ RewritePersonal(personal, t) = g[Len(personal)]
        BY <1>1, <2>2, RewritePersonalUnfolds
      <4>2. Len(personal) \in 0..Len(personal)
        BY <1>1, LenProperties
      <4>3. g[Len(personal)] \in RewriteStates
        BY <4>1, <4>2 DEF Rewrites
      <4> QED BY <4>1, <4>3 DEF RewriteStates
    <3>3. Even(u) => RewritePersonal(personal, u).text = u
      <4> DEFINE v == u
      <4>1. v = RewritePersonal(personal, t).text
        OBVIOUS
      <4> HIDE DEF v
      <4>2. Even(v) => RewritePersonal(personal, v).text = v
        BY <1>1, <2>2, <4>1, RewriteTwice
      <4> QED BY <4>2 DEF v
    <3> HIDE DEF u
    <3>4. scan_text_with_catalogue(in, u).text = u
      BY <3>2, <3>3, ScanCases
    <3> QED BY <3>1, <3>4
  <2> QED BY <2>1, <2>2
<1> QED BY <1>3, <1>4, <1>5 DEF ScanAndRewrite

\* scan_text_with_catalogue: what it finds are whole words and all of them, and
\* its rewrite touches nothing but their spelling and does so once, for every
\* alphabet, catalogue and text.
THEOREM ScanExact == Spec => []ScanAndRewrite
<1> DEFINE Ran == alg = "words" => /\ in \in WordInputs
                                   /\ done => out = scan_text_with_catalogue(in, in.text)
<1>1. Ran => ScanAndRewrite
  <2>1. CASE alg = "words" /\ done
    BY <2>1, ScanIsExact
  <2>2. CASE ~(alg = "words" /\ done)
    BY <2>2 DEF ScanAndRewrite, ScanFindsOccurrences, RewriteKeepsWords, RewriteStable
  <2> QED BY <2>1, <2>2
<1>2. Init => Ran
  BY DEF Init
<1>3. Ran /\ [Next]_vars => Ran'
  BY DEF Next, Run, vars
<1> QED BY <1>1, <1>2, <1>3, PTL DEF Spec
=============================================================================
