--------------------------- MODULE AlgorithmProofs ---------------------------
(***************************************************************************)
(* Proofs about four algorithms of MCAlgorithms, over inputs of any size:  *)
(* the rate limiter passes neither more nor less than a tier's budget, for *)
(* any number of calls, pauses, users, tools, budgets and length of a      *)
(* minute; the take of new concepts keeps within the concept limit; tokens *)
(* survive a rotation of signing keys, for any kids and lifetimes; and     *)
(* what a tool advertises of its arguments agrees with what it checks.     *)
(*                                                                         *)
(* What calls leave behind and the number of a kid are functions defined   *)
(* by recursion over 0..N.  Recursion says that such a function exists, by *)
(* SetInduction, so that it may be unfolded.  The heart of the first proof *)
(* is Fits, which relates one bucket to two counts of the calls it let     *)
(* through: those since some call, of which there are not too many, and    *)
(* those after some moment, of which there are enough.  That of the third  *)
(* is that the order of kids is total (KidTotal, KidTransitive), so that   *)
(* there is one current key; that of the last is FieldAgrees, the two      *)
(* descriptions of one field, of which a tool is a finite number.          *)
(***************************************************************************)
EXTENDS MCAlgorithms, FiniteSetTheorems, TLAPS

-----------------------------------------------------------------------------
(* Recursion over numbers                                                  *)

\* Induction for a set: no number is the least that is missing.
LEMMA SetInduction ==
    ASSUME NEW U \in SUBSET Nat, 0 \in U, \A k \in U : k + 1 \in U, NEW n \in Nat
    PROVE  n \in U
<1> DEFINE T == Nat \ U
           R == OpToRel(<, Nat)
<1> SUFFICES ASSUME T # {} PROVE FALSE
  OBVIOUS
<1>1. T \subseteq Nat /\ IsWellFoundedOn(R, Nat)
  BY NatLessThanWellFounded
<1>2. PICK m \in T : \A y \in T : ~(<<y, m>> \in R)
  <2> HIDE DEF T, R
  <2> QED BY <1>1, WFMin
<1>3. m \in Nat \ {0} /\ m - 1 \in Nat /\ m - 1 + 1 = m
  OBVIOUS
<1>4. <<m - 1, m>> \in R
  BY <1>3 DEF OpToRel
<1> QED BY <1>2, <1>3, <1>4

\* g starts with a value and goes on as F says up to N.
Follows(g, base, F, N) == /\ g[0] = base
                          /\ \A n \in 1..N : g[n] = F[<<g[n - 1], n>>]

\* There is such a function for every beginning and every way to go on.
LEMMA Recursion ==
    ASSUME NEW S, NEW base \in S, NEW N \in Nat, NEW F \in [S \X (1..N) -> S]
    PROVE  \E g \in [0..N -> S] : Follows(g, base, F, N)
<1> USE DEF Follows
<1> DEFINE Upto(m) == \E g \in [0..m -> S] : Follows(g, base, F, m)
           U == {m \in Nat : m <= N => Upto(m)}
<1>1. 0 \in U
  <2>1. [n \in 0..0 |-> base] \in [0..0 -> S] /\ 0 \in 0..0 /\ 1..0 = {}
    OBVIOUS
  <2>2. [n \in 0..0 |-> base][0] = base
    BY <2>1
  <2> QED BY <2>1, <2>2
<1>2. ASSUME NEW m \in U PROVE m + 1 \in U
  <2> SUFFICES ASSUME m + 1 <= N PROVE Upto(m + 1)
    OBVIOUS
  <2>1. PICK g \in [0..m -> S] : Follows(g, base, F, m)
    OBVIOUS
  <2> DEFINE h == [n \in 0..(m + 1) |-> IF n = m + 1 THEN F[<<g[m], m + 1>>] ELSE g[n]]
  <2>2. <<g[m], m + 1>> \in S \X (1..N)
    <3>1. m \in 0..m /\ m + 1 \in 1..N
      OBVIOUS
    <3> QED BY <2>1, <3>1
  <2>3. h \in [0..(m + 1) -> S]
    <3>1. F[<<g[m], m + 1>>] \in S
      BY <2>2
    <3>2. \A n \in 0..(m + 1) : n # m + 1 => n \in 0..m
      OBVIOUS
    <3> QED BY <2>1, <3>1, <3>2
  <2>4. h[0] = base
    <3>1. 0 \in 0..(m + 1) /\ 0 # m + 1
      OBVIOUS
    <3> QED BY <2>1, <3>1
  <2>5. ASSUME NEW n \in 1..(m + 1) PROVE h[n] = F[<<h[n - 1], n>>]
    <3>1. n \in 0..(m + 1) /\ n - 1 \in 0..(m + 1) /\ n - 1 # m + 1
      OBVIOUS
    <3>2. h[n - 1] = g[n - 1]
      BY <3>1
    <3>3. CASE n = m + 1
      BY <3>1, <3>2, <3>3
    <3>4. CASE n # m + 1
      BY <2>1, <3>1, <3>2, <3>4
    <3> QED BY <3>3, <3>4
  <2> HIDE DEF h
  <2> QED BY <2>3, <2>4, <2>5
<1> HIDE DEF Upto
<1>3. N \in U
  <2>1. U \in SUBSET Nat
    OBVIOUS
  <2> HIDE DEF U
  <2> QED BY <1>1, <1>2, <2>1, SetInduction
<1> QED BY <1>3 DEF Upto

\* Induction up to N.
LEMMA UptoInduction ==
    ASSUME NEW N \in Nat, NEW V, 0 \in V, \A n \in 1..N : n - 1 \in V => n \in V
    PROVE  \A n \in 0..N : n \in V
<1> DEFINE U == {m \in Nat : m <= N => m \in V}
<1>1. 0 \in U
  OBVIOUS
<1>2. ASSUME NEW m \in U PROVE m + 1 \in U
  <2> SUFFICES ASSUME m + 1 <= N PROVE m + 1 \in V
    OBVIOUS
  <2>1. m \in Nat /\ m + 1 \in 1..N /\ m + 1 - 1 = m /\ m <= N
    OBVIOUS
  <2>2. m \in V
    BY <2>1
  <2> QED BY <2>1, <2>2
<1>3. \A n \in Nat : n \in U
  <2>1. U \in SUBSET Nat
    OBVIOUS
  <2> HIDE DEF U
  <2> QED BY <1>1, <1>2, <2>1, SetInduction
<1> QED BY <1>3

-----------------------------------------------------------------------------
(* What calls leave behind                                                 *)

\* The calls are numbered, and their times do not decrease.
LEMMA TimesFact ==
    ASSUME NEW s \in RateInputs
    PROVE  /\ Times(s) \in [0..MaxCalls -> Nat]
           /\ \A n \in 1..MaxCalls : Times(s)[n - 1] <= Times(s)[n]
           /\ \A i, n \in 0..MaxCalls : i <= n => Times(s)[i] <= Times(s)[n]
<1> DEFINE F == [p \in Nat \X (1..MaxCalls) |-> p[1] + s[p[2]].gap]
           Good(g) == g = [n \in 0..MaxCalls |-> IF n = 0 THEN 0 ELSE g[n - 1] + s[n].gap]
<1>1. MaxCalls \in Nat /\ Len(s) = MaxCalls /\ s \in [1..MaxCalls -> RateCalls]
  BY InputsAssumption DEF RateInputs
<1>2. \A n \in 1..MaxCalls : s[n].gap \in Nat
  BY <1>1, InputsAssumption
<1>3. F \in [Nat \X (1..MaxCalls) -> Nat]
  BY <1>2
<1>4. PICK g \in [0..MaxCalls -> Nat] : Follows(g, 0, F, MaxCalls)
  <2> DEFINE S == Nat
             zero == 0
  <2>1. zero \in S /\ MaxCalls \in Nat /\ F \in [S \X (1..MaxCalls) -> S]
    BY <1>1, <1>3
  <2>2. \E g \in [0..MaxCalls -> S] : Follows(g, zero, F, MaxCalls)
    <3> HIDE DEF F, S, zero, Good
    <3> QED BY <2>1, Recursion
  <2> QED BY <2>2
<1>5. \A n \in 1..MaxCalls : n - 1 \in 0..MaxCalls /\ g[n] = g[n - 1] + s[n].gap
  <2> SUFFICES ASSUME NEW n \in 1..MaxCalls
               PROVE  n - 1 \in 0..MaxCalls /\ g[n] = g[n - 1] + s[n].gap
    OBVIOUS
  <2>1. n - 1 \in 0..MaxCalls
    BY <1>1
  <2>2. <<g[n - 1], n>> \in Nat \X (1..MaxCalls)
    BY <1>4, <2>1
  <2> QED BY <1>4, <2>1, <2>2 DEF Follows
<1>6. Good(g)
  <2>1. \A n \in 0..MaxCalls : n = 0 \/ n \in 1..MaxCalls
    BY <1>1
  <2> HIDE DEF F
  <2> QED BY <1>4, <1>5, <2>1 DEF Follows
<1>7. Times(s) = CHOOSE h : Good(h)
  BY <1>1 DEF Times
<1>8. Good(Times(s))
  <2> HIDE DEF Good
  <2> QED BY <1>6, <1>7
<1> DEFINE at == Times(s)
<1>9. /\ at[0] = 0 /\ at = [n \in 0..MaxCalls |-> at[n]]
      /\ \A n \in 1..MaxCalls : at[n] = at[n - 1] + s[n].gap
  <2> HIDE DEF at
  <2> QED BY <1>1, <1>8 DEF at
<1>10. \A n \in 0..MaxCalls : at[n] \in Nat
  <2> DEFINE V == {n \in 0..MaxCalls : at[n] \in Nat}
  <2>1. 0 \in V /\ MaxCalls \in Nat
    BY <1>1, <1>9
  <2>2. \A n \in 1..MaxCalls : n - 1 \in V => n \in V
    <3> HIDE DEF at
    <3> SUFFICES ASSUME NEW n \in 1..MaxCalls, at[n - 1] \in Nat PROVE n \in V
      OBVIOUS
    <3>1. s[n].gap \in Nat /\ at[n] = at[n - 1] + s[n].gap
      BY <1>2, <1>9
    <3>2. n \in 0..MaxCalls
      BY <1>1
    <3> QED BY <3>1, <3>2
  <2>3. \A n \in 0..MaxCalls : n \in V
    <3> HIDE DEF V
    <3> QED BY <2>1, <2>2, UptoInduction
  <2> QED BY <2>3
<1>11. \A n \in 1..MaxCalls : n - 1 \in 0..MaxCalls /\ n \in 0..MaxCalls
  BY <1>1
<1> HIDE DEF at
<1>12. at \in [0..MaxCalls -> Nat]
  BY <1>9, <1>10
<1>13. \A n \in 1..MaxCalls : at[n - 1] <= at[n]
  <2> SUFFICES ASSUME NEW n \in 1..MaxCalls PROVE at[n - 1] <= at[n]
    OBVIOUS
  <2>1. s[n].gap \in Nat /\ at[n] = at[n - 1] + s[n].gap
    BY <1>2, <1>9
  <2>2. at[n - 1] \in Nat
    BY <1>10, <1>11
  <2> QED BY <2>1, <2>2
<1>14. \A i, n \in 0..MaxCalls : i <= n => at[i] <= at[n]
  <2> SUFFICES ASSUME NEW i \in 0..MaxCalls
               PROVE  \A n \in 0..MaxCalls : i <= n => at[i] <= at[n]
    OBVIOUS
  <2> DEFINE V == {n \in 0..MaxCalls : i <= n => at[i] <= at[n]}
  <2>1. 0 \in V
    <3>1. 0 \in 0..MaxCalls /\ (i <= 0 => i = 0)
      BY <1>1
    <3> QED BY <1>10, <3>1
  <2>2. ASSUME NEW n \in 1..MaxCalls, n - 1 \in V PROVE n \in V
    <3>1. n \in 0..MaxCalls /\ at[n] \in Nat /\ at[n - 1] \in Nat /\ at[i] \in Nat
      BY <1>10, <1>11
    <3>2. at[n - 1] <= at[n]
      BY <1>13
    <3>3. i <= n - 1 \/ i = n \/ ~(i <= n)
      OBVIOUS
    <3>4. i <= n - 1 => at[i] <= at[n - 1]
      BY <2>2
    <3> QED BY <3>1, <3>2, <3>3, <3>4
  <2>3. \A n \in 0..MaxCalls : n \in V
    <3> HIDE DEF V
    <3> QED BY <1>1, <2>1, <2>2, UptoInduction
  <2> QED BY <2>3
<1> QED BY <1>12, <1>13, <1>14 DEF at

\* A tier has a budget, whatever the tool.
LEMMA KeyFact ==
    \A call : LET key == KeyOf(call)
             IN  /\ key = <<key[1], key[2]>>
                 /\ PerMinute[key[2]] \in Nat \ {0} /\ MINUTE \in Nat \ {0}
<1> SUFFICES ASSUME NEW call PROVE /\ KeyOf(call)[2] \in {"read", "write", "heavy"}
                                   /\ KeyOf(call) = <<KeyOf(call)[1], KeyOf(call)[2]>>
  BY RateAssumption
<1>1. KeyOf(call) = <<call.user, tier_of(call.tool)>>
  BY DEF KeyOf
<1>2. tier_of(call.tool) \in {"read", "write", "heavy"}
  BY DEF tier_of
<1> QED BY <1>1, <1>2

BucketType == [tokens : Int, last_refill : Int]
Buckets(keys) == UNION {[D -> BucketType] : D \in SUBSET keys}

\* A call that the bucket e of its key, refilled by then, cannot pay takes
\* nothing, and any other call a token.
Left(e, budget, now) ==
    [tokens |-> IF Refill(e, budget, now) >= MINUTE THEN Refill(e, budget, now) - MINUTE
                ELSE Refill(e, budget, now),
     last_refill |-> now]

LEMMA EntryType ==
    ASSUME NEW keys, NEW buckets \in Buckets(keys), NEW key, NEW now \in Int,
           PerMinute[key[2]] \in Nat
    PROVE  Entry(buckets, key, now) \in BucketType
<1>1. PICK D \in SUBSET keys : buckets \in [D -> BucketType]
  BY DEF Buckets
<1>2. MINUTE \in Nat /\ PerMinute[key[2]] * MINUTE \in Int
  BY RateAssumption
<1>3. CASE key \in D
  BY <1>1, <1>3 DEF Entry
<1>4. CASE key \notin D
  <2>1. Entry(buckets, key, now) = [tokens |-> PerMinute[key[2]] * MINUTE, last_refill |-> now]
    BY <1>1, <1>4 DEF Entry
  <2> QED BY <1>2, <2>1 DEF BucketType
<1> QED BY <1>3, <1>4

LEMMA RefillType ==
    ASSUME NEW e \in BucketType, NEW budget \in Nat, NEW now \in Int
    PROVE  /\ Refill(e, budget, now) \in Int
           /\ Left(e, budget, now) \in BucketType
<1>1. MINUTE \in Int /\ e.tokens \in Int /\ e.last_refill \in Int
  BY RateAssumption DEF BucketType
<1>2. Refill(e, budget, now) \in Int
  BY <1>1 DEF Refill
<1> QED BY <1>1, <1>2 DEF Left, BucketType

\* A call changes the bucket of its own key and no other.
LEMMA CheckFact ==
    ASSUME NEW keys, NEW buckets \in Buckets(keys), NEW key \in keys, NEW now \in Int,
           PerMinute[key[2]] \in Nat
    PROVE  LET e == Entry(buckets, key, now)
               c == check(buckets, key, now)
           IN  /\ c.allowed = (Refill(e, PerMinute[key[2]], now) >= MINUTE)
               /\ c.buckets \in Buckets(keys)
               /\ Entry(c.buckets, key, now) = Left(e, PerMinute[key[2]], now)
               /\ \A k : k # key => Entry(c.buckets, k, now) = Entry(buckets, k, now)
<1> DEFINE e == Entry(buckets, key, now)
           c == check(buckets, key, now)
           left == Left(e, PerMinute[key[2]], now)
<1>1. PICK D \in SUBSET keys : buckets \in [D -> BucketType]
  BY DEF Buckets
<1>2. /\ c.allowed = (Refill(e, PerMinute[key[2]], now) >= MINUTE)
      /\ c.buckets = [k \in D \cup {key} |-> IF k # key THEN buckets[k] ELSE left]
  <2>1. DOMAIN buckets = D
    BY <1>1
  <2> QED BY <2>1 DEF check, Left
<1>3. e \in BucketType /\ left \in BucketType
  BY EntryType, RefillType
<1> HIDE DEF e, c, left
<1>4. c.buckets \in Buckets(keys)
  <2>1. c.buckets \in [D \cup {key} -> BucketType]
    BY <1>1, <1>2, <1>3
  <2>2. D \cup {key} \in SUBSET keys
    BY <1>1
  <2> QED BY <2>1, <2>2 DEF Buckets
<1>5. Entry(c.buckets, key, now) = left
  BY <1>2 DEF Entry
<1>6. \A k : k # key => Entry(c.buckets, k, now) = Entry(buckets, k, now)
  BY <1>1, <1>2 DEF Entry
<1> QED BY <1>2, <1>4, <1>5, <1>6 DEF e, c, left
\* The keys under which the calls are counted.
Keys(calls) == {KeyOf(calls[n]) : n \in 1..MaxCalls}

LEMMA CallsFact ==
    ASSUME NEW s \in RateInputs
    PROVE  LET calls == CallsOf(s)
           IN  /\ DOMAIN calls = 1..MaxCalls /\ Len(calls) = MaxCalls
               /\ \A n \in 1..MaxCalls : calls[n].at = Times(s)[n]
<1>1. MaxCalls \in Nat /\ Len(s) = MaxCalls
  BY InputsAssumption DEF RateInputs
<1> DEFINE call(n) == [at |-> Times(s)[n], user |-> s[n].user, tool |-> s[n].tool]
           C == {call(n) : n \in 1..MaxCalls}
<1>2. CallsOf(s) = [n \in 1..MaxCalls |-> call(n)]
  BY <1>1 DEF CallsOf
<1>3. CallsOf(s) \in [1..MaxCalls -> C]
  BY <1>2
<1>4. Len(CallsOf(s)) = MaxCalls
  <2> HIDE DEF C
  <2> QED BY <1>1, <1>3
<1>5. \A n \in 1..MaxCalls : CallsOf(s)[n].at = Times(s)[n]
  BY <1>2
<1> QED BY <1>2, <1>4, <1>5

\* After n calls as many have been checked, one after the other.
LEMMA CheckedFact ==
    ASSUME NEW s \in RateInputs
    PROVE  LET calls == CallsOf(s)
               g == Checked(calls)
               c(n) == check(g[n - 1].buckets, KeyOf(calls[n]), calls[n].at)
           IN  /\ g[0].allowed = {} /\ g[0].buckets = <<>>
               /\ \A n \in 1..MaxCalls :
                     /\ g[n].allowed = g[n - 1].allowed \cup (IF c(n).allowed THEN {n} ELSE {})
                     /\ g[n].buckets = c(n).buckets
               /\ \A n \in 0..MaxCalls : g[n].buckets \in Buckets(Keys(calls))
<1> DEFINE calls == CallsOf(s)
           keys == Keys(calls)
           S == [allowed : SUBSET (1..MaxCalls), buckets : Buckets(keys)]
           start == [allowed |-> {}, buckets |-> <<>>]
           Then(r, n) ==
             LET c == check(r.buckets, KeyOf(calls[n]), calls[n].at)
             IN  [allowed |-> r.allowed \cup (IF c.allowed THEN {n} ELSE {}), buckets |-> c.buckets]
           F == [p \in S \X (1..MaxCalls) |-> Then(p[1], p[2])]
           Good(g) == g = [n \in 0..MaxCalls |-> IF n = 0 THEN start ELSE Then(g[n - 1], n)]
<1>1. MaxCalls \in Nat /\ Len(calls) = MaxCalls
  BY InputsAssumption, CallsFact
<1>2. start \in S
  <2>1. <<>> \in [{} -> BucketType]
    OBVIOUS
  <2>2. <<>> \in Buckets(keys)
    BY <2>1 DEF Buckets
  <2> QED BY <2>2
<1>3. ASSUME NEW r \in S, NEW n \in 1..MaxCalls PROVE Then(r, n) \in S
  <2> DEFINE c == check(r.buckets, KeyOf(calls[n]), calls[n].at)
  <2>1. KeyOf(calls[n]) \in keys
    BY DEF Keys
  <2>2. calls[n].at \in Int
    BY <1>1, CallsFact, TimesFact
  <2>3. PerMinute[KeyOf(calls[n])[2]] \in Nat
    BY KeyFact
  <2>4. r.buckets \in Buckets(keys) /\ r.allowed \in SUBSET (1..MaxCalls)
    OBVIOUS
  <2> HIDE DEF calls, keys
  <2>5. c.buckets \in Buckets(keys)
    BY <2>1, <2>2, <2>3, <2>4, CheckFact
  <2>6. r.allowed \cup (IF c.allowed THEN {n} ELSE {}) \in SUBSET (1..MaxCalls)
    BY <2>4
  <2> HIDE DEF c
  <2> QED BY <2>5, <2>6 DEF c
<1> HIDE DEF Then, S
<1>4. F \in [S \X (1..MaxCalls) -> S]
  BY <1>3
<1>5. PICK g \in [0..MaxCalls -> S] : Follows(g, start, F, MaxCalls)
  <2> HIDE DEF F, start, Good
  <2> QED BY <1>1, <1>2, <1>4, Recursion
<1>6. \A n \in 1..MaxCalls : n - 1 \in 0..MaxCalls /\ g[n] = Then(g[n - 1], n)
  <2> SUFFICES ASSUME NEW n \in 1..MaxCalls
               PROVE  n - 1 \in 0..MaxCalls /\ g[n] = Then(g[n - 1], n)
    OBVIOUS
  <2>1. n - 1 \in 0..MaxCalls
    BY <1>1
  <2>2. <<g[n - 1], n>> \in S \X (1..MaxCalls)
    BY <1>5, <2>1
  <2> QED BY <1>5, <2>1, <2>2 DEF Follows
<1>7. Good(g)
  <2>1. \A n \in 0..MaxCalls : n = 0 \/ n \in 1..MaxCalls
    BY <1>1
  <2> HIDE DEF F, start
  <2> QED BY <1>5, <1>6, <2>1 DEF Follows
<1>8. Checked(calls) = CHOOSE h : Good(h)
  BY <1>1 DEF Checked, Then
<1>9. Good(Checked(calls))
  <2> HIDE DEF Good
  <2> QED BY <1>7, <1>8
<1> DEFINE h == Checked(calls)
<1>10. h[0] = start /\ \A n \in 1..MaxCalls : h[n] = Then(h[n - 1], n)
  <2> HIDE DEF h, start
  <2> QED BY <1>1, <1>9 DEF h
<1>11. \A n \in 0..MaxCalls : h[n] \in S
  <2> DEFINE V == {n \in 0..MaxCalls : h[n] \in S}
  <2> HIDE DEF h, start
  <2>1. 0 \in V
    BY <1>1, <1>2, <1>10
  <2>2. ASSUME NEW n \in 1..MaxCalls, n - 1 \in V PROVE n \in V
    <3>1. n \in 0..MaxCalls
      BY <1>1
    <3> QED BY <1>3, <1>10, <2>2, <3>1
  <2>3. \A n \in 0..MaxCalls : n \in V
    <3> HIDE DEF V
    <3> QED BY <1>1, <2>1, <2>2, UptoInduction
  <2> QED BY <2>3
<1>12. h[0].allowed = {} /\ h[0].buckets = <<>>
  BY <1>10
<1>13. ASSUME NEW n \in 1..MaxCalls
       PROVE  LET c == check(h[n - 1].buckets, KeyOf(calls[n]), calls[n].at)
              IN  /\ h[n].allowed = h[n - 1].allowed \cup (IF c.allowed THEN {n} ELSE {})
                  /\ h[n].buckets = c.buckets
  <2> DEFINE c == check(h[n - 1].buckets, KeyOf(calls[n]), calls[n].at)
  <2>1. h[n] = [allowed |-> h[n - 1].allowed \cup (IF c.allowed THEN {n} ELSE {}),
                buckets |-> c.buckets]
    BY <1>10 DEF Then
  <2> HIDE DEF h, c
  <2> QED BY <2>1 DEF c
<1>14. \A n \in 0..MaxCalls : h[n].buckets \in Buckets(keys)
  BY <1>11 DEF S
<1> QED BY <1>12, <1>13, <1>14
-----------------------------------------------------------------------------
(* One bucket                                                              *)

\* Of the calls that the bucket e let through, c came from some moment on and
\* w after some moment: what c calls have taken and what is left was there to
\* take, and as long as the bucket is not full all that was refilled since is
\* left or was taken.
Fits(e, budget, now, from, c, since, w) ==
    /\ e \in BucketType
    /\ 0 <= e.tokens /\ e.tokens <= budget * MINUTE
    /\ e.last_refill <= now
    /\ c = 0 \/ c * MINUTE + e.tokens <= budget * (MINUTE + e.last_refill - from)
    /\ \/ budget * MINUTE <= e.tokens + w * MINUTE
       \/ budget * (e.last_refill - since) <= e.tokens + w * MINUTE

\* A refill keeps both sides.
LEMMA RefillFits ==
    ASSUME NEW budget \in Nat, NEW now \in Int, NEW e, NEW from \in Int, NEW c \in Nat,
           NEW since \in Int, NEW w \in Nat, Fits(e, budget, now, from, c, since, w)
    PROVE  Fits([tokens |-> Refill(e, budget, now), last_refill |-> now],
                budget, now, from, c, since, w)
<1> DEFINE t == e.tokens
           l == e.last_refill
           cM == c * MINUTE
           wM == w * MINUTE
           full == budget * MINUTE
           gain == (now - l) * budget
           r == Refill(e, budget, now)
<1>1. /\ t \in Int /\ l \in Int /\ cM \in Int /\ wM \in Int /\ full \in Int /\ MINUTE \in Int
      /\ 0 <= t /\ t <= full /\ l <= now /\ 0 <= wM
  BY RateAssumption DEF Fits, BucketType
<1>2. gain \in Int /\ 0 <= gain
  BY <1>1
<1>3. r = IF t + gain > full THEN full ELSE t + gain
  BY DEF Refill
<1>4. r \in Int /\ t <= r /\ r <= full /\ r <= t + gain
  <2> HIDE DEF t, full, gain, r
  <2> QED BY <1>1, <1>2, <1>3
<1>5. /\ budget * (MINUTE + now - from) = gain + budget * (MINUTE + l - from)
      /\ budget * (now - since) = gain + budget * (l - since)
  <2> HIDE DEF l
  <2>1. budget * (MINUTE + now - from) = budget * (now - l) + budget * (MINUTE + l - from)
    BY <1>1
  <2>2. budget * (now - since) = budget * (now - l) + budget * (l - since)
    BY <1>1
  <2>3. budget * (now - l) = gain
    BY <1>1
  <2> QED BY <2>1, <2>2, <2>3
<1> DEFINE most == budget * (MINUTE + l - from)
           least == budget * (l - since)
<1>6. /\ c = 0 \/ cM + t <= most
      /\ full <= t + wM \/ least <= t + wM
      /\ most \in Int /\ least \in Int
  BY <1>1 DEF Fits
<1> HIDE DEF t, l, cM, wM, full, gain, r, most, least
<1>7. c = 0 \/ cM + r <= gain + most
  BY <1>1, <1>2, <1>4, <1>6
<1>8. full <= r + wM \/ gain + least <= r + wM
  BY <1>1, <1>2, <1>3, <1>4, <1>6
<1>9. 0 <= r
  BY <1>1, <1>4
<1> DEFINE q == [tokens |-> r, last_refill |-> now]
<1>10. q \in BucketType /\ q.tokens = r /\ q.last_refill = now
  BY <1>4 DEF BucketType
<1> HIDE DEF q
<1>11. Fits(q, budget, now, from, c, since, w)
  BY <1>4, <1>5, <1>7, <1>8, <1>9, <1>10 DEF Fits, cM, wM, full, most, least
<1> QED BY <1>11 DEF q, r
\* A refused call is not counted.  One that takes a token counts among the c
\* calls, unless these begin later still, and among the w calls unless it does
\* not come after the moment from which they count.
LEMMA LeftFits ==
    ASSUME NEW budget \in Nat, NEW now \in Int, NEW e, NEW from \in Int, NEW c \in Nat,
           NEW since \in Int, NEW w \in Nat, Fits(e, budget, now, from, c, since, w),
           NEW c2 \in Nat, NEW w2 \in Nat,
           IF Refill(e, budget, now) >= MINUTE
             THEN /\ c2 = 0 \/ (c2 = c + 1 /\ from <= now)
                  /\ w2 = IF now > since THEN w + 1 ELSE w
             ELSE c2 = c /\ w2 = w
    PROVE  Fits(Left(e, budget, now), budget, now, from, c2, since, w2)
<1> DEFINE r == Refill(e, budget, now)
           full == budget * MINUTE
           most == budget * (MINUTE + now - from)
           least == budget * (now - since)
           cM == c * MINUTE
           wM == w * MINUTE
           f == [tokens |-> r, last_refill |-> now]
<1>1. Fits(f, budget, now, from, c, since, w) /\ f.tokens = r /\ f.last_refill = now
  BY RefillFits
<1>2. CASE ~(r >= MINUTE)
  <2>1. c2 = c /\ w2 = w /\ Left(e, budget, now) = f
    BY <1>2 DEF Left
  <2> QED BY <1>1, <2>1
<1>3. CASE r >= MINUTE
  <2> DEFINE q == [tokens |-> r - MINUTE, last_refill |-> now]
  <2>1. Left(e, budget, now) = q
    BY <1>3 DEF Left
  <2>2. /\ c2 = 0 \/ (c2 = c + 1 /\ from <= now)
        /\ w2 = IF now > since THEN w + 1 ELSE w
    BY <1>3
  <2>3. /\ MINUTE \in Nat /\ full \in Int /\ most \in Int /\ least \in Int
        /\ cM \in Int /\ wM \in Nat
        /\ (c + 1) * MINUTE = cM + MINUTE /\ (w + 1) * MINUTE = wM + MINUTE
    BY RateAssumption
  <2>4. from <= now => full <= most
    <3>1. most = full + budget * (now - from)
      BY <2>3
    <3>2. from <= now => 0 <= budget * (now - from)
      OBVIOUS
    <3>3. budget * (now - from) \in Int
      OBVIOUS
    <3> HIDE DEF most, full
    <3> QED BY <2>3, <3>1, <3>2, <3>3
  <2>5. now <= since => least <= 0
    OBVIOUS
  <2> HIDE DEF r
  <2>6. /\ r \in Int /\ 0 <= r /\ r <= full
        /\ c = 0 \/ cM + r <= most
        /\ full <= r + wM \/ least <= r + wM
    BY <1>1 DEF Fits, BucketType
  <2>7. c = 0 => cM = 0
    BY <2>3
  <2> HIDE DEF full, most, least, cM, wM
  <2>8. c2 = 0 \/ c2 * MINUTE + (r - MINUTE) <= most
    BY <2>2, <2>3, <2>4, <2>6, <2>7
  <2>9. full <= (r - MINUTE) + w2 * MINUTE \/ least <= (r - MINUTE) + w2 * MINUTE
    <3>1. CASE now > since
      <4>1. w2 * MINUTE = wM + MINUTE
        BY <2>2, <2>3, <3>1
      <4> QED BY <2>3, <2>6, <4>1
    <3>2. CASE ~(now > since)
      <4>1. w2 * MINUTE = wM
        BY <2>2, <3>2 DEF wM
      <4> QED BY <1>3, <2>3, <2>5, <2>6, <3>2, <4>1
    <3> QED BY <3>1, <3>2
  <2>10. q \in BucketType /\ q.tokens = r - MINUTE /\ q.last_refill = now
    BY <2>3, <2>6 DEF BucketType
  <2>11. 0 <= r - MINUTE /\ r - MINUTE <= full
    BY <1>3, <2>3, <2>6
  <2> HIDE DEF q
  <2>12. Fits(q, budget, now, from, c2, since, w2)
    BY <2>8, <2>9, <2>10, <2>11 DEF Fits, full, most, least
  <2> QED BY <2>1, <2>12
<1> QED BY <1>2, <1>3

\* A bucket that is not looked at stays as it is, or is made later and full.
LEMMA WaitFits ==
    ASSUME NEW keys, NEW buckets \in Buckets(keys), NEW key, NEW before \in Int, NEW now \in Int,
           before <= now, PerMinute[key[2]] \in Nat,
           NEW from \in Int, NEW c \in Nat, NEW since \in Int, NEW w \in Nat,
           Fits(Entry(buckets, key, before), PerMinute[key[2]], before, from, c, since, w)
    PROVE  Fits(Entry(buckets, key, now), PerMinute[key[2]], now, from, c, since, w)
<1> DEFINE budget == PerMinute[key[2]]
           full == budget * MINUTE
<1>1. CASE key \in DOMAIN buckets
  <2>1. Entry(buckets, key, before) = Entry(buckets, key, now)
    BY <1>1 DEF Entry
  <2>2. Entry(buckets, key, now) \in BucketType
    BY EntryType
  <2> QED BY <2>1, <2>2 DEF Fits, BucketType
<1>2. CASE key \notin DOMAIN buckets
  <2> DEFINE e == [tokens |-> full, last_refill |-> before]
             f == [tokens |-> full, last_refill |-> now]
  <2>1. Entry(buckets, key, before) = e /\ Entry(buckets, key, now) = f
    BY <1>2 DEF Entry
  <2>2. MINUTE \in Nat /\ full \in Nat /\ w * MINUTE \in Nat /\ budget \in Nat
        /\ c * MINUTE \in Nat
    BY RateAssumption
  <2>3. budget * (MINUTE + before - from) <= budget * (MINUTE + now - from)
    <3> HIDE DEF budget
    <3> QED BY <2>2
  <2>4. c = 0 \/ c * MINUTE + full <= budget * (MINUTE + before - from)
    BY <2>1 DEF Fits
  <2>5. c = 0 \/ c * MINUTE + full <= budget * (MINUTE + now - from)
    <3>1. /\ budget * (MINUTE + before - from) \in Int
          /\ budget * (MINUTE + now - from) \in Int
      BY <2>2
    <3> HIDE DEF budget, full
    <3> QED BY <2>2, <2>3, <2>4, <3>1
  <2>6. f \in BucketType /\ f.tokens = full /\ f.last_refill = now
    BY <2>2 DEF BucketType
  <2> HIDE DEF f
  <2>7. Fits(f, budget, now, from, c, since, w)
    BY <2>2, <2>5, <2>6 DEF Fits
  <2> QED BY <2>1, <2>7
<1> QED BY <1>1, <1>2
-----------------------------------------------------------------------------
(* All calls                                                               *)

\* Each call is allowed or not when it comes, and stays so.
LEMMA AllowedFact ==
    ASSUME NEW s \in RateInputs
    PROVE  LET g == Checked(CallsOf(s))
           IN  /\ \A n \in 0..MaxCalls : g[n].allowed \in SUBSET (1..n)
               /\ \A i, n \in 0..MaxCalls :
                     i <= n => g[i].allowed = g[n].allowed \cap (1..i)
<1> DEFINE g == Checked(CallsOf(s))
           A(n) == g[n].allowed
           V == {n \in 0..MaxCalls : /\ A(n) \in SUBSET (1..n)
                                     /\ \A i \in 0..n : A(i) = A(n) \cap (1..i)}
<1>1. MaxCalls \in Nat
  BY InputsAssumption
<1>2. A(0) = {} /\ \A n \in 1..MaxCalls : A(n) = A(n - 1) \/ A(n) = A(n - 1) \cup {n}
  <2>1. A(0) = {}
    BY CheckedFact
  <2>2. ASSUME NEW n \in 1..MaxCalls PROVE A(n) = A(n - 1) \/ A(n) = A(n - 1) \cup {n}
    <3> DEFINE c == check(g[n - 1].buckets, KeyOf(CallsOf(s)[n]), CallsOf(s)[n].at)
    <3>1. A(n) = A(n - 1) \cup (IF c.allowed THEN {n} ELSE {})
      BY CheckedFact
    <3> HIDE DEF g, A, c
    <3> QED BY <3>1
  <2> QED BY <2>1, <2>2
<1> HIDE DEF A
<1>3. 0 \in V
  BY <1>1, <1>2
<1>4. ASSUME NEW n \in 1..MaxCalls, n - 1 \in V PROVE n \in V
  <2>1. A(n - 1) \in SUBSET (1..(n - 1)) /\ n \in 0..MaxCalls
    BY <1>1, <1>4
  <2>2. A(n) \in SUBSET (1..n)
    BY <1>2, <2>1
  <2>3. ASSUME NEW i \in 0..n PROVE A(i) = A(n) \cap (1..i)
    <3>1. CASE i = n
      BY <2>2, <3>1
    <3>2. CASE i # n
      <4>1. i \in 0..(n - 1) /\ n \notin 1..i
        BY <3>2
      <4>2. A(i) = A(n - 1) \cap (1..i)
        BY <1>4, <4>1
      <4> QED BY <1>2, <4>1, <4>2
    <3> QED BY <3>1, <3>2
  <2> QED BY <2>1, <2>2, <2>3
<1>5. \A n \in 0..MaxCalls : n \in V
  <2> HIDE DEF V
  <2> QED BY <1>1, <1>3, <1>4, UptoInduction
<1>6. \A i, n \in 0..MaxCalls : i <= n => i \in 0..n
  BY <1>1
<1> QED BY <1>5, <1>6 DEF A

\* The first n calls that passed and share the key: those from the i-th on, and
\* those that came after some moment.
From(s, key, i, n) ==
    {x \in Checked(CallsOf(s))[n].allowed : x >= i /\ KeyOf(CallsOf(s)[x]) = key}
After(s, key, since, n) ==
    {x \in Checked(CallsOf(s))[n].allowed :
        CallsOf(s)[x].at > since /\ KeyOf(CallsOf(s)[x]) = key}

LEMMA CountFact ==
    ASSUME NEW s \in RateInputs, NEW key, NEW i, NEW since, NEW n \in 0..MaxCalls
    PROVE  /\ IsFiniteSet(From(s, key, i, n)) /\ Cardinality(From(s, key, i, n)) \in Nat
           /\ IsFiniteSet(After(s, key, since, n)) /\ Cardinality(After(s, key, since, n)) \in Nat
<1>1. From(s, key, i, n) \in SUBSET (1..n) /\ After(s, key, since, n) \in SUBSET (1..n)
  BY AllowedFact DEF From, After
<1>2. IsFiniteSet(1..n)
  BY InputsAssumption, FS_Interval
<1> QED BY <1>1, <1>2, FS_Subset, FS_CardinalityType

\* One more call passes or not, with this key or another.
Counted(s, key, i, since, n) ==
    LET calls == CallsOf(s)
        passes == check(Checked(calls)[n - 1].buckets, KeyOf(calls[n]), calls[n].at).allowed
    IN  IF KeyOf(calls[n]) = key /\ passes
          THEN /\ IF n < i THEN Cardinality(From(s, key, i, n)) = 0
                  ELSE Cardinality(From(s, key, i, n))
                         = Cardinality(From(s, key, i, n - 1)) + 1
               /\ Cardinality(After(s, key, since, n))
                    = IF calls[n].at > since
                      THEN Cardinality(After(s, key, since, n - 1)) + 1
                      ELSE Cardinality(After(s, key, since, n - 1))
          ELSE /\ From(s, key, i, n) = From(s, key, i, n - 1)
               /\ After(s, key, since, n) = After(s, key, since, n - 1)

LEMMA CountStep ==
    ASSUME NEW s \in RateInputs, NEW key, NEW i \in Int, NEW since \in Int, NEW n \in 1..MaxCalls
    PROVE  Counted(s, key, i, since, n)
<1> DEFINE calls == CallsOf(s)
           passes == check(Checked(calls)[n - 1].buckets, KeyOf(calls[n]), calls[n].at).allowed
           A(m) == Checked(calls)[m].allowed
<1>1. A(n) = A(n - 1) \cup (IF passes THEN {n} ELSE {})
  BY CheckedFact
<1>2. n \in 0..MaxCalls /\ n - 1 \in 0..MaxCalls
  BY InputsAssumption
<1>3. A(n - 1) \in SUBSET (1..(n - 1)) /\ A(n) \in SUBSET (1..n)
  BY <1>2, AllowedFact
<1>4. /\ From(s, key, i, n) = {x \in A(n) : x >= i /\ KeyOf(calls[x]) = key}
      /\ From(s, key, i, n - 1) = {x \in A(n - 1) : x >= i /\ KeyOf(calls[x]) = key}
      /\ After(s, key, since, n) = {x \in A(n) : calls[x].at > since /\ KeyOf(calls[x]) = key}
      /\ After(s, key, since, n - 1)
           = {x \in A(n - 1) : calls[x].at > since /\ KeyOf(calls[x]) = key}
  BY DEF From, After
<1>5. /\ IsFiniteSet(From(s, key, i, n - 1)) /\ n \notin From(s, key, i, n - 1)
      /\ IsFiniteSet(After(s, key, since, n - 1)) /\ n \notin After(s, key, since, n - 1)
  BY <1>2, <1>3, <1>4, CountFact
<1> HIDE DEF calls, passes, A
<1>6. CASE ~(KeyOf(calls[n]) = key /\ passes)
  <2>1. /\ From(s, key, i, n) = From(s, key, i, n - 1)
        /\ After(s, key, since, n) = After(s, key, since, n - 1)
    BY <1>1, <1>4, <1>6
  <2> QED BY <1>6, <2>1 DEF Counted, calls, passes
<1>7. CASE KeyOf(calls[n]) = key /\ passes
  <2>1. A(n) = A(n - 1) \cup {n}
    BY <1>1, <1>7
  <2>2. n < i => Cardinality(From(s, key, i, n)) = 0
    <3>1. n < i => From(s, key, i, n) = {}
      BY <1>3, <1>4
    <3> QED BY <3>1, FS_EmptySet
  <2>3. ~(n < i) => From(s, key, i, n) = From(s, key, i, n - 1) \cup {n}
    BY <1>4, <1>7, <2>1
  <2>4. After(s, key, since, n) = IF calls[n].at > since THEN After(s, key, since, n - 1) \cup {n}
                                  ELSE After(s, key, since, n - 1)
    BY <1>4, <1>7, <2>1
  <2>5. IF n < i THEN Cardinality(From(s, key, i, n)) = 0
        ELSE Cardinality(From(s, key, i, n)) = Cardinality(From(s, key, i, n - 1)) + 1
    <3>1. Cardinality(From(s, key, i, n - 1) \cup {n}) = Cardinality(From(s, key, i, n - 1)) + 1
      BY <1>5, FS_AddElement
    <3> QED BY <2>2, <2>3, <3>1
  <2>6. Cardinality(After(s, key, since, n))
          = IF calls[n].at > since THEN Cardinality(After(s, key, since, n - 1)) + 1
            ELSE Cardinality(After(s, key, since, n - 1))
    <3>1. Cardinality(After(s, key, since, n - 1) \cup {n})
            = Cardinality(After(s, key, since, n - 1)) + 1
      BY <1>5, FS_AddElement
    <3> QED BY <2>4, <3>1
  <2> QED BY <1>7, <2>5, <2>6 DEF Counted, calls, passes
<1> QED BY <1>6, <1>7

\* After any number of calls the bucket of a key fits the calls it let through.
LEMMA Ledger ==
    ASSUME NEW s \in RateInputs, NEW k \in 1..MaxCalls, NEW i \in 1..MaxCalls, NEW since \in Int
    PROVE  LET calls == CallsOf(s)
               key == KeyOf(calls[k])
           IN  \A n \in 0..MaxCalls :
                 Fits(Entry(Checked(calls)[n].buckets, key, Times(s)[n]), PerMinute[key[2]],
                      Times(s)[n], Times(s)[i], Cardinality(From(s, key, i, n)),
                      since, Cardinality(After(s, key, since, n)))
<1> DEFINE calls == CallsOf(s)
           key == KeyOf(calls[k])
           budget == PerMinute[key[2]]
           at(n) == Times(s)[n]
           B(n) == Checked(calls)[n].buckets
           c(n) == Cardinality(From(s, key, i, n))
           w(n) == Cardinality(After(s, key, since, n))
           Holds(n) == Fits(Entry(B(n), key, at(n)), budget, at(n), at(i), c(n), since, w(n))
           V == {n \in 0..MaxCalls : Holds(n)}
<1>1. /\ MaxCalls \in Nat /\ key \in Keys(calls)
      /\ budget \in Nat /\ MINUTE \in Nat \ {0} /\ PerMinute[key[2]] \in Nat
  BY InputsAssumption, KeyFact DEF Keys
<1>2. i \in 0..MaxCalls /\ \A n \in 0..MaxCalls : at(n) \in Int
  BY <1>1, TimesFact
<1>3. \A n \in 0..MaxCalls : c(n) \in Nat /\ w(n) \in Nat /\ B(n) \in Buckets(Keys(calls))
  BY CountFact, CheckedFact
<1>4. 0 \in V
  <2>1. 0 \in 0..MaxCalls
    BY <1>1
  <2>2. B(0) = <<>> /\ Checked(calls)[0].allowed = {}
    BY CheckedFact
  <2>3. c(0) = 0 /\ w(0) = 0
    <3>1. From(s, key, i, 0) = {} /\ After(s, key, since, 0) = {}
      BY <2>2 DEF From, After
    <3> QED BY <3>1, FS_EmptySet
  <2> DEFINE e == [tokens |-> budget * MINUTE, last_refill |-> at(0)]
  <2>4. Entry(B(0), key, at(0)) = e
    BY <2>2 DEF Entry
  <2>5. budget * MINUTE \in Nat /\ at(0) \in Int /\ 0 * MINUTE = 0
    BY <1>1, <1>2, <2>1
  <2>6. e \in BucketType /\ e.tokens = budget * MINUTE /\ e.last_refill = at(0)
    BY <2>5 DEF BucketType
  <2> HIDE DEF e, budget, at, c, w
  <2>7. Fits(e, budget, at(0), at(i), 0, since, 0)
    BY <2>5, <2>6 DEF Fits
  <2> QED BY <2>1, <2>3, <2>4, <2>7 DEF budget
<1>5. ASSUME NEW n \in 1..MaxCalls, n - 1 \in V PROVE n \in V
  <2> DEFINE now == at(n)
             other == KeyOf(calls[n])
             e == Entry(B(n - 1), key, now)
             passes == check(B(n - 1), other, now).allowed
  <2>1. n \in 0..MaxCalls /\ n - 1 \in 0..MaxCalls /\ Holds(n - 1)
    BY <1>1, <1>5
  <2>2. /\ now \in Int /\ at(n - 1) \in Int /\ at(i) \in Int /\ at(n - 1) <= now
        /\ i <= n => at(i) <= now
    BY <1>2, <2>1, TimesFact
  <2>3. /\ c(n - 1) \in Nat /\ w(n - 1) \in Nat /\ c(n) \in Nat /\ w(n) \in Nat
        /\ B(n - 1) \in Buckets(Keys(calls))
    BY <1>3, <2>1
  <2>4. calls[n].at = now
    BY CallsFact
  <2>5. B(n) = check(B(n - 1), other, now).buckets /\ other \in Keys(calls)
    BY <2>4, CheckedFact DEF Keys
  <2>6. PerMinute[other[2]] \in Nat
    BY KeyFact
  <2>7. IF other = key /\ passes
          THEN /\ IF n < i THEN c(n) = 0 ELSE c(n) = c(n - 1) + 1
               /\ w(n) = IF now > since THEN w(n - 1) + 1 ELSE w(n - 1)
          ELSE c(n) = c(n - 1) /\ w(n) = w(n - 1)
    <3>1. i \in Int
      BY <1>1
    <3>2. Counted(s, key, i, since, n)
      BY <3>1, CountStep
    <3> QED BY <2>4, <3>2, Zenon DEF Counted
  <2> HIDE DEF calls, key, at, B, c, w, other, now, passes
  <2>8. Fits(e, budget, now, at(i), c(n - 1), since, w(n - 1))
    BY <1>1, <2>1, <2>2, <2>3, WaitFits
  <2>9. CASE other # key
    <3>1. Entry(B(n), key, now) = e
      BY <2>2, <2>3, <2>5, <2>6, <2>9, CheckFact
    <3>2. c(n) = c(n - 1) /\ w(n) = w(n - 1)
      BY <2>7, <2>9
    <3> QED BY <2>1, <2>8, <3>1, <3>2 DEF now
  <2>10. CASE other = key
    <3>1. /\ Entry(B(n), key, now) = Left(e, budget, now)
          /\ passes = (Refill(e, budget, now) >= MINUTE)
      <4>1. Entry(B(n), other, now) = Left(Entry(B(n - 1), other, now), PerMinute[other[2]], now)
        BY <2>2, <2>3, <2>5, <2>6, CheckFact
      <4>2. check(B(n - 1), other, now).allowed
              = (Refill(Entry(B(n - 1), other, now), PerMinute[other[2]], now) >= MINUTE)
        BY <2>2, <2>3, <2>5, <2>6, CheckFact
      <4> QED BY <2>10, <4>1, <4>2 DEF passes
    <3> HIDE DEF e, budget
    <3>2. IF Refill(e, budget, now) >= MINUTE
            THEN /\ c(n) = 0 \/ (c(n) = c(n - 1) + 1 /\ at(i) <= now)
                 /\ w(n) = IF now > since THEN w(n - 1) + 1 ELSE w(n - 1)
            ELSE c(n) = c(n - 1) /\ w(n) = w(n - 1)
      <4>1. n < i \/ i <= n
        OBVIOUS
      <4> QED BY <2>2, <2>7, <2>10, <3>1, <4>1
    <3>3. Fits(Left(e, budget, now), budget, now, at(i), c(n), since, w(n))
      BY <1>1, <2>2, <2>3, <2>8, <3>2, LeftFits
    <3> QED BY <2>1, <3>1, <3>3 DEF now, budget
  <2> QED BY <2>9, <2>10
<1>6. \A n \in 0..MaxCalls : n \in V
  <2> HIDE DEF V
  <2> QED BY <1>1, <1>4, <1>5, UptoInduction
<1> QED BY <1>6
\* Of the calls with the key of the j-th, those from the i-th to the j-th that
\* passed fit into a budget and what the time between them refilled.
LEMMA NotTooMany ==
    ASSUME NEW s \in RateInputs, NEW j \in 1..MaxCalls, NEW i \in 1..j
    PROVE  LET key == KeyOf(CallsOf(s)[j])
           IN  Cardinality(From(s, key, i, j)) * MINUTE
                 <= PerMinute[key[2]] * (MINUTE + Times(s)[j] - Times(s)[i])
<1> DEFINE key == KeyOf(CallsOf(s)[j])
           budget == PerMinute[key[2]]
           at(n) == Times(s)[n]
           c == Cardinality(From(s, key, i, j))
           w == Cardinality(After(s, key, 0, j))
           e == Entry(Checked(CallsOf(s))[j].buckets, key, at(j))
<1>1. /\ MaxCalls \in Nat /\ MINUTE \in Nat \ {0} /\ budget \in Nat
      /\ j \in 0..MaxCalls /\ i \in 1..MaxCalls /\ i \in 0..MaxCalls /\ i <= j
  BY InputsAssumption, KeyFact, SMTT(20)
<1>2. at(i) \in Int /\ at(j) \in Int /\ at(i) <= at(j)
  BY <1>1, TimesFact
<1>3. c \in Nat
  BY <1>1, CountFact
<1>4. Fits(e, budget, at(j), at(i), c, 0, w)
  BY <1>1, Ledger
<1> HIDE DEF key, budget, at, c, w, e
<1>5. /\ e.tokens \in Int /\ e.last_refill \in Int /\ 0 <= e.tokens /\ e.last_refill <= at(j)
      /\ c = 0 \/ c * MINUTE + e.tokens <= budget * (MINUTE + e.last_refill - at(i))
  BY <1>4 DEF Fits, BucketType
<1> DEFINE l == e.last_refill
           most == budget * (MINUTE + at(j) - at(i))
           less == budget * (MINUTE + l - at(i))
<1>6. most \in Int /\ less \in Int /\ less <= most /\ 0 <= most
  <2>1. /\ MINUTE + l - at(i) \in Int /\ MINUTE + at(j) - at(i) \in Nat
        /\ MINUTE + l - at(i) <= MINUTE + at(j) - at(i)
    BY <1>1, <1>2, <1>5
  <2>2. \A b, y \in Nat : \A x \in Int : x <= y => b * x <= b * y
    OBVIOUS
  <2> QED BY <1>1, <2>1, <2>2
<1>7. c * MINUTE \in Int /\ (c = 0 => c * MINUTE = 0)
  BY <1>1, <1>3
<1> HIDE DEF most, less
<1>8. c * MINUTE <= most
  BY <1>5, <1>6, <1>7 DEF less, l
<1> QED BY <1>8 DEF most, c, budget, at, key

\* A refused call had as many calls of its key pass within a minute as the
\* budget allows.
LEMMA EnoughPassed ==
    ASSUME NEW s \in RateInputs, NEW j \in 1..MaxCalls,
           j \notin Checked(CallsOf(s))[j].allowed
    PROVE  LET key == KeyOf(CallsOf(s)[j])
           IN  Cardinality(After(s, key, Times(s)[j] - MINUTE, j)) >= PerMinute[key[2]]
<1> DEFINE calls == CallsOf(s)
           key == KeyOf(calls[j])
           budget == PerMinute[key[2]]
           now == Times(s)[j]
           since == now - MINUTE
           before == Checked(calls)[j - 1].buckets
           w == Cardinality(After(s, key, since, j))
           e == Entry(before, key, now)
           r == Refill(e, budget, now)
<1>1. /\ MaxCalls \in Nat /\ MINUTE \in Nat \ {0} /\ budget \in Nat /\ PerMinute[key[2]] \in Nat
      /\ j \in 0..MaxCalls /\ j - 1 \in 0..MaxCalls /\ key \in Keys(calls)
  BY InputsAssumption, KeyFact DEF Keys
<1>2. now \in Int /\ since \in Int /\ calls[j].at = now
  BY <1>1, TimesFact, CallsFact
<1>3. w \in Nat
  BY <1>1, CountFact
<1>4. before \in Buckets(Keys(calls))
  BY <1>1, CheckedFact
<1>5. Checked(calls)[j].buckets = check(before, key, now).buckets
  BY <1>2, CheckedFact
<1>6. ~check(before, key, now).allowed
  BY <1>2, CheckedFact
<1>7. Fits(Entry(Checked(calls)[j].buckets, key, now), budget, now, now,
           Cardinality(From(s, key, j, j)), since, w)
  BY <1>1, <1>2, Ledger
<1> HIDE DEF calls, key, now, since, before, w
<1>8. /\ check(before, key, now).allowed = (Refill(e, PerMinute[key[2]], now) >= MINUTE)
      /\ Entry(check(before, key, now).buckets, key, now) = Left(e, PerMinute[key[2]], now)
  BY <1>1, <1>2, <1>4, CheckFact
<1>9. e \in BucketType
  BY <1>1, <1>2, <1>4, EntryType
<1> HIDE DEF e, budget
<1>10. r \in Int /\ ~(r >= MINUTE)
  BY <1>1, <1>2, <1>6, <1>8, <1>9, RefillType DEF budget
<1> DEFINE q == [tokens |-> r, last_refill |-> now]
<1>11. Entry(Checked(calls)[j].buckets, key, now) = q /\ q.tokens = r /\ q.last_refill = now
  BY <1>5, <1>8, <1>10 DEF Left, budget
<1> HIDE DEF r, q
<1>12. budget * MINUTE <= r + w * MINUTE \/ budget * (now - since) <= r + w * MINUTE
  BY <1>7, <1>11 DEF Fits
<1>13. now - since = MINUTE
  BY <1>1, <1>2 DEF since
<1>14. budget * MINUTE <= r + w * MINUTE
  BY <1>12, <1>13
<1>15. budget * MINUTE < (w + 1) * MINUTE
  <2>1. /\ budget * MINUTE \in Int /\ w * MINUTE \in Int
        /\ (w + 1) * MINUTE = w * MINUTE + MINUTE
    BY <1>1, <1>3
  <2> QED BY <1>1, <1>10, <1>14, <2>1
<1>16. w >= budget
  <2> SUFFICES ASSUME w + 1 <= budget PROVE FALSE
    BY <1>1, <1>3
  <2>1. \A x, y, m \in Nat : x <= y => x * m <= y * m
    OBVIOUS
  <2>2. (w + 1) * MINUTE <= budget * MINUTE
    BY <1>1, <1>3, <2>1
  <2>3. budget * MINUTE \in Int /\ (w + 1) * MINUTE \in Int
    BY <1>1, <1>3
  <2> QED BY <1>15, <2>2, <2>3
<1> QED BY <1>16 DEF w, budget, since, now, key, calls
\* RateBound and RefusedOnlyOverBudget say so of the passed calls.
LEMMA RateFact ==
    ASSUME NEW s \in RateInputs, alg = "rate", in = s, out = Allowed(CallsOf(s))
    PROVE  RateKept
<1> DEFINE calls == CallsOf(s)
           A(n) == Checked(calls)[n].allowed
<1>1. /\ MaxCalls \in Nat /\ DOMAIN calls = 1..MaxCalls /\ out = A(MaxCalls)
      /\ \A n \in 1..MaxCalls : calls[n].at = Times(s)[n]
  BY InputsAssumption, CallsFact DEF Allowed
<1>2. \A j \in 1..MaxCalls : A(j) = out \cap (1..j)
  BY <1>1, AllowedFact
<1>3. ASSUME NEW j \in 1..MaxCalls, NEW i \in 1..j
      PROVE  Cardinality(Passed(calls, j, i, j)) * MINUTE
               <= PerMinute[KeyOf(calls[j])[2]] * (MINUTE + calls[j].at - calls[i].at)
  <2>1. Passed(calls, j, i, j) = From(s, KeyOf(calls[j]), i, j)
    BY <1>2 DEF Passed, From
  <2>2. calls[j].at = Times(s)[j] /\ calls[i].at = Times(s)[i]
    BY <1>1
  <2> QED BY <2>1, <2>2, NotTooMany
<1>4. ASSUME NEW j \in (1..MaxCalls) \ out
      PROVE  LET recent == {i \in 1..j : calls[i].at > calls[j].at - MINUTE}
             IN  Cardinality(Passed(calls, j, 1, j) \cap recent) >= PerMinute[KeyOf(calls[j])[2]]
  <2> DEFINE recent == {i \in 1..j : calls[i].at > calls[j].at - MINUTE}
  <2>1. Passed(calls, j, 1, j) \cap recent = After(s, KeyOf(calls[j]), Times(s)[j] - MINUTE, j)
    BY <1>1, <1>2 DEF Passed, After
  <2>2. j \notin A(j)
    BY <1>2
  <2> QED BY <2>1, <2>2, EnoughPassed
<1> HIDE DEF A
<1>5. RateBound
  BY <1>1, <1>3 DEF RateBound
<1>6. RefusedOnlyOverBudget
  BY <1>1, <1>4 DEF RefusedOnlyOverBudget
<1> QED BY <1>5, <1>6 DEF RateKept

\* In no stretch of time does a user get more out of a tier than a full budget
\* and its refill, and nobody is refused who did not get a whole budget within
\* the last minute (RateKept), in any sequence of calls to RateLimiter::check.
THEOREM RateLimited == Spec => []RateKept
<1> DEFINE Ran == alg = "rate" => in \in RateInputs /\ (done => out = Allowed(CallsOf(in)))
<1>1. Ran => RateKept
  <2>1. CASE alg = "rate" /\ done
    BY <2>1, RateFact
  <2>2. CASE ~(alg = "rate" /\ done)
    BY <2>2 DEF RateKept, RateBound, RefusedOnlyOverBudget
  <2> QED BY <2>1, <2>2
<1>2. Init => Ran
  BY DEF Init
<1>3. Ran /\ [Next]_vars => Ran'
  BY DEF Next, Run, vars
<1> QED BY <1>1, <1>2, <1>3, PTL DEF Spec

-----------------------------------------------------------------------------
(* The concepts of an owner                                                *)

\* Of the names that the model returned, however many, no more new concepts
\* are taken than the limit leaves room for.
LEMMA TakenFew ==
    ASSUME NEW n \in Nat, NEW nc, DOMAIN nc = 1..n, NEW count \in Nat
    PROVE  /\ IsFiniteSet(TakenNew(nc, count))
           /\ Cardinality(TakenNew(nc, count)) <= Remaining(count)
<1> DEFINE R == Remaining(count)
           V == {j \in 1..n : is_valid(nc[j]) /\ Cardinality(ValidUpTo(nc, j)) <= R}
           f == [j \in V |-> Cardinality(ValidUpTo(nc, j))]
           g == [j \in V |-> nc[j]]
<1>1. R \in Nat
  BY LimitAssumption DEF Remaining
<1>2. ASSUME NEW j \in 1..n
      PROVE  IsFiniteSet(ValidUpTo(nc, j)) /\ Cardinality(ValidUpTo(nc, j)) \in Nat
  <2>1. IsFiniteSet(1..j) /\ ValidUpTo(nc, j) \in SUBSET (1..j)
    BY FS_Interval DEF ValidUpTo
  <2>2. IsFiniteSet(ValidUpTo(nc, j))
    BY <2>1, FS_Subset
  <2> QED BY <2>2, FS_CardinalityType
<1>3. ASSUME NEW i \in V, NEW j \in V, i < j
      PROVE  Cardinality(ValidUpTo(nc, i)) < Cardinality(ValidUpTo(nc, j))
  <2>1. ValidUpTo(nc, i) \subseteq ValidUpTo(nc, j)
    BY <1>3 DEF ValidUpTo
  <2>2. j \in ValidUpTo(nc, j) /\ j \notin ValidUpTo(nc, i)
    BY <1>3 DEF ValidUpTo
  <2>3. /\ IsFiniteSet(ValidUpTo(nc, j))
        /\ Cardinality(ValidUpTo(nc, i)) \in Nat /\ Cardinality(ValidUpTo(nc, j)) \in Nat
    BY <1>2
  <2>4. /\ Cardinality(ValidUpTo(nc, i)) <= Cardinality(ValidUpTo(nc, j))
        /\ Cardinality(ValidUpTo(nc, i)) # Cardinality(ValidUpTo(nc, j))
    BY <2>1, <2>2, <2>3, FS_Subset
  <2> QED BY <2>3, <2>4
<1>4. f \in Injection(V, 1..R)
  <2>1. ASSUME NEW j \in V PROVE f[j] \in 1..R
    <3>1. IsFiniteSet(ValidUpTo(nc, j)) /\ j \in ValidUpTo(nc, j)
      BY <1>2 DEF ValidUpTo
    <3>2. Cardinality(ValidUpTo(nc, j)) # 0
      BY <3>1, FS_EmptySet
    <3> QED BY <1>1, <1>2, <3>2
  <2>2. ASSUME NEW i \in V, NEW j \in V, f[i] = f[j] PROVE i = j
    <3>1. i \in Nat /\ j \in Nat /\ f[i] \in Nat /\ f[j] \in Nat
      BY <1>1, <2>1
    <3>2. f[i] = Cardinality(ValidUpTo(nc, i)) /\ f[j] = Cardinality(ValidUpTo(nc, j))
      OBVIOUS
    <3>3. ~(i < j) /\ ~(j < i)
      BY <1>3, <2>2, <3>1, <3>2
    <3> QED BY <3>1, <3>3
  <2>3. f \in [V -> 1..R]
    <3>1. f = [j \in V |-> f[j]]
      OBVIOUS
    <3> HIDE DEF f, V
    <3> QED BY <2>1, <3>1
  <2> HIDE DEF f, V
  <2> QED BY <2>2, <2>3 DEF Injection, IsInjective
<1>5. IsFiniteSet(V) /\ Cardinality(V) <= R
  <2> HIDE DEF f, V, R
  <2>1. IsFiniteSet(1..R) /\ Cardinality(1..R) = R
    <3>1. 1 \in Int /\ R \in Int
      BY <1>1
    <3>2. IsFiniteSet(1..R) /\ Cardinality(1..R) = IF 1 > R THEN 0 ELSE R - 1 + 1
      BY <3>1, FS_Interval
    <3> QED BY <1>1, <3>2
  <2> QED BY <1>4, <2>1, FS_Injection
<1>6. TakenNew(nc, count) = {nc[j] : j \in V}
  BY DEF TakenNew
<1>7. g \in Surjection(V, {nc[j] : j \in V})
  <2> HIDE DEF V
  <2> QED BY DEF Surjection
<1>8. /\ IsFiniteSet(TakenNew(nc, count))
      /\ Cardinality(TakenNew(nc, count)) <= Cardinality(V)
  <2> HIDE DEF g, V
  <2> QED BY <1>5, <1>6, <1>7, FS_Surjection
<1>9. Cardinality(V) \in Nat /\ Cardinality(TakenNew(nc, count)) \in Nat
  BY <1>5, <1>8, FS_CardinalityType
<1> HIDE DEF V, R
<1>10. Cardinality(TakenNew(nc, count)) <= R
  BY <1>1, <1>5, <1>8, <1>9
<1> QED BY <1>8, <1>10 DEF R

\* Writing a wiki for every affected concept keeps an owner within the limit,
\* whatever names the model returned (BudgetKept), for any limit.
THEOREM ConceptsWithinBudget == Spec => []BudgetKept
<1> DEFINE Result(r) == Affected(r.existing, Cardinality(r.existing),
                                 r.affected_existing, r.new_concepts)
           Ran == alg = "budget" => in \in BudgetInputs /\ (done => out = Result(in))
<1>1. ASSUME NEW r \in BudgetInputs PROVE Cardinality(r.existing \cup Result(r)) <= ConceptLimit
  <2> DEFINE taken == TakenNew(r.new_concepts, Cardinality(r.existing))
  <2>1. /\ IsFiniteSet(r.existing) /\ Cardinality(r.existing) <= ConceptLimit
        /\ \E n \in Nat : DOMAIN r.new_concepts = 1..n
    BY InputsAssumption DEF BudgetInputs, UpToLen
  <2>2. Cardinality(r.existing) \in Nat /\ ConceptLimit \in Nat
    BY <2>1, FS_CardinalityType, LimitAssumption
  <2>3. IsFiniteSet(taken) /\ Cardinality(taken) <= Remaining(Cardinality(r.existing))
    BY <2>1, <2>2, TakenFew
  <2>4. r.existing \cup Result(r) = r.existing \cup taken
    BY DEF Affected
  <2> HIDE DEF taken
  <2>5. IsFiniteSet(r.existing \cap taken) /\ Cardinality(r.existing \cap taken) \in Nat
    BY <2>1, <2>3, FS_Intersection, FS_CardinalityType
  <2>6. Cardinality(r.existing \cup taken)
          = Cardinality(r.existing) + Cardinality(taken) - Cardinality(r.existing \cap taken)
    BY <2>1, <2>3, FS_Union
  <2>7. Cardinality(taken) \in Nat /\ Cardinality(taken) <= ConceptLimit - Cardinality(r.existing)
    BY <2>1, <2>2, <2>3, FS_CardinalityType DEF Remaining
  <2> HIDE DEF Result
  <2>8. Cardinality(r.existing \cup taken) <= ConceptLimit
    BY <2>2, <2>5, <2>6, <2>7
  <2> QED BY <2>4, <2>8
<1>2. Ran => BudgetKept
  <2> HIDE DEF Result
  <2> QED BY <1>1 DEF BudgetKept
<1>3. Init => Ran
  BY DEF Init
<1>4. Ran /\ [Next]_vars => Ran'
  BY DEF Next, Run, vars
<1> QED BY <1>2, <1>3, <1>4, PTL DEF Spec
-----------------------------------------------------------------------------
(* Rotation of keys                                                        *)

\* A non-empty set of numbers has a least one.
LEMMA LeastNumber ==
    ASSUME NEW T \in SUBSET Nat, T # {}
    PROVE  \E m \in T : \A k \in T : m <= k
<1> DEFINE R == OpToRel(<, Nat)
<1>1. IsWellFoundedOn(R, Nat)
  BY NatLessThanWellFounded
<1>2. PICK m \in T : \A y \in T : ~(<<y, m>> \in R)
  <2> HIDE DEF R
  <2> QED BY <1>1, WFMin
<1>3. \A x, y \in Nat : y < x => <<y, x>> \in R
  BY DEF OpToRel
<1>4. \A x, y \in Nat : y < x \/ x <= y
  OBVIOUS
<1> QED BY <1>2, <1>3, <1>4

\* The order of kids is total: the first place where two differ decides.
LEMMA KidTotal ==
    ASSUME NEW a \in Seq(Nat), NEW b \in Seq(Nat), a # b
    PROVE  KidBefore(a, b) \/ KidBefore(b, a)
<1> DEFINE End == Len(a) + Len(b) + 1
           T == {i \in Nat \ {0} : i > Len(a) \/ i > Len(b) \/ a[i] # b[i]}
<1>1. Len(a) \in Nat /\ Len(b) \in Nat
  OBVIOUS
<1>2. T \in SUBSET Nat /\ End \in T
  BY <1>1
<1>3. PICK i \in T : \A k \in T : i <= k
  <2> HIDE DEF T
  <2> QED BY <1>2, LeastNumber
<1>4. \A k \in 1..i - 1 : k \notin T
  BY <1>3
<1>5. /\ \A k \in 1..i - 1 : k <= Len(a) /\ k <= Len(b) /\ a[k] = b[k]
      /\ i <= Len(a) + 1 /\ i <= Len(b) + 1
  <2>1. \A k \in 1..i - 1 : k <= Len(a) /\ k <= Len(b) /\ a[k] = b[k]
    BY <1>1, <1>4
  <2>2. i = 1 \/ i - 1 \in 1..i - 1
    BY <1>3
  <2> QED BY <1>1, <1>3, <2>1, <2>2
<1>6. CASE i = Len(a) + 1 /\ i = Len(b) + 1
  <2>1. Len(a) = Len(b) /\ \A k \in 1..Len(a) : a[k] = b[k]
    BY <1>1, <1>5, <1>6
  <2>2. a = [k \in 1..Len(a) |-> a[k]] /\ b = [k \in 1..Len(b) |-> b[k]]
    OBVIOUS
  <2> QED BY <2>1, <2>2
<1>7. CASE i = Len(a) + 1 /\ i <= Len(b)
  <2>1. i \in 1..Len(b) /\ i > Len(a)
    BY <1>1, <1>3, <1>7
  <2> QED BY <1>5, <2>1 DEF KidBefore
<1>8. CASE i <= Len(a) /\ i = Len(b) + 1
  <2>1. i \in 1..Len(a) /\ i > Len(b)
    BY <1>1, <1>3, <1>8
  <2> QED BY <1>5, <2>1 DEF KidBefore
<1>9. CASE i <= Len(a) /\ i <= Len(b)
  <2>1. i \in 1..Len(a) /\ i \in 1..Len(b) /\ a[i] # b[i]
    BY <1>1, <1>3, <1>9
  <2>2. a[i] < b[i] \/ b[i] < a[i]
    BY <2>1
  <2> QED BY <1>5, <2>1, <2>2 DEF KidBefore
<1> QED BY <1>1, <1>3, <1>5, <1>6, <1>7, <1>8, <1>9
LEMMA Characters ==
    ASSUME NEW a \in Seq(Nat)
    PROVE  Len(a) \in Nat /\ \A k \in 1..Len(a) : a[k] \in Nat
OBVIOUS

LEMMA KidTransitive ==
    ASSUME NEW a \in Seq(Nat), NEW b \in Seq(Nat), NEW c \in Seq(Nat),
           KidBefore(a, b), KidBefore(b, c)
    PROVE  KidBefore(a, c)
<1>1. PICK i \in 1..Len(b) : /\ \A k \in 1..i - 1 : k <= Len(a) /\ a[k] = b[k]
                             /\ i > Len(a) \/ a[i] < b[i]
  BY DEF KidBefore
<1>2. PICK j \in 1..Len(c) : /\ \A k \in 1..j - 1 : k <= Len(b) /\ b[k] = c[k]
                             /\ j > Len(b) \/ b[j] < c[j]
  BY DEF KidBefore
<1>3. /\ Len(a) \in Nat /\ Len(b) \in Nat /\ Len(c) \in Nat
      /\ \A k \in 1..Len(a) : a[k] \in Nat
      /\ \A k \in 1..Len(b) : b[k] \in Nat
      /\ \A k \in 1..Len(c) : c[k] \in Nat
  BY Characters
<1>4. CASE i < j
  <2>1. i \in 1..Len(c) /\ i \in 1..j - 1 /\ \A k \in 1..i - 1 : k \in 1..j - 1
    BY <1>3, <1>4
  <2> QED BY <1>1, <1>2, <2>1 DEF KidBefore
<1>5. CASE i = j
  <2>1. b[i] < c[i] /\ b[i] \in Nat /\ c[i] \in Nat
    BY <1>2, <1>3, <1>5
  <2>2. i > Len(a) \/ a[i] < c[i]
    <3> SUFFICES ASSUME ~(i > Len(a)) PROVE a[i] < c[i]
      OBVIOUS
    <3>1. i \in 1..Len(a) /\ a[i] < b[i]
      BY <1>1, <1>3
    <3>2. a[i] \in Nat
      BY <1>3, <3>1
    <3>3. \A x, y, z \in Nat : x < y /\ y < z => x < z
      OBVIOUS
    <3> QED BY <2>1, <3>1, <3>2, <3>3
  <2>3. i \in 1..Len(c) /\ \A k \in 1..i - 1 : k <= Len(a) /\ a[k] = c[k]
    BY <1>1, <1>2, <1>5
  <2> QED BY <2>2, <2>3 DEF KidBefore
<1>6. CASE j < i
  <2>1. j \in 1..i - 1 /\ j \in 1..Len(b) /\ \A k \in 1..j - 1 : k \in 1..i - 1
    BY <1>3, <1>6
  <2>2. a[j] < c[j]
    BY <1>1, <1>2, <1>3, <2>1
  <2> QED BY <1>1, <1>2, <2>1, <2>2 DEF KidBefore
<1> QED BY <1>3, <1>4, <1>5, <1>6

LEMMA KidIrreflexive == ASSUME NEW a \in Seq(Nat) PROVE ~KidBefore(a, a)
<1> SUFFICES ASSUME NEW i \in 1..Len(a), i > Len(a) \/ a[i] < a[i] PROVE FALSE
  BY DEF KidBefore
<1>1. a[i] \in Nat /\ Len(a) \in Nat
  OBVIOUS
<1> QED BY <1>1

\* from_env finds a current key, whatever order the environment comes in.
LEMMA CurrentFact ==
    ASSUME NEW K \in SUBSET Seq(Nat), IsFiniteSet(K), K # {}
    PROVE  /\ CurrentKid(K) \in K
           /\ \A j \in K : j = CurrentKid(K) \/ KidBefore(j, CurrentKid(K))
<1> DEFINE Top(S, m) == m \in S /\ \A j \in S : j = m \/ KidBefore(j, m)
           U == {n \in Nat : \A S \in SUBSET K :
                    Cardinality(S) = n + 1 => \E m \in S : Top(S, m)}
<1>1. \A S \in SUBSET K : IsFiniteSet(S) /\ Cardinality(S) \in Nat
  BY FS_Subset, FS_CardinalityType
<1>2. ASSUME NEW S \in SUBSET K, Cardinality(S) # 0 PROVE \E x \in S : TRUE
  BY <1>2, FS_EmptySet
<1>3. 0 \in U
  <2> SUFFICES ASSUME NEW S \in SUBSET K, Cardinality(S) = 0 + 1 PROVE \E m \in S : Top(S, m)
    OBVIOUS
  <2>1. PICK m \in S : TRUE
    BY <1>2
  <2>2. Cardinality(S \ {m}) = 0
    <3>1. IsFiniteSet(S) /\ Cardinality(S) = 1
      BY <1>1
    <3>2. Cardinality(S \ {m}) = Cardinality(S) - 1
      BY <2>1, <3>1, FS_RemoveElement
    <3> QED BY <3>1, <3>2
  <2>3. S \ {m} = {}
    BY <1>1, <2>2, FS_EmptySet
  <2> QED BY <2>1, <2>3
<1>4. ASSUME NEW n \in U PROVE n + 1 \in U
  <2> SUFFICES ASSUME NEW S \in SUBSET K, Cardinality(S) = n + 1 + 1
               PROVE  \E m \in S : Top(S, m)
    OBVIOUS
  <2>1. PICK x \in S : TRUE
    BY <1>2
  <2>2. Cardinality(S \ {x}) = n + 1
    BY <1>1, <2>1, FS_RemoveElement
  <2>3. PICK m \in S \ {x} : Top(S \ {x}, m)
    BY <2>2
  <2>4. m \in Seq(Nat) /\ x \in Seq(Nat) /\ m # x /\ S \in SUBSET Seq(Nat)
    BY <2>3
  <2>5. CASE KidBefore(x, m)
    BY <2>3, <2>5
  <2>6. CASE KidBefore(m, x)
    <3>1. \A j \in S : j = x \/ KidBefore(j, x)
      BY <2>3, <2>4, <2>6, KidTransitive
    <3> QED BY <2>1, <3>1
  <2> QED BY <2>4, <2>5, <2>6, KidTotal
<1>5. \E m \in K : Top(K, m)
  <2>1. Cardinality(K) # 0 /\ Cardinality(K) \in Nat
    BY <1>1, FS_EmptySet
  <2>2. Cardinality(K) - 1 \in Nat /\ Cardinality(K) = Cardinality(K) - 1 + 1
    BY <2>1
  <2>3. U \in SUBSET Nat
    OBVIOUS
  <2>4. Cardinality(K) - 1 \in U
    <3> HIDE DEF U
    <3> QED BY <1>3, <1>4, <2>2, <2>3, SetInduction
  <2> QED BY <2>2, <2>4
<1> QED BY <1>5 DEF CurrentKid
\* The numbers that the first characters of a kid stand for.
Numbers(kid) ==
    LET number[n \in 0..Len(kid)] == IF n <= 1 THEN 0 ELSE 10 * number[n - 1] + kid[n] - 48
    IN  number

LEMMA NumbersFact ==
    ASSUME NEW kid \in Kids
    PROVE  /\ Numbers(kid) \in [0..Len(kid) -> Nat]
           /\ \A n \in 0..Len(kid) :
                 Numbers(kid)[n] = IF n <= 1 THEN 0 ELSE 10 * Numbers(kid)[n - 1] + kid[n] - 48
<1> DEFINE N == Len(kid)
           S == Nat
           zero == 0
           Then(x, n) == IF n <= 1 THEN 0 ELSE 10 * x + kid[n] - 48
           F == [p \in S \X (1..N) |-> Then(p[1], p[2])]
           Good(g) == g = [n \in 0..N |-> IF n <= 1 THEN 0 ELSE 10 * g[n - 1] + kid[n] - 48]
<1>1. N \in Nat /\ \A n \in 2..N : kid[n] - 48 \in Nat
  <2>1. kid \in Seq(Nat) /\ \A n \in 2..N : kid[n] \in 48..57
    BY KidsAssumption
  <2>2. N \in Nat
    BY <2>1
  <2>3. \A c \in 48..57 : c - 48 \in Nat
    OBVIOUS
  <2> QED BY <2>1, <2>2, <2>3
<1>2. ASSUME NEW x \in S, NEW n \in 1..N PROVE Then(x, n) \in S
  <2>1. CASE n <= 1
    BY <2>1
  <2>2. CASE ~(n <= 1)
    <3>1. n \in 2..N
      BY <1>1, <2>2
    <3>2. kid[n] - 48 \in Nat /\ 10 * x \in Nat /\ kid[n] \in Int
      BY <1>1, <3>1, KidsAssumption
    <3> QED BY <2>2, <3>2
  <2> QED BY <2>1, <2>2
<1>3. zero \in S /\ F \in [S \X (1..N) -> S]
  <2> HIDE DEF Then
  <2> QED BY <1>2
<1>4. PICK g \in [0..N -> S] : Follows(g, zero, F, N)
  <2> HIDE DEF N, S, zero, F, Good, Then
  <2> QED BY <1>1, <1>3, Recursion
<1>5. ASSUME NEW n \in 0..N
      PROVE  g[n] = IF n <= 1 THEN 0 ELSE 10 * g[n - 1] + kid[n] - 48
  <2>1. CASE n = 0
    BY <1>4, <2>1 DEF Follows
  <2>2. CASE n # 0
    <3>1. n \in 1..N /\ n - 1 \in 0..N
      BY <1>1, <2>2
    <3>2. <<g[n - 1], n>> \in S \X (1..N)
      BY <1>4, <3>1
    <3>3. g[n] = Then(g[n - 1], n)
      <4> HIDE DEF Then
      <4> QED BY <1>4, <3>1, <3>2 DEF Follows
    <3> QED BY <3>3
  <2> QED BY <2>1, <2>2
<1>6. Good(g)
  <2> HIDE DEF F
  <2> QED BY <1>4, <1>5
<1>7. Good(Numbers(kid))
  <2>1. Numbers(kid) = CHOOSE h : Good(h)
    BY DEF Numbers
  <2> HIDE DEF Good
  <2> QED BY <1>6, <2>1
<1> DEFINE h == Numbers(kid)
<1>8. /\ h = [n \in 0..N |-> h[n]]
      /\ \A n \in 0..N : h[n] = IF n <= 1 THEN 0 ELSE 10 * h[n - 1] + kid[n] - 48
  <2> HIDE DEF h
  <2> QED BY <1>7 DEF h
<1>9. \A n \in 0..N : h[n] \in Nat
  <2> DEFINE V == {n \in 0..N : h[n] \in Nat}
  <2> HIDE DEF h
  <2>1. 0 \in V
    <3>1. 0 \in 0..N
      BY <1>1
    <3>2. h[0] = 0
      BY <1>8, <3>1
    <3> QED BY <3>1, <3>2
  <2>2. ASSUME NEW n \in 1..N, n - 1 \in V PROVE n \in V
    <3>1. n \in 0..N /\ h[n - 1] \in S
      BY <1>1, <2>2
    <3>2. h[n] = Then(h[n - 1], n)
      BY <1>8, <3>1
    <3> HIDE DEF Then
    <3> QED BY <1>2, <3>1, <3>2
  <2>3. \A n \in 0..N : n \in V
    <3> HIDE DEF V, N
    <3> QED BY <1>1, <2>1, <2>2, UptoInduction
  <2> QED BY <2>3
<1> HIDE DEF h
<1>10. h \in [0..N -> Nat]
  BY <1>8, <1>9
<1> QED BY <1>8, <1>10 DEF h

\* Of two kids with as many digits the one with the smaller number comes first.
LEMMA SmallerFirst ==
    ASSUME NEW a \in Kids, NEW b \in Kids, Len(a) = Len(b), Version(a) < Version(b)
    PROVE  KidBefore(a, b)
<1> DEFINE p == Numbers(a)
           q == Numbers(b)
           N == Len(a)
<1>1. /\ a \in Seq(Nat) /\ b \in Seq(Nat) /\ N \in Nat /\ Len(b) = N
      /\ N # 0 => a[1] = 118 /\ b[1] = 118
  BY KidsAssumption
<1>2. Version(a) = p[N] /\ Version(b) = q[N]
  BY DEF Version, Numbers
<1>3. /\ \A n \in 0..N : p[n] \in Nat /\ q[n] \in Nat
      /\ \A n \in 0..N : p[n] = IF n <= 1 THEN 0 ELSE 10 * p[n - 1] + a[n] - 48
      /\ \A n \in 0..N : q[n] = IF n <= 1 THEN 0 ELSE 10 * q[n - 1] + b[n] - 48
  BY NumbersFact
<1> SUFFICES ASSUME ~KidBefore(a, b) PROVE FALSE
  OBVIOUS
<1> HIDE DEF p, q
<1>4. a # b
  <2>1. N \in 0..N
    BY <1>1
  <2>2. p[N] < q[N] /\ p[N] \in Nat /\ q[N] \in Nat
    BY <1>2, <1>3, <2>1
  <2> QED BY <2>2 DEF p, q
<1>5. KidBefore(b, a)
  BY <1>1, <1>4, KidTotal
<1>6. PICK i \in 1..N : (\A k \in 1..i - 1 : b[k] = a[k]) /\ b[i] < a[i]
  <2>1. PICK i \in 1..Len(a) : /\ \A k \in 1..i - 1 : k <= Len(b) /\ b[k] = a[k]
                               /\ i > Len(b) \/ b[i] < a[i]
    BY <1>5 DEF KidBefore
  <2>2. ~(i > Len(b))
    BY <1>1
  <2> QED BY <2>1, <2>2
<1>7. i # 1
  BY <1>1, <1>6
<1> DEFINE V == {n \in 0..N : IF n < i THEN q[n] = p[n] ELSE q[n] < p[n]}
<1>8. 0 \in V
  BY <1>1, <1>3, <1>6
<1>9. ASSUME NEW n \in 1..N, n - 1 \in V PROVE n \in V
  <2>1. n \in 0..N /\ n - 1 \in 0..N
    BY <1>1
  <2>2. CASE n = 1
    BY <1>3, <1>6, <1>7, <2>1, <2>2
  <2>3. CASE n # 1
    <3>1. /\ p[n] = 10 * p[n - 1] + a[n] - 48 /\ q[n] = 10 * q[n - 1] + b[n] - 48
          /\ p[n - 1] \in Nat /\ q[n - 1] \in Nat
      BY <1>3, <2>1, <2>3
    <3>2. a[n] \in 48..57 /\ b[n] \in 48..57
      <4>1. n \in 2..Len(a) /\ n \in 2..Len(b)
        BY <1>1, <2>3
      <4> QED BY <4>1, KidsAssumption
    <3>3. CASE n < i
      <4>1. q[n - 1] = p[n - 1] /\ b[n] = a[n]
        BY <1>6, <1>9, <3>3
      <4> QED BY <2>1, <3>1, <3>3, <4>1
    <3>4. CASE n = i
      <4>1. q[n - 1] = p[n - 1] /\ b[n] < a[n]
        BY <1>6, <1>9, <3>4
      <4>2. q[n] < p[n]
        <5> DEFINE x == p[n - 1]
                   c == a[n]
                   d == b[n]
        <5>1. /\ x \in Nat /\ c \in 48..57 /\ d \in 48..57 /\ d < c
              /\ p[n] = 10 * x + c - 48 /\ q[n] = 10 * x + d - 48
          BY <3>1, <3>2, <4>1
        <5> HIDE DEF x, c, d
        <5> QED BY <5>1
      <4> QED BY <2>1, <3>4, <4>2
    <3>5. CASE n > i
      <4>1. q[n - 1] < p[n - 1]
        BY <1>6, <1>9, <3>5
      <4>2. q[n] < p[n]
        <5> DEFINE x == p[n - 1]
                   y == q[n - 1]
                   c == a[n]
                   d == b[n]
        <5>1. /\ x \in Nat /\ y \in Nat /\ y < x /\ c \in 48..57 /\ d \in 48..57
              /\ p[n] = 10 * x + c - 48 /\ q[n] = 10 * y + d - 48
          BY <3>1, <3>2, <4>1
        <5> HIDE DEF x, y, c, d
        <5> QED BY <5>1
      <4> QED BY <2>1, <3>5, <4>2
    <3> QED BY <1>6, <3>3, <3>4, <3>5
  <2> QED BY <2>2, <2>3
<1>10. N \in V
  <2>1. N \in 0..N
    BY <1>1
  <2> HIDE DEF V, N
  <2> QED BY <1>1, <1>8, <1>9, <2>1, UptoInduction
<1>11. N \in 0..N /\ ~(N < i)
  BY <1>1
<1>12. q[N] < p[N] /\ p[N] \in Nat /\ q[N] \in Nat
  BY <1>3, <1>10, <1>11
<1> QED BY <1>2, <1>12
\* A server that started has the usable keys of its environment and signs with
\* the last of their kids.
LEMMA StartedFact ==
    ASSUME NEW n \in Nat, NEW env \in Envs(GoodKeys \cup ShortKeys, n)
                                     \cup Envs(GoodKeys \cup GarbledKeys, n),
           KeysOf(env).started
    PROVE  LET current == CurrentKid(DOMAIN env)
           IN  /\ DOMAIN env \in SUBSET Kids
               /\ current \in DOMAIN env
               /\ \A k \in DOMAIN env : k = current \/ KidBefore(k, current)
               /\ KeysOf(env).current_kid = current
               /\ KeysOf(env).keys = [kid \in DOMAIN env |-> env[kid].secret]
               /\ \A kid \in DOMAIN env : env[kid] = KeyNamed(env[kid].secret)
<1>1. PICK K \in SUBSET Kids : /\ IsFiniteSet(K)
                               /\ env \in [K -> GoodKeys \cup ShortKeys \cup GarbledKeys]
  <2>1. CASE env \in Envs(GoodKeys \cup ShortKeys, n)
    BY <2>1 DEF Envs
  <2>2. CASE env \in Envs(GoodKeys \cup GarbledKeys, n)
    BY <2>2 DEF Envs
  <2> QED BY <2>1, <2>2
<1>2. DOMAIN env = K
  BY <1>1
<1>3. /\ K # {} /\ \A kid \in K : UsableKey(env[kid])
      /\ KeysOf(env) = [started |-> TRUE, current_kid |-> CurrentKid(K),
                        keys |-> [kid \in K |-> env[kid].secret]]
  <2>1. KeysOf(env) = WikiKeys(env) \/ KeysOf(env) = RefusedStart
    BY DEF KeysOf, GraphKeys
  <2>2. KeysOf(env) # RefusedStart
    BY DEF RefusedStart
  <2> QED BY <1>2, <2>1, <2>2 DEF WikiKeys
<1>4. CurrentKid(K) \in K /\ \A k \in K : k = CurrentKid(K) \/ KidBefore(k, CurrentKid(K))
  <2>1. K \in SUBSET Seq(Nat)
    BY KidsAssumption
  <2> QED BY <1>1, <1>3, <2>1, CurrentFact
<1>5. ASSUME NEW kid \in K PROVE env[kid] = KeyNamed(env[kid].secret)
  <2>1. env[kid] \in GoodKeys \cup ShortKeys \cup GarbledKeys
    BY <1>1
  <2>2. UsableKey(env[kid])
    BY <1>3
  <2> DEFINE key == env[kid]
  <2> HIDE DEF key
  <2>3. key \in GoodKeys \cup ShortKeys \cup GarbledKeys /\ key.base64
        /\ key.bytes >= MIN_HS256_KEY_BYTES /\ MIN_HS256_KEY_BYTES \in Nat
    BY <2>1, <2>2, TokenAssumption DEF key, UsableKey
  <2>4. key \notin ShortKeys
    <3> SUFFICES ASSUME key \in ShortKeys PROVE FALSE
      OBVIOUS
    <3>1. PICK secret \in Secrets : key = [KeyNamed(secret) EXCEPT !.bytes = @ - 1]
      BY DEF ShortKeys, GoodKeys
    <3>2. key.bytes = MIN_HS256_KEY_BYTES - 1
      BY <3>1 DEF KeyNamed
    <3> QED BY <2>3, <3>2
  <2>5. key \notin GarbledKeys
    <3> SUFFICES ASSUME key \in GarbledKeys PROVE FALSE
      OBVIOUS
    <3>1. PICK secret \in Secrets : key = [KeyNamed(secret) EXCEPT !.base64 = FALSE]
      BY DEF GarbledKeys, GoodKeys
    <3> QED BY <2>3, <3>1 DEF KeyNamed
  <2>6. PICK secret \in Secrets : key = KeyNamed(secret)
    BY <2>3, <2>4, <2>5 DEF GoodKeys
  <2>7. key = KeyNamed(key.secret)
    BY <2>6 DEF KeyNamed
  <2> QED BY <2>7 DEF key
<1> QED BY <1>1, <1>2, <1>3, <1>4, <1>5

LEMMA RotationFact ==
    ASSUME alg = "jwt", in \in JwtInputs, done, out = JwtResult, out.started
    PROVE  KeyRotation
<1> DEFINE before == KeysOf(in.before)
           after == KeysOf(in.after)
           signer == CurrentKid(DOMAIN in.before)
           newest == CurrentKid(DOMAIN in.after)
           token == issue(before, "u1", 0)
<1>1. /\ in.before \in Envs(GoodKeys \cup ShortKeys, MaxKeys)
      /\ in.after \in Envs(GoodKeys \cup GarbledKeys, MaxKeys + 1)
      /\ in.age \in Nat /\ MaxKeys \in Nat
  BY InputsAssumption, KidsAssumption DEF JwtInputs
<1>2. before.started /\ after.started
  BY DEF JwtResult
<1>3. out.answer = verify(after, token, in.age) /\ out.kid = issue(after, "u1", in.age).kid
  <2>1. JwtResult = [started |-> TRUE, answer |-> verify(after, token, in.age),
                     kid |-> issue(after, "u1", in.age).kid]
    BY <1>2 DEF JwtResult
  <2> HIDE DEF before, after, token
  <2> QED BY <2>1
<1>4. /\ signer \in DOMAIN in.before
      /\ before.current_kid = signer
      /\ before.keys = [kid \in DOMAIN in.before |-> in.before[kid].secret]
      /\ \A kid \in DOMAIN in.before : in.before[kid] = KeyNamed(in.before[kid].secret)
  BY <1>1, <1>2, StartedFact
<1>5. /\ DOMAIN in.after \in SUBSET Kids /\ newest \in DOMAIN in.after
      /\ \A k \in DOMAIN in.after : k = newest \/ KidBefore(k, newest)
      /\ after.current_kid = newest
      /\ after.keys = [kid \in DOMAIN in.after |-> in.after[kid].secret]
      /\ \A kid \in DOMAIN in.after : in.after[kid] = KeyNamed(in.after[kid].secret)
  <2>1. MaxKeys + 1 \in Nat
    BY <1>1
  <2> QED BY <1>1, <1>2, <2>1, StartedFact
<1> HIDE DEF before, after
<1>6. /\ token.kid = signer /\ token.secret = in.before[signer].secret
      /\ token.sub = "u1" /\ token.exp = 0 + ACCESS_TOKEN_TTL_SECS
  BY <1>4 DEF issue
<1> HIDE DEF token, signer, newest
<1>7. TokenLife
  <2>1. signer = CHOOSE kid \in DOMAIN in.before :
                    \A k \in DOMAIN in.before : k = kid \/ KidBefore(k, kid)
    BY DEF signer, CurrentKid
  <2>2. token.exp < in.age - LEEWAY <=> ~(in.age <= ACCESS_TOKEN_TTL_SECS + LEEWAY)
    BY <1>1, <1>6, TokenAssumption
  <2>3. signer \in DOMAIN in.after =>
          /\ after.keys[signer] = in.after[signer].secret
          /\ token.secret = after.keys[signer] <=> in.after[signer] = in.before[signer]
    <3> SUFFICES ASSUME signer \in DOMAIN in.after
                 PROVE  /\ after.keys[signer] = in.after[signer].secret
                        /\ token.secret = after.keys[signer] <=> in.after[signer] = in.before[signer]
      OBVIOUS
    <3>1. /\ after.keys[signer] = in.after[signer].secret
          /\ in.after[signer] = KeyNamed(in.after[signer].secret)
      BY <1>5
    <3>2. in.before[signer] = KeyNamed(in.before[signer].secret)
      BY <1>4
    <3> QED BY <1>6, <3>1, <3>2
  <2>4. DOMAIN after.keys = DOMAIN in.after
    BY <1>5
  <2>5. out.answer = "u1" <=> /\ in.age <= ACCESS_TOKEN_TTL_SECS + LEEWAY
                              /\ signer \in DOMAIN in.after
                              /\ in.after[signer] = in.before[signer]
    BY <1>3, <1>6, <2>2, <2>3, <2>4 DEF verify
  <2> QED BY <2>1, <2>5 DEF TokenLife
<1>8. NewKeySigns
  <2> SUFFICES ASSUME NEW kid \in DOMAIN in.after \ DOMAIN in.before,
                      DOMAIN in.after = DOMAIN in.before \cup {kid},
                      \A k \in DOMAIN in.before : Len(k) = Len(kid) /\ Version(k) < Version(kid)
               PROVE  out.kid = kid
    BY DEF NewKeySigns
  <2>1. out.kid = newest
    BY <1>3, <1>5 DEF issue
  <2>2. CASE newest # kid
    <3>1. newest \in DOMAIN in.before /\ newest \in Kids /\ kid \in Kids
      BY <1>5, <2>2
    <3>2. KidBefore(newest, kid)
      BY <3>1, SmallerFirst
    <3>3. KidBefore(kid, newest)
      BY <1>5, <2>2
    <3>4. newest \in Seq(Nat) /\ kid \in Seq(Nat)
      BY <3>1, KidsAssumption
    <3> QED BY <3>2, <3>3, <3>4, KidTransitive, KidIrreflexive
  <2> QED BY <2>1, <2>2
<1> QED BY <1>7, <1>8 DEF KeyRotation

\* A token is good until it has expired, as long as the server it is shown to
\* has its key under the same kid, and a new key with a larger number of as
\* many digits is the one that signs (KeyRotation), for from_env, issue and
\* verify of both generations, any kids, keys and lifetimes.
THEOREM KeysRotate == Spec => []KeyRotation
<1> DEFINE Ran == alg = "jwt" => in \in JwtInputs /\ (done => out = JwtResult)
<1>1. Ran => KeyRotation
  <2>1. CASE alg = "jwt" /\ done /\ out.started
    BY <2>1, RotationFact
  <2>2. CASE ~(alg = "jwt" /\ done /\ out.started)
    BY <2>2 DEF KeyRotation, TokenLife, NewKeySigns
  <2> QED BY <2>1, <2>2
<1>2. Init => Ran
  BY DEF Init
<1>3. Ran /\ [Next]_vars => Ran'
  <2> SUFFICES ASSUME Ran, [Next]_vars PROVE Ran'
    OBVIOUS
  <2>1. CASE UNCHANGED vars
    BY <2>1 DEF vars, JwtResult, KeysOf
  <2>2. CASE Next
    <3>1. UNCHANGED <<alg, in>> /\ (alg = "jwt" => out' = JwtResult)
      BY <2>2 DEF Next, Run
    <3>2. JwtResult' = JwtResult
      BY <3>1 DEF JwtResult, KeysOf
    <3>3. JwtInputs' = JwtInputs
      BY DEF JwtInputs
    <3> QED BY <3>1, <3>2, <3>3
  <2> QED BY <2>1, <2>2
<1> QED BY <1>1, <1>2, <1>3, PTL DEF Spec

-----------------------------------------------------------------------------
(* ToolArgs and WikiToolArgs                                               *)

\* What the values of a JSON document are.
IsValue(v) == \/ v \in {Absent, Null, Other, Object}
              \/ \E w : v = Str(w)
              \/ \E n \in Int : v = Num(n)
              \/ \E n \in Nat : v = Array(n)

LEMMA KindsFact ==
    /\ Absent.kind = "absent" /\ Null.kind = "null" /\ Bad.kind = "bad"
    /\ \A w : Str(w).kind = "string" /\ Str(w).word = w
    /\ \A n : Num(n).kind = "integer" /\ Num(n).n = n
    /\ \A n : Array(n).kind = "array" /\ Array(n).n = n
BY DEF Absent, Null, Bad, Str, Num, Array, Value

\* What the keywords of a property come to.
TextConforms(s, required, v) ==
    FieldConforms(s, v) <=> IF v = Absent THEN ~required ELSE v.kind = "string"
SolidConforms(s, required, v) ==
    FieldConforms(s, v) <=> IF v = Absent THEN ~required
                            ELSE v.kind = "string" /\ v.word \notin {"empty", "blank"}
WordConforms(s, required, words, v) ==
    FieldConforms(s, v) <=> IF v = Absent THEN ~required
                            ELSE v.kind = "string" /\ v.word \in words
NumberConforms(s, required, lo, hi, v) ==
    FieldConforms(s, v) <=> IF v = Absent THEN ~required
                            ELSE v.kind = "integer" /\ v.n \in lo..hi
ItemsConforms(s, required, lo, v) ==
    FieldConforms(s, v) <=> IF v = Absent THEN ~required
                            ELSE v.kind = "array" /\ v.n >= lo
ObjectConforms(s, required, v) ==
    FieldConforms(s, v) <=> IF v = Absent THEN ~required ELSE v.kind = "object"

LEMMA OptionalText ==
    ASSUME NEW p, NEW v
    PROVE  TextConforms(String(p), FALSE, v) /\ String(p).default = Absent
<1> DEFINE s == String(p)
<1>1. /\ s.type = "string" /\ s.required = FALSE /\ s.pattern = FALSE /\ s.words = AnyWord
      /\ s.default = Absent
  BY Zenon DEF String, Spec0
<1> HIDE DEF s
<1>2. TextConforms(s, FALSE, v) /\ s.default = Absent
  BY <1>1 DEF TextConforms, FieldConforms
<1> QED BY <1>2 DEF s

LEMMA RequiredText ==
    ASSUME NEW p, NEW v
    PROVE  TextConforms(Required(String(p)), TRUE, v) /\ Required(String(p)).default = Absent
<1> DEFINE s == Required(String(p))
<1>1. /\ s.type = "string" /\ s.required = TRUE /\ s.pattern = FALSE /\ s.words = AnyWord
      /\ s.default = Absent
  BY Zenon DEF Required, String, Spec0
<1> HIDE DEF s
<1>2. TextConforms(s, TRUE, v) /\ s.default = Absent
  BY <1>1 DEF TextConforms, FieldConforms
<1> QED BY <1>2 DEF s

LEMMA OptionalSolid ==
    ASSUME NEW p, NEW v
    PROVE  SolidConforms(Solid(p), FALSE, v) /\ Solid(p).default = Absent
<1> DEFINE s == Solid(p)
<1>1. /\ s.type = "string" /\ s.required = FALSE /\ s.pattern = TRUE /\ s.words = AnyWord
      /\ s.default = Absent
  BY Zenon DEF Solid, String, Spec0
<1> HIDE DEF s
<1>2. SolidConforms(s, FALSE, v) /\ s.default = Absent
  BY <1>1 DEF SolidConforms, FieldConforms
<1> QED BY <1>2 DEF s

LEMMA RequiredSolid ==
    ASSUME NEW p, NEW v
    PROVE  SolidConforms(Required(Solid(p)), TRUE, v) /\ Required(Solid(p)).default = Absent
<1> DEFINE s == Required(Solid(p))
<1>1. /\ s.type = "string" /\ s.required = TRUE /\ s.pattern = TRUE /\ s.words = AnyWord
      /\ s.default = Absent
  BY Zenon DEF Required, Solid, String, Spec0
<1> HIDE DEF s
<1>2. SolidConforms(s, TRUE, v) /\ s.default = Absent
  BY <1>1 DEF SolidConforms, FieldConforms
<1> QED BY <1>2 DEF s

LEMMA OptionalWord ==
    ASSUME NEW p, NEW v, NEW words, NEW d, words # AnyWord
    PROVE  WordConforms(Enum(p, words, d), FALSE, words, v) /\ Enum(p, words, d).default = d
<1> DEFINE s == Enum(p, words, d)
<1>1. /\ s.type = "string" /\ s.required = FALSE /\ s.pattern = FALSE /\ s.words = words
      /\ s.default = d
  BY Zenon DEF Enum, String, Spec0
<1> HIDE DEF s
<1>2. WordConforms(s, FALSE, words, v) /\ s.default = d
  BY <1>1 DEF WordConforms, FieldConforms, AnyWord
<1> QED BY <1>2 DEF s

LEMMA RequiredWord ==
    ASSUME NEW p, NEW v, NEW words, NEW d, words # AnyWord
    PROVE  WordConforms(Required(Enum(p, words, d)), TRUE, words, v) /\ Required(Enum(p, words, d)).default = d
<1> DEFINE s == Required(Enum(p, words, d))
<1>1. /\ s.type = "string" /\ s.required = TRUE /\ s.pattern = FALSE /\ s.words = words
      /\ s.default = d
  BY Zenon DEF Required, Enum, String, Spec0
<1> HIDE DEF s
<1>2. WordConforms(s, TRUE, words, v) /\ s.default = d
  BY <1>1 DEF WordConforms, FieldConforms, AnyWord
<1> QED BY <1>2 DEF s

LEMMA OptionalNumber ==
    ASSUME NEW p, NEW v, NEW lo, NEW hi, NEW d
    PROVE  NumberConforms(Integer(p, lo, hi, d), FALSE, lo, hi, v) /\ Integer(p, lo, hi, d).default = d
<1> DEFINE s == Integer(p, lo, hi, d)
<1>1. /\ s.type = "integer" /\ s.required = FALSE /\ s.pattern = FALSE /\ s.words = AnyWord
      /\ s.default = d /\ s.minimum = lo /\ s.maximum = hi
  BY Zenon DEF Integer, Spec0
<1> HIDE DEF s
<1>2. NumberConforms(s, FALSE, lo, hi, v) /\ s.default = d
  BY <1>1 DEF NumberConforms, FieldConforms
<1> QED BY <1>2 DEF s

LEMMA RequiredNumber ==
    ASSUME NEW p, NEW v, NEW lo, NEW hi, NEW d
    PROVE  NumberConforms(Required(Integer(p, lo, hi, d)), TRUE, lo, hi, v) /\ Required(Integer(p, lo, hi, d)).default = d
<1> DEFINE s == Required(Integer(p, lo, hi, d))
<1>1. /\ s.type = "integer" /\ s.required = TRUE /\ s.pattern = FALSE /\ s.words = AnyWord
      /\ s.default = d /\ s.minimum = lo /\ s.maximum = hi
  BY Zenon DEF Required, Integer, Spec0
<1> HIDE DEF s
<1>2. NumberConforms(s, TRUE, lo, hi, v) /\ s.default = d
  BY <1>1 DEF NumberConforms, FieldConforms
<1> QED BY <1>2 DEF s

LEMMA OptionalItems ==
    ASSUME NEW p, NEW v, NEW lo
    PROVE  ItemsConforms(Items(p, lo), FALSE, lo, v) /\ Items(p, lo).default = Absent
<1> DEFINE s == Items(p, lo)
<1>1. /\ s.type = "array" /\ s.required = FALSE /\ s.pattern = FALSE /\ s.words = AnyWord
      /\ s.default = Absent /\ s.minimum = lo
  BY Zenon DEF Items, Spec0
<1> HIDE DEF s
<1>2. ItemsConforms(s, FALSE, lo, v) /\ s.default = Absent
  BY <1>1 DEF ItemsConforms, FieldConforms
<1> QED BY <1>2 DEF s

LEMMA RequiredItems ==
    ASSUME NEW p, NEW v, NEW lo
    PROVE  ItemsConforms(Required(Items(p, lo)), TRUE, lo, v) /\ Required(Items(p, lo)).default = Absent
<1> DEFINE s == Required(Items(p, lo))
<1>1. /\ s.type = "array" /\ s.required = TRUE /\ s.pattern = FALSE /\ s.words = AnyWord
      /\ s.default = Absent /\ s.minimum = lo
  BY Zenon DEF Required, Items, Spec0
<1> HIDE DEF s
<1>2. ItemsConforms(s, TRUE, lo, v) /\ s.default = Absent
  BY <1>1 DEF ItemsConforms, FieldConforms
<1> QED BY <1>2 DEF s

LEMMA OptionalObject ==
    ASSUME NEW p, NEW v
    PROVE  ObjectConforms(Nested(p), FALSE, v) /\ Nested(p).default = Absent
<1> DEFINE s == Nested(p)
<1>1. /\ s.type = "object" /\ s.required = FALSE /\ s.pattern = FALSE /\ s.words = AnyWord
      /\ s.default = Absent
  BY Zenon DEF Nested, Spec0
<1> HIDE DEF s
<1>2. ObjectConforms(s, FALSE, v) /\ s.default = Absent
  BY <1>1 DEF ObjectConforms, FieldConforms
<1> QED BY <1>2 DEF s

LEMMA RequiredObject ==
    ASSUME NEW p, NEW v
    PROVE  ObjectConforms(Required(Nested(p)), TRUE, v) /\ Required(Nested(p)).default = Absent
<1> DEFINE s == Required(Nested(p))
<1>1. /\ s.type = "object" /\ s.required = TRUE /\ s.pattern = FALSE /\ s.words = AnyWord
      /\ s.default = Absent
  BY Zenon DEF Required, Nested, Spec0
<1> HIDE DEF s
<1>2. ObjectConforms(s, TRUE, v) /\ s.default = Absent
  BY <1>1 DEF ObjectConforms, FieldConforms
<1> QED BY <1>2 DEF s

\* What a property says of a field, and what a field is sent as.
Sends(s, v, sent) ==
    sent # Bad => /\ FieldConforms(s, sent)
                  /\ s.default # Absent => sent # Absent
                  /\ v = Absent /\ s.default # Absent => sent = s.default
FieldAgrees(s, v, sent) == (FieldConforms(s, v) => sent # Bad) /\ Sends(s, v, sent)

LEMMA TextFields ==
    ASSUME NEW p, NEW v
    PROVE  /\ FieldAgrees(Required(Solid(p)), v, require_str_field(v))
           /\ FieldAgrees(Solid(p), v, optional_str_field(v))
           /\ FieldAgrees(String(p), v, optional_str_field(v))
           /\ FieldAgrees(Required(String(p)), v, StringField(v))
           /\ FieldAgrees(String(p), v, OptionString(v))
<1>1. FieldAgrees(Required(Solid(p)), v, require_str_field(v))
  <2> DEFINE s == Required(Solid(p))
             sent == require_str_field(v)
  <2>1. SolidConforms(s, TRUE, v) /\ SolidConforms(s, TRUE, sent) /\ s.default = Absent
    BY RequiredSolid
  <2> HIDE DEF s
  <2>2. FieldAgrees(s, v, sent)
    BY <2>1, KindsFact DEF SolidConforms, FieldAgrees, Sends, require_str_field
  <2> QED BY <2>2 DEF s
<1>2. FieldAgrees(Solid(p), v, optional_str_field(v))
  <2> DEFINE s == Solid(p)
             sent == optional_str_field(v)
  <2>1. SolidConforms(s, FALSE, v) /\ SolidConforms(s, FALSE, sent) /\ s.default = Absent
    BY OptionalSolid
  <2> HIDE DEF s
  <2>2. FieldAgrees(s, v, sent)
    BY <2>1, KindsFact DEF SolidConforms, FieldAgrees, Sends, optional_str_field, IsNone
  <2> QED BY <2>2 DEF s
<1>3. FieldAgrees(String(p), v, optional_str_field(v))
  <2> DEFINE s == String(p)
             sent == optional_str_field(v)
  <2>1. TextConforms(s, FALSE, v) /\ TextConforms(s, FALSE, sent) /\ s.default = Absent
    BY OptionalText
  <2> HIDE DEF s
  <2>2. FieldAgrees(s, v, sent)
    BY <2>1, KindsFact DEF TextConforms, FieldAgrees, Sends, optional_str_field, IsNone
  <2> QED BY <2>2 DEF s
<1>4. FieldAgrees(Required(String(p)), v, StringField(v))
  <2> DEFINE s == Required(String(p))
             sent == StringField(v)
  <2>1. TextConforms(s, TRUE, v) /\ TextConforms(s, TRUE, sent) /\ s.default = Absent
    BY RequiredText
  <2> HIDE DEF s
  <2>2. FieldAgrees(s, v, sent)
    BY <2>1, KindsFact DEF TextConforms, FieldAgrees, Sends, StringField
  <2> QED BY <2>2 DEF s
<1>5. FieldAgrees(String(p), v, OptionString(v))
  <2> DEFINE s == String(p)
             sent == OptionString(v)
  <2>1. TextConforms(s, FALSE, v) /\ TextConforms(s, FALSE, sent) /\ s.default = Absent
    BY OptionalText
  <2> HIDE DEF s
  <2>2. FieldAgrees(s, v, sent)
    BY <2>1, KindsFact DEF TextConforms, FieldAgrees, Sends, OptionString, StringField, IsNone
  <2> QED BY <2>2 DEF s
<1> QED BY <1>1, <1>2, <1>3, <1>4, <1>5

LEMMA EnumField ==
    ASSUME NEW p, NEW v, NEW words, NEW d \in words, words # AnyWord
    PROVE  FieldAgrees(Enum(p, words, Str(d)), v, OneOf(v, words, Str(d)))
<1> DEFINE s == Enum(p, words, Str(d))
           sent == OneOf(v, words, Str(d))
<1>1. WordConforms(s, FALSE, words, v) /\ WordConforms(s, FALSE, words, sent) /\ s.default = Str(d)
  BY OptionalWord
<1> HIDE DEF s
<1>2. FieldAgrees(s, v, sent)
  BY <1>1, KindsFact DEF WordConforms, FieldAgrees, Sends, OneOf, IsNone
<1> QED BY <1>2 DEF s

LEMMA IntegerField ==
    ASSUME NEW p, NEW v, NEW lo, NEW hi, NEW d, lo \in Int, hi \in Int, d \in lo..hi
    PROVE  FieldAgrees(Integer(p, lo, hi, Num(d)), v, optional_bounded_i32(v, lo, hi, Num(d)))
<1> DEFINE s == Integer(p, lo, hi, Num(d))
           sent == optional_bounded_i32(v, lo, hi, Num(d))
<1>1. NumberConforms(s, FALSE, lo, hi, v) /\ NumberConforms(s, FALSE, lo, hi, sent) /\ s.default = Num(d)
  <2> HIDE DEF sent
  <2>1. \A x : NumberConforms(Integer(p, lo, hi, Num(d)), FALSE, lo, hi, x)
    BY OptionalNumber, Zenon
  <2>2. Integer(p, lo, hi, Num(d)).default = Num(d)
    BY Zenon DEF Integer, Spec0
  <2> QED BY <2>1, <2>2, Zenon
<1> HIDE DEF s
<1>2. FieldAgrees(s, v, sent)
  BY <1>1, KindsFact DEF NumberConforms, FieldAgrees, Sends, optional_bounded_i32, IsNone
<1> QED BY <1>2 DEF s

\* An inputSchema and a handler that agree on the arguments a, up to an excuse.
Agree(schema, a, request, excuse) ==
    /\ Conforms(schema, a) /\ Refused(request) => excuse
    /\ Refused(request) \/ \A f \in DOMAIN request \cap DOMAIN schema :
           /\ FieldConforms(schema[f], request[f])
           /\ schema[f].default # Absent => request[f] # Absent
           /\ a[f] = Absent /\ schema[f].default # Absent => request[f] = schema[f].default

Holds(v) == v.kind = "object" \/ (v.kind = "array" /\ v.n > 0)

\* The properties a check of the arguments comes to: those of the root, and
\* those of an object or array that it comes to and that is there.
Checks(h, schema, a) ==
    \A f \in DOMAIN schema :
        /\ h[f] => FieldConforms(schema[f], a[f])
        /\ schema[f].parent = Root => h[f]
        /\ h[schema[f].parent] /\ Holds(a[schema[f].parent]) => h[f]

\* No property is nested deeper than four.
Shallow(schema) ==
    LET Up(f) == schema[f].parent
    IN  \A f \in DOMAIN schema :
            \/ Up(f) = Root
            \/ /\ Up(f) \in DOMAIN schema
               /\ \/ Up(Up(f)) = Root
                  \/ /\ Up(Up(f)) \in DOMAIN schema
                     /\ \/ Up(Up(Up(f))) = Root
                        \/ /\ Up(Up(Up(f))) \in DOMAIN schema
                           /\ Up(Up(Up(Up(f)))) = Root

LEMMA ConformsUnfolds ==
    ASSUME NEW schema, NEW a, Shallow(schema), Conforms(schema, a)
    PROVE  \E h : Checks(h, schema, a)
<1> DEFINE D == DOMAIN schema
           Up(f) == schema[f].parent
           H(f) == Holds(a[Up(f)])
           R1(f) == Up(f) = Root
           R2(f) == R1(f) \/ (H(f) /\ R1(Up(f)))
           R3(f) == R1(f) \/ (H(f) /\ R2(Up(f)))
           R4(f) == R1(f) \/ (H(f) /\ R3(Up(f)))
           g == [f \in D |-> R4(f)]
           Good(h) == h = [f \in D |-> R1(f) \/ (H(f) /\ h[Up(f)])]
           c == CHOOSE h : Good(h)
<1>1. \A f \in D : c[f] => FieldConforms(schema[f], a[f])
  BY Zenon DEF Conforms, Holds
<1>2. \A f \in D : ~R1(f) => (Up(f) \in D /\ (R3(Up(f)) <=> R4(Up(f))))
  <2> SUFFICES ASSUME NEW f \in D, ~R1(f) PROVE Up(f) \in D /\ (R3(Up(f)) <=> R4(Up(f)))
    OBVIOUS
  <2>1. /\ Up(f) \in D
        /\ \/ R1(Up(f))
           \/ R1(Up(Up(f)))
           \/ R1(Up(Up(Up(f))))
    BY DEF Shallow
  <2> HIDE DEF H, Up
  <2>2. CASE R1(Up(f))
    BY <2>1, <2>2, Zenon
  <2>3. CASE R1(Up(Up(f)))
    BY <2>1, <2>3, Zenon
  <2>4. CASE R1(Up(Up(Up(f))))
    BY <2>1, <2>4, Zenon
  <2> QED BY <2>1, <2>2, <2>3, <2>4, Zenon
<1>3. Good(g)
  <2>1. \A f \in D : R4(f) <=> (R1(f) \/ (H(f) /\ g[Up(f)]))
    <3> SUFFICES ASSUME NEW f \in D PROVE R4(f) <=> (R1(f) \/ (H(f) /\ g[Up(f)]))
      OBVIOUS
    <3>1. CASE R1(f)
      BY <3>1, Zenon
    <3>2. CASE ~R1(f)
      <4>1. Up(f) \in D /\ (R3(Up(f)) <=> R4(Up(f)))
        <5> HIDE DEF R1, R3, R4, Up, D
        <5> QED BY <1>2, <3>2
      <4>2. g[Up(f)] = R4(Up(f))
        <5> DEFINE u == Up(f)
        <5>1. u \in D
          BY <4>1
        <5> HIDE DEF u, R4
        <5>2. g[u] = R4(u)
          BY <5>1, Zenon
        <5> QED BY <5>2 DEF u
      <4> HIDE DEF R1, R3, H, Up, g
      <4> QED BY <3>2, <4>1, <4>2, Zenon
    <3> QED BY <3>1, <3>2
  <2> QED BY <2>1, Zenon
<1>4. Good(c)
  <2> HIDE DEF Good
  <2> QED BY <1>3
<1>5. \A f \in D : c[f] = (R1(f) \/ (H(f) /\ c[Up(f)]))
  <2>1. c = [f \in D |-> R1(f) \/ (H(f) /\ c[Up(f)])]
    <3> HIDE DEF c
    <3> QED BY <1>4, Zenon
  <2> HIDE DEF c
  <2> QED BY <2>1, Zenon
<1> HIDE DEF c
<1>6. Checks(c, schema, a)
  BY <1>1, <1>5, Zenon DEF Checks
<1> QED BY <1>6

LEMMA AgreeFact ==
    ASSUME NEW schema, NEW a, NEW request, NEW excuse,
           \A f \in DOMAIN request : Sends(schema[f], a[f], request[f]),
           Conforms(schema, a) => excuse \/ \A f \in DOMAIN request : request[f] # Bad
    PROVE  Agree(schema, a, request, excuse)
BY Zenon DEF Agree, Refused, Sends

\* Nothing of a schema is nested.
Flat(schema) == \A f \in DOMAIN schema : schema[f].parent = Root

\* A field whose check agrees with its property, up to an excuse.
Excused(schema, a, request, excuse, f) ==
    /\ FieldConforms(schema[f], a[f]) => request[f] # Bad \/ excuse
    /\ Sends(schema[f], a[f], request[f])

LEMMA FieldsExcused ==
    ASSUME NEW schema, NEW a, NEW request, NEW excuse, NEW f,
           FieldAgrees(schema[f], a[f], request[f])
    PROVE  Excused(schema, a, request, excuse, f)
BY Zenon DEF FieldAgrees, Excused

LEMMA ParentFact ==
    ASSUME NEW p
    PROVE  /\ String(p).parent = p /\ Required(String(p)).parent = p
           /\ Solid(p).parent = p /\ Required(Solid(p)).parent = p
           /\ \A min : Items(p, min).parent = p /\ Required(Items(p, min)).parent = p
           /\ Nested(p).parent = p /\ Required(Nested(p)).parent = p
           /\ \A words, d : Enum(p, words, d).parent = p /\ Required(Enum(p, words, d)).parent = p
           /\ \A lo, hi, d : Integer(p, lo, hi, d).parent = p /\ Required(Integer(p, lo, hi, d)).parent = p
<1>1. String(p).parent = p /\ Required(String(p)).parent = p
  BY Zenon DEF String, Required, Spec0
<1>2. Solid(p).parent = p /\ Required(Solid(p)).parent = p
  BY Zenon DEF Solid, String, Required, Spec0
<1>3. \A min : Items(p, min).parent = p /\ Required(Items(p, min)).parent = p
  BY Zenon DEF Items, Required, Spec0
<1>4. Nested(p).parent = p /\ Required(Nested(p)).parent = p
  BY Zenon DEF Nested, Required, Spec0
<1>5. \A words, d : Enum(p, words, d).parent = p /\ Required(Enum(p, words, d)).parent = p
  BY Zenon DEF Enum, String, Required, Spec0
<1>6. \A lo, hi, d : Integer(p, lo, hi, d).parent = p /\ Required(Integer(p, lo, hi, d)).parent = p
  BY Zenon DEF Integer, Required, Spec0
<1> QED BY <1>1, <1>2, <1>3, <1>4, <1>5, <1>6

LEMMA FlatAgrees ==
    ASSUME NEW schema, NEW a, NEW request, NEW excuse, Flat(schema),
           DOMAIN request = DOMAIN schema,
           \A f \in DOMAIN schema : Excused(schema, a, request, excuse, f)
    PROVE  Agree(schema, a, request, excuse)
<1>1. Shallow(schema)
  BY Zenon DEF Shallow, Flat
<1>2. ASSUME Conforms(schema, a) PROVE excuse \/ \A f \in DOMAIN request : request[f] # Bad
  <2>1. PICK h : Checks(h, schema, a)
    BY <1>1, <1>2, ConformsUnfolds
  <2>2. \A f \in DOMAIN schema : FieldConforms(schema[f], a[f])
    BY <2>1, Zenon DEF Checks, Flat
  <2> QED BY <2>2, Zenon DEF Excused
<1>3. \A f \in DOMAIN request : Sends(schema[f], a[f], request[f])
  BY Zenon DEF Excused
<1> QED BY <1>2, <1>3, AgreeFact, Zenon

LEMMA SearchAgrees ==
    ASSUME NEW a, NEW excuse
    PROVE  Agree(SearchSchema, a, build_search_request(a), excuse)
<1> DEFINE r == build_search_request(a)
           s == SearchSchema
           ok(f) == s[f].parent = Root /\ Excused(s, a, r, excuse, f)
<1>1. /\ DOMAIN r = {"query", "mode", "limit"}
      /\ DOMAIN s = {"query", "mode", "limit"}
  BY DEF build_search_request, SearchSchema
<1>2. /\ FieldAgrees(s["query"], a["query"], r["query"])
      /\ FieldAgrees(s["mode"], a["mode"], r["mode"])
      /\ FieldAgrees(s["limit"], a["limit"], r["limit"])
  BY TextFields, EnumField, IntegerField
     DEF SearchSchema, build_search_request, SEARCH_VALID_MODES, AnyWord,
         SEARCH_LIMIT_MIN, SEARCH_LIMIT_MAX, SEARCH_LIMIT_DEFAULT
<1>3. s["query"].parent = Root /\ s["mode"].parent = Root /\ s["limit"].parent = Root
  BY ParentFact DEF SearchSchema
<1> HIDE DEF r, s
<1>4. ok("query") /\ ok("mode") /\ ok("limit")
  BY <1>2, <1>3, FieldsExcused, Zenon
<1> HIDE DEF ok
<1>5. \A f \in DOMAIN s : ok(f)
  BY <1>1, <1>4
<1>6. Agree(s, a, r, excuse)
  BY <1>1, <1>5, FlatAgrees, Zenon DEF ok, Flat
<1> QED BY <1>6 DEF r, s

\* The checks of single fields that are like no other.
LEMMA RatingField ==
    ASSUME NEW p, NEW v
    PROVE  FieldAgrees(Required(Integer(p, 1, 5, Absent)), v,
                       IF v.kind = "integer" /\ v.n \in 1..5 THEN v ELSE Bad)
<1> DEFINE s == Required(Integer(p, 1, 5, Absent))
           sent == IF v.kind = "integer" /\ v.n \in 1..5 THEN v ELSE Bad
<1>1. NumberConforms(s, TRUE, 1, 5, v) /\ NumberConforms(s, TRUE, 1, 5, sent) /\ s.default = Absent
  <2> HIDE DEF sent
  <2>1. \A x : NumberConforms(Required(Integer(p, 1, 5, Absent)), TRUE, 1, 5, x)
    BY RequiredNumber, Zenon
  <2>2. Required(Integer(p, 1, 5, Absent)).default = Absent
    BY Zenon DEF Required, Integer, Spec0
  <2> QED BY <2>1, <2>2, Zenon
<1> HIDE DEF s
<1>2. FieldAgrees(s, v, sent)
  BY <1>1, KindsFact DEF NumberConforms, FieldAgrees, Sends
<1> QED BY <1>2 DEF s

LEMMA CommentField ==
    ASSUME NEW p, NEW v
    PROVE  FieldAgrees(String(p), v, IF v = Absent THEN Str("empty")
                                     ELSE IF v.kind = "string" THEN v ELSE Bad)
<1> DEFINE s == String(p)
           sent == IF v = Absent THEN Str("empty") ELSE IF v.kind = "string" THEN v ELSE Bad
<1>1. TextConforms(s, FALSE, v) /\ TextConforms(s, FALSE, sent) /\ s.default = Absent
  BY OptionalText, Zenon
<1> HIDE DEF s
<1>2. FieldAgrees(s, v, sent)
  BY <1>1, KindsFact DEF TextConforms, FieldAgrees, Sends
<1> QED BY <1>2 DEF s

LEMMA StringValue ==
    ASSUME NEW v, IsValue(v), v.kind = "string"
    PROVE  v = Str(v.word)
<1>1. \A w : Str(w).kind = "string" /\ Str(w).word = w
  BY KindsFact
<1>2. \A n : Num(n).kind = "integer" /\ Array(n).kind = "array"
  BY KindsFact
<1>3. /\ Absent.kind = "absent" /\ Null.kind = "null" /\ Other.kind = "other"
      /\ Object.kind = "object"
  BY DEF Absent, Null, Other, Object, Value
<1> QED BY <1>1, <1>2, <1>3 DEF IsValue

LEMMA NumberValue ==
    ASSUME NEW v, IsValue(v), v.kind \in {"integer", "array"}
    PROVE  /\ v.n \in Int /\ (v.kind = "array" => v.n \in Nat)
           /\ v = IF v.kind = "integer" THEN Num(v.n) ELSE Array(v.n)
<1>1. \A w : Str(w).kind = "string"
  BY KindsFact
<1>2. /\ \A n : Num(n).kind = "integer" /\ Num(n).n = n
      /\ \A n : Array(n).kind = "array" /\ Array(n).n = n
  BY KindsFact
<1>3. /\ Absent.kind = "absent" /\ Null.kind = "null" /\ Other.kind = "other"
      /\ Object.kind = "object"
  BY DEF Absent, Null, Other, Object, Value
<1> QED BY <1>1, <1>2, <1>3 DEF IsValue

LEMMA ScopeField ==
    ASSUME NEW p, NEW v, IsValue(v)
    PROVE  FieldAgrees(Enum(p, WikiScopes, Absent), v, parse_scope_arg(v))
<1> DEFINE s == Enum(p, WikiScopes, Absent)
           sent == parse_scope_arg(v)
<1>1. /\ WordConforms(s, FALSE, WikiScopes, v) /\ WordConforms(s, FALSE, WikiScopes, sent)
      /\ s.default = Absent
  BY OptionalWord, Zenon DEF WikiScopes, AnyWord
<1> HIDE DEF s
<1>2. CASE IsNone(v)
  <2>1. sent = Absent
    BY <1>2, KindsFact DEF parse_scope_arg, OptionString
  <2> HIDE DEF sent
  <2>2. FieldAgrees(s, v, sent)
    BY <1>1, <1>2, <2>1, KindsFact DEF WordConforms, FieldAgrees, Sends, IsNone
  <2> QED BY <2>2 DEF s, sent
<1>3. CASE ~IsNone(v) /\ v.kind # "string"
  <2>1. sent = Bad
    BY <1>3, KindsFact DEF parse_scope_arg, OptionString, StringField
  <2> HIDE DEF sent
  <2>2. FieldAgrees(s, v, sent)
    BY <1>1, <1>3, <2>1, KindsFact DEF WordConforms, FieldAgrees, Sends, IsNone
  <2> QED BY <2>2 DEF s, sent
<1>4. CASE ~IsNone(v) /\ v.kind = "string"
  <2>1. v = Str("all") <=> v.word = "all"
    BY <1>4, StringValue, KindsFact
  <2>2. sent = IF v.word = "all" THEN Absent
               ELSE IF v.word \in {"personal", "shared"} THEN v ELSE Bad
    BY <1>4, <2>1 DEF parse_scope_arg, OptionString, StringField
  <2> HIDE DEF sent
  <2>3. FieldAgrees(s, v, sent)
    BY <1>1, <1>4, <2>2, KindsFact DEF WordConforms, FieldAgrees, Sends, IsNone, WikiScopes
  <2> QED BY <2>3 DEF s, sent
<1> QED BY <1>2, <1>3, <1>4 DEF s

LEMMA LimitField ==
    ASSUME NEW p, NEW v, IsValue(v)
    PROVE  FieldAgrees(Integer(p, 1, 100, Absent), v, SearchLimit(v))
<1> DEFINE s == Integer(p, 1, 100, Absent)
           sent == SearchLimit(v)
<1>1. NumberConforms(s, FALSE, 1, 100, v) /\ NumberConforms(s, FALSE, 1, 100, sent) /\ s.default = Absent
  <2> HIDE DEF sent
  <2>1. \A x : NumberConforms(Integer(p, 1, 100, Absent), FALSE, 1, 100, x)
    BY OptionalNumber, Zenon
  <2>2. Integer(p, 1, 100, Absent).default = Absent
    BY Zenon DEF Integer, Spec0
  <2> QED BY <2>1, <2>2, Zenon
<1>2. v.kind = "integer" => v.n \in Int
  BY NumberValue
<1> HIDE DEF s
<1>3. sent # Bad => sent.kind = "integer" /\ sent.n \in 1..100
  BY <1>2, KindsFact DEF SearchLimit
<1>4. v.kind = "integer" \/ IsNone(v) => sent # Bad
  BY <1>2, KindsFact DEF SearchLimit
<1> HIDE DEF sent
<1>5. FieldAgrees(s, v, sent)
  BY <1>1, <1>3, <1>4, KindsFact DEF NumberConforms, FieldAgrees, Sends, IsNone
<1> QED BY <1>5 DEF s, sent

LEMMA ChainAgrees ==
    ASSUME NEW a, NEW excuse
    PROVE  Agree(ChainSchema, a, build_get_traceable_chain_request(a), excuse)
<1> DEFINE r == build_get_traceable_chain_request(a)
           s == ChainSchema
           ok(f) == s[f].parent = Root /\ Excused(s, a, r, excuse, f)
<1>1. DOMAIN r = {"node_id", "max_depth"} /\ DOMAIN s = {"node_id", "max_depth"}
  BY DEF ChainSchema, build_get_traceable_chain_request
<1>2. /\ FieldAgrees(s["node_id"], a["node_id"], r["node_id"])
      /\ FieldAgrees(s["max_depth"], a["max_depth"], r["max_depth"])
  BY TextFields, IntegerField DEF ChainSchema, build_get_traceable_chain_request, DEPTH_MIN, DEPTH_MAX, DEPTH_DEFAULT
<1>3. s["node_id"].parent = Root /\ s["max_depth"].parent = Root
  <2>1. s["node_id"].parent = Root
    BY ParentFact DEF ChainSchema
  <2>2. s["max_depth"].parent = Root
    BY ParentFact DEF ChainSchema
  <2> QED BY <2>1, <2>2
<1> HIDE DEF r, s
<1>4. ok("node_id") /\ ok("max_depth")
  BY <1>2, <1>3, FieldsExcused, Zenon
<1> HIDE DEF ok
<1>5. \A f \in DOMAIN s : ok(f)
  BY <1>1, <1>4
<1>6. Agree(s, a, r, excuse)
  BY <1>1, <1>5, FlatAgrees, Zenon DEF ok, Flat
<1> QED BY <1>6 DEF r, s

LEMMA FeedbackAgrees ==
    ASSUME NEW a, NEW excuse
    PROVE  Agree(FeedbackSchema, a, feedback_request(a), excuse)
<1> DEFINE r == feedback_request(a)
           s == FeedbackSchema
           ok(f) == s[f].parent = Root /\ Excused(s, a, r, excuse, f)
<1>1. DOMAIN r = {"search_id", "rating", "comment"} /\ DOMAIN s = {"search_id", "rating", "comment"}
  BY DEF FeedbackSchema, feedback_request
<1>2. /\ FieldAgrees(s["search_id"], a["search_id"], r["search_id"])
      /\ FieldAgrees(s["rating"], a["rating"], r["rating"])
      /\ FieldAgrees(s["comment"], a["comment"], r["comment"])
  BY TextFields, RatingField, CommentField DEF FeedbackSchema, feedback_request
<1>3. s["search_id"].parent = Root /\ s["rating"].parent = Root /\ s["comment"].parent = Root
  BY ParentFact DEF FeedbackSchema
<1> HIDE DEF r, s
<1>4. ok("search_id") /\ ok("rating") /\ ok("comment")
  BY <1>2, <1>3, FieldsExcused, Zenon
<1> HIDE DEF ok
<1>5. \A f \in DOMAIN s : ok(f)
  BY <1>1, <1>4
<1>6. Agree(s, a, r, excuse)
  BY <1>1, <1>5, FlatAgrees, Zenon DEF ok, Flat
<1> QED BY <1>6 DEF r, s

LEMMA JobStatusAgrees ==
    ASSUME NEW a, NEW excuse
    PROVE  Agree(JobStatusSchema, a, get_job_status_request(a), excuse)
<1> DEFINE r == get_job_status_request(a)
           s == JobStatusSchema
           ok(f) == s[f].parent = Root /\ Excused(s, a, r, excuse, f)
<1>1. DOMAIN r = {"msg_id"} /\ DOMAIN s = {"msg_id"}
  BY DEF JobStatusSchema, get_job_status_request
<1>2. FieldAgrees(s["msg_id"], a["msg_id"], r["msg_id"])
  BY TextFields DEF JobStatusSchema, get_job_status_request
<1>3. s["msg_id"].parent = Root
  BY ParentFact DEF JobStatusSchema
<1> HIDE DEF r, s
<1>4. ok("msg_id")
  BY <1>2, <1>3, FieldsExcused, Zenon
<1> HIDE DEF ok
<1>5. \A f \in DOMAIN s : ok(f)
  BY <1>1, <1>4
<1>6. Agree(s, a, r, excuse)
  BY <1>1, <1>5, FlatAgrees, Zenon DEF ok, Flat
<1> QED BY <1>6 DEF r, s

LEMMA RawReadAgrees ==
    ASSUME NEW a, NEW excuse
    PROVE  Agree(RawReadSchema, a, [id |-> StringField(a.id)], excuse)
<1> DEFINE r == [id |-> StringField(a.id)]
           s == RawReadSchema
           ok(f) == s[f].parent = Root /\ Excused(s, a, r, excuse, f)
<1>1. DOMAIN r = {"id"} /\ DOMAIN s = {"id"}
  BY DEF RawReadSchema
<1>2. FieldAgrees(s["id"], a["id"], r["id"])
  BY TextFields DEF RawReadSchema
<1>3. s["id"].parent = Root
  BY ParentFact DEF RawReadSchema
<1> HIDE DEF r, s
<1>4. ok("id")
  BY <1>2, <1>3, FieldsExcused, Zenon
<1> HIDE DEF ok
<1>5. \A f \in DOMAIN s : ok(f)
  BY <1>1, <1>4
<1>6. Agree(s, a, r, excuse)
  BY <1>1, <1>5, FlatAgrees, Zenon DEF ok, Flat
<1> QED BY <1>6 DEF r, s

LEMMA RawSearchAgrees ==
    ASSUME NEW a, NEW excuse,
           \A f \in DOMAIN RawSearchSchema : IsValue(a[f])
    PROVE  Agree(RawSearchSchema, a, raw_search_args(a), excuse)
<1> DEFINE r == raw_search_args(a)
           s == RawSearchSchema
           ok(f) == s[f].parent = Root /\ Excused(s, a, r, excuse, f)
<1>1. DOMAIN r = {"query", "scope", "limit"} /\ DOMAIN s = {"query", "scope", "limit"}
  BY DEF RawSearchSchema, raw_search_args
<1>2. /\ FieldAgrees(s["query"], a["query"], r["query"])
      /\ FieldAgrees(s["scope"], a["scope"], r["scope"])
      /\ FieldAgrees(s["limit"], a["limit"], r["limit"])
  BY TextFields, ScopeField, LimitField, <1>1 DEF RawSearchSchema, raw_search_args
<1>3. s["query"].parent = Root /\ s["scope"].parent = Root /\ s["limit"].parent = Root
  BY ParentFact DEF RawSearchSchema
<1> HIDE DEF r, s
<1>4. ok("query") /\ ok("scope") /\ ok("limit")
  BY <1>2, <1>3, FieldsExcused, Zenon
<1> HIDE DEF ok
<1>5. \A f \in DOMAIN s : ok(f)
  BY <1>1, <1>4
<1>6. Agree(s, a, r, excuse)
  BY <1>1, <1>5, FlatAgrees, Zenon DEF ok, Flat
<1> QED BY <1>6 DEF r, s

LEMMA WikiReadAgrees ==
    ASSUME NEW a, NEW excuse,
           \A f \in DOMAIN WikiReadSchema : IsValue(a[f])
    PROVE  Agree(WikiReadSchema, a, [concept |-> StringField(a.concept), scope |-> parse_scope_arg(a.scope)], excuse)
<1> DEFINE r == [concept |-> StringField(a.concept), scope |-> parse_scope_arg(a.scope)]
           s == WikiReadSchema
           ok(f) == s[f].parent = Root /\ Excused(s, a, r, excuse, f)
<1>1. DOMAIN r = {"concept", "scope"} /\ DOMAIN s = {"concept", "scope"}
  BY DEF WikiReadSchema
<1>2. /\ FieldAgrees(s["concept"], a["concept"], r["concept"])
      /\ FieldAgrees(s["scope"], a["scope"], r["scope"])
  BY TextFields, ScopeField, <1>1 DEF WikiReadSchema
<1>3. s["concept"].parent = Root /\ s["scope"].parent = Root
  <2>1. s["concept"].parent = Root
    BY ParentFact DEF WikiReadSchema
  <2>2. s["scope"].parent = Root
    <3>1. s["scope"] = Enum(Root, WikiScopes, Absent)
      BY DEF WikiReadSchema
    <3> HIDE DEF s
    <3>2. Enum(Root, WikiScopes, Absent).parent = Root
      BY Zenon DEF Enum, String, Spec0
    <3> QED BY <3>1, <3>2
  <2> QED BY <2>1, <2>2
<1> HIDE DEF r, s
<1>4. ok("concept") /\ ok("scope")
  BY <1>2, <1>3, FieldsExcused, Zenon
<1> HIDE DEF ok
<1>5. \A f \in DOMAIN s : ok(f)
  BY <1>1, <1>4
<1>6. Agree(s, a, r, excuse)
  BY <1>1, <1>5, FlatAgrees, Zenon DEF ok, Flat
<1> QED BY <1>6 DEF r, s

LEMMA WikiListAgrees ==
    ASSUME NEW a, NEW excuse,
           \A f \in DOMAIN WikiListSchema : IsValue(a[f])
    PROVE  Agree(WikiListSchema, a, [scope |-> parse_scope_arg(a.scope)], excuse)
<1> DEFINE r == [scope |-> parse_scope_arg(a.scope)]
           s == WikiListSchema
           ok(f) == s[f].parent = Root /\ Excused(s, a, r, excuse, f)
<1>1. DOMAIN r = {"scope"} /\ DOMAIN s = {"scope"}
  BY DEF WikiListSchema
<1>2. FieldAgrees(s["scope"], a["scope"], r["scope"])
  BY ScopeField, <1>1 DEF WikiListSchema
<1>3. s["scope"].parent = Root
  BY ParentFact DEF WikiListSchema
<1> HIDE DEF r, s
<1>4. ok("scope")
  BY <1>2, <1>3, FieldsExcused, Zenon
<1> HIDE DEF ok
<1>5. \A f \in DOMAIN s : ok(f)
  BY <1>1, <1>4
<1>6. Agree(s, a, r, excuse)
  BY <1>1, <1>5, FlatAgrees, Zenon DEF ok, Flat
<1> QED BY <1>6 DEF r, s

LEMMA SchemaUpdateAgrees ==
    ASSUME NEW a, NEW excuse
    PROVE  Agree(SchemaUpdateSchema, a, [content |-> StringField(a.content)], excuse)
<1> DEFINE r == [content |-> StringField(a.content)]
           s == SchemaUpdateSchema
           ok(f) == s[f].parent = Root /\ Excused(s, a, r, excuse, f)
<1>1. DOMAIN r = {"content"} /\ DOMAIN s = {"content"}
  BY DEF SchemaUpdateSchema
<1>2. FieldAgrees(s["content"], a["content"], r["content"])
  BY TextFields DEF SchemaUpdateSchema
<1>3. s["content"].parent = Root
  BY ParentFact DEF SchemaUpdateSchema
<1> HIDE DEF r, s
<1>4. ok("content")
  BY <1>2, <1>3, FieldsExcused, Zenon
<1> HIDE DEF ok
<1>5. \A f \in DOMAIN s : ok(f)
  BY <1>1, <1>4
<1>6. Agree(s, a, r, excuse)
  BY <1>1, <1>5, FlatAgrees, Zenon DEF ok, Flat
<1> QED BY <1>6 DEF r, s

LEMMA WikiRebuildAgrees ==
    ASSUME NEW a
    PROVE  Agree(WikiRebuildSchema, a, wiki_rebuild_args(a), a.concept.word \notin ConceptNames)
<1> DEFINE r == wiki_rebuild_args(a)
           s == WikiRebuildSchema
           excuse == a.concept.word \notin ConceptNames
<1>1. DOMAIN r = {"concept"} /\ DOMAIN s = {"concept"}
  BY DEF WikiRebuildSchema, wiki_rebuild_args
<1>2. s["concept"] = String(Root) /\ s["concept"].parent = Root
  BY ParentFact DEF WikiRebuildSchema
<1>3. r["concept"] = IF OptionString(a["concept"]).kind = "string"
                        /\ OptionString(a["concept"]).word \notin ConceptNames
                     THEN Bad ELSE OptionString(a["concept"])
  BY DEF wiki_rebuild_args
<1>4. FieldAgrees(s["concept"], a["concept"], OptionString(a["concept"]))
  BY <1>2, TextFields
<1>5. OptionString(a["concept"]).kind = "string" => OptionString(a["concept"]) = a["concept"]
  BY KindsFact DEF OptionString, StringField
<1> HIDE DEF r, s
<1>6. Excused(s, a, r, excuse, "concept")
  BY <1>3, <1>4, <1>5, Zenon DEF Excused, FieldAgrees, Sends
<1> HIDE DEF excuse
<1>7. Flat(s) /\ \A f \in DOMAIN s : Excused(s, a, r, excuse, f)
  <2> SUFFICES ASSUME NEW f \in DOMAIN s PROVE s[f].parent = Root /\ Excused(s, a, r, excuse, f)
    BY DEF Flat
  <2>1. f = "concept"
    BY <1>1
  <2> QED BY <1>2, <1>6, <2>1, Zenon
<1>8. Agree(s, a, r, excuse)
  BY <1>1, <1>7, FlatAgrees, Zenon
<1> QED BY <1>8 DEF r, s, excuse

LEMMA ExportAgrees ==
    ASSUME NEW a
    PROVE  Agree(ExportSchema, a, export_args(a), a.cursor.word \notin CursorWords)
<1> DEFINE r == export_args(a)
           s == ExportSchema
           excuse == a.cursor.word \notin CursorWords
<1>1. DOMAIN r = {"cursor"} /\ DOMAIN s = {"cursor"}
  BY DEF ExportSchema, export_args
<1>2. s["cursor"] = String(Root) /\ s["cursor"].parent = Root
  BY ParentFact DEF ExportSchema
<1>3. r["cursor"] = IF OptionString(a["cursor"]).kind = "string"
                        /\ OptionString(a["cursor"]).word \notin CursorWords \cup {"empty"}
                     THEN Bad ELSE OptionString(a["cursor"])
  BY DEF export_args
<1>4. FieldAgrees(s["cursor"], a["cursor"], OptionString(a["cursor"]))
  BY <1>2, TextFields
<1>5. OptionString(a["cursor"]).kind = "string" => OptionString(a["cursor"]) = a["cursor"]
  BY KindsFact DEF OptionString, StringField
<1> HIDE DEF r, s
<1>6. Excused(s, a, r, excuse, "cursor")
  <2>1. r["cursor"] = OptionString(a["cursor"]) \/ (r["cursor"] = Bad /\ excuse)
    BY <1>3, <1>5
  <2> HIDE DEF excuse
  <2> QED BY <1>4, <2>1, Zenon DEF Excused, FieldAgrees, Sends
<1> HIDE DEF excuse
<1>7. Flat(s) /\ \A f \in DOMAIN s : Excused(s, a, r, excuse, f)
  <2> SUFFICES ASSUME NEW f \in DOMAIN s PROVE s[f].parent = Root /\ Excused(s, a, r, excuse, f)
    BY DEF Flat
  <2>1. f = "cursor"
    BY <1>1
  <2> QED BY <1>2, <1>6, <2>1, Zenon
<1>8. Agree(s, a, r, excuse)
  BY <1>1, <1>7, FlatAgrees, Zenon
<1> QED BY <1>8 DEF r, s, excuse

LEMMA SchemaReadAgrees ==
    ASSUME NEW a, NEW excuse, IsValue(a["scope"])
    PROVE  Agree(SchemaReadSchema(a), a, schema_read_args(a), excuse)
<1> DEFINE r == schema_read_args(a)
           s == SchemaReadSchema(a)
           words == {"personal", "shared"}
           ok(f) == s[f].parent = Root /\ Excused(s, a, r, excuse, f)
           v == a["scope"]
           w == a["shared_memory_id"]
           id == OptionString(w)
           scope == Required(Enum(Root, words, Absent))
           given == Required(String(Root))
           free == String(Root)
<1>1. /\ DOMAIN r = {"scope", "shared_memory_id"} /\ DOMAIN s = {"scope", "shared_memory_id"}
  BY DEF SchemaReadSchema, schema_read_args
<1>2. /\ s["scope"] = scope
      /\ s["shared_memory_id"] = IF v = Str("shared") THEN given ELSE free
      /\ r["scope"] = IF v \in {Str("personal"), Str("shared")} THEN v ELSE Bad
      /\ r["shared_memory_id"] = IF v = Str("shared") /\ id = Absent THEN Bad ELSE id
  BY DEF SchemaReadSchema, schema_read_args
<1>3. given.parent = Root /\ free.parent = Root
  BY ParentFact
<1>4. scope.parent = Root
  BY Zenon DEF Required, Enum, String, Spec0
<1>5. s["scope"].parent = Root /\ s["shared_memory_id"].parent = Root
  <2> HIDE DEF s, scope, given, free
  <2> QED BY <1>2, <1>3, <1>4
<1>6. FieldAgrees(scope, v, r["scope"])
  <2>1. /\ \A x : WordConforms(scope, TRUE, words, x)
        /\ scope.default = Absent
    BY RequiredWord, Zenon DEF AnyWord
  <2>2. v.kind = "string" => v = Str(v.word)
    BY StringValue
  <2>3. v \in {Str("personal"), Str("shared")} <=> v.kind = "string" /\ v.word \in words
    BY <2>2, KindsFact
  <2>4. r["scope"] = IF v.kind = "string" /\ v.word \in words THEN v ELSE Bad
    BY <1>2, <2>3
  <2> HIDE DEF scope, r, words
  <2>5. WordConforms(scope, TRUE, words, v) /\ WordConforms(scope, TRUE, words, r["scope"])
    BY <2>1
  <2> QED BY <2>1, <2>4, <2>5, KindsFact DEF WordConforms, FieldAgrees, Sends
<1>7. FieldAgrees(s["shared_memory_id"], w, r["shared_memory_id"])
  <2>1. /\ \A x : TextConforms(given, TRUE, x)
        /\ given.default = Absent
    BY RequiredText, Zenon
  <2>2. /\ \A x : TextConforms(free, FALSE, x)
        /\ free.default = Absent
    BY OptionalText, Zenon
  <2>3. id = Absent \/ id = Bad \/ (id = w /\ w.kind = "string")
    BY KindsFact DEF OptionString, StringField
  <2>4. FieldAgrees(free, w, id)
    BY TextFields
  <2> HIDE DEF given, free, id, r, s
  <2>5. CASE v # Str("shared")
    BY <1>2, <2>4, <2>5
  <2>6. CASE v = Str("shared") /\ id = Absent
    <3>1. s["shared_memory_id"] = given /\ r["shared_memory_id"] = Bad
      BY <1>2, <2>6
    <3>2. w = Absent \/ w.kind # "string"
      BY <2>6, KindsFact DEF id, OptionString, StringField, IsNone
    <3> QED BY <2>1, <3>1, <3>2, Zenon DEF TextConforms, FieldAgrees, Sends
  <2>7. CASE v = Str("shared") /\ id # Absent
    <3>1. s["shared_memory_id"] = given /\ r["shared_memory_id"] = id
      BY <1>2, <2>7
    <3>2. FieldConforms(given, w) => FieldConforms(free, w)
      BY <2>1, <2>2, KindsFact DEF TextConforms
    <3>3. FieldConforms(free, id) => FieldConforms(given, id)
      BY <2>1, <2>2, <2>7 DEF TextConforms
    <3> QED BY <2>1, <2>2, <2>4, <3>1, <3>2, <3>3, Zenon DEF FieldAgrees, Sends
  <2> QED BY <2>5, <2>6, <2>7
<1> HIDE DEF r, s, scope
<1>8. ok("scope") /\ ok("shared_memory_id")
  BY <1>2, <1>5, <1>6, <1>7, FieldsExcused, Zenon
<1> HIDE DEF ok
<1>9. \A f \in DOMAIN s : ok(f)
  BY <1>1, <1>8
<1>10. Agree(s, a, r, excuse)
  BY <1>1, <1>9, FlatAgrees, Zenon DEF ok, Flat
<1> QED BY <1>10 DEF r, s

LEMMA NestedAgrees ==
    ASSUME NEW schema, NEW a, NEW request, NEW excuse, Shallow(schema),
           \A f \in DOMAIN request : FieldAgrees(schema[f], a[f], request[f]),
           \A h : Checks(h, schema, a) => \A f \in DOMAIN request : f \in DOMAIN schema /\ h[f]
    PROVE  Agree(schema, a, request, excuse)
<1>1. ASSUME Conforms(schema, a) PROVE excuse \/ \A f \in DOMAIN request : request[f] # Bad
  <2>1. PICK h : Checks(h, schema, a)
    BY <1>1, ConformsUnfolds
  <2> QED BY <2>1, Zenon DEF Checks, FieldAgrees
<1>2. \A f \in DOMAIN request : Sends(schema[f], a[f], request[f])
  BY Zenon DEF FieldAgrees
<1> QED BY <1>1, <1>2, AgreeFact, Zenon

LEMMA RefusedAgrees ==
    ASSUME NEW schema, NEW a, NEW excuse, Shallow(schema),
           \A h : ~Checks(h, schema, a)
    PROVE  Agree(schema, a, RefusedRequest, excuse)
<1>1. ~Conforms(schema, a)
  BY ConformsUnfolds
<1>2. DOMAIN RefusedRequest = {"refused"} /\ RefusedRequest["refused"] = Bad
  BY DEF RefusedRequest
<1>3. Refused(RefusedRequest)
  BY <1>2 DEF Refused
<1> QED BY <1>1, <1>3 DEF Agree

LEMMA IngestRawAgrees ==
    ASSUME NEW a, NEW excuse
    PROVE  Agree(IngestRawSchema, a, build_ingest_raw_request(a), excuse)
<1> DEFINE s == IngestRawSchema
           r == [text        |-> require_str_field(a.text),
                 source_type |-> require_str_field(a.source_type),
                 author      |-> optional_str_field(a.author),
                 channel     |-> optional_str_field(a.channel),
                 timestamp   |-> optional_str_field(a.timestamp)]
           m == Required(Nested(Root))
<1>1. /\ DOMAIN s = {"text", "metadata", "source_type", "author", "channel", "timestamp"}
      /\ DOMAIN r = {"text", "source_type", "author", "channel", "timestamp"}
  BY DEF IngestRawSchema
<1>2. s["text"].parent = Root /\ s["metadata"] = m
  BY ParentFact DEF IngestRawSchema
<1>3. /\ s["source_type"].parent = "metadata" /\ s["author"].parent = "metadata"
      /\ s["channel"].parent = "metadata" /\ s["timestamp"].parent = "metadata"
  BY ParentFact DEF IngestRawSchema
<1>4. m.parent = Root /\ ObjectConforms(m, TRUE, a["metadata"])
  BY ParentFact, RequiredObject, Zenon
<1>5. /\ FieldAgrees(s["text"], a["text"], r["text"])
      /\ FieldAgrees(s["source_type"], a["source_type"], r["source_type"])
      /\ FieldAgrees(s["author"], a["author"], r["author"])
      /\ FieldAgrees(s["channel"], a["channel"], r["channel"])
      /\ FieldAgrees(s["timestamp"], a["timestamp"], r["timestamp"])
  BY TextFields DEF IngestRawSchema
<1>6. build_ingest_raw_request(a) = IF a["metadata"].kind # "object" THEN RefusedRequest ELSE r
  BY DEF build_ingest_raw_request
<1> HIDE DEF s, r, m
<1>7. Shallow(s)
  <2>1. \A f \in DOMAIN s : s[f].parent = Root \/ s[f].parent = "metadata"
    BY <1>1, <1>2, <1>3, <1>4
  <2>2. "metadata" \in DOMAIN s /\ s["metadata"].parent = Root
    BY <1>1, <1>2, <1>4
  <2> QED BY <2>1, <2>2, Zenon DEF Shallow
<1>8. ASSUME NEW h, Checks(h, s, a)
      PROVE  /\ a["metadata"].kind = "object"
             /\ h["text"] /\ h["source_type"] /\ h["author"] /\ h["channel"] /\ h["timestamp"]
  <2>1. h["text"] /\ h["metadata"] /\ FieldConforms(m, a["metadata"])
    BY <1>1, <1>2, <1>4, <1>8 DEF Checks
  <2>2. a["metadata"].kind = "object"
    BY <1>4, <2>1, KindsFact DEF ObjectConforms
  <2>3. Holds(a["metadata"])
    BY <2>2 DEF Holds
  <2> QED BY <1>1, <1>3, <1>8, <2>1, <2>2, <2>3 DEF Checks
<1>9. CASE a["metadata"].kind = "object"
  <2>1. \A f \in DOMAIN r : FieldAgrees(s[f], a[f], r[f])
    <3> SUFFICES ASSUME NEW f \in DOMAIN r PROVE FieldAgrees(s[f], a[f], r[f])
      OBVIOUS
    <3>1. f = "text" \/ f = "source_type" \/ f = "author" \/ f = "channel" \/ f = "timestamp"
      BY <1>1
    <3> QED BY <1>5, <3>1, Zenon
  <2>2. \A h : Checks(h, s, a) => \A f \in DOMAIN r : f \in DOMAIN s /\ h[f]
    BY <1>1, <1>8
  <2>3. Agree(s, a, r, excuse)
    BY <1>7, <2>1, <2>2, NestedAgrees, Zenon
  <2> QED BY <1>6, <1>9, <2>3 DEF s
<1>10. CASE a["metadata"].kind # "object"
  <2>1. Agree(s, a, RefusedRequest, excuse)
    BY <1>7, <1>8, <1>10, RefusedAgrees, Zenon
  <2> QED BY <1>6, <1>10, <2>1 DEF s
<1> QED BY <1>9, <1>10

LEMMA IngestAgrees ==
    ASSUME NEW a, NEW excuse, IsValue(a["messages"])
    PROVE  Agree(IngestSchema, a, build_ingest_request(a), excuse)
<1> DEFINE s == IngestSchema
           r == [id          |-> optional_str_field(a.id),
                 text        |-> require_str_field(a.text),
                 source_type |-> require_str_field(a.source_type),
                 author      |-> require_str_field(a.author),
                 author_id   |-> optional_str_field(a.author_id),
                 channel     |-> require_str_field(a.channel),
                 channel_id  |-> optional_str_field(a.channel_id),
                 thread_id   |-> optional_str_field(a.thread_id),
                 timestamp   |-> require_str_field(a.timestamp)]
           whole == /\ a["messages"].kind = "array" /\ a["messages"].n > 0
                    /\ a["message"].kind = "object" /\ a["metadata"].kind = "object"
           root == Required(Items(Root, 1))
           one == Required(Nested("messages"))
           meta == Required(Nested("message"))
<1>1. /\ DOMAIN s = {"messages", "message", "metadata", "id", "text", "source_type", "author", "author_id",
                     "channel", "channel_id", "thread_id", "timestamp"}
      /\ DOMAIN r = {"id", "text", "source_type", "author", "author_id",
                     "channel", "channel_id", "thread_id", "timestamp"}
  BY DEF IngestSchema
<1>2. s["messages"] = root /\ s["message"] = one /\ s["metadata"] = meta
  BY DEF IngestSchema
<1>3. s["id"].parent = "message" /\ s["text"].parent = "message"
  BY ParentFact DEF IngestSchema
<1>4. /\ s["source_type"].parent = "metadata"
      /\ s["author"].parent = "metadata"
      /\ s["author_id"].parent = "metadata"
      /\ s["channel"].parent = "metadata"
      /\ s["channel_id"].parent = "metadata"
      /\ s["thread_id"].parent = "metadata"
      /\ s["timestamp"].parent = "metadata"
  <2>1. s["source_type"].parent = "metadata"
    BY ParentFact DEF IngestSchema
  <2>2. s["author"].parent = "metadata"
    BY ParentFact DEF IngestSchema
  <2>3. s["author_id"].parent = "metadata"
    BY ParentFact DEF IngestSchema
  <2>4. s["channel"].parent = "metadata"
    BY ParentFact DEF IngestSchema
  <2>5. s["channel_id"].parent = "metadata"
    BY ParentFact DEF IngestSchema
  <2>6. s["thread_id"].parent = "metadata"
    BY ParentFact DEF IngestSchema
  <2>7. s["timestamp"].parent = "metadata"
    BY ParentFact DEF IngestSchema
  <2> QED BY <2>1, <2>2, <2>3, <2>4, <2>5, <2>6, <2>7
<1>5. /\ root.parent = Root /\ ItemsConforms(root, TRUE, 1, a["messages"])
      /\ one.parent = "messages" /\ ObjectConforms(one, TRUE, a["message"])
      /\ meta.parent = "message" /\ ObjectConforms(meta, TRUE, a["metadata"])
  <2>1. root.parent = Root /\ one.parent = "messages" /\ meta.parent = "message"
    BY ParentFact, Zenon
  <2>2. ItemsConforms(root, TRUE, 1, a["messages"])
    BY RequiredItems, Zenon
  <2>3. ObjectConforms(one, TRUE, a["message"]) /\ ObjectConforms(meta, TRUE, a["metadata"])
    BY RequiredObject, Zenon
  <2> QED BY <2>1, <2>2, <2>3
<1>6. /\ FieldAgrees(s["id"], a["id"], r["id"])
      /\ FieldAgrees(s["text"], a["text"], r["text"])
      /\ FieldAgrees(s["source_type"], a["source_type"], r["source_type"])
      /\ FieldAgrees(s["author"], a["author"], r["author"])
      /\ FieldAgrees(s["author_id"], a["author_id"], r["author_id"])
      /\ FieldAgrees(s["channel"], a["channel"], r["channel"])
      /\ FieldAgrees(s["channel_id"], a["channel_id"], r["channel_id"])
      /\ FieldAgrees(s["thread_id"], a["thread_id"], r["thread_id"])
      /\ FieldAgrees(s["timestamp"], a["timestamp"], r["timestamp"])
  <2>1. FieldAgrees(s["id"], a["id"], r["id"])
    BY TextFields DEF IngestSchema
  <2>2. FieldAgrees(s["text"], a["text"], r["text"])
    BY TextFields DEF IngestSchema
  <2>3. FieldAgrees(s["source_type"], a["source_type"], r["source_type"])
    BY TextFields DEF IngestSchema
  <2>4. FieldAgrees(s["author"], a["author"], r["author"])
    BY TextFields DEF IngestSchema
  <2>5. FieldAgrees(s["author_id"], a["author_id"], r["author_id"])
    BY TextFields DEF IngestSchema
  <2>6. FieldAgrees(s["channel"], a["channel"], r["channel"])
    BY TextFields DEF IngestSchema
  <2>7. FieldAgrees(s["channel_id"], a["channel_id"], r["channel_id"])
    BY TextFields DEF IngestSchema
  <2>8. FieldAgrees(s["thread_id"], a["thread_id"], r["thread_id"])
    BY TextFields DEF IngestSchema
  <2>9. FieldAgrees(s["timestamp"], a["timestamp"], r["timestamp"])
    BY TextFields DEF IngestSchema
  <2> QED BY <2>1, <2>2, <2>3, <2>4, <2>5, <2>6, <2>7, <2>8, <2>9
<1>7. build_ingest_request(a) = IF ~whole THEN RefusedRequest ELSE r
  BY DEF build_ingest_request
<1> HIDE DEF s, r, root, one, meta
<1>8. Shallow(s)
  <2>1. \A f \in DOMAIN s : s[f].parent \in {Root, "messages", "message", "metadata"}
    BY <1>1, <1>2, <1>3, <1>4, <1>5
  <2>2. /\ "messages" \in DOMAIN s /\ s["messages"].parent = Root
        /\ "message" \in DOMAIN s /\ s["message"].parent = "messages"
        /\ "metadata" \in DOMAIN s /\ s["metadata"].parent = "message"
    BY <1>1, <1>2, <1>5
  <2>3. \A f \in DOMAIN s : \/ s[f].parent = Root \/ s[f].parent = "messages"
                           \/ s[f].parent = "message" \/ s[f].parent = "metadata"
    BY <2>1
  <2> QED BY <2>2, <2>3, Zenon DEF Shallow
<1>9. ASSUME NEW h, Checks(h, s, a)
      PROVE  whole /\ h["message"] /\ h["metadata"] /\ \A f \in DOMAIN r : h[f]
  <2>1. /\ \A f \in DOMAIN s : h[f] => FieldConforms(s[f], a[f])
        /\ \A f \in DOMAIN s : s[f].parent = Root => h[f]
        /\ \A f \in DOMAIN s : h[s[f].parent] /\ Holds(a[s[f].parent]) => h[f]
    BY <1>9, Zenon DEF Checks
  <2>2. h["messages"] /\ FieldConforms(root, a["messages"])
    BY <1>1, <1>2, <1>5, <2>1
  <2>3. a["messages"].kind = "array" /\ a["messages"].n > 0
    <3>1. a["messages"].kind = "array" /\ a["messages"].n >= 1
      BY <1>5, <2>2, KindsFact DEF ItemsConforms
    <3> QED BY <3>1, NumberValue
  <2>4. h["message"] /\ FieldConforms(one, a["message"])
    <3>1. Holds(a["messages"])
      BY <2>3 DEF Holds
    <3> QED BY <1>1, <1>2, <1>5, <2>1, <2>2, <3>1
  <2>5. a["message"].kind = "object"
    BY <1>5, <2>4, KindsFact DEF ObjectConforms
  <2>6. h["metadata"] /\ FieldConforms(meta, a["metadata"]) /\ h["id"] /\ h["text"]
    <3>1. Holds(a["message"])
      BY <2>5 DEF Holds
    <3> QED BY <1>1, <1>2, <1>3, <1>5, <2>1, <2>4, <3>1
  <2>7. a["metadata"].kind = "object"
    BY <1>5, <2>6, KindsFact DEF ObjectConforms
  <2>8. \A f \in DOMAIN s : s[f].parent = "metadata" => h[f]
    <3>1. Holds(a["metadata"])
      BY <2>7 DEF Holds
    <3> QED BY <2>1, <2>6, <3>1
  <2>9. \A f \in DOMAIN r : f \in DOMAIN s /\ (f = "id" \/ f = "text" \/ s[f].parent = "metadata")
    BY <1>1, <1>4
  <2> QED BY <2>3, <2>4, <2>5, <2>6, <2>7, <2>8, <2>9
<1>10. \A f \in DOMAIN r : f \in DOMAIN s
  BY <1>1
<1>11. \A f \in DOMAIN r : FieldAgrees(s[f], a[f], r[f])
  <2> SUFFICES ASSUME NEW f \in DOMAIN r PROVE FieldAgrees(s[f], a[f], r[f])
    OBVIOUS
  <2>1. \/ f = "id" \/ f = "text" \/ f = "source_type" \/ f = "author"
        \/ f = "author_id" \/ f = "channel" \/ f = "channel_id" \/ f = "thread_id" \/ f = "timestamp"
    BY <1>1
  <2> QED BY <1>6, <2>1, Zenon
<1>12. CASE whole
  <2>1. \A h : Checks(h, s, a) => \A f \in DOMAIN r : f \in DOMAIN s /\ h[f]
    BY <1>9, <1>10
  <2>2. Agree(s, a, r, excuse)
    BY <1>8, <1>11, <2>1, NestedAgrees, Zenon
  <2> QED BY <1>7, <1>12, <2>2 DEF s
<1>13. CASE ~whole
  <2>1. Agree(s, a, RefusedRequest, excuse)
    BY <1>8, <1>9, <1>13, RefusedAgrees, Zenon
  <2> QED BY <1>7, <1>13, <2>1 DEF s
<1> QED BY <1>12, <1>13

LEMMA RawAppendAgrees ==
    ASSUME NEW a, IsValue(a["tags"])
    PROVE  Agree(RawAppendSchema, a, raw_append_args(a),
                 a.title = Str("empty") \/ a.content \in {Str("empty"), Str("large")})
<1> DEFINE s == RawAppendSchema
           r == raw_append_args(a)
           excuse == a.title = Str("empty") \/ a.content \in {Str("empty"), Str("large")}
           text == Required(String(Root))
           tags == Items(Root, 0)
           tag == Required(String("tags"))
           v == a["tags"]
<1>1. /\ DOMAIN s = {"title", "content", "source", "tags", "tag"}
      /\ DOMAIN r = {"title", "content", "source", "tags"}
  BY DEF RawAppendSchema, raw_append_args
<1>2. /\ s["title"] = text /\ s["content"] = text /\ s["source"] = text
      /\ s["tags"] = tags /\ s["tag"] = tag
  BY DEF RawAppendSchema
<1>3. /\ r["title"] = IF a["title"] = Str("empty") THEN Bad ELSE StringField(a["title"])
      /\ r["content"] = IF a["content"] \in {Str("empty"), Str("large")} THEN Bad
                        ELSE StringField(a["content"])
      /\ r["source"] = StringField(a["source"])
      /\ r["tags"] = IF IsNone(v) THEN Absent
                     ELSE IF v.kind = "array" /\ (v.n = 0 \/ a["tag"].kind = "string")
                     THEN v ELSE Bad
  BY DEF raw_append_args
<1>4. text.parent = Root /\ tags.parent = Root /\ tag.parent = "tags"
  <2>1. text.parent = Root /\ tag.parent = "tags"
    BY ParentFact, Zenon
  <2>2. tags.parent = Root
    BY ParentFact, Zenon
  <2> QED BY <2>1, <2>2
<1>5. \A x : FieldAgrees(text, x, StringField(x))
  BY TextFields
<1>6. TextConforms(tag, TRUE, a["tag"])
  BY RequiredText, Zenon
<1>7. (\A x : ItemsConforms(tags, FALSE, 0, x)) /\ tags.default = Absent
  BY OptionalItems, Zenon
<1>8. excuse <=> a["title"] = Str("empty") \/ a["content"] \in {Str("empty"), Str("large")}
  OBVIOUS
<1> HIDE DEF s, r, excuse, text, tags, tag
<1>9. Shallow(s)
  <2>1. \A f \in DOMAIN s : s[f].parent = Root \/ s[f].parent = "tags"
    BY <1>1, <1>2, <1>4
  <2>2. "tags" \in DOMAIN s /\ s["tags"].parent = Root
    BY <1>1, <1>2, <1>4
  <2> QED BY <2>1, <2>2, Zenon DEF Shallow
<1>10. Sends(tags, v, r["tags"])
  <2>1. v.kind = "array" => v.n >= 0
    BY NumberValue
  <2>2. v.kind = "array" => FieldConforms(tags, v)
    BY <1>7, <2>1, KindsFact DEF ItemsConforms
  <2>3. FieldConforms(tags, Absent)
    BY <1>7 DEF ItemsConforms
  <2>4. r["tags"] = Absent \/ r["tags"] = Bad \/ (r["tags"] = v /\ v.kind = "array")
    BY <1>3
  <2> QED BY <1>7, <2>2, <2>3, <2>4, Zenon DEF Sends
<1>11. \A f \in DOMAIN r : Sends(s[f], a[f], r[f])
  <2>1. Sends(s["title"], a["title"], r["title"])
    BY <1>2, <1>3, <1>5, Zenon DEF FieldAgrees, Sends
  <2>2. Sends(s["content"], a["content"], r["content"])
    BY <1>2, <1>3, <1>5, Zenon DEF FieldAgrees, Sends
  <2>3. Sends(s["source"], a["source"], r["source"])
    BY <1>2, <1>3, <1>5, Zenon DEF FieldAgrees
  <2> SUFFICES ASSUME NEW f \in DOMAIN r PROVE Sends(s[f], a[f], r[f])
    OBVIOUS
  <2>4. f = "title" \/ f = "content" \/ f = "source" \/ f = "tags"
    BY <1>1
  <2> QED BY <1>2, <1>10, <2>1, <2>2, <2>3, <2>4, Zenon
<1>12. ASSUME Conforms(s, a) PROVE excuse \/ \A f \in DOMAIN r : r[f] # Bad
  <2>1. PICK h : Checks(h, s, a)
    BY <1>9, <1>12, ConformsUnfolds
  <2>2. /\ FieldConforms(text, a["title"]) /\ FieldConforms(text, a["content"])
        /\ FieldConforms(text, a["source"]) /\ FieldConforms(tags, v)
        /\ h["tags"] /\ Holds(v) => FieldConforms(tag, a["tag"])
    BY <1>1, <1>2, <1>4, <2>1 DEF Checks
  <2>3. h["tags"]
    BY <1>1, <1>2, <1>4, <2>1 DEF Checks
  <2>4. r["tags"] # Bad
    <3>1. CASE v = Absent
      BY <1>3, <3>1, KindsFact DEF IsNone
    <3>2. CASE v # Absent
      <4>1. v.kind = "array" /\ v.n >= 0
        BY <1>7, <2>2, <3>2 DEF ItemsConforms
      <4>2. v.n \in Int
        BY <4>1, NumberValue
      <4>3. v.n = 0 \/ Holds(v)
        BY <4>1, <4>2 DEF Holds
      <4>4. v.n = 0 \/ a["tag"].kind = "string"
        BY <1>6, <2>2, <2>3, <4>3, KindsFact DEF TextConforms
      <4> QED BY <1>3, <4>1, <4>4, KindsFact
    <3> QED BY <3>1, <3>2
  <2>5. StringField(a["title"]) # Bad /\ StringField(a["content"]) # Bad /\ r["source"] # Bad
    BY <1>3, <1>5, <2>2, Zenon DEF FieldAgrees
  <2>6. excuse \/ (r["title"] # Bad /\ r["content"] # Bad)
    BY <1>3, <1>8, <2>5, Zenon
  <2> QED BY <1>1, <2>4, <2>5, <2>6
<1>13. Agree(s, a, r, excuse)
  BY <1>11, <1>12, AgreeFact, Zenon
<1> QED BY <1>13 DEF s, r, excuse

\* The part of an inputSchema that query_nodes and stats share, within one of theirs.
WithFilters(schema) ==
    /\ DOMAIN FilterProperties \subseteq DOMAIN schema
    /\ \A f \in DOMAIN FilterProperties : schema[f] = FilterProperties[f]

FiltersFine(schema, a, request) ==
    /\ \A f \in DOMAIN request : Sends(schema[f], a[f], request[f])
    /\ \A h : Checks(h, schema, a) => \A f \in DOMAIN request : request[f] # Bad

LEMMA OpField ==
    ASSUME NEW v
    PROVE  FieldAgrees(Required(Enum("filter", FILTER_OPS, Absent)), v,
                       IF require_str_field(v).word \in FILTER_OPS THEN require_str_field(v) ELSE Bad)
<1> DEFINE s == Required(Enum("filter", FILTER_OPS, Absent))
           op == require_str_field(v)
           sent == IF op.word \in FILTER_OPS THEN op ELSE Bad
<1>1. /\ \A x : WordConforms(s, TRUE, FILTER_OPS, x)
      /\ s.default = Absent
  BY RequiredWord, Zenon DEF AnyWord, FILTER_OPS
<1>2. op = Bad \/ (op = v /\ v.kind = "string")
  BY DEF require_str_field
<1>3. v.kind = "string" /\ v.word \in FILTER_OPS => op = v
  BY DEF require_str_field, FILTER_OPS
<1>4. sent = Bad \/ (sent = v /\ v.kind = "string" /\ v.word \in FILTER_OPS)
  BY <1>2, Zenon
<1>5. v.kind = "string" /\ v.word \in FILTER_OPS => sent = v
  BY <1>3, Zenon
<1> HIDE DEF s, sent
<1>6. WordConforms(s, TRUE, FILTER_OPS, v)
  BY <1>1, Zenon
<1>7. FieldAgrees(s, v, sent)
  BY <1>1, <1>4, <1>5, <1>6, KindsFact DEF WordConforms, FieldAgrees, Sends
<1> QED BY <1>7 DEF s, sent, op

LEMMA FiltersAgree ==
    ASSUME NEW schema, NEW a, WithFilters(schema), IsValue(a["filters"])
    PROVE  /\ FiltersFine(schema, a, build_attribute_filters_from(a))
           /\ DOMAIN build_attribute_filters_from(a) \subseteq
                  {"filters", "refused", "key", "op", "value"}
<1> DEFINE r == build_attribute_filters_from(a)
           none == [filters |-> Absent]
           one == build_attribute_filter(a)
           rec == [key   |-> require_str_field(a.key),
                   op    |-> IF require_str_field(a.op).word \in FILTER_OPS
                             THEN require_str_field(a.op) ELSE Bad,
                   value |-> IF a.value.kind = "string" THEN a.value ELSE Bad]
           v == a["filters"]
           w == a["filter"]
           filters == Items(Root, 0)
           filter == Required(Nested("filters"))
<1>1. /\ r = IF IsNone(v) \/ v = Array(0) THEN none
             ELSE IF v.kind = "array" THEN one ELSE RefusedRequest
      /\ one = IF w.kind # "object" THEN RefusedRequest ELSE rec
  BY DEF build_attribute_filters_from, build_attribute_filter
<1>2. /\ DOMAIN none = {"filters"} /\ none["filters"] = Absent
      /\ DOMAIN rec = {"key", "op", "value"}
      /\ DOMAIN RefusedRequest = {"refused"} /\ RefusedRequest["refused"] = Bad
  BY DEF RefusedRequest
<1>3. DOMAIN FilterProperties = {"filters", "filter", "key", "op", "value"}
  BY DEF FilterProperties
<1>4. schema["filters"] = filters /\ schema["filter"] = filter
  <2>1. FilterProperties["filters"] = filters /\ FilterProperties["filter"] = filter
    BY DEF FilterProperties
  <2> HIDE DEF filters, filter
  <2> QED BY <1>3, <2>1 DEF WithFilters
<1>5. /\ FieldAgrees(schema["key"], a["key"], rec["key"])
      /\ FieldAgrees(schema["op"], a["op"], rec["op"])
      /\ FieldAgrees(schema["value"], a["value"], rec["value"])
  <2>1. FieldAgrees(FilterProperties["key"], a["key"], rec["key"])
    BY TextFields DEF FilterProperties
  <2>2. FieldAgrees(FilterProperties["op"], a["op"], rec["op"])
    BY OpField DEF FilterProperties
  <2>3. FieldAgrees(FilterProperties["value"], a["value"], rec["value"])
    <3>1. rec["value"] = StringField(a["value"])
      BY DEF StringField
    <3>2. FilterProperties["value"] = Required(String("filter"))
      BY DEF FilterProperties
    <3> HIDE DEF rec
    <3> QED BY <3>1, <3>2, TextFields
  <2> HIDE DEF rec
  <2> QED BY <1>3, <2>1, <2>2, <2>3, Zenon DEF WithFilters
<1>6. /\ schema["key"].parent = "filter" /\ schema["op"].parent = "filter"
      /\ schema["value"].parent = "filter"
  <2>1. FilterProperties["key"].parent = "filter"
    BY ParentFact DEF FilterProperties
  <2>2. FilterProperties["op"].parent = "filter"
    <3>1. FilterProperties["op"] = Required(Enum("filter", FILTER_OPS, Absent))
      BY DEF FilterProperties
    <3>2. Required(Enum("filter", FILTER_OPS, Absent)).parent = "filter"
      BY Zenon DEF Required, Enum, String, Spec0
    <3> QED BY <3>1, <3>2
  <2>3. FilterProperties["value"].parent = "filter"
    BY ParentFact DEF FilterProperties
  <2> QED BY <1>3, <2>1, <2>2, <2>3 DEF WithFilters
<1>7. /\ filters.parent = Root /\ filters.default = Absent
      /\ \A x : ItemsConforms(filters, FALSE, 0, x)
  <2>1. filters.parent = Root
    BY Zenon DEF Items, Spec0
  <2> QED BY <2>1, OptionalItems, Zenon
<1>8. filter.parent = "filters" /\ ObjectConforms(filter, TRUE, w)
  <2>1. filter.parent = "filters"
    BY Zenon DEF Required, Nested, Spec0
  <2> QED BY <2>1, RequiredObject, Zenon
<1> HIDE DEF r, none, one, rec, filters, filter
<1>9. \A h : Checks(h, schema, a) =>
          /\ v = Absent \/ v.kind = "array"
          /\ v.kind = "array" /\ v # Array(0) =>
                 /\ w.kind = "object"
                 /\ rec["key"] # Bad /\ rec["op"] # Bad /\ rec["value"] # Bad
  <2> SUFFICES ASSUME NEW h, Checks(h, schema, a)
               PROVE  /\ v = Absent \/ v.kind = "array"
                      /\ v.kind = "array" /\ v # Array(0) =>
                            /\ w.kind = "object"
                            /\ rec["key"] # Bad /\ rec["op"] # Bad /\ rec["value"] # Bad
    OBVIOUS
  <2>1. /\ \A f \in {"filters", "filter", "key", "op", "value"} :
               /\ h[f] => FieldConforms(schema[f], a[f])
               /\ schema[f].parent = Root => h[f]
               /\ h[schema[f].parent] /\ Holds(a[schema[f].parent]) => h[f]
    BY <1>3 DEF Checks, WithFilters
  <2>2. h["filters"] /\ FieldConforms(filters, v)
    BY <1>4, <1>7, <2>1
  <2>3. v = Absent \/ v.kind = "array"
    BY <1>7, <2>2 DEF ItemsConforms
  <2>4. ASSUME v.kind = "array", v # Array(0)
        PROVE  /\ w.kind = "object"
               /\ rec["key"] # Bad /\ rec["op"] # Bad /\ rec["value"] # Bad
    <3>1. v.n \in Nat /\ v = Array(v.n)
      BY <2>4, NumberValue
    <3>2. v.n # 0
      BY <2>4, <3>1
    <3>3. Holds(v)
      BY <2>4, <3>1, <3>2 DEF Holds
    <3>4. h["filter"] /\ FieldConforms(filter, w)
      BY <1>4, <1>8, <2>1, <2>2, <3>3
    <3>5. w.kind = "object"
      BY <1>8, <3>4, KindsFact DEF ObjectConforms
    <3>6. Holds(w)
      BY <3>5 DEF Holds
    <3>7. /\ FieldConforms(schema["key"], a["key"]) /\ FieldConforms(schema["op"], a["op"])
          /\ FieldConforms(schema["value"], a["value"])
      BY <1>6, <2>1, <3>4, <3>6
    <3> QED BY <1>5, <3>5, <3>7, Zenon DEF FieldAgrees
  <2> QED BY <2>3, <2>4
<1>10. FiltersFine(schema, a, none)
  <2>1. FieldConforms(filters, Absent)
    BY <1>7 DEF ItemsConforms
  <2>2. Sends(schema["filters"], v, Absent)
    BY <1>4, <1>7, <2>1, Zenon DEF Sends
  <2>3. \A f \in DOMAIN none : f = "filters" /\ none[f] = Absent
    BY <1>2
  <2> QED BY <2>2, <2>3, KindsFact DEF FiltersFine
<1>11. CASE IsNone(v) \/ v = Array(0)
  BY <1>1, <1>2, <1>10, <1>11 DEF r
<1>12. ASSUME ~IsNone(v), v # Array(0), v.kind # "array" \/ w.kind # "object"
       PROVE  FiltersFine(schema, a, r) /\ DOMAIN r = {"refused"}
  <2>1. r = RefusedRequest
    BY <1>1, <1>12
  <2>2. \A f \in DOMAIN r : r[f] = Bad
    BY <1>2, <2>1
  <2>3. \A h : ~Checks(h, schema, a)
    BY <1>9, <1>12, KindsFact DEF IsNone
  <2> QED BY <1>2, <2>1, <2>2, <2>3, Zenon DEF FiltersFine, Sends
<1>13. ASSUME ~IsNone(v), v # Array(0), v.kind = "array", w.kind = "object"
       PROVE  FiltersFine(schema, a, r) /\ DOMAIN r = {"key", "op", "value"}
  <2>1. r = rec
    BY <1>1, <1>13
  <2>2. \A f \in DOMAIN rec : f = "key" \/ f = "op" \/ f = "value"
    BY <1>2
  <2>3. \A f \in DOMAIN rec : Sends(schema[f], a[f], rec[f])
    BY <1>5, <2>2, Zenon DEF FieldAgrees
  <2>4. \A h : Checks(h, schema, a) => \A f \in DOMAIN rec : rec[f] # Bad
    BY <1>9, <1>13, <2>2, Zenon
  <2> QED BY <1>2, <2>1, <2>3, <2>4 DEF FiltersFine
<1> QED BY <1>11, <1>12, <1>13 DEF r

\* A schema and a request with filters, beside others of the root.
LEMMA FilteredAgrees ==
    ASSUME NEW rest, NEW a, NEW own, NEW excuse, IsValue(a["filters"]),
           DOMAIN own = DOMAIN rest,
           DOMAIN rest \cap {"filters", "filter", "key", "op", "value", "refused"} = {},
           \A f \in DOMAIN rest : /\ rest[f].parent = Root
                                  /\ Excused(rest, a, own, excuse, f)
    PROVE  Agree(Joined(FilterProperties, rest), a, Joined(build_attribute_filters_from(a), own), excuse)
<1> DEFINE schema == Joined(FilterProperties, rest)
           sent == build_attribute_filters_from(a)
           r == Joined(sent, own)
           names == {"filters", "filter", "key", "op", "value"}
<1>1. /\ DOMAIN schema = DOMAIN FilterProperties \cup DOMAIN rest
      /\ \A f \in DOMAIN FilterProperties : schema[f] = FilterProperties[f]
      /\ \A f \in DOMAIN rest \ DOMAIN FilterProperties : schema[f] = rest[f]
  <2> DEFINE fp == FilterProperties
             both == Joined(fp, rest)
  <2> HIDE DEF fp
  <2>1. DOMAIN both = DOMAIN fp \cup DOMAIN rest
    BY DEF Joined
  <2>2. \A f \in DOMAIN fp : both[f] = fp[f]
    BY DEF Joined
  <2>3. \A f \in DOMAIN rest \ DOMAIN fp : both[f] = rest[f]
    BY DEF Joined
  <2> HIDE DEF both
  <2>4. /\ DOMAIN both = DOMAIN fp \cup DOMAIN rest
        /\ \A f \in DOMAIN fp : both[f] = fp[f]
        /\ \A f \in DOMAIN rest \ DOMAIN fp : both[f] = rest[f]
    BY <2>1, <2>2, <2>3, Zenon
  <2> QED BY <2>4, Zenon DEF both, fp
<1>2. /\ DOMAIN r = DOMAIN sent \cup DOMAIN own
      /\ \A f \in DOMAIN sent : r[f] = sent[f]
      /\ \A f \in DOMAIN own \ DOMAIN sent : r[f] = own[f]
  <2> HIDE DEF sent
  <2>1. DOMAIN r = DOMAIN sent \cup DOMAIN own
    BY DEF Joined
  <2>2. \A f \in DOMAIN sent : r[f] = sent[f]
    BY DEF Joined
  <2>3. \A f \in DOMAIN own \ DOMAIN sent : r[f] = own[f]
    BY DEF Joined
  <2> QED BY <2>1, <2>2, <2>3
<1>3. DOMAIN FilterProperties = names
  BY DEF FilterProperties
<1>4. /\ FilterProperties["filters"].parent = Root /\ FilterProperties["filter"].parent = "filters"
      /\ \A f \in {"key", "op", "value"} : FilterProperties[f].parent = "filter"
  <2>1. FilterProperties["filters"].parent = Root /\ FilterProperties["filter"].parent = "filters"
    BY ParentFact DEF FilterProperties
  <2>2. FilterProperties["key"].parent = "filter"
    BY ParentFact DEF FilterProperties
  <2>3. FilterProperties["op"].parent = "filter"
    <3>1. FilterProperties["op"] = Required(Enum("filter", FILTER_OPS, Absent))
      BY DEF FilterProperties
    <3>2. Required(Enum("filter", FILTER_OPS, Absent)).parent = "filter"
      BY Zenon DEF Required, Enum, String, Spec0
    <3> QED BY <3>1, <3>2
  <2>4. FilterProperties["value"].parent = "filter"
    BY ParentFact DEF FilterProperties
  <2> QED BY <2>1, <2>2, <2>3, <2>4
<1> HIDE DEF schema, sent, r
<1>5. WithFilters(schema)
  BY <1>1 DEF WithFilters
<1>6. FiltersFine(schema, a, sent) /\ DOMAIN sent \subseteq {"filters", "refused", "key", "op", "value"}
  BY <1>5, FiltersAgree, Zenon DEF sent
<1>7. \A f \in DOMAIN rest : f \in DOMAIN schema /\ schema[f] = rest[f] /\ f \notin DOMAIN sent
                             /\ f \in DOMAIN r /\ r[f] = own[f]
  BY <1>1, <1>2, <1>3, <1>6
<1>8. \A f \in DOMAIN r : f \in DOMAIN rest \/ (f \in DOMAIN sent /\ r[f] = sent[f])
  BY <1>2
<1>9. Shallow(schema)
  <2>1. \A f \in DOMAIN schema :
            schema[f].parent = Root \/ schema[f].parent = "filters" \/ schema[f].parent = "filter"
    <3> SUFFICES ASSUME NEW f \in DOMAIN schema
                 PROVE  schema[f].parent = Root \/ schema[f].parent = "filters"
                            \/ schema[f].parent = "filter"
      OBVIOUS
    <3>1. CASE f \in DOMAIN rest
      BY <1>7, <3>1
    <3>2. CASE f \in names
      <4>1. schema[f] = FilterProperties[f]
        BY <1>1, <1>3, <3>2
      <4> QED BY <1>4, <3>2, <4>1
    <3> QED BY <1>1, <1>3, <3>1, <3>2
  <2>2. /\ "filters" \in DOMAIN schema /\ schema["filters"].parent = Root
        /\ "filter" \in DOMAIN schema /\ schema["filter"].parent = "filters"
    BY <1>1, <1>3, <1>4
  <2> QED BY <2>1, <2>2, Zenon DEF Shallow
<1>10. \A f \in DOMAIN r : Sends(schema[f], a[f], r[f])
  BY <1>6, <1>7, <1>8, Zenon DEF FiltersFine, Excused
<1>11. ASSUME Conforms(schema, a) PROVE excuse \/ \A f \in DOMAIN r : r[f] # Bad
  <2>1. PICK h : Checks(h, schema, a)
    BY <1>9, <1>11, ConformsUnfolds
  <2>2. \A f \in DOMAIN sent : sent[f] # Bad
    BY <1>6, <2>1, Zenon DEF FiltersFine
  <2>3. \A f \in DOMAIN rest : FieldConforms(rest[f], a[f])
    BY <1>7, <2>1, Zenon DEF Checks
  <2>4. excuse \/ \A f \in DOMAIN rest : own[f] # Bad
    BY <2>3, Zenon DEF Excused
  <2> QED BY <1>7, <1>8, <2>2, <2>4, Zenon
<1>12. Agree(schema, a, r, excuse)
  BY <1>10, <1>11, AgreeFact, Zenon
<1> QED BY <1>12 DEF schema, r, sent

LEMMA QueryNodesAgrees ==
    ASSUME NEW a, IsValue(a["filters"])
    PROVE  Agree(QueryNodesSchema, a, build_query_nodes_request(a), a.offset.n > I32_MAX)
<1> DEFINE limit == Integer(Root, QUERY_LIMIT_MIN, QUERY_LIMIT_MAX, Num(QUERY_LIMIT_DEFAULT))
           offset == Integer(Root, 0, MaxInteger, Num(0))
           v == a["offset"]
           page == optional_bounded_i32(v, 0, I32_MAX, Num(0))
           rest == [node_type  |-> Required(Solid(Root)),
                    sort_by    |-> Solid(Root),
                    sort_order |-> Enum(Root, SORT_ORDERS, Str("desc")),
                    limit      |-> limit,
                    offset     |-> offset]
           own == [node_type  |-> require_str_field(a.node_type),
                   sort_by    |-> optional_str_field(a.sort_by),
                   sort_order |-> OneOf(a.sort_order, SORT_ORDERS, Str("desc")),
                   limit      |-> optional_bounded_i32(a.limit, QUERY_LIMIT_MIN, QUERY_LIMIT_MAX,
                                                       Num(QUERY_LIMIT_DEFAULT)),
                   offset     |-> page]
           excuse == v.n > I32_MAX
           ok(f) == rest[f].parent = Root /\ Excused(rest, a, own, excuse, f)
<1>1. /\ DOMAIN rest = {"node_type", "sort_by", "sort_order", "limit", "offset"}
      /\ DOMAIN own = {"node_type", "sort_by", "sort_order", "limit", "offset"}
  OBVIOUS
<1>2. /\ FieldAgrees(rest["node_type"], a["node_type"], own["node_type"])
      /\ FieldAgrees(rest["sort_by"], a["sort_by"], own["sort_by"])
  BY TextFields
<1>3. FieldAgrees(rest["sort_order"], a["sort_order"], own["sort_order"])
  BY EnumField DEF SORT_ORDERS, AnyWord
<1>4. FieldAgrees(rest["limit"], a["limit"], own["limit"])
  BY IntegerField DEF QUERY_LIMIT_MIN, QUERY_LIMIT_MAX, QUERY_LIMIT_DEFAULT
<1>5. rest["node_type"].parent = Root /\ rest["sort_by"].parent = Root
  BY ParentFact
<1>6. rest["sort_order"].parent = Root
  <2>1. Enum(Root, SORT_ORDERS, Str("desc")).parent = Root
    BY Zenon DEF Enum, String, Spec0
  <2> QED BY <2>1
<1>7. rest["limit"].parent = Root
  <2>1. limit.parent = Root
    BY Zenon DEF Integer, Spec0
  <2> QED BY <2>1
<1>8. rest["offset"].parent = Root /\ rest["offset"] = offset /\ own["offset"] = page
  <2>1. offset.parent = Root
    BY Zenon DEF Integer, Spec0
  <2> QED BY <2>1
<1>9. /\ \A x : NumberConforms(offset, FALSE, 0, MaxInteger, x)
      /\ offset.default = Num(0)
  <2>1. \A x : NumberConforms(Integer(Root, 0, MaxInteger, Num(0)), FALSE, 0, MaxInteger, x)
    BY OptionalNumber, Zenon
  <2>2. offset.default = Num(0)
    BY Zenon DEF Integer, Spec0
  <2> QED BY <2>1, <2>2, Zenon
<1>10. page = Bad \/ page = Num(0) \/ (page = v /\ v.kind = "integer" /\ v.n \in 0..I32_MAX)
  BY DEF optional_bounded_i32
<1>11. /\ IsNone(v) => page = Num(0)
       /\ v.kind = "integer" /\ v.n \in 0..MaxInteger => page # Bad \/ excuse
  <2>1. IsNone(v) => page = Num(0)
    BY DEF optional_bounded_i32
  <2>2. ASSUME v.kind = "integer", v.n \in 0..MaxInteger PROVE page # Bad \/ excuse
    <3>1. I32_MAX \in Nat /\ ~IsNone(v)
      BY <2>2, IntegerAssumption DEF IsNone
    <3>2. CASE v.n \in 0..I32_MAX
      <4>1. page = v
        BY <2>2, <3>1, <3>2 DEF optional_bounded_i32
      <4> HIDE DEF page
      <4> QED BY <2>2, <4>1, KindsFact
    <3>3. CASE v.n \notin 0..I32_MAX
      BY <2>2, <3>1, <3>3
    <3> QED BY <3>2, <3>3
  <2> QED BY <2>1, <2>2
<1>12. 0..I32_MAX \subseteq 0..MaxInteger /\ 0 \in 0..MaxInteger
  BY IntegerAssumption
<1> HIDE DEF rest, own, excuse, offset, page
<1>13. Excused(rest, a, own, excuse, "offset")
  <2>1. FieldConforms(offset, v) => page # Bad \/ excuse
    <3>1. CASE v = Absent
      BY <1>11, <3>1, KindsFact DEF IsNone
    <3>2. CASE v # Absent
      BY <1>9, <1>11, <3>2, Zenon DEF NumberConforms
    <3> QED BY <3>1, <3>2
  <2>2. page # Bad => FieldConforms(offset, page)
    <3>1. page = Num(0) => FieldConforms(offset, page)
      BY <1>9, <1>12, KindsFact DEF NumberConforms
    <3>2. page = v /\ v.kind = "integer" /\ v.n \in 0..I32_MAX => FieldConforms(offset, page)
      BY <1>9, <1>12, KindsFact DEF NumberConforms
    <3> QED BY <1>10, <3>1, <3>2
  <2>3. page # Bad => page # Absent
    BY <1>10, KindsFact
  <2>4. v = Absent => page = Num(0)
    BY <1>11, KindsFact DEF IsNone
  <2> QED BY <1>8, <1>9, <2>1, <2>2, <2>3, <2>4, Zenon DEF Excused, Sends
<1>14. ok("node_type") /\ ok("sort_by") /\ ok("sort_order") /\ ok("limit") /\ ok("offset")
  BY <1>2, <1>3, <1>4, <1>5, <1>6, <1>7, <1>8, <1>13, FieldsExcused, Zenon
<1> HIDE DEF ok
<1>15. \A f \in DOMAIN rest : ok(f)
  BY <1>1, <1>14
<1>16. DOMAIN rest \cap {"filters", "filter", "key", "op", "value", "refused"} = {}
  BY <1>1
<1>17. Agree(Joined(FilterProperties, rest), a, Joined(build_attribute_filters_from(a), own), excuse)
  BY <1>1, <1>15, <1>16, FilteredAgrees, Zenon DEF ok
<1>18. /\ QueryNodesSchema = Joined(FilterProperties, rest)
       /\ build_query_nodes_request(a) = Joined(build_attribute_filters_from(a), own)
  BY Zenon DEF rest, own, offset, page, QueryNodesSchema, build_query_nodes_request
<1> QED BY <1>17, <1>18, Zenon DEF excuse

LEMMA StatsAgrees ==
    ASSUME NEW a, NEW excuse, IsValue(a["filters"])
    PROVE  Agree(StatsSchema, a, build_get_stats_request(a), excuse)
<1> DEFINE rest == [node_type |-> Solid(Root)]
           own == [node_type |-> optional_str_field(a.node_type)]
           ok(f) == rest[f].parent = Root /\ Excused(rest, a, own, excuse, f)
<1>1. DOMAIN rest = {"node_type"} /\ DOMAIN own = {"node_type"}
  OBVIOUS
<1>2. FieldAgrees(rest["node_type"], a["node_type"], own["node_type"])
  BY TextFields
<1>3. rest["node_type"].parent = Root
  BY ParentFact
<1> HIDE DEF rest, own
<1>4. ok("node_type")
  BY <1>2, <1>3, FieldsExcused, Zenon
<1> HIDE DEF ok
<1>5. \A f \in DOMAIN rest : ok(f)
  BY <1>1, <1>4
<1>6. DOMAIN rest \cap {"filters", "filter", "key", "op", "value", "refused"} = {}
  BY <1>1
<1>7. Agree(Joined(FilterProperties, rest), a, Joined(build_attribute_filters_from(a), own), excuse)
  BY <1>1, <1>5, <1>6, FilteredAgrees, Zenon DEF ok
<1>8. /\ StatsSchema = Joined(FilterProperties, rest)
      /\ build_get_stats_request(a) = Joined(build_attribute_filters_from(a), own)
  BY Zenon DEF rest, own, StatsSchema, build_get_stats_request
<1> QED BY <1>7, <1>8, Zenon

\* What is said of a field has the form of a property.
IsProperty(s) == /\ s.type \in {"string", "integer", "array", "object"}
                 /\ s.minimum \in Int /\ s.maximum \in Int

LEMMA PropertyFact ==
    ASSUME NEW p
    PROVE  /\ IsProperty(String(p)) /\ IsProperty(Required(String(p)))
           /\ \A words, d : IsProperty(Enum(p, words, d)) /\ IsProperty(Required(Enum(p, words, d)))
           /\ \A n \in Int : IsProperty(Items(p, n)) /\ IsProperty(Required(Items(p, n)))
           /\ \A lo, hi \in Int : \A d : IsProperty(Integer(p, lo, hi, d))
<1>1. IsProperty(String(p)) /\ IsProperty(Required(String(p)))
  <2>1. /\ String(p).type = "string" /\ String(p).minimum = 0 /\ String(p).maximum = 0
        /\ Required(String(p)).type = "string" /\ Required(String(p)).minimum = 0
        /\ Required(String(p)).maximum = 0
    BY Zenon DEF Required, String, Spec0
  <2> QED BY <2>1 DEF IsProperty
<1>2. ASSUME NEW words, NEW d
      PROVE  IsProperty(Enum(p, words, d)) /\ IsProperty(Required(Enum(p, words, d)))
  <2> DEFINE s == Enum(p, words, d)
             t == Required(Enum(p, words, d))
  <2>1. /\ s.type = "string" /\ s.minimum = 0 /\ s.maximum = 0
        /\ t.type = "string" /\ t.minimum = 0 /\ t.maximum = 0
    BY Zenon DEF Required, Enum, String, Spec0
  <2> HIDE DEF s, t
  <2>2. IsProperty(s) /\ IsProperty(t)
    BY <2>1 DEF IsProperty
  <2> QED BY <2>2 DEF s, t
<1>3. ASSUME NEW n \in Int PROVE IsProperty(Items(p, n)) /\ IsProperty(Required(Items(p, n)))
  <2> DEFINE s == Items(p, n)
             t == Required(Items(p, n))
  <2>1. /\ s.type = "array" /\ s.minimum = n /\ s.maximum = 0
        /\ t.type = "array" /\ t.minimum = n /\ t.maximum = 0
    BY Zenon DEF Required, Items, Spec0
  <2> HIDE DEF s, t
  <2>2. IsProperty(s) /\ IsProperty(t)
    BY <2>1 DEF IsProperty
  <2> QED BY <2>2 DEF s, t
<1>4. ASSUME NEW lo \in Int, NEW hi \in Int, NEW d PROVE IsProperty(Integer(p, lo, hi, d))
  <2> DEFINE s == Integer(p, lo, hi, d)
  <2>1. s.type = "integer" /\ s.minimum = lo /\ s.maximum = hi
    BY Zenon DEF Integer, Spec0
  <2> HIDE DEF s
  <2>2. IsProperty(s)
    BY <2>1 DEF IsProperty
  <2> QED BY <2>2 DEF s
<1> QED BY <1>1, <1>2, <1>3, <1>4

LEMMA GoodIsValue ==
    ASSUME NEW s, IsProperty(s)
    PROVE  IsValue(GoodValue(s))
<1>1. CASE s.type = "string"
  BY <1>1 DEF GoodValue, IsValue
<1>2. CASE s.type = "integer"
  <2>1. GoodValue(s) = Num(s.minimum)
    BY <1>2 DEF GoodValue
  <2> QED BY <2>1 DEF IsProperty, IsValue
<1>3. CASE s.type = "array"
  <2>1. GoodValue(s) = Array(1)
    BY <1>3 DEF GoodValue
  <2> QED BY <2>1 DEF IsValue
<1>4. CASE s.type = "object"
  <2>1. GoodValue(s) = Object
    BY <1>4 DEF GoodValue
  <2> QED BY <2>1 DEF IsValue
<1> QED BY <1>1, <1>2, <1>3, <1>4 DEF IsProperty

LEMMA ValuesAreValues ==
    ASSUME NEW s, IsProperty(s), NEW v \in ValuesOf(s)
    PROVE  IsValue(v)
<1> DEFINE plain == {Absent, Null, Other, Str("word"), Str("empty"), Str("blank"), Str("large"),
                     Array(0), Object}
           numbers == {Num(n) : n \in {s.minimum - 1, s.maximum, s.maximum + 1, I32_MAX, I32_MAX + 1}}
<1>1. \/ v \in plain \/ v = GoodValue(s) \/ \E w \in s.words : v = Str(w)
      \/ (s.type = "integer" /\ v \in numbers)
  BY DEF ValuesOf
<1>2. CASE v \in plain
  BY <1>2 DEF IsValue
<1>3. CASE v = GoodValue(s)
  BY <1>3, GoodIsValue
<1>4. CASE \E w \in s.words : v = Str(w)
  BY <1>4 DEF IsValue
<1>5. CASE v \in numbers
  <2>1. PICK n \in {s.minimum - 1, s.maximum, s.maximum + 1, I32_MAX, I32_MAX + 1} : v = Num(n)
    BY <1>5
  <2>2. n \in Int
    BY IntegerAssumption DEF IsProperty
  <2> QED BY <2>1, <2>2 DEF IsValue
<1> QED BY <1>1, <1>2, <1>3, <1>4, <1>5

LEMMA VariationsFact ==
    ASSUME NEW schema, NEW a \in Variations(schema), NEW k \in DOMAIN schema,
           IsProperty(schema[k])
    PROVE  IsValue(a[k])
<1> DEFINE Made(g, h, v, w) == [f \in DOMAIN schema |-> IF f = g THEN v ELSE IF f = h THEN w
                                                        ELSE GoodValue(schema[f])]
<1>1. PICK g \in DOMAIN schema, h \in DOMAIN schema :
          \E v \in ValuesOf(schema[g]), w \in ValuesOf(schema[h]) : a = Made(g, h, v, w)
  <2> DEFINE Pairs(g, h) == {Made(g, h, v, w) : v \in ValuesOf(schema[g]), w \in ValuesOf(schema[h])}
             PairsWith(g) == UNION {Pairs(g, h) : h \in DOMAIN schema}
  <2>1. Variations(schema) = UNION {PairsWith(g) : g \in DOMAIN schema}
    BY DEF Variations
  <2> HIDE DEF PairsWith
  <2>2. PICK g \in DOMAIN schema : a \in PairsWith(g)
    BY <2>1
  <2> HIDE DEF Pairs
  <2>3. PICK h \in DOMAIN schema : a \in Pairs(g, h)
    BY <2>2 DEF PairsWith
  <2> HIDE DEF Made
  <2>4. \E v \in ValuesOf(schema[g]), w \in ValuesOf(schema[h]) : a = Made(g, h, v, w)
    BY <2>3 DEF Pairs
  <2> QED BY <2>4
<1>2. PICK v \in ValuesOf(schema[g]), w \in ValuesOf(schema[h]) : a = Made(g, h, v, w)
  BY <1>1
<1>3. a[k] = IF k = g THEN v ELSE IF k = h THEN w ELSE GoodValue(schema[k])
  BY <1>2
<1> QED BY <1>2, <1>3, ValuesAreValues, GoodIsValue

\* What a tool advertises, and what it makes of its arguments.
Handled(tool, a) == IF tool \in Tools THEN Request(tool, a) ELSE WikiArgs(tool, a)
Does(tool, a, schema, request) == SchemaOf(tool, a) = schema /\ Handled(tool, a) = request

LEMMA GraphTools ==
    ASSUME NEW a
    PROVE  /\ Does("search", a, SearchSchema, build_search_request(a))
           /\ Does("ingest", a, IngestSchema, build_ingest_request(a))
           /\ Does("ingest_raw", a, IngestRawSchema, build_ingest_raw_request(a))
           /\ Does("query_nodes", a, QueryNodesSchema, build_query_nodes_request(a))
           /\ Does("stats", a, StatsSchema, build_get_stats_request(a))
           /\ Does("get_traceable_chain", a, ChainSchema, build_get_traceable_chain_request(a))
           /\ Does("feedback", a, FeedbackSchema, feedback_request(a))
           /\ Does("get_job_status", a, JobStatusSchema, get_job_status_request(a))
<1>1. Does("search", a, SearchSchema, build_search_request(a))
  <2>1. "search" \in Tools
    BY DEF Tools
  <2>2. tool_descriptor("search") = SearchSchema
    BY DEF tool_descriptor
  <2>3. Request("search", a) = build_search_request(a)
    BY DEF Request
  <2> QED BY <2>1, <2>2, <2>3, Zenon DEF Does, SchemaOf, Handled
<1>2. Does("ingest", a, IngestSchema, build_ingest_request(a))
  <2>1. "ingest" \in Tools
    BY DEF Tools
  <2>2. tool_descriptor("ingest") = IngestSchema
    BY DEF tool_descriptor
  <2>3. Request("ingest", a) = build_ingest_request(a)
    BY DEF Request
  <2> QED BY <2>1, <2>2, <2>3, Zenon DEF Does, SchemaOf, Handled
<1>3. Does("ingest_raw", a, IngestRawSchema, build_ingest_raw_request(a))
  <2>1. "ingest_raw" \in Tools
    BY DEF Tools
  <2>2. tool_descriptor("ingest_raw") = IngestRawSchema
    BY DEF tool_descriptor
  <2>3. Request("ingest_raw", a) = build_ingest_raw_request(a)
    BY DEF Request
  <2> QED BY <2>1, <2>2, <2>3, Zenon DEF Does, SchemaOf, Handled
<1>4. Does("query_nodes", a, QueryNodesSchema, build_query_nodes_request(a))
  <2>1. "query_nodes" \in Tools
    BY DEF Tools
  <2>2. tool_descriptor("query_nodes") = QueryNodesSchema
    BY DEF tool_descriptor
  <2>3. Request("query_nodes", a) = build_query_nodes_request(a)
    BY DEF Request
  <2> QED BY <2>1, <2>2, <2>3, Zenon DEF Does, SchemaOf, Handled
<1>5. Does("stats", a, StatsSchema, build_get_stats_request(a))
  <2>1. "stats" \in Tools
    BY DEF Tools
  <2>2. tool_descriptor("stats") = StatsSchema
    BY DEF tool_descriptor
  <2>3. Request("stats", a) = build_get_stats_request(a)
    BY DEF Request
  <2> QED BY <2>1, <2>2, <2>3, Zenon DEF Does, SchemaOf, Handled
<1>6. Does("get_traceable_chain", a, ChainSchema, build_get_traceable_chain_request(a))
  <2>1. "get_traceable_chain" \in Tools
    BY DEF Tools
  <2>2. tool_descriptor("get_traceable_chain") = ChainSchema
    BY DEF tool_descriptor
  <2>3. Request("get_traceable_chain", a) = build_get_traceable_chain_request(a)
    BY DEF Request
  <2> QED BY <2>1, <2>2, <2>3, Zenon DEF Does, SchemaOf, Handled
<1>7. Does("feedback", a, FeedbackSchema, feedback_request(a))
  <2>1. "feedback" \in Tools
    BY DEF Tools
  <2>2. tool_descriptor("feedback") = FeedbackSchema
    BY DEF tool_descriptor
  <2>3. Request("feedback", a) = feedback_request(a)
    BY DEF Request
  <2> QED BY <2>1, <2>2, <2>3, Zenon DEF Does, SchemaOf, Handled
<1>8. Does("get_job_status", a, JobStatusSchema, get_job_status_request(a))
  <2>1. "get_job_status" \in Tools
    BY DEF Tools
  <2>2. tool_descriptor("get_job_status") = JobStatusSchema
    BY DEF tool_descriptor
  <2>3. Request("get_job_status", a) = get_job_status_request(a)
    BY DEF Request
  <2> QED BY <2>1, <2>2, <2>3, Zenon DEF Does, SchemaOf, Handled
<1> QED BY <1>1, <1>2, <1>3, <1>4, <1>5, <1>6, <1>7, <1>8

LEMMA WikiToolsDo ==
    ASSUME NEW a
    PROVE  /\ Does("raw_append", a, RawAppendSchema, raw_append_args(a))
           /\ Does("raw_read", a, RawReadSchema, [id |-> StringField(a.id)])
           /\ Does("raw_search", a, RawSearchSchema, raw_search_args(a))
           /\ Does("wiki_read", a, WikiReadSchema, [concept |-> StringField(a.concept), scope |-> parse_scope_arg(a.scope)])
           /\ Does("wiki_list", a, WikiListSchema, [scope |-> parse_scope_arg(a.scope)])
           /\ Does("wiki_rebuild", a, WikiRebuildSchema, wiki_rebuild_args(a))
           /\ Does("schema_read", a, SchemaReadSchema(a), schema_read_args(a))
           /\ Does("schema_update", a, SchemaUpdateSchema, [content |-> StringField(a.content)])
           /\ Does("export", a, ExportSchema, export_args(a))
<1>1. Does("raw_append", a, RawAppendSchema, raw_append_args(a))
  <2>1. "raw_append" \notin Tools
    BY DEF Tools
  <2>2. list("raw_append", a) = RawAppendSchema
    BY DEF list
  <2>3. WikiArgs("raw_append", a) = raw_append_args(a)
    BY DEF WikiArgs
  <2> QED BY <2>1, <2>2, <2>3, Zenon DEF Does, SchemaOf, Handled
<1>2. Does("raw_read", a, RawReadSchema, [id |-> StringField(a.id)])
  <2>1. "raw_read" \notin Tools
    BY DEF Tools
  <2>2. list("raw_read", a) = RawReadSchema
    BY DEF list
  <2>3. WikiArgs("raw_read", a) = [id |-> StringField(a.id)]
    BY DEF WikiArgs
  <2> QED BY <2>1, <2>2, <2>3, Zenon DEF Does, SchemaOf, Handled
<1>3. Does("raw_search", a, RawSearchSchema, raw_search_args(a))
  <2>1. "raw_search" \notin Tools
    BY DEF Tools
  <2>2. list("raw_search", a) = RawSearchSchema
    BY DEF list
  <2>3. WikiArgs("raw_search", a) = raw_search_args(a)
    BY DEF WikiArgs
  <2> QED BY <2>1, <2>2, <2>3, Zenon DEF Does, SchemaOf, Handled
<1>4. Does("wiki_read", a, WikiReadSchema, [concept |-> StringField(a.concept), scope |-> parse_scope_arg(a.scope)])
  <2>1. "wiki_read" \notin Tools
    BY DEF Tools
  <2>2. list("wiki_read", a) = WikiReadSchema
    BY DEF list
  <2>3. WikiArgs("wiki_read", a) = [concept |-> StringField(a.concept), scope |-> parse_scope_arg(a.scope)]
    BY DEF WikiArgs
  <2> QED BY <2>1, <2>2, <2>3, Zenon DEF Does, SchemaOf, Handled
<1>5. Does("wiki_list", a, WikiListSchema, [scope |-> parse_scope_arg(a.scope)])
  <2>1. "wiki_list" \notin Tools
    BY DEF Tools
  <2>2. list("wiki_list", a) = WikiListSchema
    BY DEF list
  <2>3. WikiArgs("wiki_list", a) = [scope |-> parse_scope_arg(a.scope)]
    BY DEF WikiArgs
  <2> QED BY <2>1, <2>2, <2>3, Zenon DEF Does, SchemaOf, Handled
<1>6. Does("wiki_rebuild", a, WikiRebuildSchema, wiki_rebuild_args(a))
  <2>1. "wiki_rebuild" \notin Tools
    BY DEF Tools
  <2>2. list("wiki_rebuild", a) = WikiRebuildSchema
    BY DEF list
  <2>3. WikiArgs("wiki_rebuild", a) = wiki_rebuild_args(a)
    BY DEF WikiArgs
  <2> QED BY <2>1, <2>2, <2>3, Zenon DEF Does, SchemaOf, Handled
<1>7. Does("schema_read", a, SchemaReadSchema(a), schema_read_args(a))
  <2>1. "schema_read" \notin Tools
    BY DEF Tools
  <2>2. list("schema_read", a) = SchemaReadSchema(a)
    BY DEF list
  <2>3. WikiArgs("schema_read", a) = schema_read_args(a)
    BY DEF WikiArgs
  <2> QED BY <2>1, <2>2, <2>3, Zenon DEF Does, SchemaOf, Handled
<1>8. Does("schema_update", a, SchemaUpdateSchema, [content |-> StringField(a.content)])
  <2>1. "schema_update" \notin Tools
    BY DEF Tools
  <2>2. list("schema_update", a) = SchemaUpdateSchema
    BY DEF list
  <2>3. WikiArgs("schema_update", a) = [content |-> StringField(a.content)]
    BY DEF WikiArgs
  <2> QED BY <2>1, <2>2, <2>3, Zenon DEF Does, SchemaOf, Handled
<1>9. Does("export", a, ExportSchema, export_args(a))
  <2>1. "export" \notin Tools
    BY DEF Tools
  <2>2. list("export", a) = ExportSchema
    BY DEF list
  <2>3. WikiArgs("export", a) = export_args(a)
    BY DEF WikiArgs
  <2> QED BY <2>1, <2>2, <2>3, Zenon DEF Does, SchemaOf, Handled
<1> QED BY <1>1, <1>2, <1>3, <1>4, <1>5, <1>6, <1>7, <1>8, <1>9

LEMMA AgreeWeaker ==
    ASSUME NEW schema, NEW a, NEW request, NEW excuse, NEW other,
           Agree(schema, a, request, excuse), excuse => other
    PROVE  Agree(schema, a, request, other)
BY Zenon DEF Agree

LEMMA ArgumentsFact ==
    ASSUME NEW tool \in Tools \cup WikiTools, NEW a \in Variations(SchemaOf(tool, AnyArgs))
    PROVE  Agree(SchemaOf(tool, a), a, Handled(tool, a), Unannounced(tool, a))
<1> DEFINE excuse == Unannounced(tool, a)
           advertised == SchemaOf(tool, AnyArgs)
<1>1. CASE tool = "search"
  <2>1. SchemaOf(tool, a) = SearchSchema /\ Handled(tool, a) = build_search_request(a)
    BY <1>1, GraphTools, Zenon DEF Does
  <2>2. Agree(SearchSchema, a, build_search_request(a), excuse)
    <3> HIDE DEF excuse
    <3> QED BY SearchAgrees, Zenon
  <2> QED BY <2>1, <2>2, Zenon DEF excuse
<1>2. CASE tool = "ingest"
  <2>1. SchemaOf(tool, a) = IngestSchema /\ Handled(tool, a) = build_ingest_request(a)
    BY <1>2, GraphTools, Zenon DEF Does
  <2>2. advertised = IngestSchema
    BY <1>2, GraphTools, Zenon DEF Does
  <2>3. IsValue(a["messages"])
    <3>1. "messages" \in DOMAIN advertised /\ advertised["messages"] = Required(Items(Root, 1))
      BY <2>2 DEF IngestSchema
    <3>2. IsProperty(Required(Items(Root, 1)))
      BY PropertyFact
    <3> HIDE DEF advertised
    <3> QED BY <3>1, <3>2, VariationsFact, Zenon DEF advertised
  <2>4. Agree(IngestSchema, a, build_ingest_request(a), excuse)
    <3> HIDE DEF excuse
    <3> QED BY <2>3, IngestAgrees, Zenon
  <2> QED BY <2>1, <2>4, Zenon DEF excuse
<1>3. CASE tool = "ingest_raw"
  <2>1. SchemaOf(tool, a) = IngestRawSchema /\ Handled(tool, a) = build_ingest_raw_request(a)
    BY <1>3, GraphTools, Zenon DEF Does
  <2>2. Agree(IngestRawSchema, a, build_ingest_raw_request(a), excuse)
    <3> HIDE DEF excuse
    <3> QED BY IngestRawAgrees, Zenon
  <2> QED BY <2>1, <2>2, Zenon DEF excuse
<1>4. CASE tool = "query_nodes"
  <2>1. SchemaOf(tool, a) = QueryNodesSchema /\ Handled(tool, a) = build_query_nodes_request(a)
    BY <1>4, GraphTools, Zenon DEF Does
  <2>2. advertised = QueryNodesSchema
    BY <1>4, GraphTools, Zenon DEF Does
  <2>3. IsValue(a["filters"])
    <3> DEFINE rest == [node_type  |-> Required(Solid(Root)),
                        sort_by    |-> Solid(Root),
                        sort_order |-> Enum(Root, SORT_ORDERS, Str("desc")),
                        limit      |-> Integer(Root, QUERY_LIMIT_MIN, QUERY_LIMIT_MAX,
                                               Num(QUERY_LIMIT_DEFAULT)),
                        offset     |-> Integer(Root, 0, MaxInteger, Num(0))]
    <3>1. advertised = Joined(FilterProperties, rest)
      BY <2>2, Zenon DEF QueryNodesSchema
    <3>2. "filters" \in DOMAIN FilterProperties /\ FilterProperties["filters"] = Items(Root, 0)
      BY DEF FilterProperties
    <3> HIDE DEF rest
    <3>3. /\ "filters" \in DOMAIN Joined(FilterProperties, rest)
          /\ Joined(FilterProperties, rest)["filters"] = Items(Root, 0)
      BY <3>2 DEF Joined
    <3>4. IsProperty(Items(Root, 0))
      BY PropertyFact
    <3> HIDE DEF advertised
    <3> QED BY <3>1, <3>3, <3>4, VariationsFact, Zenon DEF advertised
  <2> DEFINE past == a.offset.n > I32_MAX
  <2>4. Agree(QueryNodesSchema, a, build_query_nodes_request(a), past)
    BY <2>3, QueryNodesAgrees
  <2>5. past => excuse
    BY <1>4 DEF Unannounced
  <2> HIDE DEF excuse, past
  <2>6. Agree(QueryNodesSchema, a, build_query_nodes_request(a), excuse)
    BY <2>4, <2>5, Zenon DEF Agree
  <2> QED BY <2>1, <2>6, Zenon DEF excuse
<1>5. CASE tool = "stats"
  <2>1. SchemaOf(tool, a) = StatsSchema /\ Handled(tool, a) = build_get_stats_request(a)
    BY <1>5, GraphTools, Zenon DEF Does
  <2>2. advertised = StatsSchema
    BY <1>5, GraphTools, Zenon DEF Does
  <2>3. IsValue(a["filters"])
    <3> DEFINE rest == [node_type |-> Solid(Root)]
    <3>1. advertised = Joined(FilterProperties, rest)
      BY <2>2, Zenon DEF StatsSchema
    <3>2. "filters" \in DOMAIN FilterProperties /\ FilterProperties["filters"] = Items(Root, 0)
      BY DEF FilterProperties
    <3> HIDE DEF rest
    <3>3. /\ "filters" \in DOMAIN Joined(FilterProperties, rest)
          /\ Joined(FilterProperties, rest)["filters"] = Items(Root, 0)
      BY <3>2 DEF Joined
    <3>4. IsProperty(Items(Root, 0))
      BY PropertyFact
    <3> HIDE DEF advertised
    <3> QED BY <3>1, <3>3, <3>4, VariationsFact, Zenon DEF advertised
  <2>4. Agree(StatsSchema, a, build_get_stats_request(a), excuse)
    <3> HIDE DEF excuse
    <3> QED BY <2>3, StatsAgrees, Zenon
  <2> QED BY <2>1, <2>4, Zenon DEF excuse
<1>6. CASE tool = "get_traceable_chain"
  <2>1. SchemaOf(tool, a) = ChainSchema /\ Handled(tool, a) = build_get_traceable_chain_request(a)
    BY <1>6, GraphTools, Zenon DEF Does
  <2>2. Agree(ChainSchema, a, build_get_traceable_chain_request(a), excuse)
    <3> HIDE DEF excuse
    <3> QED BY ChainAgrees, Zenon
  <2> QED BY <2>1, <2>2, Zenon DEF excuse
<1>7. CASE tool = "feedback"
  <2>1. SchemaOf(tool, a) = FeedbackSchema /\ Handled(tool, a) = feedback_request(a)
    BY <1>7, GraphTools, Zenon DEF Does
  <2>2. Agree(FeedbackSchema, a, feedback_request(a), excuse)
    <3> HIDE DEF excuse
    <3> QED BY FeedbackAgrees, Zenon
  <2> QED BY <2>1, <2>2, Zenon DEF excuse
<1>8. CASE tool = "get_job_status"
  <2>1. SchemaOf(tool, a) = JobStatusSchema /\ Handled(tool, a) = get_job_status_request(a)
    BY <1>8, GraphTools, Zenon DEF Does
  <2>2. Agree(JobStatusSchema, a, get_job_status_request(a), excuse)
    <3> HIDE DEF excuse
    <3> QED BY JobStatusAgrees, Zenon
  <2> QED BY <2>1, <2>2, Zenon DEF excuse
<1>9. CASE tool = "raw_append"
  <2>1. SchemaOf(tool, a) = RawAppendSchema /\ Handled(tool, a) = raw_append_args(a)
    BY <1>9, WikiToolsDo, Zenon DEF Does
  <2>2. advertised = RawAppendSchema
    BY <1>9, WikiToolsDo, Zenon DEF Does
  <2>3. IsValue(a["tags"])
    <3>1. "tags" \in DOMAIN advertised /\ advertised["tags"] = Items(Root, 0)
      BY <2>2 DEF RawAppendSchema
    <3>2. IsProperty(Items(Root, 0))
      BY PropertyFact
    <3> HIDE DEF advertised
    <3> QED BY <3>1, <3>2, VariationsFact, Zenon DEF advertised
  <2>4. Agree(RawAppendSchema, a, raw_append_args(a), a.title = Str("empty") \/ a.content \in {Str("empty"), Str("large")})
    BY <2>3, RawAppendAgrees, Zenon
  <2>5. (a.title = Str("empty") \/ a.content \in {Str("empty"), Str("large")}) => excuse
    BY <1>9 DEF Unannounced
  <2> HIDE DEF excuse
  <2> QED BY <2>1, <2>4, <2>5, AgreeWeaker, Zenon DEF excuse
<1>10. CASE tool = "raw_read"
  <2>1. SchemaOf(tool, a) = RawReadSchema /\ Handled(tool, a) = [id |-> StringField(a.id)]
    BY <1>10, WikiToolsDo, Zenon DEF Does
  <2>2. Agree(RawReadSchema, a, [id |-> StringField(a.id)], excuse)
    <3> HIDE DEF excuse
    <3> QED BY RawReadAgrees, Zenon
  <2> QED BY <2>1, <2>2, Zenon DEF excuse
<1>11. CASE tool = "raw_search"
  <2>1. SchemaOf(tool, a) = RawSearchSchema /\ Handled(tool, a) = raw_search_args(a)
    BY <1>11, WikiToolsDo, Zenon DEF Does
  <2>2. advertised = RawSearchSchema
    BY <1>11, WikiToolsDo, Zenon DEF Does
  <2>3. IsValue(a["query"])
    <3>1. "query" \in DOMAIN advertised /\ advertised["query"] = Required(String(Root))
      BY <2>2 DEF RawSearchSchema
    <3>2. IsProperty(Required(String(Root)))
      BY PropertyFact
    <3> HIDE DEF advertised
    <3> QED BY <3>1, <3>2, VariationsFact, Zenon DEF advertised
  <2>4. IsValue(a["scope"])
    <3>1. "scope" \in DOMAIN advertised /\ advertised["scope"] = Enum(Root, WikiScopes, Absent)
      BY <2>2 DEF RawSearchSchema
    <3>2. IsProperty(Enum(Root, WikiScopes, Absent))
      BY PropertyFact
    <3> HIDE DEF advertised
    <3> QED BY <3>1, <3>2, VariationsFact, Zenon DEF advertised
  <2>5. IsValue(a["limit"])
    <3>1. "limit" \in DOMAIN advertised /\ advertised["limit"] = Integer(Root, 1, 100, Absent)
      BY <2>2 DEF RawSearchSchema
    <3>2. IsProperty(Integer(Root, 1, 100, Absent))
      BY PropertyFact
    <3> HIDE DEF advertised
    <3> QED BY <3>1, <3>2, VariationsFact, Zenon DEF advertised
  <2>6. \A f \in DOMAIN RawSearchSchema : IsValue(a[f])
    <3>1. DOMAIN RawSearchSchema = {"query", "scope", "limit"}
      BY DEF RawSearchSchema
    <3> QED BY <2>3, <2>4, <2>5, <3>1
  <2>7. Agree(RawSearchSchema, a, raw_search_args(a), excuse)
    <3> HIDE DEF excuse
    <3> QED BY <2>6, RawSearchAgrees, Zenon
  <2> QED BY <2>1, <2>7, Zenon DEF excuse
<1>12. CASE tool = "wiki_read"
  <2>1. SchemaOf(tool, a) = WikiReadSchema /\ Handled(tool, a) = [concept |-> StringField(a.concept), scope |-> parse_scope_arg(a.scope)]
    BY <1>12, WikiToolsDo, Zenon DEF Does
  <2>2. advertised = WikiReadSchema
    BY <1>12, WikiToolsDo, Zenon DEF Does
  <2>3. IsValue(a["concept"])
    <3>1. "concept" \in DOMAIN advertised /\ advertised["concept"] = Required(String(Root))
      BY <2>2 DEF WikiReadSchema
    <3>2. IsProperty(Required(String(Root)))
      BY PropertyFact
    <3> HIDE DEF advertised
    <3> QED BY <3>1, <3>2, VariationsFact, Zenon DEF advertised
  <2>4. IsValue(a["scope"])
    <3>1. "scope" \in DOMAIN advertised /\ advertised["scope"] = Enum(Root, WikiScopes, Absent)
      BY <2>2 DEF WikiReadSchema
    <3>2. IsProperty(Enum(Root, WikiScopes, Absent))
      BY PropertyFact
    <3> HIDE DEF advertised
    <3> QED BY <3>1, <3>2, VariationsFact, Zenon DEF advertised
  <2>5. \A f \in DOMAIN WikiReadSchema : IsValue(a[f])
    <3>1. DOMAIN WikiReadSchema = {"concept", "scope"}
      BY DEF WikiReadSchema
    <3> QED BY <2>3, <2>4, <3>1
  <2>6. Agree(WikiReadSchema, a, [concept |-> StringField(a.concept), scope |-> parse_scope_arg(a.scope)], excuse)
    <3> HIDE DEF excuse
    <3> QED BY <2>5, WikiReadAgrees, Zenon
  <2> QED BY <2>1, <2>6, Zenon DEF excuse
<1>13. CASE tool = "wiki_list"
  <2>1. SchemaOf(tool, a) = WikiListSchema /\ Handled(tool, a) = [scope |-> parse_scope_arg(a.scope)]
    BY <1>13, WikiToolsDo, Zenon DEF Does
  <2>2. advertised = WikiListSchema
    BY <1>13, WikiToolsDo, Zenon DEF Does
  <2>3. IsValue(a["scope"])
    <3>1. "scope" \in DOMAIN advertised /\ advertised["scope"] = Enum(Root, WikiScopes, Absent)
      BY <2>2 DEF WikiListSchema
    <3>2. IsProperty(Enum(Root, WikiScopes, Absent))
      BY PropertyFact
    <3> HIDE DEF advertised
    <3> QED BY <3>1, <3>2, VariationsFact, Zenon DEF advertised
  <2>4. \A f \in DOMAIN WikiListSchema : IsValue(a[f])
    <3>1. DOMAIN WikiListSchema = {"scope"}
      BY DEF WikiListSchema
    <3> QED BY <2>3, <3>1
  <2>5. Agree(WikiListSchema, a, [scope |-> parse_scope_arg(a.scope)], excuse)
    <3> HIDE DEF excuse
    <3> QED BY <2>4, WikiListAgrees, Zenon
  <2> QED BY <2>1, <2>5, Zenon DEF excuse
<1>14. CASE tool = "wiki_rebuild"
  <2>1. SchemaOf(tool, a) = WikiRebuildSchema /\ Handled(tool, a) = wiki_rebuild_args(a)
    BY <1>14, WikiToolsDo, Zenon DEF Does
  <2>2. Agree(WikiRebuildSchema, a, wiki_rebuild_args(a), a.concept.word \notin ConceptNames)
    BY WikiRebuildAgrees, Zenon
  <2>3. (a.concept.word \notin ConceptNames) => excuse
    BY <1>14 DEF Unannounced
  <2> HIDE DEF excuse
  <2> QED BY <2>1, <2>2, <2>3, AgreeWeaker, Zenon DEF excuse
<1>15. CASE tool = "schema_read"
  <2>1. SchemaOf(tool, a) = SchemaReadSchema(a) /\ Handled(tool, a) = schema_read_args(a)
    BY <1>15, WikiToolsDo, Zenon DEF Does
  <2>2. advertised = SchemaReadSchema(AnyArgs)
    BY <1>15, WikiToolsDo, Zenon DEF Does
  <2>3. IsValue(a["scope"])
    <3>1. "scope" \in DOMAIN advertised /\ advertised["scope"] = Required(Enum(Root, {"personal", "shared"}, Absent))
      BY <2>2 DEF SchemaReadSchema
    <3>2. IsProperty(Required(Enum(Root, {"personal", "shared"}, Absent)))
      BY PropertyFact
    <3> HIDE DEF advertised
    <3> QED BY <3>1, <3>2, VariationsFact, Zenon DEF advertised
  <2>4. Agree(SchemaReadSchema(a), a, schema_read_args(a), excuse)
    <3> HIDE DEF excuse
    <3> QED BY <2>3, SchemaReadAgrees, Zenon
  <2> QED BY <2>1, <2>4, Zenon DEF excuse
<1>16. CASE tool = "schema_update"
  <2>1. SchemaOf(tool, a) = SchemaUpdateSchema /\ Handled(tool, a) = [content |-> StringField(a.content)]
    BY <1>16, WikiToolsDo, Zenon DEF Does
  <2>2. Agree(SchemaUpdateSchema, a, [content |-> StringField(a.content)], excuse)
    <3> HIDE DEF excuse
    <3> QED BY SchemaUpdateAgrees, Zenon
  <2> QED BY <2>1, <2>2, Zenon DEF excuse
<1>17. CASE tool = "export"
  <2>1. SchemaOf(tool, a) = ExportSchema /\ Handled(tool, a) = export_args(a)
    BY <1>17, WikiToolsDo, Zenon DEF Does
  <2>2. Agree(ExportSchema, a, export_args(a), a.cursor.word \notin CursorWords)
    BY ExportAgrees, Zenon
  <2>3. (a.cursor.word \notin CursorWords) => excuse
    BY <1>17 DEF Unannounced
  <2> HIDE DEF excuse
  <2> QED BY <2>1, <2>2, <2>3, AgreeWeaker, Zenon DEF excuse
<1> QED BY <1>1, <1>2, <1>3, <1>4, <1>5, <1>6, <1>7, <1>8, <1>9, <1>10, <1>11, <1>12, <1>13, <1>14, <1>15, <1>16, <1>17 DEF Tools, WikiTools

\* Arguments that satisfy the inputSchema a tool advertises are accepted by its
\* handler, but for the exceptions of Unannounced, and what an accepted call
\* sends on satisfies the inputSchema too, advertised defaults included
\* (DescriptionsAgree), for every tool of both generations, whatever the limit of
\* an i32, the largest integer written, the valid concepts and the cursors.
THEOREM ArgumentsAgree == Spec => []DescriptionsAgree
<1> DEFINE Ran == alg = "args" =>
               /\ in.tool \in Tools \cup WikiTools
               /\ in.args \in Variations(SchemaOf(in.tool, AnyArgs))
               /\ done => out = Handled(in.tool, in.args)
<1>1. Ran => DescriptionsAgree
  <2>1. CASE ~(alg = "args" /\ done)
    BY <2>1, Zenon DEF DescriptionsAgree, AdvertisedIsAccepted, SentIsAdvertised
  <2>2. CASE Ran /\ alg = "args" /\ done
    <3>1. Agree(SchemaOf(in.tool, in.args), in.args, out, Unannounced(in.tool, in.args))
      BY <2>2, ArgumentsFact, Zenon
    <3> QED BY <3>1, Zenon DEF Agree, DescriptionsAgree, AdvertisedIsAccepted, SentIsAdvertised
  <2> QED BY <2>1, <2>2
<1>2. Init => Ran
  <2> SUFFICES ASSUME Init, alg = "args"
               PROVE  /\ in.tool \in Tools \cup WikiTools
                      /\ in.args \in Variations(SchemaOf(in.tool, AnyArgs))
                      /\ ~done
    BY Zenon
  <2>1. ArgsInput /\ ~done
    BY DEF Init
  <2>2. PICK tool \in Tools \cup WikiTools :
            in \in [tool : {tool}, args : Variations(SchemaOf(tool, AnyArgs))]
    BY <2>1 DEF ArgsInput
  <2>3. in.tool = tool /\ in.args \in Variations(SchemaOf(tool, AnyArgs))
    BY <2>2
  <2> QED BY <2>1, <2>2, <2>3
<1>3. Ran /\ [Next]_vars => Ran'
  <2> SUFFICES ASSUME Ran, [Next]_vars PROVE Ran'
    OBVIOUS
  <2>1. UNCHANGED <<alg, in>> /\ (alg = "args" => (out' = Handled(in.tool, in.args) \/ UNCHANGED <<out, done>>))
    BY DEF Next, Run, vars, Handled
  <2> QED BY <2>1
<1> QED BY <1>1, <1>2, <1>3, PTL DEF Spec
=============================================================================
