---------------------------- MODULE WikiMcpProofs ----------------------------
(***************************************************************************)
(* Proofs about WikiMcp, for any users, raws, page limits, request bodies  *)
(* and number of POSTs at once: types, nobody is shown foreign rows        *)
(* (OnlyOwnRows), an export leaves nothing out (NothingLeftOut) and each   *)
(* of its pages moves on (CursorMovesOn), and the answer to a batch is     *)
(* what was done (AnswersAreTrue).                                         *)
(*                                                                         *)
(* Three invariants are stacked.  Base has the types and what a handler    *)
(* holds at each await: whose rows it shows, and a fresh id when it is     *)
(* about to insert.  ExportInv adds that the pages of an export lie behind *)
(* each other and that what is still due is behind the cursor, also for    *)
(* the page that a handler has computed but not delivered (Paging,         *)
(* Progress).  Told says that the outcomes so far are those of the first   *)
(* entries of the body and have reported the rows stored so far.  The      *)
(* order of an export comes first: page and cursor are defined by counting *)
(* rows, and induction on such counts is by SetInduction.                  *)
(***************************************************************************)
EXTENDS WikiMcp, FiniteSetTheorems, TLAPS

-----------------------------------------------------------------------------
(* Natural numbers                                                         *)

\* Induction for a set: stepping on would map the members up to n, which are
\* finitely many, into themselves without 0.
LEMMA SetInduction ==
    ASSUME NEW U \in SUBSET Nat, 0 \in U, \A k \in U : k + 1 \in U, NEW n \in Nat
    PROVE  n \in U
<1> SUFFICES ASSUME n \notin U PROVE FALSE
  OBVIOUS
<1> DEFINE V == {k \in U : k < n}
           f == [k \in V |-> k + 1]
<1>1. V \subseteq 0..n /\ 0 \in V
  <2>1. n # 0
    OBVIOUS
  <2>2. 0 < n
    BY <2>1
  <2>3. \A k \in Nat : k < n => k \in 0..n
    OBVIOUS
  <2> QED BY <2>2, <2>3
<1>2. IsFiniteSet(V) /\ Cardinality(V) \in Nat
  <2>1. IsFiniteSet(0..n)
    BY FS_Interval
  <2> HIDE DEF V
  <2> QED BY <1>1, <2>1, FS_Subset, FS_CardinalityType
<1>3. \A k \in V : k + 1 \in V \ {0}
  <2> SUFFICES ASSUME NEW k \in V PROVE k + 1 \in V \ {0}
    OBVIOUS
  <2>1. k \in Nat /\ k < n /\ k + 1 \in U /\ k + 1 # n
    OBVIOUS
  <2> QED BY <2>1
<1>4. f \in Injection(V, V \ {0})
  <2>1. \A k \in V : k \in Nat
    OBVIOUS
  <2> HIDE DEF V
  <2>2. f \in [V -> V \ {0}]
    BY <1>3
  <2>3. \A a, b \in V : f[a] = f[b] => a = b
    BY <2>1
  <2> QED BY <2>2, <2>3 DEF Injection, IsInjective
<1> HIDE DEF f, V
<1>5. IsFiniteSet(V \ {0}) /\ Cardinality(V \ {0}) = Cardinality(V) - 1
  BY <1>1, <1>2, FS_RemoveElement
<1>6. Cardinality(V) <= Cardinality(V \ {0})
  BY <1>4, <1>5, FS_Injection
<1> QED BY <1>2, <1>5, <1>6

\* A non-empty set of numbers has a least one.
LEMMA LeastNumber ==
    ASSUME NEW T \in SUBSET Nat, T # {}
    PROVE  \E m \in T : \A k \in T : m <= k
<1> SUFFICES ASSUME \A m \in T : \E k \in T : k < m PROVE FALSE
  OBVIOUS
<1> DEFINE U == {n \in Nat : \A k \in T : k > n}
<1>1. 0 \in U
  <2>1. ASSUME NEW k \in T PROVE k > 0
    <3>1. PICK i \in T : i < k
      OBVIOUS
    <3> QED BY <3>1
  <2> QED BY <2>1
<1>2. ASSUME NEW n \in U PROVE n + 1 \in U
  <2>1. ASSUME NEW k \in T PROVE k > n + 1
    <3>1. PICK i \in T : i < k
      OBVIOUS
    <3>2. i > n
      OBVIOUS
    <3> QED BY <3>1, <3>2
  <2> QED BY <2>1
<1>3. PICK t \in T : TRUE
  OBVIOUS
<1>4. t \in U
  <2> HIDE DEF U
  <2>1. U \in SUBSET Nat
    BY DEF U
  <2> QED BY <1>1, <1>2, <2>1, SetInduction
<1> QED BY <1>4

-----------------------------------------------------------------------------
(* The order of an export                                                  *)

\* Finitely many rows that their time and id tell apart.
Table(R) ==
    /\ IsFiniteSet(R)
    /\ \A r \in R : r.at \in Nat /\ r.id \in Nat
    /\ \A q, r \in R : q.at = r.at /\ q.id = r.id => q = r

LEMMA TableSubset ==
    ASSUME NEW R, Table(R), NEW S \in SUBSET R
    PROVE  Table(S)
<1>1. IsFiniteSet(S)
  BY FS_Subset DEF Table
<1> QED BY <1>1 DEF Table

\* A row has a place among the rows, and an earlier row an earlier one.
LEMMA RankFact ==
    ASSUME NEW R, Table(R), NEW r \in R
    PROVE  /\ UpTo(R, r) \in SUBSET R /\ r \in UpTo(R, r)
           /\ Rank(R, r) \in Nat
           /\ \A q \in UpTo(R, r) : /\ UpTo(R, q) \subseteq UpTo(R, r)
                                    /\ Rank(R, q) \in Nat /\ Rank(R, q) <= Rank(R, r)
                                    /\ q # r => Rank(R, q) < Rank(R, r)
           /\ \A q \in R : q \notin UpTo(R, r) => r \in UpTo(R, q) /\ r # q
<1>1. \A q \in R : UpTo(R, q) \in SUBSET R /\ IsFiniteSet(UpTo(R, q)) /\ Rank(R, q) \in Nat
  <2> SUFFICES ASSUME NEW q \in R
               PROVE  UpTo(R, q) \in SUBSET R /\ IsFiniteSet(UpTo(R, q)) /\ Rank(R, q) \in Nat
    OBVIOUS
  <2>1. UpTo(R, q) \in SUBSET R
    BY DEF UpTo
  <2>2. IsFiniteSet(UpTo(R, q)) /\ Cardinality(UpTo(R, q)) \in Nat
    BY <2>1, FS_Subset, FS_CardinalityType DEF Table
  <2> QED BY <2>1, <2>2 DEF Rank
<1>2. r \in UpTo(R, r)
  BY DEF UpTo, Table
<1>3. ASSUME NEW q \in UpTo(R, r)
      PROVE  /\ UpTo(R, q) \subseteq UpTo(R, r)
             /\ Rank(R, q) \in Nat /\ Rank(R, q) <= Rank(R, r)
             /\ q # r => Rank(R, q) < Rank(R, r)
  <2>1. q \in R /\ (q.at < r.at \/ (q.at = r.at /\ q.id <= r.id))
    BY <1>3 DEF UpTo
  <2>2. UpTo(R, q) \subseteq UpTo(R, r)
    BY <2>1 DEF UpTo, Table
  <2>3. UpTo(R, q) \in SUBSET UpTo(R, r) /\ IsFiniteSet(UpTo(R, r))
    BY <1>1, <2>2
  <2>4. /\ Cardinality(UpTo(R, q)) <= Cardinality(UpTo(R, r))
        /\ Cardinality(UpTo(R, r)) = Cardinality(UpTo(R, q)) => UpTo(R, r) = UpTo(R, q)
    BY <2>3, FS_Subset
  <2>5. q # r => r \notin UpTo(R, q)
    BY <2>1 DEF UpTo, Table
  <2>6. Rank(R, q) \in Nat /\ Rank(R, r) \in Nat
    BY <1>1, <2>1
  <2>7. q # r => Rank(R, q) # Rank(R, r)
    BY <1>2, <2>4, <2>5 DEF Rank
  <2>8. Rank(R, q) <= Rank(R, r)
    BY <2>4 DEF Rank
  <2> QED BY <2>2, <2>6, <2>7, <2>8
<1>4. ASSUME NEW q \in R, q \notin UpTo(R, r) PROVE r \in UpTo(R, q) /\ r # q
  BY <1>2, <1>4 DEF UpTo, Table
<1> QED BY <1>1, <1>2, <1>3, <1>4

\* Rows have a first and a last one.
LEMMA EndsFact ==
    ASSUME NEW R, Table(R), R # {}
    PROVE  /\ \E r \in R : UpTo(R, r) = {r} /\ Rank(R, r) = 1
           /\ \E r \in R : UpTo(R, r) = R
<1>1. \E r \in R : UpTo(R, r) = {r} /\ Rank(R, r) = 1
  <2> DEFINE ranks == {Rank(R, r) : r \in R}
  <2>1. ranks \in SUBSET Nat /\ ranks # {}
    BY RankFact
  <2> HIDE DEF ranks
  <2>2. PICK m \in ranks : \A k \in ranks : m <= k
    BY <2>1, LeastNumber
  <2>3. PICK r \in R : m = Rank(R, r)
    BY <2>2 DEF ranks
  <2>4. \A q \in UpTo(R, r) : q = r
    <3> SUFFICES ASSUME NEW q \in UpTo(R, r), q # r PROVE FALSE
      OBVIOUS
    <3>1. Rank(R, q) < Rank(R, r) /\ q \in R /\ Rank(R, q) \in Nat /\ Rank(R, r) \in Nat
      BY RankFact
    <3>2. Rank(R, r) <= Rank(R, q)
      BY <2>2, <2>3, <3>1 DEF ranks
    <3> QED BY <3>1, <3>2
  <2>5. UpTo(R, r) = {r}
    BY <2>4, RankFact
  <2>6. Rank(R, r) = 1
    BY <2>5, FS_Singleton DEF Rank
  <2> QED BY <2>5, <2>6
<1>2. \E r \in R : UpTo(R, r) = R
  <2>1. IsFiniteSet(R) /\ Cardinality(R) \in Nat
    BY FS_CardinalityType DEF Table
  <2>2. \A r \in R : Rank(R, r) \in Nat /\ Rank(R, r) <= Cardinality(R)
    BY <2>1, RankFact, FS_Subset DEF Rank
  <2> DEFINE rest == {Cardinality(R) - Rank(R, r) : r \in R}
  <2>3. rest \in SUBSET Nat /\ rest # {}
    BY <2>1, <2>2
  <2> HIDE DEF rest
  <2>4. PICK m \in rest : \A k \in rest : m <= k
    BY <2>3, LeastNumber
  <2>5. PICK r \in R : m = Cardinality(R) - Rank(R, r)
    BY <2>4 DEF rest
  <2>6. \A q \in R : q \in UpTo(R, r)
    <3> SUFFICES ASSUME NEW q \in R, q \notin UpTo(R, r) PROVE FALSE
      OBVIOUS
    <3>1. Rank(R, r) < Rank(R, q)
      BY RankFact
    <3>2. Cardinality(R) - Rank(R, r) <= Cardinality(R) - Rank(R, q)
      BY <2>4, <2>5 DEF rest
    <3> QED BY <2>1, <2>2, <3>1, <3>2
  <2> QED BY <2>6, RankFact
<1> QED BY <1>1, <1>2

\* What a query fetches: the first rows behind the cursor, and all of them when
\* they are no more than a page has.
LEMMA FetchFact ==
    ASSUME NEW R, Table(R), NEW c
    PROVE  /\ Table(Fetch(R, c)) /\ Fetch(R, c) \in SUBSET R
           /\ \A r \in Fetch(R, c) : After(r, c)
           /\ \A q \in R, r \in Fetch(R, c) :
                 After(q, c) /\ q \in UpTo(R, r) => q \in Fetch(R, c)
           /\ Cardinality(Fetch(R, c)) <= PAGE_LIMIT =>
                 \A r \in R : After(r, c) => r \in Fetch(R, c)
<1> DEFINE behind == {r \in R : After(r, Parsed(c))}
           F == Fetch(R, c)
<1>1. \A r : After(r, Parsed(c)) <=> After(r, c)
  BY DEF After, Parsed
<1>2. Table(behind) /\ F = {r \in behind : Rank(behind, r) <= PAGE_LIMIT + 1}
  BY TableSubset DEF Fetch
<1>3. \A r \in behind : r \in R /\ After(r, c)
  BY <1>1
<1>4. \A q \in R : After(q, c) => q \in behind
  BY <1>1
<1> HIDE DEF behind, F
<1>5. Table(F) /\ F \in SUBSET R /\ F \in SUBSET behind
  BY <1>2, <1>3, TableSubset
<1>6. PAGE_LIMIT \in Nat
  BY ExportPageAssumption
<1>7. ASSUME NEW q \in behind, NEW r \in F, q \in UpTo(behind, r) PROVE q \in F
  <2>1. Rank(behind, q) <= Rank(behind, r) /\ Rank(behind, q) \in Nat /\ Rank(behind, r) \in Nat
    BY <1>2, <1>5, <1>7, RankFact
  <2>2. Rank(behind, r) <= PAGE_LIMIT + 1
    BY <1>2
  <2> QED BY <1>2, <1>6, <2>1, <2>2
<1>8. \A q \in behind : \A r : q \in UpTo(R, r) => q \in UpTo(behind, r)
  BY DEF UpTo
<1>9. ASSUME Cardinality(F) <= PAGE_LIMIT, behind \ F # {} PROVE FALSE
  <2>1. Table(behind \ F)
    BY <1>2, TableSubset
  <2>2. PICK r \in behind \ F : UpTo(behind \ F, r) = {r}
    BY <1>9, <2>1, EndsFact
  <2>3. UpTo(behind, r) \in SUBSET (F \cup {r})
    BY <2>2 DEF UpTo
  <2>4. IsFiniteSet(F) /\ Cardinality(F) \in Nat
    BY <1>5, FS_CardinalityType DEF Table
  <2>5. IsFiniteSet(F \cup {r}) /\ Cardinality(F \cup {r}) = Cardinality(F) + 1
    BY <2>2, <2>4, FS_AddElement
  <2>6. Cardinality(UpTo(behind, r)) <= Cardinality(F) + 1
    BY <2>3, <2>5, FS_Subset
  <2>7. Rank(behind, r) <= PAGE_LIMIT + 1
    <3>1. Rank(behind, r) \in Nat
      BY <1>2, <2>2, RankFact
    <3> QED BY <1>6, <1>9, <2>4, <2>6, <3>1 DEF Rank
  <2> QED BY <1>2, <2>2, <2>7
<1> QED BY <1>3, <1>4, <1>5, <1>7, <1>8, <1>9 DEF F

\* What fits into a page, and the cursor that goes out with it.
LEMMA PageFact ==
    ASSUME NEW F, Table(F)
    PROVE  /\ Page(F) \in SUBSET F
           /\ \A q \in F, r \in Page(F) : q \in UpTo(F, r) => q \in Page(F)
           /\ NextCursor(F) = NoCursor => Page(F) = F /\ Cardinality(F) <= PAGE_LIMIT
           /\ NextCursor(F) # NoCursor =>
                 \E l \in Page(F) : /\ NextCursor(F) = Full(l.at, l.id)
                                    /\ \A q \in Page(F) : q \in UpTo(F, l)
<1>1. Page(F) \in SUBSET F
  BY DEF Page
<1>2. \A q \in F, r \in Page(F) : q \in UpTo(F, r) => q \in Page(F)
  <2> SUFFICES ASSUME NEW q \in F, NEW r \in Page(F), q \in UpTo(F, r) PROVE q \in Page(F)
    OBVIOUS
  <2>1. UpTo(F, q) \subseteq UpTo(F, r)
    BY <1>1, RankFact
  <2> QED BY <2>1 DEF Page
<1>3. /\ Table(Page(F)) /\ PAGE_LIMIT \in Nat \ {0}
      /\ Cardinality(F) \in Nat /\ Cardinality(Page(F)) \in Nat
      /\ Cardinality(Page(F)) <= Cardinality(F)
      /\ Cardinality(F) = Cardinality(Page(F)) => F = Page(F)
  <2>1. IsFiniteSet(F) /\ Table(Page(F))
    BY <1>1, TableSubset DEF Table
  <2>2. IsFiniteSet(Page(F))
    BY <2>1 DEF Table
  <2> QED BY <1>1, <2>1, <2>2, FS_CardinalityType, FS_Subset, ExportPageAssumption
<1>4. F # {} => Page(F) # {}
  <2> SUFFICES ASSUME F # {} PROVE Page(F) # {}
    OBVIOUS
  <2>1. PICK r \in F : UpTo(F, r) = {r} /\ Rank(F, r) = 1
    BY EndsFact
  <2>2. Fits(F, r)
    BY <1>3, <2>1 DEF Fits
  <2> QED BY <2>1, <2>2 DEF Page
<1>5. Min({PAGE_LIMIT, Cardinality(F)}) =
         IF PAGE_LIMIT <= Cardinality(F) THEN PAGE_LIMIT ELSE Cardinality(F)
  <2> DEFINE n == Cardinality(F)
             m == IF PAGE_LIMIT <= n THEN PAGE_LIMIT ELSE n
  <2>1. n \in Nat /\ PAGE_LIMIT \in Nat
    BY <1>3
  <2> HIDE DEF n
  <2>2. m \in {PAGE_LIMIT, n} /\ \A y \in {PAGE_LIMIT, n} : m <= y
    BY <2>1
  <2>3. \A x \in {PAGE_LIMIT, n} : (\A y \in {PAGE_LIMIT, n} : x <= y) => x = m
    BY <2>1, <2>2
  <2> HIDE DEF m
  <2>4. Min({PAGE_LIMIT, n}) = m
    BY <2>2, <2>3 DEF Min
  <2> QED BY <2>4 DEF m, n
<1>6. CASE Overflow(F) \/ Cardinality(F) > PAGE_LIMIT
  <2>1. F # {}
    <3>1. Cardinality({}) = 0
      BY FS_EmptySet
    <3> QED BY <1>3, <1>5, <1>6, <3>1 DEF Overflow
  <2>2. \E l \in Page(F) : UpTo(Page(F), l) = Page(F)
    BY <1>3, <1>4, <2>1, EndsFact
  <2> DEFINE l == Last(Page(F))
  <2>3. l \in Page(F) /\ UpTo(Page(F), l) = Page(F)
    BY <2>2 DEF Last
  <2>4. NextCursor(F) = Full(l.at, l.id)
    BY <1>6 DEF NextCursor
  <2> HIDE DEF l
  <2>5. NextCursor(F) # NoCursor
    <3>1. NextCursor(F).form = "full" /\ NoCursor.form = "absent"
      BY <2>4 DEF Full, NoCursor
    <3> QED BY <3>1
  <2>6. \A q \in Page(F) : q \in UpTo(F, l)
    BY <1>1, <2>3 DEF UpTo
  <2> QED BY <1>1, <1>2, <2>3, <2>4, <2>5, <2>6
<1>7. CASE ~(Overflow(F) \/ Cardinality(F) > PAGE_LIMIT)
  <2>1. NextCursor(F) = NoCursor
    BY <1>7 DEF NextCursor
  <2>2. Cardinality(F) <= PAGE_LIMIT /\ Cardinality(Page(F)) >= Cardinality(F)
    <3>1. ~(Cardinality(Page(F)) < Min({PAGE_LIMIT, Cardinality(F)}))
      BY <1>7 DEF Overflow
    <3> QED BY <1>3, <1>5, <1>7, <3>1
  <2>3. Page(F) = F
    BY <1>3, <2>2
  <2> QED BY <1>1, <1>2, <2>1, <2>2, <2>3
<1> QED BY <1>6, <1>7

\* A page goes on from cursor c, and its next_cursor from its rows.
Forward(rows, next, c) ==
    /\ \A r \in rows : After(r, c)
    /\ next # NoCursor => After(next, c) /\ \A r \in rows : ~After(r, next)

\* Of the rows in due, none behind c is passed over.
Complete(rows, next, c, due) ==
    \A r \in due : After(r, c) => r \in rows \/ (next # NoCursor /\ After(r, next))

\* A page of what the query fetched is right, whatever the size of the page and
\* of its rows, and however many rows there are of one time.
LEMMA PageRight ==
    ASSUME NEW R, Table(R), NEW c, c.at \in Nat, c.id \in Nat
    PROVE  /\ Forward(Page(Fetch(R, c)), NextCursor(Fetch(R, c)), c)
           /\ Complete(Page(Fetch(R, c)), NextCursor(Fetch(R, c)), c, R)
<1> DEFINE F == Fetch(R, c)
           P == Page(F)
           next == NextCursor(F)
<1>1. /\ Table(F) /\ F \in SUBSET R /\ P \in SUBSET F
      /\ \A r \in F : After(r, c)
      /\ \A q \in R, r \in F : After(q, c) /\ q \in UpTo(R, r) => q \in F
      /\ Cardinality(F) <= PAGE_LIMIT => \A r \in R : After(r, c) => r \in F
  BY FetchFact, PageFact
<1>2. /\ \A q \in F, r \in P : q \in UpTo(F, r) => q \in P
      /\ next = NoCursor => P = F /\ Cardinality(F) <= PAGE_LIMIT
      /\ next # NoCursor =>
            \E l \in P : next = Full(l.at, l.id) /\ \A q \in P : q \in UpTo(F, l)
  BY <1>1, PageFact
<1> HIDE DEF F, P, next
<1>3. CASE next = NoCursor
  BY <1>1, <1>2, <1>3 DEF Forward, Complete, F, P, next
<1>4. CASE next # NoCursor
  <2>1. PICK l \in P : next = Full(l.at, l.id) /\ \A q \in P : q \in UpTo(F, l)
    BY <1>2, <1>4
  <2>2. /\ l \in R /\ l \in F /\ next.at = l.at /\ next.id = l.id
        /\ \A r \in R : r.at \in Nat /\ r.id \in Nat
    BY <1>1, <2>1 DEF Full, Table
  <2>3. After(next, c)
    BY <1>1, <2>2 DEF After
  <2>4. \A r \in P : ~After(r, next)
    BY <1>1, <2>1, <2>2 DEF UpTo, After
  <2>5. ASSUME NEW r \in R, After(r, c), ~After(r, next) PROVE r \in P
    <3>1. r.at < l.at \/ (r.at = l.at /\ r.id <= l.id)
      BY <2>2, <2>5 DEF After
    <3>2. r \in UpTo(R, l)
      BY <3>1 DEF UpTo
    <3>3. r \in F
      BY <1>1, <2>2, <2>5, <3>2
    <3>4. r \in UpTo(F, l)
      BY <3>1, <3>3 DEF UpTo
    <3> QED BY <1>2, <2>1, <3>3, <3>4
  <2> QED BY <1>1, <1>4, <2>3, <2>4, <2>5 DEF Forward, Complete, F, P, next
<1> QED BY <1>3, <1>4

-----------------------------------------------------------------------------
(* Types, and whose rows a handler has                                     *)

\* The steps at which an entry is at work, and those that hold rows.
Running == Tools \cup {"entry", "raw_append_commit", "raw_search_shared", "wiki_shared",
                       "export_wikis", "export_schema"}
Holding == {"raw_append_commit", "export_wikis", "export_schema"}

Mine(s) == {slots[s].user} \cup SharedMemories

\* A request has a user; while it runs it has an entry to work on; the rows that
\* it holds are the user's; nothing it shows is somebody else's.
Shape(s) ==
    /\ ~At(s, "idle") => slots[s].user \in Users
    /\ At(s, "answered") => Len(slots[s].out) >= 1
    /\ slots[s].step \in Running =>
          slots[s].body \in Body /\ Len(slots[s].out) < Len(slots[s].body.entries)
    /\ slots[s].step \in Holding =>
          Table(slots[s].data) /\ \A r \in slots[s].data : r.owner = slots[s].user
    /\ At(s, "raw_append") => Arg(s).size \in 1..MaxBytes
    /\ slots[s].shows \subseteq Mine(s)
    /\ \A i \in DOMAIN slots[s].out : slots[s].out[i].shows \subseteq Mine(s)

\* An id that new_ulid has given is not given again before its row is there.
Fresh(s) ==
    At(s, "raw_append_commit") =>
        \A q \in slots[s].data :
            /\ slots[s].data = {q}
            /\ \A r \in raws : r.id # q.id
            /\ \A t \in Slots \ {s} : At(t, "raw_append_commit") =>
                  \A r \in slots[t].data : r.id # q.id

Base == /\ TypeOK
        /\ IsFiniteSet(raws)
        /\ \A s \in Slots : Shape(s) /\ Fresh(s)

\* A step of the request in slot s alone.
Moved(s) == /\ slots' \in [Slots -> Slot]
            /\ \A t \in Slots \ {s} : slots'[t] = slots[t]
            /\ Shape(s)'

\* The same, and it is not the one that stamps a new row.
Moves(s) == Moved(s) /\ ~At(s, "raw_append_commit")'

LEMMA MovesTo ==
    ASSUME TypeOK, NEW s \in Slots, NEW n \in Slot, slots' = [slots EXCEPT ![s] = n]
    PROVE  /\ slots' \in [Slots -> Slot]
           /\ slots'[s] = n
           /\ \A t \in Slots \ {s} : slots'[t] = slots[t]
BY DEF TypeOK

LEMMA TimesFact ==
    /\ Times \subseteq Nat /\ RawIds \subseteq Nat
    /\ \A t \in Times : t > 0
    /\ \A i \in RawIds : i > 0
<1>1. MaxTime \in Nat
  BY WikiMcpAssumption
<1> QED BY <1>1, WikiMcpAssumption DEF Times

LEMMA RawsTable ==
    ASSUME TypeOK, NEW R \in SUBSET raws, IsFiniteSet(raws)
    PROVE  Table(R)
<1>1. /\ \A r \in raws : r.at \in Nat /\ r.id \in Nat
      /\ \A q, r \in raws : q.id = r.id => q = r
  BY TimesFact DEF TypeOK, Raw
<1>2. Table(raws)
  BY <1>1 DEF Table
<1> QED BY <1>2, TableSubset

LEMMA OutcomeFact ==
    /\ NoCursor \in {c \in Cursor(Times, RawIds) : c.form # "legacy"}
    /\ \A id \in Ids, reply \in Replies :
          /\ Error(id, reply) \in Outcome
          /\ Error(id, reply).shows = {} /\ Error(id, reply).rows = {}
          /\ Error(id, reply).reply = reply /\ Error(id, reply).id = id
          /\ Error(id, reply).next = NoCursor
    /\ Idle.step = "idle" /\ Idle.shows = {} /\ Idle.out = <<>> /\ Idle \in Slot
<1>1. NoCursor \in {c \in Cursor(Times, RawIds) : c.form # "legacy"}
  BY DEF NoCursor, Cursor
<1>2. ASSUME NEW id \in Ids, NEW reply \in Replies
      PROVE  /\ Error(id, reply) \in Outcome
             /\ Error(id, reply).shows = {} /\ Error(id, reply).rows = {}
             /\ Error(id, reply).reply = reply /\ Error(id, reply).id = id
             /\ Error(id, reply).next = NoCursor
  BY <1>1 DEF Error, Outcome
<1>3. Idle.step = "idle" /\ Idle.shows = {} /\ Idle.out = <<>> /\ Idle \in Slot
  BY DEF Idle, Slot, Steps
<1> QED BY <1>1, <1>2, <1>3

\* The entry that is at work.
LEMMA CurrentFact ==
    ASSUME TypeOK, NEW s \in Slots, Shape(s), slots[s].step \in Running
    PROVE  /\ slots[s] \in Slot /\ slots[s].user \in Users /\ Own(s) \in Users
           /\ Current(s) \in JsonRpcRequest /\ Arg(s) \in Args
           /\ Current(s).id \in Ids
           /\ Len(slots[s].out) \in Nat /\ Len(slots[s].body.entries) \in Nat
           /\ slots[s].out \in Seq(Outcome)
<1>1. /\ slots[s] \in Slot /\ slots[s].user \in Users /\ slots[s].body \in Body
      /\ Len(slots[s].out) < Len(slots[s].body.entries)
  BY DEF TypeOK, Shape, At, Running, Tools
<1>2. slots[s].out \in Seq(Outcome) /\ slots[s].body.entries \in Seq(JsonRpcRequest)
  BY <1>1 DEF Slot, Body
<1>3. Len(slots[s].out) \in Nat /\ Len(slots[s].body.entries) \in Nat
  BY <1>2
<1>4. Len(slots[s].out) + 1 \in 1..Len(slots[s].body.entries)
  BY SMTT(20), <1>1, <1>3
<1>5. Current(s) \in JsonRpcRequest
  BY <1>2, <1>4 DEF Current
<1> QED BY <1>1, <1>2, <1>3, <1>5 DEF Arg, JsonRpcRequest, Own

\* The end of an entry.
LEMMA ConcludeIs ==
    ASSUME TypeOK, NEW s \in Slots, Shape(s), slots[s].step \in Running,
           NEW outcome \in Outcome, Conclude(s, outcome)
    PROVE  /\ slots' \in [Slots -> Slot]
           /\ \A t \in Slots \ {s} : slots'[t] = slots[t]
           /\ slots'[s].step = IF Len(slots[s].out) + 1 = Len(slots[s].body.entries)
                                 THEN "answered" ELSE "entry"
           /\ slots'[s].user = slots[s].user /\ slots'[s].body = slots[s].body
           /\ slots'[s].out = Append(slots[s].out, outcome)
           /\ slots'[s].data = {} /\ slots'[s].shows = {} /\ slots'[s].wrote = slots[s].wrote
<1> DEFINE step == IF Len(slots[s].out) + 1 = Len(slots[s].body.entries)
                     THEN "answered" ELSE "entry"
           out == Append(slots[s].out, outcome)
           n == [slots[s] EXCEPT !.step = step, !.out = out, !.data = {}, !.shows = {}]
<1>1. slots[s] \in Slot /\ slots[s].out \in Seq(Outcome)
  BY CurrentFact
<1>2. step \in Steps /\ out \in Seq(Outcome)
  BY <1>1 DEF Steps
<1> HIDE DEF step
<1>3. slots' = [slots EXCEPT ![s] = n]
  BY <1>1 DEF Conclude, TypeOK, step
<1> HIDE DEF out
<1>4. n \in Slot
  BY <1>1, <1>2 DEF Slot
<1>5. /\ n.step = step /\ n.user = slots[s].user /\ n.body = slots[s].body /\ n.out = out
      /\ n.data = {} /\ n.shows = {} /\ n.wrote = slots[s].wrote
  BY <1>1 DEF Slot
<1> HIDE DEF n
<1> QED BY <1>3, <1>4, <1>5, MovesTo DEF step, out

\* What a slot needs when its entry has ended.
LEMMA ShapeConcluded ==
    ASSUME TypeOK, NEW s \in Slots, Shape(s), slots[s].step \in Running,
           NEW outcome \in Outcome, outcome.shows \subseteq Mine(s),
           slots'[s].step = IF Len(slots[s].out) + 1 = Len(slots[s].body.entries)
                              THEN "answered" ELSE "entry",
           slots'[s].user = slots[s].user, slots'[s].body = slots[s].body,
           slots'[s].out = Append(slots[s].out, outcome), slots'[s].shows \subseteq Mine(s)
    PROVE  Shape(s)'
<1>1. /\ slots[s].user \in Users /\ slots[s].body \in Body
      /\ Len(slots[s].out) \in Nat /\ Len(slots[s].body.entries) \in Nat
      /\ slots[s].out \in Seq(Outcome)
      /\ Len(slots[s].out) < Len(slots[s].body.entries)
      /\ \A i \in DOMAIN slots[s].out : slots[s].out[i].shows \subseteq Mine(s)
  BY CurrentFact DEF Shape
<1>2. /\ Len(slots'[s].out) = Len(slots[s].out) + 1
      /\ \A i \in DOMAIN slots'[s].out : slots'[s].out[i].shows \subseteq Mine(s)
  <2> DEFINE out == slots[s].out
  <2>1. out \in Seq(Outcome) /\ \A i \in DOMAIN out : out[i].shows \subseteq Mine(s)
    BY <1>1
  <2> HIDE DEF out
  <2>2. /\ Len(Append(out, outcome)) = Len(out) + 1
        /\ DOMAIN Append(out, outcome) = 1..(Len(out) + 1) /\ DOMAIN out = 1..Len(out)
        /\ Append(out, outcome)[Len(out) + 1] = outcome
        /\ \A i \in 1..Len(out) : Append(out, outcome)[i] = out[i]
        /\ Len(out) \in Nat
    BY <2>1
  <2>3. \A i \in 1..(Len(out) + 1) : i \in 1..Len(out) \/ i = Len(out) + 1
    BY <2>2
  <2>4. \A i \in DOMAIN Append(out, outcome) : Append(out, outcome)[i].shows \subseteq Mine(s)
    BY <2>1, <2>2, <2>3
  <2> QED BY <2>2, <2>4 DEF out
<1>3. Mine(s)' = Mine(s)
  BY DEF Mine
<1>4. At(s, "answered")' => Len(slots'[s].out) >= 1
  BY <1>1, <1>2
<1>5. slots'[s].step \in Running => Len(slots'[s].out) < Len(slots'[s].body.entries)
  BY <1>1, <1>2 DEF Running, Tools
<1>6. slots'[s].step \notin Holding /\ ~At(s, "idle")' /\ ~At(s, "raw_append")'
  BY DEF Holding, At
<1> QED BY <1>1, <1>2, <1>3, <1>4, <1>5, <1>6 DEF Shape

LEMMA ConcludeMoves ==
    ASSUME TypeOK, NEW s \in Slots, Shape(s), slots[s].step \in Running,
           NEW outcome \in Outcome, outcome.shows \subseteq Mine(s), Conclude(s, outcome)
    PROVE  Moves(s)
BY ConcludeIs, ShapeConcluded DEF Moves, Moved, At

\* The request goes on within its entry.
Goes(s, step, data, shows) ==
    /\ slots' \in [Slots -> Slot]
    /\ \A t \in Slots \ {s} : slots'[t] = slots[t]
    /\ slots'[s].step = step /\ slots'[s].data = data /\ slots'[s].shows = shows
    /\ slots'[s].user = slots[s].user /\ slots'[s].body = slots[s].body
    /\ slots'[s].out = slots[s].out /\ slots'[s].wrote = slots[s].wrote

LEMMA GoesIs ==
    ASSUME TypeOK, NEW s \in Slots, NEW step \in Steps, NEW data \in SUBSET Raw,
           NEW shows \in SUBSET Owners,
           slots' = [slots EXCEPT ![s].step = step, ![s].data = data, ![s].shows = shows]
    PROVE  Goes(s, step, data, shows)
<1> DEFINE n == [slots[s] EXCEPT !.step = step, !.data = data, !.shows = shows]
<1>1. slots[s] \in Slot
  BY DEF TypeOK
<1>2. slots' = [slots EXCEPT ![s] = n]
  BY <1>1 DEF TypeOK
<1>3. n \in Slot
  BY <1>1 DEF Slot
<1>4. /\ n.step = step /\ n.user = slots[s].user /\ n.body = slots[s].body
      /\ n.out = slots[s].out /\ n.data = data /\ n.shows = shows /\ n.wrote = slots[s].wrote
  BY <1>1 DEF Slot
<1> HIDE DEF n
<1> QED BY <1>2, <1>3, <1>4, MovesTo DEF Goes

LEMMA GoesMoved ==
    ASSUME TypeOK, NEW s \in Slots, Shape(s), slots[s].step \in Running,
           NEW step \in Running, NEW data, NEW shows, Goes(s, step, data, shows),
           shows \subseteq Mine(s),
           step \in Holding => Table(data) /\ \A r \in data : r.owner = slots[s].user,
           step = "raw_append" => Arg(s).size \in 1..MaxBytes
    PROVE  Moved(s)
<1>1. Mine(s)' = Mine(s) /\ Arg(s)' = Arg(s)
  BY DEF Mine, Goes, Arg, Current
<1>2. step # "idle" /\ step # "answered"
  BY DEF Running, Tools
<1>3. /\ slots[s].user \in Users /\ slots[s].body \in Body
      /\ Len(slots[s].out) < Len(slots[s].body.entries)
      /\ \A i \in DOMAIN slots[s].out : slots[s].out[i].shows \subseteq Mine(s)
  BY CurrentFact DEF Shape
<1>4. /\ ~At(s, "idle")' => slots'[s].user \in Users
      /\ At(s, "answered")' => Len(slots'[s].out) >= 1
      /\ slots'[s].step \in Running =>
            slots'[s].body \in Body /\ Len(slots'[s].out) < Len(slots'[s].body.entries)
  BY <1>2, <1>3 DEF Goes, At
<1>5. slots'[s].step \in Holding =>
          Table(slots'[s].data) /\ \A r \in slots'[s].data : r.owner = slots'[s].user
  BY DEF Goes
<1>6. /\ slots'[s].shows \subseteq Mine(s)'
      /\ \A i \in DOMAIN slots'[s].out : slots'[s].out[i].shows \subseteq Mine(s)'
  BY <1>1, <1>3 DEF Goes
<1>7. At(s, "raw_append")' => (Arg(s).size \in 1..MaxBytes)'
  BY <1>1 DEF Goes, At
<1>8. Shape(s)'
  BY <1>4, <1>5, <1>6, <1>7 DEF Shape
<1> QED BY <1>8 DEF Moved, Goes

LEMMA GoesMoves ==
    ASSUME TypeOK, NEW s \in Slots, Shape(s), slots[s].step \in Running,
           NEW step \in Running, NEW data, NEW shows, Goes(s, step, data, shows),
           shows \subseteq Mine(s),
           step \in Holding => Table(data) /\ \A r \in data : r.owner = slots[s].user,
           step = "raw_append" => Arg(s).size \in 1..MaxBytes,
           step # "raw_append_commit"
    PROVE  Moves(s)
BY GoesMoved DEF Moves, Goes, At

LEMMA GotoIs ==
    ASSUME TypeOK, NEW s \in Slots, NEW step \in Steps, Goto(s, step)
    PROVE  Goes(s, step, slots[s].data, slots[s].shows)
<1>1. slots[s] \in Slot
  BY DEF TypeOK
<1>2. slots[s].data \in SUBSET Raw /\ slots[s].shows \in SUBSET Owners
  BY <1>1 DEF Slot
<1>3. slots' = [slots EXCEPT ![s].step = step, ![s].data = slots[s].data,
                             ![s].shows = slots[s].shows]
  BY <1>1 DEF Goto, Slot, TypeOK
<1> QED BY <1>2, <1>3, GoesIs

LEMMA GotoMoves ==
    ASSUME TypeOK, NEW s \in Slots, Shape(s), slots[s].step \in Running,
           NEW step \in Running, step \notin Holding, Goto(s, step),
           step = "raw_append" => Arg(s).size \in 1..MaxBytes
    PROVE  Moves(s)
<1>1. step \in Steps
  BY DEF Steps, Running
<1>2. slots[s].shows \subseteq Mine(s)
  BY DEF Shape
<1>3. step # "raw_append_commit"
  BY DEF Holding
<1> QED BY <1>1, <1>2, <1>3, GotoIs, GoesMoves

LEMMA ResultMoves ==
    ASSUME TypeOK, NEW s \in Slots, Shape(s), slots[s].step \in Running,
           NEW shows \in SUBSET Owners, shows \subseteq Mine(s), Result(s, shows)
    PROVE  Moves(s)
<1> DEFINE outcome == [Error(Current(s).id, "result") EXCEPT !.shows = shows]
<1>1. Error(Current(s).id, "result") \in Outcome
  BY CurrentFact, OutcomeFact DEF Replies
<1>2. outcome \in Outcome /\ outcome.shows = shows
  BY <1>1 DEF Outcome
<1>3. Conclude(s, outcome)
  BY DEF Result
<1> HIDE DEF outcome
<1> QED BY <1>2, <1>3, ConcludeMoves

LEMMA ErrorMoves ==
    ASSUME TypeOK, NEW s \in Slots, Shape(s), slots[s].step \in Running,
           NEW id \in Ids, NEW reply \in Replies, Conclude(s, Error(id, reply))
    PROVE  Moves(s)
<1>1. Error(id, reply) \in Outcome /\ Error(id, reply).shows \subseteq Mine(s)
  BY OutcomeFact
<1> QED BY <1>1, ConcludeMoves

LEMMA FailMoves ==
    ASSUME TypeOK, NEW s \in Slots, Shape(s), slots[s].step \in Running, Fail(s)
    PROVE  Moves(s)
BY CurrentFact, ErrorMoves DEF Fail, Replies

-----------------------------------------------------------------------------
(* What each step of a handler does to its slot                            *)

LEMMA DispatchMoves ==
    ASSUME TypeOK, NEW s \in Slots, Shape(s), dispatch_one(s)
    PROVE  Moves(s)
<1>1. slots[s].step \in Running
  BY DEF dispatch_one, At, Running
<1>2. Current(s) \in JsonRpcRequest /\ Current(s).id \in Ids
  BY <1>1, CurrentFact
<1>3. \E id \in Ids, reply \in Replies : Conclude(s, Error(id, reply))
  <2>1. DispatchReply(Current(s)) \in Replies
    BY DEF DispatchReply, Replies
  <2>2. "none" \in Replies /\ "-32600" \in Replies
    BY DEF Replies
  <2>3. "null" \in Ids /\ "none" \in Ids
    BY WikiMcpAssumption
  <2> QED BY <1>2, <2>1, <2>2, <2>3 DEF dispatch_one, Notification
<1> QED BY <1>1, <1>3, ErrorMoves

LEMMA CallMoves ==
    ASSUME TypeOK, NEW s \in Slots, Shape(s), call(s)
    PROVE  Moves(s)
<1>1. slots[s].step \in Running
  BY DEF call, At, Running
<1>2. Current(s) \in JsonRpcRequest /\ Current(s).id \in Ids
  BY <1>1, CurrentFact
<1>3. CASE \E reply \in Replies : Conclude(s, Error(Current(s).id, reply))
  BY <1>1, <1>2, <1>3, ErrorMoves
<1>4. CASE Current(s).tool # None /\ Current(s).args.ok /\ Goto(s, Current(s).tool)
  <2>1. Current(s).tool \in Tools
    BY <1>2, <1>4 DEF JsonRpcRequest
  <2>2. Current(s).tool \in Running /\ Current(s).tool \notin Holding
    BY <2>1 DEF Running, Holding, Tools
  <2>3. Current(s).tool = "raw_append" => Arg(s).size \in 1..MaxBytes
    <3>1. Arg(s).size \in 0..MaxBytes /\ MaxBytes \in Nat
      BY <1>1, CurrentFact, WikiMcpAssumption DEF Args
    <3>2. Current(s).tool = "raw_append" => Arg(s).size > 0
      BY <1>2, <1>4 DEF JsonRpcRequest, Arg
    <3> QED BY <3>1, <3>2
  <2> QED BY <1>1, <1>4, <2>2, <2>3, GotoMoves
<1>5. CASE Fail(s)
  BY <1>1, <1>5, FailMoves
<1> QED BY <1>3, <1>4, <1>5 DEF call, Replies

LEMMA BreaksMoves ==
    ASSUME TypeOK, NEW s \in Slots, Shape(s), Breaks(s)
    PROVE  Moves(s)
<1>1. slots[s].step \in Steps
  BY DEF TypeOK, Slot
<1>2. slots[s].step \in Running
  BY <1>1 DEF Breaks, Steps, Running
<1> QED BY <1>2, FailMoves DEF Breaks

\* The new row is the caller's, and its id is nobody else's.
LEMMA AppendMoves ==
    ASSUME TypeOK, NEW s \in Slots, Shape(s), raw_append(s)
    PROVE  /\ Moved(s)
           /\ At(s, "raw_append_commit")' /\ \A q \in slots'[s].data :
                 /\ slots'[s].data = {q}
                 /\ \A r \in raws : r.id # q.id
                 /\ \A t \in Slots : \A r \in slots[t].data : r.id # q.id
           /\ \E data : Goes(s, "raw_append_commit", data, slots[s].shows)
<1>1. slots[s].step \in Running
  BY DEF raw_append, At, Running, Tools
<1>2. /\ slots[s] \in Slot /\ slots[s].user \in Users /\ Own(s) = slots[s].user
      /\ slots[s].shows \in SUBSET Owners /\ slots[s].shows \subseteq Mine(s) /\ Arg(s) \in Args
  BY <1>1, CurrentFact DEF Slot, Shape, Own
<1> DEFINE taken == {r.id : r \in raws} \cup {r.id : r \in UNION {slots[t].data : t \in Slots}}
           row(id) == [id |-> id, owner |-> Own(s), at |-> now, size |-> Arg(s).size]
<1>3. PICK id \in RawIds \ taken :
          slots' = [slots EXCEPT ![s].step = "raw_append_commit", ![s].data = {row(id)}]
  BY DEF raw_append
<1>4. (\A r \in raws : r.id # id) /\ \A t \in Slots : \A r \in slots[t].data : r.id # id
  OBVIOUS
<1> HIDE DEF taken
<1>5. row(id) \in Raw
  <2>1. Arg(s).size \in 1..MaxBytes
    BY DEF raw_append, Shape
  <2>2. Own(s) \in Owners /\ now \in Times
    BY <1>2 DEF Owners, TypeOK
  <2> QED BY <2>1, <2>2 DEF Raw
<1>6. Table({row(id)}) /\ \A r \in {row(id)} : r.owner = slots[s].user
  <2>1. row(id).at \in Nat /\ row(id).id \in Nat
    BY <1>5, TimesFact DEF Raw
  <2>2. row(id).owner = slots[s].user
    BY <1>2
  <2> HIDE DEF row
  <2> QED BY <2>1, <2>2, FS_Singleton DEF Table
<1>7. row(id).id = id
  OBVIOUS
<1> HIDE DEF row
<1>8. slots' = [slots EXCEPT ![s].step = "raw_append_commit", ![s].data = {row(id)},
                             ![s].shows = slots[s].shows]
  BY <1>2, <1>3 DEF TypeOK, Slot
<1>9. Goes(s, "raw_append_commit", {row(id)}, slots[s].shows)
  BY <1>2, <1>5, <1>8, GoesIs DEF Steps
<1>10. Moved(s)
  BY <1>1, <1>2, <1>6, <1>9, GoesMoved DEF Running
<1> QED BY <1>4, <1>7, <1>9, <1>10 DEF Goes, At

LEMMA CommitMoves ==
    ASSUME TypeOK, NEW s \in Slots, Shape(s), raw_append_commit(s)
    PROVE  /\ Moves(s)
           /\ \E o \in Outcome :
                 /\ o.id = Current(s).id /\ o.rows = slots[s].data
                 /\ slots'[s].step = IF Len(slots[s].out) + 1 = Len(slots[s].body.entries)
                                       THEN "answered" ELSE "entry"
                 /\ slots'[s].body = slots[s].body
                 /\ slots'[s].out = Append(slots[s].out, o)
                 /\ slots'[s].wrote = slots[s].wrote \cup {r.id : r \in o.rows}
<1> DEFINE step == IF Len(slots[s].out) + 1 = Len(slots[s].body.entries)
                     THEN "answered" ELSE "entry"
           outcome == [Error(Current(s).id, "result") EXCEPT
                           !.rows = slots[s].data, !.shows = {Own(s)}]
           wrote == slots[s].wrote \cup {r.id : r \in slots[s].data}
           out == Append(slots[s].out, outcome)
           n == [slots[s] EXCEPT !.step = step, !.out = out, !.data = {}, !.wrote = wrote]
<1>1. slots[s].step \in Running /\ slots[s].step \in Holding
  BY DEF raw_append_commit, At, Running, Holding
<1>2. /\ slots[s] \in Slot /\ slots[s].out \in Seq(Outcome) /\ slots[s].data \in SUBSET Raw
      /\ slots[s].wrote \in SUBSET RawIds /\ Own(s) \in Owners /\ Own(s) = slots[s].user
  BY <1>1, CurrentFact DEF Slot, Owners, Own
<1>3. /\ outcome \in Outcome /\ outcome.shows = {Own(s)} /\ outcome.id = Current(s).id
      /\ outcome.rows = slots[s].data
  <2>1. /\ Error(Current(s).id, "result") \in Outcome
        /\ Error(Current(s).id, "result").id = Current(s).id
    BY <1>1, CurrentFact, OutcomeFact DEF Replies
  <2> QED BY <1>2, <2>1 DEF Outcome
<1> HIDE DEF outcome
<1>4. step \in Steps /\ out \in Seq(Outcome) /\ wrote \in SUBSET RawIds
  BY <1>2, <1>3 DEF Steps, Raw
<1>5. slots' = [slots EXCEPT ![s] = n]
  BY <1>2 DEF raw_append_commit, TypeOK, step, outcome
<1>6. step # "raw_append_commit" /\ step # "idle" /\ step \in {"answered", "entry"}
  OBVIOUS
<1> HIDE DEF step, out, wrote
<1>7. n \in Slot
  BY <1>2, <1>4 DEF Slot
<1>8. /\ n.step = step /\ n.user = slots[s].user /\ n.body = slots[s].body /\ n.out = out
      /\ n.shows = slots[s].shows /\ n.wrote = wrote
  BY <1>2 DEF Slot
<1> HIDE DEF n
<1>9. /\ slots' \in [Slots -> Slot] /\ slots'[s] = n
      /\ \A t \in Slots \ {s} : slots'[t] = slots[t]
  BY <1>5, <1>7, MovesTo
<1>10. outcome.shows \subseteq Mine(s)
  BY <1>2, <1>3 DEF Mine
<1>11. Shape(s)'
  BY <1>1, <1>2, <1>3, <1>8, <1>9, <1>10, ShapeConcluded DEF Shape, step, out
<1>12. Moves(s)
  BY <1>6, <1>8, <1>9, <1>11 DEF Moves, Moved, At
<1> QED BY <1>3, <1>8, <1>9, <1>12 DEF step, out, wrote

LEMMA ReadMoves ==
    ASSUME TypeOK, NEW s \in Slots, Shape(s), raw_read(s)
    PROVE  Moves(s)
<1> DEFINE found == {r \in raws : r.id = Arg(s).id /\ Readable(Own(s), r)}
           shows == {r.owner : r \in found}
<1>1. slots[s].step \in Running /\ Own(s) = slots[s].user
  BY DEF raw_read, At, Running, Tools, Own
<1>2. \A r \in found : r.owner \in Owners /\ r.owner \in Mine(s)
  <2> SUFFICES ASSUME NEW r \in found PROVE r.owner \in Owners /\ r.owner \in Mine(s)
    OBVIOUS
  <2>1. r \in Raw /\ Readable(Own(s), r)
    BY DEF TypeOK
  <2> QED BY <1>1, <2>1 DEF Raw, Readable, Scope, Owners, Mine
<1>3. Fail(s) \/ Result(s, shows)
  BY DEF raw_read
<1>4. shows \in SUBSET Owners /\ shows \subseteq Mine(s)
  BY <1>2
<1> QED BY <1>1, <1>3, <1>4, ResultMoves, FailMoves

LEMMA SearchMoves ==
    ASSUME TypeOK, NEW s \in Slots, Shape(s), raw_search(s) \/ raw_search_shared(s)
    PROVE  Moves(s)
<1>1. slots[s].step \in Running /\ Own(s) = slots[s].user
  BY DEF raw_search, raw_search_shared, At, Running, Tools, Own
<1>2. /\ slots[s] \in Slot /\ Own(s) \in Owners /\ slots[s].data \in SUBSET Raw
      /\ slots[s].shows \in SUBSET Owners /\ slots[s].shows \subseteq Mine(s)
  BY <1>1, CurrentFact DEF Slot, Owners, Shape
<1>3. CASE Goto(s, "raw_search_shared")
  BY <1>1, <1>3, GotoMoves DEF Running, Holding
<1>4. ASSUME NEW hits \in Hits(Own(s)),
             slots' = [slots EXCEPT ![s].step = "raw_search_shared",
                                    ![s].shows = {r.owner : r \in hits}]
      PROVE  Moves(s)
  <2> DEFINE shows == {r.owner : r \in hits}
  <2>1. shows \in SUBSET Owners /\ shows \subseteq Mine(s)
    BY <1>1, <1>2 DEF Hits, Mine
  <2> HIDE DEF shows
  <2>2. slots' = [slots EXCEPT ![s].step = "raw_search_shared", ![s].data = slots[s].data,
                               ![s].shows = shows]
    BY <1>2, <1>4 DEF TypeOK, Slot, shows
  <2>3. Goes(s, "raw_search_shared", slots[s].data, shows)
    BY <1>2, <2>1, <2>2, GoesIs DEF Steps
  <2> QED BY <1>1, <2>1, <2>3, GoesMoves DEF Running, Holding
<1>5. ASSUME NEW shows \in SUBSET Owners, shows \subseteq Mine(s), Result(s, shows)
      PROVE  Moves(s)
  BY <1>1, <1>5, ResultMoves
<1>6. CASE raw_search(s)
  BY <1>3, <1>4, <1>6 DEF raw_search
<1>7. CASE raw_search_shared(s)
  <2>1. CASE Result(s, slots[s].shows)
    BY <1>2, <1>5, <2>1
  <2>2. CASE \E sm \in SUBSET SharedMemories : Result(s, slots[s].shows \cup sm)
    <3>1. PICK sm \in SUBSET SharedMemories : Result(s, slots[s].shows \cup sm)
      BY <2>2
    <3>2. slots[s].shows \cup sm \in SUBSET Owners /\ slots[s].shows \cup sm \subseteq Mine(s)
      BY <1>2 DEF Owners, Mine
    <3> QED BY <1>5, <3>1, <3>2
  <2> QED BY <1>7, <2>1, <2>2 DEF raw_search_shared
<1> QED BY <1>6, <1>7

LEMMA WikiMoves ==
    ASSUME TypeOK, NEW s \in Slots, Shape(s), wiki_personal(s) \/ wiki_shared(s)
    PROVE  Moves(s)
<1>1. slots[s].step \in Running /\ Own(s) = slots[s].user
  BY DEF wiki_personal, wiki_shared, At, Running, Tools, Own
<1>2. /\ slots[s] \in Slot /\ Own(s) \in Owners /\ slots[s].data \in SUBSET Raw
      /\ slots[s].shows \in SUBSET Owners /\ slots[s].shows \subseteq Mine(s)
  BY <1>1, CurrentFact DEF Slot, Owners, Shape
<1>3. \A os : WikiOwners(s, os) \in SUBSET os /\ WikiOwners(s, os) \in SUBSET Owners
  BY DEF WikiOwners, TypeOK, Wiki
<1>4. CASE wiki_personal(s)
  <2> DEFINE shows == IF Wants(s, "personal") THEN WikiOwners(s, {Own(s)}) ELSE {}
  <2>1. shows \in SUBSET Owners /\ shows \subseteq Mine(s)
    <3>1. WikiOwners(s, {Own(s)}) \in SUBSET Owners /\ WikiOwners(s, {Own(s)}) \subseteq Mine(s)
      BY <1>1, <1>3 DEF Mine
    <3> QED BY <3>1
  <2>2. slots' = [slots EXCEPT ![s].step = "wiki_shared", ![s].shows = shows]
    BY <1>4 DEF wiki_personal
  <2> HIDE DEF shows
  <2>3. slots' = [slots EXCEPT ![s].step = "wiki_shared", ![s].data = slots[s].data,
                               ![s].shows = shows]
    BY <1>2, <2>2 DEF TypeOK, Slot
  <2>4. Goes(s, "wiki_shared", slots[s].data, shows)
    BY <1>2, <2>1, <2>3, GoesIs DEF Steps
  <2> QED BY <1>1, <2>1, <2>4, GoesMoves DEF Running, Holding
<1>5. CASE wiki_shared(s)
  <2> DEFINE more == IF Wants(s, "shared") THEN WikiOwners(s, SharedMemories) ELSE {}
  <2>1. more \in SUBSET Owners /\ more \subseteq Mine(s)
    <3>1. /\ WikiOwners(s, SharedMemories) \in SUBSET Owners
          /\ WikiOwners(s, SharedMemories) \subseteq Mine(s)
      BY <1>3 DEF Mine
    <3> QED BY <3>1
  <2>2. Result(s, slots[s].shows \cup more)
    BY <1>5 DEF wiki_shared
  <2> HIDE DEF more
  <2>3. slots[s].shows \cup more \in SUBSET Owners /\ slots[s].shows \cup more \subseteq Mine(s)
    BY <1>2, <2>1
  <2> QED BY <1>1, <2>2, <2>3, ResultMoves
<1> QED BY <1>4, <1>5

LEMMA SchemaMoves ==
    ASSUME TypeOK, NEW s \in Slots, Shape(s),
           wiki_rebuild(s) \/ schema_read(s) \/ schema_update(s)
    PROVE  Moves(s)
<1>1. slots[s].step \in Running /\ Own(s) = slots[s].user
  BY DEF wiki_rebuild, schema_read, schema_update, At, Running, Tools, Own
<1>2. CASE Result(s, {})
  BY <1>1, <1>2, ResultMoves
<1>3. CASE schema_read(s)
  <2> DEFINE o == IF Arg(s).scope = "personal" THEN Own(s) ELSE Arg(s).owner
  <2>1. Own(s) \in Users /\ Arg(s).owner \in SharedMemories \cup {None}
    BY <1>1, CurrentFact DEF Args
  <2>2. o \in Mine(s) \cup {None}
    BY <1>1, <2>1 DEF Mine
  <2>3. None \notin schemas /\ schemas \subseteq Owners
    BY WikiMcpAssumption DEF TypeOK
  <2>4. Result(s, {o} \cap schemas)
    BY <1>3 DEF schema_read
  <2> HIDE DEF o
  <2>5. {o} \cap schemas \in SUBSET Owners /\ {o} \cap schemas \subseteq Mine(s)
    BY <2>2, <2>3
  <2> QED BY <1>1, <2>4, <2>5, ResultMoves
<1> QED BY <1>2, <1>3 DEF wiki_rebuild, schema_update

\* The query of the export: the next rows of the caller.
LEMMA ExportMoves ==
    ASSUME TypeOK, IsFiniteSet(raws), NEW s \in Slots, Shape(s), export(s)
    PROVE  /\ Moves(s)
           /\ Goes(s, "export_wikis", Fetch({r \in raws : r.owner = Own(s)}, Arg(s).cursor),
                   slots[s].shows)
<1> DEFINE mine == {r \in raws : r.owner = Own(s)}
           data == Fetch(mine, Arg(s).cursor)
<1>1. slots[s].step \in Running /\ Own(s) = slots[s].user
  BY DEF export, At, Running, Tools, Own
<1>2. /\ slots[s] \in Slot /\ slots[s].shows \in SUBSET Owners /\ slots[s].shows \subseteq Mine(s)
  BY <1>1, CurrentFact DEF Slot, Shape
<1>3. mine \in SUBSET raws /\ mine \in SUBSET Raw /\ \A r \in mine : r.owner = slots[s].user
  BY <1>1 DEF TypeOK
<1>4. slots' = [slots EXCEPT ![s].step = "export_wikis", ![s].data = data]
  BY DEF export
<1> HIDE DEF mine
<1>5. Table(mine)
  BY <1>3, RawsTable
<1>6. Table(data) /\ data \in SUBSET mine
  BY <1>5, FetchFact
<1> HIDE DEF data
<1>7. slots' = [slots EXCEPT ![s].step = "export_wikis", ![s].data = data,
                             ![s].shows = slots[s].shows]
  BY <1>2, <1>4 DEF TypeOK, Slot
<1>8. data \in SUBSET Raw /\ \A r \in data : r.owner = slots[s].user
  BY <1>3, <1>6
<1>9. Goes(s, "export_wikis", data, slots[s].shows)
  BY <1>2, <1>7, <1>8, GoesIs DEF Steps
<1>10. Moves(s)
  BY <1>1, <1>2, <1>6, <1>8, <1>9, GoesMoves DEF Running
<1> QED BY <1>9, <1>10 DEF data, mine

\* The page goes out, with the cursor of the next one.
LEMMA PageMoves ==
    ASSUME TypeOK, NEW s \in Slots, Shape(s),
           slots[s].step \in {"export_wikis", "export_schema"}, Export_(s)
    PROVE  /\ Moves(s)
           /\ \E outcome \in Outcome :
                 /\ Conclude(s, outcome) /\ outcome.id = Current(s).id
                 /\ outcome.rows = Page(slots[s].data)
                 /\ outcome.next = NextCursor(slots[s].data)
<1> DEFINE page == Page(slots[s].data)
           next == NextCursor(slots[s].data)
           shows == slots[s].shows \cup {r.owner : r \in page}
           outcome == [Error(Current(s).id, "result") EXCEPT
                           !.rows = page, !.next = next, !.shows = shows]
<1>1. slots[s].step \in Running /\ slots[s].step \in Holding
  BY DEF Running, Holding
<1>2. /\ slots[s] \in Slot /\ slots[s].data \in SUBSET Raw /\ slots[s].shows \in SUBSET Owners
      /\ slots[s].shows \subseteq Mine(s) /\ Table(slots[s].data)
      /\ \A r \in slots[s].data : r.owner = slots[s].user
  BY <1>1, CurrentFact DEF Slot, Shape
<1>3. page \in SUBSET slots[s].data
  BY <1>2, PageFact
<1>4. shows \in SUBSET Owners /\ shows \subseteq Mine(s) /\ page \in SUBSET Raw
  BY <1>2, <1>3 DEF Raw, Mine
<1>5. next \in {c \in Cursor(Times, RawIds) : c.form # "legacy"}
  <2>1. CASE next = NoCursor
    BY <2>1, OutcomeFact
  <2>2. CASE next # NoCursor
    <3>1. PICK l \in page : next = Full(l.at, l.id)
      BY <1>2, <2>2, PageFact
    <3>2. l.at \in Times /\ l.id \in RawIds
      BY <1>4 DEF Raw
    <3> QED BY <3>1, <3>2 DEF Full, Cursor
  <2> QED BY <2>1, <2>2
<1>6. /\ Error(Current(s).id, "result") \in Outcome
      /\ Error(Current(s).id, "result").id = Current(s).id
  BY <1>1, CurrentFact, OutcomeFact DEF Replies
<1>7. Conclude(s, outcome)
  BY DEF Export_
<1> HIDE DEF page, next, shows
<1>8. /\ outcome \in Outcome /\ outcome.shows = shows /\ outcome.rows = page
      /\ outcome.next = next /\ outcome.id = Current(s).id
  BY <1>4, <1>5, <1>6 DEF Outcome
<1> HIDE DEF outcome
<1>9. Moves(s)
  BY <1>1, <1>4, <1>7, <1>8, ConcludeMoves
<1> QED BY <1>7, <1>8, <1>9 DEF page, next

LEMMA WikisMoves ==
    ASSUME TypeOK, NEW s \in Slots, Shape(s), export_wikis(s), ~Export_(s)
    PROVE  /\ Moves(s)
           /\ \E shows : Goes(s, "export_schema", slots[s].data, shows)
<1> DEFINE shows == {w.owner : w \in {v \in wikis : v.owner = Own(s)}}
<1>1. slots[s].step \in Running /\ slots[s].step \in Holding /\ Own(s) = slots[s].user
  BY DEF export_wikis, At, Running, Holding, Own
<1>2. /\ slots[s] \in Slot /\ slots[s].data \in SUBSET Raw /\ Table(slots[s].data)
      /\ \A r \in slots[s].data : r.owner = slots[s].user
  BY <1>1, CurrentFact DEF Slot, Shape
<1>3. shows \in SUBSET Owners /\ shows \subseteq Mine(s)
  BY <1>1 DEF TypeOK, Wiki, Mine
<1>4. slots' = [slots EXCEPT ![s].step = "export_schema", ![s].shows = shows]
  BY DEF export_wikis
<1> HIDE DEF shows
<1>5. slots' = [slots EXCEPT ![s].step = "export_schema", ![s].data = slots[s].data,
                             ![s].shows = shows]
  BY <1>2, <1>4 DEF TypeOK, Slot
<1>6. Goes(s, "export_schema", slots[s].data, shows)
  BY <1>2, <1>3, <1>5, GoesIs DEF Steps
<1>7. Moves(s)
  BY <1>1, <1>2, <1>3, <1>6, GoesMoves DEF Running
<1> QED BY <1>6, <1>7

-----------------------------------------------------------------------------
(* Requests that come and go                                               *)

LEMMA IdleMoves ==
    ASSUME TypeOK, NEW s \in Slots, slots' = [slots EXCEPT ![s] = Idle]
    PROVE  Moves(s) /\ slots'[s] = Idle
<1>1. /\ slots' \in [Slots -> Slot] /\ slots'[s] = Idle
      /\ \A t \in Slots \ {s} : slots'[t] = slots[t]
  BY OutcomeFact, MovesTo
<1>2. Shape(s)'
  BY <1>1 DEF Shape, At, Idle, Running, Tools, Holding
<1> QED BY <1>1, <1>2, OutcomeFact DEF Moves, Moved, At

\* A request that starts has an entry, or is to delete the account.
LEMMA AuthMoves ==
    ASSUME TypeOK, NEW s \in Slots, NEW u \in Users, NEW b, NEW step,
           \/ step = "entry" /\ b \in Body /\ b.entries # <<>>
           \/ step = "delete" /\ b = None,
           require_auth(s, u, step, b)
    PROVE  /\ Moves(s)
           /\ slots'[s].step = step /\ slots'[s].user = u /\ slots'[s].body = b
           /\ slots'[s].out = <<>> /\ slots'[s].wrote = {}
<1> DEFINE n == [Idle EXCEPT !.step = step, !.user = u, !.body = b]
<1>1. n \in Slot
  BY OutcomeFact DEF Slot, Steps
<1>2. /\ n.step = step /\ n.user = u /\ n.body = b /\ n.out = <<>> /\ n.shows = {}
      /\ n.wrote = {}
  BY DEF Idle
<1>3. slots' = [slots EXCEPT ![s] = n]
  BY DEF require_auth
<1> HIDE DEF n
<1>4. /\ slots' \in [Slots -> Slot] /\ slots'[s] = n
      /\ \A t \in Slots \ {s} : slots'[t] = slots[t]
  BY <1>1, <1>3, MovesTo
<1>5. step = "entry" => Len(n.out) < Len(b.entries)
  <2> SUFFICES ASSUME step = "entry" PROVE Len(n.out) < Len(b.entries)
    OBVIOUS
  <2>1. b.entries \in Seq(JsonRpcRequest) /\ b.entries # <<>>
    BY DEF Body
  <2>2. Len(b.entries) \in Nat /\ Len(b.entries) # 0
    BY <2>1
  <2> QED BY <1>2, <2>2
<1>6. Shape(s)'
  BY <1>2, <1>4, <1>5 DEF Shape, At, Running, Tools, Holding
<1> QED BY <1>2, <1>4, <1>6 DEF Moves, Moved, At

Whole(b) == b.parsed /\ b.entries # <<>>

\* A POST that is refused as a whole is answered at once.
LEMMA HandleMoves ==
    ASSUME TypeOK, NEW s \in Slots, NEW u \in Users, NEW b \in Body, handle(s, u, b)
    PROVE  /\ Moves(s) /\ At(s, "idle") /\ slots'[s].user = u /\ slots'[s].body = b
           /\ slots'[s].wrote = {}
           /\ Whole(b) => slots'[s].step = "entry" /\ slots'[s].out = <<>>
           /\ ~Whole(b) => /\ slots'[s].step = "answered"
                           /\ Len(slots'[s].out) = 1 /\ slots'[s].out[1].id = "null"
<1>1. CASE Whole(b)
  <2>1. require_auth(s, u, "entry", b) /\ At(s, "idle")
    BY <1>1 DEF handle, require_auth, Whole
  <2>2. b.entries # <<>>
    BY <1>1 DEF Whole
  <2>3. /\ Moves(s)
        /\ slots'[s].step = "entry" /\ slots'[s].user = u /\ slots'[s].body = b
        /\ slots'[s].out = <<>> /\ slots'[s].wrote = {}
    BY <2>1, <2>2, AuthMoves
  <2> QED BY <1>1, <2>1, <2>3
<1>2. CASE ~Whole(b)
  <2> DEFINE reply == IF ~b.parsed THEN "-32700" ELSE "-32600"
             out == <<Error("null", reply)>>
             n == [Idle EXCEPT !.step = "answered", !.user = u, !.body = b, !.out = out]
  <2>1. reply \in Replies /\ "null" \in Ids
    BY WikiMcpAssumption DEF Replies
  <2>2. slots' = [slots EXCEPT ![s] = n] /\ At(s, "idle")
    BY <1>2 DEF handle, Whole
  <2> HIDE DEF reply
  <2>3. /\ Error("null", reply) \in Outcome /\ Error("null", reply).shows = {}
        /\ Error("null", reply).id = "null"
    BY <2>1, OutcomeFact
  <2>4. out \in Seq(Outcome) /\ Len(out) = 1 /\ \A i \in DOMAIN out : out[i].shows = {}
    BY <2>3
  <2>5. out[1].id = "null"
    BY <2>3
  <2> HIDE DEF out
  <2>6. n \in Slot
    BY <2>4, OutcomeFact DEF Slot, Steps
  <2>7. n.step = "answered" /\ n.user = u /\ n.body = b /\ n.out = out /\ n.shows = {}
    BY DEF Idle
  <2>8. n.wrote = {}
    BY DEF Idle
  <2> HIDE DEF n
  <2>9. /\ slots' \in [Slots -> Slot] /\ slots'[s] = n
        /\ \A t \in Slots \ {s} : slots'[t] = slots[t]
    BY <2>2, <2>6, MovesTo
  <2>10. Shape(s)'
    BY SMTT(20), <2>4, <2>7, <2>9 DEF Shape, At, Running, Tools, Holding
  <2> QED BY <1>2, <2>2, <2>4, <2>5, <2>7, <2>8, <2>9, <2>10 DEF Moves, Moved, At
<1> QED BY <1>1, <1>2

-----------------------------------------------------------------------------
(* The types as an invariant                                               *)

LEMMA FreshKept ==
    ASSUME Base, NEW s \in Slots, Moved(s),
           \A r \in raws' : r \in raws \/ (At(s, "raw_append_commit") /\ r \in slots[s].data),
           At(s, "raw_append_commit")' => \A q \in slots'[s].data :
               /\ slots'[s].data = {q}
               /\ \A r \in raws' : r.id # q.id
               /\ \A t \in Slots : \A r \in slots[t].data : r.id # q.id
    PROVE  \A t \in Slots : Fresh(t)'
<1> SUFFICES ASSUME NEW t \in Slots, At(t, "raw_append_commit")', NEW q \in slots'[t].data
             PROVE  /\ slots'[t].data = {q}
                    /\ \A r \in raws' : r.id # q.id
                    /\ \A v \in Slots \ {t} : At(v, "raw_append_commit")' =>
                          \A r \in slots'[v].data : r.id # q.id
  BY DEF Fresh
<1>1. \A v \in Slots \ {s} : slots'[v] = slots[v]
  BY DEF Moved
<1>2. CASE t = s
  BY <1>1, <1>2
<1>3. CASE t # s
  <2>1. slots'[t] = slots[t] /\ At(t, "raw_append_commit") /\ q \in slots[t].data
    BY <1>1, <1>3 DEF At
  <2>2. /\ slots[t].data = {q} /\ \A r \in raws : r.id # q.id
        /\ \A v \in Slots \ {t} : At(v, "raw_append_commit") => \A r \in slots[v].data : r.id # q.id
    BY <2>1 DEF Base, Fresh
  <2>3. \A r \in raws' : r.id # q.id
    BY <1>3, <2>2
  <2>4. ASSUME NEW v \in Slots \ {t}, At(v, "raw_append_commit")', NEW r \in slots'[v].data
        PROVE  r.id # q.id
    <3>1. CASE v = s
      BY <2>1, <2>4, <3>1
    <3>2. CASE v # s
      BY <1>1, <2>2, <2>4, <3>2 DEF At
    <3> QED BY <3>1, <3>2
  <2> QED BY <2>1, <2>2, <2>3, <2>4
<1> QED BY <1>2, <1>3

\* A step that takes no row into the table and stamps none.
LEMMA QuietStep ==
    ASSUME Base, NEW s \in Slots, Moves(s),
           users' \in SUBSET Users, raws' \in SUBSET raws, wikis' \in SUBSET Wiki,
           schemas' \in SUBSET Owners, now' = now, exports' \in [Users -> Export]
    PROVE  Base'
<1>1. Moved(s) /\ ~At(s, "raw_append_commit")'
  BY DEF Moves
<1>2. \A t \in Slots : Fresh(t)'
  BY <1>1, FreshKept
<1>3. \A t \in Slots : Shape(t)'
  BY <1>1 DEF Moved, Base, Shape, At, Mine, Arg, Current
<1>4. TypeOK'
  BY <1>1 DEF Base, TypeOK, Moved
<1>5. IsFiniteSet(raws')
  BY FS_Subset DEF Base
<1> QED BY <1>2, <1>3, <1>4, <1>5 DEF Base

LEMMA BaseInit == Init => Base
<1> SUFFICES ASSUME Init PROVE Base
  OBVIOUS
<1>1. now \in Times
  <2> DEFINE S == {r.at : r \in StoredRaws}
             T == {MaxTime - x : x \in S}
  <2>1. S \in SUBSET Times /\ S # {} /\ MaxTime \in Nat
    BY WikiMcpAssumption DEF Raw
  <2> HIDE DEF S
  <2>2. \A x \in S : x \in Nat /\ x <= MaxTime
    BY <2>1 DEF Times
  <2>3. T \in SUBSET Nat /\ T # {}
    BY <2>1, <2>2
  <2> HIDE DEF T
  <2>4. PICK m \in T : \A k \in T : m <= k
    BY <2>3, LeastNumber
  <2>5. PICK x \in S : m = MaxTime - x
    BY <2>4 DEF T
  <2>6. \A y \in S : x >= y
    <3> SUFFICES ASSUME NEW y \in S PROVE x >= y
      OBVIOUS
    <3>1. MaxTime - x <= MaxTime - y
      BY <2>4, <2>5 DEF T
    <3> QED BY <2>1, <2>2, <3>1
  <2>7. Max(S) \in S
    BY <2>6 DEF Max
  <2>8. now = Max(S)
    BY DEF Init, S
  <2> QED BY <2>1, <2>7, <2>8
<1>2. \A s \in Slots : slots[s] = Idle
  BY DEF Init
<1>3. \A s \in Slots : Shape(s) /\ Fresh(s)
  BY <1>2 DEF Shape, Fresh, At, Idle, Running, Tools, Holding
<1>4. NoExport \in Export
  BY OutcomeFact DEF NoExport, Export
<1>5. TypeOK
  BY <1>1, <1>4, OutcomeFact, WikiMcpAssumption DEF Init, TypeOK
<1> QED BY <1>3, <1>5, WikiMcpAssumption DEF Base, Init

\* The entry of a page.
LEMMA BodyFact ==
    ASSUME NEW c \in Cursor(Times, RawIds)
    PROVE  /\ ExportBody(c) \in Body /\ ExportBody(c).parsed
           /\ Len(ExportBody(c).entries) = 1 /\ ExportBody(c).entries # <<>>
           /\ ExportBody(c).entries[1].method = "tools/call"
           /\ ExportBody(c).entries[1].tool = "export"
           /\ ExportBody(c).entries[1].id = "export"
           /\ ExportBody(c).entries[1].args.cursor = c
           /\ ExportBody(c).entries[1].args.ok
<1> DEFINE args == [ok |-> TRUE, id |-> 0, scope |-> "all", concept |-> None, owner |-> None,
                    size |-> 0, cursor |-> c]
           e == [id |-> "export", method |-> "tools/call", tool |-> "export", args |-> args]
<1>1. args \in Args
  BY WikiMcpAssumption DEF Args
<1> HIDE DEF args
<1>2. e \in JsonRpcRequest
  BY <1>1, WikiMcpAssumption DEF JsonRpcRequest, Methods, Tools
<1>3. ExportBody(c) = [parsed |-> TRUE, entries |-> <<e>>]
  BY DEF ExportBody, args
<1>4. e.method = "tools/call" /\ e.tool = "export" /\ e.id = "export" /\ e.args = args
  OBVIOUS
<1>5. args.cursor = c /\ args.ok
  BY DEF args
<1> HIDE DEF e
<1> QED BY <1>2, <1>3, <1>4, <1>5 DEF Body

\* What a client may ask for first.
LEMMA BeginFact ==
    ASSUME Base, NEW s \in Slots, NEW u \in Users, NEW c,
           c = NoCursor \/ (\E r \in raws : c = Legacy(r.at)), BeginExport(s, u, c)
    PROVE  /\ c \in Cursor(Times, RawIds) /\ ExportBody(c) \in Body
           /\ exports' \in [Users -> Export] /\ handle(s, u, ExportBody(c))
<1>1. c \in Cursor(Times, RawIds)
  BY DEF Base, TypeOK, Raw, NoCursor, Legacy, Cursor
<1>2. ExportBody(c) \in Body
  BY <1>1, BodyFact
<1> DEFINE due == {r \in raws : r.owner = u /\ r.at >= c.at}
           x == [NoExport EXCEPT !.open = TRUE, !.from = c, !.cursor = c, !.due = due]
<1>3. due \in SUBSET Raw
  BY DEF Base, TypeOK
<1>4. exports' = [exports EXCEPT ![u] = x] /\ handle(s, u, ExportBody(c))
  BY DEF BeginExport
<1> HIDE DEF due
<1>5. x \in Export
  <2>1. NoExport \in Export
    BY OutcomeFact DEF NoExport, Export
  <2> QED BY <1>1, <1>3, <2>1 DEF Export
<1> HIDE DEF x
<1>6. exports' \in [Users -> Export]
  BY <1>4, <1>5 DEF Base, TypeOK
<1> QED BY <1>1, <1>2, <1>4, <1>6

\* Every step of a handler keeps the types.
LEMMA BaseHandler ==
    ASSUME Base, NEW s \in Slots, HandlerStep(s)
    PROVE  Base'
<1>1. TypeOK /\ IsFiniteSet(raws) /\ Shape(s) /\ Fresh(s) /\ now' = now /\ exports' = exports
  BY DEF Base, HandlerStep
<1>2. /\ users \in SUBSET Users /\ raws \in SUBSET raws /\ wikis \in SUBSET Wiki
      /\ schemas \in SUBSET Owners /\ exports \in [Users -> Export]
  BY <1>1 DEF TypeOK
<1>3. ASSUME Moves(s), UNCHANGED tables PROVE Base'
  BY <1>1, <1>2, <1>3, QuietStep DEF tables
<1>4. CASE (dispatch_one(s) \/ call(s) \/ Breaks(s)) /\ UNCHANGED tables
  BY <1>1, <1>3, <1>4, DispatchMoves, CallMoves, BreaksMoves
<1>5. CASE raw_append(s)
  <2>1. /\ Moved(s) /\ At(s, "raw_append_commit")' /\ UNCHANGED tables
        /\ \A q \in slots'[s].data :
              /\ slots'[s].data = {q}
              /\ \A r \in raws : r.id # q.id
              /\ \A t \in Slots : \A r \in slots[t].data : r.id # q.id
    BY <1>1, <1>5, AppendMoves DEF raw_append
  <2>2. raws' = raws
    BY <2>1 DEF tables
  <2>3. \A t \in Slots : Fresh(t)'
    BY <2>1, <2>2, FreshKept
  <2>4. \A t \in Slots : Shape(t)'
    <3>1. Moved(s)
      BY <2>1
    <3> QED BY <3>1 DEF Moved, Base, Shape, At, Mine, Arg, Current
  <2>5. TypeOK'
    BY <1>1, <2>1 DEF TypeOK, Moved, tables
  <2> QED BY <1>1, <2>2, <2>3, <2>4, <2>5 DEF Base
<1>6. CASE raw_append_commit(s)
  <2> DEFINE data == slots[s].data
  <2>1. /\ Moves(s) /\ At(s, "raw_append_commit") /\ raws' = raws \cup data
        /\ users' = users /\ wikis' = wikis /\ schemas' = schemas
    BY <1>1, <1>6, CommitMoves DEF raw_append_commit
  <2>2. slots[s] \in Slot /\ data \in SUBSET Raw /\ Table(data)
    BY <1>1, <2>1 DEF TypeOK, Slot, Shape, Holding, At
  <2>3. \A q \in data : data = {q} /\ \A r \in raws : r.id # q.id
    BY <1>1, <2>1 DEF Fresh
  <2>4. Moved(s) /\ ~At(s, "raw_append_commit")'
    BY <2>1 DEF Moves
  <2>5. \A t \in Slots : Fresh(t)'
    BY <2>1, <2>4, FreshKept
  <2>6. \A t \in Slots : Shape(t)'
    BY <2>4 DEF Moved, Base, Shape, At, Mine, Arg, Current
  <2>7. /\ raws' \in SUBSET Raw
        /\ \A q, r \in raws' : q.id = r.id => q = r
    BY <1>1, <2>1, <2>2, <2>3 DEF TypeOK
  <2>8. TypeOK'
    BY <1>1, <2>1, <2>4, <2>7 DEF TypeOK, Moved
  <2>9. IsFiniteSet(raws')
    BY <1>1, <2>1, <2>2, FS_Union DEF Table
  <2> QED BY <2>5, <2>6, <2>8, <2>9 DEF Base
<1>7. CASE raw_read(s) \/ raw_search(s) \/ raw_search_shared(s)
  BY <1>1, <1>3, <1>7, ReadMoves, SearchMoves DEF raw_read, raw_search, raw_search_shared
<1>8. CASE wiki_personal(s) \/ wiki_shared(s)
  BY <1>1, <1>3, <1>8, WikiMoves DEF wiki_personal, wiki_shared
<1>9. CASE wiki_rebuild(s) \/ schema_read(s)
  BY <1>1, <1>3, <1>9, SchemaMoves DEF wiki_rebuild, schema_read
<1>10. CASE schema_update(s)
  <2>1. Moves(s)
    BY <1>1, <1>10, SchemaMoves
  <2>2. Own(s) \in Owners
    BY <1>1, <1>10, CurrentFact DEF schema_update, At, Running, Tools, Owners
  <2>3. /\ schemas' \in SUBSET Owners
        /\ users' = users /\ raws' = raws /\ wikis' = wikis
    BY <1>2, <1>10, <2>2 DEF schema_update
  <2> QED BY <1>1, <1>2, <2>1, <2>3, QuietStep
<1>11. CASE export(s)
  BY <1>1, <1>3, <1>11, ExportMoves DEF export
<1>12. CASE export_wikis(s)
  <2>1. Moves(s)
    BY <1>1, <1>12, PageMoves, WikisMoves DEF export_wikis, At
  <2> QED BY <1>3, <1>12, <2>1 DEF export_wikis
<1>13. CASE export_schema(s)
  <2>1. Moves(s)
    BY <1>1, <1>13, PageMoves DEF export_schema, At
  <2> QED BY <1>3, <1>13, <2>1 DEF export_schema
<1>14. CASE delete_me(s)
  <2>1. Moves(s)
    BY <1>1, <1>14, IdleMoves DEF delete_me
  <2>2. /\ users' \in SUBSET Users /\ raws' \in SUBSET raws
        /\ wikis' \in SUBSET Wiki /\ schemas' \in SUBSET Owners
    BY <1>2, <1>14 DEF delete_me
  <2> QED BY <1>1, <1>2, <2>1, <2>2, QuietStep
<1> QED BY <1>4, <1>5, <1>6, <1>7, <1>8, <1>9, <1>10, <1>11, <1>12, <1>13, <1>14
    DEF HandlerStep

\* What a client makes of a response is typed.
LEMMA DeliverFact ==
    ASSUME Base, NEW s \in Slots, Deliver(s)
    PROVE  Moves(s) /\ slots[s].user \in Users /\ exports' \in [Users -> Export]
<1> DEFINE u == slots[s].user
           o == slots[s].out[1]
<1>1. TypeOK /\ Shape(s) /\ At(s, "answered") /\ slots[s] \in Slot
  BY DEF Deliver, Base, TypeOK
<1>2. Moves(s)
  BY <1>1, IdleMoves DEF Deliver
<1>3. u \in Users /\ o \in Outcome
  <2>1. slots[s].out \in Seq(Outcome) /\ Len(slots[s].out) >= 1
    BY <1>1 DEF Slot, Shape
  <2>2. 1 \in 1..Len(slots[s].out)
    BY <2>1
  <2> QED BY <1>1, <2>1, <2>2 DEF Shape, At
<1> HIDE DEF u, o
<1>4. exports[u] \in Export
  BY <1>1, <1>3 DEF TypeOK
<1>5. Received(exports[u], o) \in Export
  <2>1. o.rows \in SUBSET Raw /\ o.next \in Cursor(Times, RawIds)
    BY <1>3 DEF Outcome
  <2>2. exports[u].pages \in Seq(SUBSET Raw)
    BY <1>4 DEF Export
  <2>3. Append(exports[u].pages, o.rows) \in Seq(SUBSET Raw)
    BY <2>1, <2>2
  <2> QED BY <1>4, <2>1, <2>3 DEF Received, Export
<1>6. exports' = exports \/ exports' = [exports EXCEPT ![u] = Received(exports[u], o)]
  BY DEF Deliver, u, o
<1> QED BY <1>1, <1>2, <1>3, <1>5, <1>6 DEF TypeOK, u

LEMMA BaseStep == Base /\ [Next]_vars => Base'
<1> SUFFICES ASSUME Base, [Next]_vars PROVE Base'
  OBVIOUS
<1>1. /\ TypeOK /\ IsFiniteSet(raws) /\ (\A s \in Slots : Shape(s) /\ Fresh(s))
      /\ users \in SUBSET Users /\ raws \in SUBSET raws /\ wikis \in SUBSET Wiki
      /\ schemas \in SUBSET Owners /\ exports \in [Users -> Export]
  BY DEF Base, TypeOK
<1>2. ASSUME NEW s \in Slots, Moves(s), UNCHANGED <<tables, now>>,
             exports' \in [Users -> Export]
      PROVE  Base'
  BY <1>1, <1>2, QuietStep DEF tables
<1>3. ASSUME NEW s \in Slots, Post(s) PROVE Base'
  <2>1. PICK q \in Requests : handle(s, q[1], q[2]) /\ UNCHANGED <<tables, now, exports>>
    BY <1>3 DEF Post
  <2>2. q[1] \in Users /\ q[2] \in Body
    BY WikiMcpAssumption
  <2>3. Moves(s)
    BY <1>1, <2>1, <2>2, HandleMoves
  <2> QED BY <1>1, <1>2, <2>1, <2>3
<1>4. ASSUME NEW s \in Slots, HandlerStep(s) PROVE Base'
  BY <1>4, BaseHandler
<1>5. ASSUME NEW s \in Slots, Deliver(s) PROVE Base'
  BY <1>2, <1>5, DeliverFact DEF Deliver
<1>6. ASSUME NEW s \in Slots, Abandon(s) PROVE Base'
  BY <1>1, <1>2, <1>6, IdleMoves DEF Abandon
<1>7. ASSUME NEW s \in Slots, NEW u \in Users, AskPage(s, u) PROVE Base'
  <2>1. exports[u].cursor \in Cursor(Times, RawIds)
    BY <1>1 DEF Export
  <2>2. Moves(s)
    BY <1>1, <1>7, <2>1, BodyFact, HandleMoves DEF AskPage
  <2> QED BY <1>1, <1>2, <1>7, <2>2 DEF AskPage
<1>8. ASSUME NEW s \in Slots, NEW u \in Users, AskDelete(s, u) PROVE Base'
  <2>1. Moves(s)
    BY <1>1, <1>8, AuthMoves DEF AskDelete
  <2> QED BY <1>1, <1>2, <1>8, <2>1 DEF AskDelete
<1>9. ASSUME NEW s \in Slots, NEW u \in Users, NEW c,
             c = NoCursor \/ (\E r \in raws : c = Legacy(r.at)), BeginExport(s, u, c)
      PROVE  Base'
  <2>1. ExportBody(c) \in Body /\ exports' \in [Users -> Export] /\ handle(s, u, ExportBody(c))
    BY <1>9, BeginFact
  <2>2. Moves(s)
    BY <1>1, <2>1, HandleMoves
  <2> QED BY <1>2, <1>9, <2>1, <2>2 DEF BeginExport
<1>10. ASSUME NEW u \in Users, NEW c \in Concepts, WorkerWrites(u, c) PROVE Base'
  <2>1. wikis' \in SUBSET Wiki
    BY <1>1, <1>10 DEF WorkerWrites, Wiki, Owners
  <2>2. UNCHANGED <<users, raws, schemas, now, slots, exports>>
    BY <1>10 DEF WorkerWrites
  <2>3. TypeOK'
    BY <1>1, <2>1, <2>2 DEF TypeOK
  <2>4. \A s \in Slots : Shape(s)' /\ Fresh(s)'
    BY SMTT(20), <1>1, <2>2 DEF Shape, Fresh, At, Mine, Arg, Current
  <2> QED BY <1>1, <2>2, <2>3, <2>4 DEF Base
<1>11. CASE Tick
  <2>1. now' \in Times
    <3>1. now \in Nat /\ now > 0 /\ MaxTime \in Nat
      BY <1>1, WikiMcpAssumption, TimesFact DEF TypeOK
    <3> QED BY <1>11, <3>1 DEF Tick, Times
  <2>2. UNCHANGED <<tables, slots, exports>>
    BY <1>11 DEF Tick
  <2>3. TypeOK'
    BY <1>1, <2>1, <2>2 DEF TypeOK, tables
  <2>4. \A s \in Slots : Shape(s)' /\ Fresh(s)'
    BY <1>1, <2>2 DEF Shape, Fresh, At, Mine, Arg, Current, tables
  <2> QED BY <1>1, <2>2, <2>3, <2>4 DEF Base, tables
<1>12. CASE UNCHANGED vars
  <2>1. UNCHANGED <<users, raws, wikis, schemas, now, slots, exports>>
    BY <1>12 DEF vars, tables
  <2>2. TypeOK'
    BY <1>1, <2>1 DEF TypeOK
  <2>3. \A s \in Slots : Shape(s)' /\ Fresh(s)'
    BY <1>1, <2>1 DEF Shape, Fresh, At, Mine, Arg, Current
  <2> QED BY <1>1, <2>1, <2>2, <2>3 DEF Base
<1> QED
  <2>1. CASE \E s \in Slots :
                \/ Post(s) \/ HandlerStep(s) \/ Deliver(s) \/ Abandon(s)
                \/ \E u \in Users : AskPage(s, u) \/ AskDelete(s, u)
    BY <1>3, <1>4, <1>5, <1>6, <1>7, <1>8, <2>1
  <2>2. CASE \E s \in Slots, u \in Users :
                \/ BeginExport(s, u, NoCursor)
                \/ \E r \in raws : r.owner = u /\ BeginExport(s, u, Legacy(r.at))
    BY <1>9, <2>2
  <2>3. CASE \E u \in Users, c \in Concepts : WorkerWrites(u, c)
    BY <1>10, <2>3
  <2> QED BY <1>11, <1>12, <2>1, <2>2, <2>3 DEF Next

\* The tables and the requests are typed, an id names one raw, and every
\* next_cursor has the form "<created_at>:<id>" (tools of mcp/tools/, new_ulid).
THEOREM TypeCorrect == Spec => []TypeOK
<1>1. Base => TypeOK
  BY DEF Base
<1> QED BY <1>1, BaseInit, BaseStep, PTL DEF Spec

\* Nobody is shown a personal raw, wiki or schema of somebody else: the owner
\* filter of every query, raw_read's check of the row, and the owner of the rows
\* that a handler carries from one await to the next.
THEOREM OnlyOwnRows == Spec => []PrivateRows
<1>1. Base => PrivateRows
  BY DEF Base, Shape, PrivateRows, Mine
<1> QED BY <1>1, BaseInit, BaseStep, PTL DEF Spec

-----------------------------------------------------------------------------
(* The pages of an export                                                  *)

Had(x) == UNION {x.pages[i] : i \in DOMAIN x.pages}

\* No row has arrived twice, and none that has lies behind the cursor.
Ahead(x) ==
    /\ \A i, j \in DOMAIN x.pages : i # j => x.pages[i] \cap x.pages[j] = {}
    /\ x.open => \A r \in Had(x) : ~After(r, x.cursor)

\* Every row that is due has arrived or is still to come.
NoneMissed(x) ==
    /\ x.open => \A r \in x.due : After(r, x.cursor) \/ r \in Had(x)
    /\ x.done => x.due \subseteq Had(x)

Progress(u) ==
    /\ exports[u].open => u \in Exporters
    /\ exports[u].open \/ exports[u].done \/ exports[u].pages = <<>>
    /\ Ahead(exports[u])
    /\ u \in users =>
          NoneMissed(exports[u]) /\ \A r \in exports[u].due : r \in raws /\ r.owner = u

\* The right answer to the question for the page behind d.
GoodPage(u, d, rows, next) ==
    Forward(rows, next, d) /\ (u \in users => Complete(rows, next, d, exports[u].due))

Exporting(s) ==
    /\ slots[s].user \in Exporters
    /\ \E d \in Cursor(Times, RawIds) : slots[s].body = ExportBody(d)

\* A client asks for the page at its cursor, once, and the handler prepares that
\* page or has answered with it.
Paging(s) ==
    LET u == slots[s].user
        d == exports[u].cursor
    IN Exporting(s) =>
       /\ exports[u].open /\ slots[s].body = ExportBody(d)
       /\ \A t \in Slots \ {s} : Exporting(t) => slots[t].user # u
       /\ slots[s].step \in {"entry", "export", "export_wikis", "export_schema", "answered"}
       /\ slots[s].step \in {"export_wikis", "export_schema"} =>
             GoodPage(u, d, Page(slots[s].data), NextCursor(slots[s].data))
       /\ At(s, "answered") /\ slots[s].out[1].reply = "result" =>
             GoodPage(u, d, slots[s].out[1].rows, slots[s].out[1].next)

ExportInv == /\ Base
             /\ \A s \in Slots : Paging(s)
             /\ \A u \in Users : Progress(u)

LEMMA CursorFact ==
    \A c \in Cursor(Times, RawIds) :
        /\ c.at \in Nat /\ c.id \in Nat
        /\ \A d \in Cursor(Times, RawIds) : ExportBody(c) = ExportBody(d) => c = d
<1>1. ASSUME NEW c \in Cursor(Times, RawIds) PROVE c.at \in Nat /\ c.id \in Nat
  <2>1. c.at \in Times \cup {0} /\ c.id \in RawIds \cup {0}
    BY DEF Cursor
  <2>2. 0 \in Nat
    OBVIOUS
  <2> QED BY <2>1, <2>2, TimesFact, Zenon
<1>2. ASSUME NEW c \in Cursor(Times, RawIds), NEW d \in Cursor(Times, RawIds),
             ExportBody(c) = ExportBody(d)
      PROVE  c = d
  BY <1>2, BodyFact
<1> QED BY <1>1, <1>2

\* A right answer keeps an export right, and moves its cursor on.
LEMMA ReceivedFact ==
    ASSUME NEW x \in Export, x.open, NEW o \in Outcome, o.reply = "result",
           Ahead(x), Forward(o.rows, o.next, x.cursor)
    PROVE  LET y == Received(x, o) IN
           /\ Ahead(y) /\ y.due = x.due /\ (y.open \/ y.done)
           /\ y.open => After(y.cursor, x.cursor)
           /\ NoneMissed(x) /\ Complete(o.rows, o.next, x.cursor, x.due) => NoneMissed(y)
<1> DEFINE y == Received(x, o)
           n == Len(x.pages)
<1>1. /\ x.pages \in Seq(SUBSET Raw) /\ n \in Nat /\ DOMAIN x.pages = 1..n
      /\ o.rows \in SUBSET Raw /\ o.next \in Cursor(Times, RawIds)
      /\ x.cursor \in Cursor(Times, RawIds)
  BY DEF Export, Outcome
<1>2. /\ y.pages = Append(x.pages, o.rows) /\ y.cursor = o.next /\ y.due = x.due
      /\ y.open = (o.next # NoCursor) /\ y.done = (o.next = NoCursor)
  BY DEF Received, Export
<1>3. /\ DOMAIN y.pages = 1..(n + 1) /\ y.pages[n + 1] = o.rows
      /\ \A i \in 1..n : y.pages[i] = x.pages[i]
      /\ \A i \in 1..(n + 1) : i \in 1..n \/ i = n + 1
  BY <1>1, <1>2
<1> HIDE DEF y, n
<1>4. Had(y) = Had(x) \cup o.rows
  <2>1. ASSUME NEW r PROVE r \in Had(y) <=> r \in Had(x) \/ r \in o.rows
    <3>1. r \in Had(y) <=> \E i \in 1..(n + 1) : r \in y.pages[i]
      BY <1>3 DEF Had
    <3>2. r \in Had(x) <=> \E i \in 1..n : r \in x.pages[i]
      BY <1>1 DEF Had
    <3>3. n + 1 \in 1..(n + 1) /\ \A i \in 1..n : i \in 1..(n + 1)
      BY <1>1
    <3> QED BY <1>3, <3>1, <3>2, <3>3
  <2> QED BY <2>1
<1>5. \A r \in Had(x) \cup o.rows : r \in Raw /\ r.at \in Nat /\ r.id \in Nat
  <2>1. \A r \in Had(x) : r \in Raw
    BY <1>1 DEF Had
  <2> QED BY <1>1, <2>1, TimesFact DEF Raw
<1>6. \A r \in Had(x) : ~After(r, x.cursor)
  BY DEF Ahead
<1>7. \A r \in o.rows : After(r, x.cursor)
  BY DEF Forward
<1>8. ASSUME NEW i \in DOMAIN y.pages, NEW j \in DOMAIN y.pages, i # j
      PROVE  y.pages[i] \cap y.pages[j] = {}
  <2>1. \A k \in 1..n : x.pages[k] \cap o.rows = {}
    BY <1>1, <1>6, <1>7 DEF Had
  <2>2. \A k, l \in 1..n : k # l => x.pages[k] \cap x.pages[l] = {}
    BY <1>1 DEF Ahead
  <2> QED BY <1>3, <1>8, <2>1, <2>2
<1>9. ASSUME o.next # NoCursor, NEW r \in Had(y) PROVE ~After(r, o.next)
  <2>1. After(o.next, x.cursor) /\ \A q \in o.rows : ~After(q, o.next)
    BY <1>9 DEF Forward
  <2>2. CASE r \in o.rows
    BY <2>1, <2>2
  <2>3. CASE r \in Had(x)
    <3>1. ~After(r, x.cursor) /\ r.at \in Nat /\ r.id \in Nat
      BY <1>5, <1>6, <2>3
    <3>2. o.next.at \in Nat /\ o.next.id \in Nat /\ x.cursor.at \in Nat /\ x.cursor.id \in Nat
      BY <1>1, CursorFact
    <3> QED BY <2>1, <3>1, <3>2 DEF After
  <2> QED BY <1>4, <1>9, <2>2, <2>3
<1>10. Ahead(y)
  BY <1>2, <1>8, <1>9 DEF Ahead
<1>11. y.open => After(y.cursor, x.cursor)
  BY <1>2 DEF Forward
<1>12. ASSUME NoneMissed(x), Complete(o.rows, o.next, x.cursor, x.due) PROVE NoneMissed(y)
  <2>1. \A r \in x.due : r \in Had(y) \/ (o.next # NoCursor /\ After(r, o.next))
    BY <1>4, <1>12 DEF NoneMissed, Complete
  <2> QED BY <1>2, <2>1 DEF NoneMissed
<1> QED BY <1>2, <1>10, <1>11, <1>12 DEF y

\* A step in another slot leaves the question and its answer alone.
LEMMA PagingOthers ==
    ASSUME NEW s \in Slots, NEW t \in Slots \ {s}, Paging(t), users' \in SUBSET users,
           \A v \in Slots \ {s} : slots'[v] = slots[v],
           Exporting(t) => /\ exports'[slots[t].user] = exports[slots[t].user]
                           /\ Exporting(s)' => slots'[s].user # slots[t].user
    PROVE  Paging(t)'
<1> SUFFICES ASSUME Exporting(t)' PROVE Paging(t)'
  BY DEF Paging
<1>1. slots'[t] = slots[t] /\ \A v \in Slots \ {s} : slots'[v] = slots[v]
  OBVIOUS
<1>2. Exporting(t)
  BY <1>1 DEF Exporting
<1> PICK u, d : u = slots[t].user /\ d = exports[u].cursor
  OBVIOUS
<1>3. exports'[u] = exports[u] /\ (Exporting(s)' => slots'[s].user # u)
  BY <1>2
<1>4. /\ exports[u].open /\ slots[t].body = ExportBody(d)
      /\ \A v \in Slots \ {t} : Exporting(v) => slots[v].user # u
      /\ slots[t].step \in {"entry", "export", "export_wikis", "export_schema", "answered"}
      /\ slots[t].step \in {"export_wikis", "export_schema"} =>
            GoodPage(u, d, Page(slots[t].data), NextCursor(slots[t].data))
      /\ At(t, "answered") /\ slots[t].out[1].reply = "result" =>
            GoodPage(u, d, slots[t].out[1].rows, slots[t].out[1].next)
  BY <1>2 DEF Paging
<1>5. ASSUME NEW rows, NEW next, GoodPage(u, d, rows, next) PROVE GoodPage(u, d, rows, next)'
  BY <1>3, <1>5 DEF GoodPage
<1>6. \A v \in Slots \ {t} : Exporting(v)' => slots'[v].user # u
  BY <1>1, <1>3, <1>4 DEF Exporting
<1>7. u = slots'[t].user /\ d = exports'[u].cursor
  BY <1>1, <1>3
<1> QED BY <1>1, <1>3, <1>4, <1>5, <1>6, <1>7 DEF Paging, At

LEMMA ProgressKept ==
    ASSUME NEW u \in Users, Progress(u), exports'[u] = exports[u], users' \in SUBSET users,
           u \in users' => \A r \in raws : r.owner = u => r \in raws'
    PROVE  Progress(u)'
BY DEF Progress, NoneMissed, Ahead, Had

\* A step that touches no export, in a slot that does not export or goes on to.
LEMMA PlainStep ==
    ASSUME ExportInv, NEW s \in Slots, exports' = exports, users' \in SUBSET users,
           \A v \in Slots \ {s} : slots'[v] = slots[v],
           \A r \in raws : r.owner \in users' => r \in raws',
           Exporting(s)' => slots'[s].user = slots[s].user /\ slots'[s].body = slots[s].body,
           Paging(s)', Base'
    PROVE  ExportInv'
<1>1. ASSUME NEW t \in Slots \ {s} PROVE Paging(t)'
  <2>1. ASSUME Exporting(t), Exporting(s)' PROVE slots'[s].user # slots[t].user
    <3>1. Exporting(s) /\ slots'[s].user = slots[s].user
      BY <2>1 DEF Exporting
    <3>2. Paging(t)
      BY DEF ExportInv
    <3> QED BY <2>1, <3>1, <3>2 DEF Paging
  <2>2. Paging(t)
    BY DEF ExportInv
  <2> QED BY <2>1, <2>2, PagingOthers
<1>2. ASSUME NEW u \in Users PROVE Progress(u)'
  <2>1. Progress(u)
    BY DEF ExportInv
  <2> QED BY <2>1, ProgressKept
<1> QED BY <1>1, <1>2 DEF ExportInv

\* The entry of a page is at work.
LEMMA ExportEntry ==
    ASSUME ExportInv, NEW s \in Slots, Exporting(s), slots[s].step \in Running
    PROVE  /\ Len(slots[s].out) = 0 /\ slots[s].out = <<>>
           /\ Len(slots[s].body.entries) = 1
           /\ Current(s).method = "tools/call" /\ ~IsNotification(Current(s))
           /\ Current(s).tool = "export"
           /\ Arg(s).cursor = exports[slots[s].user].cursor
           /\ Arg(s).cursor.at \in Nat /\ Arg(s).cursor.id \in Nat
<1> PICK d : d = exports[slots[s].user].cursor
  OBVIOUS
<1>1. TypeOK /\ Shape(s) /\ Paging(s)
  BY DEF ExportInv, Base
<1>2. slots[s].user \in Users /\ slots[s].out \in Seq(Outcome) /\ Len(slots[s].out) \in Nat
  BY <1>1, CurrentFact
<1>3. d \in Cursor(Times, RawIds)
  BY <1>1, <1>2 DEF TypeOK, Export
<1>4. slots[s].body = ExportBody(d)
  BY <1>1 DEF Paging
<1>5. Len(slots[s].body.entries) = 1 /\ Len(slots[s].out) < 1
  <2>1. Len(ExportBody(d).entries) = 1
    BY <1>3, BodyFact
  <2>2. Len(slots[s].out) < Len(slots[s].body.entries)
    BY <1>1 DEF Shape
  <2> QED BY <1>4, <2>1, <2>2
<1>6. Len(slots[s].out) = 0 /\ slots[s].out = <<>>
  BY <1>2, <1>5
<1>7. Current(s) = ExportBody(d).entries[1]
  BY <1>4, <1>6 DEF Current
<1>8. d.at \in Nat /\ d.id \in Nat
  BY <1>3, CursorFact
<1>9. "export" # "none"
  OBVIOUS
<1>10. /\ Current(s).method = "tools/call" /\ Current(s).tool = "export"
       /\ Current(s).id = "export" /\ Current(s).args.cursor = d
  BY <1>3, <1>7, BodyFact
<1> QED BY <1>5, <1>6, <1>8, <1>9, <1>10 DEF Arg, IsNotification

\* The entry of a page ends with the page, or with a failure.
LEMMA PageConcluded ==
    ASSUME ExportInv, NEW s \in Slots, slots[s].step \in Running, UNCHANGED <<users, exports>>,
           NEW o \in Outcome, Conclude(s, o),
           Exporting(s) /\ o.reply = "result" =>
               GoodPage(slots[s].user, exports[slots[s].user].cursor, o.rows, o.next)
    PROVE  Paging(s)' /\ slots'[s].user = slots[s].user /\ slots'[s].body = slots[s].body
<1>1. TypeOK /\ Shape(s) /\ Paging(s)
  BY DEF ExportInv, Base
<1>2. /\ slots'[s].user = slots[s].user /\ slots'[s].body = slots[s].body
      /\ slots'[s].step \in {"answered", "entry"}
      /\ slots'[s].out = Append(slots[s].out, o)
      /\ \A t \in Slots \ {s} : slots'[t] = slots[t]
  BY <1>1, ConcludeIs
<1>3. ASSUME Exporting(s)' PROVE Paging(s)'
  <2> PICK u, d : u = slots[s].user /\ d = exports[u].cursor
    OBVIOUS
  <2>1. Exporting(s)
    BY <1>2, <1>3 DEF Exporting
  <2>2. slots[s].out = <<>>
    BY <2>1, ExportEntry
  <2>3. slots'[s].out[1] = o
    BY <1>2, <2>2
  <2>4. /\ exports[u].open /\ slots[s].body = ExportBody(d)
        /\ \A t \in Slots \ {s} : Exporting(t) => slots[t].user # u
    BY <1>1, <2>1 DEF Paging
  <2>5. \A t \in Slots \ {s} : Exporting(t)' => slots'[t].user # u
    BY <1>2, <2>4 DEF Exporting
  <2>6. o.reply = "result" => GoodPage(u, d, o.rows, o.next)'
    BY <2>1 DEF GoodPage
  <2>7. u = slots'[s].user /\ d = exports'[u].cursor
    BY <1>2
  <2> QED BY <1>2, <2>3, <2>4, <2>5, <2>6, <2>7 DEF Paging, At
<1>4. ~Exporting(s)' => Paging(s)'
  BY DEF Paging
<1> QED BY <1>2, <1>3, <1>4

\* The entry of a page goes on.
LEMMA PageGoes ==
    ASSUME ExportInv, NEW s \in Slots, UNCHANGED <<users, exports>>,
           NEW step, NEW data, NEW shows, Goes(s, step, data, shows),
           Exporting(s) => step \in {"entry", "export", "export_wikis", "export_schema"},
           Exporting(s) /\ step \in {"export_wikis", "export_schema"} =>
               GoodPage(slots[s].user, exports[slots[s].user].cursor, Page(data), NextCursor(data))
    PROVE  Paging(s)' /\ slots'[s].user = slots[s].user /\ slots'[s].body = slots[s].body
<1>1. Paging(s)
  BY DEF ExportInv
<1>2. /\ slots'[s].user = slots[s].user /\ slots'[s].body = slots[s].body
      /\ slots'[s].step = step /\ slots'[s].data = data
      /\ \A t \in Slots \ {s} : slots'[t] = slots[t]
  BY DEF Goes
<1>3. ASSUME Exporting(s)' PROVE Paging(s)'
  <2> PICK u, d : u = slots[s].user /\ d = exports[u].cursor
    OBVIOUS
  <2>1. Exporting(s)
    BY <1>2, <1>3 DEF Exporting
  <2>2. /\ exports[u].open /\ slots[s].body = ExportBody(d)
        /\ \A t \in Slots \ {s} : Exporting(t) => slots[t].user # u
    BY <1>1, <2>1 DEF Paging
  <2>3. \A t \in Slots \ {s} : Exporting(t)' => slots'[t].user # u
    BY <1>2, <2>2 DEF Exporting
  <2>4. step \in {"export_wikis", "export_schema"} =>
            GoodPage(u, d, Page(data), NextCursor(data))'
    BY <2>1 DEF GoodPage
  <2>5. u = slots'[s].user /\ d = exports'[u].cursor
    BY <1>2
  <2>6. ~At(s, "answered")' /\ step \in {"entry", "export", "export_wikis", "export_schema"}
    BY <1>2, <2>1 DEF At
  <2> QED BY <1>2, <2>2, <2>3, <2>4, <2>5, <2>6 DEF Paging
<1>4. ~Exporting(s)' => Paging(s)'
  BY DEF Paging
<1> QED BY <1>2, <1>3, <1>4

\* A step of a handler is about one request, and only the deletion ends it.
LEMMA SameRequest ==
    ASSUME TypeOK, NEW s \in Slots, HandlerStep(s)
    PROVE  /\ \A t \in Slots \ {s} : slots'[t] = slots[t]
           /\ ~delete_me(s) => /\ slots'[s].user = slots[s].user
                               /\ slots'[s].body = slots[s].body
                               /\ users' = users /\ raws \in SUBSET raws'
<1> DEFINE Same == /\ \A t \in Slots \ {s} : slots'[t] = slots[t]
                   /\ slots'[s].user = slots[s].user /\ slots'[s].body = slots[s].body
<1>1. slots \in [Slots -> Slot] /\ slots[s] \in Slot
  BY DEF TypeOK
<1>2. ASSUME NEW o, Conclude(s, o) PROVE Same
  BY <1>1, <1>2 DEF Conclude, Slot
<1>3. ASSUME NEW step, Goto(s, step) PROVE Same
  BY <1>1, <1>3 DEF Goto, Slot
<1>4. ASSUME NEW step, NEW data, slots' = [slots EXCEPT ![s].step = step, ![s].data = data]
      PROVE  Same
  BY <1>1, <1>4 DEF Slot
<1>5. ASSUME NEW step, NEW shows, slots' = [slots EXCEPT ![s].step = step, ![s].shows = shows]
      PROVE  Same
  BY <1>1, <1>5 DEF Slot
<1> HIDE DEF Same
<1>6. CASE (dispatch_one(s) \/ call(s) \/ Breaks(s)) /\ UNCHANGED tables
  BY <1>2, <1>3, <1>6 DEF dispatch_one, call, Breaks, Fail, Same, tables
<1>7. CASE raw_append(s)
  BY <1>4, <1>7 DEF raw_append, Same, tables
<1>8. CASE raw_append_commit(s)
  <2>1. Same
    BY <1>1, <1>8 DEF raw_append_commit, Slot, Same
  <2> QED BY <1>8, <2>1 DEF raw_append_commit, Same
<1>9. CASE raw_read(s) \/ wiki_shared(s) \/ wiki_rebuild(s) \/ schema_read(s) \/ schema_update(s)
  <2>1. Same
    BY <1>2, <1>9 DEF raw_read, wiki_shared, wiki_rebuild, schema_read, schema_update, Result, Fail
  <2>2. users' = users /\ raws' = raws
    BY <1>9 DEF raw_read, wiki_shared, wiki_rebuild, schema_read, schema_update, tables
  <2> QED BY <2>1, <2>2 DEF Same
<1>10. CASE raw_search(s) \/ raw_search_shared(s) \/ wiki_personal(s)
  <2>1. Same
    BY <1>2, <1>3, <1>5, <1>10 DEF raw_search, raw_search_shared, wiki_personal, Result
  <2>2. users' = users /\ raws' = raws
    BY <1>10 DEF raw_search, raw_search_shared, wiki_personal, tables
  <2> QED BY <2>1, <2>2 DEF Same
<1>11. CASE export(s) \/ export_wikis(s) \/ export_schema(s)
  <2>1. Same
    BY <1>2, <1>4, <1>5, <1>11 DEF export, export_wikis, export_schema, Export_
  <2>2. users' = users /\ raws' = raws
    BY <1>11 DEF export, export_wikis, export_schema, tables
  <2> QED BY <2>1, <2>2 DEF Same
<1>12. CASE delete_me(s)
  BY <1>1, <1>12 DEF delete_me
<1> QED BY <1>6, <1>7, <1>8, <1>9, <1>10, <1>11, <1>12 DEF HandlerStep

\* The query of an export leads to the right page, whoever appends meanwhile.
LEMMA FetchGood ==
    ASSUME ExportInv, NEW s \in Slots, Exporting(s), export(s)
    PROVE  LET data == Fetch({r \in raws : r.owner = Own(s)}, Arg(s).cursor)
           IN  GoodPage(slots[s].user, exports[slots[s].user].cursor, Page(data), NextCursor(data))
<1> PICK u, d : u = slots[s].user /\ d = exports[u].cursor
  OBVIOUS
<1> DEFINE mine == {r \in raws : r.owner = u}
           data == Fetch(mine, d)
<1>1. TypeOK /\ Shape(s) /\ IsFiniteSet(raws) /\ slots[s].step \in Running /\ Own(s) = u
  BY DEF ExportInv, Base, export, At, Running, Tools, Own
<1>2. u \in Users /\ Arg(s).cursor = d /\ d.at \in Nat /\ d.id \in Nat
  BY <1>1, CurrentFact, ExportEntry
<1>3. Progress(u)
  BY <1>2 DEF ExportInv
<1>4. u \in users => exports[u].due \in SUBSET mine
  BY <1>3 DEF Progress
<1>5. mine \in SUBSET raws
  OBVIOUS
<1> HIDE DEF mine
<1>6. Table(mine)
  BY <1>1, <1>5, RawsTable
<1>7. /\ Forward(Page(data), NextCursor(data), d)
      /\ Complete(Page(data), NextCursor(data), d, mine)
  BY <1>2, <1>6, PageRight
<1> HIDE DEF data
<1>8. GoodPage(u, d, Page(data), NextCursor(data))
  BY <1>4, <1>7 DEF GoodPage, Complete
<1> QED BY <1>1, <1>2, <1>8 DEF data, mine

LEMMA ExportHandler ==
    ASSUME ExportInv, NEW s \in Slots, HandlerStep(s)
    PROVE  ExportInv'
<1>1. /\ TypeOK /\ Shape(s) /\ Paging(s) /\ Base' /\ exports' = exports
      /\ \A t \in Slots \ {s} : slots'[t] = slots[t]
  BY BaseHandler, SameRequest DEF ExportInv, Base, HandlerStep
<1>2. CASE delete_me(s)
  <2>1. slots'[s] = Idle
    BY <1>1, <1>2, IdleMoves DEF delete_me
  <2>2. None \notin Exporters
    BY WikiMcpAssumption DEF Owners
  <2>3. ~Exporting(s)'
    BY <2>1, <2>2 DEF Exporting, Idle
  <2>4. users' \in SUBSET users /\ \A r \in raws : r.owner \in users' => r \in raws'
    BY <1>2 DEF delete_me
  <2>5. Paging(s)'
    BY <2>3 DEF Paging
  <2> QED BY <1>1, <2>3, <2>4, <2>5, PlainStep
<1>3. CASE ~delete_me(s)
  <2>1. /\ slots'[s].user = slots[s].user /\ slots'[s].body = slots[s].body
        /\ users' = users /\ raws \in SUBSET raws'
    BY <1>1, <1>3, SameRequest
  <2>2. Paging(s)'
    <3>1. CASE ~Exporting(s)
      <4>1. ~Exporting(s)'
        BY <2>1, <3>1 DEF Exporting
      <4> QED BY <4>1 DEF Paging
    <3>2. CASE Exporting(s)
      <4>1. slots[s].step \in {"entry", "export", "export_wikis", "export_schema", "answered"}
        BY <1>1, <3>2 DEF Paging
      <4>2. ASSUME Fail(s), slots[s].step \in Running PROVE Paging(s)'
        <5>1. Error(Current(s).id, "failed") \in Outcome
              /\ Error(Current(s).id, "failed").reply = "failed"
          BY <1>1, <4>2, CurrentFact, OutcomeFact DEF Replies
        <5>2. Conclude(s, Error(Current(s).id, "failed"))
          BY <4>2 DEF Fail
        <5> QED BY <1>1, <2>1, <4>2, <5>1, <5>2, PageConcluded
      <4>3. CASE At(s, "entry")
        <5>1. slots[s].step \in Running
          BY <4>3 DEF At, Running
        <5>2. /\ Current(s).method = "tools/call" /\ ~IsNotification(Current(s))
              /\ Current(s).tool = "export"
          BY <3>2, <5>1, ExportEntry
        <5>3. call(s)
          BY <1>3, <4>3, <5>2 DEF HandlerStep, dispatch_one, Breaks, At, raw_append,
             raw_append_commit, raw_read, raw_search, raw_search_shared, wiki_personal,
             wiki_shared, wiki_rebuild, schema_read, schema_update, export, export_wikis,
             export_schema
        <5>4. CASE Fail(s)
          BY <4>2, <5>1, <5>4
        <5>5. CASE Goto(s, "export")
          <6>1. Goes(s, "export", slots[s].data, slots[s].shows)
            BY <1>1, <5>5, GotoIs DEF Steps, Tools
          <6> QED BY <1>1, <2>1, <6>1, PageGoes
        <5>6. ASSUME NEW reply \in {"-32602", "rate_limited"},
                     Conclude(s, Error(Current(s).id, reply))
              PROVE  Paging(s)'
          <6>1. /\ Error(Current(s).id, reply) \in Outcome
                /\ Error(Current(s).id, reply).reply = reply
            BY <1>1, <5>1, CurrentFact, OutcomeFact DEF Replies
          <6> QED BY <1>1, <2>1, <5>1, <5>6, <6>1, PageConcluded
        <5> QED BY <5>2, <5>3, <5>4, <5>5, <5>6 DEF call
      <4>4. CASE At(s, "export")
        <5>1. Breaks(s) \/ export(s)
          BY <1>3, <4>4 DEF HandlerStep, dispatch_one, call, At, raw_append,
             raw_append_commit, raw_read, raw_search, raw_search_shared, wiki_personal,
             wiki_shared, wiki_rebuild, schema_read, schema_update, export_wikis,
             export_schema
        <5>2. CASE Breaks(s)
          BY <4>2, <4>4, <5>2 DEF Breaks, At, Running, Tools
        <5>3. CASE export(s)
          BY <1>1, <2>1, <3>2, <5>3, ExportMoves, FetchGood, PageGoes DEF ExportInv, Base
        <5> QED BY <5>1, <5>2, <5>3
      <4>5. CASE slots[s].step \in {"export_wikis", "export_schema"}
        <5>1. GoodPage(slots[s].user, exports[slots[s].user].cursor,
                       Page(slots[s].data), NextCursor(slots[s].data))
          BY <1>1, <3>2, <4>5 DEF Paging
        <5>2. slots[s].step \in Running
          BY <4>5 DEF Running
        <5>3. Breaks(s) \/ export_wikis(s) \/ export_schema(s)
          BY <1>3, <4>5 DEF HandlerStep, dispatch_one, call, At, raw_append,
             raw_append_commit, raw_read, raw_search, raw_search_shared, wiki_personal,
             wiki_shared, wiki_rebuild, schema_read, schema_update, export
        <5>4. CASE Breaks(s)
          BY <4>2, <5>2, <5>4 DEF Breaks
        <5>5. CASE Export_(s)
          <6>1. PICK o \in Outcome : /\ Conclude(s, o) /\ o.rows = Page(slots[s].data)
                                     /\ o.next = NextCursor(slots[s].data)
            BY <1>1, <4>5, <5>5, PageMoves
          <6> QED BY <1>1, <2>1, <5>1, <5>2, <6>1, PageConcluded
        <5>6. CASE export_wikis(s) /\ ~Export_(s)
          <6>1. PICK shows : Goes(s, "export_schema", slots[s].data, shows)
            BY <1>1, <5>6, WikisMoves
          <6> QED BY <1>1, <2>1, <5>1, <6>1, PageGoes
        <5> QED BY <5>3, <5>4, <5>5, <5>6 DEF export_schema
      <4>6. CASE At(s, "answered")
        BY <1>3, <4>6 DEF HandlerStep, dispatch_one, call, Breaks, At, raw_append,
             raw_append_commit, raw_read, raw_search, raw_search_shared, wiki_personal,
             wiki_shared, wiki_rebuild, schema_read, schema_update, export, export_wikis,
             export_schema
      <4> QED BY <4>1, <4>3, <4>4, <4>5, <4>6 DEF At
    <3> QED BY <3>1, <3>2
  <2> QED BY <1>1, <2>1, <2>2, PlainStep
<1> QED BY <1>2, <1>3

LEMMA ExportInit == Init => ExportInv
<1> SUFFICES ASSUME Init PROVE ExportInv
  OBVIOUS
<1>1. None \notin Exporters
  BY WikiMcpAssumption DEF Owners
<1>2. \A s \in Slots : slots[s] = Idle
  BY DEF Init
<1>3. \A s \in Slots : Paging(s)
  BY <1>1, <1>2 DEF Paging, Exporting, Idle
<1>4. ASSUME NEW u \in Users PROVE Progress(u)
  <2>1. exports[u] = NoExport
    BY DEF Init
  <2>2. /\ exports[u].pages = <<>> /\ ~exports[u].open /\ ~exports[u].done /\ exports[u].due = {}
    BY <2>1 DEF NoExport
  <2>3. DOMAIN exports[u].pages = {}
    BY <2>2
  <2> QED BY <2>2, <2>3 DEF Progress, Ahead, NoneMissed
<1> QED BY <1>3, <1>4, BaseInit DEF ExportInv

\* The client of u asks for the page at d, which nobody has asked for yet.
LEMMA AskFact ==
    ASSUME ExportInv, NEW s \in Slots, NEW u \in Exporters, NEW d \in Cursor(Times, RawIds),
           handle(s, u, ExportBody(d)), users' = users, raws' = raws, Base',
           \A v \in Users \ {u} : exports'[v] = exports[v],
           exports'[u].open, exports'[u].cursor = d, Progress(u)',
           \A t \in Slots \ {s} : Exporting(t) => slots[t].user # u
    PROVE  ExportInv'
<1>1. u \in Users /\ TypeOK
  BY WikiMcpAssumption DEF ExportInv, Base
<1>2. ExportBody(d) \in Body /\ Whole(ExportBody(d))
  BY BodyFact DEF Whole
<1>3. /\ Moves(s) /\ slots'[s].user = u /\ slots'[s].body = ExportBody(d)
      /\ slots'[s].step = "entry"
  BY <1>1, <1>2, HandleMoves
<1>4. \A t \in Slots \ {s} : slots'[t] = slots[t]
  BY <1>3 DEF Moves, Moved
<1>5. Paging(s)'
  <2>1. \A t \in Slots \ {s} : Exporting(t)' => slots'[t].user # u
    BY <1>4 DEF Exporting
  <2> QED BY <1>3, <2>1 DEF Paging, At
<1>6. ASSUME NEW t \in Slots \ {s} PROVE Paging(t)'
  <2>1. Exporting(t) => slots[t].user \in Users \ {u}
    BY WikiMcpAssumption DEF Exporting
  <2>2. Paging(t)
    BY DEF ExportInv
  <2> QED BY <1>3, <1>4, <2>1, <2>2, PagingOthers
<1>7. ASSUME NEW v \in Users PROVE Progress(v)'
  <2>1. Progress(v)
    BY DEF ExportInv
  <2>2. CASE v # u
    BY <2>1, <2>2, ProgressKept
  <2> QED BY <2>2
<1> QED BY <1>5, <1>6, <1>7 DEF ExportInv

LEMMA ExportBegin ==
    ASSUME ExportInv, NEW s \in Slots, NEW u \in Users, NEW c,
           c = NoCursor \/ (\E r \in raws : c = Legacy(r.at)), BeginExport(s, u, c), Base'
    PROVE  ExportInv' /\ exports'[u].pages = <<>> /\ \A v \in Users \ {u} : exports'[v] = exports[v]
<1> DEFINE due == {r \in raws : r.owner = u /\ r.at >= c.at}
           x == [NoExport EXCEPT !.open = TRUE, !.from = c, !.cursor = c, !.due = due]
<1>1. /\ Base /\ TypeOK /\ exports \in [Users -> Export]
  BY DEF ExportInv, Base, TypeOK
<1>2. /\ u \in Exporters /\ ~exports[u].open /\ ~exports[u].done
      /\ exports' = [exports EXCEPT ![u] = x] /\ UNCHANGED <<tables, now>>
  BY DEF BeginExport
<1>3. c \in Cursor(Times, RawIds) /\ handle(s, u, ExportBody(c))
  BY <1>1, BeginFact
<1>4. /\ x.open /\ ~x.done /\ x.cursor = c /\ x.due = due /\ x.pages = <<>>
  BY DEF NoExport
<1>5. c.id = 0 /\ c.at \in Nat
  BY <1>3, CursorFact DEF NoCursor, Legacy
<1>6. \A r \in due : r.owner = u /\ r \in raws /\ After(r, c)
  <2> SUFFICES ASSUME NEW r \in due PROVE r.owner = u /\ r \in raws /\ After(r, c)
    OBVIOUS
  <2>1. r.at \in Nat /\ r.id \in Nat /\ r.id > 0
    BY <1>1, TimesFact DEF TypeOK, Raw
  <2> QED BY <1>5, <2>1 DEF After
<1> HIDE DEF due
<1>7. Had(x) = {} /\ DOMAIN x.pages = {}
  BY <1>4 DEF Had
<1> HIDE DEF x
<1>8. exports'[u] = x /\ \A v \in Users \ {u} : exports'[v] = exports[v]
  BY <1>1, <1>2
<1>9. Progress(u)'
  <2>1. Ahead(x) /\ NoneMissed(x)
    BY <1>4, <1>6, <1>7 DEF Ahead, NoneMissed
  <2>2. users' = users /\ raws' = raws
    BY <1>2 DEF tables
  <2>3. u \in Exporters /\ x.open /\ \A r \in x.due : r \in raws /\ r.owner = u
    BY <1>2, <1>4, <1>6
  <2>4. Ahead(exports'[u]) /\ NoneMissed(exports'[u])
    BY <1>8, <2>1
  <2> QED BY <1>8, <2>2, <2>3, <2>4 DEF Progress, Ahead, NoneMissed, Had
<1>10. \A t \in Slots \ {s} : Exporting(t) => slots[t].user # u
  BY <1>2 DEF ExportInv, Paging
<1>11. ExportInv'
  BY <1>2, <1>3, <1>4, <1>8, <1>9, <1>10, AskFact DEF tables
<1> QED BY <1>4, <1>8, <1>11

LEMMA ExportAsk ==
    ASSUME ExportInv, NEW s \in Slots, NEW u \in Users, AskPage(s, u), Base'
    PROVE  ExportInv'
<1> PICK d : d = exports[u].cursor
  OBVIOUS
<1>1. /\ exports[u].open /\ handle(s, u, ExportBody(d)) /\ UNCHANGED <<tables, now, exports>>
      /\ \A t \in Slots : slots[t].user = u => slots[t].body # ExportBody(d)
  BY DEF AskPage
<1>2. Progress(u) /\ exports[u] \in Export
  BY DEF ExportInv, Base, TypeOK
<1>3. u \in Exporters /\ d \in Cursor(Times, RawIds)
  BY <1>1, <1>2 DEF Progress, Export
<1>4. users' = users /\ raws' = raws /\ exports' = exports
  BY <1>1 DEF tables
<1>5. Progress(u)'
  BY <1>2, <1>4, ProgressKept
<1>6. ASSUME NEW t \in Slots \ {s}, Exporting(t) PROVE slots[t].user # u
  <2>1. slots[t].body = ExportBody(exports[slots[t].user].cursor)
    BY <1>6 DEF ExportInv, Paging
  <2> QED BY <1>1, <2>1
<1> QED BY <1>1, <1>3, <1>4, <1>5, <1>6, AskFact

\* A response that the client was waiting for takes its export a page further.
LEMMA ExportDeliver ==
    ASSUME ExportInv, NEW s \in Slots, Deliver(s), Base'
    PROVE  /\ ExportInv'
           /\ \A v \in Users : exports'[v].pages # exports[v].pages /\ exports'[v].open =>
                  After(exports'[v].cursor, exports[v].cursor)
<1> PICK u, d, o : u = slots[s].user /\ d = exports[u].cursor /\ o = slots[s].out[1]
  OBVIOUS
<1>1. /\ TypeOK /\ Shape(s) /\ Paging(s) /\ At(s, "answered") /\ slots[s] \in Slot
      /\ exports \in [Users -> Export]
  BY DEF Deliver, ExportInv, Base, TypeOK
<1>2. slots'[s] = Idle /\ \A t \in Slots \ {s} : slots'[t] = slots[t]
  BY <1>1, IdleMoves DEF Deliver, Moves, Moved
<1>3. ~Exporting(s)'
  BY <1>2, WikiMcpAssumption DEF Exporting, Idle, Owners
<1>4. Paging(s)'
  BY <1>3 DEF Paging
<1>5. users' = users /\ raws' = raws
  BY DEF Deliver, tables
<1>6. u \in Users /\ o \in Outcome
  <2>1. slots[s].out \in Seq(Outcome) /\ Len(slots[s].out) >= 1
    BY <1>1 DEF Slot, Shape
  <2>2. 1 \in 1..Len(slots[s].out)
    BY <2>1
  <2> QED BY <1>1, <2>1, <2>2 DEF Shape, At
<1>7. CASE exports' = exports
  BY <1>2, <1>3, <1>4, <1>5, <1>7, PlainStep
<1>8. CASE exports' # exports
  <2>1. /\ exports[u].open /\ slots[s].body = ExportBody(d)
        /\ exports' = [exports EXCEPT ![u] = Received(exports[u], o)]
    BY <1>8 DEF Deliver
  <2>2. o.reply = "result"
    <3>1. o.reply # "result" => Received(exports[u], o) = exports[u]
      BY DEF Received
    <3> QED BY <1>1, <1>8, <2>1, <3>1
  <2>3. Progress(u) /\ exports[u] \in Export
    BY <1>1, <1>6 DEF ExportInv
  <2>4. u \in Exporters /\ d \in Cursor(Times, RawIds)
    BY <2>1, <2>3 DEF Progress, Export
  <2>5. Exporting(s)
    BY <2>1, <2>4 DEF Exporting
  <2>6. /\ GoodPage(u, d, o.rows, o.next)
        /\ \A t \in Slots \ {s} : Exporting(t) => slots[t].user # u
    BY <1>1, <2>2, <2>5 DEF Paging
  <2> DEFINE x == exports[u]
             y == Received(x, o)
  <2>7. /\ Ahead(y) /\ y.due = x.due /\ (y.open \/ y.done)
        /\ y.open => After(y.cursor, x.cursor)
        /\ NoneMissed(x) /\ Complete(o.rows, o.next, d, x.due) => NoneMissed(y)
    BY <1>6, <2>1, <2>2, <2>3, <2>6, ReceivedFact DEF Progress, GoodPage
  <2> HIDE DEF y
  <2>8. exports'[u] = y /\ \A v \in Users \ {u} : exports'[v] = exports[v]
    BY <1>1, <1>6, <2>1 DEF y
  <2>9. Progress(u)'
    <3>1. u \in users => NoneMissed(y)
      BY <2>3, <2>6, <2>7 DEF Progress, GoodPage
    <3>2. u \in users => \A r \in y.due : r \in raws /\ r.owner = u
      BY <2>3, <2>7 DEF Progress
    <3> QED BY <1>5, <2>4, <2>7, <2>8, <3>1, <3>2 DEF Progress, Ahead, NoneMissed, Had
  <2>10. ASSUME NEW v \in Users PROVE Progress(v)'
    <3>1. CASE v # u
      BY <1>5, <2>8, <3>1, ProgressKept DEF ExportInv
    <3> QED BY <2>9, <3>1
  <2>11. ASSUME NEW t \in Slots \ {s} PROVE Paging(t)'
    <3>1. Exporting(t) => exports'[slots[t].user] = exports[slots[t].user]
      BY <2>6, <2>8, WikiMcpAssumption DEF Exporting
    <3>2. Paging(t)
      BY DEF ExportInv
    <3> QED BY <1>2, <1>3, <1>5, <3>1, <3>2, PagingOthers
  <2>12. ExportInv'
    BY <1>4, <2>10, <2>11 DEF ExportInv
  <2> QED BY <2>7, <2>8, <2>12
<1> QED BY <1>7, <1>8
Advances ==
    \A u \in Users : exports'[u].pages # exports[u].pages /\ exports'[u].open =>
        After(exports'[u].cursor, exports[u].cursor)

LEMMA ExportStep == ExportInv /\ [Next]_vars => ExportInv' /\ Advances
<1> SUFFICES ASSUME ExportInv, [Next]_vars PROVE ExportInv' /\ Advances
  OBVIOUS
<1>1. /\ Base /\ Base' /\ TypeOK
      /\ \A s \in Slots : Shape(s) /\ Paging(s)
  BY BaseStep DEF ExportInv, Base
<1>2. ASSUME exports' = exports PROVE Advances
  BY <1>2 DEF Advances
<1>3. ASSUME NEW s \in Slots, Moves(s), UNCHANGED <<tables, now, exports>>, ~Exporting(s)'
      PROVE  ExportInv' /\ Advances
  <2>1. users' = users /\ raws' = raws /\ exports' = exports
    BY <1>3 DEF tables
  <2>2. Paging(s)'
    BY <1>3 DEF Paging
  <2>3. \A t \in Slots \ {s} : slots'[t] = slots[t]
    BY <1>3 DEF Moves, Moved
  <2> QED BY <1>1, <1>2, <1>3, <2>1, <2>2, <2>3, PlainStep
<1>4. ASSUME NEW s \in Slots, Post(s) PROVE ExportInv' /\ Advances
  <2>1. PICK q \in Requests : handle(s, q[1], q[2]) /\ UNCHANGED <<tables, now, exports>>
    BY <1>4 DEF Post
  <2>2. q[1] \in Users /\ q[2] \in Body /\ q = <<q[1], q[2]>>
    BY WikiMcpAssumption
  <2>3. Moves(s) /\ slots'[s].user = q[1] /\ slots'[s].body = q[2]
    BY <1>1, <2>1, <2>2, HandleMoves
  <2>4. ~Exporting(s)'
    BY <2>2, <2>3, RequestsAssumption DEF Exporting
  <2> QED BY <1>3, <2>1, <2>3, <2>4
<1>5. ASSUME NEW s \in Slots, HandlerStep(s) PROVE ExportInv' /\ Advances
  BY <1>2, <1>5, ExportHandler DEF HandlerStep
<1>6. ASSUME NEW s \in Slots, Deliver(s) PROVE ExportInv' /\ Advances
  BY <1>1, <1>6, ExportDeliver DEF Advances
<1>7. ASSUME NEW s \in Slots, Abandon(s) PROVE ExportInv' /\ Advances
  <2>1. Moves(s) /\ slots'[s] = Idle
    BY <1>1, <1>7, IdleMoves DEF Abandon
  <2>2. ~Exporting(s)'
    BY <2>1, WikiMcpAssumption DEF Exporting, Idle, Owners
  <2> QED BY <1>3, <1>7, <2>1, <2>2 DEF Abandon
<1>8. ASSUME NEW s \in Slots, NEW u \in Users, AskPage(s, u) PROVE ExportInv' /\ Advances
  BY <1>1, <1>2, <1>8, ExportAsk DEF AskPage
<1>9. ASSUME NEW s \in Slots, NEW u \in Users, AskDelete(s, u) PROVE ExportInv' /\ Advances
  <2>1. Moves(s) /\ slots'[s].body = None
    BY <1>1, <1>9, AuthMoves DEF AskDelete
  <2>2. ~Exporting(s)'
    BY <2>1, WikiMcpAssumption, BodyFact DEF Exporting
  <2> QED BY <1>3, <1>9, <2>1, <2>2 DEF AskDelete
<1>10. ASSUME NEW s \in Slots, NEW u \in Users, NEW c,
              c = NoCursor \/ (\E r \in raws : c = Legacy(r.at)), BeginExport(s, u, c)
       PROVE  ExportInv' /\ Advances
  <2>1. ExportInv' /\ exports'[u].pages = <<>> /\ \A v \in Users \ {u} : exports'[v] = exports[v]
    BY <1>1, <1>10, ExportBegin
  <2>2. exports[u].pages = <<>>
    BY <1>10 DEF BeginExport, ExportInv, Progress
  <2> QED BY <2>1, <2>2 DEF Advances
<1>11. ASSUME UNCHANGED <<users, raws, slots, exports>> PROVE ExportInv' /\ Advances
  <2>1. \A s \in Slots : Paging(s)'
    BY <1>1, <1>11 DEF Paging, Exporting, GoodPage, At
  <2>2. \A u \in Users : Progress(u)'
    BY <1>11, ProgressKept DEF ExportInv
  <2> QED BY <1>1, <1>2, <1>11, <2>1, <2>2 DEF ExportInv
<1>12. CASE \/ \E u \in Users, c \in Concepts : WorkerWrites(u, c)
            \/ Tick
            \/ UNCHANGED vars
  BY <1>11, <1>12 DEF WorkerWrites, Tick, vars, tables
<1> QED
  <2>1. CASE \E s \in Slots :
                \/ Post(s) \/ HandlerStep(s) \/ Deliver(s) \/ Abandon(s)
                \/ \E u \in Users : AskPage(s, u) \/ AskDelete(s, u)
    BY <1>4, <1>5, <1>6, <1>7, <1>8, <1>9, <2>1
  <2>2. CASE \E s \in Slots, u \in Users :
                \/ BeginExport(s, u, NoCursor)
                \/ \E r \in raws : r.owner = u /\ BeginExport(s, u, Legacy(r.at))
    BY <1>10, <2>2
  <2> QED BY <1>12, <2>1, <2>2 DEF Next

\* A finished export of an account that still exists holds every raw that was
\* there when it began, and none twice: the order (created_at, id) and the pair
\* in the cursor leave nothing between two pages (call of export.rs), whatever
\* is appended, deleted, refused or lost on the way.
THEOREM NothingLeftOut == Spec => []ExportComplete
<1>1. ExportInv => ExportComplete
  <2> SUFFICES ASSUME ExportInv PROVE ExportComplete
    OBVIOUS
  <2>1. \A u \in users : u \in Users /\ Progress(u)
    BY DEF ExportInv, Base, TypeOK
  <2> QED BY <2>1 DEF ExportComplete, Progress, Ahead, NoneMissed, Had
<1> QED BY <1>1, ExportInit, ExportStep, PTL DEF Spec

\* A page that has a successor moves the cursor forward: even a row that is too
\* large for any page goes out alone, so that no export goes round in circles.
THEOREM CursorMovesOn == Spec => ExportAdvances
<1>1. ExportInv /\ [Next]_vars => [Advances]_vars
  BY ExportStep
<1>2. Spec => [][Advances]_vars
  BY <1>1, ExportInit, ExportStep, PTL DEF Spec
<1> QED BY <1>2 DEF ExportAdvances, Advances

-----------------------------------------------------------------------------
(* What a batch has stored and what its responses say                      *)

Appending == {"raw_append", "raw_append_commit"}

\* The outcomes so far are the owed ones, and the rows stored are those reported.
Kept(s) ==
    IF Whole(slots[s].body)
    THEN /\ \A i \in DOMAIN slots[s].out : Owed(slots[s].body.entries[i], slots[s].out[i])
         /\ slots[s].wrote = Reported(s)
    ELSE Len(slots[s].out) = 1 /\ slots[s].out[1].id = "null" /\ slots[s].wrote = {}

\* Only an entry with an id runs a tool, and only that of raw_append stores a row.
Told(s) ==
    /\ slots[s].step \in Running =>
          /\ Whole(slots[s].body)
          /\ ~At(s, "entry") => Current(s).method # "malformed" /\ Current(s).id # "none"
          /\ slots[s].step \in Appending <=> ~At(s, "entry") /\ Current(s).tool = "raw_append"
    /\ slots[s].step \in Running \cup {"answered"} => Kept(s)
    /\ At(s, "answered") /\ Whole(slots[s].body) =>
          Len(slots[s].out) = Len(slots[s].body.entries)

\* The request goes on within its entry.
Stays(s, step) ==
    /\ slots'[s].step = step /\ slots'[s].body = slots[s].body
    /\ slots'[s].out = slots[s].out /\ slots'[s].wrote = slots[s].wrote

LEMMA ToldStays ==
    ASSUME NEW s \in Slots, Told(s), slots[s].step \in Running,
           NEW step \in Running \ {"entry"}, Stays(s, step),
           Current(s).method # "malformed", Current(s).id # "none",
           step \in Appending <=> Current(s).tool = "raw_append"
    PROVE  Told(s)'
<1>1. Current(s)' = Current(s)
  BY DEF Stays, Current
<1>2. Kept(s) /\ Whole(slots[s].body)
  BY DEF Told
<1>3. Kept(s)' /\ Whole(slots[s].body)'
  BY <1>2 DEF Stays, Kept, Reported, Whole
<1>4. ~At(s, "entry")' /\ ~At(s, "answered")'
  BY DEF Stays, At, Running, Tools
<1> QED BY <1>1, <1>3, <1>4 DEF Told, Stays

\* The end of an entry: its outcome is the owed one and names what it has stored.
LEMMA ToldConcluded ==
    ASSUME TypeOK, NEW s \in Slots, Shape(s), Told(s), slots[s].step \in Running,
           NEW o, Owed(Current(s), o),
           slots'[s].step = IF Len(slots[s].out) + 1 = Len(slots[s].body.entries)
                              THEN "answered" ELSE "entry",
           slots'[s].body = slots[s].body, slots'[s].out = Append(slots[s].out, o),
           slots'[s].wrote = slots[s].wrote \cup
               {r.id : r \in IF Current(s).tool = "raw_append" THEN o.rows ELSE {}}
    PROVE  Told(s)'
<1> PICK n, b : n = Len(slots[s].out) /\ b = slots[s].body
  OBVIOUS
<1>1. /\ n \in Nat /\ slots[s].out \in Seq(Outcome) /\ DOMAIN slots[s].out = 1..n
      /\ Len(b.entries) \in Nat /\ Whole(b) /\ Kept(s) /\ Current(s) = b.entries[n + 1]
  BY SMTT(20), CurrentFact DEF Told, Current
<1>2. /\ slots'[s].body = b /\ Len(slots'[s].out) = n + 1 /\ DOMAIN slots'[s].out = 1..(n + 1)
      /\ slots'[s].out[n + 1] = o /\ \A i \in 1..n : slots'[s].out[i] = slots[s].out[i]
      /\ \A i \in 1..(n + 1) : i \in 1..n \/ i = n + 1
      /\ n + 1 \in 1..(n + 1) /\ \A i \in 1..n : i \in 1..(n + 1)
  <2> DEFINE out == slots[s].out
  <2>1. out \in Seq(Outcome) /\ Len(out) = n /\ n \in Nat
    BY <1>1
  <2> HIDE DEF out
  <2>2. /\ Len(Append(out, o)) = n + 1 /\ DOMAIN Append(out, o) = 1..(n + 1)
        /\ Append(out, o)[n + 1] = o /\ \A i \in 1..n : Append(out, o)[i] = out[i]
    BY <2>1
  <2>3. /\ \A i \in 1..(n + 1) : i \in 1..n \/ i = n + 1
        /\ n + 1 \in 1..(n + 1) /\ \A i \in 1..n : i \in 1..(n + 1)
    BY <2>1
  <2> QED BY <2>2, <2>3 DEF out
<1>3. \A i \in DOMAIN slots'[s].out : Owed(b.entries[i], slots'[s].out[i])
  BY <1>1, <1>2 DEF Kept
<1>4. slots'[s].wrote = Reported(s)'
  <2>1. slots[s].wrote = Reported(s)
    BY <1>1 DEF Kept
  <2>2. ASSUME NEW i
        PROVE  i \in Reported(s)' <=>
                  \/ i \in Reported(s)
                  \/ b.entries[n + 1].tool = "raw_append" /\ \E r \in o.rows : i = r.id
    <3>1. i \in Reported(s)' <=>
             \E j \in 1..(n + 1) : /\ b.entries[j].tool = "raw_append"
                                   /\ \E r \in slots'[s].out[j].rows : i = r.id
      BY SMTT(20), <1>2 DEF Reported
    <3>2. i \in Reported(s) <=>
             \E j \in 1..n : /\ b.entries[j].tool = "raw_append"
                             /\ \E r \in slots[s].out[j].rows : i = r.id
      BY <1>1 DEF Reported
    <3> QED BY <1>2, <3>1, <3>2
  <2>3. ASSUME NEW i
        PROVE  i \in slots'[s].wrote <=>
                  \/ i \in Reported(s)
                  \/ b.entries[n + 1].tool = "raw_append" /\ \E r \in o.rows : i = r.id
    BY <1>1, <2>1
  <2> QED BY <2>2, <2>3
<1>5. Kept(s)' /\ Whole(slots[s].body)'
  BY <1>1, <1>2, <1>3, <1>4 DEF Kept
<1>6. At(s, "answered")' => Len(slots'[s].out) = Len(slots'[s].body.entries)
  BY <1>2 DEF At
<1>7. /\ At(s, "answered")' \/ At(s, "entry")'
      /\ slots'[s].step \in Running => At(s, "entry")'
      /\ slots'[s].step \notin Appending
  BY DEF At, Running, Tools, Appending
<1> QED BY <1>5, <1>6, <1>7 DEF Told

\* An entry that ends without rows.
LEMMA ToldOutcome ==
    ASSUME TypeOK, NEW s \in Slots, Shape(s), Told(s), slots[s].step \in Running,
           NEW o, Conclude(s, o), Owed(Current(s), o),
           Current(s).tool = "raw_append" => o.rows = {}
    PROVE  Told(s)'
<1>1. /\ slots'[s].step = IF Len(slots[s].out) + 1 = Len(slots[s].body.entries)
                            THEN "answered" ELSE "entry"
      /\ slots'[s].body = slots[s].body /\ slots'[s].out = Append(slots[s].out, o)
      /\ slots'[s].wrote = slots[s].wrote
  BY DEF Conclude, TypeOK, Slot
<1>2. slots'[s].wrote = slots[s].wrote \cup
          {r.id : r \in IF Current(s).tool = "raw_append" THEN o.rows ELSE {}}
  BY <1>1
<1> QED BY <1>1, <1>2, ToldConcluded

LEMMA ToldError ==
    ASSUME TypeOK, NEW s \in Slots, Shape(s), Told(s), slots[s].step \in Running,
           Current(s).method # "malformed", Current(s).id # "none", NEW reply \in Replies,
           Conclude(s, Error(Current(s).id, reply))
    PROVE  Told(s)'
<1>1. /\ Error(Current(s).id, reply) \in Outcome
      /\ Error(Current(s).id, reply).id = Current(s).id
      /\ Error(Current(s).id, reply).rows = {}
  BY CurrentFact, OutcomeFact
<1>2. Owed(Current(s), Error(Current(s).id, reply))
  BY <1>1 DEF Owed
<1> QED BY <1>1, <1>2, ToldOutcome

LEMMA ToldResult ==
    ASSUME TypeOK, NEW s \in Slots, Shape(s), Told(s), slots[s].step \in Running,
           Current(s).method # "malformed", Current(s).id # "none",
           NEW shows, Result(s, shows)
    PROVE  Told(s)'
<1> DEFINE o == [Error(Current(s).id, "result") EXCEPT !.shows = shows]
<1>1. /\ Error(Current(s).id, "result") \in Outcome
      /\ Error(Current(s).id, "result").id = Current(s).id
      /\ Error(Current(s).id, "result").rows = {}
  BY CurrentFact, OutcomeFact DEF Replies
<1>2. o.id = Current(s).id /\ o.rows = {}
  BY <1>1 DEF Outcome
<1>3. Conclude(s, o)
  BY DEF Result
<1> HIDE DEF o
<1>4. Owed(Current(s), o)
  BY <1>2 DEF Owed
<1> QED BY <1>2, <1>3, <1>4, ToldOutcome

LEMMA ToldHandler ==
    ASSUME Base, NEW s \in Slots, Told(s), HandlerStep(s)
    PROVE  Told(s)'
<1>1. TypeOK /\ Shape(s) /\ IsFiniteSet(raws) /\ slots \in [Slots -> Slot] /\ slots[s] \in Slot
  BY DEF Base, TypeOK
<1>2. ASSUME slots[s].step \in Running, ~At(s, "entry")
      PROVE  /\ Current(s).method # "malformed" /\ Current(s).id # "none"
             /\ slots[s].step \in Appending <=> Current(s).tool = "raw_append"
  BY <1>2 DEF Told
<1>3. ASSUME slots[s].step \in Running, ~At(s, "entry"), Fail(s) PROVE Told(s)'
  BY <1>1, <1>2, <1>3, ToldError DEF Fail, Replies
<1>4. ASSUME slots[s].step \in Running, ~At(s, "entry"), NEW shows, Result(s, shows) PROVE Told(s)'
  BY <1>1, <1>2, <1>4, ToldResult
<1>5. ASSUME slots[s].step \in Running, ~At(s, "entry"), NEW step \in Running \ {"entry"},
             Stays(s, step), step \in Appending <=> slots[s].step \in Appending
      PROVE  Told(s)'
  BY <1>2, <1>5, ToldStays
<1>6. ASSUME NEW step, Goto(s, step) PROVE Stays(s, step)
  BY <1>1, <1>6 DEF Goto, Stays, Slot
<1>7. ASSUME NEW step, NEW shows, slots' = [slots EXCEPT ![s].step = step, ![s].shows = shows]
      PROVE  Stays(s, step)
  BY <1>1, <1>7 DEF Stays, Slot
<1>8. ASSUME NEW step, NEW data, NEW shows, Goes(s, step, data, shows) PROVE Stays(s, step)
  BY <1>8 DEF Goes, Stays
<1>9. CASE dispatch_one(s)
  <2>1. slots[s].step \in Running /\ Current(s).id \in Ids
    BY <1>1, <1>9, CurrentFact DEF dispatch_one, At, Running
  <2>2. ASSUME Current(s).method = "malformed", Conclude(s, Error("null", "-32600"))
        PROVE  Told(s)'
    <3>1. Error("null", "-32600").id = "null" /\ Error("null", "-32600").rows = {}
      BY DEF Error
    <3>2. Owed(Current(s), Error("null", "-32600"))
      BY <2>2, <3>1 DEF Owed
    <3> QED BY <1>1, <2>1, <2>2, <3>1, <3>2, ToldOutcome
  <2>3. ASSUME Current(s).method # "malformed", Current(s).id = "none", Conclude(s, Notification)
        PROVE  Told(s)'
    <3>1. Notification.rows = {}
      BY DEF Error, Notification
    <3>2. Owed(Current(s), Notification)
      BY <2>3 DEF Owed
    <3> QED BY <1>1, <2>1, <2>3, <3>1, <3>2, ToldOutcome
  <2>4. ASSUME Current(s).method # "malformed", Current(s).id # "none",
               Conclude(s, Error(Current(s).id, DispatchReply(Current(s))))
        PROVE  Told(s)'
    <3>1. DispatchReply(Current(s)) \in Replies
      BY DEF DispatchReply, Replies
    <3> QED BY <1>1, <2>1, <2>4, <3>1, ToldError
  <2> QED BY <1>9, <2>2, <2>3, <2>4 DEF dispatch_one, IsNotification
<1>10. CASE call(s)
  <2>1. /\ slots[s].step \in Running /\ Current(s) \in JsonRpcRequest
        /\ Current(s).method # "malformed" /\ Current(s).id # "none"
    BY <1>1, <1>10, CurrentFact DEF call, At, Running, IsNotification
  <2>2. ASSUME NEW reply \in {"-32602", "rate_limited", "failed"},
               Conclude(s, Error(Current(s).id, reply))
        PROVE  Told(s)'
    <3>1. reply \in Replies
      BY DEF Replies
    <3> QED BY <1>1, <2>1, <2>2, <3>1, ToldError
  <2>3. ASSUME Current(s).tool # None, Goto(s, Current(s).tool) PROVE Told(s)'
    <3>1. Current(s).tool \in Tools
      BY <2>1, <2>3 DEF JsonRpcRequest
    <3>2. /\ Current(s).tool \in Running \ {"entry"}
          /\ Current(s).tool \in Appending <=> Current(s).tool = "raw_append"
      BY <3>1 DEF Running, Tools, Appending
    <3>3. Stays(s, Current(s).tool)
      BY <1>6, <2>3
    <3> QED BY <2>1, <3>2, <3>3, ToldStays
  <2> QED BY <1>10, <2>2, <2>3 DEF call, Fail
<1>11. CASE Breaks(s)
  <2>1. slots[s].step \in Running /\ ~At(s, "entry") /\ Fail(s)
    BY <1>1, <1>11 DEF Breaks, Slot, Steps, Running, At
  <2> QED BY <1>3, <2>1
<1>12. CASE raw_append(s)
  <2>1. \E data : Goes(s, "raw_append_commit", data, slots[s].shows)
    BY <1>1, <1>12, AppendMoves
  <2>2. Stays(s, "raw_append_commit")
    BY <1>8, <2>1
  <2> QED BY <1>5, <1>12, <2>2 DEF raw_append, At, Running, Tools, Appending
<1>13. CASE raw_append_commit(s)
  <2>1. slots[s].step \in Running /\ ~At(s, "entry") /\ slots[s].step \in Appending
    BY <1>13 DEF raw_append_commit, At, Running, Appending
  <2>2. /\ Current(s).tool = "raw_append" /\ Current(s).method # "malformed"
        /\ Current(s).id # "none"
    BY <1>2, <2>1
  <2>3. PICK o \in Outcome :
           /\ o.id = Current(s).id /\ o.rows = slots[s].data
           /\ slots'[s].step = IF Len(slots[s].out) + 1 = Len(slots[s].body.entries)
                                 THEN "answered" ELSE "entry"
           /\ slots'[s].body = slots[s].body
           /\ slots'[s].out = Append(slots[s].out, o)
           /\ slots'[s].wrote = slots[s].wrote \cup {r.id : r \in o.rows}
    BY <1>1, <1>13, CommitMoves
  <2>4. Owed(Current(s), o)
    BY <2>2, <2>3 DEF Owed
  <2>5. slots'[s].wrote = slots[s].wrote \cup
            {r.id : r \in IF Current(s).tool = "raw_append" THEN o.rows ELSE {}}
    BY <2>2, <2>3
  <2> QED BY <1>1, <2>1, <2>3, <2>4, <2>5, ToldConcluded
<1>14. CASE raw_read(s) \/ raw_search(s) \/ raw_search_shared(s)
  <2>1. slots[s].step \in Running /\ ~At(s, "entry") /\ slots[s].step \notin Appending
    BY <1>14 DEF raw_read, raw_search, raw_search_shared, At, Running, Tools, Appending
  <2>2. Stays(s, "raw_search_shared") => Told(s)'
    BY <1>5, <2>1 DEF Running, Appending
  <2> QED BY <1>3, <1>4, <1>6, <1>7, <1>14, <2>1, <2>2 DEF raw_read, raw_search, raw_search_shared
<1>15. CASE wiki_personal(s) \/ wiki_shared(s) \/ wiki_rebuild(s) \/ schema_read(s) \/ schema_update(s)
  <2>1. slots[s].step \in Running /\ ~At(s, "entry") /\ slots[s].step \notin Appending
    BY <1>15 DEF wiki_personal, wiki_shared, wiki_rebuild, schema_read, schema_update,
       At, Running, Tools, Appending
  <2>2. Stays(s, "wiki_shared") => Told(s)'
    BY <1>5, <2>1 DEF Running, Appending
  <2> QED BY <1>4, <1>7, <1>15, <2>1, <2>2 DEF wiki_personal, wiki_shared, wiki_rebuild,
      schema_read, schema_update
<1>16. CASE export(s) \/ export_wikis(s) \/ export_schema(s)
  <2>1. /\ slots[s].step \in Running /\ ~At(s, "entry") /\ slots[s].step \notin Appending
        /\ Current(s).tool # "raw_append"
    BY <1>2, <1>16 DEF export, export_wikis, export_schema, At, Running, Tools, Appending
  <2>2. ASSUME NEW step \in {"export_wikis", "export_schema"}, Stays(s, step) PROVE Told(s)'
    BY <1>5, <2>1, <2>2 DEF Running, Appending
  <2>3. CASE export(s)
    BY <1>1, <1>8, <2>2, <2>3, ExportMoves
  <2>4. CASE Export_(s) /\ slots[s].step \in {"export_wikis", "export_schema"}
    <3>1. PICK o \in Outcome : Conclude(s, o) /\ o.id = Current(s).id
      BY <1>1, <2>4, PageMoves
    <3>2. Owed(Current(s), o)
      BY <1>2, <2>1, <3>1 DEF Owed
    <3> QED BY <1>1, <2>1, <3>1, <3>2, ToldOutcome
  <2>5. CASE export_wikis(s) /\ ~Export_(s)
    BY <1>1, <1>8, <2>2, <2>5, WikisMoves
  <2> QED BY <1>16, <2>3, <2>4, <2>5 DEF export_wikis, export_schema, At
<1>17. CASE delete_me(s)
  <2>1. slots'[s] = Idle
    BY <1>1, <1>17, IdleMoves DEF delete_me
  <2> QED BY <2>1 DEF Told, Idle, At, Running, Tools
<1> QED BY <1>9, <1>10, <1>11, <1>12, <1>13, <1>14, <1>15, <1>16, <1>17 DEF HandlerStep

LEMMA ToldStep ==
    ASSUME Base, [Next]_vars, \A s \in Slots : Told(s)
    PROVE  \A s \in Slots : Told(s)'
<1>1. TypeOK /\ \A s \in Slots : Shape(s)
  BY DEF Base
<1>2. ASSUME NEW s \in Slots, \A t \in Slots \ {s} : slots'[t] = slots[t], Told(s)'
      PROVE  \A t \in Slots : Told(t)'
  <2>1. ASSUME NEW t \in Slots, slots'[t] = slots[t] PROVE Told(t)'
    BY <2>1 DEF Told, Kept, Reported, Current, At, Whole
  <2> QED BY <1>2, <2>1
<1>3. ASSUME NEW s \in Slots, HandlerStep(s) PROVE \A t \in Slots : Told(t)'
  BY <1>1, <1>2, <1>3, ToldHandler, SameRequest
<1>4. ASSUME NEW s \in Slots, NEW u \in Users, NEW b \in Body, handle(s, u, b)
      PROVE  \A t \in Slots : Told(t)'
  <2>1. /\ Moves(s) /\ slots'[s].body = b /\ slots'[s].wrote = {}
        /\ Whole(b) => slots'[s].step = "entry" /\ slots'[s].out = <<>>
        /\ ~Whole(b) => /\ slots'[s].step = "answered"
                        /\ Len(slots'[s].out) = 1 /\ slots'[s].out[1].id = "null"
    BY <1>1, <1>4, HandleMoves
  <2>2. CASE Whole(b)
    <3>1. /\ At(s, "entry")' /\ ~At(s, "answered")' /\ slots'[s].step \notin Appending
          /\ slots'[s].out = <<>> /\ DOMAIN slots'[s].out = {}
      BY <2>1, <2>2 DEF At, Appending
    <3>2. Reported(s)' = {}
      BY <3>1 DEF Reported
    <3>3. Kept(s)'
      BY <2>1, <2>2, <3>1, <3>2 DEF Kept
    <3>4. Told(s)'
      BY <2>1, <2>2, <3>1, <3>3 DEF Told
    <3> QED BY <1>2, <2>1, <3>4 DEF Moves, Moved
  <2>3. CASE ~Whole(b)
    <3>1. slots'[s].step \notin Running
      BY <2>1, <2>3 DEF Running, Tools
    <3>2. Kept(s)'
      BY <2>1, <2>3 DEF Kept
    <3>3. Told(s)'
      BY <2>1, <2>3, <3>1, <3>2 DEF Told
    <3> QED BY <1>2, <2>1, <3>3 DEF Moves, Moved
  <2> QED BY <2>2, <2>3
<1>5. ASSUME NEW s \in Slots, Moves(s), slots'[s].step \in {"idle", "delete"}
      PROVE  \A t \in Slots : Told(t)'
  <2>1. Told(s)'
    BY <1>5 DEF Told, At, Running, Tools
  <2> QED BY <1>2, <1>5, <2>1 DEF Moves, Moved
<1>6. ASSUME slots' = slots PROVE \A t \in Slots : Told(t)'
  BY <1>6 DEF Told, Kept, Reported, Current, At, Whole
<1>7. ASSUME NEW s \in Slots, Post(s) PROVE \A t \in Slots : Told(t)'
  BY <1>4, <1>7, WikiMcpAssumption DEF Post
<1>8. ASSUME NEW s \in Slots, Deliver(s) \/ Abandon(s) PROVE \A t \in Slots : Told(t)'
  BY <1>1, <1>5, <1>8, IdleMoves, OutcomeFact DEF Deliver, Abandon
<1>9. ASSUME NEW s \in Slots, NEW u \in Users, AskPage(s, u) PROVE \A t \in Slots : Told(t)'
  <2>1. exports[u].cursor \in Cursor(Times, RawIds)
    BY <1>1 DEF TypeOK, Export
  <2> QED BY <1>4, <1>9, <2>1, BodyFact DEF AskPage
<1>10. ASSUME NEW s \in Slots, NEW u \in Users, AskDelete(s, u) PROVE \A t \in Slots : Told(t)'
  BY <1>1, <1>5, <1>10, AuthMoves DEF AskDelete
<1>11. ASSUME NEW s \in Slots, NEW u \in Users, NEW c,
              c = NoCursor \/ (\E r \in raws : c = Legacy(r.at)), BeginExport(s, u, c)
       PROVE  \A t \in Slots : Told(t)'
  BY <1>4, <1>11, BeginFact
<1> QED
  <2>1. CASE \E s \in Slots :
                \/ Post(s) \/ HandlerStep(s) \/ Deliver(s) \/ Abandon(s)
                \/ \E u \in Users : AskPage(s, u) \/ AskDelete(s, u)
    BY <1>3, <1>7, <1>8, <1>9, <1>10, <2>1
  <2>2. CASE \E s \in Slots, u \in Users :
                \/ BeginExport(s, u, NoCursor)
                \/ \E r \in raws : r.owner = u /\ BeginExport(s, u, Legacy(r.at))
    BY <1>11, <2>2
  <2>3. CASE \/ \E u \in Users, c \in Concepts : WorkerWrites(u, c)
             \/ Tick
             \/ UNCHANGED vars
    BY <1>6, <2>3 DEF WorkerWrites, Tick, vars
  <2> QED BY <2>1, <2>2, <2>3 DEF Next

\* An answered POST has the one outcome that each of its entries is owed, in
\* order, and has reported exactly the rows that it has stored, whatever failed
\* or was refused among its entries (handle and dispatch_one of transport.rs,
\* call of raw_append.rs).
THEOREM AnswersAreTrue == Spec => []AnswersMatchEffects
<1> DEFINE Inv == Base /\ \A s \in Slots : Told(s)
<1>1. Init => Inv
  <2>1. Init => \A s \in Slots : Told(s)
    BY DEF Init, Told, Idle, At, Running, Tools
  <2> QED BY <2>1, BaseInit
<1>2. Inv /\ [Next]_vars => Inv'
  BY BaseStep, ToldStep
<1>3. Inv => AnswersMatchEffects
  <2> SUFFICES ASSUME Inv, NEW s \in Slots, At(s, "answered")
               PROVE  LET out == slots[s].out
                          b == slots[s].body
                      IN IF b.parsed /\ b.entries # <<>>
                         THEN /\ Len(out) = Len(b.entries)
                              /\ \A i \in DOMAIN out : Owed(b.entries[i], out[i])
                              /\ slots[s].wrote = Reported(s)
                         ELSE Len(out) = 1 /\ out[1].id = "null" /\ slots[s].wrote = {}
    BY DEF AnswersMatchEffects
  <2>1. Told(s)
    OBVIOUS
  <2> QED BY <2>1 DEF Told, Kept, Whole, At
<1> HIDE DEF Inv
<1> QED BY <1>1, <1>2, <1>3, PTL DEF Spec
=============================================================================
