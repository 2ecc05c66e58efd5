-------------------------------- MODULE Merge --------------------------------
(***************************************************************************)
(* How the read tools of the vegapunk wrapper put the answers of the       *)
(* caller's schema and of the shared schema together                       *)
(* (crates/vegapunk-memory-server/src/mcp/tools/handlers.rs).  An answer   *)
(* is a sequence; a shared answer that failed is the empty one.            *)
(***************************************************************************)
EXTENDS Lists, FiniteSets

CONSTANT QUERY_NODES_LIMIT_MAX

ASSUME LimitMaxAssumption == QUERY_NODES_LIMIT_MAX \in Nat \ {0}

\* A result of search is a record [type, id, score].  NoId stands for an id
\* that is null or empty, NoScore for a score that is missing or NaN and
\* ranks below every other.
NoId == 0
NoScore == 0

Key(item) == <<item.type, item.id>>

\* The results the loop over both answers pushes: the first of every key, and
\* every result without an id.
Kept(items) ==
    LET First(i) == items[i].id = NoId \/ ~ \E j \in 1..i - 1 : Key(items[j]) = Key(items[i])
    IN  At(items, {i \in DOMAIN items : First(i)})

\* sort_by is stable: equal scores keep personal results before shared ones.
ByScore(items) ==
    LET Before(i, j) == items[i].score > items[j].score
                        \/ (items[i].score = items[j].score /\ i < j)
        rank(i) == 1 + Cardinality({j \in DOMAIN items : Before(j, i)})
    IN  [k \in DOMAIN items |-> items[CHOOSE i \in DOMAIN items : rank(i) = k]]

\* Mutant: each answer is cut before the results are ranked together.
MergedSearchCutFirst(personal, shared, top_k) ==
    Shorten(Kept(Shorten(personal, top_k) \o shared), top_k)

\* all_results of search, and merged_limit, the top_k both requests carried.
MergedSearch(personal, shared, top_k) == Shorten(ByScore(Kept(personal \o shared)), top_k)

\* What both schemas are asked for, from the beginning of their lists.
FetchLimit(offset, limit) ==
    IF offset + limit > QUERY_NODES_LIMIT_MAX THEN QUERY_NODES_LIMIT_MAX ELSE offset + limit

\* The page [offset, offset + limit) of the nodes of both schemas, by node_id.
MergedNodes(personal, shared, offset, limit) ==
    LET fetch == FetchLimit(offset, limit)
        both == Shorten(personal, fetch) \o Shorten(shared, fetch)
        nodes == PushNew(<<>>, both, Len(both))
    IN  Shorten(SubSeq(nodes, offset + 1, Len(nodes)), limit)

\* The first schema of the listing with either name, the caller's own first.
filter_schemas_for_user_and_shared(schemas, user_schema, shared_schema) ==
    LET Listed(name) == IF Contains(schemas, name) THEN <<name>> ELSE <<>>
    IN  Listed(user_schema)
        \o (IF user_schema = shared_schema THEN <<>> ELSE Listed(shared_schema))
=============================================================================
