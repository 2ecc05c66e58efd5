---------------------------- MODULE InputBuilder ----------------------------
(***************************************************************************)
(* The raws one synthesis call is given                                    *)
(* (crates/llm-memory-coordinator/src/input_builder.rs) and the full text  *)
(* search that fills them up (crates/llm-memory-storage/src/search.rs).    *)
(* A row is a record [id, scope, owner_id, words]; a table is a sequence   *)
(* of rows in the order of bm25.                                           *)
(***************************************************************************)
EXTENDS Lists

CONSTANTS
    INPUT_LIMIT,   \* 50
    SearchLimitMax \* 100, the upper clamp of search::raws

ASSUME InputAssumption ==
    {INPUT_LIMIT, SearchLimitMax} \subseteq Nat \ {0} /\ INPUT_LIMIT <= SearchLimitMax

\* The query as a set of literal phrases, all of which must occur; an empty
\* or blank query is the empty phrase, which occurs nowhere.
fts5_match(query, row) == query # {} /\ query \subseteq row.words

ClampTo(n, lo, hi) == IF n < lo THEN lo ELSE IF n > hi THEN hi ELSE n

search_raws(table, query, scope, owner_id, limit) ==
    LET Hit(r) == fts5_match(query, r) /\ r.scope = scope /\ r.owner_id = owner_id
    IN  Shorten(At(table, {i \in DOMAIN table : Hit(table[i])}),
                ClampTo(limit, 1, SearchLimitMax))

\* Push every id that is not there yet, until the limit is reached.
PushDistinct(out, ids) == PushNew(out, ids, INPUT_LIMIT)

\* Mutant: no more hits are fetched than there are places left.
HitLimitTight(out) == INPUT_LIMIT - Len(out)

\* Twice the places left, because some of the hits are there already.
HitLimit(out) == (INPUT_LIMIT - Len(out)) * 2

\* source_refs that exist, then the new raws, then the hits for the concept.
build(table, scope, owner_id, concept, existing_source_refs, new_raws) ==
    LET exist == {k \in DOMAIN existing_source_refs :
                     \E i \in DOMAIN table : table[i].id = existing_source_refs[k]}
        refs == PushDistinct(<<>>, At(existing_source_refs, exist))
        out == PushDistinct(refs, new_raws)
        hits == search_raws(table, concept, scope, owner_id, HitLimit(out))
    IN  IF Len(out) >= INPUT_LIMIT THEN out
        ELSE PushDistinct(out, [i \in DOMAIN hits |-> hits[i].id])
=============================================================================
