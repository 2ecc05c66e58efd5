----------------------------- MODULE ExportPage -----------------------------
(***************************************************************************)
(* One page of the export tool (mcp/tools/export.rs): the rows behind the  *)
(* cursor in the order (created_at, id), cut by number and by bytes, and   *)
(* the cursor of the page that follows.  Ids are numbered in the order of  *)
(* their strings; 0 is the empty string.                                   *)
(***************************************************************************)
EXTENDS Naturals, FiniteSets, FiniteSetsExt

CONSTANTS PAGE_LIMIT, PAGE_CONTENT_BYTE_BUDGET

ASSUME ExportPageAssumption ==
    PAGE_LIMIT \in Nat \ {0} /\ PAGE_CONTENT_BYTE_BUDGET \in Nat

\* The forms of the cursor argument: not given or empty, "<created_at>", and
\* "<created_at>:<id>".  An argument that is none of them is an error.
Cursor(Ats, Ids) == [form : {"absent"}, at : {0}, id : {0}]
                    \cup [form : {"legacy"}, at : Ats, id : {0}]
                    \cup [form : {"full"}, at : Ats, id : Ids]

NoCursor == [form |-> "absent", at |-> 0, id |-> 0]
Legacy(at) == [form |-> "legacy", at |-> at, id |-> 0]
Full(at, id) == [form |-> "full", at |-> at, id |-> id]

\* The pair of values bound to the query, whatever the form.
Parsed(c) == [at |-> c.at, id |-> c.id]

\* Mutant: the cursor is compared by its time alone.
AfterTimeOnly(r, c) == r.at > c.at

After(r, c) == r.at > c.at \/ (r.at = c.at /\ r.id > c.id)

UpTo(R, r) == {q \in R : q.at < r.at \/ (q.at = r.at /\ q.id <= r.id)}

Rank(R, r) == Cardinality(UpTo(R, r))

\* SELECT ... ORDER BY created_at, id LIMIT PAGE_LIMIT + 1
Fetch(R, c) ==
    LET behind == {r \in R : After(r, Parsed(c))}
    IN {r \in behind : Rank(behind, r) <= PAGE_LIMIT + 1}

Bytes(F, r) == MapThenSumSet(LAMBDA q : q.size, UpTo(F, r))

\* A row too large for any page goes alone.
Fits(F, r) == /\ Rank(F, r) <= PAGE_LIMIT
              /\ Rank(F, r) = 1 \/ Bytes(F, r) <= PAGE_CONTENT_BYTE_BUDGET

\* The loop over the rows stops at the first that does not fit.
Page(F) == {r \in F : \A q \in UpTo(F, r) : Fits(F, q)}

Overflow(F) == Cardinality(Page(F)) < Min({PAGE_LIMIT, Cardinality(F)})

Last(P) == CHOOSE r \in P : UpTo(P, r) = P

\* Mutant: the cursor of a page is the time of its last row alone.
NextCursorLegacy(F) ==
    IF Overflow(F) \/ Cardinality(F) > PAGE_LIMIT THEN Legacy(Last(Page(F)).at) ELSE NoCursor

\* A cursor is given when something was cut off, by number or by bytes.
NextCursor(F) ==
    IF Overflow(F) \/ Cardinality(F) > PAGE_LIMIT
    THEN Full(Last(Page(F)).at, Last(Page(F)).id)
    ELSE NoCursor

\* wikis and schema belong to the page that begins the export.
IsFirst(c) == Parsed(c) = Parsed(NoCursor)
=============================================================================
