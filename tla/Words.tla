-------------------------------- MODULE Words --------------------------------
(***************************************************************************)
(* The scan of an ingested text for names the knowledge graph already has  *)
(* (crates/vegapunk-memory-server/src/mcp/tools/handlers.rs).  A text is a *)
(* sequence of characters; lowering a character gives a sequence, because  *)
(* some characters (a capital I with a dot) become two.  An entity is its  *)
(* name; its key is the trimmed, lowered name.                             *)
(***************************************************************************)
EXTENDS Integers, Sequences, SequencesExt

CONSTANTS
    Space,   \* a character that is_word_char rejects and trim removes
    Lower    \* character -> the sequence to_lowercase gives

LowerText(t) == FlattenSeq([i \in DOMAIN t |-> Lower[t[i]]])

is_lowercase_byte_aligned(text) == \A i \in DOMAIN text : Len(Lower[text[i]]) = 1

is_word_char(c) == c # Space

Trim(s) ==
    LET solid == {i \in DOMAIN s : s[i] # Space}
    IN  IF solid = {} THEN <<>>
        ELSE SubSeq(s, CHOOSE i \in solid : \A j \in solid : i <= j,
                       CHOOSE i \in solid : \A j \in solid : i >= j)

normalize_entity_key(s) == LowerText(Trim(s))

OccursAt(text, needle, i) == SubSeq(text, i, i + Len(needle) - 1) = needle

\* text[from..].find(needle), as the index of the first hit; 0 for none.
Find(text, needle, from) ==
    LET hits == {i \in from..Len(text) - Len(needle) + 1 : OccursAt(text, needle, i)}
    IN  IF hits = {} THEN 0 ELSE CHOOSE i \in hits : \A j \in hits : i <= j

\* before_ok /\ after_ok for a match text[i..end].
Boundary(text, i, end) == /\ i = 1 \/ ~is_word_char(text[i - 1])
                          /\ end = Len(text) \/ ~is_word_char(text[end + 1])

\* Mutant: after a match inside a word the search goes on behind the match.
NextSearchSkips(at, needle) == at + Len(needle)

\* After a match inside a word the search goes on one character later.
NextSearch(at, needle) == at + 1

\* One pass of the loop; when nothing more is found, the loop is over.
ScanPass(text_lc, needle, r) ==
    LET at == Find(text_lc, needle, r.start)
    IN  IF at = 0 \/ r.found THEN r
        ELSE [start |-> NextSearch(at, needle),
              found |-> Boundary(text_lc, at, at + Len(needle) - 1)]

word_boundary_contains_in_lowercased(text_lc, needle) ==
    LET pass[n \in 0..Len(text_lc)] ==
          IF n = 0 THEN [start |-> 1, found |-> FALSE]
          ELSE ScanPass(text_lc, needle, pass[n - 1])
    IN  IF needle = <<>> THEN FALSE ELSE pass[Len(text_lc)].found

MatchPass(text_lc, needle, r) ==
    LET at == Find(text_lc, needle, r.start)
        end == at + Len(needle) - 1
    IN  IF at = 0 THEN r
        ELSE IF Boundary(text_lc, at, end) THEN [start |-> end + 1, at |-> Append(r.at, at)]
        ELSE [start |-> NextSearch(at, needle), at |-> r.at]

\* The matches the rewrite visits: word-bounded, from the left, not overlapping.
Matches(text_lc, needle) ==
    LET pass[n \in 0..Len(text_lc)] ==
          IF n = 0 THEN [start |-> 1, at |-> <<>>]
          ELSE MatchPass(text_lc, needle, pass[n - 1])
    IN  IF needle = <<>> THEN <<>> ELSE pass[Len(text_lc)].at

\* The text between the matches, with canonical in the place of each.
Rewrite(text, at, len, canonical) ==
    FlattenSeq([k \in DOMAIN at |->
        SubSeq(text, IF k = 1 THEN 1 ELSE at[k - 1] + len, at[k] - 1) \o canonical])
    \o SubSeq(text, IF at = <<>> THEN 1 ELSE at[Len(at)] + len, Len(text))

\* None (<<>>) when every match already reads as canonical, else <<updated>>.
replace_word_case_insensitive_with_lc(text, text_lc, needle, canonical) ==
    LET at == Matches(text_lc, needle)
        n == Len(needle)
    IN  IF \A k \in DOMAIN at : SubSeq(text, at[k], at[k] + n - 1) = canonical
        THEN <<>> ELSE <<Rewrite(text, at, n, canonical)>>

\* The names of one schema after the other; a rewrite that is no longer
\* aligned ends the loop.
RewriteName(acc, name) ==
    LET updated == replace_word_case_insensitive_with_lc(
                       acc.text, LowerText(acc.text), normalize_entity_key(name), name)
    IN  IF acc.stop \/ updated = <<>> THEN acc
        ELSE [text |-> updated[1], rewrites |-> Append(acc.rewrites, name),
              stop |-> ~is_lowercase_byte_aligned(updated[1])]

RewritePersonal(personal, text) ==
    LET after[n \in 0..Len(personal)] ==
          IF n = 0 THEN [text |-> text, rewrites |-> <<>>, stop |-> FALSE]
          ELSE RewriteName(after[n - 1], personal[n])
    IN  after[Len(personal)]

\* A shared name in the text suppresses the ingest; personal names are
\* rewritten to their spelling in the graph.
scan_text_with_catalogue(catalogue, text) ==
    LET text_lc == LowerText(text)
        Hit(name) == word_boundary_contains_in_lowercased(text_lc, normalize_entity_key(name))
        r == RewritePersonal(catalogue.personal, text)
    IN  IF ~is_lowercase_byte_aligned(text) THEN [check |-> "Proceed", text |-> text]
        ELSE IF \E i \in DOMAIN catalogue.shared : Hit(catalogue.shared[i])
        THEN [check |-> "BlockedByShared", text |-> text]
        ELSE [check |-> IF r.rewrites = <<>> THEN "Proceed" ELSE "Rewritten", text |-> r.text]
=============================================================================
