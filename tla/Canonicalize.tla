---------------------------- MODULE Canonicalize ----------------------------
(***************************************************************************)
(* The rewrite of a text by a language model before it is ingested         *)
(* (crates/vegapunk-memory-server/src/canonicalize.rs, and                 *)
(* catalogue_canonical_names of handlers.rs).  A name is a sequence of     *)
(* characters, of which only the width in bytes and the class matter; of a *)
(* text only its length in bytes and whether it is blank, of an answer its *)
(* length and why it ended.                                                *)
(***************************************************************************)
EXTENDS Lists

CONSTANTS
    MAX_CATALOGUE_ENTRIES,    \* 200
    MAX_CATALOGUE_NAME_BYTES  \* 128

ASSUME CatalogueAssumption ==
    MAX_CATALOGUE_ENTRIES \in Nat \ {0} /\ MAX_CATALOGUE_NAME_BYTES \in Nat \ {0}

MAX_TEXT_BYTES == 32 * 1024
OUTPUT_ABSOLUTE_MIN_BYTES == 256
OUTPUT_BYTES_PER_TOKEN_FLOOR == 2
MaxTokens == 32768

\* len_utf8 of a character: "a" a letter, "W" a wide letter, "n" a newline,
\* "c" any other control character, "L" a line separator, " " a space.
LenUtf8(c) == IF c \in {"W", "L"} THEN 3 ELSE 1
Bytes(s) ==
    LET sum[n \in 0..Len(s)] == IF n = 0 THEN 0 ELSE sum[n - 1] + LenUtf8(s[n])
    IN  sum[Len(s)]
IsLineLike(c) == c \in {"n", "c", "L"}
IsWhitespace(c) == c \in {" ", "n", "L"}

TrimName(s) ==
    LET solid == {i \in DOMAIN s : ~IsWhitespace(s[i])}
    IN  IF solid = {} THEN <<>>
        ELSE SubSeq(s, CHOOSE i \in solid : \A j \in solid : i <= j,
                       CHOOSE i \in solid : \A j \in solid : i >= j)

\* Characters that end a line become spaces; the name ends before the first
\* character that would take it over the limit.
sanitize_catalogue_name(raw) ==
    LET clean == [i \in DOMAIN raw |-> IF IsLineLike(raw[i]) THEN " " ELSE raw[i]]
        fits == {n \in 0..Len(raw) : Bytes(SubSeq(clean, 1, n)) <= MAX_CATALOGUE_NAME_BYTES}
    IN  TrimName(SubSeq(clean, 1, CHOOSE n \in fits : \A k \in fits : k <= n))

sanitize_catalogue_names_for_prompt(names) ==
    LET clean == [i \in DOMAIN names |-> sanitize_catalogue_name(names[i])]
    IN  Shorten(At(clean, {i \in DOMAIN clean : clean[i] # <<>>}), MAX_CATALOGUE_ENTRIES)

\* The trimmed names of the shared, then of the personal entities, each once,
\* no more than the prompt may hold.
catalogue_canonical_names(shared, personal) ==
    LET raw == shared \o personal
        names == [i \in DOMAIN raw |-> TrimName(raw[i])]
    IN  PushNew(<<>>, At(names, {i \in DOMAIN names : names[i] # <<>>}), MAX_CATALOGUE_ENTRIES)

\* max(256, ceil(1.5 * bytes))
output_cap_for(bytes) ==
    LET ratio == (bytes * 3 + 1) \div 2
    IN  IF ratio < OUTPUT_ABSOLUTE_MIN_BYTES THEN OUTPUT_ABSOLUTE_MIN_BYTES ELSE ratio

request_max_output_tokens_for(cap) ==
    LET n == cap \div OUTPUT_BYTES_PER_TOKEN_FLOOR
    IN  IF n < 1 THEN 1 ELSE IF n > MaxTokens THEN MaxTokens ELSE n

validate_output_size(input, output) == output <= output_cap_for(input)

\* Mutant: an answer that was cut off is taken.
ExtractTextCut(payload) == payload.bytes

\* The length of the answer's text, 0 for an error.  Of the reasons to end only
\* MAX_TOKENS is refused: text that any other abnormal end left over passes.
extract_text(payload) == IF payload.finish = "MAX_TOKENS" THEN 0 ELSE payload.bytes

\* External: the model comes to the end of its answer (STOP), or its provider
\* stops it (SAFETY, RECITATION, OTHER) or does not say why it ended (missing),
\* after `sent` bytes; either way the answer ends when the tokens are used up.
Answer(model, max_tokens) ==
    LET room == max_tokens * model.bytes_per_token
    IN  [status |-> model.status,
         bytes |-> IF model.sent > room THEN room ELSE model.sent,
         finish |-> IF model.sent > room /\ model.ends # "missing" THEN "MAX_TOKENS"
                    ELSE model.ends]

Unchanged(text) == [from |-> "text", bytes |-> text.bytes]

\* The text to ingest: the caller falls back to the original on every error.
canonicalize(names, text, model) ==
    LET max_tokens == request_max_output_tokens_for(output_cap_for(text.bytes))
        resp == Answer(model, max_tokens)
        output == extract_text(resp)
    IN  IF \/ names = <<>> \/ text.blank \/ text.bytes > MAX_TEXT_BYTES
           \/ sanitize_catalogue_names_for_prompt(names) = <<>>
           \/ resp.status # "success"
           \/ output = 0
           \/ ~validate_output_size(text.bytes, output)
        THEN Unchanged(text)
        ELSE [from |-> "answer", bytes |-> output]
=============================================================================
