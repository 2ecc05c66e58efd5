---------------------------- MODULE MCAlgorithms ----------------------------
(***************************************************************************)
(* The algorithms of both servers, each over every input of a small size   *)
(* and against what it is meant to compute.  A behaviour picks an          *)
(* algorithm and an input, and runs it once.                               *)
(***************************************************************************)
EXTENDS ConceptBudget, RateLimiter, InputBuilder, Words, Merge, WikiToolArgs,
        LlmClient, Canonicalize, AccessTokens, AuthRedirect

CONSTANTS
    InvalidName,  \* a name is_valid rejects
    MaxNew,       \* bound on the length of new_concepts
    MaxCalls,     \* number of calls to the rate limiter
    RateCalls,    \* [gap, user, tool]: calls that come gap ticks after the one before
    Kids,         \* a "v" and a number each, as sequences of characters, or empty
    Secrets,      \* the keys of JWT_SIGNING_KEY variables
    MaxKeys,      \* how many of them a server is started with first
    Ages,         \* seconds after which a token is shown
    MaxRows,      \* number of raws in the table of one synthesis input
    MaxRefs,      \* bound on the length of source_refs and of new_raws
    Results,      \* [type, id, score]: the results a search may have
    MaxResults,   \* bound on the number of results of one schema
    MaxPage,      \* bound on top_k, offset and limit
    Nodes,        \* the ids of nodes
    MaxNodes,     \* bound on the number of nodes of one schema
    Schemas,      \* names of schemas
    MaxSchemas,   \* bound on the number of schemas listed
    Objects,      \* JSON objects a model may write, as texts
    Noise,        \* texts it may write around them
    MaxText,      \* bound on the length of its answer
    Splits,       \* the lengths of the first part of an answer
    CatalogueLists,\* lists of names of the catalogue
    TextSizes,    \* lengths in bytes of texts to canonicalize
    AnswerSizes,  \* and of what the model means to answer
    Texts,        \* texts to ingest
    SharedLists,  \* lists of names of the shared schema
    EntityNames,  \* the names of the personal schema
    MaxNames,     \* bound on their number
    Uris,         \* the redirect_uris clients have registered
    Codes,        \* authorization codes
    StateChars,   \* the characters of a client's state
    MaxState      \* bound on its length

ASSUME InputsAssumption ==
    /\ {MaxNew, MaxCalls, MaxKeys} \subseteq Nat /\ InvalidName \notin Concepts
    /\ \A c \in RateCalls : c.gap \in Nat

ASSUME KidsAssumption ==
    /\ Ages \subseteq Nat
    /\ \A kid \in Kids : /\ kid \in Seq(Nat) /\ (kid = <<>> \/ kid[1] = 118)
                         /\ \A i \in 2..Len(kid) : kid[i] \in 48..57

ASSUME ListsAssumption ==
    /\ {MaxRows, MaxRefs, MaxResults, MaxPage, MaxNodes, MaxSchemas} \subseteq Nat
    /\ \A r \in Results : r.score \in Nat

ASSUME TextsAssumption ==
    /\ MaxText \in Nat /\ Splits \cup TextSizes \cup AnswerSizes \subseteq Nat
    /\ Objects \cup Noise \subseteq Seq({"{", "}", "q", "x"})
    /\ \A object \in Objects : object[1] = "{" /\ IsObject(object)
    /\ CatalogueLists \subseteq Seq(Seq({"a", "W", "n", "c", "L", " "}))

\* The places in the query of url where a parameter begins.
ParamStarts(url, param) ==
    {i \in 1..Len(url) - Len(param) + 1 :
        /\ \E q \in 1..i - 1 : url[q] = QuestionMark
        /\ \/ url[i - 1] = Ampersand
           \/ \A q \in 1..i - 1 : url[q] = QuestionMark <=> q = i - 1
        /\ \A k \in DOMAIN param : url[i + k - 1] = param[k]}

\* The redirect_uris of clients have neither of the two parameters that the
\* server adds, nor a fragment (dcr.rs refuses one); a code is a ULID.
ASSUME RedirectAssumption ==
    /\ MaxState \in Nat /\ StateChars \subseteq CodePoints
    /\ Codes \subseteq Seq((48..57) \cup (65..90))
    /\ Uris \subseteq Seq(Nat)
    /\ \A uri \in Uris : ParamStarts(uri, CodeParam) \cup ParamStarts(uri, StateParam) = {}

\* White space stays white space when lowered, and nothing else becomes it or
\* vanishes.
ASSUME WordsAssumption ==
    /\ Space \in DOMAIN Lower /\ Lower[Space] = <<Space>>
    /\ \A c \in DOMAIN Lower \ {Space} : Lower[c] \in Seq(DOMAIN Lower \ {Space}) \ {<<>>}
    /\ Texts \cup EntityNames \subseteq Seq(DOMAIN Lower) /\ MaxNames \in Nat
    /\ SharedLists \subseteq Seq(Seq(DOMAIN Lower))

VARIABLES alg, in, out, done

vars == <<alg, in, out, done>>

UpToLen(S, n) == UNION {[1..k -> S] : k \in 0..n}
IsDistinct(s) == \A i, j \in DOMAIN s : s[i] = s[j] => i = j
DistinctUpTo(S, n) == {s \in UpToLen(S, n) : IsDistinct(s)}

\* s without its repetitions: the first of every item.
Distinct(s) == At(s, {i \in DOMAIN s : \A j \in 1..i - 1 : s[j] # s[i]})

Index(s, x) == CHOOSE i \in DOMAIN s : s[i] = x

MCPerMinute == [t \in {"read", "write", "heavy"} |-> 2]
MCRateCalls == [gap : 0..2, user : {"u1"}, tool : {"wiki_rebuild", "export"}]
               \cup [gap : 0..2, user : {"u2"}, tool : {"export"}]
MCKids == {<<>>, <<118, 49>>, <<118, 49, 48>>, <<118, 50>>}
MCConceptNames == {"word"}
MCCursorWords == {"word"}
MCResults == [type : {1, 2}, id : {NoId, 1}, score : {NoScore, 1}]
MCObjects == {<<"{", "x", "}">>, <<"{", "{", "}", "x", "}">>, <<"{", "q", "}", "q", "}">>}
MCNoise == {<<>>, <<"x">>, <<"{">>, <<"}">>, <<"{", "}">>, <<"{", "q">>, <<"q", "}">>}
MCSplits == {0, 3}
MCTextSizes == {1, 170, 171, 1000, 32767, MAX_TEXT_BYTES, MAX_TEXT_BYTES + 1}
MCAnswerSizes == {0, 1, 170, 255, 256, 257, 1499, 1501, 49151, 60000}
\* "h", "h?x=1" and "h?"; "a", "%", "&", "=", space, e acute, a kana and an emoji.
MCUris == {<<104>>, <<104, QuestionMark, 120, Equals, 49>>, <<104, QuestionMark>>}
MCCodes == {<<48, 49, 72>>}
MCStateChars == {97, Percent, Ampersand, Equals, 32, 233, 12354, 128512}
MCCatalogueLists == {<<n>> : n \in UpToLen({"a", "W", "n", "L", " "}, 5)}
                    \cup UpToLen({<<"a">>, <<" ", "a">>, <<"W">>, <<"c">>, <<"n">>}, 3)

(***************************************************************************)
(* ConceptBudget                                                           *)
(***************************************************************************)
BudgetInputs ==
    [existing : {S \in SUBSET Concepts : IsFiniteSet(S) /\ Cardinality(S) <= ConceptLimit},
     affected_existing : SUBSET (Concepts \cup {InvalidName}),
     new_concepts : UpToLen(Concepts \cup {InvalidName}, MaxNew)]

\* Writing a wiki for every affected concept keeps the owner within the limit,
\* however many names the model returns, malformed, repeated or already known.
BudgetKept == alg = "budget" /\ done => Cardinality(in.existing \cup out) <= ConceptLimit

(***************************************************************************)
(* RateLimiter                                                             *)
(***************************************************************************)
RateInputs == [1..MaxCalls -> RateCalls]

\* When the calls come.
Times(s) == LET at[n \in 0..Len(s)] == IF n = 0 THEN 0 ELSE at[n - 1] + s[n].gap
            IN  at

CallsOf(s) == [n \in 1..Len(s) |-> [at |-> Times(s)[n], user |-> s[n].user, tool |-> s[n].tool]]

\* The calls i..j that are allowed and share the bucket of call k.
Passed(calls, k, i, j) == {n \in out \cap i..j : KeyOf(calls[n]) = KeyOf(calls[k])}

\* RateLimiter::check: in no stretch of time does a user get more out of a
\* tier than one full budget plus what that time refills.
RateBound == alg = "rate" /\ done =>
    LET calls == CallsOf(in)
    IN  \A j \in DOMAIN calls : \A i \in 1..j :
          LET budget == PerMinute[KeyOf(calls[j])[2]]
          IN  Cardinality(Passed(calls, j, i, j)) * MINUTE
                <= budget * (MINUTE + calls[j].at - calls[i].at)

\* RateLimiter::check: a call is refused only to a user who was given a whole
\* budget of the tier within the last minute, never because of another user.
RefusedOnlyOverBudget == alg = "rate" /\ done =>
    LET calls == CallsOf(in)
    IN  \A j \in DOMAIN calls \ out :
          LET recent == {i \in 1..j : calls[i].at > calls[j].at - MINUTE}
          IN  Cardinality(Passed(calls, j, 1, j) \cap recent) >= PerMinute[KeyOf(calls[j])[2]]

\* RateLimiter::check: the limiter lets through neither more nor less than the
\* budget of a tier, whatever the pauses between calls and the users beside it.
RateKept == RateBound /\ RefusedOnlyOverBudget

(***************************************************************************)
(* InputBuilder                                                            *)
(***************************************************************************)
MineRow(i) == [id |-> i, scope |-> "personal", owner_id |-> "u1", words |-> {"rust", "go"}]
Rows == 1..MaxRows
Deleted == MaxRows + 1
Tables == [Rows -> {"hit", "miss", "other"}]
Row(kind, i) ==
    CASE kind = "hit"   -> MineRow(i)
      [] kind = "miss"  -> [MineRow(i) EXCEPT !.words = {"go"}]
      [] kind = "other" -> [MineRow(i) EXCEPT !.owner_id = "u2"]
TableOf(t) == [i \in Rows |-> Row(t[i], i)]

\* A row of another owner is never a reference or a new raw.
InputInputs ==
    {r \in [table : Tables, refs : UpToLen(Rows \cup {Deleted}, MaxRefs),
            new_raws : DistinctUpTo(Rows, MaxRefs)] :
        \A i \in Rows \cap (ToSet(r.refs) \cup ToSet(r.new_raws)) : r.table[i] # "other"}

\* The ids the synthesis must be about, and those it may be filled up with.
Given(r) == At(r.refs, {k \in DOMAIN r.refs : r.refs[k] # Deleted}) \o r.new_raws
Fillers(r) == Ascending({i \in Rows : r.table[i] = "hit"}, MaxRows)

\* input_builder::build: the synthesis input is a prefix of the order of
\* preference, without repetition and of the owner alone; it is as long as the
\* limit allows whenever references and new raws fill no more than half of it.
InputComplete == alg = "input" /\ done =>
    LET given == Distinct(Given(in))
        all == Distinct(Given(in) \o Fillers(in))
    IN  /\ Len(out) <= INPUT_LIMIT
        /\ IsPrefix(Shorten(given, INPUT_LIMIT), out)
        /\ IsPrefix(out, all)
        /\ 2 * Len(given) <= INPUT_LIMIT => out = Shorten(all, INPUT_LIMIT)

(***************************************************************************)
(* Words                                                                   *)
(***************************************************************************)
MCLower == [c \in {"a", "A", "b", " ", "I"} |->
    CASE c = "A" -> <<"a">> [] c = "I" -> <<"a", "b">> [] OTHER -> <<c>>]

MCTexts == UpToLen({"a", "A", "b", " "}, 4) \cup [1..5 -> {"a", "A", " "}]
         \cup [1..6 -> {"a", " "}] \cup UpToLen({"a", "I", " "}, 3)
MCSharedLists == {<<>>, << <<"A", " ", "a">> >>, << <<" ", "b">> >>, << <<" ">> >>}
MCEntityNames == {<<"A">>, <<"a">>, <<"A", " ", "a">>, <<"I">>, <<" ", "A">>}

WordInputs == [text : Texts, shared : SharedLists, personal : UpToLen(EntityNames, MaxNames)]

\* The lowered words of a text, open being the one that is read in part.
Closed(r) == IF r.open = <<>> THEN r.words ELSE Append(r.words, r.open)

ReadOn(r, c) == IF c = Space THEN [words |-> Closed(r), open |-> <<>>]
                ELSE [words |-> r.words, open |-> Append(r.open, c)]

Reading(l) ==
    LET read[n \in 0..Len(l)] ==
          IF n = 0 THEN [words |-> <<>>, open |-> <<>>] ELSE ReadOn(read[n - 1], l[n])
    IN  read[Len(l)]

WordsOf(t) == Closed(Reading(LowerText(t)))

\* scan_text_with_catalogue: an ingest is suppressed exactly when the words of
\* a shared name occur one after the other, and as whole words, in the text.
ScanFindsOccurrences == alg = "words" /\ done =>
    (out.check = "BlockedByShared"
     <=> /\ is_lowercase_byte_aligned(in.text)
         /\ \E n \in DOMAIN in.shared : \E i \in DOMAIN in.text :
              LET key == LowerText(Trim(in.shared[n]))
                  l == LowerText(in.text)
              IN  /\ key # <<>> /\ i + Len(key) - 1 <= Len(l)
                  /\ SubSeq(l, i, i + Len(key) - 1) = key
                  /\ i = 1 \/ l[i - 1] = Space
                  /\ i + Len(key) > Len(l) \/ l[i + Len(key)] = Space)

\* scan_text_with_catalogue: a rewrite changes the spelling of words and
\* nothing else, whatever overlaps and whatever the names look like.
RewriteKeepsWords == alg = "words" /\ done => WordsOf(out.text) = WordsOf(in.text)

\* scan_text_with_catalogue: a text that was rewritten is left alone by the
\* next scan with the same names, unless a name carries white space around it.
RewriteStable == alg = "words" /\ done
    /\ (\A n \in DOMAIN in.personal : Trim(in.personal[n]) = in.personal[n]) =>
    scan_text_with_catalogue(in, out.text).text = out.text

\* scan_text_with_catalogue: what it finds are whole words and all of them, and
\* its rewrite touches nothing but their spelling and does so once.
ScanAndRewrite == ScanFindsOccurrences /\ RewriteKeepsWords /\ RewriteStable

(***************************************************************************)
(* Merge                                                                   *)
(***************************************************************************)
Item(from) == {[type |-> r.type, id |-> r.id, score |-> r.score, from |-> from] : r \in Results}
SearchInputs == [personal : UpToLen(Item("personal"), MaxResults),
                 shared : UpToLen(Item("shared"), MaxResults), top_k : 1..MaxPage]

\* search: no result twice, none that outranks the last one shown left out, a
\* page filled as far as there are results, and the caller's own copy of a
\* result, and own results before shared ones of the same score.
SearchMerged == alg = "search" /\ done =>
    LET all == in.personal \o in.shared
        Shown(item) == \E k \in DOMAIN out : out[k] = item
        SameKey(a, b) == a.id # NoId /\ Key(a) = Key(b)
        Own(item) == item.from = "personal"
    IN  /\ \A k, l \in DOMAIN out : SameKey(out[k], out[l]) => k = l
        /\ \A k, l \in DOMAIN out : k < l => out[k].score >= out[l].score
        /\ \A k, l \in DOMAIN out :
              k < l /\ out[k].score = out[l].score /\ Own(out[l]) => Own(out[k])
        /\ \A i \in DOMAIN all : ~Shown(all[i]) =>
              \/ \E j \in 1..i - 1 : SameKey(all[i], all[j])
              \/ Len(out) = in.top_k /\ out[in.top_k].score >= all[i].score
        /\ \A k \in DOMAIN out, i \in DOMAIN in.personal :
              SameKey(out[k], in.personal[i]) => Own(out[k])

NodesInputs == [personal : DistinctUpTo(Nodes, MaxNodes), shared : DistinctUpTo(Nodes, MaxNodes),
                offset : 0..MaxPage, limit : 1..MaxPage]

\* query_nodes: while offset + limit stays within the backend's limit, a page
\* is the stretch [offset, offset + limit) of all nodes of both schemas; beyond
\* it a page may be short but never repeats a node or exceeds the limit.
NodesPage == alg = "nodes" /\ done =>
    LET all == Distinct(in.personal \o in.shared)
    IN  /\ in.offset + in.limit <= QUERY_NODES_LIMIT_MAX
             => out = Shorten(SubSeq(all, in.offset + 1, Len(all)), in.limit)
        /\ Len(out) <= in.limit /\ IsDistinct(out)

SchemaInputs == [schemas : UpToLen(Schemas, MaxSchemas)]

\* list_schemas: whatever order and repetitions the backend lists, a caller is
\* shown its own schema first, then the shared one, and nobody else's.
SchemasShown == alg = "schemas" /\ done =>
    /\ ToSet(out) = ToSet(in.schemas) \cap {"user-1", "shared"}
    /\ \A i \in DOMAIN out : out[i] = "user-1" => i = 1
    /\ Len(out) = Cardinality(ToSet(out))

\* search, query_nodes and list_schemas: one answer made of two, with nothing
\* lost, repeated or foreign in it.
TwoAnswersOne == SearchMerged /\ NodesPage /\ SchemasShown

(***************************************************************************)
(* ToolArgs and WikiToolArgs                                               *)
(***************************************************************************)
GoodValue(s) ==
    CASE s.type = "string"  -> Str(IF s.words = AnyWord THEN "word" ELSE CHOOSE w \in s.words : TRUE)
      [] s.type = "integer" -> Num(s.minimum)
      [] s.type = "array"   -> Array(1)
      [] s.type = "object"  -> Object

ValuesOf(s) ==
    {Absent, Null, Other, Str("word"), Str("empty"), Str("blank"), Str("large"), Array(0), Object}
    \cup {GoodValue(s)} \cup {Str(w) : w \in s.words}
    \cup (IF s.type # "integer" THEN {}
          ELSE {Num(n) : n \in {s.minimum - 1, s.maximum, s.maximum + 1, I32_MAX, I32_MAX + 1}})

\* Well-formed arguments, with up to two fields given any other value.
Variations(schema) ==
    UNION {UNION {{[f \in DOMAIN schema |-> IF f = g THEN v ELSE IF f = h THEN w
                                            ELSE GoodValue(schema[f])] :
                      v \in ValuesOf(schema[g]), w \in ValuesOf(schema[h])} :
                  h \in DOMAIN schema} : g \in DOMAIN schema}

AnyArgs == [scope |-> Absent]

\* What a wiki tool refuses although no inputSchema says so.
Unannounced(tool, a) ==
    \/ tool = "raw_append" /\ (a.title = Str("empty") \/ a.content \in {Str("empty"), Str("large")})
    \/ tool = "wiki_rebuild" /\ a.concept.word \notin ConceptNames
    \/ tool = "export" /\ a.cursor.word \notin CursorWords
    \/ tool = "query_nodes" /\ a.offset.n > I32_MAX

SchemaOf(tool, a) == IF tool \in Tools THEN tool_descriptor(tool) ELSE list(tool, a)

\* tool_descriptor and list against the handlers: arguments that satisfy the
\* advertised inputSchema are accepted, but for the exceptions of Unannounced.
AdvertisedIsAccepted == alg = "args" /\ done =>
    (Conforms(SchemaOf(in.tool, in.args), in.args) /\ Refused(out)
        => Unannounced(in.tool, in.args))

\* tool_descriptor and list against the handlers: what an accepted call sends
\* on satisfies the inputSchema too, advertised defaults included.
SentIsAdvertised == alg = "args" /\ done =>
    LET schema == SchemaOf(in.tool, in.args)
    IN  Refused(out) \/ \A f \in DOMAIN out \cap DOMAIN schema :
            /\ FieldConforms(schema[f], out[f])
            /\ schema[f].default # Absent => out[f] # Absent
            /\ in.args[f] = Absent /\ schema[f].default # Absent => out[f] = schema[f].default

\* The two descriptions that a tool gives of its arguments, the inputSchema and
\* the checks of its handler, say the same.
DescriptionsAgree == AdvertisedIsAccepted /\ SentIsAdvertised

(***************************************************************************)
(* LlmClient                                                               *)
(***************************************************************************)
LlmInputs ==
    {r \in [model : Models, object : Objects, before : Noise, after : Noise, got : 0..MaxText,
            split : Splits, finish : {"STOP", "MAX_TOKENS", "SAFETY", "missing"},
            transport : {"ok", "failed"}, blocked : BOOLEAN, candidate : BOOLEAN] :
        LET len == Len(r.before \o r.object \o r.after)
        IN  r.got <= len /\ (r.finish = "STOP" => r.got = len)}

Response(r) ==
    LET text == SubSeq(r.before \o r.object \o r.after, 1, r.got)
        cut == IF r.split < r.got THEN r.split ELSE r.got
    IN  [transport |-> r.transport, blocked |-> r.blocked, candidate |-> r.candidate,
         finish_reason |-> r.finish,
         parts |-> <<SubSeq(text, 1, cut), SubSeq(text, cut + 1, r.got)>>]

\* extract and synthesize: unless the text before it opens a brace, what is
\* decoded is the object the model wrote or nothing, also when the answer was
\* cut off without saying so.  Of an answer that arrived it holds the object
\* whole, and more only when braces before and after it enclose it; without
\* such braces the object is decoded, with every kind of model.
WholeAnswerOrNone == alg = "llm" /\ done =>
    LET arrived == in.got = Len(in.before \o in.object \o in.after)
        opened == Places(in.before, "{") # {}
        closed == Places(in.after, "}") # {}
    IN  /\ out.ok => in.finish \in {"STOP", "missing"}
        /\ out.ok /\ ~opened => out.text = in.object
        /\ out.ok /\ arrived =>
             /\ \E i \in DOMAIN out.text :
                  SubSeq(out.text, i, i + Len(in.object) - 1) = in.object
             /\ out.text = in.object \/ (opened /\ closed)
        /\ /\ in.finish = "STOP" /\ in.transport = "ok" /\ ~in.blocked /\ in.candidate
           /\ ~opened /\ ~closed
           => out.ok

(***************************************************************************)
(* Canonicalize                                                            *)
(***************************************************************************)
NameInputs == [names : CatalogueLists]

\* sanitize_catalogue_names_for_prompt after catalogue_canonical_names: every
\* name is one line that fits and that sanitizing again does not change; no
\* name is lost while there is room, unless one vanished that was not blank.
PromptNames == alg = "names" /\ done =>
    LET Trimmed(i) == TrimName(in.names[i])
        clean == {sanitize_catalogue_name(Trimmed(i)) : i \in DOMAIN in.names}
        Vanishes(i) == Trimmed(i) # <<>> /\ sanitize_catalogue_name(Trimmed(i)) = <<>>
    IN  /\ Len(out) <= MAX_CATALOGUE_ENTRIES
        /\ \A i \in DOMAIN out :
              /\ out[i] # <<>> /\ Bytes(out[i]) <= MAX_CATALOGUE_NAME_BYTES
              /\ ~ \E c \in ToSet(out[i]) : IsLineLike(c)
              /\ sanitize_catalogue_name(out[i]) = out[i]
              /\ out[i] \in clean
        /\ Len(out) < MAX_CATALOGUE_ENTRIES /\ (\A i \in DOMAIN in.names : ~Vanishes(i))
              => clean \ {<<>>} \subseteq ToSet(out)

CanonInputs ==
    [names : {<<>>, << <<"a">> >>, << <<"c">> >>},
     text : [bytes : TextSizes, blank : BOOLEAN],
     model : {m \in [status : {"success", "error"}, bytes_per_token : 1..4,
                    meant : AnswerSizes, sent : AnswerSizes,
                    ends : {"STOP", "SAFETY", "RECITATION", "OTHER", "missing"}] :
                m.sent <= m.meant /\ (m.ends = "STOP" => m.sent = m.meant)}]

\* canonicalize: the text ingested is the original or an answer at most half as
\* long again that the request's own token limit has not cut short: all the
\* model meant to write when it came to an end, what it had sent when its
\* provider stopped it for another reason, and a part of unknown length when no
\* reason is given.  A rewrite of that size is not lost to the token limit when
\* a token is worth two bytes.
RewriteUncut == alg = "canon" /\ done =>
    LET cap == output_cap_for(in.text.bytes)
    IN  /\ out.from = "answer" =>
             /\ out.bytes \in 1..cap /\ out.bytes <= in.model.sent
             /\ in.model.ends # "missing" => out.bytes = in.model.sent
             /\ in.model.ends = "STOP" => out.bytes = in.model.meant
        /\ out.from = "text" => out.bytes = in.text.bytes
        /\ /\ in.names = << <<"a">> >> /\ ~in.text.blank /\ in.text.bytes <= MAX_TEXT_BYTES
           /\ in.model.status = "success" /\ in.model.bytes_per_token >= 2
           /\ in.model.ends = "STOP" /\ in.model.meant \in 1..cap - 1
           => out.from = "answer"

\* What goes into the prompt is a clean list of names, and what replaces the
\* text is an answer that the token limit has not cut.
CanonicalizationSafe == PromptNames /\ RewriteUncut

(***************************************************************************)
(* AccessTokens                                                            *)
(***************************************************************************)
\* What comes after the "v" of a kid.
Version(kid) ==
    LET number[n \in 0..Len(kid)] == IF n <= 1 THEN 0 ELSE 10 * number[n - 1] + kid[n] - 48
    IN  number[Len(kid)]

KeyNamed(secret) == [base64 |-> TRUE, bytes |-> MIN_HS256_KEY_BYTES, secret |-> secret]
GoodKeys == {KeyNamed(secret) : secret \in Secrets}
ShortKeys == {[key EXCEPT !.bytes = @ - 1] : key \in GoodKeys}
GarbledKeys == {[key EXCEPT !.base64 = FALSE] : key \in GoodKeys}
Envs(values, n) ==
    UNION {[K -> values] : K \in {S \in SUBSET Kids : IsFiniteSet(S) /\ Cardinality(S) <= n}}

\* A server started with the variables before issues a token, one started with
\* those of after is shown it age seconds later.
JwtInputs == [generation : {1, 2}, age : Ages,
              before : Envs(GoodKeys \cup ShortKeys, MaxKeys),
              after : Envs(GoodKeys \cup GarbledKeys, MaxKeys + 1)]

KeysOf(env) == IF in.generation = 1 THEN WikiKeys(env) ELSE GraphKeys(env)

JwtResult ==
    LET before == KeysOf(in.before)
        after == KeysOf(in.after)
    IN  IF ~before.started \/ ~after.started THEN [started |-> FALSE]
        ELSE [started |-> TRUE, answer |-> verify(after, issue(before, "u1", 0), in.age),
              kid |-> issue(after, "u1", in.age).kid]

\* issue and verify: a token is good as long as it has not expired and the
\* server it is shown to has the key it was signed with under the same kid, so
\* keys may be added, or taken away once their tokens have expired, at any time.
TokenLife == alg = "jwt" /\ done /\ out.started =>
    LET signer == CHOOSE kid \in DOMAIN in.before :
                     \A k \in DOMAIN in.before : k = kid \/ KidBefore(k, kid)
    IN  out.answer = "u1" <=> /\ in.age <= ACCESS_TOKEN_TTL_SECS + LEEWAY
                              /\ signer \in DOMAIN in.after
                              /\ in.after[signer] = in.before[signer]

\* from_env: a server restarted with one more key signs with it, provided that
\* its kid has a larger number than the others and as many digits ("v10" sorts
\* before "v2").
NewKeySigns == alg = "jwt" /\ done /\ out.started =>
    \A kid \in DOMAIN in.after \ DOMAIN in.before :
        /\ DOMAIN in.after = DOMAIN in.before \cup {kid}
        /\ \A k \in DOMAIN in.before : Len(k) = Len(kid) /\ Version(k) < Version(kid)
        => out.kid = kid

\* from_env, issue and verify across a restart: a change of keys cuts no token
\* off whose key is still there, and a new key comes into use.
KeyRotation == TokenLife /\ NewKeySigns

(***************************************************************************)
(* AuthRedirect                                                            *)
(***************************************************************************)
RedirectInputs == [generation : {1, 2}, uri : Uris, code : Codes,
                   states : {<<>>} \cup {<<s>> : s \in UpToLen(StateChars, MaxState)}]

\* What a client reads: the values of a parameter of the query of url ...
ParamValues(url, param) ==
    LET End(i) == CHOOSE e \in i - 1..Len(url) :
                     /\ e = Len(url) \/ url[e + 1] = Ampersand
                     /\ \A j \in i..e : url[j] # Ampersand
    IN  {SubSeq(url, i + Len(param), End(i + Len(param))) : i \in ParamStarts(url, param)}

\* ... and the bytes they stand for, open being an escape read in part.
Unescaped(v) ==
    LET Digit(d) == IF d < 58 THEN d - 48 ELSE d - 55
        read[n \in 0..Len(v)] ==
            IF n = 0 THEN [bytes |-> <<>>, open |-> <<>>]
            ELSE LET r == read[n - 1]
                 IN  CASE Len(r.open) = 2 ->
                            [bytes |-> Append(r.bytes, 16 * Digit(r.open[2]) + Digit(v[n])),
                             open |-> <<>>]
                       [] Len(r.open) = 1 \/ (r.open = <<>> /\ v[n] = Percent) ->
                            [bytes |-> r.bytes, open |-> Append(r.open, v[n])]
                       [] OTHER -> [bytes |-> Append(r.bytes, v[n]), open |-> <<>>]
    IN  read[Len(v)].bytes

\* callback_google: the client reads exactly the code and its own state from
\* the redirect, whatever characters the state has and whether or not the
\* redirect_uri has a query.  Gen 1 keeps this for states in ASCII only.
ClientGetsItsState == alg = "redirect" /\ done =>
    /\ ParamValues(out, CodeParam) = {in.code}
    /\ LET states == {Unescaped(v) : v \in ParamValues(out, StateParam)}
       IN  \/ states = {as_bytes(s) : s \in ToSet(in.states)}
           \/ in.generation = 1 /\ \E s \in ToSet(in.states) : \E c \in ToSet(s) : c > 127

(***************************************************************************)
(* The specification                                                       *)
(***************************************************************************)
ArgsInput == \E tool \in Tools \cup WikiTools :
    in \in [tool : {tool}, args : Variations(SchemaOf(tool, AnyArgs))]

Init == /\ done = FALSE
        /\ out = <<>>
        /\ \/ alg = "budget" /\ in \in BudgetInputs
           \/ alg = "rate" /\ in \in RateInputs
           \/ alg = "input" /\ in \in InputInputs
           \/ alg = "words" /\ in \in WordInputs
           \/ alg = "search" /\ in \in SearchInputs
           \/ alg = "nodes" /\ in \in NodesInputs
           \/ alg = "schemas" /\ in \in SchemaInputs
           \/ alg = "args" /\ ArgsInput
           \/ alg = "llm" /\ in \in LlmInputs
           \/ alg = "names" /\ in \in NameInputs
           \/ alg = "canon" /\ in \in CanonInputs
           \/ alg = "jwt" /\ in \in JwtInputs
           \/ alg = "redirect" /\ in \in RedirectInputs

Run(name, result) == /\ alg = name /\ ~done /\ done' = TRUE
                     /\ out' = result
                     /\ UNCHANGED <<alg, in>>

Next ==
    \/ Run("budget", Affected(in.existing, Cardinality(in.existing),
                              in.affected_existing, in.new_concepts))
    \/ Run("rate", Allowed(CallsOf(in)))
    \/ Run("input", build(TableOf(in.table), "personal", "u1", {"rust"}, in.refs, in.new_raws))
    \/ Run("words", scan_text_with_catalogue(in, in.text))
    \/ Run("search", MergedSearch(in.personal, in.shared, in.top_k))
    \/ Run("nodes", MergedNodes(in.personal, in.shared, in.offset, in.limit))
    \/ Run("schemas", filter_schemas_for_user_and_shared(in.schemas, "user-1", "shared"))
    \/ Run("args", IF in.tool \in Tools THEN Request(in.tool, in.args)
                   ELSE WikiArgs(in.tool, in.args))
    \/ Run("llm", extract(in.model, Response(in)))
    \/ Run("names", sanitize_catalogue_names_for_prompt(catalogue_canonical_names(<<>>, in.names)))
    \/ Run("canon", canonicalize(in.names, in.text, in.model))
    \/ Run("jwt", JwtResult)
    \/ Run("redirect", RedirectUrl(in.generation, in.uri, in.code, in.states))

Spec == Init /\ [][Next]_vars
=============================================================================
