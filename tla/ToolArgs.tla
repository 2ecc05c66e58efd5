------------------------------ MODULE ToolArgs ------------------------------
(***************************************************************************)
(* The arguments of a tool: what the vegapunk wrapper advertises in its    *)
(* inputSchemas (crates/vegapunk-memory-server/src/mcp/tools/mod.rs) and   *)
(* what its handlers accept and send on (.../tools/handlers.rs).           *)
(*                                                                         *)
(* An argument object is a record of values, one per field.  A nested      *)
(* field is a field of its own that names its parent; of the items of an   *)
(* array one stands for all.  A string is "empty", "blank" (white space),  *)
(* "large" (more than a megabyte) or a word.                               *)
(***************************************************************************)
EXTENDS Integers

CONSTANTS
    I32_MAX,    \* i32::MAX
    MaxInteger  \* the largest integer a client is assumed to write

ASSUME IntegerAssumption == I32_MAX \in Nat /\ MaxInteger \in Nat /\ I32_MAX < MaxInteger

Value(kind, word, n) == [kind |-> kind, word |-> word, n |-> n]
Absent == Value("absent", "", 0)
Null == Value("null", "", 0)
Other == Value("other", "", 0)      \* a value of any other JSON type
Str(word) == Value("string", word, 0)
Num(n) == Value("integer", "", n)
Array(n) == Value("array", "", n)
Object == Value("object", "", 0)
Bad == Value("bad", "", 0)          \* in a request: the field was refused

IsNone(v) == v.kind \in {"absent", "null"}

\* The fields of two records.
Joined(r, s) == [f \in DOMAIN r \cup DOMAIN s |-> IF f \in DOMAIN r THEN r[f] ELSE s[f]]

(***************************************************************************)
(* JSON Schema, as far as the descriptors use it.                          *)
(***************************************************************************)
Root == "arguments"
AnyWord == {}

Spec0(type, parent) ==
    [type |-> type, parent |-> parent, required |-> FALSE, pattern |-> FALSE,
     words |-> AnyWord, minimum |-> 0, maximum |-> 0, default |-> Absent]
Required(s) == [s EXCEPT !.required = TRUE]

String(parent) == Spec0("string", parent)
Solid(parent) == [String(parent) EXCEPT !.pattern = TRUE]   \* minLength 1, pattern \S
Enum(parent, words, default) == [String(parent) EXCEPT !.words = words, !.default = default]
Integer(parent, lo, hi, default) ==
    [Spec0("integer", parent) EXCEPT !.minimum = lo, !.maximum = hi, !.default = default]
Items(parent, min) == [Spec0("array", parent) EXCEPT !.minimum = min]
Nested(parent) == Spec0("object", parent)

\* Whether one value satisfies the keywords of its property.
FieldConforms(s, v) ==
    IF v = Absent THEN ~s.required
    ELSE /\ v.kind = s.type
         /\ s.pattern => v.word \notin {"empty", "blank"}
         /\ s.words # AnyWord => v.word \in s.words
         /\ s.type = "integer" => v.n \in s.minimum..s.maximum
         /\ s.type = "array" => v.n >= s.minimum

\* An object conforms when every property of every object it holds does.
Conforms(schema, a) ==
    LET Holds(v) == v.kind = "object" \/ (v.kind = "array" /\ v.n > 0)
        reached[f \in DOMAIN schema] ==
            \/ schema[f].parent = Root
            \/ Holds(a[schema[f].parent]) /\ reached[schema[f].parent]
    IN  \A f \in DOMAIN schema : reached[f] => FieldConforms(schema[f], a[f])

(***************************************************************************)
(* tool_descriptor                                                         *)
(***************************************************************************)
SEARCH_LIMIT_MIN == 1
SEARCH_LIMIT_MAX == 100
SEARCH_LIMIT_DEFAULT == 10
SEARCH_VALID_MODES == {"local", "global", "hybrid"}
QUERY_LIMIT_MIN == 1
QUERY_LIMIT_MAX == 1000
QUERY_LIMIT_DEFAULT == 50
SORT_ORDERS == {"asc", "desc"}
FILTER_OPS == {"eq", "gt", "gte", "lt", "lte"}
DEPTH_MIN == 1
DEPTH_MAX == 10
DEPTH_DEFAULT == 5

SearchSchema ==
    [query |-> Required(Solid(Root)),
     mode  |-> Enum(Root, SEARCH_VALID_MODES, Str("hybrid")),
     limit |-> Integer(Root, SEARCH_LIMIT_MIN, SEARCH_LIMIT_MAX, Num(SEARCH_LIMIT_DEFAULT))]

IngestSchema ==
    [messages    |-> Required(Items(Root, 1)),
     message     |-> Required(Nested("messages")),
     id          |-> String("message"),
     text        |-> Required(Solid("message")),
     metadata    |-> Required(Nested("message")),
     source_type |-> Required(Solid("metadata")),
     author      |-> Required(Solid("metadata")),
     author_id   |-> String("metadata"),
     channel     |-> Required(Solid("metadata")),
     channel_id  |-> String("metadata"),
     thread_id   |-> String("metadata"),
     timestamp   |-> Required(Solid("metadata"))]

IngestRawSchema ==
    [text        |-> Required(Solid(Root)),
     metadata    |-> Required(Nested(Root)),
     source_type |-> Required(Solid("metadata")),
     author      |-> String("metadata"),
     channel     |-> String("metadata"),
     timestamp   |-> Solid("metadata")]

FilterProperties ==
    [filters |-> Items(Root, 0),
     filter  |-> Required(Nested("filters")),
     key     |-> Required(Solid("filter")),
     op      |-> Required(Enum("filter", FILTER_OPS, Absent)),
     value   |-> Required(String("filter"))]

QueryNodesSchema ==
    Joined(FilterProperties,
           [node_type  |-> Required(Solid(Root)),
            sort_by    |-> Solid(Root),
            sort_order |-> Enum(Root, SORT_ORDERS, Str("desc")),
            limit      |-> Integer(Root, QUERY_LIMIT_MIN, QUERY_LIMIT_MAX, Num(QUERY_LIMIT_DEFAULT)),
            offset     |-> Integer(Root, 0, MaxInteger, Num(0))])     \* no maximum

StatsSchema == Joined(FilterProperties, [node_type |-> Solid(Root)])

ChainSchema ==
    [node_id   |-> Required(Solid(Root)),
     max_depth |-> Integer(Root, DEPTH_MIN, DEPTH_MAX, Num(DEPTH_DEFAULT))]

FeedbackSchema ==
    [search_id |-> Required(Solid(Root)),
     rating    |-> Required(Integer(Root, 1, 5, Absent)),
     comment   |-> String(Root)]

JobStatusSchema == [msg_id |-> Required(Solid(Root))]

(***************************************************************************)
(* The handlers.  A request is a record of what is sent, Absent for None;  *)
(* with a Bad field it is not sent.                                        *)
(***************************************************************************)
Refused(request) == \E f \in DOMAIN request : request[f] = Bad
RefusedRequest == [refused |-> Bad]

require_str_field(v) ==
    IF v.kind = "string" /\ v.word \notin {"empty", "blank"} THEN v ELSE Bad

\* White space is the same as leaving the field out.
optional_str_field(v) ==
    IF IsNone(v) \/ (v.kind = "string" /\ v.word \in {"empty", "blank"}) THEN Absent
    ELSE IF v.kind = "string" THEN v ELSE Bad

OneOf(v, words, default) ==
    IF IsNone(v) THEN default
    ELSE IF v.kind = "string" /\ v.word \in words THEN v ELSE Bad

\* Mutant: the upper bound is exclusive.
OptionalBoundedExclusive(v, min, max, default) ==
    IF IsNone(v) THEN default
    ELSE IF v.kind = "integer" /\ v.n >= min /\ v.n < max THEN v ELSE Bad

optional_bounded_i32(v, min, max, default) ==
    IF IsNone(v) THEN default
    ELSE IF v.kind = "integer" /\ v.n \in min..max THEN v ELSE Bad

build_search_request(a) ==
    [query |-> require_str_field(a.query),
     mode  |-> OneOf(a.mode, SEARCH_VALID_MODES, Str("hybrid")),
     limit |-> optional_bounded_i32(a.limit, SEARCH_LIMIT_MIN, SEARCH_LIMIT_MAX,
                                    Num(SEARCH_LIMIT_DEFAULT))]

build_ingest_request(a) ==
    IF ~ /\ a.messages.kind = "array" /\ a.messages.n > 0
         /\ a.message.kind = "object" /\ a.metadata.kind = "object"
    THEN RefusedRequest
    ELSE [id          |-> optional_str_field(a.id),
          text        |-> require_str_field(a.text),
          source_type |-> require_str_field(a.source_type),
          author      |-> require_str_field(a.author),
          author_id   |-> optional_str_field(a.author_id),
          channel     |-> require_str_field(a.channel),
          channel_id  |-> optional_str_field(a.channel_id),
          thread_id   |-> optional_str_field(a.thread_id),
          timestamp   |-> require_str_field(a.timestamp)]

build_ingest_raw_request(a) ==
    IF a.metadata.kind # "object" THEN RefusedRequest
    ELSE [text        |-> require_str_field(a.text),
          source_type |-> require_str_field(a.source_type),
          author      |-> optional_str_field(a.author),
          channel     |-> optional_str_field(a.channel),
          timestamp   |-> optional_str_field(a.timestamp)]

\* The value of a filter may be empty, but not missing.
build_attribute_filter(a) ==
    IF a.filter.kind # "object" THEN RefusedRequest
    ELSE LET op == require_str_field(a.op)
         IN  [key   |-> require_str_field(a.key),
              op    |-> IF op.word \in FILTER_OPS THEN op ELSE Bad,
              value |-> IF a.value.kind = "string" THEN a.value ELSE Bad]

build_attribute_filters_from(a) ==
    IF IsNone(a.filters) \/ a.filters = Array(0) THEN [filters |-> Absent]
    ELSE IF a.filters.kind = "array" THEN build_attribute_filter(a)
    ELSE RefusedRequest

build_query_nodes_request(a) ==
    Joined(build_attribute_filters_from(a),
           [node_type  |-> require_str_field(a.node_type),
            sort_by    |-> optional_str_field(a.sort_by),
            sort_order |-> OneOf(a.sort_order, SORT_ORDERS, Str("desc")),
            limit      |-> optional_bounded_i32(a.limit, QUERY_LIMIT_MIN, QUERY_LIMIT_MAX,
                                                Num(QUERY_LIMIT_DEFAULT)),
            offset     |-> optional_bounded_i32(a.offset, 0, I32_MAX, Num(0))])

build_get_stats_request(a) ==
    Joined(build_attribute_filters_from(a), [node_type |-> optional_str_field(a.node_type)])

build_get_traceable_chain_request(a) ==
    [node_id   |-> require_str_field(a.node_id),
     max_depth |-> optional_bounded_i32(a.max_depth, DEPTH_MIN, DEPTH_MAX, Num(DEPTH_DEFAULT))]

\* A comment that is given must be a string; null is refused too.
feedback_request(a) ==
    [search_id |-> require_str_field(a.search_id),
     rating    |-> IF a.rating.kind = "integer" /\ a.rating.n \in 1..5 THEN a.rating ELSE Bad,
     comment   |-> IF a.comment = Absent THEN Str("empty")
                   ELSE IF a.comment.kind = "string" THEN a.comment ELSE Bad]

get_job_status_request(a) == [msg_id |-> require_str_field(a.msg_id)]

Tools == {"search", "ingest", "ingest_raw", "query_nodes", "stats",
          "get_traceable_chain", "feedback", "get_job_status"}

tool_descriptor(tool) ==
    CASE tool = "search"              -> SearchSchema
      [] tool = "ingest"              -> IngestSchema
      [] tool = "ingest_raw"          -> IngestRawSchema
      [] tool = "query_nodes"         -> QueryNodesSchema
      [] tool = "stats"               -> StatsSchema
      [] tool = "get_traceable_chain" -> ChainSchema
      [] tool = "feedback"            -> FeedbackSchema
      [] tool = "get_job_status"      -> JobStatusSchema

Request(tool, a) ==
    CASE tool = "search"              -> build_search_request(a)
      [] tool = "ingest"              -> build_ingest_request(a)
      [] tool = "ingest_raw"          -> build_ingest_raw_request(a)
      [] tool = "query_nodes"         -> build_query_nodes_request(a)
      [] tool = "stats"               -> build_get_stats_request(a)
      [] tool = "get_traceable_chain" -> build_get_traceable_chain_request(a)
      [] tool = "feedback"            -> feedback_request(a)
      [] tool = "get_job_status"      -> get_job_status_request(a)
=============================================================================
