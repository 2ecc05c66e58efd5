---------------------------- MODULE WikiToolArgs ----------------------------
(***************************************************************************)
(* The arguments of the nine wiki tools, in the terms of ToolArgs: what    *)
(* tools/list advertises (crates/llm-memory-server/src/mcp/tools/mod.rs)   *)
(* and what each tool's Args and its own checks accept (.../tools/*.rs).   *)
(* A missing or null Option field is None; no string is trimmed.           *)
(***************************************************************************)
EXTENDS ToolArgs

CONSTANTS
    ConceptNames,  \* the words concept::is_valid accepts
    CursorWords    \* the words an export cursor may be

WikiScopes == {"all", "personal", "shared"}

RawAppendSchema ==
    [title |-> Required(String(Root)), content |-> Required(String(Root)),
     source |-> Required(String(Root)), tags |-> Items(Root, 0),
     tag |-> Required(String("tags"))]
RawReadSchema == [id |-> Required(String(Root))]
RawSearchSchema ==
    [query |-> Required(String(Root)), scope |-> Enum(Root, WikiScopes, Absent),
     limit |-> Integer(Root, 1, 100, Absent)]
WikiReadSchema == [concept |-> Required(String(Root)), scope |-> Enum(Root, WikiScopes, Absent)]
WikiListSchema == [scope |-> Enum(Root, WikiScopes, Absent)]
WikiRebuildSchema == [concept |-> String(Root)]
\* required and oneOf: shared_memory_id is required iff scope is "shared".
SchemaReadSchema(a) ==
    [scope |-> Required(Enum(Root, {"personal", "shared"}, Absent)),
     shared_memory_id |-> IF a.scope = Str("shared") THEN Required(String(Root)) ELSE String(Root)]
SchemaUpdateSchema == [content |-> Required(String(Root))]
ExportSchema == [cursor |-> String(Root)]

\* A String and an Option<String> field of an Args struct.
StringField(v) == IF v.kind = "string" THEN v ELSE Bad
OptionString(v) == IF IsNone(v) THEN Absent ELSE StringField(v)

\* None and "all" both mean every scope, sent as None.
parse_scope_arg(v) ==
    LET s == OptionString(v)
    IN  IF s = Str("all") THEN Absent
        ELSE IF s.kind # "string" \/ s.word \in {"personal", "shared"} THEN s ELSE Bad

\* Not refused outside the advertised bounds, but clamped into them.
SearchLimit(v) ==
    IF IsNone(v) THEN Num(20) ELSE IF v.kind # "integer" THEN Bad
    ELSE Num(IF v.n < 1 THEN 1 ELSE IF v.n > 100 THEN 100 ELSE v.n)

raw_append_args(a) ==
    [title   |-> IF a.title = Str("empty") THEN Bad ELSE StringField(a.title),
     content |-> IF a.content \in {Str("empty"), Str("large")} THEN Bad ELSE StringField(a.content),
     source  |-> StringField(a.source),
     tags    |-> IF IsNone(a.tags) THEN Absent
                 ELSE IF a.tags.kind = "array" /\ (a.tags.n = 0 \/ a.tag.kind = "string")
                 THEN a.tags ELSE Bad]

raw_search_args(a) ==
    [query |-> StringField(a.query), scope |-> parse_scope_arg(a.scope),
     limit |-> SearchLimit(a.limit)]

wiki_rebuild_args(a) ==
    LET c == OptionString(a.concept)
    IN  [concept |-> IF c.kind = "string" /\ c.word \notin ConceptNames THEN Bad ELSE c]

schema_read_args(a) ==
    LET id == OptionString(a.shared_memory_id)
        known == a.scope \in {Str("personal"), Str("shared")}
    IN  [scope |-> IF known THEN a.scope ELSE Bad,
         shared_memory_id |-> IF a.scope = Str("shared") /\ id = Absent THEN Bad ELSE id]

\* Not given and empty begin the export; anything else must parse.
export_args(a) ==
    LET c == OptionString(a.cursor)
    IN  [cursor |-> IF c.kind = "string" /\ c.word \notin CursorWords \cup {"empty"} THEN Bad ELSE c]

WikiTools == {"raw_append", "raw_read", "raw_search", "wiki_read", "wiki_list",
              "wiki_rebuild", "schema_read", "schema_update", "export"}

list(tool, a) ==
    CASE tool = "raw_append"    -> RawAppendSchema
      [] tool = "raw_read"      -> RawReadSchema
      [] tool = "raw_search"    -> RawSearchSchema
      [] tool = "wiki_read"     -> WikiReadSchema
      [] tool = "wiki_list"     -> WikiListSchema
      [] tool = "wiki_rebuild"  -> WikiRebuildSchema
      [] tool = "schema_read"   -> SchemaReadSchema(a)
      [] tool = "schema_update" -> SchemaUpdateSchema
      [] tool = "export"        -> ExportSchema

WikiArgs(tool, a) ==
    CASE tool = "raw_append"    -> raw_append_args(a)
      [] tool = "raw_read"      -> [id |-> StringField(a.id)]
      [] tool = "raw_search"    -> raw_search_args(a)
      [] tool = "wiki_read"     -> [concept |-> StringField(a.concept),
                                    scope |-> parse_scope_arg(a.scope)]
      [] tool = "wiki_list"     -> [scope |-> parse_scope_arg(a.scope)]
      [] tool = "wiki_rebuild"  -> wiki_rebuild_args(a)
      [] tool = "schema_read"   -> schema_read_args(a)
      [] tool = "schema_update" -> [content |-> StringField(a.content)]
      [] tool = "export"        -> export_args(a)
=============================================================================
