---------------------------- MODULE VegapunkMcp ----------------------------
(***************************************************************************)
(* The MCP endpoint of vegapunk-memory-server (mcp/transport.rs,           *)
(* mcp/tools/mod.rs, mcp/tools/handlers.rs) and the tool_ownership table.  *)
(* A POST is one JSON-RPC message or a batch; the entries of a batch run   *)
(* one after the other, POSTs run concurrently, and a handler may be       *)
(* overtaken at each of its awaits.  search and ingest_raw record the ids  *)
(* that vegapunk hands out, feedback and get_job_status check them.        *)
(* Whether the arguments of a call are well formed is decided in ToolArgs, *)
(* what the merged results are in Merge, how ingest waits in Ingest.       *)
(***************************************************************************)
EXTENDS Sequences, Naturals

CONSTANTS
    None,
    Users,         \* rows of users; a row's vegapunk_schema is named by its user
    SharedSchema,  \* cfg.shared_schema_name
    Ids,           \* search_ids and msg_ids
    Issuable,      \* <<kind, id>>: what vegapunk may hand out
    MaxChunks,     \* bound on the msg_ids of one ingest_raw
    JsonIds,       \* JSON-RPC ids that clients choose
    Bodies,        \* HTTP bodies that clients send
    Slots          \* POSTs handled at the same time

ASSUME McpAssumption ==
    /\ None \notin Users \cup Ids
    /\ Issuable \subseteq {"search", "msg"} \X Ids
    /\ SharedSchema \notin Users
    /\ MaxChunks \in Nat

VARIABLES
    ownership,  \* ownership[k]: user_id of row k of tool_ownership
    slots,      \* slots[s]: the POST being handled in slot s
    rpc,        \* the calls to vegapunk made by the last step
    told        \* <<u, k>>: ownership_recorded was true for k in a result of u

vars == <<ownership, slots, rpc, told>>

-----------------------------------------------------------------------------
(* Data                                                                    *)

\* OwnershipKind: the two name spaces of foreign_id.
Keys == {"search", "msg"} \X Ids

\* TOOL_NAMES.
Tools == {"search", "ingest", "ingest_raw", "query_nodes", "get_schema", "list_schemas",
          "stats", "get_traceable_chain", "feedback", "get_job_status"}

\* "tools/list" and so on; "malformed" stands for an entry that is no JSON-RPC
\* 2.0 request or whose id has a wrong type.
Methods == {"malformed", "notifications/*", "initialize", "ping", "tools/list",
            "tools/call", "unknown"}

\* ok: the handler's build_* accepts the arguments; id: search_id or msg_id;
\* schema: what the client wrote there, if anything.
Args == [ok : BOOLEAN, id : Ids \cup {None}, schema : Users \cup {None}]

\* An absent id is "none", the JSON null is "null".  params that name no known
\* tool have tool None.
RpcIds == JsonIds \cup {"none", "null"}
JsonRpcRequest == [id : RpcIds, method : Methods, tool : Tools \cup {None}, args : Args]

Body == [parsed : BOOLEAN, batch : BOOLEAN, entries : Seq(JsonRpcRequest)]

\* "result" and "error" are tool results without and with isError, "denied" is
\* the one of ownership_denied_content.
Replies == {"result", "error", "denied", "-32600", "-32601", "-32602", "-32700"}

\* Outcome: a Notification has neither an id nor a reply.
Outcome == [id : RpcIds, reply : Replies \cup {"none"}]
Notification == [id |-> "none", reply |-> "none"]

\* A handler is at the await that its step names: "record", "recheck" in
\* tool_ownership::record, "record_many", "check_many" in record_many, "send"
\* in front of the call of a verified id; a tool's name when it has just begun.
Steps == Tools \cup {"idle", "entry", "record", "recheck", "record_many", "check_many",
                     "send", "answered"}

Slot == [step : Steps, user : Users \cup {None}, body : Body \cup {None},
         out : Seq(Outcome), rows : Seq(Keys), todo : Seq(Keys)]

\* The clients send bodies, the tools that look an id up accept no call without
\* one (require_str_field), and schemas and ids are different things.
ASSUME BodiesAssumption ==
    /\ Bodies \subseteq Body
    /\ \A b \in Bodies : \A i \in DOMAIN b.entries :
          b.entries[i].tool \in {"feedback", "get_job_status"} /\ b.entries[i].args.ok
            => b.entries[i].args.id \in Ids
    /\ (Users \cup {SharedSchema}) \cap Keys = {}

Idle == [step |-> "idle", user |-> None, body |-> None, out |-> <<>>, rows |-> <<>>,
         todo |-> <<>>]

Init == /\ ownership = [k \in Keys |-> None]
        /\ slots = [s \in Slots |-> Idle]
        /\ rpc = {}
        /\ told = {}

-----------------------------------------------------------------------------
(* The transport                                                           *)

At(s, step) == slots[s].step = step

\* A body that is not JSON, or an empty batch, is answered at once.
handle(s, u, b) ==
    /\ At(s, "idle")
    /\ LET refused == IF ~b.parsed THEN <<[id |-> "null", reply |-> "-32700"]>>
                      ELSE IF b.entries = <<>> THEN <<[id |-> "null", reply |-> "-32600"]>>
                      ELSE <<>>
       IN slots' = [slots EXCEPT ![s] =
              [Idle EXCEPT !.step = IF refused = <<>> THEN "entry" ELSE "answered",
                           !.user = u, !.body = b, !.out = refused]]
    /\ rpc' = {}
    /\ UNCHANGED <<ownership, told>>

\* require_auth: the caller's row gives the tenant; without one there is a 401.
require_auth(s, bearer, b) == bearer \in Users /\ handle(s, bearer, b)

Current(s) == slots[s].body.entries[Len(slots[s].out) + 1]

\* Mutant: an entry that cannot be understood is answered only if it has an id.
OutcomeOfSilent(e, reply) ==
    IF e.id = "none" THEN Notification ELSE [id |-> e.id, reply |-> reply]

\* What an entry contributes: nothing when the client sent no id.
OutcomeOf(e, reply) ==
    IF e.method = "malformed" THEN [id |-> "null", reply |-> "-32600"]
    ELSE IF e.id = "none" THEN Notification
    ELSE [id |-> e.id, reply |-> reply]

\* The entry's outcome is there; the loop goes on or the POST is answered.
Finish(s, reply) ==
    slots' = [slots EXCEPT
        ![s].step = IF Len(slots[s].out) + 1 = Len(slots[s].body.entries)
                    THEN "answered" ELSE "entry",
        ![s].out = Append(@, OutcomeOf(Current(s), reply)),
        ![s].rows = <<>>, ![s].todo = <<>>]

Goto(s, step) == slots' = [slots EXCEPT ![s].step = step]

\* The reply of the methods that run no tool.  A notifications/* with an id is
\* no notification and is refused.
DispatchReply(e) ==
    CASE e.method \in {"malformed", "notifications/*"} -> "-32600"
      [] e.method = "unknown" -> "-32601"
      [] OTHER -> "result"

dispatch_one(s) ==
    /\ At(s, "entry")
    /\ Current(s).method # "tools/call"
    /\ Finish(s, DispatchReply(Current(s)))
    /\ rpc' = {}
    /\ UNCHANGED <<ownership, told>>

\* get_schema and list_schemas look at no arguments.
NoArgs == {"get_schema", "list_schemas"}

\* tools::call runs even when the client sent no id.
call(s) ==
    /\ At(s, "entry")
    /\ Current(s).method = "tools/call"
    /\ LET e == Current(s) IN
          IF e.tool = None THEN Finish(s, "-32602")
          ELSE IF ~e.args.ok /\ e.tool \notin NoArgs THEN Finish(s, "error")
          ELSE Goto(s, e.tool)
    /\ rpc' = {}
    /\ UNCHANGED <<ownership, told>>

\* The client is sent the outcomes that are no notifications, in their order.
Deliver(s) ==
    /\ At(s, "answered")
    /\ slots' = [slots EXCEPT ![s] = Idle]
    /\ rpc' = {}
    /\ UNCHANGED <<ownership, told>>

\* The client goes away and axum drops the handler, or the server is restarted.
Abandon(s) ==
    /\ ~At(s, "idle")
    /\ slots' = [slots EXCEPT ![s] = Idle]
    /\ rpc' = {}
    /\ UNCHANGED <<ownership, told>>

-----------------------------------------------------------------------------
(* The tool_ownership table                                                *)

\* Mutant: any recorded id passes.
verifyAny(k, u) == ownership[k] # None

verify(k, u) == ownership[k] = u

\* Mutant: INSERT OR REPLACE.
InsertReplace(K, u) == ownership' = [k \in Keys |-> IF k \in K THEN u ELSE ownership[k]]

\* INSERT OR IGNORE, atomically for the rows K.
Insert(K, u) ==
    ownership' = [k \in Keys |-> IF k \in K /\ ownership[k] = None THEN u ELSE ownership[k]]

\* The row at the head has been dealt with, recorded or not.
NextRow(s) ==
    IF Len(slots[s].rows) = 1 THEN Finish(s, "result")
    ELSE slots' = [slots EXCEPT ![s].step = "record", ![s].rows = Tail(@)]

\* record: a row of its own was inserted, or the row that is there has to be
\* looked at, or the write failed and the result says false.
record(s) ==
    LET k == Head(slots[s].rows)
        u == slots[s].user
    IN /\ At(s, "record")
       /\ \/ /\ ownership[k] = None
             /\ Insert({k}, u)
             /\ told' = told \cup {<<u, k>>}
             /\ NextRow(s)
          \/ /\ ownership[k] # None
             /\ Goto(s, "recheck")
             /\ UNCHANGED <<ownership, told>>
          \/ /\ NextRow(s)
             /\ UNCHANGED <<ownership, told>>
       /\ rpc' = {}

\* Mutant: an ignored INSERT counts as recorded.
recheckTrusting(s) ==
    LET k == Head(slots[s].rows)
        u == slots[s].user
    IN /\ At(s, "recheck")
       /\ told' = told \cup {<<u, k>>}
       /\ NextRow(s)
       /\ rpc' = {}
       /\ UNCHANGED ownership

recheck(s) ==
    LET k == Head(slots[s].rows)
        u == slots[s].user
    IN /\ At(s, "recheck")
       /\ \/ verify(k, u) /\ told' = told \cup {<<u, k>>}
          \/ UNCHANGED told
       /\ NextRow(s)
       /\ rpc' = {}
       /\ UNCHANGED ownership

\* record_many: one transaction for all rows, or none when it fails.
record_many(s) ==
    LET K == {slots[s].rows[i] : i \in 1..Len(slots[s].rows)}
    IN /\ At(s, "record_many")
       /\ \/ /\ Insert(K, slots[s].user)
             /\ slots' = [slots EXCEPT ![s].step = "check_many", ![s].todo = slots[s].rows]
          \/ /\ Finish(s, "result")
             /\ UNCHANGED ownership
       /\ rpc' = {}
       /\ UNCHANGED told

\* The rows are then read one by one; the result is true when all are the caller's.
check_many(s) ==
    LET u == slots[s].user
        todo == slots[s].todo
    IN /\ At(s, "check_many")
       /\ \/ /\ todo = <<>>
             /\ told' = told \cup {<<u, slots[s].rows[i]>> : i \in 1..Len(slots[s].rows)}
             /\ Finish(s, "result")
          \/ /\ todo # <<>>
             /\ verify(Head(todo), u)
             /\ slots' = [slots EXCEPT ![s].todo = Tail(@)]
             /\ UNCHANGED told
          \/ /\ todo # <<>>   \* another user's row, or the read failed
             /\ Finish(s, "result")
             /\ UNCHANGED told
       /\ rpc' = {}
       /\ UNCHANGED ownership

-----------------------------------------------------------------------------
(* The handlers                                                            *)

\* Mutant: the builders let the client choose the schema.
RequestSchemaOfClient(u, args) == IF args.schema # None THEN args.schema ELSE u

\* Mutant: the schema is an argument like any other.
RequestSchemaAsArgument(u, args) == args.schema

\* The build_* functions put the caller's own schema into the request and never
\* read arguments.schema.
RequestSchema(u, args) == u

\* The caller's own schema and the shared one, asked at the same time.
FanOut(s) ==
    LET u == slots[s].user
    IN {[user |-> u, on |-> RequestSchema(u, Current(s).args)], [user |-> u, on |-> SharedSchema]}

Issued(kind) == {k \in Issuable : k[1] = kind}

\* search: the personal reply is needed, the shared one is best effort; their ids
\* are recorded one after the other, unless vegapunk gave none.
search(s) ==
    /\ At(s, "search")
    /\ rpc' = FanOut(s)
    /\ \/ Finish(s, "error")
       \/ \E personal, shared \in {<<>>} \cup {<<k>> : k \in Issued("search")} :
             LET rows == personal \o shared
             IN IF rows = <<>> THEN Finish(s, "result")
                ELSE slots' = [slots EXCEPT ![s].step = "record", ![s].rows = rows]
    /\ UNCHANGED <<ownership, told>>

\* The msg_ids of an ingest_raw.
MsgIds == UNION {[1..n -> Issued("msg")] : n \in 0..MaxChunks}

\* ingest_raw: the catalogue is read from both schemas and the text is sent to
\* the caller's; it is refused, fails, or comes back with one id per chunk.
ingest_raw(s) ==
    /\ At(s, "ingest_raw")
    /\ rpc' = FanOut(s)
    /\ \/ Finish(s, "error")
       \/ \E rows \in MsgIds :
             IF rows = <<>> THEN Finish(s, "result")
             ELSE slots' = [slots EXCEPT ![s].step = "record_many", ![s].rows = rows]
    /\ UNCHANGED <<ownership, told>>

\* ingest: as ingest_raw, but vegapunk's reply names no ids.
ingest(s) ==
    /\ At(s, "ingest")
    /\ rpc' = FanOut(s)
    /\ Finish(s, "error") \/ Finish(s, "result")
    /\ UNCHANGED <<ownership, told>>

\* query_nodes, stats and get_schema fail when the personal reply does.
ReadBoth(s) ==
    /\ \E personal, shared \in {"ok", "failed"} :
          Finish(s, IF personal = "ok" THEN "result" ELSE "error")
    /\ rpc' = FanOut(s)
    /\ UNCHANGED <<ownership, told>>

query_nodes(s) == At(s, "query_nodes") /\ ReadBoth(s)
stats(s) == At(s, "stats") /\ ReadBoth(s)
get_schema(s) == At(s, "get_schema") /\ ReadBoth(s)

\* get_traceable_chain: a personal NotFound is made good by a shared reply.
get_traceable_chain(s) ==
    /\ At(s, "get_traceable_chain")
    /\ \E personal, shared \in {"ok", "not_found", "failed"} :
          Finish(s, IF personal = "ok" \/ (personal = "not_found" /\ shared = "ok")
                    THEN "result" ELSE "error")
    /\ rpc' = FanOut(s)
    /\ UNCHANGED <<ownership, told>>

\* list_schemas names no tenant; what the caller is shown of it is in Merge.
list_schemas(s) ==
    /\ At(s, "list_schemas")
    /\ Finish(s, "error") \/ Finish(s, "result")
    /\ rpc' = {}
    /\ UNCHANGED <<ownership, told>>

\* The id that feedback or get_job_status names, with its kind.
KeyOf(s) == <<IF Current(s).tool = "feedback" THEN "search" ELSE "msg", Current(s).args.id>>

\* feedback and get_job_status first read the row of the id; an id without one
\* is denied like a foreign one, and a failing read is an error.
VerifyOwner(s) ==
    /\ \/ verify(KeyOf(s), slots[s].user) /\ Goto(s, "send")
       \/ ~verify(KeyOf(s), slots[s].user) /\ Finish(s, "denied")
       \/ Finish(s, "error")
    /\ rpc' = {}
    /\ UNCHANGED <<ownership, told>>

feedback(s) == At(s, "feedback") /\ VerifyOwner(s)
get_job_status(s) == At(s, "get_job_status") /\ VerifyOwner(s)

\* vegapunk is called with the id alone.
SendById(s) ==
    /\ At(s, "send")
    /\ rpc' = {[user |-> slots[s].user, on |-> KeyOf(s)]}
    /\ Finish(s, "error") \/ Finish(s, "result")
    /\ UNCHANGED <<ownership, told>>

HandlerStep(s) ==
    \/ dispatch_one(s) \/ call(s)
    \/ search(s) \/ record(s) \/ recheck(s)
    \/ ingest_raw(s) \/ record_many(s) \/ check_many(s)
    \/ ingest(s) \/ query_nodes(s) \/ stats(s) \/ get_schema(s)
    \/ get_traceable_chain(s) \/ list_schemas(s)
    \/ feedback(s) \/ get_job_status(s) \/ SendById(s)
    \/ Deliver(s)

Next == \E s \in Slots :
    \/ \E u \in Users, b \in Bodies : require_auth(s, u, b)
    \/ HandlerStep(s)
    \/ Abandon(s)

Spec == Init /\ [][Next]_vars

-----------------------------------------------------------------------------
(* Properties                                                              *)

\* The table has at most one owner per id, every POST is at one of the awaits of
\* its handler, and the ids promised are those the tools record.
TypeOK == /\ ownership \in [Keys -> Users \cup {None}]
          /\ slots \in [Slots -> Slot]
          /\ rpc \subseteq [user : Users, on : Users \cup {SharedSchema} \cup Keys]
          /\ told \subseteq Users \X Keys

\* No call to vegapunk crosses tenants, whatever schema or id the client writes
\* into the arguments and whatever ids vegapunk hands out twice: a call names
\* the caller's own schema, the shared one, or an id that vegapunk gave to this
\* caller and that he was the first to record (build_*, record, verify).
TenantIsolation ==
    \A m \in rpc :
        \/ m.on \in {m.user, SharedSchema}
        \/ m.on \in Keys /\ ownership[m.on] = m.user

\* The outcome that the server owes an entry of a batch: a response with the
\* entry's id, one with the id null when the entry cannot be understood, and
\* none when the client sent no id.
Owed(e, o) ==
    IF e.method = "malformed" THEN o.id = "null" /\ o.reply = "-32600"
    ELSE IF e.id = "none" THEN o = Notification
    ELSE o.id = e.id /\ o.reply # "none"

\* An answered POST has one outcome for every entry, in the order of the batch:
\* each entry that has an id or cannot be understood gets its response and a
\* notification gets none, whether the entry ran a tool or not, however the
\* tool ended, and whatever the other POSTs did meanwhile (handle, dispatch_one).
ResponsesMatchEntries ==
    \A s \in Slots : At(s, "answered") =>
        LET b == slots[s].body
            out == slots[s].out
        IN IF ~b.parsed \/ b.entries = <<>>
           THEN Len(out) = 1 /\ out[1].id = "null" /\ out[1].reply # "none"
           ELSE /\ Len(out) = Len(b.entries)
                /\ \A i \in DOMAIN out : Owed(b.entries[i], out[i])

\* A user whom a search or ingest_raw told ownership_recorded = true for an id
\* is its owner from then on, so that feedback and get_job_status let him pass,
\* even when two users are handed the same id at once.
RecordedMeansOwned == \A p \in told : ownership[p[2]] = p[1]

\* The calls made with an id alone.
Using == {<<m.user, m.on>> : m \in {r \in rpc : r.on \in Keys}}

Claims == INSTANCE FirstClaim WITH owner <- ownership, promised <- told, using <- Using

\* The handlers and the table keep the promise of FirstClaim.
ImplementsFirstClaim == Claims!Spec
=============================================================================
