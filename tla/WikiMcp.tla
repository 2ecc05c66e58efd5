------------------------------ MODULE WikiMcp ------------------------------
(***************************************************************************)
(* The MCP endpoint of llm-memory-server (mcp/transport.rs, mcp/tools/,    *)
(* account.rs) over the tables that its tools read and write.  A POST is   *)
(* one JSON-RPC message or a batch, whose entries run one after the other; *)
(* POSTs run concurrently and may be overtaken at every await.  Clients    *)
(* that follow next_cursor through an export are part of the model.  Which *)
(* arguments a tool accepts is decided in ToolArgs, when the limiter       *)
(* refuses in RateLimiter; the workers behind raw_append and wiki_rebuild  *)
(* are in Coordinator and Rebuild.                                         *)
(***************************************************************************)
EXTENDS ExportPage, Sequences

CONSTANTS
    None,
    Users,           \* accounts
    SharedMemories,  \* rows of shared_memories; no tool creates or deletes one
    Concepts,        \* names of wikis
    RawIds,          \* ids that new_ulid may give: numbers from 1
    MaxTime,         \* bound on now
    MaxBytes,        \* bound on the size of a content
    StoredRaws,      \* rows that are in the table from the start
    StoredWikis, StoredSchemas,
    Exporters,       \* accounts whose client exports
    Leavers,         \* accounts whose client asks for their deletion
    Ids,             \* the ids of JSON-RPC requests
    Requests,        \* <<user, body>>: the other POSTs that clients send
    Slots            \* requests handled at the same time

VARIABLES
    users, raws, wikis, schemas,  \* the tables
    now,      \* now_ms
    slots,    \* slots[s]: the request handled in slot s
    exports   \* exports[u]: how far the export of client u has come

tables == <<users, raws, wikis, schemas>>
vars == <<tables, now, slots, exports>>

-----------------------------------------------------------------------------
(* Data                                                                    *)

Owners == Users \cup SharedMemories
Scope(o) == IF o \in Users THEN "personal" ELSE "shared"

Times == 1..MaxTime

\* scope is left out: the owner's id tells it.
Raw == [id : RawIds, owner : Owners, at : Times, size : 1..MaxBytes]
Wiki == [owner : Owners, concept : Concepts]

Tools == {"raw_append", "raw_read", "raw_search", "wiki_read", "wiki_list", "wiki_rebuild",
          "schema_read", "schema_update", "export"}

Methods == {"malformed", "initialize", "ping", "tools/list", "tools/call", "unknown"}

\* ok: the tool's Args and its own checks accept the arguments.
Args == [ok : BOOLEAN, id : RawIds \cup {0}, scope : {"all", "personal", "shared"},
         concept : Concepts \cup {None}, owner : SharedMemories \cup {None},
         size : 0..MaxBytes, cursor : Cursor(Times, RawIds)]

\* An absent id is "none", the JSON null is "null".  raw_append does not accept
\* an empty content.
JsonRpcRequest ==
    {e \in [id : Ids, method : Methods, tool : Tools \cup {None}, args : Args] :
        e.tool = "raw_append" /\ e.args.ok => e.args.size > 0}

Body == [parsed : BOOLEAN, entries : Seq(JsonRpcRequest)]

ASSUME WikiMcpAssumption ==
    /\ RawIds \subseteq Nat \ {0} /\ {MaxTime, MaxBytes} \subseteq Nat \ {0}
    /\ Users \cap SharedMemories = {} /\ None \notin Owners /\ None \notin Body
    /\ Exporters \subseteq Users /\ {"none", "null", "export"} \subseteq Ids
    /\ StoredRaws \subseteq Raw /\ StoredRaws # {} /\ IsFiniteSet(StoredRaws)
    /\ \A q, r \in StoredRaws : q.id = r.id => q = r
    /\ StoredWikis \subseteq Wiki /\ StoredSchemas \subseteq Owners
    /\ Requests \subseteq Users \X Body

\* "result" and "failed" are tool results without and with isError,
\* "rate_limited" is the one of a refused call.
Replies == {"none", "result", "failed", "rate_limited", "-32600", "-32601", "-32602", "-32700"}

\* rows: the raws that the response names; shows: the owners of all it shows;
\* next: next_cursor.
Outcome == [id : Ids, reply : Replies, rows : SUBSET Raw, shows : SUBSET Owners,
            next : {c \in Cursor(Times, RawIds) : c.form # "legacy"}]

Error(id, reply) == [id |-> id, reply |-> reply, rows |-> {}, shows |-> {}, next |-> NoCursor]
Notification == Error("none", "none")

\* A handler is at the await that its step names.
Steps == Tools \cup {"idle", "entry", "answered", "delete", "raw_append_commit",
                     "raw_search_shared", "wiki_shared", "export_wikis", "export_schema"}

\* data: rows that the handler holds; wrote: what the request has committed.
Slot == [step : Steps, user : Users \cup {None}, body : Body \cup {None},
         out : Seq(Outcome), data : SUBSET Raw, shows : SUBSET Owners, wrote : SUBSET RawIds]

Idle == [step |-> "idle", user |-> None, body |-> None, out |-> <<>>, data |-> {},
         shows |-> {}, wrote |-> {}]

\* from: the cursor of the first page; due: the rows that were in the table when
\* it was asked for; pages: what has arrived.
Export == [open : BOOLEAN, done : BOOLEAN, from : Cursor(Times, RawIds),
           cursor : Cursor(Times, RawIds), due : SUBSET Raw, pages : Seq(SUBSET Raw)]

NoExport == [open |-> FALSE, done |-> FALSE, from |-> NoCursor, cursor |-> NoCursor,
             due |-> {}, pages |-> <<>>]

Init == /\ users = Users
        /\ raws = StoredRaws
        /\ wikis = StoredWikis
        /\ schemas = StoredSchemas
        /\ now = Max({r.at : r \in StoredRaws})
        /\ slots = [s \in Slots |-> Idle]
        /\ exports = [u \in Users |-> NoExport]

-----------------------------------------------------------------------------
(* The transport                                                           *)

At(s, step) == slots[s].step = step

\* The row of the token's user must exist, here and not again later.
require_auth(s, u, step, b) ==
    /\ At(s, "idle")
    /\ u \in users
    /\ slots' = [slots EXCEPT ![s] = [Idle EXCEPT !.step = step, !.user = u, !.body = b]]

\* A body that is not JSON, or an empty batch, is answered at once.
handle(s, u, b) ==
    LET refusal == IF ~b.parsed THEN "-32700" ELSE "-32600"
    IN IF b.parsed /\ b.entries # <<>>
       THEN require_auth(s, u, "entry", b)
       ELSE /\ At(s, "idle")
            /\ u \in users
            /\ slots' = [slots EXCEPT ![s] =
                   [Idle EXCEPT !.step = "answered", !.user = u, !.body = b,
                                !.out = <<Error("null", refusal)>>]]

Current(s) == slots[s].body.entries[Len(slots[s].out) + 1]
Arg(s) == Current(s).args

\* The entry's outcome is there; the loop goes on or the POST is answered.
Conclude(s, outcome) ==
    slots' = [slots EXCEPT
        ![s].step = IF Len(slots[s].out) + 1 = Len(slots[s].body.entries)
                    THEN "answered" ELSE "entry",
        ![s].out = Append(@, outcome), ![s].data = {}, ![s].shows = {}]

\* A tool's value, or its error, under the id of the request.
Result(s, shows) == Conclude(s, [Error(Current(s).id, "result") EXCEPT !.shows = shows])
Fail(s) == Conclude(s, Error(Current(s).id, "failed"))

Goto(s, step) == slots' = [slots EXCEPT ![s].step = step]

\* The reply of the methods that run no tool.
DispatchReply(e) == IF e.method = "unknown" THEN "-32601" ELSE "result"

\* Mutant: an entry without an id is run like any other.
IsNotificationNever(e) == FALSE

\* No id: the entry is dropped, whatever its method.
IsNotification(e) == e.id = "none"

dispatch_one(s) ==
    LET e == Current(s)
    IN /\ At(s, "entry")
       /\ \/ /\ e.method = "malformed"
             /\ Conclude(s, Error("null", "-32600"))
          \/ /\ e.method # "malformed" /\ IsNotification(e)
             /\ Conclude(s, Notification)
          \/ /\ e.method \notin {"malformed", "tools/call"} /\ ~IsNotification(e)
             /\ Conclude(s, Error(e.id, DispatchReply(e)))

\* tools::call: the name first, then the limiter, then the arguments.
call(s) ==
    LET e == Current(s)
    IN /\ At(s, "entry")
       /\ e.method = "tools/call" /\ ~IsNotification(e)
       /\ \/ e.tool = None /\ Conclude(s, Error(e.id, "-32602"))
          \/ e.tool # None /\ Conclude(s, Error(e.id, "rate_limited"))
          \/ e.tool # None /\ e.args.ok /\ Goto(s, e.tool)
          \/ e.tool # None /\ ~e.args.ok /\ Fail(s)

\* A query that fails ends the tool at any of its awaits; wiki_rebuild makes none.
Breaks(s) ==
    /\ slots[s].step \notin {"idle", "entry", "answered", "delete", "wiki_rebuild"}
    /\ Fail(s)

-----------------------------------------------------------------------------
(* The tools                                                               *)

Own(s) == slots[s].user

\* insert: the row is stamped, then written.
raw_append(s) ==
    /\ At(s, "raw_append")
    /\ \E id \in RawIds \ ({r.id : r \in raws} \cup {r.id : r \in UNION {slots[t].data : t \in Slots}}) :
          slots' = [slots EXCEPT ![s].step = "raw_append_commit",
                       ![s].data = {[id |-> id, owner |-> Own(s), at |-> now, size |-> Arg(s).size]}]
    /\ UNCHANGED tables

\* The row is committed; the coordinator is notified and the id returned.
raw_append_commit(s) ==
    /\ At(s, "raw_append_commit")
    /\ raws' = raws \cup slots[s].data
    /\ slots' = [slots EXCEPT
           ![s].step = IF Len(slots[s].out) + 1 = Len(slots[s].body.entries)
                       THEN "answered" ELSE "entry",
           ![s].out = Append(@, [Error(Current(s).id, "result") EXCEPT
                                     !.rows = slots[s].data, !.shows = {Own(s)}]),
           ![s].data = {}, ![s].wrote = @ \cup {r.id : r \in slots[s].data}]
    /\ UNCHANGED <<users, wikis, schemas>>

\* Mutant: a raw is shown to whoever knows its id.
ReadableAll(u, r) == TRUE

\* A personal raw is shown to its owner only.
Readable(u, r) == Scope(r.owner) = "personal" => r.owner = u

raw_read(s) ==
    LET found == {r \in raws : r.id = Arg(s).id /\ Readable(Own(s), r)}
    IN /\ At(s, "raw_read")
       /\ IF found = {} THEN Fail(s) ELSE Result(s, {r.owner : r \in found})
       /\ UNCHANGED tables

\* Whether a tool with a scope argument looks at the scope.
Wants(s, scope) == Arg(s).scope \in {"all", scope}

\* search::raws: some of the rows of the scope and owner, as MATCH finds them.
Hits(o) == SUBSET {r \in raws : r.owner = o}

\* Both queries are limited, and so is their concatenation: personal hits
\* may leave no room for shared ones.
raw_search(s) ==
    /\ At(s, "raw_search")
    /\ IF Wants(s, "personal")
       THEN \E hits \in Hits(Own(s)) :
                slots' = [slots EXCEPT ![s].step = "raw_search_shared",
                                       ![s].shows = {r.owner : r \in hits}]
       ELSE Goto(s, "raw_search_shared")
    /\ UNCHANGED tables

raw_search_shared(s) ==
    /\ At(s, "raw_search_shared")
    /\ IF Wants(s, "shared")
       THEN \E sm \in SUBSET SharedMemories :
                /\ \A o \in sm : \E r \in raws : r.owner = o
                /\ Result(s, slots[s].shows \cup sm)
       ELSE Result(s, slots[s].shows)
    /\ UNCHANGED tables

\* wiki_read and wiki_list: the caller's own wikis, then those of every shared
\* memory; wiki_read looks at one concept.
WikiOwners(s, os) ==
    {w.owner : w \in {v \in wikis : v.owner \in os /\ Arg(s).concept \in {None, v.concept}}}

wiki_personal(s) ==
    /\ slots[s].step \in {"wiki_read", "wiki_list"}
    /\ slots' = [slots EXCEPT ![s].step = "wiki_shared",
                    ![s].shows = IF Wants(s, "personal") THEN WikiOwners(s, {Own(s)}) ELSE {}]
    /\ UNCHANGED tables

wiki_shared(s) ==
    /\ At(s, "wiki_shared")
    /\ Result(s, slots[s].shows \cup
                 (IF Wants(s, "shared") THEN WikiOwners(s, SharedMemories) ELSE {}))
    /\ UNCHANGED tables

\* The request goes to the coordinator; "started" or "pending" comes back.
wiki_rebuild(s) == At(s, "wiki_rebuild") /\ Result(s, {}) /\ UNCHANGED tables

\* schemas: the owners that have a row.
schema_read(s) ==
    LET o == IF Arg(s).scope = "personal" THEN Own(s) ELSE Arg(s).owner
    IN At(s, "schema_read") /\ Result(s, {o} \cap schemas) /\ UNCHANGED tables

schema_update(s) ==
    /\ At(s, "schema_update")
    /\ schemas' = schemas \cup {Own(s)}
    /\ Result(s, {})
    /\ UNCHANGED <<users, raws, wikis>>

\* The page is there: the next_cursor goes out with it.
Export_(s) ==
    Conclude(s, [Error(Current(s).id, "result") EXCEPT
        !.rows = Page(slots[s].data), !.next = NextCursor(slots[s].data),
        !.shows = slots[s].shows \cup {r.owner : r \in Page(slots[s].data)}])

export(s) ==
    /\ At(s, "export")
    /\ slots' = [slots EXCEPT
           ![s].step = "export_wikis",
           ![s].data = Fetch({r \in raws : r.owner = Own(s)}, Arg(s).cursor)]
    /\ UNCHANGED tables

\* On the first page the wikis and the schema of the caller follow.
export_wikis(s) ==
    /\ At(s, "export_wikis")
    /\ IF IsFirst(Arg(s).cursor)
       THEN slots' = [slots EXCEPT ![s].step = "export_schema",
                          ![s].shows = {w.owner : w \in {v \in wikis : v.owner = Own(s)}}]
       ELSE Export_(s)
    /\ UNCHANGED tables

export_schema(s) == At(s, "export_schema") /\ Export_(s) /\ UNCHANGED tables

\* DELETE /v1/account: delete_cascade, one transaction.
delete_me(s) ==
    LET u == slots[s].user
    IN /\ At(s, "delete")
       /\ users' = users \ {u}
       /\ raws' = {r \in raws : r.owner # u}
       /\ wikis' = {w \in wikis : w.owner # u}
       /\ schemas' = schemas \ {u}
       /\ slots' = [slots EXCEPT ![s] = Idle]

-----------------------------------------------------------------------------
(* Clients                                                                 *)

ExportBody(c) ==
    [parsed |-> TRUE, entries |-> <<[id |-> "export", method |-> "tools/call", tool |-> "export",
        args |-> [ok |-> TRUE, id |-> 0, scope |-> "all", concept |-> None, owner |-> None,
                  size |-> 0, cursor |-> c]]>>]

ASSUME RequestsAssumption ==
    \A c \in Cursor(Times, RawIds), u \in Exporters : <<u, ExportBody(c)>> \notin Requests

\* The client begins an export, or resumes one that an older server began.
BeginExport(s, u, c) ==
    /\ u \in Exporters
    /\ ~exports[u].open /\ ~exports[u].done
    /\ handle(s, u, ExportBody(c))
    /\ exports' = [exports EXCEPT ![u] =
           [NoExport EXCEPT !.open = TRUE, !.from = c, !.cursor = c,
                            !.due = {r \in raws : r.owner = u /\ r.at >= c.at}]]
    /\ UNCHANGED <<tables, now>>

\* The next page, or the same one again when no page came back.
AskPage(s, u) ==
    /\ exports[u].open
    /\ \A t \in Slots : slots[t].user = u => slots[t].body # ExportBody(exports[u].cursor)
    /\ handle(s, u, ExportBody(exports[u].cursor))
    /\ UNCHANGED <<tables, now, exports>>

\* What the client makes of the page it is waiting for.
Received(x, o) ==
    IF o.reply # "result" THEN x
    ELSE [x EXCEPT !.pages = Append(@, o.rows), !.cursor = o.next,
                   !.open = o.next # NoCursor, !.done = o.next = NoCursor]

Post(s) == \E q \in Requests : handle(s, q[1], q[2]) /\ UNCHANGED <<tables, now, exports>>

AskDelete(s, u) ==
    /\ u \in Leavers
    /\ require_auth(s, u, "delete", None)
    /\ UNCHANGED <<tables, now, exports>>

\* The response reaches the client.
Deliver(s) ==
    LET u == slots[s].user
        page == exports[u].open /\ slots[s].body = ExportBody(exports[u].cursor)
    IN /\ At(s, "answered")
       /\ slots' = [slots EXCEPT ![s] = Idle]
       /\ exports' = IF page THEN [exports EXCEPT ![u] = Received(@, slots[s].out[1])] ELSE exports
       /\ UNCHANGED <<tables, now>>

\* The client goes away and axum drops the handler, or the server is restarted.
Abandon(s) ==
    /\ ~At(s, "idle")
    /\ slots' = [slots EXCEPT ![s] = Idle]
    /\ UNCHANGED <<tables, now, exports>>

\* A worker of the coordinator stores a wiki.
WorkerWrites(u, c) ==
    /\ wikis' = wikis \cup {[owner |-> u, concept |-> c]}
    /\ wikis' # wikis
    /\ UNCHANGED <<users, raws, schemas, now, slots, exports>>

Tick == /\ now < MaxTime
        /\ now' = now + 1
        /\ UNCHANGED <<tables, slots, exports>>

HandlerStep(s) ==
    /\ \/ (dispatch_one(s) \/ call(s) \/ Breaks(s)) /\ UNCHANGED tables
       \/ raw_append(s) \/ raw_append_commit(s) \/ raw_read(s)
       \/ raw_search(s) \/ raw_search_shared(s)
       \/ wiki_personal(s) \/ wiki_shared(s) \/ wiki_rebuild(s)
       \/ schema_read(s) \/ schema_update(s)
       \/ export(s) \/ export_wikis(s) \/ export_schema(s)
       \/ delete_me(s)
    /\ UNCHANGED <<now, exports>>

Next ==
    \/ \E s \in Slots :
          \/ Post(s) \/ HandlerStep(s) \/ Deliver(s) \/ Abandon(s)
          \/ \E u \in Users :
                \/ AskPage(s, u) \/ AskDelete(s, u)
                \/ BeginExport(s, u, NoCursor)
                \/ \E r \in raws : r.owner = u /\ BeginExport(s, u, Legacy(r.at))
    \/ \E u \in Users, c \in Concepts : WorkerWrites(u, c)
    \/ Tick

Spec == Init /\ [][Next]_vars

-----------------------------------------------------------------------------
(* Properties                                                              *)

\* The rows are typed, an id names one raw (the PRIMARY KEY of raws), and every
\* next_cursor that goes out has the form "<created_at>:<id>".
TypeOK == /\ users \subseteq Users
          /\ raws \subseteq Raw
          /\ \A q, r \in raws : q.id = r.id => q = r
          /\ wikis \subseteq Wiki
          /\ schemas \subseteq Owners
          /\ now \in Times
          /\ slots \in [Slots -> Slot]
          /\ exports \in [Users -> Export]

\* Nobody is shown a personal raw, wiki or schema of somebody else, whatever id,
\* scope or cursor he names (the SQL filters of the tools, raw_read's check).
PrivateRows ==
    \A s \in Slots : \A i \in DOMAIN slots[s].out :
        slots[s].out[i].shows \subseteq {slots[s].user} \cup SharedMemories

\* The outcome that entry e is owed: its response, or none that is sent.
Owed(e, o) ==
    CASE e.method = "malformed" -> o.id = "null"
      [] e.method # "malformed" /\ e.id # "none" -> o.id = e.id
      [] OTHER -> o = Notification

\* The rows whose ids the responses to raw_append entries give.
Reported(s) ==
    {r.id : r \in UNION {slots[s].out[i].rows : i \in
        {j \in DOMAIN slots[s].out : slots[s].body.entries[j].tool = "raw_append"}}}

\* An answered POST has one response per entry that has an id or cannot be
\* understood, under that id and in order, and the client knows the ids of exactly
\* the raws that the POST has stored: a batch half of which failed or was refused,
\* or that holds notifications, leaves no row behind that nobody was told of.
AnswersMatchEffects ==
    \A s \in Slots : At(s, "answered") =>
        LET out == slots[s].out
            b == slots[s].body
        IN IF b.parsed /\ b.entries # <<>>
           THEN /\ Len(out) = Len(b.entries)
                /\ \A i \in DOMAIN out : Owed(b.entries[i], out[i])
                /\ slots[s].wrote = Reported(s)
           ELSE Len(out) = 1 /\ out[1].id = "null" /\ slots[s].wrote = {}

\* A finished export of an account that still exists holds every raw that was
\* there when it began exactly once, whatever was appended between its pages,
\* however many raws share a millisecond, and although pages were cut by bytes,
\* refused, failed or lost on the way (call of export.rs).
ExportComplete ==
    \A u \in users : LET pages == exports[u].pages IN
        /\ exports[u].done => exports[u].due \subseteq UNION {pages[i] : i \in DOMAIN pages}
        /\ \A i, j \in DOMAIN pages : i # j => pages[i] \cap pages[j] = {}

\* Every page that has a successor moves the cursor forward, so that an export
\* cannot go round in circles.
ExportAdvances ==
    [][\A u \in Users :
          exports'[u].pages # exports[u].pages /\ exports'[u].open =>
              After(exports'[u].cursor, exports[u].cursor)]_vars
=============================================================================
