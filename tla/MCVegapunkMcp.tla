--------------------------- MODULE MCVegapunkMcp ---------------------------
(* VegapunkMcp for TLC.                                                    *)
EXTENDS VegapunkMcp, TLC

CONSTANTS i1, i2

\* i1 is both a search_id and a msg_id.
MCIssuable == {<<"search", i1>>, <<"msg", i1>>, <<"msg", i2>>}

NoneGiven == [ok |-> TRUE, id |-> None, schema |-> None]
Entry(id, method) == [id |-> id, method |-> method, tool |-> None, args |-> NoneGiven]
Tool(id, tool) == [Entry(id, "tools/call") EXCEPT !.tool = tool]
ById(id, tool, foreign) == [Tool(id, tool) EXCEPT !.args.id = foreign]
Foreign(id, tool, u) == [Tool(id, tool) EXCEPT !.args.schema = u]
Badly(id, tool) == [Tool(id, tool) EXCEPT !.args.ok = FALSE]

Single(e) == [parsed |-> TRUE, batch |-> FALSE, entries |-> <<e>>]
Batch(es) == [parsed |-> TRUE, batch |-> TRUE, entries |-> es]

\* Every tool, the ids of both kinds, batches that mix notifications, errors
\* and calls, and tool calls without an id.
MCBodies ==
    {[parsed |-> FALSE, batch |-> FALSE, entries |-> <<>>], Batch(<<>>),
     Single(Tool("1", "search")), Single(ById("1", "feedback", i1)),
     Batch(<<Tool("none", "ingest_raw"), ById("null", "get_job_status", i1),
             Entry("none", "malformed")>>),
     Batch(<<Entry("none", "notifications/*"), Entry("3", "notifications/*"),
             Entry("none", "initialize"), Badly("4", "feedback"),
             Entry("5", "unknown"), Entry("6", "tools/call")>>)}
    \cup {Batch(<<Foreign("none", "query_nodes", u), Foreign("none", "get_schema", u),
                  Badly("none", "list_schemas"), Foreign("none", "stats", u),
                  Foreign("none", "ingest", u), Foreign("2", "get_traceable_chain", u)>>)
             : u \in Users}

Symmetry == UNION {Permutations(S) : S \in {Slots, Users}}
=============================================================================
