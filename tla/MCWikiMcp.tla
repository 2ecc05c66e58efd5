----------------------------- MODULE MCWikiMcp -----------------------------
(* WikiMcp for TLC.                                                        *)
EXTENDS WikiMcp, TLC

CONSTANTS u1, u2, m1, c1

Row(id, owner, at, size) == [id |-> id, owner |-> owner, at |-> at, size |-> size]

\* Raws of the same millisecond, one too large for any page, and room for a
\* raw between them.
MCStoredRaws == {Row(1, u1, 1, 3), Row(2, u1, 1, 1), Row(4, u1, 1, 1), Row(5, m1, 1, 1)}
MCStoredWikis == {[owner |-> o, concept |-> c1] : o \in {u1, u2, m1}}

Plain == [ok |-> TRUE, id |-> 0, scope |-> "all", concept |-> None, owner |-> None,
          size |-> 1, cursor |-> NoCursor]
Entry(id, method) == [id |-> id, method |-> method, tool |-> None, args |-> Plain]
Tool(id, tool) == [Entry(id, "tools/call") EXCEPT !.tool = tool]
Batch(es) == [parsed |-> TRUE, entries |-> es]

\* u1 exports, appends and deletes the account; u2 uses every other tool.
MCRequests ==
    {<<u1, Batch(<<Tool("none", "raw_append"), Tool("1", "raw_append")>>)>>}
    \cup {<<u2, b>> : b \in
        {[parsed |-> FALSE, entries |-> <<>>],
         Batch(<<>>),
         Batch(<<Entry("none", "malformed"), Entry("null", "ping")>>),
         Batch(<<Entry("2", "tools/call"), Entry("3", "unknown")>>),
         Batch(<<[Tool("4", "raw_read") EXCEPT !.args.id = 2]>>),
         Batch(<<[Tool("5", "raw_read") EXCEPT !.args.id = 5],
                 [Tool("6", "raw_read") EXCEPT !.args.ok = FALSE]>>),
         Batch(<<Tool("7", "raw_search")>>),
         Batch(<<[Tool("8", "raw_search") EXCEPT !.args.scope = "shared"]>>),
         Batch(<<[Tool("9", "wiki_list") EXCEPT !.args.scope = "personal"]>>),
         Batch(<<[Tool("10", "wiki_read") EXCEPT !.args.concept = c1]>>),
         Batch(<<Tool("11", "schema_update"), Tool("12", "wiki_rebuild")>>),
         Batch(<<[Tool("13", "schema_read") EXCEPT !.args.scope = "personal"]>>),
         Batch(<<[Tool("14", "schema_read") EXCEPT !.args.scope = "shared", !.args.owner = m1]>>)}}

Symmetry == Permutations(Slots)
=============================================================================
