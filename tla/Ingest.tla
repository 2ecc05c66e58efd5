------------------------------- MODULE Ingest -------------------------------
(***************************************************************************)
(* The ingest and ingest_raw tools of gen 2                                *)
(* (crates/vegapunk-memory-server/src/mcp/tools/handlers.rs) and the       *)
(* per-schema serializer.  A call takes the lock of its schema, fetches    *)
(* the names of the entities already in the graph, brings its texts into   *)
(* line with them, hands them to vegapunk and waits, holding the lock,     *)
(* until the extraction jobs have put the new entities into the graph.     *)
(*                                                                         *)
(* Vegapunk is external: a list of jobs in the order of created_at, each   *)
(* of which may finish at any time.  A text stands for the one entity name *)
(* it mentions; two names with one Key are spellings that                  *)
(* normalize_entity_key makes equal.  Time is not a variable: a deadline   *)
(* may pass at any moment of a wait, and which older jobs the window of    *)
(* ListJobs reaches is arbitrary.                                          *)
(***************************************************************************)
EXTENDS Integers, Sequences, FiniteSetsExt

CONSTANTS
    None,           \* Option::None
    Schemas,        \* the personal schemas
    Calls,          \* tool calls; bounds their number
    Names, Key,     \* spellings, and Key[n] as normalize_entity_key has it
    Unscannable,    \* spellings that is_lowercase_byte_aligned rejects
    SharedNames,    \* entities of the shared schema
    Batches,        \* the texts a call may carry: non-empty sequences of names
    FetchLimit,     \* DEDUP_FETCH_LIMIT_PER_TYPE
    Canonicalizer,  \* whether there is an LLM canonicalizer
    LlmMax,         \* INGEST_LLM_CANONICALIZE_MAX_MESSAGES
    PageSize,       \* LIST_JOBS_PAGE_SIZE
    HardCap,        \* LIST_JOBS_HARD_CAP
    MaxJobs         \* bound on the jobs

\* Both waits treat "dead_letter" as they treat "failed".
Finished == {"completed", "failed"}
Status == {"pending"} \cup Finished

Result == {"ok", "partial", "timeout", "blocked", "error"}

ASSUME IngestAssumption ==
    /\ {Unscannable, SharedNames} \subseteq SUBSET Names
    /\ Batches \subseteq Seq(Names) \ {<<>>}
    /\ {FetchLimit, LlmMax, PageSize, HardCap, MaxJobs} \subseteq Nat \ {0}
    /\ Canonicalizer \in BOOLEAN
    /\ None \notin Schemas \cup Calls \cup Status \cup Result

VARIABLES
    schemas,   \* IngestSerializer::schemas: the lock of a schema, named by
               \* the call that made it
    queues,    \* queues[l]: the holder of lock l and those waiting, in order
    calls,     \* calls[c]: the locals of a call
    jobs,      \* vegapunk's extraction jobs
    nodes,     \* nodes[s]: the entities in the graph of schema s
    disturbed  \* history: a call on s gave up early or worked without the
               \* catalogue, or its texts were beyond the scan

vars == <<schemas, queues, calls, jobs, nodes, disturbed>>

\* schema is None for a job of another tenant.
Job == [schema : Schemas \cup {None}, name : Names \cup {None}, status : Status]

\* What list_extraction_jobs_paged has so far: by_id, offset, effective_cap.
Round == [seen : [1..MaxJobs -> Status \cup {None}], offset : 0..HardCap, cap : 0..HardCap]

Call == [pc : {"unsent", "waiting", "scan", "send", "await", "done"},
         kind : {"ingest", "ingest_raw"}, schema : Schemas \cup {None},
         lock : Calls \cup {None}, texts : Batches \cup Seq(Names),
         personal : SUBSET Names, shared : SUBSET Names,
         own : SUBSET (1..MaxJobs), pending : SUBSET (1..MaxJobs),
         failed : BOOLEAN, since : Nat, baseline : (Nat \X Nat) \cup {None},
         round : Round, leftover : BOOLEAN, result : Result \cup {None}]

NewRound == [seen |-> [j \in 1..MaxJobs |-> None], offset |-> 0, cap |-> 0]

NewCall == [pc |-> "unsent", kind |-> "ingest", schema |-> None, lock |-> None,
            texts |-> <<>>, personal |-> {}, shared |-> {}, own |-> {},
            pending |-> {}, failed |-> FALSE, since |-> 1, baseline |-> None,
            round |-> NewRound, leftover |-> FALSE, result |-> None]

Init == /\ schemas = [s \in Schemas |-> None]
        /\ queues = [l \in Calls |-> <<>>]
        /\ calls = [c \in Calls |-> NewCall]
        /\ jobs = <<>>
        /\ nodes = [s \in Schemas |-> {}]
        /\ disturbed = [s \in Schemas |-> FALSE]

At(c, pc) == calls[c].pc = pc

Disturb(s, really) == disturbed' = [disturbed EXCEPT ![s] = @ \/ really]

-----------------------------------------------------------------------------
(* The serializer                                                          *)

\* Mutant: the entry of the schema is not looked up before one is made.
lock_forFresh(c, s) == c

\* Get or insert under the lock of the map; a new lock is named after c.
lock_for(c, s) == IF schemas[s] # None THEN schemas[s] ELSE c

\* The arguments have been checked.  lock_owned hands the lock on in the
\* order in which it was asked for.
acquire_ingest_serializer(c, kind, s, texts) ==
    LET l == lock_for(c, s)
    IN  /\ At(c, "unsent")
        /\ schemas' = [schemas EXCEPT ![s] = l]
        /\ queues' = [queues EXCEPT ![l] = Append(@, c)]
        /\ calls' = [calls EXCEPT ![c] = [NewCall EXCEPT !.pc = "waiting", !.kind = kind,
                                              !.schema = s, !.lock = l, !.texts = texts]]
        /\ UNCHANGED <<jobs, nodes, disturbed>>

HasLock(c) == \E l \in Calls : queues[l] # <<>> /\ Head(queues[l]) = c

\* A queue without the place that c has in it.
Leave(queue, c) ==
    LET i == CHOOSE i \in DOMAIN queue : queue[i] = c
    IN  SubSeq(queue, 1, i - 1) \o SubSeq(queue, i + 1, Len(queue))

\* The call ends in whatever way and its guard, or its place in the queue, is
\* dropped with it.
Return(c, result) ==
    LET call == calls[c]
    IN  /\ queues' = [queues EXCEPT ![call.lock] = Leave(@, c)]
        /\ calls' = [calls EXCEPT ![c] = [NewCall EXCEPT !.pc = "done", !.kind = call.kind,
                         !.schema = call.schema, !.own = call.own,
                         !.leftover = call.leftover, !.result = result]]

-----------------------------------------------------------------------------
(* The catalogue and the texts                                             *)

\* query_nodes answers with at most FetchLimit names, or fails: no names.
fetch_entity_names(names) ==
    {{}} \cup kSubset(Min({FetchLimit, Cardinality(names)}), names)

\* All names are taken to be of one node type.
collect_dedup_catalogue(c) ==
    LET s == calls[c].schema
    IN  /\ At(c, "waiting")
        /\ HasLock(c)
        /\ \E personal \in fetch_entity_names(nodes[s]), shared \in fetch_entity_names(SharedNames) :
              /\ calls' = [calls EXCEPT ![c].pc = "scan", ![c].personal = personal,
                                        ![c].shared = shared]
              /\ Disturb(s, personal # nodes[s] \/ shared # SharedNames)
        /\ UNCHANGED <<schemas, queues, jobs, nodes>>

Alike(n, names) == {m \in names : Key[m] = Key[n]}

\* The text mentions an entity of the shared schema.
BlockedByShared(call, n) == n \notin Unscannable /\ Alike(n, call.shared) # {}

\* Mutant: the scan compares the spelling and not the key.
scan_textExact(call, n) == {n}

\* What scan_text_with_catalogue may make of a text it does not block; with
\* several spellings in the catalogue the order of the catalogue decides.
scan_text(call, n) ==
    IF n \in Unscannable \/ Alike(n, call.personal) = {} THEN {n}
                                                          ELSE Alike(n, call.personal)

should_run_llm_canonicalize(call) ==
    Canonicalizer /\ (call.kind = "ingest" => Len(call.texts) <= LlmMax)

\* The LLM leaves a text alone, in particular when it fails or its budget is
\* used up, or puts in a name it was shown.
apply_llm_canonicalize(call, n) ==
    {n} \cup (IF should_run_llm_canonicalize(call) THEN call.personal \cup call.shared ELSE {})

\* The spellings in a batch that the scan of single texts cannot bring together.
Mixed(texts) ==
    \E i, j \in DOMAIN texts : \/ texts[i] \in Unscannable
                               \/ texts[i] # texts[j] /\ Key[texts[i]] = Key[texts[j]]

\* The loop over the messages; nothing of it is visible to others.
PrepareTexts(c) ==
    LET call == calls[c]
    IN  /\ At(c, "scan")
        /\ IF \E i \in DOMAIN call.texts : BlockedByShared(call, call.texts[i])
             THEN Return(c, "blocked") /\ UNCHANGED disturbed
             ELSE /\ \E texts \in [DOMAIN call.texts -> Names] :
                        /\ \A i \in DOMAIN texts : \E n \in scan_text(call, call.texts[i]) :
                              texts[i] \in apply_llm_canonicalize(call, n)
                        /\ calls' = [calls EXCEPT ![c].pc = "send", ![c].texts = texts,
                                         ![c].personal = {}, ![c].shared = {}]
                  /\ Disturb(call.schema, Mixed(call.texts))
                  /\ UNCHANGED queues
        /\ UNCHANGED <<schemas, jobs, nodes>>

-----------------------------------------------------------------------------
(* Vegapunk                                                                *)

\* The jobs of an accepted request, one per message or chunk.
Enqueued(call) ==
    [i \in DOMAIN call.texts |-> [schema |-> call.schema, name |-> call.texts[i],
                                  status |-> "pending"]]

\* Extraction of job j ends; only a completed one writes to the graph.
JobFinishes(j, status) ==
    /\ jobs[j].schema # None
    /\ jobs[j].status = "pending"
    /\ jobs' = [jobs EXCEPT ![j].status = status]
    /\ nodes' = IF status = "completed"
                  THEN [nodes EXCEPT ![jobs[j].schema] = @ \cup {jobs[j].name}] ELSE nodes
    /\ UNCHANGED <<schemas, queues, calls, disturbed>>

\* Some other client of vegapunk is served; how its jobs end does not matter.
OtherTenantIngests ==
    /\ Len(jobs) < MaxJobs
    /\ jobs' = Append(jobs, [schema |-> None, name |-> None, status |-> "pending"])
    /\ UNCHANGED <<schemas, queues, calls, nodes, disturbed>>

\* Unfinished jobs of the schema from earlier calls.
Leftover(s) == \E j \in DOMAIN jobs : jobs[j].schema = s /\ jobs[j].status = "pending"

\* The request is accepted.  since_ms less SINCE_MS_SKEW_MARGIN, taken just
\* before, reaches any number of older jobs back, or, when the clocks differ
\* by more than the margin, not even the jobs of this call.
SendRequest(c) ==
    LET call == calls[c]
        first == Len(jobs) + 1
        own == first..(Len(jobs) + Len(call.texts))
    IN  /\ At(c, "send")
        /\ Len(jobs) + Len(call.texts) <= MaxJobs
        /\ jobs' = jobs \o Enqueued(call)
        /\ \E since \in IF call.kind = "ingest" THEN 1..first \cup {first + Len(call.texts)} ELSE {1} :
              calls' = [calls EXCEPT ![c] = [call EXCEPT !.pc = "await", !.own = own, !.texts = <<>>,
                  !.pending = IF call.kind = "ingest_raw" THEN own ELSE {},
                  !.since = since, !.leftover = Leftover(call.schema)]]
        /\ UNCHANGED <<schemas, queues, nodes, disturbed>>

\* The RPC fails, or the client goes away during it; the request may have
\* been accepted all the same.
SendFails(c, accepted) ==
    /\ At(c, "send")
    /\ accepted => Len(jobs) + Len(calls[c].texts) <= MaxJobs
    /\ jobs' = IF accepted THEN jobs \o Enqueued(calls[c]) ELSE jobs
    /\ Return(c, "error")
    /\ Disturb(calls[c].schema, accepted)
    /\ UNCHANGED <<schemas, nodes>>

-----------------------------------------------------------------------------
(* await_extraction_jobs_for_schema: counting against a baseline           *)

\* One page of ListJobs, newest first, from the jobs in the window.
Page(c) ==
    LET offset == calls[c].round.offset
    IN  {j \in DOMAIN jobs : /\ j >= calls[c].since
                             /\ Len(jobs) - j \in offset..(offset + PageSize - 1)}

TotalCount(c) == Cardinality({j \in DOMAIN jobs : j >= calls[c].since})

\* by_id keeps the status seen last.
PageSeen(c) ==
    [j \in 1..MaxJobs |-> IF j \in Page(c) THEN jobs[j].status ELSE calls[c].round.seen[j]]

\* Mutant: total_count is believed however large it is.
EffectiveCapUnbounded(c) == Max({calls[c].round.cap, TotalCount(c)})

\* The largest total_count seen, cut at HardCap.
EffectiveCap(c) == Max({calls[c].round.cap, Min({TotalCount(c), HardCap})})

LastPage(c) ==
    \/ Cardinality(Page(c)) < PageSize
    \/ calls[c].round.offset + PageSize >= EffectiveCap(c)

ListPage(c) ==
    /\ At(c, "await")
    /\ calls[c].kind = "ingest"
    /\ ~LastPage(c)
    /\ calls' = [calls EXCEPT ![c].round = [seen |-> PageSeen(c), cap |-> EffectiveCap(c),
                                            offset |-> @.offset + PageSize]]
    /\ UNCHANGED <<schemas, queues, jobs, nodes, disturbed>>

\* <<completed, failed>> jobs of the schema.
count_terminal_jobs_for_schema(s, seen) ==
    LET Mine(status) == Cardinality({j \in DOMAIN jobs : jobs[j].schema = s /\ seen[j] = status})
    IN  <<Mine("completed"), Mine("failed")>>

\* Mutant: the jobs that had finished before the first round are counted too.
BaselineZero(c, counts) == <<0, 0>>

\* What the first complete round saw.
Baseline(c, counts) == IF calls[c].baseline = None THEN counts ELSE calls[c].baseline

\* The last page ends the round: the call returns or tries again.
JudgeRound(c) ==
    LET call == calls[c]
        counts == count_terminal_jobs_for_schema(call.schema, PageSeen(c))
        base == Baseline(c, counts)
        delta_ok == counts[1] - base[1]
        delta_failed == counts[2] - base[2]
    IN  /\ At(c, "await")
        /\ call.kind = "ingest"
        /\ LastPage(c)
        /\ IF delta_ok + delta_failed >= Cardinality(call.own)
             THEN Return(c, IF delta_failed > 0 THEN "partial" ELSE "ok")
             ELSE /\ calls' = [calls EXCEPT ![c].baseline = base, ![c].round = NewRound]
                  /\ UNCHANGED queues
        /\ UNCHANGED <<schemas, jobs, nodes, disturbed>>

\* ListJobs fails or times out; the round starts again.
ListFails(c) ==
    /\ At(c, "await")
    /\ calls[c].kind = "ingest"
    /\ calls[c].round # NewRound
    /\ calls' = [calls EXCEPT ![c].round = NewRound]
    /\ UNCHANGED <<schemas, queues, jobs, nodes, disturbed>>

-----------------------------------------------------------------------------
(* await_msg_ids_complete: asking for each message                         *)

\* A round in which the answers for the messages in answered, all finished,
\* arrive; the others fail, time out or say that the job is still pending.
PollMessages(c, answered) ==
    LET call == calls[c]
        pending == call.pending \ answered
        failed == call.failed \/ \E j \in answered : jobs[j].status # "completed"
    IN  /\ At(c, "await")
        /\ call.kind = "ingest_raw"
        /\ answered # {}
        /\ \A j \in answered : jobs[j].status \in Finished
        /\ IF pending = {}
             THEN Return(c, IF failed THEN "partial" ELSE "ok")
             ELSE /\ calls' = [calls EXCEPT ![c].pending = pending, ![c].failed = failed]
                  /\ UNCHANGED queues
        /\ UNCHANGED <<schemas, jobs, nodes, disturbed>>

-----------------------------------------------------------------------------
\* JOB_AWAIT_TIMEOUT_SECS have passed.
AwaitTimeout(c) ==
    /\ At(c, "await")
    /\ Return(c, "timeout")
    /\ Disturb(calls[c].schema, TRUE)
    /\ UNCHANGED <<schemas, jobs, nodes>>

\* Mutant: a call that is dropped while it waits keeps its place in the queue.
AbortKeepsPlace(c) ==
    /\ calls[c].pc \in {"waiting", "scan", "await"}
    /\ calls' = [calls EXCEPT ![c] = [NewCall EXCEPT !.pc = "done", !.kind = calls[c].kind,
                     !.schema = calls[c].schema, !.own = calls[c].own, !.result = "error"]]
    /\ Disturb(calls[c].schema, At(c, "await"))
    /\ UNCHANGED <<schemas, queues, jobs, nodes>>

\* The client goes away and the handler is dropped at an await.
Abort(c) ==
    /\ calls[c].pc \in {"waiting", "scan", "await"}
    /\ Return(c, "error")
    /\ Disturb(calls[c].schema, At(c, "await"))
    /\ UNCHANGED <<schemas, jobs, nodes>>

Next ==
    \/ \E c \in Calls :
          \/ \E kind \in {"ingest", "ingest_raw"}, s \in Schemas, texts \in Batches :
                acquire_ingest_serializer(c, kind, s, texts)
          \/ collect_dedup_catalogue(c)
          \/ SendRequest(c)
          \/ \E accepted \in BOOLEAN : SendFails(c, accepted)
          \/ PrepareTexts(c)
          \/ ListPage(c)
          \/ JudgeRound(c)
          \/ ListFails(c)
          \/ \E answered \in SUBSET calls[c].pending : PollMessages(c, answered)
          \/ AwaitTimeout(c)
          \/ Abort(c)
    \/ \E j \in DOMAIN jobs, status \in Finished : JobFinishes(j, status)
    \/ OtherTenantIngests

Spec == Init /\ [][Next]_vars

\* The scheduler polls ready tasks, and the deadlines of the LLM and of the
\* waits pass.  query_nodes and the ingest RPCs have no timeout: nothing is
\* assumed of them, nor of the jobs and the polls.
FairSpec == Spec /\ \A c \in Calls : WF_vars(PrepareTexts(c) \/ AwaitTimeout(c))

-----------------------------------------------------------------------------
(* Properties                                                              *)

\* The serializer, the calls and vegapunk's jobs; the jobs a call has counted stay
\* within LIST_JOBS_HARD_CAP.
TypeOK == /\ schemas \in [Schemas -> Calls \cup {None}]
          /\ queues \in [Calls -> Seq(Calls)]
          /\ calls \in [Calls -> Call]
          /\ jobs \in Seq(Job) /\ Len(jobs) <= MaxJobs
          /\ nodes \in [Schemas -> SUBSET Names]
          /\ disturbed \in [Schemas -> BOOLEAN]

Working(c) == calls[c].pc \in {"scan", "send", "await"}

\* Two calls on one schema are never both past the serializer.
OneIngestPerSchema ==
    \A c, d \in Calls :
        Working(c) /\ Working(d) /\ calls[c].schema = calls[d].schema => c = d

\* A call that reports ok has its entities in the graph: always for
\* ingest_raw ("exact"), and for ingest ("lower-bound") when no job of the
\* schema was unfinished as it sent its request, whatever the window of
\* ListJobs reached, however its pages moved while they were read.
OkMeansExtracted ==
    \A c \in Calls :
        /\ calls[c].result = "ok"
        /\ calls[c].kind = "ingest" => ~calls[c].leftover
        => \A j \in calls[c].own : jobs[j].status = "completed"

\* The graph of a schema never gets two spellings of one entity while every
\* call on it works with the whole catalogue and sees its extraction to the
\* end: serializer, scan and wait together close the race that each call
\* would lose with the catalogue of the one before.
NoDuplicateEntities ==
    \A s \in Schemas :
        ~disturbed[s] => \A m, n \in nodes[s] : Key[m] = Key[n] => m = n

\* The holder of a lock is in an RPC that has no timeout.
InRpc(c) == HasLock(c) /\ calls[c].pc \in {"waiting", "send"}

\* A call that waits for the serializer gets its turn, unless the holder of a
\* lock hangs in an RPC that has no timeout: whatever way the calls before it
\* end, they leave the queue.
TurnComes ==
    \/ <>[](\E c \in Calls : InRpc(c))
    \/ \A c \in Calls : At(c, "waiting") ~> (~At(c, "waiting") \/ HasLock(c))
=============================================================================
