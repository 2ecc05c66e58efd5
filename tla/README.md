# TLA+ models of llm-memory-extention

The repository holds two generations of a memory server for LLM clients, each a
set of Rust crates under `crates/`:

* **gen 1** (`llm-memory-*`): users append *raws* (notes); a background
  coordinator has an LLM extract concepts from new raws and synthesize one *wiki*
  page per concept. SQLite holds everything; a bearer token from the built-in
  OAuth authorization server identifies the user.
* **gen 2** (`vegapunk-memory-*`): the same front (MCP over HTTP, OAuth), with
  the memory itself kept by an external graph service, vegapunk, reached over gRPC.

This directory models the parts of both servers that keep state or compute
something, checks them with TLC on small instances, and proves the safety
properties of the state machines with TLAPS for all instances.

## Inventory

| part | state it keeps | operations | interacts with | what is hard | what makes it correct |
|---|---|---|---|---|---|
| state map (`coordinator/state.rs`) | per owner: `running`, `manual_pending`, `append_missed` | `try_start`, `mark_idle_or_continue`, `force_idle`, `release_running_preserve_pending` | tool calls and worker tasks, under one mutex | requests in every phase of a worker | no request lost, append before manual |
| coordinator and workers (`coordinator.rs`, `worker.rs`) | tasks, cap streak, forced-drain flag | `notify_append`, `request_manual`, `spawn_worker`, `run_worker`, the outer task | state map, sessions | a worker's exit racing a new request; panics; caps | one worker per owner, flag never stuck, worker gives way |
| drain session (`worker.rs`) | iteration, mode, start time, listed raws | `run_session`, `synthesize_concepts`, `synthesize_one` | `raws`, `wikis`, the LLM | reads that are stale after the LLM call; partial failure; crash between writes | watermark passes only what was listed, concept limit |
| input builder (`coordinator/input_builder.rs`) | none | `build` | tables, full text search | limit and duplicates | the preferred raws, each once, no foreign ones |
| LLM clients (`llm/`) | none | `extract`, `synthesize` | Gemini | answers cut off or wrapped in prose | the whole object or an error, unless the prose before it opens a brace |
| raw and wiki storage (`storage/raws.rs`, `wikis.rs`, `users.rs`) | SQLite tables | `insert`, `list_since`, `upsert`, `delete_cascade` | every tool, the worker | stamp before commit; deletion beside writers | nothing behind the watermark unseen, nothing after deletion |
| gen 1 tools and transport (`server/mcp`) | none | the nine tools, `handle`, `dispatch_one` | tables, coordinator, limiter | batches, partial failure, deletion during a call | answers match effects, nobody sees foreign rows |
| export (`tools/export.rs`) | a cursor at the client | one page | `raws` | rows arriving between pages, equal stamps, byte budget | every row once, each page moves on |
| rate limiter (`server/rate_limit.rs`) | token bucket per user and tier | `check` | every tool call | refill and capping | at most the budget in a burst, the rate in the long run |
| authorization servers (`auth/authorization_server.rs`, both generations) | pending authorizations, one-time codes, refresh tokens, clients, users | `register`, `authorize`, `callback_google`, `token`, `revoke` | Google, the token table | single use of codes and tokens under races, caps, expiry; the client's state in the redirect | one exchange per code and per refresh token, bound to its client |
| access tokens, bearer middleware (`jwt.rs`, `middleware.rs`) | signing keys | `from_env`, `issue`, `verify`, `require_auth` | users table | key rotation by restart | a token lives as long as its key and its time |
| gen 2 tools and transport (`server/mcp`) | none | the ten tools, `handle`, `dispatch_one` | vegapunk, tool ownership | ids chosen by clients, two schemas behind one answer | no call crosses tenants, one answer per request |
| tool ownership (gen 2) | `tool_ownership` table | `record`, `record_many`, `verify` | `search`, `ingest_raw`, `feedback`, `get_job_status` | races on one id | an id answers only to its first recorder |
| ingest and extraction waits (gen 2 `handlers.rs`, `ingest_serializer.rs`) | per-schema locks | `ingest`, `ingest_raw`, the two waits | vegapunk, LLM | counting jobs against a baseline, paging while jobs arrive, timeouts, dropped handlers | calls on a schema take turns, `ok` means extracted, one spelling per entity |
| canonicalization (gen 2 `canonicalize.rs`, `handlers.rs`) | none | scan, rewrite, `canonicalize` | `ingest` | overlapping names, names inside words, truncated answers | only spellings change, no text is cut at the token limit |
| tool descriptions (`tools/mod.rs`, both generations) | none | `list`, the checks of the handlers | clients | two descriptions of one argument | what is advertised is accepted |
| gRPC client, metrics, configuration, deployment | none | I/O | - | - | not modelled |

`PROJECT.json` lists every component with its status, and the hazards with the
lines at which they bite.

## Modules

```
state machines                                        proofs
  SingleFlight <-refines- Coordinator -uses-> StateMap    CoordinatorProofs
                            ^  Rebuild -uses-> ConceptBudget   RebuildProofs
  AuthServer -extends-> AuthSessions                      AuthServerProofs
  Ingest                                                  IngestProofs
  FirstClaim <-refines- VegapunkMcp                       VegapunkMcpProofs
  WikiMcp -extends-> ExportPage                           WikiMcpProofs

pure algorithms, all extended by MCAlgorithms             AlgorithmProofs, ListProofs
  gen 1: ConceptBudget InputBuilder LlmClient RateLimiter WikiToolArgs
  gen 2: Words Canonicalize Merge ToolArgs
  both:  AccessTokens AuthRedirect
  InputBuilder, Merge, Canonicalize -use-> Lists
```

An `MC` module gives the constants of its component small values; the `.cfg`
files select a specification, constants and properties. Definitions keep the
names of the Rust functions where there is one. Operators marked *Mutant* are
deliberately wrong variants of the definition that follows them: replacing the
definition by its mutant must break the property `PROJECT.json` names with it,
which shows that the property is sensitive to that code.

### StateMap, SingleFlight, Coordinator

`StateMap` is `coordinator/state.rs`: `RebuildState` is a record, each method an
operator on it (the mutex makes each method one step). `Coordinator` keeps
`state[o]` (the map) and `task[w]`, a slot for one spawned outer task together
with the `run_worker` it awaits. A session is opaque: it ends done, capped, in an
error or in a panic. What matters here is that lowering the flag
(`mark_idle_or_continue`, inside the inner task) and cleaning up (`OuterExit`,
in the outer task after the join) are different steps with requests in between.

`SingleFlight` is the promise to callers, without tasks and flags: at most one
session per owner, every request served at once or owed, a session that ends
normally continues with what is owed (the append first), a failed one keeps the
debt, a panic drops it.

### Rebuild

`Rebuild` composes the coordinator with the tables and opens the session up.
`raw_append` is three steps: stamp (`now_ms` is read first), commit, notify.
A session reads the tables, calls the LLM (any answer over a small set of names,
or an error), and writes one wiki per affected concept, each write a step. The
watermark is `max_last_rebuilt_at`, the maximum over *all* concepts of the owner,
and every wiki is stamped with the time the iteration began. Account deletion,
failures, caps and restarts may come between any two steps. `coverage` and
`failed` are history variables; nothing reads them but the properties.

### AuthSessions, AuthServer

`AuthSessions` is the in-memory map with expiry and a cap (prune, evict the entry
that expires first, insert; take removes). `AuthServer` has one module for both
generations, with `Generation` selecting the few differences (how a user row is
found, whether the token request must repeat client and redirect URI, account
deletion). A handler is a slot in `requests` with a program counter at its
awaits. `flow` is a history field that follows one `/authorize` through pending
entry, handler, code and tokens. The two crates have the same code for most of
it; `PROJECT.json` names one of the two places per definition.

### WikiMcp, ExportPage

`WikiMcp` is the gen 1 `/mcp` endpoint with all its tools over the tables. A POST
is a slot: `require_auth`, then the entries of the body one after another, each
through the limiter (which may refuse at any time here) to its tool. Clients that
follow `next_cursor` through an export are part of the model (`exports`), because
what an export promises is a property of all its pages. Workers may write wikis
at any time. `Ids` are the JSON-RPC ids clients choose, with those of the model
itself: absent (`none`), JSON null (`null`), and the id of a page request
(`export`). A slot keeps one outcome per entry, notifications included; what the
client is sent are the others in their order, so `AnswersMatchEffects` compares
outcomes and entries place by place. `ExportPage` computes one page: the rows
behind the cursor in the order (created_at, id), up to the first that no longer
fits by number or bytes, at least one of them.

### VegapunkMcp, FirstClaim

`VegapunkMcp` is the gen 2 endpoint and the `tool_ownership` table. `record` is
an `INSERT OR IGNORE` and, when nothing was inserted, a `SELECT`; `record_many`
is a transaction followed by one `SELECT` per row; each statement is a step, so
two users may be between them at once. `rpc` holds the calls to vegapunk that the
last step made, each with the user it is made for and the schema or id it names;
`told` is a history variable with the ids whose recording was confirmed to a
user. Vegapunk is external and may hand an id out twice. `FirstClaim` is the
promise of the table: the first recorder owns an id for ever, and only the owner
is told so or gets through to vegapunk with it.

### Ingest

`Ingest` is the gen 2 `ingest` and `ingest_raw` handlers. `schemas` and `queues`
are the serializer (a tokio mutex is fair, so a lock is a queue of calls whose
head holds it); `calls` the locals. Vegapunk is external: a list of jobs in the
order of `created_at`, which finish at any time, in any order. `ingest` pages
through `ListJobs` newest first, page by page, while the list grows and statuses
change, and compares with the counts of its first complete round; `ingest_raw`
asks for each of its messages. A text stands for the one entity name it
mentions, and `Key` for `normalize_entity_key`. Time is not a variable: a
deadline may pass at any moment, and how far back the `since_ms` window reaches,
including clocks that differ by more than the margin, is arbitrary. The LLM
leaves a text as it is or puts in a name of the catalogue it was shown.
`disturbed` is a history variable.

### The algorithms

Each module translates one algorithm; `MCAlgorithms` runs it on every input of a
small size and compares the result with what it is meant to compute, stated
without reference to how.

* `Lists`: how the handlers build a list: cut to a length, filtered, and filled
  one item at a time without repetition (the loops of `input_builder.rs`,
  `merge_search` and `build_catalogue_section`).
* `ConceptBudget`: which of the listed names are synthesized under the limit.
* `InputBuilder`: the raws one synthesis call is given, and the limits of search.
* `LlmClient`: what is taken from a provider's answer; text is braces, quotation
  marks and the rest, and what may be one JSON object is decided by reading it
  (`ReadJson`), with the braces in strings left aside.
* `RateLimiter`: the buckets, counting tokens in exact fractions where the code
  has `f64`.
* `Words`: the scan of a text for catalogue names and the rewrite of their
  spelling; characters may become two when lowered. `Lower` is a map of characters,
  which leaves out the one rule of `to_lowercase` that looks around (the final
  sigma, as long in bytes as the other one), and there is one separator, white
  space: punctuation, which ends a word and is not trimmed, is left out.
* `Canonicalize`: the names put into the prompt, and when a rewrite is accepted. The
  provider may stop the model anywhere, for `SAFETY`, `RECITATION`, `OTHER` or
  without a reason, besides the end of the answer and the token limit (`Answer`).
* `Merge`: one answer from the caller's schema and the shared one.
* `ToolArgs`, `WikiToolArgs`: for each tool, the advertised `inputSchema` and the
  handler's own checks, over the same argument records.
* `AccessTokens`: keys from the environment, `issue` and `verify` in two
  successive processes.
* `AuthRedirect`: the redirect of the callback; texts are code points, so that
  percent-encoding is by bytes in gen 2 and by code point in gen 1.

## Runs

| run | checks | bounds |
|---|---|---|
| `coordinator` | one worker per owner; the flag is up exactly while a task will lower it; the slot is given back once requests stop; `SingleFlight` is implemented | 2 owners, 2 task slots, 1 concept, 2 caps |
| `rebuild` | the watermark passes only what an iteration had listed or what was committed behind the horizon; no notification is lost; the watermark never moves back | 2 raws, 2 concepts, 1 manual rebuild, clock 3, restarts |
| `rebuild_live` | the concept limit with stale reads and a deletion; an announced raw settles | limit 1, 2 concepts, 1 raw, 1 manual rebuild, deletion |
| `auth` | an authorization is in one hand at a time, never comes back once spent, names an existing user; the maps keep their caps | gen 2; 2 clients, 2 authorizations, 2 codes, 3 tokens, 2 handlers, code cap 1, clock 2 |
| `auth_delete` | no refresh token without its user | gen 1; as above with deletion, clock 1 |
| `ingest` | calls on a schema take turns and get their turn; `ok` means extracted; no second spelling of an entity | 2 calls, 3 jobs, pages of 1, hard cap 2, catalogue limit 1 |
| `vegapunk_mcp` | no call crosses tenants; a confirmed id is owned; responses fit the batch; `FirstClaim` is implemented | 2 users, 2 concurrent POSTs, 2 ids, 2 chunks per `ingest_raw`; single messages and batches with notifications and broken entries |
| `wiki_mcp` | nobody sees foreign rows; answers match what was stored; a finished export is complete, without repetition, and each page moves on | 2 users, a shared memory, 2 concurrent POSTs, 5 raws of up to 3 bytes, pages of 2 rows and 2 bytes, clock 2, deletion of the exporting account |
| `algorithms` | the algorithms against their references, one property per module | below |
| `rebuild_late_commit`, `rebuild_delete`, `rebuild_restart` | statements of the design that the code does not keep; TLC shows the behaviour | see Findings |

What `algorithms` enumerates is given by constants of `MCAlgorithms` (`MaxRows`,
`Results`, `MaxPage`, `Nodes`, `Schemas`, `Objects`, `Noise`, `CatalogueLists`,
`TextSizes`, `Uris`, `StateChars` and so on), so that the run takes small values and
the theorems any. Its bounds: answers of up to 3 names over 3 concepts and an
invalid one with limit 2; 5 calls of 2 users to a tier with a budget of 2 per minute
of 3 ticks; an input limit of 3; texts of up to 6 characters; 2 catalogue entries of
at most 4 bytes; a node limit of 4; integers up to 6000 with `i32::MAX` at 5000;
argument objects in which up to two fields vary at a time; up to 2 keys before and 3
after a restart with lifetime 2 and leeway 1; states of up to 3 characters of one to
four bytes; objects of up to 5 characters, with a brace in a string and one object
in another, between texts of up to 2 characters with braces and quotation marks, cut
at every place; rewrites of lengths around the limits in bytes and in tokens,
stopped at any of them for any reason.

Why the bounds are enough: every race in these components is between two
parties, so two workers, two handlers, two POSTs or two calls meet in every
order; two owners show that one does not disturb the other. Two raws and three
ticks are what it takes for one raw to be listed and another to fall behind the
watermark of that iteration, with equal stamps included. A third token is the
successor of a successor. A catalogue limit, a page and a cap below the number of
names, jobs or rows make truncation and paging happen, and a raw larger than the
byte budget makes a page of its own. Counters of the code (caps, iterations) are
run at values where both sides of the comparison occur; so are the numeric limits
of the arguments, which are compared but never added to, except in
`query_nodes`, whose sum is taken with `QUERY_NODES_LIMIT_MAX` in reach.

`TypeOK` of `Rebuild` and of `WikiMcp` documents the state and is left out of the
runs, where every conjunct that says more than a type is a property of its own.

In `coordinator`, `rebuild`, `auth`, `auth_delete` and `vegapunk_mcp` deadlock is
checked; elsewhere the bounded calls may all be over and nothing is left to do.

### Fairness

* `Coordinator`, `Rebuild`: weak fairness of each worker's steps. Tokio polls
  every ready task; a session makes a bounded number of database and LLM calls,
  the first bounded by `busy_timeout`, the second by the HTTP client's timeout.
  Callers, the clock, deletions and restarts are not fair.
* `Ingest`: weak fairness of the steps that end on their own or at a deadline of
  the handler (the LLM budget, the two waits). `query_nodes`, `Ingest` and
  `IngestRaw` have no timeout anywhere (the client sets a connect timeout and
  keepalive only), so nothing is assumed of them, and `TurnComes` excuses a holder
  that hangs in one. Jobs and polls are not fair either.
* `WikiMcp`, `VegapunkMcp`, `AuthServer`: safety only. Nothing here waits for
  another request; what a client sends next is its own choice.

## Findings

Each is a run that must end in a counterexample; `PROJECT.json` quotes the line.

* `rebuild_late_commit`: a raw is stamped before its insert waits for the writer;
  an iteration that starts and lists in between puts the watermark above it.
* `rebuild_delete`: calls and sessions in flight write after `delete_cascade`.
* `rebuild_restart`: after the first of several affected concepts is written, a
  restart leaves the raws of the others below the watermark.

Smaller observations, which the properties state as exceptions or the models
simply reproduce:

* a listed "new" name that already exists takes a place of the new-concept budget
  (`worker.rs:303`), against the comment beside it;
* the append-before-manual rule holds from the notification on, not from the
  commit: a manual rebuild in between moves the watermark (`state.rs:107`);
* a manual request is taken out of the pending slot before its session has
  succeeded (`state.rs:113`): when that session fails it is not tried again;
* `input_builder` may return fewer raws than the limit when references and new
  raws fill more than half of it, because it asks the search for twice the rest
  and most hits may be known already;
* `catalogue_canonical_names` applies its cap before names are sanitized, so a
  name of control characters can cost a good one its place;
* names with white space around them make the rewrite unstable: a second scan
  changes the text again;
* `canonicalize` takes any text that does not end in `MAX_TOKENS`, a blank one
  included: what a safety or recitation filter let through before it stopped the
  model replaces the original, cut as it is (`canonicalize.rs:295` expects most
  such answers to be empty), and so does an answer cut at the limit without a
  `finishReason`. `RewriteUncut` therefore promises that an ingested answer is all
  that was sent when there is a reason, and all that was meant when it is `STOP`;
* `extract_json` takes everything from the first opening to the last closing brace,
  so prose with a brace before the object and one after it makes a good answer an
  error; and when no `finishReason` is given, the answer is cut off and the prose
  before it holds an object of its own, it is that object which is decoded.
  `WholeAnswerOrNone` states what holds in each case;
* `offset` has no advertised maximum and is refused above `i32::MAX`; whole
  numbers written as `1.0` are refused by `as_i64`; gen 1 refuses an empty title
  or content, contents over a megabyte, invalid concepts and unreadable cursors,
  none of which its schemas announce;
* kids are compared as strings: after `v9`, a new `v10` does not become the
  signing key;
* gen 1 escapes the state in the redirect by code point, which damages a state
  that is not ASCII; gen 2 escapes bytes.

## Proofs

All theorems hold for every value of the constants that satisfies the named
assumptions of the modules, which TLC evaluates in the runs: limits are natural
numbers (positive where the code's constants are), sentinels differ from the
values they stand beside, request bodies are sequences of messages. Two have a
hypothesis of their own: `UsersOfCredentials` is about generation 2 (gen 1
deletes accounts while grants are under way, and `auth_delete` shows what is left
of the statement), and `OneSpellingEach` is explained below.

**`CoordinatorProofs`**: `TypeCorrect`, `OneWorker`, `SlotHeld`.
`OneWorkerPerOwner` alone is not inductive: a request spawns a worker when the
flag is down, so one needs that a lowered flag means no holder, which is
`SlotHeldByWorker`; and that one needs in turn that there is a single holder, so
that a holder leaving may lower the flag. The inductive invariant is `TypeOK`,
`TasksHaveOwners` (a busy slot names an owner) and the two together. `SlotUpdate`
is the one lemma on changing a single slot and the state of a single owner; each
action is an instance of it.

**`AuthServerProofs`**: `AuthTypes`, `OneCredential`, `TokensNeedUsers`.
`OneCredentialPerFlow` speaks of the set of holders; the proof uses `Exclusive`,
the same statement place by place. It needs `FlowsUsed`, because a fresh key must
not be held by anyone already, and `Shape`, which says which locals a handler has
in each phase (only a handler on its way to a code or a token holds an
authorization). `ShrinkSafe` covers the steps that put nothing anywhere; the
steps that hand an authorization on (`authorize`, `callback_google`, `IssueCode`,
`grant_auth_code`, `validate_and_revoke`, `issue_tokens`) each show that the
source is emptied in the step that fills the target. `PutFact` and `TakeFact`
are the facts about the session maps. `TokensNeedUsers` adds that only deletion
removes a row and takes the tokens along, and that a grant stores a token only
for a row that is there.

**`VegapunkMcpProofs`**: `McpTypes`, `NoCrossTenantCall`, `RecordedIsOwned`,
`KeepsFirstClaim`. Neither `TenantIsolation` nor `RecordedMeansOwned` is
inductive: the lookup of an id and its use are different steps, and the rows of a
`record_many` are read back one by one. `SlotInv` says what the handler of a POST
knows at each of its awaits (about to send, it owns the id; reading back, it owns
all rows it has read). It survives the steps of other POSTs because a row of
`tool_ownership` is written once and never changed or deleted (`Kept`,
`OthersKeep`). `StepOK` is what every action guarantees for its own slot and for
the table, and `StepKeepsInv` concludes from it, so that each action is looked at
once. `KeepsFirstClaim` is the refinement: every step is a step of `FirstClaim`
or leaves its variables alone, with the inductive invariant supplying that the
owner read before a call is still the owner when the call is made.
`BodiesAssumption` says that bodies are sequences of JSON-RPC messages, that
`feedback` and `get_job_status` accept no arguments without an id (their first
check), and that schemas and ids are different things.

`EveryEntryAnswered` adds to `SlotInv` that the outcomes so far are those of the
first entries of the body, so that the entry being run is always the next one,
at whichever await it is overtaken.

**`CoordinatorProofs`**, continued: `Implements`, the refinement. The mapping shows the
session of *the* task that holds an owner's slot, chosen with `CHOOSE`;
`OneWorkerPerOwner` makes the choice unique and `SlotHeldByWorker` says from the
running flag whether there is one (`HoldersAreViewed`). An action rewrites the
state of one owner and one task; `SlotView` says what `SingleFlight` sees of such
a change, and one lemma per action names the abstract step.

**`AuthServerProofs`**, continued: `UsersOfCredentials`, `SessionsWithinCaps`,
`SpentForGood`. The caps hold although keys come from an unbounded set, because
`Put` evicts before it inserts. `SpentForGood` is a statement about steps: every
place in which an authorization is good after a step (a pending entry or code
that has not expired, a handler, a token) had a good predecessor before it, in
particular for handlers that read the clock before it moved.

**`RebuildProofs`**: `TypeCorrect`, `WatermarkNeverBack`, `CoveredByWatermark`,
`NotificationsKept`, `AffectedFits`, `LimitKept`. None of the properties is
inductive. `Base` has the types, one worker per owner and that every stamp lies
in the past. `NothingNewer`: no wiki of an owner is stamped later than the
iteration that is writing for it, hence the watermark only grows. `Covering`: an
iteration that may stamp a wiki has listed what its stamp will cover, but for
raws committed behind its horizon; so the watermark covers what it passes. `Wake`: an
announced raw that no extraction has had is either owed (`append_missed`), or
listed by a session that drains, or broken. `Limits`: what was listed and counted
by an iteration is still what is stored when it writes, because its owner has no
other worker; `AffectedFits` is the arithmetic of the cut.

**`IngestProofs`**: `IngestTypes`, `OneAtATime`, `OkIsExtracted`,
`OneSpellingEach`. `Locks` puts each call at one place of the queue of its lock
and only the head past it. The argument for `OkIsExtracted` is about paging
through a list that grows at its new end: what a round has seen of the jobs older
than the call's own is a stretch without gaps that ends at the newest
(`Contiguous`), and so is the set behind the baseline (`Based`). Of two stretches
one contains the other, so when finished jobs exceed the baseline by the number
of the call's texts, it is these texts' jobs that have finished. `Singles` adds
to that, for `OneSpellingEach`, that no job of a schema is pending when a call
reads the catalogue. Its hypothesis `OneSpelling(LlmNames)` is needed only with
an LLM canonicalizer: the model may put in any name of the prompt, so when the
shared schema itself has two spellings of an entity, it can bring both.

**`WikiMcpProofs`**: `TypeCorrect`, `OnlyOwnRows`, `NothingLeftOut`,
`CursorMovesOn`, `AnswersAreTrue`. `Base` says what a handler holds at each await
(whose rows it is about to show, an id that is not in the table when it is about
to insert). The export is about a page defined by counting rows; `PageRight`
concludes from the counts that a page is what lies between two cursors, none
left out, and `PageFact` that it is not empty. `Paging` and `Progress` then say of
a page under way and of those delivered that they lie behind each other and that
every raw still due lies behind the cursor. For the answers, `Kept` and `Told` say
of the entries run so far what `AnswersMatchEffects` says of all.

**`AlgorithmProofs`**: `RateLimited`, `ConceptsWithinBudget`, `KeysRotate`,
`ArgumentsAgree`. The inputs of `MCAlgorithms` are constants here: any number of calls with any pauses,
any budget and minute, any names, any kids and keys. For the limiter, `Fits`
relates a bucket to the calls it has let through: those since a given call, plus
what is left, are no more than a budget and what was refilled since; and, as long
as the bucket is not full, those after a given moment, plus what is left, are no
less than what was refilled since. `RefillFits`, `LeftFits` and `WaitFits` show
that a refill, a call and a wait keep both; `Ledger` carries them through all
calls, and the two halves of `RateKept` are its cases at a passed and at a refused
call. For `KeysRotate` the order of kids is shown to be total, so that the
greatest kid exists and is found in any order of the environment, and to agree
with the order of their numbers where these have as many digits.
`ConceptsWithinBudget` repeats the argument of `AffectedFits` for the operators
alone.

`ArgumentsAgree` is about the two descriptions of every argument: the advertised
`inputSchema`, read by a JSON Schema validator, and the checks of the handler. The
validator goes through nested schemas; `ConformsUnfolds` unfolds it for schemas
nested at most four deep, which covers those of the tools. `FieldAgrees` is the
statement for one field (what its schema accepts the check accepts, and what is
sent on conforms and has the advertised default), with a lemma per kind of check;
one lemma per tool then puts its fields together and names its exceptions. They
hold for all records of JSON values (`IsValue`), of which the inputs of the run
are shown to be some. `QUERY_NODES_LIMIT_MAX`, `I32_MAX` and the sets of concept
names and cursors are arbitrary.

**`ListProofs`**: `SynthesisInputs`, `AnswersMerged`, `AnswersWhole`,
`CanonicalizationKept`, `ClientReadsItsState`, `ScanExact`, about the algorithms
that make lists and texts.
`AscendingFact` says that `Ascending` lists a set of numbers in order, so that a
filter keeps the order of a list, and `PushFact` that the loop of `PushNew` gives
what the properties call `Distinct`: the first of every item, cut where the list is
full. `PushBoth` makes two such loops one. `SynthesisInputs` follows from them
(`BuildFact`): the input is references, new raws and hits in one list without
repetitions, cut at the limit. In `AnswersMerged`, `RankFact` says that the ranks of
a strict total order are `1..n`, so that the sort of `search` is a permutation;
`PageSame` says that a page depends on the first `offset + limit` items only, which
is why fetching that many from both schemas is enough. `AnswersWhole` is about any
objects and any prose around them, braces and strings included. It reads an object
one character at a time, in and out of strings (`JsonReads`): no beginning of an
object is an object (`ObjectFact`), so without an opening brace before it nothing
else can be decoded, wherever the answer is cut off (`UnopenedFact`). What is taken
out of an answer that arrived spans the object (`EnclosedFact`), so it holds it, and
equals it when nothing closes after it (`ArrivedFact`); without braces around it the
object is found (`BareFact`). In `CanonicalizationKept`, `FittingFact` and
`TrimFact` show that the longest beginning that fits exists and trimming keeps it
fitting, and that sanitizing twice changes nothing; `RewriteFact` is arithmetic on
the limits of an answer in bytes and in tokens, with the code's constants, for
answers that end in every way.

`ClientReadsItsState` compares an encoder with a decoder. Decoding is a fold over
the escaped text, and `RoundTrip` reads one escape more at a time: `ReadEscape` shows
that the escape of a byte is read as that byte from any point at which no escape is
open. In gen 1 a character below 128 is its own byte, so the same lemma applies. For
the place of the parameters, `BreaksFact` finds every position in the redirect at
which a parameter may begin: those of the `redirect_uri`, the separator, and the
ampersand before the state, since neither a code nor an escaped state has an
ampersand (`Clean`). `RedirectAssumption` says of the registered `redirect_uri`s
that they have no `code` or `state` parameter of their own (`RedirectUrl` appends,
so such a URI would be answered with two values; fragments are refused at
registration), of codes that they are ULIDs, and
of the characters of a state that they are code points.

`ScanExact` takes the loops of `Words` as tables of their passes (`ScanUnfolds`,
`MatchesUnfold`, `RewritePersonalUnfolds`) and reads an invariant off each table. The
pass of the search has either found an occurrence between boundaries or left none
behind its start, and each pass moves the start on, so that `Len(text)` passes reach
the end: what it finds is exactly the occurrences (`ScanFact`). The matches of a
rewrite are in order, apart from each other and between boundaries (`MatchesFact`).
For the words, `Reading` is an automaton over the lowered text, and the text before a
match leaves no word open in it, so putting another spelling of the key in place of
the match keeps the words that are closed after it (`ReadingMatch`, `RewriteWords`).
That a second scan changes nothing is an argument about places. While the text stays
aligned, lowering keeps every position, so the lowered text is the same for all
names and so are their matches (`RunEven`); each rewrite paints its matches with its
spelling (`RewritePaints`, `RunPaints`). A second run paints the same places in the
same order, but only what a later name painted over differs on the way, and the
later name paints that again: `RewriteTwice` compares the two texts after every name.
This is where names must be trimmed, since an untrimmed spelling is longer than its
key, and where characters that become several matter: a rewrite that puts one in
ends the loop, and the next scan does not start. `WordsAssumption` says that white
space lowers to itself and that nothing else vanishes or becomes white space.

The library's induction theorems take a predicate as a parameter, which none of
the provers can instantiate. Where a proof needs induction on a number it uses
`SetInduction`, a statement about a *set* of numbers that is proved here from the
well-foundedness of `<` or the finiteness of initial segments. The same lemma gives
`Recursion`: a function on `0..N` defined by its own values below exists, so that
the definitions of `Times`, `Checked` and `Version` may be unfolded.

Model-checked only: liveness (`EventuallyReleased`, `AnnouncedRawSettles`,
`TurnComes`), which is out of the prover's reach. Every safety invariant and action
property that a passing run checks, of the state machines and of the algorithms, is
also stated by a theorem.

## Plan

Done: every module above, and the safety properties of every state machine and of
every algorithm. Left: composing `WikiMcp` with `Rebuild`, so that one model has the
tools and the workers; the two share the tables and overlap in `raw_append`.

## Not modelled

* HTTP, JSON parsing, prompts and the wording of answers, the search index and
  its ranking, signatures and digests: libraries or wire formats. Where the code
  decides something from them, that decision is modelled.
* `google.rs`: an answer or a failure of Google. The code checks nothing in it
  beyond what the HTTP client and the decoder report.
* Metrics, configuration, start-up, the generated gRPC client: no property
  depends on them. `parse_client_ip` of `xff.rs` is called by its tests only.
* Schema provisioning: a `CreateSchema` whose result changes nothing in the
  server; `AlreadyExists` is a success and every other failure is logged.
* Rows that nothing changes while the server runs: the shared memories of gen 1
  have no tool that creates or deletes one, and gen 2 has no account deletion.
* In the modelled parts the clock is monotone (a step back would lose raws at
  once, without any interleaving), SQLite transactions are atomic, and several
  server processes on one database are outside the design
  (`ingest_serializer.rs` says so; the state map is in memory too).
