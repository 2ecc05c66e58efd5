------------------------------- MODULE Rebuild -------------------------------
(***************************************************************************)
(* The rebuild pipeline around the coordinator: raw_append calls that      *)
(* stamp, commit and announce a raw, wiki_rebuild calls, account deletion, *)
(* and the drain loop of run_session over the raws and wikis tables        *)
(* (llm-memory-coordinator, llm-memory-storage and the tools of            *)
(* llm-memory-server).  The coordinator is the module of that name.  The   *)
(* code between two awaits is one action; awaits with nothing between them *)
(* that another task could see are taken together (the reads of an         *)
(* iteration, the LLM call and the count that follows it).                 *)
(*                                                                         *)
(* A wiki is its last_rebuilt_at (0: no row) and a raw its created_at, in  *)
(* ticks of the wall clock that stamps both.  The clock does not run       *)
(* backwards here, and several events may share a tick.                    *)
(***************************************************************************)
EXTENDS StateMap, FiniteSetsExt

CONSTANTS
    Owners, Workers, MaxConsecutiveCaps,
    ConceptLimit,   \* CONCEPT_LIMIT_PER_OWNER
    Raws,           \* raw ids; bounds the raw_append calls
    InvalidName,    \* a name the extraction model returns and is_valid rejects
    MaxIterations,  \* MAX_ITERATIONS
    MaxClock,       \* bound on the clock
    MaxManual,      \* bound on the wiki_rebuild calls
    Deletable,      \* bound on account deletion: the owners it may happen to
    MayRestart      \* bound on restarts: whether there are any

ASSUME RebuildAssumption ==
    /\ InvalidName \notin Concepts
    /\ {MaxIterations, MaxConsecutiveCaps} \subseteq Nat \ {0}
    /\ {ConceptLimit, MaxClock, MaxManual} \subseteq Nat
    /\ MaxClock # 0
    /\ Deletable \subseteq Owners
    /\ MayRestart \in BOOLEAN

VARIABLES
    state, task,  \* of the coordinator
    clock,        \* now_ms()
    raws,         \* raws[r]: the row of raw r and the call that inserts it
    wikis,        \* wikis[o][c]: last_rebuilt_at of the wiki, 0 without one
    deleted,      \* deleted[o]: the account of o has been deleted
    manuals,      \* wiki_rebuild calls so far
    sess,         \* sess[w]: the locals of the run_session in task slot w
    coverage,     \* history: how sessions came to know of a raw, see below
    failed        \* history: a session of o broke and no append drain followed

control == <<state, task>>
tables == <<raws, wikis, deleted>>
history == <<coverage, failed>>
vars == <<state, task, clock, raws, wikis, deleted, manuals, sess, coverage, failed>>

Coord == INSTANCE Coordinator

INSTANCE ConceptBudget

\* "inserting": stamped, not committed.  "notifying": committed, not yet
\* announced.  "notified": announced.  "dead": the call ended without it.
Call == {"unsent", "inserting", "notifying", "notified", "dead"}

Raw == [owner : Owners \cup {None}, created_at : 0..MaxClock,
        stored : BOOLEAN, call : Call]

Session == [pc : {"start", "read", "decide", "synth", "capped"},
            iteration : 0..MaxIterations,
            started_at : 0..MaxClock,
            new_raws : SUBSET Raws,
            existing : SUBSET Concepts,
            todo : SUBSET Concepts,
            remainder : BOOLEAN]

NoRaw == [owner |-> None, created_at |-> 0, stored |-> FALSE, call |-> "unsent"]

NewSession == [pc |-> "start", iteration |-> 0, started_at |-> 0, new_raws |-> {},
               existing |-> {}, todo |-> {}, remainder |-> FALSE]

Init == /\ Coord!Init
        /\ clock = 1
        /\ raws = [r \in Raws |-> NoRaw]
        /\ wikis = [o \in Owners |-> [c \in Concepts |-> 0]]
        /\ deleted = [o \in Owners |-> FALSE]
        /\ manuals = 0
        /\ sess = [w \in Workers |-> NewSession]
        /\ coverage = [r \in Raws |-> {}]
        /\ failed = [o \in Owners |-> FALSE]

-----------------------------------------------------------------------------
(* Queries                                                                 *)

max_last_rebuilt_at(o) == Max({wikis[o][c] : c \in Concepts} \cup {0})

\* Mutant: the upper bound is exclusive.
list_since_exclusive(o, since_exclusive, until_inclusive) ==
    {r \in Raws : /\ raws[r].stored
                  /\ raws[r].owner = o
                  /\ raws[r].created_at > since_exclusive
                  /\ raws[r].created_at < until_inclusive}

list_since(o, since_exclusive, until_inclusive) ==
    {r \in Raws : /\ raws[r].stored
                  /\ raws[r].owner = o
                  /\ raws[r].created_at > since_exclusive
                  /\ raws[r].created_at <= until_inclusive}

list_concepts(o) == {c \in Concepts : wikis[o][c] # 0}

count_concepts(o) == Cardinality(list_concepts(o))

-----------------------------------------------------------------------------
(* Tool calls.  require_auth has looked the user up before a call starts.  *)

\* raws::insert reads the clock, then waits for a connection and the writer.
StampRaw(r, o) ==
    /\ raws[r].call = "unsent"
    /\ ~deleted[o]
    /\ raws' = [raws EXCEPT ![r] = [owner |-> o, created_at |-> clock,
                                    stored |-> FALSE, call |-> "inserting"]]
    /\ UNCHANGED <<control, clock, wikis, deleted, manuals, sess, history>>

\* The newest started_at whose reads are over, or the watermark: a raw stamped
\* up to here and committed now is behind what sessions have listed.
Horizon(o) ==
    Max({max_last_rebuilt_at(o)} \cup
        {sess[w].started_at : w \in {v \in Workers :
             /\ task[v].owner = o
             /\ sess[v].pc \in {"decide", "synth", "capped"}}})

CommitRaw(r) ==
    /\ raws[r].call = "inserting"
    /\ raws' = [raws EXCEPT ![r].stored = TRUE, ![r].call = "notifying"]
    /\ coverage' = IF raws[r].created_at <= Horizon(raws[r].owner)
                     THEN [coverage EXCEPT ![r] = @ \cup {"late"}]
                     ELSE coverage
    /\ UNCHANGED <<control, clock, wikis, deleted, manuals, sess, failed>>

NotifyRaw(r) ==
    /\ raws[r].call = "notifying"
    /\ raws' = [raws EXCEPT ![r].call = "notified"]
    /\ Coord!notify_append(raws[r].owner)
    /\ UNCHANGED <<clock, wikis, deleted, manuals, sess, history>>

\* The insert fails, or the client goes away and the handler is dropped.
AbandonCall(r) ==
    /\ raws[r].call \in {"inserting", "notifying"}
    /\ raws' = [raws EXCEPT ![r].call = "dead"]
    /\ UNCHANGED <<control, clock, wikis, deleted, manuals, sess, history>>

WikiRebuild(o, mode) ==
    /\ manuals < MaxManual
    /\ ~deleted[o]
    /\ manuals' = manuals + 1
    /\ Coord!request_manual(o, mode)
    /\ UNCHANGED <<clock, tables, sess, history>>

\* delete_cascade is one transaction; the state map and tasks are not told.
DeleteAccount(o) ==
    /\ o \in Deletable
    /\ ~deleted[o]
    /\ deleted' = [deleted EXCEPT ![o] = TRUE]
    /\ raws' = [r \in Raws |-> IF raws[r].owner = o
                                 THEN [raws[r] EXCEPT !.stored = FALSE]
                                 ELSE raws[r]]
    /\ wikis' = [wikis EXCEPT ![o] = [c \in Concepts |-> 0]]
    /\ UNCHANGED <<control, clock, manuals, sess, history>>

-----------------------------------------------------------------------------
(* run_session                                                             *)

\* The first iteration runs in the session's mode, the others drain.
Mode(w) == IF sess[w].iteration = 1 THEN task[w].mode ELSE AppendMode

At(w, pc) == Coord!InSession(w) /\ sess[w].pc = pc

EndSession(w) == sess' = [sess EXCEPT ![w] = NewSession]

BeginIteration(w) ==
    /\ At(w, "start")
    /\ sess' = [sess EXCEPT ![w].pc = "read", ![w].iteration = @ + 1,
                            ![w].started_at = clock]
    /\ UNCHANGED <<control, clock, tables, manuals, history>>

ReadTables(w) ==
    LET o == task[w].owner
    IN  /\ At(w, "read")
        /\ sess' = [sess EXCEPT
              ![w].pc = "decide",
              ![w].new_raws = list_since(o, max_last_rebuilt_at(o), sess[w].started_at),
              ![w].existing = list_concepts(o)]
        /\ UNCHANGED <<control, clock, tables, manuals, history>>

\* The session's raws have been looked at, by extraction or for a manual rebuild.
Cover(w, how) ==
    coverage' = [r \in Raws |-> IF r \in sess[w].new_raws
                                  THEN coverage[r] \cup {how} ELSE coverage[r]]

\* The affected concepts are known: synthesize them, or end without any.
Proceed(w, affected) ==
    IF affected = {}
      THEN EndSession(w) /\ Coord!SessionDone(w)
      ELSE /\ sess' = [sess EXCEPT ![w].pc = "synth", ![w].todo = affected]
           /\ UNCHANGED control

DrainComplete(w) ==
    /\ At(w, "decide")
    /\ Mode(w) = AppendMode
    /\ sess[w].new_raws = {}
    /\ EndSession(w)
    /\ Coord!SessionDone(w)
    /\ failed' = [failed EXCEPT ![task[w].owner] = FALSE]
    /\ UNCHANGED <<clock, tables, manuals, coverage>>

\* What the extraction model may answer, up to two new names.
Names == Concepts \cup {InvalidName}
NameLists == UNION {[1..n -> Names] : n \in 0..2}

Extract(w) ==
    LET o == task[w].owner
    IN  /\ At(w, "decide")
        /\ Mode(w) = AppendMode
        /\ sess[w].new_raws # {}
        /\ \E affected \in {Affected(sess[w].existing, count_concepts(o), ae, nc) :
                               ae \in SUBSET Names, nc \in NameLists} :
              Proceed(w, affected)
        /\ Cover(w, "append")
        /\ failed' = [failed EXCEPT ![o] = FALSE]
        /\ UNCHANGED <<clock, tables, manuals>>

\* Mutant: a manual rebuild of a new concept ignores the limit.
OverBudgetNever(w) == FALSE

OverBudget(w) ==
    /\ task[w].mode \in Concepts
    /\ task[w].mode \notin sess[w].existing
    /\ count_concepts(task[w].owner) >= ConceptLimit

\* A rejected manual concept turns the rest of the session into a drain.
RejectManual(w) ==
    /\ At(w, "decide")
    /\ Mode(w) # AppendMode
    /\ OverBudget(w)
    /\ IF sess[w].iteration = MaxIterations
         THEN EndSession(w) /\ Coord!SessionDone(w)
         ELSE sess' = [sess EXCEPT ![w].pc = "start"] /\ UNCHANGED control
    /\ UNCHANGED <<clock, tables, manuals, history>>

RebuildManual(w) ==
    LET affected == IF task[w].mode = FullRebuild THEN sess[w].existing
                                                  ELSE {task[w].mode}
    IN  /\ At(w, "decide")
        /\ Mode(w) # AppendMode
        /\ ~OverBudget(w)
        /\ Proceed(w, affected)
        /\ IF affected = {} THEN UNCHANGED coverage ELSE Cover(w, "manual")
        /\ UNCHANGED <<clock, tables, manuals, failed>>

\* Mutant: the wiki is stamped when it is written.
RebuiltAtNow(w) == clock

\* The last_rebuilt_at that synthesize_one upserts.
RebuiltAt(w) == sess[w].started_at

SynthesizeOne(w, c) ==
    /\ At(w, "synth")
    /\ c \in sess[w].todo
    /\ sess' = [sess EXCEPT ![w].todo = @ \ {c}]
    /\ wikis' = [wikis EXCEPT ![task[w].owner][c] = RebuiltAt(w)]
    /\ UNCHANGED <<control, clock, raws, deleted, manuals, history>>

\* A failing concept is logged and counted, its wiki is left alone.
SynthesizeFails(w, c) ==
    /\ At(w, "synth")
    /\ c \in sess[w].todo
    /\ sess' = [sess EXCEPT ![w].todo = @ \ {c}]
    /\ UNCHANGED <<control, clock, tables, manuals, history>>

\* After the last iteration run_worker looks for raws above the watermark.
EndIteration(w) ==
    LET o == task[w].owner
    IN  /\ At(w, "synth")
        /\ sess[w].todo = {}
        /\ IF sess[w].iteration < MaxIterations
             THEN sess' = [sess EXCEPT ![w].pc = "start"]
             ELSE \E lookupFailed \in BOOLEAN :
                    sess' = [sess EXCEPT
                       ![w].pc = "capped",
                       ![w].remainder = \/ lookupFailed
                                        \/ list_since(o, max_last_rebuilt_at(o), clock) # {}]
        /\ UNCHANGED <<control, clock, tables, manuals, history>>

CapSession(w) ==
    /\ At(w, "capped")
    /\ Coord!SessionCapped(w, sess[w].remainder)
    /\ EndSession(w)
    /\ UNCHANGED <<clock, tables, manuals, history>>

\* A query outside synthesize_one or the extraction fails, or anything panics.
BreakSession(w, how) ==
    /\ how = "err" => \/ sess[w].pc \in {"read", "decide"}
                      \/ /\ sess[w].pc = "capped"
                         /\ task[w].caps + 1 >= MaxConsecutiveCaps
    /\ Coord!SessionBroken(w, how)
    /\ EndSession(w)
    /\ failed' = [failed EXCEPT ![task[w].owner] = TRUE]
    /\ UNCHANGED <<clock, tables, manuals, coverage>>

OuterExit(w) ==
    /\ Coord!OuterExit(w)
    /\ UNCHANGED <<clock, tables, manuals, sess, history>>

-----------------------------------------------------------------------------
Tick == /\ clock < MaxClock
        /\ clock' = clock + 1
        /\ UNCHANGED <<control, tables, manuals, sess, history>>

\* The process restarts: tables survive, sessions and calls do not.
Restart ==
    /\ MayRestart
    /\ Coord!Restart
    /\ sess' = [w \in Workers |-> NewSession]
    /\ raws' = [r \in Raws |-> IF raws[r].call \in {"inserting", "notifying"}
                                 THEN [raws[r] EXCEPT !.call = "dead"]
                                 ELSE raws[r]]
    /\ failed' = [o \in Owners |-> TRUE]
    /\ UNCHANGED <<clock, wikis, deleted, manuals, coverage>>

CallStep ==
    \/ \E r \in Raws : \/ \E o \in Owners : StampRaw(r, o)
                       \/ CommitRaw(r)
                       \/ NotifyRaw(r)
                       \/ AbandonCall(r)
    \/ \E o \in Owners : \/ \E mode \in ManualModes : WikiRebuild(o, mode)
                         \/ DeleteAccount(o)

WorkerStep(w) ==
    \/ BeginIteration(w)
    \/ ReadTables(w)
    \/ DrainComplete(w)
    \/ Extract(w)
    \/ RejectManual(w)
    \/ RebuildManual(w)
    \/ \E c \in Concepts : SynthesizeOne(w, c) \/ SynthesizeFails(w, c)
    \/ EndIteration(w)
    \/ CapSession(w)
    \/ \E how \in {"err", "panic"} : BreakSession(w, how)
    \/ OuterExit(w)

Next == CallStep \/ (\E w \in Workers : WorkerStep(w)) \/ Tick \/ Restart

Spec == Init /\ [][Next]_vars

\* As in Coordinator; the callers, the clock and restarts are not fair.
FairSpec == Spec /\ \A w \in Workers : WF_vars(WorkerStep(w))

-----------------------------------------------------------------------------
(* Properties.  coverage[r] records how sessions came to know of raw r:    *)
(* "append" when an extraction was given r, "manual" when a manual rebuild *)
(* that synthesized something had listed r, "late" when r was committed    *)
(* behind the horizon of what had been listed by then.                     *)

\* The tables and the locals of a session, next to the coordinator's own types.
TypeOK == /\ Coord!TypeOK
          /\ clock \in 1..MaxClock
          /\ raws \in [Raws -> Raw]
          /\ wikis \in [Owners -> [Concepts -> 0..MaxClock]]
          /\ deleted \in [Owners -> BOOLEAN]
          /\ manuals \in 0..MaxManual
          /\ sess \in [Workers -> Session]
          /\ coverage \in [Raws -> SUBSET {"append", "manual", "late"}]
          /\ failed \in [Owners -> BOOLEAN]

\* The watermark never passes a raw that no iteration had listed, except one
\* committed behind the horizon: wikis are stamped with the time at which the
\* iteration began, not the time at which they are written (run_session).
WatermarkCovers ==
    \A r \in Raws :
        raws[r].stored /\ raws[r].created_at <= max_last_rebuilt_at(raws[r].owner)
            => coverage[r] # {}

\* An announced raw above the watermark of an idle owner has been through an
\* extraction, unless a session broke since: a notification that arrives at
\* any point of a worker's life, its exit included, is not lost.
NoLostWakeup ==
    \A r \in Raws :
        LET o == raws[r].owner
        IN  /\ raws[r].stored
            /\ raws[r].call = "notified"
            /\ ~state[o].running
            /\ ~failed[o]
            /\ raws[r].created_at > max_last_rebuilt_at(o)
            => "append" \in coverage[r]

\* No owner with an account has more wikis than CONCEPT_LIMIT_PER_OWNER: the
\* concepts were listed before the extraction call and are counted after it.
WithinConceptLimit ==
    \A o \in Owners : ~deleted[o] => count_concepts(o) <= ConceptLimit

\* The watermark of an account never moves back, though upsert overwrites
\* last_rebuilt_at without comparing: no older iteration writes after a newer.
WatermarkMonotone ==
    [][\A o \in Owners :
          ~deleted'[o] => max_last_rebuilt_at(o)' >= max_last_rebuilt_at(o)]_vars

\* An announced raw is eventually extracted, passed by the watermark or
\* deleted, unless a session of its owner breaks.
AnnouncedRawSettles ==
    \A r \in Raws :
        raws[r].call = "notified" ~>
            \/ ~raws[r].stored
            \/ "append" \in coverage[r]
            \/ raws[r].created_at <= max_last_rebuilt_at(raws[r].owner)
            \/ failed[raws[r].owner]

-----------------------------------------------------------------------------
(* Statements of the repository's comments and design document that the    *)
(* code does not keep.                                                     *)

\* "raws added during a rebuild are not missed by the next iteration or
\* rebuild" (design, section 7.2; the comment on append_missed): when a
\* healthy owner is idle, some session has listed every announced raw.
AnnouncedRawsAreListed ==
    \A r \in Raws :
        /\ raws[r].stored
        /\ raws[r].call = "notified"
        /\ ~state[raws[r].owner].running
        /\ ~failed[raws[r].owner]
        => coverage[r] \cap {"append", "manual"} # {}

\* Account deletion removes the owner's personal raws and wikis (design,
\* section 12.2): none is there afterwards.
DeletedAccountIsEmpty ==
    \A o \in Owners :
        deleted[o] => /\ list_concepts(o) = {}
                      /\ \A r \in Raws : raws[r].owner = o => ~raws[r].stored

\* After a restart "the missed raws are picked up from MAX(last_rebuilt_at)"
\* (design, section 7.4): while concepts are still to be synthesized from a
\* set of raws, a restart would find those raws above the watermark.
RestartFindsUnfinishedRaws ==
    \A w \in Workers :
        At(w, "synth") /\ sess[w].todo # {} =>
            \A r \in sess[w].new_raws :
                raws[r].stored =>
                    raws[r].created_at > max_last_rebuilt_at(task[w].owner)
=============================================================================
