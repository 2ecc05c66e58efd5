------------------------------ MODULE StateMap ------------------------------
(***************************************************************************)
(* The per-owner rebuild state of llm-memory-coordinator                   *)
(* (crates/llm-memory-coordinator/src/state.rs).  StateMap is a HashMap    *)
(* behind one mutex and every method holds the lock for its whole body, so *)
(* a method is an operator from the old RebuildState to the new one.       *)
(***************************************************************************)
CONSTANTS
    Concepts,     \* concept names a wiki may have
    AppendMode,   \* RebuildMode::Append
    FullRebuild,  \* RebuildMode::Manual { concept: None }
    None          \* Option::None

ASSUME ModeAssumption ==
    /\ {AppendMode, FullRebuild, None} \cap Concepts = {}
    /\ AppendMode # FullRebuild
    /\ AppendMode # None
    /\ FullRebuild # None

\* Manual { concept: Some(c) } is written c.
ManualModes == Concepts \cup {FullRebuild}

RebuildMode == ManualModes \cup {AppendMode}

RebuildState == [running : BOOLEAN,
                 manual_pending : ManualModes \cup {None},
                 append_missed : BOOLEAN]

\* RebuildState::default(), what or_default() inserts for an unknown owner.
DefaultState ==
    [running |-> FALSE, manual_pending |-> None, append_missed |-> FALSE]

\* A full rebuild absorbs everything; otherwise the incoming request wins.
merge_pending(existing, incoming) ==
    IF existing = FullRebuild THEN FullRebuild ELSE incoming

\* An idle owner that still owes an append queues a manual request behind it.
QueuesBehindAppend(st, mode) == st.append_missed /\ mode # AppendMode

\* The mode of StartOutcome::Started when the owner was idle.
StartingMode(st, mode) ==
    IF QueuesBehindAppend(st, mode) THEN AppendMode ELSE mode

\* Mutant: an append that finds a worker running takes the manual slot.
MarkBusyOneSlot(st, mode) == [st EXCEPT !.manual_pending = merge_pending(@, mode)]

\* Mutant: an append that finds a worker running leaves no mark.
MarkBusyForgetsAppend(st, mode) ==
    IF mode = AppendMode
      THEN st
      ELSE [st EXCEPT !.manual_pending = merge_pending(@, mode)]

\* Requests that find a worker running only leave a mark for it.
MarkBusy(st, mode) ==
    IF mode = AppendMode
      THEN [st EXCEPT !.append_missed = TRUE]
      ELSE [st EXCEPT !.manual_pending = merge_pending(@, mode)]

\* An idle owner's slot is claimed; the append mark is always consumed.
ClaimIdle(st, mode) ==
    [running |-> TRUE,
     manual_pending |-> IF QueuesBehindAppend(st, mode)
                          THEN merge_pending(st.manual_pending, mode)
                          ELSE st.manual_pending,
     append_missed |-> FALSE]

try_start(st, mode) ==
    IF st.running THEN MarkBusy(st, mode) ELSE ClaimIdle(st, mode)

\* Mutant: the pending manual rebuild goes before the missed append.
ContinueModeManualFirst(st) ==
    IF st.manual_pending # None THEN st.manual_pending
    ELSE IF st.append_missed THEN AppendMode ELSE None

\* What mark_idle_or_continue returns: a missed append before a pending
\* manual rebuild, None when the slot is given up.
ContinueMode(st) == IF st.append_missed THEN AppendMode ELSE st.manual_pending

\* What mark_idle_or_continue leaves in the map.
mark_idle_or_continue(st) ==
    CASE st.append_missed -> [st EXCEPT !.append_missed = FALSE]
      [] ~st.append_missed /\ st.manual_pending # None
                          -> [st EXCEPT !.manual_pending = None]
      [] OTHER            -> [st EXCEPT !.running = FALSE]

force_idle(st) == DefaultState

release_running_preserve_pending(st) == [st EXCEPT !.running = FALSE]
=============================================================================
