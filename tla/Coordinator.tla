----------------------------- MODULE Coordinator -----------------------------
(***************************************************************************)
(* The rebuild coordinator and its worker tasks                            *)
(* (crates/llm-memory-coordinator/src/{coordinator,worker}.rs).  A tool    *)
(* call claims the owner's slot in the state map and spawns an outer task, *)
(* which spawns run_worker and waits for its join handle.  A session is    *)
(* opaque here: it ends Done, DrainCapped, in an error or in a panic       *)
(* (module Rebuild opens it up).  The outer task acts on the state map     *)
(* only after run_worker has ended, and other calls run in between.        *)
(***************************************************************************)
EXTENDS StateMap, Naturals, FiniteSets

CONSTANTS
    Owners,             \* owner keys
    Workers,            \* slots for spawned tasks; bounds the live tasks
    MaxConsecutiveCaps  \* MAX_CONSECUTIVE_CAPS

ASSUME CapsAssumption == MaxConsecutiveCaps \in Nat \ {0}

VARIABLES
    state,  \* state[o]: the RebuildState of owner o
    task    \* task[w]: the outer task in slot w and the run_worker it awaits

vars == <<state, task>>

\* "session": run_worker is inside run_session.  "ok", "err", "panic": it
\* ended that way and the outer task has not yet acted on the result.
Phase == {"free", "session", "ok", "err", "panic"}

\* caps saturates at MaxConsecutiveCaps, the only value it is compared with.
Task == [phase : Phase,
         owner : Owners \cup {None},
         mode : RebuildMode \cup {None},
         caps : 0..MaxConsecutiveCaps,
         remainder_drain_used : BOOLEAN]

TaskOf(phase, o, mode, caps, used) ==
    [phase |-> phase, owner |-> o, mode |-> mode, caps |-> caps,
     remainder_drain_used |-> used]

NoTask == TaskOf("free", None, None, 0, FALSE)

Init == /\ state = [o \in Owners |-> DefaultState]
        /\ task = [w \in Workers |-> NoTask]

-----------------------------------------------------------------------------
(* Requests                                                                *)

spawn_worker(w, o, mode) ==
    /\ task[w].phase = "free"
    /\ task' = [task EXCEPT ![w] = TaskOf("session", o, mode, 0, FALSE)]

\* try_start, and a spawn when it answers Started.
Trigger(o, mode) ==
    /\ state' = [state EXCEPT ![o] = try_start(@, mode)]
    /\ IF state[o].running
         THEN UNCHANGED task
         ELSE \E w \in Workers :
                 spawn_worker(w, o, StartingMode(state[o], mode))

notify_append(o) == Trigger(o, AppendMode)

request_manual(o, mode) == mode \in ManualModes /\ Trigger(o, mode)

-----------------------------------------------------------------------------
(* run_worker                                                              *)

InSession(w) == task[w].phase = "session"

\* run_worker enters its next session.
NextSession(w, mode, caps, used) ==
    task' = [task EXCEPT ![w] = TaskOf("session", task[w].owner, mode, caps, used)]

\* run_worker has returned or unwound; its locals are gone.
Ended(t, how) == TaskOf(how, t.owner, t.mode, 0, FALSE)

\* run_worker asks the state map what comes next and ends if nothing does.
Yield(w, caps) ==
    LET o == task[w].owner
        next == ContinueMode(state[o])
    IN  /\ state' = [state EXCEPT ![o] = mark_idle_or_continue(@)]
        /\ IF next = None
             THEN task' = [task EXCEPT ![w] = Ended(@, "ok")]
             ELSE NextSession(w, next, caps, task[w].remainder_drain_used)

SessionDone(w) == InSession(w) /\ Yield(w, 0)

\* Mutant: the forced drain of the remainder is not limited to one.
SessionCappedDrainsAgain(w, remainder) ==
    LET streak == task[w].caps + 1
    IN  /\ InSession(w)
        /\ \/ /\ streak < MaxConsecutiveCaps \/ remainder
              /\ NextSession(w, AppendMode, streak % MaxConsecutiveCaps, FALSE)
              /\ UNCHANGED state
           \/ /\ streak >= MaxConsecutiveCaps
              /\ ~remainder
              /\ Yield(w, MaxConsecutiveCaps)

\* The session used up its iterations.  remainder: raws are left above the
\* watermark, or looking for them failed.
SessionCapped(w, remainder) ==
    LET streak == task[w].caps + 1
        drain == remainder /\ ~task[w].remainder_drain_used
    IN  /\ InSession(w)
        /\ \/ /\ streak < MaxConsecutiveCaps
              /\ NextSession(w, AppendMode, streak, task[w].remainder_drain_used)
              /\ UNCHANGED state
           \/ /\ streak >= MaxConsecutiveCaps
              /\ drain
              /\ NextSession(w, AppendMode, 0, TRUE)
              /\ UNCHANGED state
           \/ /\ streak >= MaxConsecutiveCaps
              /\ ~drain
              /\ Yield(w, MaxConsecutiveCaps)

\* Mutant: the outer task is gone before the inner one panics.
SessionBrokenDetached(w, how) ==
    /\ InSession(w)
    /\ task' = [task EXCEPT ![w] = NoTask]
    /\ UNCHANGED state

\* An error leaves run_worker through `?'; a panic unwinds it.
SessionBroken(w, how) ==
    /\ InSession(w)
    /\ task' = [task EXCEPT ![w] = Ended(@, how)]
    /\ UNCHANGED state

-----------------------------------------------------------------------------
(* The outer task, once inner.await returns                                *)

\* Mutant: the outer task clears the owner's state on every exit.
AfterJoinAlwaysIdle(phase, st) == force_idle(st)

AfterJoin(phase, st) ==
    CASE phase = "ok"    -> st
      [] phase = "err"   -> release_running_preserve_pending(st)
      [] phase = "panic" -> force_idle(st)

OuterExit(w) ==
    /\ task[w].phase \in {"ok", "err", "panic"}
    /\ state' = [state EXCEPT ![task[w].owner] = AfterJoin(task[w].phase, @)]
    /\ task' = [task EXCEPT ![w] = NoTask]

\* The state map and the tasks live in the server process.
Restart == /\ state' = [o \in Owners |-> DefaultState]
           /\ task' = [w \in Workers |-> NoTask]

-----------------------------------------------------------------------------
WorkerStep(w) ==
    \/ SessionDone(w)
    \/ \E remainder \in BOOLEAN : SessionCapped(w, remainder)
    \/ \E how \in {"err", "panic"} : SessionBroken(w, how)
    \/ OuterExit(w)

Request(o) == notify_append(o) \/ \E mode \in ManualModes : request_manual(o, mode)

Next ==
    \/ \E o \in Owners : Request(o)
    \/ \E w \in Workers : WorkerStep(w)
    \/ Restart

Spec == Init /\ [][Next]_vars

\* Tokio polls every ready task, a session makes a bounded number of calls
\* and each of them has a timeout, so a task is never left half way.
FairSpec == Spec /\ \A w \in Workers : WF_vars(WorkerStep(w))

-----------------------------------------------------------------------------
(* Properties                                                              *)

\* The state map of state.rs and the outer tasks of worker.rs; both kinds of
\* pending work of an owner are kept side by side (RebuildState).
TypeOK == /\ state \in [Owners -> RebuildState]
          /\ task \in [Workers -> Task]

\* A task that works for owner o or will still touch o's state: everything
\* but a free slot and a normal exit.
Holds(w, o) ==
    task[w].owner = o /\ task[w].phase \in {"session", "err", "panic"}

Holders(o) == {w \in Workers : Holds(w, o)}

\* No owner ever has two workers, nor a worker beside one that failed and has
\* not been cleaned up yet: the outer task of a finished worker must not clear
\* the flag its successor has set (the race described above spawn_worker).
OneWorkerPerOwner ==
    \A o \in Owners : \A v, w \in Holders(o) : v = w

\* The running flag is up exactly while some task will still lower it: it is
\* never left up by a panic, an error or a normal exit, which would shut the
\* owner out of rebuilds for good, and never down while a session runs.
SlotHeldByWorker ==
    \A o \in Owners : state[o].running <=> Holders(o) # {}

\* Whatever way its sessions end, a worker gives the slot back once requests
\* for its owner stop coming: the cap streak and the single forced remainder
\* drain bound the sessions that run_worker starts on its own.
EventuallyReleased ==
    \A o \in Owners : []<><<Request(o)>>_vars \/ []<>~state[o].running

\* The coordinator implements the SingleFlight promise: the owner's session is
\* that of the task holding the slot, the debt is what the state map marks.
ServingMode(o) ==
    IF Holders(o) = {} THEN None
                       ELSE task[CHOOSE w \in Workers : Holds(w, o)].mode

OwedModes(o) ==
    {m \in RebuildMode : \/ m = AppendMode /\ state[o].append_missed
                        \/ m = state[o].manual_pending}

BrokenHow(o) ==
    IF \E w \in Holders(o) : ~InSession(w)
      THEN task[CHOOSE w \in Workers : Holds(w, o)].phase ELSE "no"

SF == INSTANCE SingleFlight WITH serving <- [o \in Owners |-> ServingMode(o)],
                                 owed <- [o \in Owners |-> OwedModes(o)],
                                 broken <- [o \in Owners |-> BrokenHow(o)]

\* Every step of the coordinator is a step of SingleFlight or changes nothing
\* that SingleFlight sees: a notification or a manual request that arrives in
\* any phase of a worker's life is served or stays owed.
ImplementsSingleFlight == SF!Spec
=============================================================================
