---------------------------- MODULE RebuildProofs ----------------------------
(***************************************************************************)
(* Proofs about Rebuild, for any number of owners, raws, concepts, task    *)
(* slots, iterations and concurrent calls.                                 *)
(*                                                                         *)
(* The invariants build on Base: types, one worker per owner, and stamps   *)
(* that lie in the past.  Added to it are NothingNewer (no wiki of an      *)
(* owner is stamped later than an iteration that still writes for it), for *)
(* the watermark's monotonicity; Covering (what the stamp of an iteration  *)
(* will cover it has listed), for the watermark's truth; Wake (an          *)
(* announced raw that no extraction has had is owed, or listed by a        *)
(* session that drains), for the notifications; and Limits (between the    *)
(* reads of an iteration and its last write nobody else writes), for the   *)
(* concept limit.  The coordinator's operations are summed up by what they *)
(* do to one owner and one task (Marks, Starts, Continues, Stops, Breaks,  *)
(* Exits), so that each proof looks at these effects and not at the state  *)
(* map.                                                                    *)
(***************************************************************************)
EXTENDS Rebuild, FiniteSetTheorems, TLAPS

-----------------------------------------------------------------------------
(* The watermark                                                           *)

\* A bounded set of numbers has a maximum, and Max is it.
LEMMA MaxFact ==
    ASSUME NEW S \in SUBSET Nat, S # {}, NEW n \in Nat, \A x \in S : x <= n
    PROVE  Max(S) \in S /\ \A x \in S : x <= Max(S)
<1> DEFINE T == {n - x : x \in S}
           R == OpToRel(<, Nat)
<1>1. T \subseteq Nat /\ T # {}
  <2>1. \A x \in S : n - x \in Nat
    OBVIOUS
  <2>2. \E x \in S : n - x \in T
    OBVIOUS
  <2> QED BY <2>1, <2>2
<1>2. IsWellFoundedOn(R, Nat)
  BY NatLessThanWellFounded
<1> HIDE DEF T, R
<1>3. PICK m \in T : \A y \in T : ~(<<y, m>> \in R)
  BY <1>1, <1>2, WFMin
<1>4. \A y \in T : m <= y
  <2>1. \A x, y \in Nat : y < x => <<y, x>> \in R
    BY DEF R, OpToRel
  <2>2. \A x, y \in Nat : y < x \/ x <= y
    OBVIOUS
  <2> QED BY <1>1, <1>3, <2>1, <2>2
<1>5. PICK x \in S : m = n - x
  BY DEF T
<1>6. \A y \in S : y <= x
  <2> SUFFICES ASSUME NEW y \in S PROVE y <= x
    OBVIOUS
  <2>1. n - y \in T
    BY DEF T
  <2> QED BY <1>4, <1>5, <2>1
<1>7. \E z \in S : \A y \in S : z >= y
  BY <1>6
<1>8. Max(S) \in S /\ \A y \in S : Max(S) >= y
  BY <1>7 DEF Max
<1> QED BY <1>8

\* What MAX(last_rebuilt_at) is of an owner's wikis.
Newest(f) == Max({f[c] : c \in Concepts} \cup {0})

\* The watermark is the time of some wiki, or 0, and no wiki is newer.
LEMMA NewestFact ==
    ASSUME NEW f \in [Concepts -> 0..MaxClock]
    PROVE  /\ Newest(f) \in 0..MaxClock
           /\ \A c \in Concepts : f[c] <= Newest(f)
           /\ Newest(f) = 0 \/ \E c \in Concepts : Newest(f) = f[c]
<1> DEFINE S == {f[c] : c \in Concepts} \cup {0}
<1>1. S \in SUBSET (0..MaxClock) /\ S # {} /\ MaxClock \in Nat
  BY RebuildAssumption
<1>2. \A x \in S : x <= MaxClock
  BY <1>1
<1>3. S \in SUBSET Nat
  BY <1>1
<1>4. Max(S) \in S /\ \A x \in S : x <= Max(S)
  <2> HIDE DEF S
  <2> QED BY <1>1, <1>2, <1>3, MaxFact
<1> QED BY <1>1, <1>4 DEF Newest

LEMMA WatermarkIs == \A o : max_last_rebuilt_at(o) = Newest(wikis[o])
BY DEF max_last_rebuilt_at, Newest

-----------------------------------------------------------------------------
(* The coordinator, as the pipeline sees it                                *)

\* The task works for its owner or will still lower the owner's flag.
Works(w) == task[w].phase \in {"session", "err", "panic"}

\* A working task has the owner's slot for itself, and the flag is up.
OneWorker ==
    /\ \A w \in Workers : task[w].phase # "free" => task[w].owner \in Owners
    /\ \A w \in Workers : Works(w) =>
          /\ task[w].mode \in RebuildMode
          /\ state[task[w].owner].running
          /\ \A v \in Workers : Works(v) /\ task[v].owner = task[w].owner => v = w

\* Only the state of owner o and the task in slot w change.
Touches(o, w) == /\ \A p \in Owners \ {o} : state'[p] = state[p]
                 /\ \A v \in Workers \ {w} : task'[v] = task[v]

\* A request finds a worker running: an append leaves its mark.
Marks(o, mode) ==
    /\ state[o].running /\ state'[o].running
    /\ state[o].append_missed \/ mode = AppendMode => state'[o].append_missed
    /\ \A p \in Owners \ {o} : state'[p] = state[p]
    /\ UNCHANGED task

\* A request starts a worker: it drains first if an append is owed.
Starts(o, w, mode) ==
    /\ ~state[o].running /\ state'[o].running
    /\ task[w].phase = "free" /\ task'[w].phase = "session"
    /\ task'[w].owner = o /\ task'[w].mode \in RebuildMode
    /\ state[o].append_missed \/ mode = AppendMode => task'[w].mode = AppendMode
    /\ Touches(o, w)

\* run_worker goes on: it drains if an append is owed.
Continues(w) ==
    LET o == task[w].owner
    IN  /\ task[w].phase = "session" /\ task'[w].phase = "session"
        /\ task'[w].owner = o /\ task'[w].mode \in RebuildMode
        /\ state'[o].running = state[o].running
        /\ state[o].append_missed => task'[w].mode = AppendMode
        /\ Touches(o, w)

\* run_worker returns: no append is owed.
Stops(w) ==
    LET o == task[w].owner
    IN  /\ task[w].phase = "session" /\ task'[w].phase = "ok"
        /\ task'[w].owner = o
        /\ ~state[o].append_missed /\ ~state'[o].append_missed
        /\ Touches(o, w)

\* run_worker fails.
Breaks(w) ==
    /\ task[w].phase = "session" /\ task'[w].phase \in {"err", "panic"}
    /\ task'[w].owner = task[w].owner /\ task'[w].mode = task[w].mode
    /\ UNCHANGED state
    /\ \A v \in Workers \ {w} : task'[v] = task[v]

\* The outer task has seen the result and is gone.
Exits(w) ==
    /\ task[w].phase \in {"ok", "err", "panic"} /\ task'[w].phase = "free"
    /\ task[w].phase = "ok" => UNCHANGED state
    /\ Touches(task[w].owner, w)

-----------------------------------------------------------------------------
(* What the coordinator's operations do                                    *)

\* The coordinator's types, in this module's names.
CTypes == /\ state \in [Owners -> RebuildState]
          /\ task \in [Workers -> Coord!Task]

LEMMA CoordTypes == Coord!TypeOK <=> CTypes
BY DEF Coord!TypeOK, Coord!RebuildState, Coord!ManualModes, RebuildState, ManualModes,
       CTypes

\* What TaskOf builds is a task with the given fields.
LEMMA TaskOfType ==
    ASSUME NEW phase \in Coord!Phase, NEW o \in Owners \cup {None},
           NEW mode \in RebuildMode \cup {None},
           NEW caps \in 0..MaxConsecutiveCaps, NEW remainder \in BOOLEAN
    PROVE  /\ Coord!TaskOf(phase, o, mode, caps, remainder) \in Coord!Task
           /\ Coord!TaskOf(phase, o, mode, caps, remainder).phase = phase
           /\ Coord!TaskOf(phase, o, mode, caps, remainder).owner = o
           /\ Coord!TaskOf(phase, o, mode, caps, remainder).mode = mode
BY DEF Coord!Task, Coord!TaskOf, Coord!RebuildMode, Coord!ManualModes, RebuildMode,
       ManualModes

\* notify_append and request_manual.
LEMMA TriggerEffect ==
    ASSUME CTypes, NEW o \in Owners, NEW mode \in RebuildMode,
           Coord!Trigger(o, mode)
    PROVE  /\ CTypes'
           /\ Marks(o, mode) \/ \E w \in Workers : Starts(o, w, mode)
<1> DEFINE st == Coord!try_start(state[o], mode)
<1>1. state \in [Owners -> RebuildState] /\ task \in [Workers -> Coord!Task]
  BY DEF CTypes
<1>2. /\ st \in RebuildState
      /\ st.running
      /\ state[o].running /\ (state[o].append_missed \/ mode = AppendMode) => st.append_missed
  BY <1>1, ModeAssumption
     DEF Coord!try_start, Coord!MarkBusy, Coord!ClaimIdle, Coord!QueuesBehindAppend,
         Coord!merge_pending, RebuildState, RebuildMode, ManualModes
<1>3. state' = [state EXCEPT ![o] = st]
  BY DEF Coord!Trigger
<1> HIDE DEF st
<1>4. CASE state[o].running
  <2>1. UNCHANGED task
    BY <1>4 DEF Coord!Trigger
  <2>2. CTypes'
    BY <1>1, <1>2, <1>3, <2>1 DEF CTypes
  <2>3. Marks(o, mode)
    BY <1>1, <1>2, <1>3, <1>4, <2>1 DEF Marks
  <2> QED BY <2>2, <2>3
<1>5. CASE ~state[o].running
  <2> DEFINE first == Coord!StartingMode(state[o], mode)
             t == Coord!TaskOf("session", o, first, 0, FALSE)
  <2>1. PICK w \in Workers : task[w].phase = "free" /\ task' = [task EXCEPT ![w] = t]
    BY <1>5 DEF Coord!Trigger, Coord!spawn_worker
  <2>2. /\ first \in RebuildMode
        /\ state[o].append_missed \/ mode = AppendMode => first = AppendMode
    BY DEF Coord!StartingMode, Coord!QueuesBehindAppend, RebuildMode
  <2>3. t \in Coord!Task /\ t.phase = "session" /\ t.owner = o /\ t.mode = first
    <3>1. "session" \in Coord!Phase /\ 0 \in 0..MaxConsecutiveCaps
      BY RebuildAssumption DEF Coord!Phase
    <3> HIDE DEF first
    <3> QED BY <2>2, <3>1 DEF Coord!Task, Coord!TaskOf, Coord!RebuildMode,
               Coord!ManualModes, RebuildMode, ManualModes
  <2> HIDE DEF first, t
  <2>4. /\ CTypes'
        /\ state'[o] = st /\ task'[w] = t
        /\ Touches(o, w)
    BY <1>1, <1>2, <1>3, <2>1, <2>3 DEF CTypes, Touches
  <2>5. Starts(o, w, mode)
    BY <1>2, <1>5, <2>1, <2>2, <2>3, <2>4 DEF Starts
  <2> QED BY <2>4, <2>5
<1> QED BY <1>4, <1>5

\* The worker asks for more work: mark_idle_or_continue.
LEMMA YieldEffect ==
    ASSUME CTypes, OneWorker, NEW w \in Workers, Coord!InSession(w),
           NEW caps \in 0..MaxConsecutiveCaps, Coord!Yield(w, caps)
    PROVE  CTypes' /\ (Continues(w) \/ Stops(w))
<1> DEFINE o == task[w].owner
           st == Coord!mark_idle_or_continue(state[o])
           next == Coord!ContinueMode(state[o])
<1>1. /\ state \in [Owners -> RebuildState] /\ task \in [Workers -> Coord!Task]
      /\ o \in Owners /\ task[w].phase = "session"
      /\ task[w].mode \in RebuildMode
      /\ task[w].remainder_drain_used \in BOOLEAN
  BY DEF CTypes, OneWorker, Works, Coord!InSession, Coord!Task
<1>2. /\ st \in RebuildState
      /\ ~st.append_missed
      /\ next \in RebuildMode \cup {None}
      /\ state[o].append_missed => next = AppendMode
      /\ next # None => st.running = state[o].running
  BY <1>1, ModeAssumption
     DEF Coord!mark_idle_or_continue, Coord!ContinueMode, RebuildState, RebuildMode,
         ManualModes
<1>3. state' = [state EXCEPT ![o] = st]
  BY DEF Coord!Yield
<1>4. CASE next = None
  <2> DEFINE t == Coord!Ended(task[w], "ok")
  <2>1. task' = [task EXCEPT ![w] = t]
    BY <1>4 DEF Coord!Yield
  <2>2. t \in Coord!Task /\ t.phase = "ok" /\ t.owner = o
    <3>1. "ok" \in Coord!Phase /\ 0 \in 0..MaxConsecutiveCaps
      BY RebuildAssumption DEF Coord!Phase
    <3> QED BY <1>1, <3>1 DEF Coord!Ended, Coord!Task, Coord!TaskOf, Coord!RebuildMode,
               Coord!ManualModes, RebuildMode, ManualModes
  <2>3. ~state[o].append_missed
    BY <1>2, <1>4, ModeAssumption
  <2> HIDE DEF st, next, t
  <2>4. CTypes'
    BY <1>1, <1>2, <1>3, <2>1, <2>2 DEF CTypes
  <2>5. Stops(w)
    BY <1>1, <1>2, <1>3, <2>1, <2>2, <2>3 DEF Stops, Touches
  <2> QED BY <2>4, <2>5
<1>5. CASE next # None
  <2> DEFINE t == Coord!TaskOf("session", o, next, caps, task[w].remainder_drain_used)
  <2>1. task' = [task EXCEPT ![w] = t]
    BY <1>5 DEF Coord!Yield, Coord!NextSession
  <2>2. next \in RebuildMode
    BY <1>2, <1>5
  <2>3. t \in Coord!Task /\ t.phase = "session" /\ t.owner = o /\ t.mode = next
    <3>1. "session" \in Coord!Phase
      BY DEF Coord!Phase
    <3> HIDE DEF next
    <3> QED BY <1>1, <2>2, <3>1 DEF Coord!Task, Coord!TaskOf, Coord!RebuildMode,
               Coord!ManualModes, RebuildMode, ManualModes
  <2> HIDE DEF st, next, t
  <2>4. CTypes'
    BY <1>1, <1>2, <1>3, <2>1, <2>3 DEF CTypes
  <2>5. Continues(w)
    BY <1>1, <1>2, <1>3, <1>5, <2>1, <2>2, <2>3 DEF Continues, Touches
  <2> QED BY <2>4, <2>5
<1> QED BY <1>4, <1>5

\* A session ends.
LEMMA SessionDoneEffect ==
    ASSUME CTypes, OneWorker, NEW w \in Workers, Coord!SessionDone(w)
    PROVE  CTypes' /\ (Continues(w) \/ Stops(w))
<1>1. 0 \in 0..MaxConsecutiveCaps /\ Coord!InSession(w) /\ Coord!Yield(w, 0)
  BY RebuildAssumption DEF Coord!SessionDone
<1> QED BY <1>1, YieldEffect

\* A session used up its iterations.
LEMMA SessionCappedEffect ==
    ASSUME CTypes, OneWorker, NEW w \in Workers, NEW remainder \in BOOLEAN,
           Coord!SessionCapped(w, remainder)
    PROVE  CTypes' /\ (Continues(w) \/ Stops(w))
<1> DEFINE o == task[w].owner
           used == task[w].remainder_drain_used
<1>1. /\ state \in [Owners -> RebuildState] /\ task \in [Workers -> Coord!Task]
      /\ o \in Owners /\ task[w].phase = "session"
      /\ task[w].caps \in 0..MaxConsecutiveCaps
      /\ used \in BOOLEAN
  BY DEF CTypes, OneWorker, Coord!SessionCapped, Coord!InSession, Coord!Task
<1>2. ASSUME NEW caps \in 0..MaxConsecutiveCaps, NEW drained \in BOOLEAN,
             Coord!NextSession(w, AppendMode, caps, drained), UNCHANGED state
      PROVE  CTypes' /\ Continues(w)
  <2> DEFINE t == Coord!TaskOf("session", o, AppendMode, caps, drained)
  <2>1. task' = [task EXCEPT ![w] = t]
    BY <1>2 DEF Coord!NextSession
  <2>2. t \in Coord!Task /\ t.phase = "session" /\ t.owner = o /\ t.mode = AppendMode
    BY <1>1, <1>2 DEF Coord!Task, Coord!TaskOf, Coord!Phase, Coord!RebuildMode
  <2> HIDE DEF t
  <2>3. CTypes'
    BY <1>1, <1>2, <2>1, <2>2 DEF CTypes
  <2>4. Continues(w)
    BY <1>1, <1>2, <2>1, <2>2 DEF Continues, Touches, RebuildMode
  <2> QED BY <2>3, <2>4
<1>3. CASE /\ task[w].caps + 1 < MaxConsecutiveCaps
           /\ Coord!NextSession(w, AppendMode, task[w].caps + 1, used)
           /\ UNCHANGED state
  <2>1. task[w].caps + 1 \in 0..MaxConsecutiveCaps
    BY <1>1, <1>3, RebuildAssumption
  <2> QED BY <1>1, <1>2, <1>3, <2>1
<1>4. CASE Coord!NextSession(w, AppendMode, 0, TRUE) /\ UNCHANGED state
  <2>1. 0 \in 0..MaxConsecutiveCaps
    BY RebuildAssumption
  <2> QED BY <1>2, <1>4, <2>1
<1>5. CASE Coord!Yield(w, MaxConsecutiveCaps)
  <2>1. MaxConsecutiveCaps \in 0..MaxConsecutiveCaps
    BY RebuildAssumption
  <2> QED BY <1>1, <1>5, <2>1, YieldEffect DEF Coord!InSession
<1> QED BY <1>3, <1>4, <1>5 DEF Coord!SessionCapped

\* A session fails.
LEMMA SessionBrokenEffect ==
    ASSUME CTypes, OneWorker, NEW w \in Workers, NEW how \in {"err", "panic"},
           Coord!SessionBroken(w, how)
    PROVE  CTypes' /\ Breaks(w) /\ task'[w].phase = how
<1> DEFINE t == Coord!Ended(task[w], how)
<1>1. /\ state \in [Owners -> RebuildState] /\ task \in [Workers -> Coord!Task]
      /\ task[w].phase = "session"
      /\ UNCHANGED state
      /\ task' = [task EXCEPT ![w] = t]
  BY DEF CTypes, Coord!SessionBroken, Coord!InSession
<1>2. t \in Coord!Task /\ t.phase = how /\ t.owner = task[w].owner /\ t.mode = task[w].mode
  <2>1. how \in Coord!Phase /\ 0 \in 0..MaxConsecutiveCaps
    BY RebuildAssumption DEF Coord!Phase
  <2> QED BY <1>1, <2>1 DEF Coord!Ended, Coord!Task, Coord!TaskOf
<1> HIDE DEF t
<1>3. CTypes'
  BY <1>1, <1>2 DEF CTypes
<1>4. Breaks(w) /\ task'[w].phase = how
  BY <1>1, <1>2 DEF Breaks
<1> QED BY <1>3, <1>4

\* The outer task sees the result.
LEMMA OuterExitEffect ==
    ASSUME CTypes, OneWorker, NEW w \in Workers, Coord!OuterExit(w)
    PROVE  CTypes' /\ Exits(w)
<1> DEFINE o == task[w].owner
           st == Coord!AfterJoin(task[w].phase, state[o])
<1>1. /\ state \in [Owners -> RebuildState] /\ task \in [Workers -> Coord!Task]
      /\ task[w].phase \in {"ok", "err", "panic"}
      /\ o \in Owners
      /\ state' = [state EXCEPT ![o] = st]
      /\ task' = [task EXCEPT ![w] = Coord!NoTask]
  BY DEF CTypes, Coord!OuterExit, OneWorker
<1>2. st \in RebuildState /\ (task[w].phase = "ok" => st = state[o])
  BY <1>1 DEF RebuildState, Coord!AfterJoin, Coord!release_running_preserve_pending,
         Coord!force_idle, Coord!DefaultState
<1>3. Coord!NoTask \in Coord!Task /\ Coord!NoTask.phase = "free"
  <2>1. 0 \in 0..MaxConsecutiveCaps
    BY RebuildAssumption
  <2> QED BY <2>1 DEF Coord!NoTask, Coord!Task, Coord!TaskOf, Coord!Phase
<1> HIDE DEF st
<1>4. CTypes'
  BY <1>1, <1>2, <1>3 DEF CTypes
<1>5. Exits(w)
  BY <1>1, <1>2, <1>3 DEF Exits, Touches
<1> QED BY <1>4, <1>5

\* A restart, like the start, leaves neither marks nor tasks.
Empty == /\ \A o \in Owners : state[o] = DefaultState
         /\ \A w \in Workers : task[w].phase = "free"

LEMMA CoordInit == (Coord!Init => CTypes /\ Empty) /\ (Coord!Restart => CTypes' /\ Empty')
<1>1. Coord!NoTask \in Coord!Task /\ Coord!NoTask.phase = "free"
  <2>1. 0 \in 0..MaxConsecutiveCaps
    BY RebuildAssumption
  <2> QED BY <2>1 DEF Coord!NoTask, Coord!Task, Coord!TaskOf, Coord!Phase
<1>2. DefaultState \in RebuildState /\ Coord!DefaultState = DefaultState
  BY DEF DefaultState, Coord!DefaultState, RebuildState
<1> QED BY <1>1, <1>2 DEF Coord!Init, Coord!Restart, CTypes, Empty

-----------------------------------------------------------------------------
(* One worker per owner, effect by effect                                  *)

LEMMA MarksOneWorker ==
    ASSUME OneWorker, NEW o \in Owners, NEW mode, Marks(o, mode)
    PROVE  OneWorker'
BY DEF OneWorker, Works, Marks

LEMMA StartsOneWorker ==
    ASSUME OneWorker, NEW o \in Owners, NEW w \in Workers, NEW mode, Starts(o, w, mode)
    PROVE  OneWorker'
BY DEF OneWorker, Works, Starts, Touches

LEMMA GoesOnOneWorker ==
    ASSUME OneWorker, NEW w \in Workers, Continues(w) \/ Breaks(w)
    PROVE  OneWorker'
<1>1. CASE Continues(w)
  BY <1>1 DEF OneWorker, Works, Continues, Touches
<1>2. CASE Breaks(w)
  BY <1>2 DEF OneWorker, Works, Breaks
<1> QED BY <1>1, <1>2

LEMMA EndsOneWorker ==
    ASSUME OneWorker, NEW w \in Workers, Stops(w) \/ Exits(w)
    PROVE  OneWorker'
<1>1. CASE Stops(w)
  BY <1>1 DEF OneWorker, Works, Stops, Touches
<1>2. CASE Exits(w)
  BY <1>2 DEF OneWorker, Works, Exits, Touches
<1> QED BY <1>1, <1>2

-----------------------------------------------------------------------------
(* The invariants                                                          *)

\* A task without a session has no locals; an iteration that has begun counts.
SessShape ==
    \A w \in Workers :
        /\ task[w].phase # "session" => sess[w] = NewSession
        /\ sess[w].pc = "start" => sess[w].iteration < MaxIterations
        /\ sess[w].pc # "start" => sess[w].iteration # 0

\* A raw has an owner once its call has begun, and is stored by its commit.
RawShape ==
    \A r \in Raws :
        /\ raws[r].call # "unsent" => raws[r].owner \in Owners
        /\ raws[r].call \in {"unsent", "inserting"} => ~raws[r].stored

\* All stamps are of the past.
InPast ==
    /\ \A r \in Raws : raws[r].created_at <= clock
    /\ \A o \in Owners : \A c \in Concepts : wikis[o][c] <= clock
    /\ \A w \in Workers : sess[w].started_at <= clock

\* TypeOK, with the coordinator's types in this module's names.
Types == /\ CTypes
         /\ clock \in 1..MaxClock
         /\ raws \in [Raws -> Raw]
         /\ wikis \in [Owners -> [Concepts -> 0..MaxClock]]
         /\ deleted \in [Owners -> BOOLEAN]
         /\ manuals \in 0..MaxManual
         /\ sess \in [Workers -> Session]
         /\ coverage \in [Raws -> SUBSET {"append", "manual", "late"}]
         /\ failed \in [Owners -> BOOLEAN]

Base == Types /\ OneWorker /\ SessShape /\ RawShape /\ InPast

\* No wiki of its owner is newer than an iteration under way.
NothingNewer ==
    \A w \in Workers : sess[w].pc # "start" =>
        \A c \in Concepts : wikis[task[w].owner][c] <= sess[w].started_at

\* What an iteration is about to stamp, it has listed or somebody has seen.
Covering ==
    \A w \in Workers : \A r \in Raws :
        /\ raws[r].stored
        /\ raws[r].owner = task[w].owner
        /\ raws[r].created_at <= sess[w].started_at
        => /\ sess[w].pc = "decide" => r \in sess[w].new_raws \/ coverage[r] # {}
           /\ sess[w].pc = "synth" => coverage[r] # {}

\* Announced, and not yet behind the watermark.
Announced(r) == /\ raws[r].stored
                /\ raws[r].call = "notified"
                /\ raws[r].created_at > Newest(wikis[raws[r].owner])

\* An announced raw is listed by the iteration under way, or the owner owes
\* an append.
Listing ==
    \A w \in Workers : \A r \in Raws :
        /\ Announced(r)
        /\ raws[r].owner = task[w].owner
        /\ ~state[task[w].owner].append_missed
        => /\ sess[w].pc = "read" => raws[r].created_at <= sess[w].started_at
           /\ sess[w].pc = "decide" => r \in sess[w].new_raws

\* The session will give what it lists, or has listed, to an extraction.
Drains(w) ==
    /\ task[w].phase = "session"
    /\ \/ sess[w].pc = "start" /\ (sess[w].iteration # 0 \/ task[w].mode = AppendMode)
       \/ sess[w].pc \in {"read", "decide"} /\ Mode(w) = AppendMode

\* An announced raw that no extraction has had keeps its owner awake.
Awake ==
    \A r \in Raws :
        Announced(r) /\ ~failed[raws[r].owner] /\ "append" \notin coverage[r] =>
            \/ state[raws[r].owner].append_missed
            \/ \E w \in Workers : task[w].owner = raws[r].owner /\ Drains(w)

\* Only a broken session leaves an owner idle with an append owed, and it is
\* known to have broken until the outer task is gone.
Flags ==
    /\ \A o \in Owners : ~state[o].running /\ state[o].append_missed => failed[o]
    /\ \A w \in Workers : task[w].phase \in {"err", "panic"} => failed[task[w].owner]

WithinRoom(S, room) == IsFiniteSet(S) /\ Cardinality(S) <= room

WithinLimit(S) == WithinRoom(S, ConceptLimit)

\* What the session under way will write keeps its owner within the limit.
Limits ==
    /\ \A o \in Owners : ~deleted[o] => WithinLimit(list_concepts(o))
    /\ \A w \in Workers : sess[w].pc # "start" /\ ~deleted[task[w].owner] =>
          /\ sess[w].pc = "decide" => sess[w].existing = list_concepts(task[w].owner)
          /\ sess[w].pc = "synth" =>
                WithinLimit(list_concepts(task[w].owner) \cup sess[w].todo)

-----------------------------------------------------------------------------
(* The base: types, shapes and stamps                                      *)

LEMMA TypesAre == TypeOK <=> Types
BY CoordTypes DEF TypeOK, Types

LEMMA NewSessionType ==
    /\ NewSession \in Session
    /\ NewSession.pc = "start" /\ NewSession.iteration = 0 /\ NewSession.started_at = 0
BY RebuildAssumption DEF NewSession, Session

\* A step of the coordinator and nothing else, or of no part of it.
LEMMA ControlBase ==
    ASSUME Base, CTypes', OneWorker',
           \A w \in Workers : sess'[w] = sess[w] \/ sess'[w] = NewSession,
           \A w \in Workers : task'[w].phase # "session" => sess'[w] = NewSession,
           sess' \in [Workers -> Session], manuals' \in 0..MaxManual,
           UNCHANGED <<clock, raws, wikis, deleted>>,
           coverage' \in [Raws -> SUBSET {"append", "manual", "late"}],
           failed' \in [Owners -> BOOLEAN]
    PROVE  Base'
<1> USE DEF Base
<1>1. Types' BY DEF Types
<1>2. SessShape'
  BY NewSessionType, RebuildAssumption DEF SessShape
<1>3. RawShape' BY DEF RawShape
<1>4. InPast'
  BY NewSessionType DEF InPast, Types
<1> QED BY <1>1, <1>2, <1>3, <1>4

LEMMA InitBase == Init => Base
<1> SUFFICES ASSUME Init PROVE Base
  OBVIOUS
<1> USE DEF Init
<1>1. CTypes /\ Empty
  BY CoordInit
<1>2. Types
  <2>1. NoRaw \in Raw
    BY RebuildAssumption DEF NoRaw, Raw, Call
  <2> QED BY <1>1, <2>1, NewSessionType, RebuildAssumption DEF Types
<1>3. OneWorker
  BY <1>1 DEF OneWorker, Works, Empty
<1>4. SessShape
  BY NewSessionType, RebuildAssumption DEF SessShape
<1>5. RawShape
  BY DEF RawShape, NoRaw
<1>6. InPast
  BY NewSessionType DEF InPast, NoRaw
<1> QED BY <1>2, <1>3, <1>4, <1>5, <1>6 DEF Base

\* A session goes on and nothing happens around it.
LEMMA LocalBase ==
    ASSUME Base, NEW w \in Workers, task[w].phase = "session",
           sess' \in [Workers -> Session],
           \A v \in Workers \ {w} : sess'[v] = sess[v],
           sess'[w].pc = "start" => sess'[w].iteration < MaxIterations,
           sess'[w].pc # "start" => sess'[w].iteration # 0,
           sess'[w].started_at <= clock,
           wikis' \in [Owners -> [Concepts -> 0..MaxClock]],
           \A o \in Owners : \A c \in Concepts : wikis'[o][c] <= clock,
           UNCHANGED <<control, clock, raws, deleted, manuals, failed>>,
           coverage' \in [Raws -> SUBSET {"append", "manual", "late"}]
    PROVE  Base'
<1> USE DEF Base, control
<1>1. Types' BY DEF Types, CTypes
<1>2. OneWorker' BY DEF OneWorker, Works
<1>3. SessShape' BY DEF SessShape
<1>4. RawShape' BY DEF RawShape
<1>5. InPast' BY DEF InPast
<1> QED BY <1>1, <1>2, <1>3, <1>4, <1>5

\* A call changes its raw.
LEMMA CallBase ==
    ASSUME Base, NEW r \in Raws, raws' \in [Raws -> Raw],
           \A q \in Raws \ {r} : raws'[q] = raws[q],
           raws'[r].call # "unsent" => raws'[r].owner \in Owners,
           raws'[r].call \in {"unsent", "inserting"} => ~raws'[r].stored,
           raws'[r].created_at <= clock,
           CTypes', OneWorker',
           \A w \in Workers : task'[w].phase # "session" => task[w].phase # "session",
           UNCHANGED <<clock, wikis, deleted, manuals, sess, failed>>,
           coverage' \in [Raws -> SUBSET {"append", "manual", "late"}]
    PROVE  Base'
<1> USE DEF Base
<1>1. Types' BY DEF Types
<1>2. SessShape' BY DEF SessShape
<1>3. RawShape' BY DEF RawShape
<1>4. InPast' BY DEF InPast
<1> QED BY <1>1, <1>2, <1>3, <1>4

\* Nothing happens to the coordinator.
LEMMA StillControl ==
    ASSUME CTypes, OneWorker, UNCHANGED control
    PROVE  CTypes' /\ OneWorker'
BY DEF CTypes, OneWorker, Works, control

LEMMA StampBase ==
    ASSUME Base, NEW r \in Raws, NEW o \in Owners, StampRaw(r, o)
    PROVE  Base'
<1> DEFINE row == [owner |-> o, created_at |-> clock, stored |-> FALSE, call |-> "inserting"]
<1>1. /\ raws \in [Raws -> Raw] /\ clock \in 1..MaxClock
      /\ raws' = [raws EXCEPT ![r] = row]
      /\ UNCHANGED <<control, clock, wikis, deleted, manuals, sess, coverage, failed>>
      /\ coverage \in [Raws -> SUBSET {"append", "manual", "late"}]
  BY DEF Base, Types, StampRaw, history
<1>2. row \in Raw /\ row.owner = o /\ ~row.stored /\ row.created_at = clock
  BY <1>1, RebuildAssumption DEF Raw, Call
<1>3. CTypes' /\ OneWorker'
  BY <1>1, StillControl DEF Base, Types
<1> HIDE DEF row
<1>4. raws' \in [Raws -> Raw] /\ raws'[r] = row /\ \A q \in Raws \ {r} : raws'[q] = raws[q]
  BY <1>1, <1>2
<1>5. row.created_at <= clock
  BY <1>1, <1>2
<1>6. \A w \in Workers : task'[w].phase # "session" => task[w].phase # "session"
  BY <1>1 DEF control
<1> QED BY <1>1, <1>2, <1>3, <1>4, <1>5, <1>6, CallBase

LEMMA CommitBase ==
    ASSUME Base, NEW r \in Raws, CommitRaw(r)
    PROVE  Base'
<1>1. /\ raws \in [Raws -> Raw]
      /\ raws[r].call = "inserting"
      /\ raws' = [raws EXCEPT ![r] = [raws[r] EXCEPT !.stored = TRUE, !.call = "notifying"]]
      /\ UNCHANGED <<control, clock, wikis, deleted, manuals, sess, failed>>
      /\ coverage \in [Raws -> SUBSET {"append", "manual", "late"}]
      /\ raws[r].owner \in Owners /\ raws[r].created_at <= clock
  BY DEF Base, Types, CommitRaw, RawShape, InPast
<1>2. coverage' \in [Raws -> SUBSET {"append", "manual", "late"}]
  BY <1>1 DEF CommitRaw
<1>3. CTypes' /\ OneWorker'
  BY <1>1, StillControl DEF Base, Types
<1>4. /\ raws' \in [Raws -> Raw] /\ \A q \in Raws \ {r} : raws'[q] = raws[q]
      /\ raws'[r].owner = raws[r].owner /\ raws'[r].call = "notifying"
      /\ raws'[r].created_at = raws[r].created_at
  BY <1>1 DEF Raw, Call
<1>5. \A w \in Workers : task'[w].phase # "session" => task[w].phase # "session"
  BY <1>1 DEF control
<1> QED BY <1>1, <1>2, <1>3, <1>4, <1>5, CallBase

LEMMA AbandonBase ==
    ASSUME Base, NEW r \in Raws, AbandonCall(r)
    PROVE  Base'
<1>1. /\ raws \in [Raws -> Raw]
      /\ raws[r].call \in {"inserting", "notifying"}
      /\ raws' = [raws EXCEPT ![r] = [raws[r] EXCEPT !.call = "dead"]]
      /\ UNCHANGED <<control, clock, wikis, deleted, manuals, sess, coverage, failed>>
      /\ coverage \in [Raws -> SUBSET {"append", "manual", "late"}]
      /\ raws[r].owner \in Owners /\ raws[r].created_at <= clock
  BY DEF Base, Types, AbandonCall, RawShape, InPast, history
<1>2. CTypes' /\ OneWorker'
  BY <1>1, StillControl DEF Base, Types
<1>3. /\ raws' \in [Raws -> Raw] /\ \A q \in Raws \ {r} : raws'[q] = raws[q]
      /\ raws'[r].owner = raws[r].owner /\ raws'[r].call = "dead"
      /\ raws'[r].created_at = raws[r].created_at
  BY <1>1 DEF Raw, Call
<1>4. \A w \in Workers : task'[w].phase # "session" => task[w].phase # "session"
  BY <1>1 DEF control
<1> QED BY <1>1, <1>2, <1>3, <1>4, CallBase

\* What a request does to the coordinator.
LEMMA TriggerOneWorker ==
    ASSUME Base, NEW o \in Owners, NEW mode \in RebuildMode, Coord!Trigger(o, mode)
    PROVE  /\ CTypes' /\ OneWorker'
           /\ Marks(o, mode) \/ \E w \in Workers : Starts(o, w, mode)
           /\ \A w \in Workers : task'[w].phase # "session" => task[w].phase # "session"
<1>1. CTypes' /\ (Marks(o, mode) \/ \E w \in Workers : Starts(o, w, mode))
  BY TriggerEffect DEF Base, Types
<1>2. OneWorker'
  BY <1>1, MarksOneWorker, StartsOneWorker DEF Base
<1>3. \A w \in Workers : task'[w].phase # "session" => task[w].phase # "session"
  BY <1>1 DEF Marks, Starts, Touches
<1> QED BY <1>1, <1>2, <1>3

LEMMA NotifyBase ==
    ASSUME Base, NEW r \in Raws, NotifyRaw(r)
    PROVE  Base'
<1>1. /\ raws \in [Raws -> Raw]
      /\ raws[r].call = "notifying"
      /\ raws' = [raws EXCEPT ![r] = [raws[r] EXCEPT !.call = "notified"]]
      /\ UNCHANGED <<clock, wikis, deleted, manuals, sess, coverage, failed>>
      /\ coverage \in [Raws -> SUBSET {"append", "manual", "late"}]
      /\ raws[r].owner \in Owners /\ raws[r].created_at <= clock
  BY DEF Base, Types, NotifyRaw, RawShape, InPast, history
<1>2. AppendMode \in RebuildMode /\ Coord!Trigger(raws[r].owner, AppendMode)
  BY DEF NotifyRaw, Coord!notify_append, RebuildMode
<1>3. /\ CTypes' /\ OneWorker'
      /\ \A w \in Workers : task'[w].phase # "session" => task[w].phase # "session"
  BY <1>1, <1>2, TriggerOneWorker
<1>4. /\ raws' \in [Raws -> Raw] /\ \A q \in Raws \ {r} : raws'[q] = raws[q]
      /\ raws'[r].owner = raws[r].owner /\ raws'[r].call = "notified"
      /\ raws'[r].created_at = raws[r].created_at
  BY <1>1 DEF Raw, Call
<1> QED BY <1>1, <1>3, <1>4, CallBase

LEMMA ManualBase ==
    ASSUME Base, NEW o \in Owners, NEW mode \in ManualModes, WikiRebuild(o, mode)
    PROVE  Base'
<1>1. mode \in RebuildMode /\ Coord!Trigger(o, mode)
  BY DEF WikiRebuild, Coord!request_manual, RebuildMode
<1>2. /\ CTypes' /\ OneWorker'
      /\ \A w \in Workers : task'[w].phase # "session" => task[w].phase # "session"
  BY <1>1, TriggerOneWorker
<1>3. /\ UNCHANGED <<clock, raws, wikis, deleted, sess, coverage, failed>>
      /\ manuals' \in 0..MaxManual
  BY RebuildAssumption DEF WikiRebuild, tables, history, Base, Types
<1>4. \A w \in Workers : task'[w].phase # "session" => sess'[w] = NewSession
  BY <1>2, <1>3 DEF Base, SessShape
<1> QED BY <1>2, <1>3, <1>4, ControlBase DEF Base, Types

LEMMA DeleteBase ==
    ASSUME Base, NEW o \in Owners, DeleteAccount(o)
    PROVE  Base'
<1> USE DEF Base, DeleteAccount, control, history
<1>1. Types'
  <2>1. CTypes' BY DEF Types, CTypes
  <2>2. raws' \in [Raws -> Raw] BY DEF Types, Raw
  <2>3. 0 \in 0..MaxClock BY RebuildAssumption
  <2>4. wikis' \in [Owners -> [Concepts -> 0..MaxClock]] BY <2>3 DEF Types
  <2>5. deleted' \in [Owners -> BOOLEAN] BY DEF Types
  <2> QED BY <2>1, <2>2, <2>4, <2>5 DEF Types
<1>2. OneWorker' BY DEF OneWorker, Works
<1>3. SessShape' BY DEF SessShape
<1>4. RawShape'
  BY DEF RawShape, Types, Raw
<1>5. InPast'
  BY DEF InPast, Types, Raw
<1> QED BY <1>1, <1>2, <1>3, <1>4, <1>5

LEMMA TickBase == ASSUME Base, Tick PROVE Base'
<1> USE DEF Base, Tick, control, tables, history
<1>1. Types' BY RebuildAssumption DEF Types, CTypes
<1>2. OneWorker' BY DEF OneWorker, Works
<1>3. SessShape' BY DEF SessShape
<1>4. RawShape' BY DEF RawShape
<1>5. InPast' BY DEF InPast, Types, Raw, Session
<1> QED BY <1>1, <1>2, <1>3, <1>4, <1>5

\* A session that ends takes its locals with it.
LEMMA EndBase ==
    ASSUME Base, CTypes', NEW w \in Workers, Continues(w) \/ Stops(w) \/ Breaks(w),
           EndSession(w), UNCHANGED <<clock, raws, wikis, deleted, manuals>>,
           coverage' \in [Raws -> SUBSET {"append", "manual", "late"}],
           failed' \in [Owners -> BOOLEAN]
    PROVE  Base'
<1>1. OneWorker'
  BY GoesOnOneWorker, EndsOneWorker DEF Base
<1>2. /\ sess' \in [Workers -> Session]
      /\ sess'[w] = NewSession
      /\ \A v \in Workers \ {w} : sess'[v] = sess[v]
  BY NewSessionType DEF Base, Types, EndSession
<1>3. \A v \in Workers \ {w} : task'[v] = task[v]
  BY DEF Continues, Stops, Breaks, Touches
<1>4. \A v \in Workers : task'[v].phase # "session" => sess'[v] = NewSession
  BY <1>2, <1>3 DEF Base, SessShape
<1> QED BY <1>1, <1>2, <1>4, ControlBase DEF Base, Types

\* What is known of a session at a pc other than "start".
LEMMA AtFacts ==
    ASSUME Base, NEW w \in Workers, NEW pc, At(w, pc)
    PROVE  /\ task[w].phase = "session" /\ task[w].owner \in Owners
           /\ task[w].mode \in RebuildMode
           /\ sess[w] \in Session /\ sess[w].pc = pc
           /\ pc = "start" => sess[w].iteration < MaxIterations
           /\ pc # "start" => sess[w].iteration # 0
           /\ sess[w].started_at <= clock
BY DEF Base, At, Coord!InSession, OneWorker, Works, Types, SessShape, InPast

LEMMA BeginBase == ASSUME Base, NEW w \in Workers, BeginIteration(w) PROVE Base'
<1> USE DEF tables, history
<1>1. /\ task[w].phase = "session" /\ sess[w] \in Session
      /\ sess[w].iteration < MaxIterations
  BY AtFacts DEF BeginIteration
<1>2. /\ sess' \in [Workers -> Session]
      /\ \A v \in Workers \ {w} : sess'[v] = sess[v]
      /\ sess'[w].pc = "read" /\ sess'[w].iteration # 0 /\ sess'[w].started_at = clock
  BY <1>1, RebuildAssumption DEF BeginIteration, Base, Types, Session
<1>3. /\ UNCHANGED <<control, clock, raws, wikis, deleted, manuals, failed, coverage>>
      /\ wikis \in [Owners -> [Concepts -> 0..MaxClock]]
      /\ \A o \in Owners : \A c \in Concepts : wikis[o][c] <= clock
      /\ coverage \in [Raws -> SUBSET {"append", "manual", "late"}]
      /\ clock <= clock
  BY DEF BeginIteration, Base, Types, InPast
<1> QED BY <1>1, <1>2, <1>3, LocalBase

LEMMA ReadBase == ASSUME Base, NEW w \in Workers, ReadTables(w) PROVE Base'
<1> USE DEF tables, history
<1>1. /\ task[w].phase = "session" /\ sess[w] \in Session
      /\ sess[w].iteration # 0 /\ sess[w].started_at <= clock
  BY AtFacts DEF ReadTables
<1>2. /\ sess' \in [Workers -> Session]
      /\ \A v \in Workers \ {w} : sess'[v] = sess[v]
      /\ sess'[w].pc = "decide" /\ sess'[w].iteration = sess[w].iteration
      /\ sess'[w].started_at = sess[w].started_at
  <2> DEFINE news == list_since(task[w].owner, max_last_rebuilt_at(task[w].owner),
                                sess[w].started_at)
             known == list_concepts(task[w].owner)
  <2>1. news \subseteq Raws /\ known \subseteq Concepts
    BY DEF list_since, list_concepts
  <2>2. sess' = [sess EXCEPT ![w].pc = "decide", ![w].new_raws = news, ![w].existing = known]
    BY DEF ReadTables
  <2> HIDE DEF news, known
  <2> QED BY <1>1, <2>1, <2>2 DEF Base, Types, Session
<1>3. /\ UNCHANGED <<control, clock, raws, wikis, deleted, manuals, failed, coverage>>
      /\ wikis \in [Owners -> [Concepts -> 0..MaxClock]]
      /\ \A o \in Owners : \A c \in Concepts : wikis[o][c] <= clock
      /\ coverage \in [Raws -> SUBSET {"append", "manual", "late"}]
  BY DEF ReadTables, Base, Types, InPast
<1> QED BY <1>1, <1>2, <1>3, LocalBase

\* Proceed ends the session or has it synthesize what was affected.
LEMMA ProceedBase ==
    ASSUME Base, NEW w \in Workers, At(w, "decide"),
           NEW affected \in SUBSET Concepts, Proceed(w, affected),
           UNCHANGED <<clock, raws, wikis, deleted, manuals>>,
           coverage' \in [Raws -> SUBSET {"append", "manual", "late"}],
           failed' \in [Owners -> BOOLEAN]
    PROVE  /\ Base'
           /\ \/ /\ affected = {} /\ EndSession(w) /\ (Continues(w) \/ Stops(w))
              \/ /\ affected # {} /\ UNCHANGED control
                 /\ sess' = [sess EXCEPT ![w].pc = "synth", ![w].todo = affected]
<1>1. CASE affected = {}
  <2>1. EndSession(w) /\ Coord!SessionDone(w)
    BY <1>1 DEF Proceed
  <2>2. CTypes' /\ (Continues(w) \/ Stops(w))
    BY <2>1, SessionDoneEffect DEF Base, Types
  <2> QED BY <1>1, <2>1, <2>2, EndBase
<1>2. CASE affected # {}
  <2>1. /\ sess' = [sess EXCEPT ![w].pc = "synth", ![w].todo = affected]
        /\ UNCHANGED control
    BY <1>2 DEF Proceed
  <2>2. /\ sess[w] \in Session
        /\ sess[w].iteration # 0 /\ sess[w].started_at <= clock
    BY AtFacts
  <2>3. /\ sess' \in [Workers -> Session]
        /\ \A v \in Workers \ {w} : sess'[v] = sess[v]
        /\ sess'[w].pc = "synth" /\ sess'[w].iteration = sess[w].iteration
        /\ sess'[w].started_at = sess[w].started_at
    BY <2>1, <2>2 DEF Base, Types, Session
  <2> USE DEF Base
  <2>4. Types' BY <2>1, <2>3 DEF Types, CTypes, control
  <2>5. OneWorker' BY <2>1 DEF OneWorker, Works, control
  <2>6. SessShape' BY <2>1, <2>2, <2>3, AtFacts DEF SessShape, control
  <2>7. RawShape' BY DEF RawShape
  <2>8. InPast' BY <2>2, <2>3 DEF InPast
  <2> QED BY <1>2, <2>1, <2>4, <2>5, <2>6, <2>7, <2>8
<1> QED BY <1>1, <1>2

\* What an iteration does to the raws it covers.
LEMMA CoverType ==
    ASSUME Base, NEW w \in Workers, NEW how \in {"append", "manual"}, Cover(w, how)
    PROVE  /\ coverage' \in [Raws -> SUBSET {"append", "manual", "late"}]
           /\ \A r \in Raws : coverage'[r] =
                 IF r \in sess[w].new_raws THEN coverage[r] \cup {how} ELSE coverage[r]
BY DEF Cover, Base, Types

LEMMA DrainBase ==
    ASSUME Base, NEW w \in Workers, DrainComplete(w)
    PROVE  Base' /\ (Continues(w) \/ Stops(w))
<1>1. CTypes' /\ (Continues(w) \/ Stops(w))
  BY SessionDoneEffect DEF Base, Types, DrainComplete
<1>2. failed' \in [Owners -> BOOLEAN]
  BY DEF DrainComplete, Base, Types
<1> QED BY <1>1, <1>2, EndBase DEF DrainComplete, tables, Base, Types

\* An append iteration synthesizes concepts only.
LEMMA AffectedConcepts ==
    ASSUME NEW existing, NEW count, NEW ae, NEW nc
    PROVE  Affected(existing, count, ae, nc) \subseteq Concepts
BY DEF Affected, TakenNew, is_valid

LEMMA ExtractBase ==
    ASSUME Base, NEW w \in Workers, Extract(w)
    PROVE  /\ Base'
           /\ \E ae \in SUBSET Names, nc \in NameLists :
                 LET affected == Affected(sess[w].existing, count_concepts(task[w].owner), ae, nc)
                 IN  \/ /\ affected = {} /\ EndSession(w) /\ (Continues(w) \/ Stops(w))
                     \/ /\ affected # {} /\ UNCHANGED control
                        /\ sess' = [sess EXCEPT ![w].pc = "synth", ![w].todo = affected]
<1>1. PICK ae \in SUBSET Names, nc \in NameLists :
         Proceed(w, Affected(sess[w].existing, count_concepts(task[w].owner), ae, nc))
  BY DEF Extract
<1> DEFINE affected == Affected(sess[w].existing, count_concepts(task[w].owner), ae, nc)
<1>2. affected \subseteq Concepts
  BY AffectedConcepts
<1>3. Proceed(w, affected)
  BY <1>1
<1>4. coverage' \in [Raws -> SUBSET {"append", "manual", "late"}]
  BY CoverType DEF Extract
<1>5. /\ failed' \in [Owners -> BOOLEAN]
      /\ At(w, "decide")
      /\ UNCHANGED <<clock, raws, wikis, deleted, manuals>>
  <2>1. failed' = [failed EXCEPT ![task[w].owner] = FALSE]
    BY DEF Extract
  <2>2. At(w, "decide") /\ UNCHANGED <<clock, raws, wikis, deleted, manuals>>
    BY DEF Extract, tables
  <2> QED BY <2>1, <2>2 DEF Base, Types
<1> HIDE DEF affected
<1>6. /\ Base'
      /\ \/ /\ affected = {} /\ EndSession(w) /\ (Continues(w) \/ Stops(w))
         \/ /\ affected # {} /\ UNCHANGED control
            /\ sess' = [sess EXCEPT ![w].pc = "synth", ![w].todo = affected]
  BY <1>2, <1>3, <1>4, <1>5, ProceedBase
<1> QED BY <1>6 DEF affected

LEMMA RejectBase ==
    ASSUME Base, NEW w \in Workers, RejectManual(w)
    PROVE  /\ Base'
           /\ \/ EndSession(w) /\ (Continues(w) \/ Stops(w))
              \/ UNCHANGED control /\ sess' = [sess EXCEPT ![w].pc = "start"]
<1>1. /\ At(w, "decide")
      /\ UNCHANGED <<clock, raws, wikis, deleted, manuals, coverage, failed>>
  BY DEF RejectManual, tables, history
<1>2. CASE EndSession(w) /\ Coord!SessionDone(w)
  <2>1. CTypes' /\ (Continues(w) \/ Stops(w))
    BY <1>2, SessionDoneEffect DEF Base, Types
  <2> QED BY <1>1, <1>2, <2>1, EndBase DEF Base, Types
<1>3. CASE /\ sess[w].iteration # MaxIterations
           /\ sess' = [sess EXCEPT ![w].pc = "start"] /\ UNCHANGED control
  <2>1. /\ task[w].phase = "session" /\ sess[w] \in Session
        /\ sess[w].iteration # 0 /\ sess[w].started_at <= clock
    BY <1>1, AtFacts
  <2>2. /\ sess' \in [Workers -> Session]
        /\ \A v \in Workers \ {w} : sess'[v] = sess[v]
        /\ sess'[w].pc = "start" /\ sess'[w].iteration = sess[w].iteration
        /\ sess'[w].started_at = sess[w].started_at
    BY <1>3, <2>1 DEF Base, Types, Session
  <2>3. sess'[w].iteration < MaxIterations
    BY <1>3, <2>1, <2>2, RebuildAssumption DEF Session
  <2>4. Base'
    BY <1>1, <1>3, <2>1, <2>2, <2>3, LocalBase DEF Base, Types, InPast
  <2> QED BY <1>3, <2>4
<1> QED BY <1>2, <1>3 DEF RejectManual

LEMMA ManualIterationBase ==
    ASSUME Base, NEW w \in Workers, RebuildManual(w)
    PROVE  LET affected == IF task[w].mode = FullRebuild THEN sess[w].existing
                                                         ELSE {task[w].mode}
           IN  /\ Base'
               /\ \/ /\ affected = {} /\ EndSession(w) /\ (Continues(w) \/ Stops(w))
                  \/ /\ affected # {} /\ UNCHANGED control
                     /\ sess' = [sess EXCEPT ![w].pc = "synth", ![w].todo = affected]
<1> DEFINE affected == IF task[w].mode = FullRebuild THEN sess[w].existing
                                                     ELSE {task[w].mode}
<1>1. /\ At(w, "decide") /\ Mode(w) # AppendMode /\ Proceed(w, affected)
      /\ UNCHANGED <<clock, raws, wikis, deleted, manuals, failed>>
  BY DEF RebuildManual, tables
<1>2. affected \in SUBSET Concepts
  <2>1. sess[w].existing \subseteq Concepts /\ task[w].mode \in RebuildMode
    BY <1>1, AtFacts DEF Session
  <2>2. task[w].mode # AppendMode
    BY <1>1 DEF Mode
  <2> QED BY <2>1, <2>2 DEF RebuildMode, ManualModes
<1>3. coverage' \in [Raws -> SUBSET {"append", "manual", "late"}]
  <2>1. CASE UNCHANGED coverage
    BY <2>1 DEF Base, Types
  <2>2. CASE Cover(w, "manual")
    BY <2>2, CoverType
  <2> QED BY <2>1, <2>2 DEF RebuildManual
<1>4. failed' \in [Owners -> BOOLEAN]
  BY <1>1 DEF Base, Types
<1> HIDE DEF affected
<1>5. /\ Base'
      /\ \/ /\ affected = {} /\ EndSession(w) /\ (Continues(w) \/ Stops(w))
         \/ /\ affected # {} /\ UNCHANGED control
            /\ sess' = [sess EXCEPT ![w].pc = "synth", ![w].todo = affected]
  BY <1>1, <1>2, <1>3, <1>4, ProceedBase
<1> QED BY <1>5 DEF affected

\* Either outcome of a concept's synthesis.
LEMMA ConceptBase ==
    ASSUME Base, NEW w \in Workers, NEW c \in Concepts,
           SynthesizeOne(w, c) \/ SynthesizeFails(w, c)
    PROVE  Base'
<1> USE DEF tables, history
<1>1. /\ task[w].phase = "session" /\ sess[w] \in Session
      /\ sess[w].pc = "synth"
      /\ sess[w].iteration # 0 /\ sess[w].started_at <= clock
  BY AtFacts DEF SynthesizeOne, SynthesizeFails
<1>2. sess' = [sess EXCEPT ![w].todo = sess[w].todo \ {c}]
  BY DEF SynthesizeOne, SynthesizeFails
<1>3. /\ sess' \in [Workers -> Session]
      /\ \A v \in Workers \ {w} : sess'[v] = sess[v]
      /\ sess'[w].pc = "synth" /\ sess'[w].iteration = sess[w].iteration
      /\ sess'[w].started_at = sess[w].started_at
  BY <1>1, <1>2 DEF Base, Types, Session
<1>4. UNCHANGED <<control, clock, raws, deleted, manuals, failed, coverage>>
  BY DEF SynthesizeOne, SynthesizeFails
<1>5. /\ wikis' \in [Owners -> [Concepts -> 0..MaxClock]]
      /\ \A o \in Owners : \A d \in Concepts : wikis'[o][d] <= clock
  <2>1. wikis' = wikis \/ wikis' = [wikis EXCEPT ![task[w].owner][c] = sess[w].started_at]
    BY DEF SynthesizeOne, SynthesizeFails, RebuiltAt
  <2>2. sess[w].started_at \in 0..MaxClock /\ sess[w].started_at <= clock
    BY <1>1 DEF Session
  <2>3. /\ wikis \in [Owners -> [Concepts -> 0..MaxClock]]
        /\ \A o \in Owners : \A d \in Concepts : wikis[o][d] <= clock
    BY DEF Base, Types, InPast
  <2> QED BY SMTT(20), <2>1, <2>2, <2>3
<1>6. coverage \in [Raws -> SUBSET {"append", "manual", "late"}]
  BY DEF Base, Types
<1> QED BY <1>1, <1>3, <1>4, <1>5, <1>6, LocalBase

LEMMA EndIterationBase == ASSUME Base, NEW w \in Workers, EndIteration(w) PROVE Base'
<1> USE DEF tables, history
<1>1. /\ task[w].phase = "session" /\ sess[w] \in Session
      /\ sess[w].iteration # 0 /\ sess[w].started_at <= clock
  BY AtFacts DEF EndIteration
<1>2. /\ sess' \in [Workers -> Session]
      /\ \A v \in Workers \ {w} : sess'[v] = sess[v]
      /\ sess'[w].iteration = sess[w].iteration
      /\ sess'[w].started_at = sess[w].started_at
      /\ sess'[w].pc = "start" => sess[w].iteration < MaxIterations
  <2>1. CASE sess[w].iteration < MaxIterations /\ sess' = [sess EXCEPT ![w].pc = "start"]
    BY <1>1, <2>1 DEF Base, Types, Session
  <2>2. CASE \E b \in BOOLEAN : sess' = [sess EXCEPT ![w].pc = "capped", ![w].remainder = b]
    <3>1. PICK b \in BOOLEAN :
             sess' = [sess EXCEPT ![w].pc = "capped", ![w].remainder = b]
      BY <2>2
    <3> QED BY <1>1, <3>1 DEF Base, Types, Session
  <2>3. \A S, b \in BOOLEAN : (b \/ S # {}) \in BOOLEAN
    OBVIOUS
  <2> QED BY <2>1, <2>2, <2>3 DEF EndIteration
<1>3. /\ UNCHANGED <<control, clock, raws, wikis, deleted, manuals, failed, coverage>>
      /\ wikis \in [Owners -> [Concepts -> 0..MaxClock]]
      /\ \A o \in Owners : \A c \in Concepts : wikis[o][c] <= clock
      /\ coverage \in [Raws -> SUBSET {"append", "manual", "late"}]
  BY DEF EndIteration, Base, Types, InPast
<1> QED BY <1>1, <1>2, <1>3, LocalBase

LEMMA CapBase ==
    ASSUME Base, NEW w \in Workers, CapSession(w)
    PROVE  Base' /\ (Continues(w) \/ Stops(w))
<1>1. sess[w].remainder \in BOOLEAN
  BY AtFacts DEF CapSession, Session
<1>2. CTypes' /\ (Continues(w) \/ Stops(w))
  BY <1>1, SessionCappedEffect DEF Base, Types, CapSession
<1> QED BY <1>2, EndBase DEF CapSession, tables, history, Base, Types

LEMMA BreakBase ==
    ASSUME Base, NEW w \in Workers, NEW how \in {"err", "panic"}, BreakSession(w, how)
    PROVE  Base' /\ Breaks(w) /\ task[w].owner \in Owners
<1>1. CTypes' /\ Breaks(w)
  BY SessionBrokenEffect DEF Base, Types, BreakSession
<1>2. failed' \in [Owners -> BOOLEAN]
  BY DEF BreakSession, Base, Types
<1>3. task[w].owner \in Owners
  BY <1>1 DEF Breaks, Base, OneWorker
<1> QED BY <1>1, <1>2, <1>3, EndBase DEF BreakSession, tables, Base, Types

LEMMA ExitBase ==
    ASSUME Base, NEW w \in Workers, OuterExit(w)
    PROVE  Base' /\ Exits(w)
<1>1. CTypes' /\ Exits(w)
  BY OuterExitEffect DEF Base, Types, OuterExit
<1>2. OneWorker'
  BY <1>1, EndsOneWorker DEF Base
<1>3. \A v \in Workers : task'[v].phase # "session" => sess'[v] = NewSession
  BY <1>1 DEF OuterExit, Exits, Touches, Base, SessShape
<1> QED BY <1>1, <1>2, <1>3, ControlBase DEF OuterExit, tables, history, Base, Types

LEMMA RestartBase == ASSUME Base, Restart PROVE Base' /\ Empty'
<1>1. CTypes' /\ Empty'
  BY CoordInit DEF Restart
<1> USE DEF Base, Restart
<1>2. Types'
  BY ZenonT(30), <1>1, NewSessionType DEF Types, Raw, Call
<1>3. OneWorker' BY <1>1 DEF OneWorker, Works, Empty
<1>4. SessShape' BY NewSessionType, RebuildAssumption DEF SessShape
<1>5. RawShape' BY DEF RawShape, Types, Raw
<1>6. InPast' BY NewSessionType DEF InPast, Types, Raw
<1> QED BY <1>1, <1>2, <1>3, <1>4, <1>5, <1>6

LEMMA NextBase == Base /\ [Next]_vars => Base'
<1> SUFFICES ASSUME Base, [Next]_vars PROVE Base'
  OBVIOUS
<1>1. CASE UNCHANGED vars
  BY <1>1 DEF vars, Base, Types, CTypes, OneWorker, Works, SessShape, RawShape, InPast
<1>2. CASE CallStep
  BY <1>2, StampBase, CommitBase, NotifyBase, AbandonBase, ManualBase, DeleteBase
     DEF CallStep
<1>3. ASSUME NEW w \in Workers, WorkerStep(w) PROVE Base'
  BY <1>3, BeginBase, ReadBase, DrainBase, ExtractBase, RejectBase, ManualIterationBase,
     ConceptBase, EndIterationBase, CapBase, BreakBase, ExitBase
     DEF WorkerStep
<1>4. CASE Tick
  BY <1>4, TickBase
<1>5. CASE Restart
  BY <1>5, RestartBase
<1> QED BY <1>1, <1>2, <1>3, <1>4, <1>5 DEF Next

\* The pipeline never leaves its types.
THEOREM TypeCorrect == Spec => []TypeOK
<1>1. Base => TypeOK
  BY TypesAre DEF Base
<1> QED BY <1>1, InitBase, NextBase, PTL DEF Spec

-----------------------------------------------------------------------------
(* What a step is to the sessions                                          *)

\* The sessions, and the tables they write, are left alone.
Outside == /\ UNCHANGED <<sess, wikis, deleted>>
           /\ \A v \in Workers : sess[v].pc # "start" => task'[v] = task[v]

\* One session goes on.
Inside(w) == /\ UNCHANGED <<control, raws, deleted, failed, clock>>
             /\ \A v \in Workers \ {w} : sess'[v] = sess[v]

\* One session ends.
Leaves(w) == /\ sess'[w] = NewSession
             /\ \A v \in Workers \ {w} : sess'[v] = sess[v] /\ task'[v] = task[v]
             /\ UNCHANGED <<raws, wikis, deleted, clock>>

LEMMA LeavesFact ==
    ASSUME Base, NEW w \in Workers, EndSession(w),
           Continues(w) \/ Stops(w) \/ Breaks(w),
           UNCHANGED <<raws, wikis, deleted, clock>>
    PROVE  Leaves(w)
BY DEF Leaves, EndSession, Continues, Stops, Breaks, Touches, Base, Types

\* A working session's owner has no other.
LEMMA OnlySession ==
    ASSUME Base, NEW v \in Workers, NEW w \in Workers, sess[v].pc # "start",
           sess[w].pc # "start" \/ task[w].phase = "session",
           task[v].owner = task[w].owner
    PROVE  v = w
<1>1. \A u \in Workers : task[u].phase # "session" => sess[u].pc = "start"
  BY NewSessionType DEF Base, SessShape
<1> QED BY <1>1 DEF Base, OneWorker, Works

\* The steps of calls, the clock and outer tasks.
OutsideStep ==
    \/ \E r \in Raws : \/ \E o \in Owners : StampRaw(r, o)
                       \/ CommitRaw(r)
                       \/ NotifyRaw(r)
                       \/ AbandonCall(r)
    \/ \E o \in Owners : \E mode \in ManualModes : WikiRebuild(o, mode)
    \/ Tick
    \/ \E w \in Workers : OuterExit(w)

LEMMA OutsideFact == Base /\ OutsideStep => Outside
<1>1. Base => \A v \in Workers : sess[v].pc # "start" => task[v].phase = "session"
  BY NewSessionType DEF Base, SessShape
<1>2. ASSUME Base, NEW o \in Owners, NEW mode \in RebuildMode, Coord!Trigger(o, mode)
      PROVE  \A v \in Workers : sess[v].pc # "start" => task'[v] = task[v]
  BY <1>1, <1>2, TriggerOneWorker DEF Marks, Starts, Touches
<1>3. ASSUME Base, NEW r \in Raws, NotifyRaw(r) PROVE Outside
  <2>1. raws[r].owner \in Owners /\ AppendMode \in RebuildMode
    BY <1>3 DEF NotifyRaw, Base, RawShape, RebuildMode
  <2>2. Coord!Trigger(raws[r].owner, AppendMode) /\ UNCHANGED <<sess, wikis, deleted>>
    BY <1>3 DEF NotifyRaw, Coord!notify_append
  <2> QED BY <1>2, <1>3, <2>1, <2>2 DEF Outside
<1>4. ASSUME Base, NEW o \in Owners, NEW mode \in ManualModes, WikiRebuild(o, mode)
      PROVE  Outside
  <2>1. mode \in RebuildMode /\ Coord!Trigger(o, mode) /\ UNCHANGED <<sess, wikis, deleted>>
    BY <1>4 DEF WikiRebuild, Coord!request_manual, RebuildMode, tables
  <2> QED BY <1>2, <1>4, <2>1 DEF Outside
<1>5. ASSUME Base, NEW w \in Workers, OuterExit(w) PROVE Outside
  <2>1. Exits(w) /\ UNCHANGED <<sess, wikis, deleted>>
    BY <1>5, ExitBase DEF OuterExit, tables
  <2> QED BY <1>1, <1>5, <2>1 DEF Outside, Exits, Touches
<1> QED BY <1>3, <1>4, <1>5
        DEF OutsideStep, Outside, StampRaw, CommitRaw, AbandonCall, Tick, control, tables

-----------------------------------------------------------------------------
(* The watermark never moves back                                          *)

\* The wikis a session has written are no newer than its iteration.
LEMMA NewerStep == Base /\ NothingNewer /\ [Next]_vars => NothingNewer'
<1> SUFFICES ASSUME Base, NothingNewer, [Next]_vars PROVE NothingNewer'
  OBVIOUS
<1>1. CASE Outside
  BY <1>1 DEF Outside, NothingNewer
<1>2. CASE UNCHANGED vars
  BY <1>2 DEF vars, NothingNewer
<1>3. ASSUME NEW w \in Workers, Leaves(w) PROVE NothingNewer'
  BY <1>3, NewSessionType DEF Leaves, NothingNewer
<1>4. ASSUME NEW w \in Workers, Inside(w), UNCHANGED wikis,
             \/ sess'[w].pc = "start"
             \/ sess[w].pc # "start" /\ sess'[w].started_at = sess[w].started_at
      PROVE  NothingNewer'
  BY <1>4 DEF Inside, NothingNewer, control
<1>5. ASSUME NEW w \in Workers, BeginIteration(w) PROVE NothingNewer'
  <2>1. /\ UNCHANGED <<control, wikis>>
        /\ task[w].owner \in Owners
        /\ sess'[w].started_at = clock
        /\ \A v \in Workers \ {w} : sess'[v] = sess[v]
    BY <1>5, AtFacts DEF BeginIteration, tables, Base, Types, Session
  <2>2. \A c \in Concepts : wikis[task[w].owner][c] <= clock
    BY <2>1 DEF Base, InPast
  <2> QED BY <2>1, <2>2 DEF NothingNewer, control
<1>6. ASSUME NEW w \in Workers, NEW c \in Concepts, SynthesizeOne(w, c) PROVE NothingNewer'
  <2> DEFINE o == task[w].owner
  <2>1. /\ o \in Owners /\ sess[w].pc = "synth"
        /\ sess[w].started_at \in 0..MaxClock
    BY <1>6, AtFacts DEF SynthesizeOne, Session
  <2>2. /\ wikis' = [wikis EXCEPT ![o][c] = sess[w].started_at]
        /\ UNCHANGED control
        /\ \A v \in Workers : /\ sess'[v].pc = sess[v].pc
                             /\ sess'[v].started_at = sess[v].started_at
    BY <1>6 DEF SynthesizeOne, RebuiltAt, Base, Types, Session
  <2>3. \A v \in Workers : sess[v].pc # "start" /\ task[v].owner = o => v = w
    BY <2>1, OnlySession
  <2>4. wikis \in [Owners -> [Concepts -> 0..MaxClock]]
    BY DEF Base, Types
  <2> SUFFICES ASSUME NEW v \in Workers, sess'[v].pc # "start", NEW d \in Concepts
               PROVE  wikis'[task'[v].owner][d] <= sess'[v].started_at
    BY DEF NothingNewer
  <2>5. task'[v] = task[v] /\ wikis[task[v].owner][d] <= sess[v].started_at
    BY <2>2 DEF NothingNewer, control
  <2>6. CASE v = w
    BY <2>1, <2>2, <2>4, <2>5, <2>6
  <2>7. CASE v # w
    <3>1. task[v].owner # o
      BY <2>2, <2>3, <2>7
    <3>2. wikis'[task[v].owner] = wikis[task[v].owner]
      BY <2>2, <2>4, <3>1
    <3> QED BY <2>2, <2>5, <3>2
  <2> QED BY <2>6, <2>7
<1>7. ASSUME NEW o \in Owners, DeleteAccount(o) PROVE NothingNewer'
  <2>1. /\ UNCHANGED <<control, sess>>
        /\ wikis \in [Owners -> [Concepts -> 0..MaxClock]]
        /\ \A v \in Workers : 0 <= sess[v].started_at
        /\ wikis' = [wikis EXCEPT ![o] = [c \in Concepts |-> 0]]
    BY <1>7 DEF DeleteAccount, Base, Types, Session
  <2> QED BY <2>1 DEF NothingNewer, control
<1>8. CASE Restart
  BY <1>8, NewSessionType DEF Restart, NothingNewer
<1>9. ASSUME NEW w \in Workers, WorkerStep(w) PROVE NothingNewer'
  <2> USE DEF tables, history
  <2>1. CASE ReadTables(w)
    <3>1. Inside(w) /\ UNCHANGED wikis /\ sess'[w].started_at = sess[w].started_at
      BY <2>1 DEF ReadTables, Inside, Base, Types, Session
    <3> QED BY <1>4, <2>1, <3>1 DEF ReadTables, At
  <2>2. CASE DrainComplete(w) \/ CapSession(w) \/ \E how \in {"err", "panic"} : BreakSession(w, how)
    <3>1. Leaves(w)
      BY <2>2, DrainBase, CapBase, BreakBase, LeavesFact
         DEF DrainComplete, CapSession, BreakSession
    <3> QED BY <1>3, <3>1
  <2>3. CASE Extract(w) \/ RebuildManual(w)
    <3>1. \/ EndSession(w) /\ (Continues(w) \/ Stops(w))
          \/ \E affected : /\ UNCHANGED control
                           /\ sess' = [sess EXCEPT ![w].pc = "synth", ![w].todo = affected]
      BY <2>3, ExtractBase, ManualIterationBase
    <3>2. /\ UNCHANGED <<clock, raws, wikis, deleted, manuals>>
          /\ sess[w].pc = "decide"
      BY <2>3 DEF Extract, RebuildManual, At
    <3>3. CASE EndSession(w) /\ (Continues(w) \/ Stops(w))
      BY <1>3, <3>2, <3>3, LeavesFact
    <3>4. CASE \E affected : /\ UNCHANGED control
                            /\ sess' = [sess EXCEPT ![w].pc = "synth", ![w].todo = affected]
      <4>1. /\ \A v \in Workers \ {w} : sess'[v] = sess[v]
            /\ sess'[w].started_at = sess[w].started_at
        BY <3>4 DEF Base, Types, Session
      <4> QED BY <3>2, <3>4, <4>1 DEF NothingNewer, control
    <3> QED BY <3>1, <3>3, <3>4
  <2>4. CASE RejectManual(w)
    <3>1. UNCHANGED <<clock, raws, wikis, deleted, manuals, failed>>
      BY <2>4 DEF RejectManual
    <3>2. CASE EndSession(w) /\ (Continues(w) \/ Stops(w))
      BY <1>3, <3>1, <3>2, LeavesFact
    <3>3. CASE UNCHANGED control /\ sess' = [sess EXCEPT ![w].pc = "start"]
      <4>1. Inside(w) /\ sess'[w].pc = "start"
        BY <3>1, <3>3 DEF Inside, Base, Types, Session
      <4> QED BY <1>4, <3>1, <4>1
    <3> QED BY <2>4, <3>2, <3>3, RejectBase
  <2>5. ASSUME NEW c \in Concepts, SynthesizeFails(w, c) PROVE NothingNewer'
    <3>1. Inside(w) /\ UNCHANGED wikis /\ sess'[w].started_at = sess[w].started_at
      BY <2>5 DEF SynthesizeFails, Inside, Base, Types, Session
    <3> QED BY <1>4, <2>5, <3>1 DEF SynthesizeFails, At
  <2>6. CASE EndIteration(w)
    <3>1. Inside(w) /\ UNCHANGED wikis /\ sess'[w].started_at = sess[w].started_at
      BY <2>6 DEF EndIteration, Inside, Base, Types, Session
    <3> QED BY <1>4, <2>6, <3>1 DEF EndIteration, At
  <2>7. CASE OuterExit(w)
    BY <1>1, <2>7, OutsideFact DEF OutsideStep
  <2> QED BY <1>5, <1>6, <1>9, <2>1, <2>2, <2>3, <2>4, <2>5, <2>6, <2>7 DEF WorkerStep
<1>10. CASE CallStep \/ Tick
  <2>1. OutsideStep \/ \E o \in Owners : DeleteAccount(o)
    BY <1>10 DEF CallStep, OutsideStep
  <2> QED BY <1>1, <1>7, <2>1, OutsideFact
<1> QED BY <1>2, <1>8, <1>9, <1>10 DEF Next

LEMMA NewerInit == Init => NothingNewer
BY NewSessionType DEF Init, NothingNewer

\* A synthesized concept moves its owner's watermark forward or not at all.
LEMMA WatermarkRises ==
    ASSUME Base, NothingNewer, NEW w \in Workers, NEW c \in Concepts,
           SynthesizeOne(w, c) \/ SynthesizeFails(w, c), NEW o \in Owners
    PROVE  /\ Newest(wikis'[o]) >= Newest(wikis[o])
           /\ Newest(wikis[o]) \in Nat /\ Newest(wikis'[o]) \in Nat
<1> DEFINE W == Newest(wikis[o])
<1>1. /\ wikis[o] \in [Concepts -> 0..MaxClock]
      /\ W \in 0..MaxClock
      /\ \A d \in Concepts : wikis[o][d] <= W
      /\ W = 0 \/ \E d \in Concepts : W = wikis[o][d]
  <2>1. wikis[o] \in [Concepts -> 0..MaxClock]
    BY DEF Base, Types
  <2> QED BY <2>1, NewestFact
<1>2. CASE wikis'[o] = wikis[o]
  BY <1>1, <1>2
<1>3. CASE SynthesizeOne(w, c) /\ task[w].owner = o
  <2>1. /\ sess[w].pc = "synth" /\ sess[w].started_at \in 0..MaxClock
        /\ wikis'[o] = [wikis[o] EXCEPT ![c] = sess[w].started_at]
    BY <1>3, AtFacts DEF SynthesizeOne, RebuiltAt, Session, Base, Types
  <2>2. \A d \in Concepts : wikis[o][d] <= sess[w].started_at
    BY <1>3, <2>1 DEF NothingNewer
  <2>3. W <= sess[w].started_at
    BY <1>1, <2>1, <2>2
  <2>4. wikis'[o] \in [Concepts -> 0..MaxClock] /\ wikis'[o][c] = sess[w].started_at
    BY <1>1, <2>1
  <2>5. /\ Newest(wikis'[o]) \in 0..MaxClock
        /\ \A d \in Concepts : wikis'[o][d] <= Newest(wikis'[o])
    BY <2>4, NewestFact
  <2>6. sess[w].started_at <= Newest(wikis'[o])
    BY <2>4, <2>5
  <2> HIDE DEF W
  <2>7. Newest(wikis'[o]) >= W
    BY <1>1, <2>1, <2>3, <2>5, <2>6
  <2> QED BY <1>1, <2>5, <2>7 DEF W
<1>4. wikis'[o] = wikis[o] \/ (SynthesizeOne(w, c) /\ task[w].owner = o)
  BY DEF SynthesizeOne, SynthesizeFails, tables, Base, Types
<1> QED BY <1>2, <1>3, <1>4

\* Only an account's deletion takes its watermark back.
LEMMA WatermarkStep ==
    ASSUME Base, NothingNewer, [Next]_vars, NEW o \in Owners, ~deleted'[o]
    PROVE  max_last_rebuilt_at(o)' >= max_last_rebuilt_at(o)
<1> DEFINE W == Newest(wikis[o])
<1>1. /\ wikis[o] \in [Concepts -> 0..MaxClock]
      /\ W \in 0..MaxClock
      /\ \A c \in Concepts : wikis[o][c] <= W
      /\ W = 0 \/ \E c \in Concepts : W = wikis[o][c]
  <2>1. wikis[o] \in [Concepts -> 0..MaxClock]
    BY DEF Base, Types
  <2> QED BY <2>1, NewestFact
<1>2. max_last_rebuilt_at(o) = W /\ max_last_rebuilt_at(o)' = Newest(wikis'[o])
  BY DEF max_last_rebuilt_at, Newest
<1>3. ASSUME wikis'[o] = wikis[o] PROVE Newest(wikis'[o]) >= W
  BY <1>1, <1>3
<1>4. ASSUME NEW w \in Workers, NEW c \in Concepts, SynthesizeOne(w, c)
      PROVE  Newest(wikis'[o]) >= W
  BY <1>4, WatermarkRises
<1>5. wikis'[o] = wikis[o] \/ \E w \in Workers, c \in Concepts : SynthesizeOne(w, c) /\ task[w].owner = o
  <2>1. CASE UNCHANGED wikis
    BY <2>1
  <2>2. ASSUME NEW w \in Workers, NEW c \in Concepts, SynthesizeOne(w, c)
        PROVE  wikis'[o] = wikis[o] \/ task[w].owner = o
    BY <2>2 DEF SynthesizeOne, Base, Types
  <2>3. ASSUME NEW p \in Owners, DeleteAccount(p)
        PROVE  wikis'[o] = wikis[o]
    BY <2>3 DEF DeleteAccount, Base, Types
  <2>4. Next => \/ UNCHANGED wikis
                \/ \E w \in Workers, c \in Concepts : SynthesizeOne(w, c)
                \/ \E p \in Owners : DeleteAccount(p)
    <3>1. CallStep => \/ UNCHANGED wikis
                      \/ \E p \in Owners : DeleteAccount(p)
      BY DEF CallStep, StampRaw, CommitRaw, NotifyRaw, AbandonCall, WikiRebuild, tables
    <3>2. ASSUME NEW w \in Workers, WorkerStep(w)
          PROVE  \/ UNCHANGED wikis
                 \/ \E c \in Concepts : SynthesizeOne(w, c)
      BY <3>2 DEF WorkerStep, BeginIteration, ReadTables, DrainComplete, Extract,
         RejectManual, RebuildManual, SynthesizeFails, EndIteration, CapSession,
         BreakSession, OuterExit, tables
    <3>3. Tick \/ Restart => UNCHANGED wikis
      BY DEF Tick, Restart, tables
    <3> QED BY <3>1, <3>2, <3>3 DEF Next
  <2> QED BY <2>1, <2>2, <2>3, <2>4 DEF vars
<1> HIDE DEF W
<1> QED BY <1>2, <1>3, <1>4, <1>5

\* The watermark of an account never moves back (WatermarkMonotone), however
\* many workers, calls and restarts its owners have: an iteration that writes
\* began no earlier than any that has written for its owner (NothingNewer).
THEOREM WatermarkNeverBack == Spec => WatermarkMonotone
<1>1. Base /\ NothingNewer /\ [Next]_vars =>
         [\A o \in Owners :
            ~deleted'[o] => max_last_rebuilt_at(o)' >= max_last_rebuilt_at(o)]_vars
  BY WatermarkStep
<1> QED BY <1>1, InitBase, NextBase, NewerInit, NewerStep, PTL DEF Spec, WatermarkMonotone

-----------------------------------------------------------------------------
(* The watermark covers what it passes                                     *)

\* WatermarkCovers, with the watermark of a row of wikis.
Covers ==
    \A r \in Raws : raws[r].stored /\ raws[r].created_at <= Newest(wikis[raws[r].owner])
        => coverage[r] # {}

LEMMA CoversIs == WatermarkCovers <=> Covers
BY WatermarkIs DEF WatermarkCovers, Covers

\* No raw is stored anew, and what is known of one stays known.
RawsKept ==
    \A r \in Raws :
        /\ raws'[r].stored => /\ raws[r].stored
                              /\ raws'[r].owner = raws[r].owner
                              /\ raws'[r].created_at = raws[r].created_at
        /\ coverage[r] \subseteq coverage'[r]

\* A stored raw has an owner, and a time.
LEMMA StoredFact ==
    ASSUME Base, NEW r \in Raws, raws[r].stored
    PROVE  raws[r].owner \in Owners /\ raws[r].created_at \in 0..MaxClock
BY DEF Base, RawShape, Types, Raw

LEMMA WatermarkType ==
    ASSUME Base, NEW o \in Owners
    PROVE  /\ max_last_rebuilt_at(o) \in 0..MaxClock
           /\ \A c \in Concepts : wikis[o][c] <= max_last_rebuilt_at(o)
           /\ \/ max_last_rebuilt_at(o) = 0
              \/ \E c \in Concepts : max_last_rebuilt_at(o) = wikis[o][c]
<1>1. wikis[o] \in [Concepts -> 0..MaxClock]
  BY DEF Base, Types
<1> QED BY <1>1, NewestFact, WatermarkIs

\* Nothing that has been listed by now is newer than the horizon.
LEMMA HorizonFact ==
    ASSUME Base, NEW o \in Owners
    PROVE  /\ Horizon(o) \in Nat
           /\ max_last_rebuilt_at(o) <= Horizon(o)
           /\ \A w \in Workers : /\ task[w].owner = o
                                /\ sess[w].pc \in {"decide", "synth", "capped"}
                                => sess[w].started_at <= Horizon(o)
<1> DEFINE V == {w \in Workers : /\ task[w].owner = o
                                /\ sess[w].pc \in {"decide", "synth", "capped"}}
           S == {max_last_rebuilt_at(o)} \cup {sess[w].started_at : w \in V}
<1>1. /\ max_last_rebuilt_at(o) \in 0..MaxClock
      /\ \A w \in Workers : sess[w].started_at \in 0..MaxClock
      /\ MaxClock \in Nat
  BY WatermarkType, RebuildAssumption DEF Base, Types, Session
<1>2. S \in SUBSET Nat /\ S # {} /\ \A x \in S : x <= MaxClock
  BY <1>1
<1>3. max_last_rebuilt_at(o) \in S /\ \A w \in V : sess[w].started_at \in S
  OBVIOUS
<1>4. Horizon(o) = Max(S)
  BY DEF Horizon
<1> HIDE DEF S
<1>5. Max(S) \in S /\ \A x \in S : x <= Max(S)
  BY <1>1, <1>2, MaxFact
<1> QED BY <1>2, <1>3, <1>4, <1>5

\* What happens around the sessions does not matter.
LEMMA CoverOutside ==
    ASSUME Covers, Covering, Outside, RawsKept
    PROVE  Covers' /\ Covering'
<1>1. Covers'
  BY DEF Covers, RawsKept, Outside
<1>2. Covering'
  BY DEF Covering, RawsKept, Outside
<1> QED BY <1>1, <1>2

\* A session that ends has nothing left to stamp.
LEMMA CoverLeaves ==
    ASSUME Covers, Covering, NEW w \in Workers, Leaves(w),
           \A r \in Raws : coverage[r] \subseteq coverage'[r]
    PROVE  Covers' /\ Covering'
<1>1. Covers'
  BY DEF Covers, Leaves
<1>2. Covering'
  BY NewSessionType DEF Covering, Leaves
<1> QED BY <1>1, <1>2

\* A raw committed behind the horizon is known to be late.
LEMMA CoverCommit ==
    ASSUME Base, Covers, Covering, NEW r \in Raws, CommitRaw(r)
    PROVE  Covers' /\ Covering'
<1> DEFINE o == raws[r].owner
<1>1. /\ raws \in [Raws -> Raw] /\ coverage \in [Raws -> SUBSET {"append", "manual", "late"}]
      /\ o \in Owners /\ raws[r].created_at \in 0..MaxClock
  BY DEF Base, Types, Raw, CommitRaw, RawShape
<1>2. /\ \A q \in Raws \ {r} : raws'[q] = raws[q] /\ coverage'[q] = coverage[q]
      /\ raws'[r].owner = o /\ raws'[r].created_at = raws[r].created_at
      /\ raws[r].created_at <= Horizon(o) => coverage'[r] # {}
  BY <1>1 DEF CommitRaw, Raw
<1>3. UNCHANGED <<control, wikis, sess>>
  BY DEF CommitRaw
<1>5. /\ Horizon(o) \in Nat
      /\ Newest(wikis[o]) \in 0..MaxClock
      /\ Newest(wikis[o]) <= Horizon(o)
      /\ \A w \in Workers : sess[w].started_at \in 0..MaxClock
      /\ \A w \in Workers : task[w].owner = o /\ sess[w].pc \in {"decide", "synth"}
            => sess[w].started_at <= Horizon(o)
  BY <1>1, HorizonFact, WatermarkType, WatermarkIs DEF Base, Types, Session
<1>6. Covers'
  <2>1. raws[r].created_at <= Newest(wikis[o]) => coverage'[r] # {}
    BY <1>1, <1>2, <1>5
  <2> SUFFICES ASSUME NEW q \in Raws, raws'[q].stored,
                      raws'[q].created_at <= Newest(wikis[raws'[q].owner])
               PROVE  coverage'[q] # {}
    BY <1>3 DEF Covers
  <2>2. CASE q = r
    BY <1>2, <2>1, <2>2
  <2>3. CASE q # r
    BY <1>2, <2>3 DEF Covers
  <2> QED BY <2>2, <2>3
<1>7. Covering'
  <2>1. \A w \in Workers : /\ task[w].owner = o /\ sess[w].pc \in {"decide", "synth"}
                           /\ raws[r].created_at <= sess[w].started_at
                           => coverage'[r] # {}
    <3> SUFFICES ASSUME NEW w \in Workers, task[w].owner = o,
                        sess[w].pc \in {"decide", "synth"},
                        raws[r].created_at <= sess[w].started_at
                 PROVE  raws[r].created_at <= Horizon(o)
      BY <1>2
    <3>1. /\ sess[w].started_at <= Horizon(o)
          /\ sess[w].started_at \in Nat /\ raws[r].created_at \in Nat /\ Horizon(o) \in Nat
      BY <1>1, <1>5
    <3> HIDE DEF o
    <3> QED BY <3>1
  <2> SUFFICES ASSUME NEW w \in Workers, NEW q \in Raws,
                      raws'[q].stored, raws'[q].owner = task[w].owner,
                      raws'[q].created_at <= sess[w].started_at
               PROVE  /\ sess[w].pc = "decide" => q \in sess[w].new_raws \/ coverage'[q] # {}
                      /\ sess[w].pc = "synth" => coverage'[q] # {}
    BY <1>3 DEF Covering, control
  <2>2. CASE q = r
    BY <1>2, <2>1, <2>2
  <2>3. CASE q # r
    BY <1>2, <2>3 DEF Covering
  <2> QED BY <2>2, <2>3
<1> QED BY <1>6, <1>7

\* An iteration that is not about to stamp needs to have covered nothing.
LEMMA CoverInside ==
    ASSUME Covers, Covering, NEW w \in Workers, Inside(w), UNCHANGED <<wikis, coverage>>,
           \/ sess'[w].pc \notin {"decide", "synth"}
           \/ /\ sess'[w].pc = sess[w].pc
              /\ sess'[w].new_raws = sess[w].new_raws
              /\ sess'[w].started_at = sess[w].started_at
    PROVE  Covers' /\ Covering'
<1>1. Covers'
  BY DEF Covers, Inside
<1>2. Covering'
  BY DEF Covering, Inside, control
<1> QED BY <1>1, <1>2

\* The reads list every raw that the iteration may stamp and nobody has seen.
LEMMA CoverRead ==
    ASSUME Base, Covers, Covering, NEW w \in Workers, ReadTables(w)
    PROVE  Covers' /\ Covering'
<1> DEFINE o == task[w].owner
           news == list_since(o, Newest(wikis[o]), sess[w].started_at)
<1>1. /\ o \in Owners /\ sess[w] \in Session
      /\ UNCHANGED <<control, wikis, raws, coverage>>
      /\ sess'[w].pc = "decide" /\ sess'[w].started_at = sess[w].started_at
      /\ sess'[w].new_raws = news
      /\ \A v \in Workers \ {w} : sess'[v] = sess[v]
  BY AtFacts, WatermarkIs DEF ReadTables, Base, Types, Session, tables, history
<1>2. Covers'
  BY <1>1 DEF Covers
<1>3. ASSUME NEW r \in Raws, raws[r].stored, raws[r].owner = o,
             raws[r].created_at <= sess[w].started_at
      PROVE  r \in news \/ coverage[r] # {}
  <2>1. raws[r].created_at \in 0..MaxClock /\ Newest(wikis[o]) \in 0..MaxClock
    BY <1>1, <1>3, StoredFact, WatermarkType, WatermarkIs
  <2>2. CASE raws[r].created_at <= Newest(wikis[o])
    BY <1>3, <2>2 DEF Covers
  <2>3. CASE raws[r].created_at > Newest(wikis[o])
    BY <1>3, <2>3 DEF list_since
  <2> QED BY <2>1, <2>2, <2>3
<1> HIDE DEF news
<1>4. Covering'
  BY <1>1, <1>3 DEF Covering, control
<1> QED BY <1>2, <1>4

\* Deciding what to synthesize covers what has been listed.
LEMMA CoverDecide ==
    ASSUME Base, Covers, Covering, NEW w \in Workers, At(w, "decide"),
           NEW how \in {"append", "manual"}, Cover(w, how), NEW affected,
           UNCHANGED <<control, raws, wikis>>,
           sess' = [sess EXCEPT ![w].pc = "synth", ![w].todo = affected]
    PROVE  Covers' /\ Covering'
<1>1. /\ \A r \in Raws : coverage'[r] =
            IF r \in sess[w].new_raws THEN coverage[r] \cup {how} ELSE coverage[r]
      /\ sess[w].pc = "decide"
      /\ sess'[w].pc = "synth" /\ sess'[w].started_at = sess[w].started_at
      /\ \A v \in Workers \ {w} : sess'[v] = sess[v]
  <2>1. \A r \in Raws : coverage'[r] =
          IF r \in sess[w].new_raws THEN coverage[r] \cup {how} ELSE coverage[r]
    BY CoverType
  <2>2. sess[w].pc = "decide" /\ sess \in [Workers -> Session]
    BY AtFacts DEF Base, Types
  <2>3. /\ sess'[w].pc = "synth" /\ sess'[w].started_at = sess[w].started_at
        /\ \A v \in Workers \ {w} : sess'[v] = sess[v]
    BY <2>2 DEF Session
  <2> QED BY <2>1, <2>2, <2>3
<1>2. /\ \A r \in Raws : coverage[r] # {} => coverage'[r] # {}
      /\ \A r \in sess[w].new_raws : r \in Raws => coverage'[r] # {}
  BY <1>1
<1>3. Covers'
  BY <1>2 DEF Covers
<1>4. Covering'
  <2> SUFFICES ASSUME NEW v \in Workers, NEW r \in Raws,
                      raws[r].stored, raws[r].owner = task[v].owner,
                      raws[r].created_at <= sess'[v].started_at
               PROVE  /\ sess'[v].pc = "decide" => r \in sess'[v].new_raws \/ coverage'[r] # {}
                      /\ sess'[v].pc = "synth" => coverage'[r] # {}
    BY DEF Covering, control
  <2>1. CASE v = w
    BY <1>1, <1>2, <2>1 DEF Covering
  <2>2. CASE v # w
    <3>1. sess'[v] = sess[v]
      BY <1>1, <2>2
    <3>2. /\ sess[v].pc = "decide" => r \in sess[v].new_raws \/ coverage[r] # {}
          /\ sess[v].pc = "synth" => coverage[r] # {}
      BY <3>1 DEF Covering
    <3> QED BY <1>2, <3>1, <3>2
  <2> QED BY <2>1, <2>2
<1> QED BY <1>3, <1>4

\* The watermark moves to the start of an iteration that has covered all of it.
LEMMA CoverSynthesize ==
    ASSUME Base, NothingNewer, Covers, Covering, NEW w \in Workers, NEW c \in Concepts,
           SynthesizeOne(w, c)
    PROVE  Covers' /\ Covering'
<1> DEFINE o == task[w].owner
           new == [wikis[o] EXCEPT ![c] = sess[w].started_at]
<1>1. /\ o \in Owners /\ sess[w] \in Session /\ sess[w].pc = "synth"
      /\ sess[w].started_at \in 0..MaxClock
      /\ wikis \in [Owners -> [Concepts -> 0..MaxClock]]
      /\ wikis' = [wikis EXCEPT ![o] = new]
      /\ UNCHANGED <<control, raws, coverage>>
      /\ \A v \in Workers : /\ sess'[v].pc = sess[v].pc
                           /\ sess'[v].new_raws = sess[v].new_raws
                           /\ sess'[v].started_at = sess[v].started_at
  BY AtFacts DEF SynthesizeOne, RebuiltAt, Base, Types, Session, history
<1>2. new \in [Concepts -> 0..MaxClock] /\ \A d \in Concepts : new[d] <= sess[w].started_at
  BY <1>1 DEF NothingNewer
<1> HIDE DEF new
<1>3. Newest(new) \in 0..MaxClock /\ Newest(new) <= sess[w].started_at
  <2>1. Newest(new) \in 0..MaxClock /\ (Newest(new) = 0 \/ \E d \in Concepts : Newest(new) = new[d])
    BY <1>2, NewestFact
  <2>2. CASE Newest(new) = 0
    BY <1>1, <2>2, <2>1
  <2>3. CASE \E d \in Concepts : Newest(new) = new[d]
    BY <1>2, <2>1, <2>3
  <2> QED BY <2>1, <2>2, <2>3
<1>4. Covers'
  <2> SUFFICES ASSUME NEW r \in Raws, raws[r].stored,
                      raws[r].created_at <= Newest(wikis'[raws[r].owner])
               PROVE  coverage[r] # {}
    BY <1>1 DEF Covers
  <2>1. raws[r].owner \in Owners /\ raws[r].created_at \in 0..MaxClock
    BY StoredFact
  <2>2. CASE raws[r].owner = o
    <3>1. wikis'[o] = new
      BY <1>1
    <3>2. raws[r].created_at <= sess[w].started_at
      BY <1>1, <1>3, <2>1, <2>2, <3>1
    <3> QED BY <1>1, <2>2, <3>2 DEF Covering
  <2>3. CASE raws[r].owner # o
    <3>1. wikis'[raws[r].owner] = wikis[raws[r].owner]
      BY <1>1, <2>1, <2>3
    <3> QED BY <3>1 DEF Covers
  <2> QED BY <2>2, <2>3
<1>5. Covering'
  BY <1>1 DEF Covering, control
<1> QED BY <1>4, <1>5

\* A deleted account has no raws to cover.
LEMMA CoverDelete ==
    ASSUME Base, Covers, Covering, NEW o \in Owners, DeleteAccount(o)
    PROVE  Covers' /\ Covering'
<1>1. /\ RawsKept
      /\ \A r \in Raws : raws'[r].stored => raws[r].owner # o
      /\ UNCHANGED <<control, sess, coverage>>
      /\ \A p \in Owners \ {o} : wikis'[p] = wikis[p]
  BY DEF RawsKept, DeleteAccount, Base, Types, Raw, history
<1>2. \A r \in Raws : raws'[r].stored => raws[r].owner \in Owners \ {o}
  BY <1>1, StoredFact DEF RawsKept
<1>3. Covers'
  BY <1>1, <1>2 DEF Covers, RawsKept
<1>4. Covering'
  BY <1>1 DEF Covering, RawsKept, control
<1> QED BY <1>3, <1>4

LEMMA CoverRestart ==
    ASSUME Base, Covers, Covering, Restart
    PROVE  Covers' /\ Covering'
<1>1. RawsKept /\ UNCHANGED wikis
  BY DEF RawsKept, Restart, Base, Types, Raw
<1>2. \A w \in Workers : sess'[w].pc = "start"
  BY NewSessionType DEF Restart
<1>3. Covers'
  BY <1>1 DEF Covers, RawsKept
<1>4. Covering'
  BY <1>2 DEF Covering
<1> QED BY <1>3, <1>4

LEMMA CoverStep ==
    Base /\ NothingNewer /\ Covers /\ Covering /\ [Next]_vars => Covers' /\ Covering'
<1> SUFFICES ASSUME Base, NothingNewer, Covers, Covering, [Next]_vars
             PROVE  Covers' /\ Covering'
  OBVIOUS
<1>1. ASSUME OutsideStep, RawsKept PROVE Covers' /\ Covering'
  BY <1>1, CoverOutside, OutsideFact
<1>2. ASSUME NEW w \in Workers, WorkerStep(w) PROVE Covers' /\ Covering'
  <2> USE DEF tables, history
  <2>1. CASE BeginIteration(w)
    <3>1. Inside(w) /\ UNCHANGED <<wikis, coverage>> /\ sess'[w].pc = "read"
      BY <2>1 DEF BeginIteration, Inside, Base, Types, Session
    <3> QED BY <3>1, CoverInside
  <2>2. CASE ReadTables(w)
    BY <2>2, CoverRead
  <2>3. CASE DrainComplete(w) \/ CapSession(w) \/ \E how \in {"err", "panic"} : BreakSession(w, how)
    <3>1. Leaves(w) /\ UNCHANGED coverage
      BY <2>3, DrainBase, CapBase, BreakBase, LeavesFact
         DEF DrainComplete, CapSession, BreakSession
    <3> QED BY <3>1, CoverLeaves
  <2>4. CASE Extract(w) \/ RebuildManual(w)
    <3>1. /\ UNCHANGED <<clock, raws, wikis, deleted>>
          /\ At(w, "decide")
          /\ \/ UNCHANGED coverage
             \/ \E how \in {"append", "manual"} : Cover(w, how)
      BY <2>4 DEF Extract, RebuildManual
    <3>2. CASE EndSession(w) /\ (Continues(w) \/ Stops(w))
      <4>1. \A r \in Raws : coverage[r] \subseteq coverage'[r]
        BY <3>1, CoverType
      <4> QED BY <3>1, <3>2, <4>1, LeavesFact, CoverLeaves
    <3>3. ASSUME NEW affected, NEW how \in {"append", "manual"}, Cover(w, how),
                 UNCHANGED control,
                 sess' = [sess EXCEPT ![w].pc = "synth", ![w].todo = affected]
          PROVE  Covers' /\ Covering'
      BY <3>1, <3>3, CoverDecide
    <3>4. CASE Extract(w)
      <4>1. Cover(w, "append")
        BY <3>4 DEF Extract
      <4>2. \/ EndSession(w) /\ (Continues(w) \/ Stops(w))
            \/ \E affected : /\ UNCHANGED control
                             /\ sess' = [sess EXCEPT ![w].pc = "synth", ![w].todo = affected]
        BY <3>4, ExtractBase
      <4> QED BY <3>2, <3>3, <4>1, <4>2
    <3>5. CASE RebuildManual(w)
      <4> DEFINE affected == IF task[w].mode = FullRebuild THEN sess[w].existing
                                                           ELSE {task[w].mode}
      <4>1. affected # {} => Cover(w, "manual")
        BY <3>5 DEF RebuildManual
      <4>2. \/ EndSession(w) /\ (Continues(w) \/ Stops(w))
            \/ /\ affected # {} /\ UNCHANGED control
               /\ sess' = [sess EXCEPT ![w].pc = "synth", ![w].todo = affected]
        BY <3>5, ManualIterationBase
      <4> HIDE DEF affected
      <4> QED BY <3>2, <3>3, <4>1, <4>2
    <3> QED BY <2>4, <3>4, <3>5
  <2>5. CASE RejectManual(w)
    <3>1. UNCHANGED <<clock, raws, wikis, deleted, manuals, failed, coverage>>
      BY <2>5 DEF RejectManual
    <3>2. CASE EndSession(w) /\ (Continues(w) \/ Stops(w))
      BY <3>1, <3>2, LeavesFact, CoverLeaves
    <3>3. CASE UNCHANGED control /\ sess' = [sess EXCEPT ![w].pc = "start"]
      <4>1. Inside(w) /\ sess'[w].pc = "start"
        BY <3>1, <3>3 DEF Inside, Base, Types, Session
      <4> QED BY <3>1, <4>1, CoverInside
    <3> QED BY <2>5, <3>2, <3>3, RejectBase
  <2>6. ASSUME NEW c \in Concepts, SynthesizeFails(w, c) PROVE Covers' /\ Covering'
    <3>1. /\ Inside(w) /\ UNCHANGED <<wikis, coverage>>
          /\ sess'[w].pc = sess[w].pc
          /\ sess'[w].new_raws = sess[w].new_raws
          /\ sess'[w].started_at = sess[w].started_at
      BY <2>6 DEF SynthesizeFails, Inside, Base, Types, Session
    <3> QED BY <3>1, CoverInside
  <2>7. CASE EndIteration(w)
    <3>1. /\ Inside(w) /\ UNCHANGED <<wikis, coverage>>
          /\ sess'[w].pc \in {"start", "capped"}
      BY <2>7 DEF EndIteration, Inside, Base, Types, Session
    <3> QED BY <3>1, CoverInside
  <2>8. CASE OuterExit(w)
    <3>1. RawsKept
      BY <2>8 DEF OuterExit, RawsKept
    <3> QED BY <1>1, <2>8, <3>1 DEF OutsideStep
  <2> QED BY <1>2, <2>1, <2>2, <2>3, <2>4, <2>5, <2>6, <2>7, <2>8, CoverSynthesize
          DEF WorkerStep
<1>3. CASE CallStep \/ Tick
  <2>1. ASSUME NEW r \in Raws, NEW o \in Owners, StampRaw(r, o) PROVE RawsKept
    BY <2>1 DEF StampRaw, RawsKept, history, Base, Types
  <2>2. ASSUME NEW r \in Raws, NotifyRaw(r) \/ AbandonCall(r) PROVE RawsKept
    <3>1. /\ raws \in [Raws -> Raw] /\ UNCHANGED coverage
          /\ \E call \in Call : raws' = [raws EXCEPT ![r].call = call]
      BY <2>2 DEF NotifyRaw, AbandonCall, history, Base, Types, Call
    <3> QED BY <3>1 DEF RawsKept, Raw
  <2>3. ASSUME NEW o \in Owners, NEW mode \in ManualModes, WikiRebuild(o, mode) PROVE RawsKept
    BY <2>3 DEF WikiRebuild, RawsKept, history, tables
  <2>4. CASE Tick
    <3>1. RawsKept
      BY <2>4 DEF Tick, RawsKept, history, tables
    <3> QED BY <1>1, <2>4, <3>1 DEF OutsideStep
  <2> QED BY <1>1, <1>3, <2>1, <2>2, <2>3, <2>4, CoverCommit, CoverDelete
          DEF CallStep, OutsideStep
<1>4. CASE Restart
  BY <1>4, CoverRestart
<1>5. CASE UNCHANGED vars
  BY <1>5 DEF vars, Covers, Covering
<1> QED BY <1>2, <1>3, <1>4, <1>5 DEF Next

LEMMA CoverInit == Init => Covers /\ Covering
BY DEF Init, NoRaw, Covers, Covering

\* The watermark never passes a raw that no iteration had listed, except one
\* committed behind the horizon (WatermarkCovers): by the time an iteration may
\* stamp a wiki it has covered all that its stamp will cover (Covering).
THEOREM CoveredByWatermark == Spec => []WatermarkCovers
<1>1. Init => Base /\ NothingNewer /\ Covers /\ Covering
  BY InitBase, NewerInit, CoverInit
<1>2. Base /\ NothingNewer /\ Covers /\ Covering /\ [Next]_vars
         => (Base /\ NothingNewer /\ Covers /\ Covering)'
  BY NextBase, NewerStep, CoverStep
<1>3. Covers => WatermarkCovers
  BY CoversIs
<1> QED BY <1>1, <1>2, <1>3, PTL DEF Spec

-----------------------------------------------------------------------------
(* No notification is lost                                                 *)

Wake == Listing /\ Awake /\ Flags

\* Nothing is announced anew.
AnnouncedKept ==
    \A r \in Raws : Announced(r)' => /\ Announced(r)
                                     /\ raws'[r].owner = raws[r].owner
                                     /\ raws'[r].created_at = raws[r].created_at

\* What an extraction has had stays known.
CoverKept == \A r \in Raws : coverage[r] \subseteq coverage'[r]

\* If its owner owes no append, the step gives what is announced to an
\* extraction, or leaves it to a session that will.
Settles(w) ==
    LET o == task[w].owner
    IN  \A r \in Raws :
           /\ Announced(r)' /\ raws'[r].owner = o
           /\ ~state[o].append_missed
           /\ ~failed'[o]
           => "append" \in coverage'[r] \/ Drains(w)'

\* What other slots do is left alone.
LEMMA DrainsKept ==
    ASSUME NEW v, task'[v] = task[v], sess'[v] = sess[v]
    PROVE  Drains(v)' <=> Drains(v)
BY DEF Drains, Mode

\* A draining session holds its owner's slot.
LEMMA DrainsFact ==
    ASSUME Base, NEW w \in Workers, Drains(w)
    PROVE  /\ task[w].owner \in Owners /\ state[task[w].owner].running
           /\ \A v \in Workers : Works(v) /\ task[v].owner = task[w].owner => v = w
BY DEF Drains, Base, OneWorker, Works

\* Calls, the clock and account deletion only take from what is announced.
LEMMA WakeAround ==
    ASSUME Wake, AnnouncedKept, CoverKept, UNCHANGED <<control, sess, failed>>
    PROVE  Wake'
<1> USE DEF control
<1>1. \A w \in Workers : Drains(w)' <=> Drains(w)
  BY DrainsKept
<1>2. Listing'
  <2> HIDE DEF control
  <2> SUFFICES ASSUME NEW w \in Workers, NEW r \in Raws,
                      Announced(r)', raws'[r].owner = task'[w].owner,
                      ~state'[task'[w].owner].append_missed
               PROVE  /\ sess'[w].pc = "read" => raws'[r].created_at <= sess'[w].started_at
                      /\ sess'[w].pc = "decide" => r \in sess'[w].new_raws
    BY DEF Listing
  <2>1. /\ Announced(r) /\ raws'[r].owner = raws[r].owner
        /\ raws'[r].created_at = raws[r].created_at
    BY DEF AnnouncedKept
  <2> QED BY <2>1 DEF Wake, Listing, control
<1>3. Awake'
  BY <1>1 DEF Wake, Awake, AnnouncedKept, CoverKept
<1>4. Flags'
  BY DEF Wake, Flags
<1> QED BY <1>2, <1>3, <1>4 DEF Wake

\* A request leaves a mark or starts a session that drains what is owed.
LEMMA WakeTrigger ==
    ASSUME Base, Wake, NEW o \in Owners, NEW mode,
           Marks(o, mode) \/ \E w \in Workers : Starts(o, w, mode),
           \A r \in Raws : Announced(r)' =>
              /\ raws'[r].owner = raws[r].owner
              /\ raws'[r].created_at = raws[r].created_at
              /\ Announced(r) \/ (mode = AppendMode /\ raws[r].owner = o),
           UNCHANGED <<sess, coverage, failed>>
    PROVE  Wake'
<1>1. CASE Marks(o, mode)
  <2>1. UNCHANGED task /\ \A w \in Workers : Drains(w)' <=> Drains(w)
    BY <1>1, DrainsKept DEF Marks
  <2>2. \A p : p # o /\ p \in Owners => state'[p] = state[p]
    BY <1>1 DEF Marks
  <2>3. Listing'
    <3> SUFFICES ASSUME NEW w \in Workers, NEW r \in Raws,
                        Announced(r)', raws'[r].owner = task[w].owner,
                        ~state'[task[w].owner].append_missed,
                        sess[w].pc # "start"
                 PROVE  /\ sess[w].pc = "read" => raws'[r].created_at <= sess[w].started_at
                        /\ sess[w].pc = "decide" => r \in sess[w].new_raws
      BY <2>1 DEF Listing
    <3>1. task[w].owner \in Owners
      BY NewSessionType DEF Base, SessShape, OneWorker, Works
    <3>2. Announced(r) /\ ~state[task[w].owner].append_missed
      BY <1>1, <2>2, <3>1 DEF Marks
    <3> QED BY <3>2 DEF Wake, Listing
  <2>4. Awake'
    <3> SUFFICES ASSUME NEW r \in Raws, Announced(r)', ~failed[raws'[r].owner],
                        "append" \notin coverage[r], ~state'[raws'[r].owner].append_missed
                 PROVE  \E w \in Workers : task[w].owner = raws'[r].owner /\ Drains(w)
      BY <2>1 DEF Awake
    <3>1. raws'[r].owner = raws[r].owner
      OBVIOUS
    <3>2. Announced(r)
      BY <1>1, <3>1 DEF Marks
    <3>3. raws[r].owner \in Owners
      BY <3>2, StoredFact DEF Announced
    <3>4. ~state[raws[r].owner].append_missed
      BY <1>1, <2>2, <3>1, <3>3 DEF Marks
    <3> QED BY <3>1, <3>2, <3>4 DEF Wake, Awake
  <2>5. Flags'
    BY <1>1, <2>1, <2>2 DEF Wake, Flags, Marks
  <2> QED BY <2>3, <2>4, <2>5 DEF Wake
<1>2. ASSUME NEW w \in Workers, Starts(o, w, mode) PROVE Wake'
  <2>1. /\ sess[w] = NewSession /\ NewSession.pc = "start"
        /\ \A v \in Workers : sess[v].pc # "start" => task[v].phase = "session"
    BY <1>2, NewSessionType DEF Base, SessShape, Starts
  <2>2. \A v \in Workers : Works(v) => task[v].owner \in Owners \ {o} /\ v # w
    BY <1>2 DEF Starts, Base, OneWorker, Works
  <2>3. /\ \A v \in Workers \ {w} : task'[v] = task[v] /\ (Drains(v)' <=> Drains(v))
        /\ \A p \in Owners \ {o} : state'[p] = state[p]
    BY <1>2, DrainsKept DEF Starts, Touches
  <2>4. Listing'
    <3> SUFFICES ASSUME NEW v \in Workers, NEW r \in Raws,
                        Announced(r)', raws'[r].owner = task'[v].owner,
                        ~state'[task'[v].owner].append_missed,
                        sess[v].pc # "start"
                 PROVE  /\ sess[v].pc = "read" => raws'[r].created_at <= sess[v].started_at
                        /\ sess[v].pc = "decide" => r \in sess[v].new_raws
      BY DEF Listing
    <3>1. v # w /\ task[v].owner \in Owners \ {o}
      BY <2>1, <2>2 DEF Works
    <3>2. Announced(r) /\ raws[r].owner = task[v].owner /\ ~state[task[v].owner].append_missed
      BY <2>3, <3>1
    <3> QED BY <3>2 DEF Wake, Listing
  <2>5. Awake'
    <3> SUFFICES ASSUME NEW r \in Raws, Announced(r)', ~failed[raws'[r].owner],
                        "append" \notin coverage[r], ~state'[raws'[r].owner].append_missed
                 PROVE  \E v \in Workers : task'[v].owner = raws'[r].owner /\ Drains(v)'
      BY DEF Awake
    <3>1. raws'[r].owner = raws[r].owner
      OBVIOUS
    <3>2. CASE mode = AppendMode /\ raws[r].owner = o
      BY <1>2, <2>1, <3>1, <3>2 DEF Starts, Drains
    <3>3. CASE Announced(r) /\ raws[r].owner = o
      <4>1. ~\E v \in Workers : task[v].owner = o /\ Drains(v)
        BY <2>2 DEF Drains, Works
      <4>2. state[o].append_missed
        BY <3>3, <4>1, <3>1 DEF Wake, Awake
      <4> QED BY <1>2, <2>1, <3>1, <3>3, <4>2 DEF Starts, Drains
    <3>4. CASE Announced(r) /\ raws[r].owner # o
      <4>1. raws[r].owner \in Owners
        BY <3>4, StoredFact DEF Announced
      <4>2. ~state[raws[r].owner].append_missed
        BY <2>3, <3>1, <3>4, <4>1
      <4>3. PICK v \in Workers : task[v].owner = raws[r].owner /\ Drains(v)
        BY <3>1, <3>4, <4>2 DEF Wake, Awake
      <4>4. v # w
        BY <2>2, <4>3 DEF Drains, Works
      <4> QED BY <2>3, <3>1, <4>3, <4>4
    <3> QED BY <3>2, <3>3, <3>4
  <2>6. Flags'
    BY <1>2, <2>3 DEF Wake, Flags, Starts
  <2> QED BY <2>4, <2>5, <2>6 DEF Wake
<1> QED BY <1>1, <1>2

\* The outer task of a broken worker, and only that, drops what is owed.
LEMMA WakeExit ==
    ASSUME Base, Wake, NEW w \in Workers, Exits(w), AnnouncedKept,
           UNCHANGED <<sess, coverage, failed>>
    PROVE  Wake'
<1> DEFINE o == task[w].owner
<1>1. /\ o \in Owners /\ task[w].phase # "session"
      /\ \A v \in Workers : sess[v].pc # "start" => task[v].phase = "session" /\ v # w
      /\ \A v \in Workers \ {w} : task'[v] = task[v] /\ (Drains(v)' <=> Drains(v))
      /\ \A p \in Owners \ {o} : state'[p] = state[p]
  BY DrainsKept, NewSessionType DEF Exits, Touches, Base, OneWorker, SessShape
<1>2. \/ UNCHANGED state
      \/ failed[o] /\ \A v \in Workers \ {w} : Works(v) => task[v].owner # o
  BY <1>1 DEF Exits, Wake, Flags, Base, OneWorker, Works
<1>3. Listing'
  <2> SUFFICES ASSUME NEW v \in Workers, NEW r \in Raws,
                      Announced(r)', raws'[r].owner = task'[v].owner,
                      ~state'[task'[v].owner].append_missed, sess[v].pc # "start"
               PROVE  /\ sess[v].pc = "read" => raws'[r].created_at <= sess[v].started_at
                      /\ sess[v].pc = "decide" => r \in sess[v].new_raws
    BY DEF Listing
  <2>1. v # w /\ Works(v) /\ task[v].owner \in Owners
    BY <1>1 DEF Works, Base, OneWorker
  <2>2. /\ Announced(r) /\ raws[r].owner = task[v].owner
        /\ raws'[r].created_at = raws[r].created_at
        /\ ~state[task[v].owner].append_missed
    BY <1>1, <1>2, <2>1 DEF AnnouncedKept
  <2> QED BY <2>2 DEF Wake, Listing
<1>4. Awake'
  <2> SUFFICES ASSUME NEW r \in Raws, Announced(r)', ~failed[raws'[r].owner],
                      "append" \notin coverage[r], ~state'[raws'[r].owner].append_missed
               PROVE  \E v \in Workers : task'[v].owner = raws'[r].owner /\ Drains(v)'
    BY DEF Awake
  <2>1. Announced(r) /\ raws'[r].owner = raws[r].owner /\ raws[r].owner \in Owners
    BY StoredFact DEF AnnouncedKept, Announced
  <2>2. ~state[raws[r].owner].append_missed
    BY <1>1, <1>2, <2>1
  <2>3. PICK v \in Workers : task[v].owner = raws[r].owner /\ Drains(v)
    BY <2>1, <2>2 DEF Wake, Awake
  <2>4. v # w
    BY <1>1, <2>3 DEF Drains
  <2> QED BY <1>1, <2>1, <2>3, <2>4
<1>5. Flags'
  <2>1. \A p \in Owners : ~state'[p].running /\ state'[p].append_missed => failed[p]
    BY <1>1, <1>2 DEF Wake, Flags
  <2>2. \A v \in Workers : task'[v].phase \in {"err", "panic"} => failed[task'[v].owner]
    BY <1>1 DEF Wake, Flags, Exits
  <2> QED BY <2>1, <2>2 DEF Flags
<1> QED BY <1>3, <1>4, <1>5 DEF Wake

\* A session ends: the worker drains what is owed, or leaves nothing behind.
LEMMA WakeEnds ==
    ASSUME Base, Wake, NEW w \in Workers, Continues(w) \/ Stops(w) \/ Breaks(w),
           sess'[w] = NewSession, \A v \in Workers \ {w} : sess'[v] = sess[v],
           AnnouncedKept, CoverKept,
           \A p \in Owners \ {task[w].owner} : failed'[p] = failed[p],
           Breaks(w) => failed'[task[w].owner],
           ~Breaks(w) => Settles(w)
    PROVE  Wake'
<1> DEFINE o == task[w].owner
<1>1. /\ o \in Owners /\ Works(w) /\ state[o].running
      /\ NewSession.pc = "start"
      /\ \A v \in Workers : sess[v].pc # "start" => task[v].phase = "session"
      /\ \A v \in Workers \ {w} : task'[v] = task[v] /\ (Drains(v)' <=> Drains(v))
      /\ \A p \in Owners \ {o} : state'[p] = state[p]
      /\ task'[w].owner = o
  BY DrainsKept, NewSessionType
     DEF Continues, Stops, Breaks, Touches, Base, OneWorker, Works, SessShape
<1>2. \A v \in Workers \ {w} : Works(v) => task[v].owner \in Owners \ {o}
  BY <1>1 DEF Base, OneWorker, Works
<1>3. Listing'
  <2> SUFFICES ASSUME NEW v \in Workers, NEW r \in Raws,
                      Announced(r)', raws'[r].owner = task'[v].owner,
                      ~state'[task'[v].owner].append_missed, sess'[v].pc # "start"
               PROVE  /\ sess'[v].pc = "read" => raws'[r].created_at <= sess'[v].started_at
                      /\ sess'[v].pc = "decide" => r \in sess'[v].new_raws
    BY DEF Listing
  <2>1. v # w /\ sess'[v] = sess[v] /\ task[v].owner \in Owners \ {o}
    BY <1>1, <1>2 DEF Works
  <2>2. /\ Announced(r) /\ raws[r].owner = task[v].owner
        /\ raws'[r].created_at = raws[r].created_at
        /\ ~state[task[v].owner].append_missed
    BY <1>1, <2>1 DEF AnnouncedKept
  <2> QED BY <2>1, <2>2 DEF Wake, Listing
<1>4. Awake'
  <2> SUFFICES ASSUME NEW r \in Raws, Announced(r)', ~failed'[raws'[r].owner],
                      "append" \notin coverage'[r], ~state'[raws'[r].owner].append_missed
               PROVE  \E v \in Workers : task'[v].owner = raws'[r].owner /\ Drains(v)'
    BY DEF Awake
  <2>1. Announced(r) /\ raws'[r].owner = raws[r].owner /\ raws[r].owner \in Owners
    BY StoredFact DEF AnnouncedKept, Announced
  <2>2. CASE raws[r].owner = o
    <3>1. ~Breaks(w)
      BY <2>1, <2>2
    <3>2. CASE state[o].append_missed
      <4>1. task'[w].phase = "session" /\ task'[w].mode = AppendMode
        BY <3>1, <3>2 DEF Continues, Stops
      <4>2. Drains(w)'
        BY <1>1, <4>1 DEF Drains
      <4> QED BY <1>1, <2>1, <2>2, <4>2
    <3>3. CASE ~state[o].append_missed
      BY <1>1, <2>1, <2>2, <3>1, <3>3 DEF Settles
    <3> QED BY <3>2, <3>3
  <2>3. CASE raws[r].owner # o
    <3>1. /\ ~state[raws[r].owner].append_missed /\ ~failed[raws[r].owner]
          /\ "append" \notin coverage[r]
      BY <1>1, <2>1, <2>3 DEF CoverKept
    <3>2. PICK v \in Workers : task[v].owner = raws[r].owner /\ Drains(v)
      BY <2>1, <3>1 DEF Wake, Awake
    <3>3. v # w
      BY <2>3, <3>2
    <3> QED BY <1>1, <2>1, <3>2, <3>3
  <2> QED BY <2>2, <2>3
<1>5. Flags'
  <2>1. \A p \in Owners : ~state'[p].running /\ state'[p].append_missed => failed'[p]
    <3>1. ~state'[o].running /\ state'[o].append_missed => failed'[o]
      BY <1>1 DEF Continues, Stops, Breaks
    <3>2. \A p \in Owners \ {o} : ~state'[p].running /\ state'[p].append_missed => failed'[p]
      BY <1>1 DEF Wake, Flags
    <3> QED BY <3>1, <3>2
  <2>2. \A v \in Workers : task'[v].phase \in {"err", "panic"} => failed'[task'[v].owner]
    <3>1. task'[w].phase \in {"err", "panic"} => Breaks(w)
      BY DEF Continues, Stops
    <3>2. ASSUME NEW v \in Workers \ {w}, task[v].phase \in {"err", "panic"}
          PROVE  failed'[task[v].owner]
      BY <1>2, <3>2 DEF Wake, Flags, Works
    <3> QED BY <1>1, <3>1, <3>2
  <2> QED BY <2>1, <2>2 DEF Flags
<1> QED BY <1>3, <1>4, <1>5 DEF Wake

\* A session goes on: what it lists it will give to an extraction, or else
\* everything it leaves behind has been given to one or is owed.
LEMMA WakeGoesOn ==
    ASSUME Base, Wake, NEW w \in Workers, task[w].phase = "session", UNCHANGED control,
           \A v \in Workers \ {w} : sess'[v] = sess[v],
           AnnouncedKept, CoverKept, Settles(w),
           \A p \in Owners \ {task[w].owner} : failed'[p] = failed[p],
           \A r \in Raws :
              /\ Announced(r) /\ raws[r].owner = task[w].owner
              /\ ~state[task[w].owner].append_missed
              => /\ sess'[w].pc = "read" => raws[r].created_at <= sess'[w].started_at
                 /\ sess'[w].pc = "decide" => r \in sess'[w].new_raws
    PROVE  Wake'
<1> DEFINE o == task[w].owner
<1>1. /\ o \in Owners /\ Works(w) /\ state[o].running
      /\ UNCHANGED <<state, task>>
      /\ \A v \in Workers \ {w} : Drains(v)' <=> Drains(v)
  BY DrainsKept DEF Base, OneWorker, Works, control
<1>2. Listing'
  <2> SUFFICES ASSUME NEW v \in Workers, NEW r \in Raws,
                      Announced(r)', raws'[r].owner = task[v].owner,
                      ~state[task[v].owner].append_missed
               PROVE  /\ sess'[v].pc = "read" => raws'[r].created_at <= sess'[v].started_at
                      /\ sess'[v].pc = "decide" => r \in sess'[v].new_raws
    BY <1>1 DEF Listing
  <2>1. /\ Announced(r) /\ raws[r].owner = task[v].owner
        /\ raws'[r].created_at = raws[r].created_at
    BY DEF AnnouncedKept
  <2>2. CASE v = w
    BY <2>1, <2>2
  <2>3. CASE v # w
    <3>1. sess'[v] = sess[v]
      BY <2>3
    <3> QED BY <2>1, <3>1 DEF Wake, Listing
  <2> QED BY <2>2, <2>3
<1>3. Awake'
  <2> SUFFICES ASSUME NEW r \in Raws, Announced(r)', ~failed'[raws'[r].owner],
                      "append" \notin coverage'[r], ~state[raws'[r].owner].append_missed
               PROVE  \E v \in Workers : task[v].owner = raws'[r].owner /\ Drains(v)'
    BY <1>1 DEF Awake
  <2>1. Announced(r) /\ raws'[r].owner = raws[r].owner /\ raws[r].owner \in Owners
    BY StoredFact DEF AnnouncedKept, Announced
  <2>2. CASE raws[r].owner = o
    BY <2>1, <2>2 DEF Settles
  <2>3. CASE raws[r].owner # o
    <3>1. ~failed[raws[r].owner] /\ "append" \notin coverage[r]
      BY <2>1, <2>3 DEF CoverKept
    <3>2. PICK v \in Workers : task[v].owner = raws[r].owner /\ Drains(v)
      BY <2>1, <3>1 DEF Wake, Awake
    <3>3. v # w
      BY <2>3, <3>2
    <3> QED BY <1>1, <2>1, <3>2, <3>3
  <2> QED BY <2>2, <2>3
<1>4. Flags'
  <2>1. \A p \in Owners : ~state[p].running /\ state[p].append_missed => failed'[p]
    BY <1>1 DEF Wake, Flags
  <2>2. ASSUME NEW v \in Workers, task[v].phase \in {"err", "panic"}
        PROVE  failed'[task[v].owner]
    <3>1. task[v].owner \in Owners \ {o} /\ failed[task[v].owner]
      BY <1>1, <2>2 DEF Base, OneWorker, Works, Wake, Flags
    <3> QED BY <3>1
  <2> QED BY <1>1, <2>1, <2>2 DEF Flags
<1> QED BY <1>2, <1>3, <1>4 DEF Wake

\* A session that is not draining has nothing that only it knows of.
LEMMA NotDraining ==
    ASSUME Base, Wake, NEW w \in Workers, task[w].phase = "session", ~Drains(w),
           NEW r \in Raws, Announced(r), raws[r].owner = task[w].owner,
           ~failed[task[w].owner], ~state[task[w].owner].append_missed
    PROVE  "append" \in coverage[r]
<1>1. \A v \in Workers : task[v].owner = task[w].owner /\ Drains(v) => v = w
  BY DrainsFact DEF Works
<1> QED BY <1>1 DEF Wake, Awake

LEMMA NotDrainingSettles ==
    ASSUME Base, Wake, NEW w \in Workers, task[w].phase = "session", ~Drains(w),
           AnnouncedKept, CoverKept, failed' = failed
    PROVE  Settles(w)
<1> SUFFICES ASSUME NEW r \in Raws, Announced(r)', raws'[r].owner = task[w].owner,
                    ~state[task[w].owner].append_missed, ~failed[task[w].owner]
             PROVE  "append" \in coverage'[r]
  BY DEF Settles
<1>1. Announced(r) /\ raws[r].owner = task[w].owner
  BY DEF AnnouncedKept
<1>2. "append" \in coverage[r]
  BY <1>1, NotDraining
<1> QED BY <1>2 DEF CoverKept

\* A session that goes on draining settles everything.
LEMMA DrainingSettles ==
    ASSUME Base, Wake, NEW w \in Workers, task[w].phase = "session",
           Drains(w) => Drains(w)', AnnouncedKept, CoverKept, failed' = failed
    PROVE  Settles(w)
<1>1. CASE Drains(w)
  BY <1>1 DEF Settles
<1>2. CASE ~Drains(w)
  BY <1>2, NotDrainingSettles
<1> QED BY <1>1, <1>2

\* The tables are left alone but for a later watermark.
LEMMA TablesKept ==
    ASSUME UNCHANGED <<raws, wikis, coverage>>
    PROVE  AnnouncedKept /\ CoverKept
BY DEF AnnouncedKept, Announced, CoverKept

LEMMA WakeBegin == ASSUME Base, Wake, NEW w \in Workers, BeginIteration(w) PROVE Wake'
<1>1. /\ UNCHANGED <<control, clock, raws, wikis, coverage, failed>>
      /\ task[w].phase = "session" /\ sess[w].pc = "start"
      /\ sess[w].iteration \in Nat /\ sess \in [Workers -> Session]
  BY AtFacts, RebuildAssumption DEF BeginIteration, tables, history, Base, Types, Session
<1>2. /\ \A v \in Workers \ {w} : sess'[v] = sess[v]
      /\ sess'[w].pc = "read" /\ sess'[w].started_at = clock
      /\ sess'[w].iteration = sess[w].iteration + 1
  BY <1>1 DEF BeginIteration, Session
<1>3. AnnouncedKept /\ CoverKept
  BY <1>1, TablesKept
<1>4. Drains(w) => Drains(w)'
  <2>1. sess'[w].iteration = 1 <=> sess[w].iteration = 0
    BY <1>1, <1>2
  <2> QED BY <1>1, <1>2, <2>1 DEF Drains, Mode, control
<1>5. Settles(w)
  BY <1>1, <1>3, <1>4, DrainingSettles
<1>6. \A r \in Raws : raws[r].created_at <= sess'[w].started_at
  BY <1>2 DEF Base, InPast
<1> QED BY <1>1, <1>2, <1>3, <1>5, <1>6, WakeGoesOn

LEMMA WakeRead == ASSUME Base, Wake, NEW w \in Workers, ReadTables(w) PROVE Wake'
<1> DEFINE o == task[w].owner
           news == list_since(o, Newest(wikis[o]), sess[w].started_at)
<1>1. /\ UNCHANGED <<control, raws, wikis, coverage, failed>>
      /\ task[w].phase = "session" /\ sess[w].pc = "read" /\ sess \in [Workers -> Session]
  BY AtFacts DEF ReadTables, tables, history, Base, Types
<1>2. /\ \A v \in Workers \ {w} : sess'[v] = sess[v]
      /\ sess'[w].pc = "decide" /\ sess'[w].iteration = sess[w].iteration
      /\ sess'[w].new_raws = news
  BY <1>1, WatermarkIs DEF ReadTables, Session
<1>3. AnnouncedKept /\ CoverKept
  BY <1>1, TablesKept
<1>4. Drains(w) => Drains(w)'
  BY <1>1, <1>2 DEF Drains, Mode, control
<1>5. Settles(w)
  BY <1>1, <1>3, <1>4, DrainingSettles
<1>6. ASSUME NEW r \in Raws, Announced(r), raws[r].owner = o, ~state[o].append_missed
      PROVE  r \in news
  BY <1>1, <1>6 DEF Wake, Listing, Announced, list_since
<1> HIDE DEF news
<1> QED BY <1>1, <1>2, <1>3, <1>5, <1>6, WakeGoesOn

\* In an append iteration, what is announced has been listed or is owed.
LEMMA ListedAll ==
    ASSUME Base, Wake, NEW w \in Workers, At(w, "decide"),
           NEW r \in Raws, Announced(r), raws[r].owner = task[w].owner,
           ~state[task[w].owner].append_missed
    PROVE  r \in sess[w].new_raws
BY AtFacts DEF Wake, Listing

\* An iteration in another mode drains nothing.
LEMMA ManualDrainsNot ==
    ASSUME Base, NEW w \in Workers, NEW pc, At(w, pc),
           pc \in {"synth", "capped"} \/ (pc = "decide" /\ Mode(w) # AppendMode)
    PROVE  task[w].phase = "session" /\ ~Drains(w)
BY AtFacts DEF Drains

LEMMA WakeDrain == ASSUME Base, Wake, NEW w \in Workers, DrainComplete(w) PROVE Wake'
<1>1. /\ At(w, "decide") /\ sess[w].new_raws = {} /\ EndSession(w)
      /\ UNCHANGED <<clock, raws, wikis, deleted, coverage>>
      /\ failed' = [failed EXCEPT ![task[w].owner] = FALSE]
  BY DEF DrainComplete, tables
<1>2. AnnouncedKept /\ CoverKept
  BY <1>1, TablesKept
<1>3. Continues(w) \/ Stops(w)
  BY DrainBase
<1>4. Leaves(w)
  BY <1>1, <1>3, LeavesFact
<1>5. Settles(w)
  BY <1>1, <1>2, ListedAll DEF Settles, AnnouncedKept
<1>6. \A p \in Owners \ {task[w].owner} : failed'[p] = failed[p]
  BY <1>1 DEF Base, Types
<1>7. ~Breaks(w)
  BY <1>3 DEF Breaks, Continues, Stops
<1> QED BY <1>2, <1>3, <1>4, <1>5, <1>6, <1>7, WakeEnds DEF Leaves

LEMMA WakeExtract == ASSUME Base, Wake, NEW w \in Workers, Extract(w) PROVE Wake'
<1>1. /\ At(w, "decide") /\ Cover(w, "append")
      /\ UNCHANGED <<clock, raws, wikis, deleted>>
      /\ failed' = [failed EXCEPT ![task[w].owner] = FALSE]
  BY DEF Extract, tables
<1>2. /\ CoverKept /\ AnnouncedKept
      /\ \A r \in Raws : r \in sess[w].new_raws => "append" \in coverage'[r]
  BY <1>1, CoverType DEF CoverKept, AnnouncedKept, Announced
<1>3. Settles(w)
  <2> SUFFICES ASSUME NEW r \in Raws, Announced(r)', raws'[r].owner = task[w].owner,
                      ~state[task[w].owner].append_missed
               PROVE  "append" \in coverage'[r]
    BY DEF Settles
  <2>1. Announced(r) /\ raws[r].owner = task[w].owner
    BY <1>2 DEF AnnouncedKept
  <2> QED BY <1>1, <1>2, <2>1, ListedAll
<1>4. \A p \in Owners \ {task[w].owner} : failed'[p] = failed[p]
  BY <1>1 DEF Base, Types
<1>5. CASE EndSession(w) /\ (Continues(w) \/ Stops(w))
  <2>1. Leaves(w)
    BY <1>1, <1>5, LeavesFact
  <2>2. ~Breaks(w)
    BY <1>5 DEF Breaks, Continues, Stops
  <2> QED BY <1>2, <1>3, <1>4, <1>5, <2>1, <2>2, WakeEnds DEF Leaves
<1>6. ASSUME NEW affected, UNCHANGED control,
             sess' = [sess EXCEPT ![w].pc = "synth", ![w].todo = affected]
      PROVE  Wake'
  <2>1. /\ task[w].phase = "session" /\ sess \in [Workers -> Session]
    BY <1>1, AtFacts DEF Base, Types
  <2>2. sess'[w].pc = "synth" /\ \A v \in Workers \ {w} : sess'[v] = sess[v]
    BY <1>6, <2>1 DEF Session
  <2> QED BY <1>2, <1>3, <1>4, <1>6, <2>1, <2>2, WakeGoesOn
<1>7. \/ EndSession(w) /\ (Continues(w) \/ Stops(w))
      \/ \E affected : /\ UNCHANGED control
                       /\ sess' = [sess EXCEPT ![w].pc = "synth", ![w].todo = affected]
  BY ExtractBase
<1> QED BY <1>5, <1>6, <1>7

\* A manual iteration leaves alone what an append iteration has to look at.
LEMMA WakeManual ==
    ASSUME Base, Wake, NEW w \in Workers, RejectManual(w) \/ RebuildManual(w)
    PROVE  Wake'
<1>1. /\ At(w, "decide") /\ Mode(w) # AppendMode
      /\ UNCHANGED <<clock, raws, wikis, deleted, failed>>
  BY DEF RejectManual, RebuildManual, tables, history
<1>2. CoverKept /\ AnnouncedKept
  <2>1. UNCHANGED coverage \/ Cover(w, "manual")
    BY DEF RejectManual, RebuildManual, history
  <2>2. CoverKept
    BY <2>1, CoverType DEF CoverKept
  <2> QED BY <1>1, <2>2 DEF AnnouncedKept, Announced
<1>3. Settles(w) /\ task[w].phase = "session"
  BY <1>1, <1>2, ManualDrainsNot, NotDrainingSettles
<1>4. CASE EndSession(w) /\ (Continues(w) \/ Stops(w))
  <2>1. Leaves(w)
    BY <1>1, <1>4, LeavesFact
  <2>2. ~Breaks(w)
    BY <1>4 DEF Breaks, Continues, Stops
  <2> QED BY <1>1, <1>2, <1>3, <1>4, <2>1, <2>2, WakeEnds DEF Leaves
<1>5. CASE /\ UNCHANGED control
           /\ \/ sess' = [sess EXCEPT ![w].pc = "start"]
              \/ \E affected : sess' = [sess EXCEPT ![w].pc = "synth", ![w].todo = affected]
  <2>1. sess \in [Workers -> Session]
    BY DEF Base, Types
  <2>2. sess'[w].pc \in {"start", "synth"} /\ \A v \in Workers \ {w} : sess'[v] = sess[v]
    BY <1>5, <2>1 DEF Session
  <2> QED BY <1>1, <1>2, <1>3, <1>5, <2>2, WakeGoesOn
<1> QED BY <1>4, <1>5, RejectBase, ManualIterationBase

LEMMA WakeEndIteration == ASSUME Base, Wake, NEW w \in Workers, EndIteration(w) PROVE Wake'
<1>1. /\ At(w, "synth") /\ sess \in [Workers -> Session]
      /\ UNCHANGED <<control, raws, wikis, coverage, failed>>
  BY DEF EndIteration, tables, history, Base, Types
<1>2. sess'[w].pc \in {"start", "capped"} /\ \A v \in Workers \ {w} : sess'[v] = sess[v]
  BY <1>1 DEF EndIteration, Session
<1>3. AnnouncedKept /\ CoverKept
  BY <1>1, TablesKept
<1>4. Settles(w) /\ task[w].phase = "session"
  BY <1>1, <1>3, ManualDrainsNot, NotDrainingSettles
<1> QED BY <1>1, <1>2, <1>3, <1>4, WakeGoesOn

LEMMA WakeConcept ==
    ASSUME Base, NothingNewer, Wake, NEW w \in Workers, NEW c \in Concepts,
           SynthesizeOne(w, c) \/ SynthesizeFails(w, c)
    PROVE  Wake'
<1>1. /\ At(w, "synth") /\ sess \in [Workers -> Session]
      /\ UNCHANGED <<control, raws, coverage, failed, deleted>>
      /\ sess' = [sess EXCEPT ![w].todo = sess[w].todo \ {c}]
  BY DEF SynthesizeOne, SynthesizeFails, tables, history, Base, Types
<1>2. sess'[w].pc = "synth" /\ \A v \in Workers \ {w} : sess'[v] = sess[v]
  BY <1>1, AtFacts DEF Session
<1>3. AnnouncedKept /\ CoverKept
  <2> SUFFICES ASSUME NEW r \in Raws, Announced(r)'
               PROVE  Announced(r)
    BY <1>1 DEF AnnouncedKept, CoverKept
  <2> DEFINE o == raws[r].owner
  <2>1. raws[r].stored /\ raws[r].call = "notified" /\ raws[r].created_at > Newest(wikis'[o])
    BY <1>1 DEF Announced
  <2>2. o \in Owners /\ raws[r].created_at \in 0..MaxClock
    BY <2>1, StoredFact
  <2>3. Newest(wikis'[o]) >= Newest(wikis[o])
    BY <2>2, WatermarkRises
  <2>4. Newest(wikis[o]) \in Nat /\ Newest(wikis'[o]) \in Nat
    BY <2>2, WatermarkRises
  <2> HIDE DEF o
  <2>5. raws[r].created_at > Newest(wikis[o])
    BY <2>1, <2>2, <2>3, <2>4
  <2> QED BY <2>1, <2>5 DEF Announced, o
<1>4. Settles(w) /\ task[w].phase = "session"
  BY <1>1, <1>3, ManualDrainsNot, NotDrainingSettles
<1> QED BY <1>1, <1>2, <1>3, <1>4, WakeGoesOn

LEMMA WakeCap == ASSUME Base, Wake, NEW w \in Workers, CapSession(w) PROVE Wake'
<1>1. /\ At(w, "capped") /\ EndSession(w)
      /\ UNCHANGED <<clock, raws, wikis, deleted, coverage, failed>>
  BY DEF CapSession, tables, history
<1>2. AnnouncedKept /\ CoverKept
  BY <1>1, TablesKept
<1>3. Continues(w) \/ Stops(w)
  BY CapBase
<1>4. Leaves(w)
  BY <1>1, <1>3, LeavesFact
<1>5. Settles(w)
  BY <1>1, <1>2, ManualDrainsNot, NotDrainingSettles
<1>6. ~Breaks(w)
  BY <1>3 DEF Breaks, Continues, Stops
<1> QED BY <1>1, <1>2, <1>3, <1>4, <1>5, <1>6, WakeEnds DEF Leaves

LEMMA WakeBreak ==
    ASSUME Base, Wake, NEW w \in Workers, NEW how \in {"err", "panic"}, BreakSession(w, how)
    PROVE  Wake'
<1>1. /\ EndSession(w)
      /\ UNCHANGED <<clock, raws, wikis, deleted, coverage>>
      /\ failed' = [failed EXCEPT ![task[w].owner] = TRUE]
  BY DEF BreakSession, tables
<1>2. AnnouncedKept /\ CoverKept
  BY <1>1, TablesKept
<1>3. Breaks(w) /\ task[w].owner \in Owners
  BY BreakBase
<1>4. Leaves(w)
  BY <1>1, <1>3, LeavesFact
<1>5. /\ failed'[task[w].owner]
      /\ \A p \in Owners \ {task[w].owner} : failed'[p] = failed[p]
  BY <1>1, <1>3 DEF Base, Types
<1> QED BY <1>2, <1>3, <1>4, <1>5, WakeEnds DEF Leaves

LEMMA WakeOuterExit == ASSUME Base, Wake, NEW w \in Workers, OuterExit(w) PROVE Wake'
<1>1. UNCHANGED <<raws, wikis, coverage, sess, failed>>
  BY DEF OuterExit, tables, history
<1> QED BY <1>1, TablesKept, ExitBase, WakeExit

\* Only the call of an announced raw changes what is announced.
LEMMA WakeCall ==
    ASSUME Base, Wake, NEW r \in Raws,
           \/ \E o \in Owners : StampRaw(r, o)
           \/ CommitRaw(r)
           \/ AbandonCall(r)
    PROVE  Wake'
<1>1. /\ raws \in [Raws -> Raw]
      /\ UNCHANGED <<control, wikis, sess, failed>>
      /\ raws[r].call # "notified" /\ raws'[r].call # "notified"
      /\ \A q \in Raws \ {r} : raws'[q] = raws[q]
  <2>1. CASE \E o \in Owners : StampRaw(r, o)
    BY <2>1 DEF StampRaw, history, Base, Types
  <2>2. CASE CommitRaw(r)
    BY <2>2 DEF CommitRaw, Base, Types, Raw
  <2>3. CASE AbandonCall(r)
    BY <2>3 DEF AbandonCall, history, Base, Types, Raw
  <2> QED BY <2>1, <2>2, <2>3
<1>2. AnnouncedKept
  BY <1>1 DEF AnnouncedKept, Announced
<1>3. CoverKept
  BY DEF CoverKept, StampRaw, CommitRaw, AbandonCall, history, Base, Types
<1> QED BY <1>1, <1>2, <1>3, WakeAround

LEMMA WakeNotify == ASSUME Base, Wake, NEW r \in Raws, NotifyRaw(r) PROVE Wake'
<1> DEFINE o == raws[r].owner
<1>1. /\ raws \in [Raws -> Raw] /\ o \in Owners
      /\ raws' = [raws EXCEPT ![r].call = "notified"]
      /\ UNCHANGED <<wikis, sess, coverage, failed>>
      /\ Coord!Trigger(o, AppendMode) /\ AppendMode \in RebuildMode
  BY DEF NotifyRaw, Coord!notify_append, history, Base, Types, RawShape, RebuildMode
<1>2. Marks(o, AppendMode) \/ \E w \in Workers : Starts(o, w, AppendMode)
  BY <1>1, TriggerOneWorker
<1>3. \A q \in Raws : /\ raws'[q].owner = raws[q].owner
                      /\ raws'[q].created_at = raws[q].created_at
                      /\ raws'[q].stored = raws[q].stored
                      /\ q # r => raws'[q] = raws[q]
  BY <1>1 DEF Raw
<1>4. \A q \in Raws : Announced(q)' => Announced(q) \/ raws[q].owner = o
  BY <1>1, <1>3 DEF Announced
<1> HIDE DEF o
<1> QED BY <1>1, <1>2, <1>3, <1>4, WakeTrigger

LEMMA WakeRebuildCall ==
    ASSUME Base, Wake, NEW o \in Owners, NEW mode \in ManualModes, WikiRebuild(o, mode)
    PROVE  Wake'
<1>1. /\ UNCHANGED <<raws, wikis, sess, coverage, failed>>
      /\ Coord!Trigger(o, mode) /\ mode \in RebuildMode
  BY DEF WikiRebuild, Coord!request_manual, tables, history, RebuildMode
<1>2. Marks(o, mode) \/ \E w \in Workers : Starts(o, w, mode)
  BY <1>1, TriggerOneWorker
<1>3. \A r \in Raws : Announced(r)' => Announced(r)
  BY <1>1 DEF Announced
<1> QED BY <1>1, <1>2, <1>3, WakeTrigger

LEMMA WakeDelete == ASSUME Base, Wake, NEW o \in Owners, DeleteAccount(o) PROVE Wake'
<1>1. /\ raws \in [Raws -> Raw] /\ wikis \in [Owners -> [Concepts -> 0..MaxClock]]
      /\ UNCHANGED <<control, sess, coverage, failed>>
      /\ \A r \in Raws : IF raws[r].owner = o THEN ~raws'[r].stored
                                              ELSE raws'[r] = raws[r]
      /\ \A p \in Owners \ {o} : wikis'[p] = wikis[p]
  BY DEF DeleteAccount, history, Base, Types, Raw
<1>2. AnnouncedKept
  <2> SUFFICES ASSUME NEW r \in Raws, Announced(r)'
               PROVE  Announced(r) /\ raws'[r] = raws[r]
    BY DEF AnnouncedKept
  <2>1. raws[r].owner # o /\ raws'[r] = raws[r]
    BY <1>1 DEF Announced
  <2>2. raws[r].owner \in Owners
    BY <2>1, StoredFact DEF Announced
  <2>3. wikis'[raws[r].owner] = wikis[raws[r].owner]
    BY <1>1, <2>1, <2>2
  <2> QED BY <2>1, <2>3 DEF Announced
<1>3. CoverKept
  BY <1>1 DEF CoverKept
<1> QED BY <1>1, <1>2, <1>3, WakeAround

\* A restart drops every mark, and is known to have broken every session.
LEMMA WakeRestart == ASSUME Base, Restart PROVE Wake'
<1>1. /\ \A w \in Workers : sess'[w].pc = "start"
      /\ \A o \in Owners : failed'[o]
  BY NewSessionType DEF Restart
<1>2. Base' /\ Empty'
  BY RestartBase
<1>3. Listing'
  BY <1>1 DEF Listing
<1>4. Awake'
  <2> SUFFICES ASSUME NEW r \in Raws, Announced(r)' PROVE failed'[raws'[r].owner]
    BY DEF Awake
  <2>1. raws'[r].owner \in Owners
    BY <1>2 DEF Announced, Base, RawShape
  <2> QED BY <1>1, <2>1
<1>5. Flags'
  BY <1>1, <1>2 DEF Flags, Empty
<1> QED BY <1>3, <1>4, <1>5 DEF Wake

LEMMA WakeStep == Base /\ NothingNewer /\ Wake /\ [Next]_vars => Wake'
<1> SUFFICES ASSUME Base, NothingNewer, Wake, [Next]_vars PROVE Wake'
  OBVIOUS
<1>1. CASE CallStep
  BY <1>1, WakeCall, WakeNotify, WakeRebuildCall, WakeDelete DEF CallStep
<1>2. ASSUME NEW w \in Workers, WorkerStep(w) PROVE Wake'
  BY <1>2, WakeBegin, WakeRead, WakeDrain, WakeExtract, WakeManual, WakeConcept,
     WakeEndIteration, WakeCap, WakeBreak, WakeOuterExit
     DEF WorkerStep
<1>3. CASE Tick
  BY <1>3, TablesKept, WakeAround DEF Tick, tables, history
<1>4. CASE Restart
  BY <1>4, WakeRestart
<1>5. CASE UNCHANGED vars
  <2>1. UNCHANGED <<control, raws, wikis, coverage, sess, failed>>
    BY <1>5 DEF vars, control
  <2> QED BY <2>1, TablesKept, WakeAround
<1> QED BY <1>1, <1>2, <1>3, <1>4, <1>5 DEF Next

LEMMA WakeInit == Init => Wake
<1> SUFFICES ASSUME Init PROVE Wake
  OBVIOUS
<1>1. /\ \A w \in Workers : sess[w].pc = "start" /\ task[w].phase = "free"
      /\ \A r \in Raws : ~raws[r].stored
      /\ \A o \in Owners : ~state[o].append_missed
  BY NewSessionType, CoordInit DEF Init, NoRaw, Empty, DefaultState
<1> QED BY <1>1 DEF Wake, Listing, Awake, Flags, Announced

\* An announced raw above the watermark of an idle owner has been through an
\* extraction, unless a session of its owner broke since (NoLostWakeup): one
\* that no extraction has had is owed, or listed by a session that drains.
THEOREM NotificationsKept == Spec => []NoLostWakeup
<1>1. Base /\ Wake => NoLostWakeup
  <2> SUFFICES ASSUME Base, Wake, NEW r \in Raws,
                      raws[r].stored, raws[r].call = "notified",
                      ~state[raws[r].owner].running, ~failed[raws[r].owner],
                      raws[r].created_at > max_last_rebuilt_at(raws[r].owner),
                      "append" \notin coverage[r]
               PROVE  FALSE
    BY DEF NoLostWakeup
  <2>1. Announced(r) /\ raws[r].owner \in Owners
    BY StoredFact, WatermarkIs DEF Announced
  <2>2. ~state[raws[r].owner].append_missed
    BY <2>1 DEF Wake, Flags
  <2>3. PICK w \in Workers : task[w].owner = raws[r].owner /\ Drains(w)
    BY <2>1, <2>2 DEF Wake, Awake
  <2> QED BY <2>3, DrainsFact
<1>2. Init => Base /\ NothingNewer /\ Wake
  BY InitBase, NewerInit, WakeInit
<1>3. Base /\ NothingNewer /\ Wake /\ [Next]_vars => (Base /\ NothingNewer /\ Wake)'
  BY NextBase, NewerStep, WakeStep
<1> QED BY <1>1, <1>2, <1>3, PTL DEF Spec

-----------------------------------------------------------------------------
(* No account grows past its limit                                         *)

\* Of the names that the model returned, however many, no more new concepts
\* are taken than the limit leaves room for.
LEMMA TakenFew ==
    ASSUME NEW n \in Nat, NEW nc \in [1..n -> Names], NEW count \in Nat
    PROVE  WithinRoom(TakenNew(nc, count), Remaining(count))
<1> DEFINE R == Remaining(count)
           V == {j \in 1..n : is_valid(nc[j]) /\ Cardinality(ValidUpTo(nc, j)) <= R}
           f == [j \in V |-> Cardinality(ValidUpTo(nc, j))]
           g == [j \in V |-> nc[j]]
<1>1. R \in Nat
  BY RebuildAssumption DEF Remaining
<1>2. ASSUME NEW j \in 1..n
      PROVE  IsFiniteSet(ValidUpTo(nc, j)) /\ Cardinality(ValidUpTo(nc, j)) \in Nat
  <2>1. IsFiniteSet(1..j) /\ ValidUpTo(nc, j) \in SUBSET (1..j)
    BY FS_Interval DEF ValidUpTo
  <2>2. IsFiniteSet(ValidUpTo(nc, j))
    BY <2>1, FS_Subset
  <2> QED BY <2>2, FS_CardinalityType
<1>3. ASSUME NEW i \in V, NEW j \in V, i < j
      PROVE  Cardinality(ValidUpTo(nc, i)) < Cardinality(ValidUpTo(nc, j))
  <2>1. ValidUpTo(nc, i) \subseteq ValidUpTo(nc, j)
    BY <1>3 DEF ValidUpTo
  <2>2. j \in ValidUpTo(nc, j) /\ j \notin ValidUpTo(nc, i)
    BY <1>3 DEF ValidUpTo
  <2>3. /\ IsFiniteSet(ValidUpTo(nc, j))
        /\ Cardinality(ValidUpTo(nc, i)) \in Nat /\ Cardinality(ValidUpTo(nc, j)) \in Nat
    BY <1>2
  <2>4. /\ Cardinality(ValidUpTo(nc, i)) <= Cardinality(ValidUpTo(nc, j))
        /\ Cardinality(ValidUpTo(nc, i)) # Cardinality(ValidUpTo(nc, j))
    BY <2>1, <2>2, <2>3, FS_Subset
  <2> QED BY <2>3, <2>4
<1>4. f \in Injection(V, 1..R)
  <2>1. ASSUME NEW j \in V PROVE f[j] \in 1..R
    <3>1. IsFiniteSet(ValidUpTo(nc, j)) /\ j \in ValidUpTo(nc, j)
      BY <1>2 DEF ValidUpTo
    <3>2. Cardinality(ValidUpTo(nc, j)) # 0
      BY <3>1, FS_EmptySet
    <3> QED BY <1>1, <1>2, <3>2
  <2>2. ASSUME NEW i \in V, NEW j \in V, f[i] = f[j] PROVE i = j
    <3>1. i \in Nat /\ j \in Nat /\ f[i] \in Nat /\ f[j] \in Nat
      BY <1>1, <2>1
    <3>2. f[i] = Cardinality(ValidUpTo(nc, i)) /\ f[j] = Cardinality(ValidUpTo(nc, j))
      OBVIOUS
    <3>3. ~(i < j) /\ ~(j < i)
      BY <1>3, <2>2, <3>1, <3>2
    <3> QED BY <3>1, <3>3
  <2>3. f \in [V -> 1..R]
    <3>1. f = [j \in V |-> f[j]]
      OBVIOUS
    <3> HIDE DEF f, V
    <3> QED BY <2>1, <3>1
  <2> HIDE DEF f, V
  <2> QED BY <2>2, <2>3 DEF Injection, IsInjective
<1>5. IsFiniteSet(V) /\ Cardinality(V) <= R
  <2> HIDE DEF f, V, R
  <2>1. IsFiniteSet(1..R) /\ Cardinality(1..R) = R
    <3>1. 1 \in Int /\ R \in Int
      BY <1>1
    <3>2. IsFiniteSet(1..R) /\ Cardinality(1..R) = IF 1 > R THEN 0 ELSE R - 1 + 1
      BY <3>1, FS_Interval
    <3> QED BY <1>1, <3>2
  <2> QED BY <1>4, <2>1, FS_Injection
<1>6. TakenNew(nc, count) = {nc[j] : j \in V}
  BY DEF TakenNew
<1>7. g \in Surjection(V, {nc[j] : j \in V})
  <2> HIDE DEF V
  <2> QED BY DEF Surjection
<1>8. /\ IsFiniteSet(TakenNew(nc, count))
      /\ Cardinality(TakenNew(nc, count)) <= Cardinality(V)
  <2> HIDE DEF g, V
  <2> QED BY <1>5, <1>6, <1>7, FS_Surjection
<1>9. Cardinality(V) \in Nat /\ Cardinality(TakenNew(nc, count)) \in Nat
  BY <1>5, <1>8, FS_CardinalityType
<1> HIDE DEF V, R
<1>10. Cardinality(TakenNew(nc, count)) <= R
  BY <1>1, <1>5, <1>8, <1>9
<1> QED BY <1>8, <1>10 DEF R, WithinRoom

LEMMA RoomFact ==
    ASSUME NEW S, IsFiniteSet(S), Cardinality(S) <= ConceptLimit,
           NEW T, WithinRoom(T, Remaining(Cardinality(S)))
    PROVE  WithinLimit(S \cup T)
<1>1. /\ Cardinality(S) \in Nat /\ Cardinality(T) \in Nat /\ ConceptLimit \in Nat
      /\ IsFiniteSet(T)
  BY FS_CardinalityType, RebuildAssumption DEF WithinRoom
<1>2. IsFiniteSet(S \cup T) /\ IsFiniteSet(S \cap T)
  BY <1>1, FS_Union, FS_Intersection
<1>3. Cardinality(S \cup T) = Cardinality(S) + Cardinality(T) - Cardinality(S \cap T)
  BY <1>1, FS_Union
<1>4. Cardinality(S \cap T) \in Nat /\ Cardinality(S \cup T) \in Nat
  BY <1>2, FS_CardinalityType
<1>5. Cardinality(T) <= ConceptLimit - Cardinality(S)
  BY <1>1 DEF Remaining, WithinRoom
<1> QED BY <1>1, <1>2, <1>3, <1>4, <1>5 DEF WithinLimit, WithinRoom

\* A part of what keeps within the limit does too.
LEMMA PartFact ==
    ASSUME NEW S, WithinLimit(S), NEW T \in SUBSET S
    PROVE  WithinLimit(T)
<1>1. /\ IsFiniteSet(T) /\ Cardinality(T) <= Cardinality(S)
      /\ IsFiniteSet(S) /\ Cardinality(S) <= ConceptLimit
  BY FS_Subset DEF WithinLimit, WithinRoom
<1>2. Cardinality(T) \in Nat /\ Cardinality(S) \in Nat /\ ConceptLimit \in Nat
  BY <1>1, FS_CardinalityType, RebuildAssumption
<1> QED BY <1>1, <1>2 DEF WithinLimit, WithinRoom

\* Writing a wiki for every affected concept keeps an account within the limit,
\* however many names the model returns, malformed, repeated or known already
\* (the take of valid_new in run_session).
THEOREM AffectedFits ==
    ASSUME NEW existing, WithinLimit(existing),
           NEW ae, NEW n \in Nat, NEW nc \in [1..n -> Names]
    PROVE  WithinLimit(existing \cup Affected(existing, Cardinality(existing), ae, nc))
<1> DEFINE taken == TakenNew(nc, Cardinality(existing))
<1>1. /\ IsFiniteSet(existing) /\ Cardinality(existing) <= ConceptLimit
      /\ Cardinality(existing) \in Nat
  BY FS_CardinalityType DEF WithinLimit, WithinRoom
<1>2. WithinLimit(existing \cup taken)
  BY <1>1, TakenFew, RoomFact
<1>3. existing \cup Affected(existing, Cardinality(existing), ae, nc) = existing \cup taken
  BY DEF Affected
<1> QED BY <1>2, <1>3

\* What an iteration reads, decides and writes counts; the rest does not.
LEMMA LimitsAround ==
    ASSUME Base, Limits, Outside
    PROVE  Limits'
BY DEF Outside, Limits, list_concepts

\* A session that ends writes nothing.
LEMMA LimitsLeaves ==
    ASSUME Base, Limits, NEW w \in Workers, Leaves(w)
    PROVE  Limits'
<1>1. /\ \A o : list_concepts(o)' = list_concepts(o)
      /\ UNCHANGED deleted
      /\ sess'[w].pc = "start"
      /\ \A v \in Workers \ {w} : sess'[v] = sess[v] /\ task'[v] = task[v]
  BY NewSessionType DEF Leaves, list_concepts
<1> QED BY <1>1 DEF Limits

\* A session goes on without writing.
LEMMA LimitsGoesOn ==
    ASSUME Base, Limits, NEW w \in Workers, UNCHANGED <<control, wikis, deleted>>,
           \A v \in Workers \ {w} : sess'[v] = sess[v],
           ~deleted[task[w].owner] =>
              /\ sess'[w].pc = "decide" => sess'[w].existing = list_concepts(task[w].owner)
              /\ sess'[w].pc = "synth" =>
                    WithinLimit(list_concepts(task[w].owner) \cup sess'[w].todo)
    PROVE  Limits'
<1>1. \A o : list_concepts(o)' = list_concepts(o)
  BY DEF list_concepts
<1>2. UNCHANGED task
  BY DEF control
<1> SUFFICES ASSUME NEW v \in Workers, sess'[v].pc # "start", ~deleted[task[v].owner]
             PROVE  /\ sess'[v].pc = "decide" => sess'[v].existing = list_concepts(task[v].owner)
                    /\ sess'[v].pc = "synth" =>
                          WithinLimit(list_concepts(task[v].owner) \cup sess'[v].todo)
  BY <1>1, <1>2 DEF Limits
<1>3. CASE v = w
  BY <1>3
<1>4. CASE v # w
  <2>1. sess'[v] = sess[v]
    BY <1>4
  <2> QED BY <2>1 DEF Limits
<1> QED BY <1>3, <1>4

\* A concept list that an iteration has read is still the owner's.
LEMMA DecideFact ==
    ASSUME Base, Limits, NEW w \in Workers, At(w, "decide"), ~deleted[task[w].owner]
    PROVE  /\ WithinLimit(sess[w].existing)
           /\ sess[w].existing = list_concepts(task[w].owner)
           /\ count_concepts(task[w].owner) = Cardinality(sess[w].existing)
<1>1. task[w].owner \in Owners /\ sess[w].pc = "decide"
  BY AtFacts
<1>2. sess[w].existing = list_concepts(task[w].owner)
  BY <1>1 DEF Limits
<1> QED BY <1>1, <1>2 DEF Limits, count_concepts

\* What an iteration decides to synthesize fits.
LEMMA LimitsDecide ==
    ASSUME Base, Limits, NEW w \in Workers, NEW affected,
           UNCHANGED <<control, wikis, deleted>>,
           ~deleted[task[w].owner] =>
              WithinLimit(list_concepts(task[w].owner) \cup affected),
           sess' = [sess EXCEPT ![w].pc = "synth", ![w].todo = affected]
    PROVE  Limits'
<1>1. /\ \A v \in Workers \ {w} : sess'[v] = sess[v]
      /\ sess'[w].pc = "synth" /\ sess'[w].todo = affected
  BY DEF Base, Types, Session
<1> QED BY <1>1, LimitsGoesOn

LEMMA LimitsExtract ==
    ASSUME Base, Limits, NEW w \in Workers, Extract(w)
    PROVE  Limits'
<1> DEFINE o == task[w].owner
<1>1. At(w, "decide") /\ UNCHANGED <<clock, raws, wikis, deleted>>
  BY DEF Extract, tables
<1>2. PICK ae \in SUBSET Names, nc \in NameLists :
         LET affected == Affected(sess[w].existing, count_concepts(o), ae, nc)
         IN  \/ /\ affected = {} /\ EndSession(w) /\ (Continues(w) \/ Stops(w))
             \/ /\ affected # {} /\ UNCHANGED control
                /\ sess' = [sess EXCEPT ![w].pc = "synth", ![w].todo = affected]
  BY ExtractBase
<1> DEFINE affected == Affected(sess[w].existing, count_concepts(o), ae, nc)
<1>3. CASE EndSession(w) /\ (Continues(w) \/ Stops(w))
  BY <1>1, <1>3, LeavesFact, LimitsLeaves
<1>4. ~deleted[o] => WithinLimit(list_concepts(o) \cup affected)
  <2>1. PICK n \in 0..2 : nc \in [1..n -> Names]
    BY DEF NameLists
  <2>2. n \in Nat
    BY <2>1
  <2>3. ASSUME ~deleted[o]
        PROVE  /\ WithinLimit(sess[w].existing)
               /\ sess[w].existing = list_concepts(o)
               /\ count_concepts(o) = Cardinality(sess[w].existing)
    BY <1>1, <2>3, DecideFact
  <2> QED BY <2>1, <2>2, <2>3, AffectedFits
<1>5. CASE UNCHANGED control /\ sess' = [sess EXCEPT ![w].pc = "synth", ![w].todo = affected]
  <2> HIDE DEF affected
  <2> QED BY <1>1, <1>4, <1>5, LimitsDecide
<1> QED BY <1>2, <1>3, <1>5

\* A manual rebuild of a new concept finds room for it first.
LEMMA LimitsManual ==
    ASSUME Base, Limits, NEW w \in Workers, RebuildManual(w)
    PROVE  Limits'
<1> DEFINE o == task[w].owner
           affected == IF task[w].mode = FullRebuild THEN sess[w].existing
                                                     ELSE {task[w].mode}
<1>1. /\ At(w, "decide") /\ Mode(w) # AppendMode /\ ~OverBudget(w)
      /\ UNCHANGED <<clock, raws, wikis, deleted>>
  BY DEF RebuildManual, tables
<1>2. CASE EndSession(w) /\ (Continues(w) \/ Stops(w))
  BY <1>1, <1>2, LeavesFact, LimitsLeaves
<1>3. ~deleted[o] => WithinLimit(list_concepts(o) \cup affected)
  <2> SUFFICES ASSUME ~deleted[o] PROVE WithinLimit(sess[w].existing \cup affected)
    BY <1>1, DecideFact
  <2>1. /\ WithinLimit(sess[w].existing)
        /\ count_concepts(o) = Cardinality(sess[w].existing)
    BY <1>1, DecideFact
  <2>2. CASE affected \subseteq sess[w].existing
    <3>1. sess[w].existing \cup affected = sess[w].existing
      BY <2>2
    <3> QED BY <2>1, <3>1
  <2>3. CASE task[w].mode # FullRebuild /\ task[w].mode \notin sess[w].existing
    <3>1. task[w].mode \in Concepts
      BY <1>1, <2>3, AtFacts DEF Mode, RebuildMode, ManualModes
    <3>2. ~(Cardinality(sess[w].existing) >= ConceptLimit)
      BY <1>1, <2>1, <2>3, <3>1 DEF OverBudget
    <3>3. /\ IsFiniteSet(sess[w].existing) /\ Cardinality(sess[w].existing) \in Nat
          /\ ConceptLimit \in Nat
      BY <2>1, FS_CardinalityType, RebuildAssumption DEF WithinLimit, WithinRoom
    <3>4. /\ IsFiniteSet(sess[w].existing \cup {task[w].mode})
          /\ Cardinality(sess[w].existing \cup {task[w].mode})
                = Cardinality(sess[w].existing) + 1
      BY <2>3, <3>3, FS_AddElement
    <3>5. Cardinality(sess[w].existing) + 1 <= ConceptLimit
      BY <3>2, <3>3
    <3> QED BY <2>3, <3>4, <3>5 DEF WithinLimit, WithinRoom
  <2> QED BY <2>2, <2>3
<1>4. CASE UNCHANGED control /\ sess' = [sess EXCEPT ![w].pc = "synth", ![w].todo = affected]
  <2> HIDE DEF affected
  <2> QED BY <1>1, <1>3, <1>4, LimitsDecide
<1> QED BY <1>2, <1>4, ManualIterationBase

\* A concept is written, or left: it was counted when it was decided upon.
LEMMA LimitsConcept ==
    ASSUME Base, Limits, NEW w \in Workers, NEW c \in Concepts,
           SynthesizeOne(w, c) \/ SynthesizeFails(w, c)
    PROVE  Limits'
<1> DEFINE o == task[w].owner
           After(p) == {d \in Concepts : wikis'[p][d] # 0}
<1>1. /\ At(w, "synth") /\ sess \in [Workers -> Session] /\ c \in sess[w].todo
      /\ wikis \in [Owners -> [Concepts -> 0..MaxClock]]
      /\ UNCHANGED <<control, deleted>>
      /\ sess' = [sess EXCEPT ![w].todo = sess[w].todo \ {c}]
      /\ wikis' = wikis \/ wikis' = [wikis EXCEPT ![o][c] = sess[w].started_at]
  BY DEF SynthesizeOne, SynthesizeFails, RebuiltAt, tables, history, Base, Types
<1>2. /\ o \in Owners /\ sess[w].pc = "synth"
      /\ sess'[w].pc = "synth" /\ sess'[w].todo \subseteq sess[w].todo
      /\ \A v \in Workers \ {w} : sess'[v] = sess[v]
  BY <1>1, AtFacts DEF Session
<1>3. /\ After(o) \subseteq list_concepts(o) \cup sess[w].todo
      /\ \A p \in Owners \ {o} : After(p) = list_concepts(p)
  BY <1>1, <1>2 DEF list_concepts
<1>4. ~deleted[o] => WithinLimit(list_concepts(o) \cup sess[w].todo)
  BY <1>2 DEF Limits
<1>5. ~deleted[o] => /\ WithinLimit(After(o))
                     /\ WithinLimit(After(o) \cup sess'[w].todo)
  <2>1. /\ After(o) \in SUBSET (list_concepts(o) \cup sess[w].todo)
        /\ After(o) \cup sess'[w].todo \in SUBSET (list_concepts(o) \cup sess[w].todo)
    BY <1>2, <1>3
  <2> QED BY <1>4, <2>1, PartFact
<1>6. \A p \in Owners : ~deleted[p] => WithinLimit(After(p))
  <2> SUFFICES ASSUME NEW p \in Owners, ~deleted[p] PROVE WithinLimit(After(p))
    OBVIOUS
  <2>1. CASE p = o
    BY <1>5, <2>1
  <2>2. CASE p # o
    <3>1. After(p) = list_concepts(p)
      BY <1>3, <2>2
    <3> HIDE DEF After
    <3> QED BY <3>1 DEF Limits
  <2> QED BY <2>1, <2>2
<1>7. ASSUME NEW v \in Workers, sess'[v].pc # "start", ~deleted[task[v].owner]
      PROVE  /\ sess'[v].pc = "decide" => sess'[v].existing = After(task[v].owner)
             /\ sess'[v].pc = "synth" =>
                   WithinLimit(After(task[v].owner) \cup sess'[v].todo)
  <2>1. CASE v = w
    BY <1>1, <1>2, <1>5, <1>7, <2>1 DEF control
  <2>2. CASE v # w
    <3>1. /\ sess'[v] = sess[v] /\ task[v].owner \in Owners
      BY <1>2, <1>7, <2>2, NewSessionType DEF Base, SessShape, OneWorker, Works
    <3>2. task[v].owner # o
      BY <1>2, <1>7, <2>2, <3>1, OnlySession
    <3>3. After(task[v].owner) = list_concepts(task[v].owner)
      BY <1>3, <3>1, <3>2
    <3> HIDE DEF After
    <3> QED BY <1>7, <3>1, <3>3 DEF Limits
  <2> QED BY <2>1, <2>2
<1>8. UNCHANGED task /\ UNCHANGED deleted
  BY <1>1 DEF control
<1> HIDE DEF o
<1> QED BY <1>6, <1>7, <1>8 DEF Limits, list_concepts

LEMMA LimitsRestart ==
    ASSUME Base, Limits, Restart
    PROVE  Limits'
BY NewSessionType DEF Restart, Limits, list_concepts

\* A deleted account has no limit to keep.
LEMMA LimitsDelete ==
    ASSUME Base, Limits, NEW o \in Owners, DeleteAccount(o)
    PROVE  Limits'
<1>1. /\ UNCHANGED <<control, sess>> /\ deleted \in [Owners -> BOOLEAN]
      /\ wikis \in [Owners -> [Concepts -> 0..MaxClock]]
      /\ deleted' = [deleted EXCEPT ![o] = TRUE]
      /\ \A p \in Owners \ {o} : wikis'[p] = wikis[p]
  BY DEF DeleteAccount, Base, Types
<1>2. deleted'[o] /\ \A p \in Owners : ~deleted'[p] => p # o /\ ~deleted[p]
  BY <1>1
<1>3. \A w \in Workers : sess[w].pc # "start" => task[w].owner \in Owners
  BY NewSessionType DEF Base, SessShape, OneWorker, Works
<1>4. \A p \in Owners \ {o} : list_concepts(p)' = list_concepts(p)
  BY <1>1 DEF list_concepts
<1>5. UNCHANGED task
  BY <1>1 DEF control
<1>6. \A p \in Owners : ~deleted'[p] => WithinLimit(list_concepts(p)')
  <2> SUFFICES ASSUME NEW p \in Owners, ~deleted'[p] PROVE WithinLimit(list_concepts(p)')
    OBVIOUS
  <2>1. p # o /\ ~deleted[p]
    BY <1>2
  <2>2. list_concepts(p)' = list_concepts(p)
    BY <1>4, <2>1
  <2> QED BY <2>1, <2>2 DEF Limits
<1>7. ASSUME NEW w \in Workers, sess[w].pc # "start", ~deleted'[task[w].owner]
      PROVE  /\ list_concepts(task[w].owner)' = list_concepts(task[w].owner)
             /\ sess[w].pc = "decide" => sess[w].existing = list_concepts(task[w].owner)
             /\ sess[w].pc = "synth" =>
                   WithinLimit(list_concepts(task[w].owner) \cup sess[w].todo)
  <2>1. task[w].owner \in Owners \ {o} /\ ~deleted[task[w].owner]
    BY <1>2, <1>3, <1>7
  <2>2. list_concepts(task[w].owner)' = list_concepts(task[w].owner)
    BY <1>4, <1>5, <2>1 DEF list_concepts
  <2> QED BY <1>7, <2>1, <2>2 DEF Limits
<1> QED BY <1>1, <1>5, <1>6, <1>7 DEF Limits

LEMMA LimitsStep == Base /\ Limits /\ [Next]_vars => Limits'
<1> SUFFICES ASSUME Base, Limits, [Next]_vars PROVE Limits'
  OBVIOUS
<1>1. ASSUME NEW w \in Workers, WorkerStep(w) PROVE Limits'
  <2> USE DEF tables, history
  <2>1. CASE BeginIteration(w)
    <3>1. /\ UNCHANGED <<control, wikis, deleted>>
          /\ \A v \in Workers \ {w} : sess'[v] = sess[v]
          /\ sess'[w].pc = "read"
      BY <2>1 DEF BeginIteration, Base, Types, Session
    <3> QED BY <3>1, LimitsGoesOn
  <2>2. CASE ReadTables(w)
    <3>1. /\ UNCHANGED <<control, wikis, deleted>>
          /\ \A v \in Workers \ {w} : sess'[v] = sess[v]
          /\ sess'[w].pc = "decide" /\ sess'[w].existing = list_concepts(task[w].owner)
      BY <2>2 DEF ReadTables, Base, Types, Session
    <3> QED BY <3>1, LimitsGoesOn
  <2>3. CASE DrainComplete(w) \/ CapSession(w) \/ \E how \in {"err", "panic"} : BreakSession(w, how)
    <3>1. Leaves(w)
      BY <2>3, DrainBase, CapBase, BreakBase, LeavesFact
         DEF DrainComplete, CapSession, BreakSession
    <3> QED BY <3>1, LimitsLeaves
  <2>4. CASE RejectManual(w)
    <3>1. UNCHANGED <<clock, raws, wikis, deleted>>
      BY <2>4 DEF RejectManual
    <3>2. CASE EndSession(w) /\ (Continues(w) \/ Stops(w))
      BY <3>1, <3>2, LeavesFact, LimitsLeaves
    <3>3. CASE UNCHANGED control /\ sess' = [sess EXCEPT ![w].pc = "start"]
      <4>1. sess'[w].pc = "start" /\ \A v \in Workers \ {w} : sess'[v] = sess[v]
        BY <3>3 DEF Base, Types, Session
      <4> QED BY <3>1, <3>3, <4>1, LimitsGoesOn
    <3> QED BY <2>4, <3>2, <3>3, RejectBase
  <2>5. CASE EndIteration(w)
    <3>1. /\ UNCHANGED <<control, wikis, deleted>>
          /\ \A v \in Workers \ {w} : sess'[v] = sess[v]
          /\ sess'[w].pc \in {"start", "capped"}
      BY <2>5 DEF EndIteration, Base, Types, Session
    <3> QED BY <3>1, LimitsGoesOn
  <2>6. CASE OuterExit(w)
    BY <2>6, OutsideFact, LimitsAround DEF OutsideStep
  <2> QED BY <1>1, <2>1, <2>2, <2>3, <2>4, <2>5, <2>6, LimitsExtract, LimitsManual,
             LimitsConcept
          DEF WorkerStep
<1>2. CASE CallStep \/ Tick
  <2>1. OutsideStep \/ \E o \in Owners : DeleteAccount(o)
    BY <1>2 DEF CallStep, OutsideStep
  <2> QED BY <2>1, OutsideFact, LimitsAround, LimitsDelete
<1>3. CASE Restart
  BY <1>3, LimitsRestart
<1>4. CASE UNCHANGED vars
  BY <1>4 DEF vars, Limits, list_concepts
<1> QED BY <1>1, <1>2, <1>3, <1>4 DEF Next

LEMMA LimitsInit == Init => Limits
<1> SUFFICES ASSUME Init PROVE Limits
  OBVIOUS
<1>1. \A o \in Owners : list_concepts(o) = {}
  BY DEF Init, list_concepts
<1>2. WithinLimit({})
  <2>1. IsFiniteSet({}) /\ Cardinality({}) = 0 /\ ConceptLimit \in Nat
    BY FS_EmptySet, RebuildAssumption
  <2> QED BY <2>1 DEF WithinLimit, WithinRoom
<1>3. \A w \in Workers : sess[w].pc = "start"
  BY NewSessionType DEF Init
<1> QED BY <1>1, <1>2, <1>3 DEF Limits

\* No account has more wikis than CONCEPT_LIMIT_PER_OWNER (WithinConceptLimit):
\* nothing writes the owner's wikis between the reads of an iteration and its
\* last upsert, so what is counted after the extraction is what was listed.
THEOREM LimitKept == Spec => []WithinConceptLimit
<1>1. Limits => WithinConceptLimit
  BY DEF Limits, WithinConceptLimit, count_concepts, WithinLimit, WithinRoom
<1>2. Init => Base /\ Limits
  BY InitBase, LimitsInit
<1>3. Base /\ Limits /\ [Next]_vars => (Base /\ Limits)'
  BY NextBase, LimitsStep
<1> QED BY <1>1, <1>2, <1>3, PTL DEF Spec
=============================================================================
