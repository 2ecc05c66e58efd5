-------------------------- MODULE CoordinatorProofs --------------------------
(***************************************************************************)
(* For every set of owners, concepts and task slots: the coordinator keeps *)
(* its types, runs at most one worker per owner and keeps the running flag *)
(* up exactly while a worker holds the slot.                               *)
(*                                                                         *)
(* OneWorkerPerOwner is not inductive alone: a request spawns a worker when*)
(* the flag is down, so the flag must tell whether a worker is there       *)
(* (SlotHeldByWorker), and an exit writes to the state of the task's owner,*)
(* so a task that is not free must have one (TasksHaveOwners).             *)
(*                                                                         *)
(* The second half proves that the coordinator implements SingleFlight.    *)
(* The session that SingleFlight serves is that of the task holding the    *)
(* owner's slot; OneWorkerPerOwner makes that task the only candidate, so  *)
(* that the CHOOSE of the mapping picks it, and SlotHeldByWorker tells     *)
(* from the running flag whether there is one.  Every action rewrites the  *)
(* state of one owner and one task slot: lemma SlotView says what          *)
(* SingleFlight sees of such a step, and one lemma per action names the    *)
(* SingleFlight step that it is.                                           *)
(***************************************************************************)
EXTENDS Coordinator, TLAPS

TasksHaveOwners ==
    \A w \in Workers : task[w].phase # "free" =>
        task[w].owner \in Owners /\ task[w].mode \in RebuildMode

IInv == TypeOK /\ TasksHaveOwners /\ OneWorkerPerOwner /\ SlotHeldByWorker

-----------------------------------------------------------------------------
(* The operations of the state map                                         *)

\* try_start keeps the type of the owner's state and always leaves the running
\* flag up: it was, or the slot is claimed.
LEMMA TryStartResult ==
    ASSUME NEW st \in RebuildState, NEW mode \in RebuildMode
    PROVE  /\ try_start(st, mode) \in RebuildState
           /\ try_start(st, mode).running
           /\ StartingMode(st, mode) \in RebuildMode
  BY ModeAssumption DEF RebuildState, RebuildMode, ManualModes, try_start, MarkBusy,
        ClaimIdle, QueuesBehindAppend, StartingMode, merge_pending

\* mark_idle_or_continue lowers the flag exactly when it returns no mode.
LEMMA MarkIdleResult ==
    ASSUME NEW st \in RebuildState
    PROVE  /\ mark_idle_or_continue(st) \in RebuildState
           /\ ContinueMode(st) \in RebuildMode \cup {None}
           /\ ContinueMode(st) = None => ~mark_idle_or_continue(st).running
           /\ ContinueMode(st) # None =>
                 mark_idle_or_continue(st).running = st.running
  BY ModeAssumption DEF RebuildState, RebuildMode, ManualModes,
        mark_idle_or_continue, ContinueMode

\* The outer task lowers the flag unless its worker ended normally.
LEMMA AfterJoinResult ==
    ASSUME NEW st \in RebuildState, NEW phase \in {"ok", "err", "panic"}
    PROVE  /\ AfterJoin(phase, st) \in RebuildState
           /\ phase = "ok" => AfterJoin(phase, st) = st
           /\ phase # "ok" => ~AfterJoin(phase, st).running
  BY DEF RebuildState, AfterJoin, release_running_preserve_pending, force_idle,
        DefaultState

\* What TaskOf builds is a task with the given fields.
LEMMA TaskOfType ==
    ASSUME NEW phase \in Phase, NEW o \in Owners \cup {None},
           NEW mode \in RebuildMode \cup {None},
           NEW caps \in 0..MaxConsecutiveCaps, NEW used \in BOOLEAN
    PROVE  /\ TaskOf(phase, o, mode, caps, used) \in Task
           /\ TaskOf(phase, o, mode, caps, used).phase = phase
           /\ TaskOf(phase, o, mode, caps, used).owner = o
           /\ TaskOf(phase, o, mode, caps, used).mode = mode
  BY DEF Task, TaskOf

\* A free slot is a task.
LEMMA NoTaskType == NoTask \in Task /\ NoTask.phase = "free"
  <1>1. 0 \in 0..MaxConsecutiveCaps
    BY CapsAssumption
  <1> QED
    BY <1>1 DEF NoTask, Task, TaskOf, Phase

-----------------------------------------------------------------------------

\* The initial state satisfies the inductive invariant.
LEMMA InitIInv == Init => IInv
  <1> SUFFICES ASSUME Init PROVE IInv
    OBVIOUS
  <1>1. DefaultState \in RebuildState
    BY DEF DefaultState, RebuildState
  <1>2. TypeOK
    BY <1>1, NoTaskType DEF Init, TypeOK
  <1>3. \A w \in Workers : task[w].phase = "free"
    BY NoTaskType DEF Init
  <1>4. \A o \in Owners : Holders(o) = {} /\ ~state[o].running
    BY <1>3 DEF Holders, Holds, Init, DefaultState
  <1> QED
    BY <1>2, <1>3, <1>4 DEF IInv, TasksHaveOwners, OneWorkerPerOwner, SlotHeldByWorker

-----------------------------------------------------------------------------
Holding == {"session", "err", "panic"}

\* A step that rewrites the state of one owner and one of its task slots keeps
\* the invariant when the new flag tells whether a holder is left, and the slot
\* is the only one to hold if it does.
LEMMA SlotUpdate ==
    ASSUME IInv,
           NEW o \in Owners, NEW s \in RebuildState,
           NEW w \in Workers, NEW t \in Task,
           state' = [state EXCEPT ![o] = s],
           task' = [task EXCEPT ![w] = t],
           task[w].phase # "free" => task[w].owner = o,
           t.phase # "free" => t.owner = o /\ t.mode \in RebuildMode,
           t.phase \in Holding => \A v \in Holders(o) : v = w,
           s.running <=> t.phase \in Holding \/ \E v \in Holders(o) : v # w
    PROVE  IInv'
  <1>1. TypeOK'
    BY DEF IInv, TypeOK
  <1>2. TasksHaveOwners'
    BY DEF IInv, TypeOK, TasksHaveOwners
  <1>3. ASSUME NEW p \in Owners, p # o
        PROVE  Holders(p)' = Holders(p) /\ state'[p] = state[p]
    BY <1>3 DEF IInv, TypeOK, Holders, Holds, Holding, Phase, Task
  <1>4. \A v \in Workers : v \in Holders(o)' <=>
            IF v = w THEN t.phase \in Holding ELSE v \in Holders(o)
    BY DEF IInv, TypeOK, Holders, Holds, Holding, Phase, Task
  <1>5. state'[o] = s
    BY DEF IInv, TypeOK
  <1>6. OneWorkerPerOwner'
    <2> SUFFICES ASSUME NEW p \in Owners, NEW u \in Holders(p)', NEW v \in Holders(p)'
                 PROVE  u = v
      BY DEF OneWorkerPerOwner
    <2>1. u \in Workers /\ v \in Workers
      BY DEF Holders
    <2>2. CASE p = o
      BY <1>4, <2>1, <2>2 DEF IInv, OneWorkerPerOwner
    <2>3. CASE p # o
      BY <1>3, <2>3 DEF IInv, OneWorkerPerOwner
    <2> QED
      BY <2>2, <2>3
  <1>7. SlotHeldByWorker'
    <2> SUFFICES ASSUME NEW p \in Owners
                 PROVE  state'[p].running <=> Holders(p)' # {}
      BY DEF SlotHeldByWorker
    <2>1. CASE p = o
      <3>1. Holders(o)' \subseteq Workers /\ Holders(o) \subseteq Workers
        BY DEF Holders
      <3> QED
        BY <1>4, <1>5, <2>1, <3>1
    <2>2. CASE p # o
      BY <1>3, <2>2 DEF IInv, SlotHeldByWorker
    <2> QED
      BY <2>1, <2>2
  <1> QED
    BY <1>1, <1>2, <1>6, <1>7 DEF IInv

-----------------------------------------------------------------------------
(* One lemma per action                                                    *)

\* A request marks the state of a busy owner or gives an idle one a worker.
LEMMA TriggerIInv ==
    ASSUME IInv, NEW o \in Owners, NEW mode \in RebuildMode, Trigger(o, mode)
    PROVE  IInv'
  <1> DEFINE s == try_start(state[o], mode)
  <1>1. state[o] \in RebuildState
    BY DEF IInv, TypeOK
  <1>2. s \in RebuildState /\ s.running
    BY <1>1, TryStartResult
  <1>3. state' = [state EXCEPT ![o] = s]
    BY DEF Trigger
  <1>4. CASE state[o].running
    <2>1. PICK w \in Workers : w \in Holders(o)
      BY <1>4 DEF IInv, SlotHeldByWorker, Holders
    <2>2. task' = [task EXCEPT ![w] = task[w]]
      BY <1>4 DEF Trigger, IInv, TypeOK
    <2>3. task[w] \in Task /\ task[w].owner = o /\ task[w].phase \in Holding
      BY <2>1 DEF IInv, TypeOK, Holders, Holds, Holding
    <2>4. task[w].mode \in RebuildMode
      BY <2>3 DEF IInv, TasksHaveOwners, Holding
    <2>5. \A v \in Holders(o) : v = w
      BY <2>1 DEF IInv, OneWorkerPerOwner
    <2> HIDE DEF s
    <2> QED
      BY <1>2, <1>3, <2>2, <2>3, <2>4, <2>5, SlotUpdate
  <1>5. CASE ~state[o].running
    <2> DEFINE first == StartingMode(state[o], mode)
    <2>1. PICK w \in Workers : spawn_worker(w, o, first)
      BY <1>5 DEF Trigger
    <2> DEFINE t == TaskOf("session", o, first, 0, FALSE)
    <2>2. task[w].phase = "free" /\ task' = [task EXCEPT ![w] = t]
      BY <2>1 DEF spawn_worker
    <2>3. first \in RebuildMode
      BY <1>1, TryStartResult
    <2>4. t \in Task /\ t.phase = "session" /\ t.owner = o /\ t.mode = first
      <3>1. 0 \in 0..MaxConsecutiveCaps /\ "session" \in Phase
        BY CapsAssumption DEF Phase
      <3> HIDE DEF first
      <3> QED
        BY <2>3, <3>1 DEF Task, TaskOf
    <2>5. Holders(o) = {}
      BY <1>5 DEF IInv, SlotHeldByWorker
    <2> HIDE DEF s, t, first
    <2> QED
      BY <1>2, <1>3, <2>2, <2>3, <2>4, <2>5, SlotUpdate DEF Holding
  <1> QED
    BY <1>4, <1>5

\* What is known of a worker inside a session and of its owner.
LEMMA SessionFacts ==
    ASSUME IInv, NEW w \in Workers, InSession(w)
    PROVE  /\ task[w] \in Task
           /\ task[w].owner \in Owners
           /\ task[w].mode \in RebuildMode
           /\ state[task[w].owner] \in RebuildState
           /\ state[task[w].owner].running
           /\ \A v \in Holders(task[w].owner) : v = w
  <1>1. task[w] \in Task /\ task[w].owner \in Owners /\ task[w].mode \in RebuildMode
    BY DEF IInv, TypeOK, TasksHaveOwners, InSession
  <1>2. w \in Holders(task[w].owner)
    BY DEF Holders, Holds, InSession
  <1> QED
    BY <1>1, <1>2 DEF IInv, TypeOK, OneWorkerPerOwner, SlotHeldByWorker

\* A worker that goes on holds the slot, whatever it does to its state but
\* lowering the flag.
LEMMA NextSessionIInv ==
    ASSUME IInv, NEW w \in Workers, InSession(w),
           NEW mode \in RebuildMode, NEW caps \in 0..MaxConsecutiveCaps,
           NEW used \in BOOLEAN, NextSession(w, mode, caps, used),
           NEW s \in RebuildState, s.running,
           state' = [state EXCEPT ![task[w].owner] = s]
    PROVE  IInv'
  <1> DEFINE t == TaskOf("session", task[w].owner, mode, caps, used)
  <1>1. /\ task[w].owner \in Owners
        /\ \A v \in Holders(task[w].owner) : v = w
    BY SessionFacts
  <1>2. t \in Task /\ t.phase = "session" /\ t.owner = task[w].owner /\ t.mode = mode
    BY <1>1, TaskOfType DEF Phase
  <1>3. task' = [task EXCEPT ![w] = t]
    BY DEF NextSession
  <1> HIDE DEF t
  <1> QED
    BY <1>1, <1>2, <1>3, SlotUpdate DEF Holding

\* A worker that yields goes on with an owed mode or gives the slot back.
LEMMA YieldIInv ==
    ASSUME IInv, NEW w \in Workers, InSession(w),
           NEW caps \in 0..MaxConsecutiveCaps, Yield(w, caps)
    PROVE  IInv'
  <1> DEFINE o == task[w].owner
             s == mark_idle_or_continue(state[o])
             next == ContinueMode(state[o])
  <1>1. /\ task[w] \in Task
        /\ o \in Owners
        /\ task[w].mode \in RebuildMode
        /\ state[o] \in RebuildState
        /\ state[o].running
        /\ \A v \in Holders(o) : v = w
    BY SessionFacts
  <1>2. /\ s \in RebuildState
        /\ next \in RebuildMode \cup {None}
        /\ next = None => ~s.running
        /\ next # None => s.running
    BY <1>1, MarkIdleResult
  <1>3. state' = [state EXCEPT ![o] = s]
    BY DEF Yield
  <1>4. CASE next = None
    <2> DEFINE t == Ended(task[w], "ok")
    <2>1. task' = [task EXCEPT ![w] = t]
      BY <1>4 DEF Yield
    <2>2. t \in Task /\ t.phase = "ok" /\ t.owner = o /\ t.mode \in RebuildMode
      <3>1. 0 \in 0..MaxConsecutiveCaps /\ "ok" \in Phase
        BY CapsAssumption DEF Phase
      <3> QED
        BY <1>1, <3>1 DEF Ended, Task, TaskOf
    <2> HIDE DEF s, t
    <2> QED
      BY <1>1, <1>2, <1>3, <1>4, <2>1, <2>2, SlotUpdate DEF Holding
  <1>5. CASE next # None
    <2>1. NextSession(w, next, caps, task[w].remainder_drain_used)
      BY <1>5 DEF Yield
    <2>2. task[w].remainder_drain_used \in BOOLEAN
      BY <1>1 DEF Task
    <2>3. next \in RebuildMode /\ s.running
      BY <1>2, <1>5
    <2> HIDE DEF s, next
    <2> QED
      BY <1>2, <1>3, <2>1, <2>2, <2>3, NextSessionIInv
  <1> QED
    BY <1>4, <1>5

\* A session that used up its iterations goes on or yields.
LEMMA SessionCappedIInv ==
    ASSUME IInv, NEW w \in Workers, NEW remainder \in BOOLEAN,
           SessionCapped(w, remainder)
    PROVE  IInv'
  <1> DEFINE o == task[w].owner
             streak == task[w].caps + 1
             used == task[w].remainder_drain_used
             drain == remainder /\ ~used
  <1>1. InSession(w)
    BY DEF SessionCapped
  <1>2. /\ task[w] \in Task
        /\ o \in Owners
        /\ state[o] \in RebuildState
        /\ state[o].running
    BY <1>1, SessionFacts
  <1>3. task[w].caps \in 0..MaxConsecutiveCaps /\ used \in BOOLEAN
    BY <1>2 DEF Task
  <1>4. /\ 0 \in 0..MaxConsecutiveCaps
        /\ MaxConsecutiveCaps \in 0..MaxConsecutiveCaps
        /\ AppendMode \in RebuildMode
    BY CapsAssumption DEF RebuildMode
  <1>5. UNCHANGED state => state' = [state EXCEPT ![o] = state[o]]
    BY <1>2 DEF IInv, TypeOK
  <1>6. CASE /\ streak < MaxConsecutiveCaps
             /\ NextSession(w, AppendMode, streak, used)
             /\ UNCHANGED state
    <2>1. streak \in 0..MaxConsecutiveCaps
      BY <1>3, <1>6, CapsAssumption
    <2> HIDE DEF streak, used, o
    <2> QED
      BY <1>1, <1>2, <1>3, <1>4, <1>5, <1>6, <2>1, NextSessionIInv DEF o
  <1>7. CASE NextSession(w, AppendMode, 0, TRUE) /\ UNCHANGED state
    <2>1. TRUE \in BOOLEAN
      OBVIOUS
    <2> QED
      BY <1>1, <1>2, <1>4, <1>5, <1>7, <2>1, NextSessionIInv
  <1>8. CASE Yield(w, MaxConsecutiveCaps)
    BY <1>1, <1>4, <1>8, YieldIInv
  <1> QED
    BY <1>6, <1>7, <1>8 DEF SessionCapped

\* A broken worker holds the slot until its outer task has seen the result.
LEMMA SessionBrokenIInv ==
    ASSUME IInv, NEW w \in Workers, NEW how \in {"err", "panic"},
           SessionBroken(w, how)
    PROVE  IInv'
  <1> DEFINE o == task[w].owner
             t == Ended(task[w], how)
  <1>1. InSession(w)
    BY DEF SessionBroken
  <1>2. /\ task[w] \in Task
        /\ o \in Owners
        /\ task[w].mode \in RebuildMode
        /\ state[o] \in RebuildState
        /\ state[o].running
        /\ \A v \in Holders(o) : v = w
    BY <1>1, SessionFacts
  <1>3. t \in Task /\ t.phase = how /\ t.owner = o /\ t.mode \in RebuildMode
    <2>1. 0 \in 0..MaxConsecutiveCaps /\ how \in Phase
      BY CapsAssumption DEF Phase
    <2> QED
      BY <1>2, <2>1 DEF Ended, Task, TaskOf
  <1>4. state' = [state EXCEPT ![o] = state[o]] /\ task' = [task EXCEPT ![w] = t]
    BY DEF SessionBroken, IInv, TypeOK
  <1> HIDE DEF o, t
  <1> QED
    BY <1>2, <1>3, <1>4, SlotUpdate DEF Holding, o

\* The outer task of a normal exit finds another worker's flag and leaves it;
\* that of a broken worker lowers the flag of the slot it still holds.
LEMMA OuterExitIInv ==
    ASSUME IInv, NEW w \in Workers, OuterExit(w)
    PROVE  IInv'
  <1> DEFINE o == task[w].owner
             phase == task[w].phase
             s == AfterJoin(phase, state[o])
  <1>1. phase \in {"ok", "err", "panic"} /\ o \in Owners
    BY DEF OuterExit, IInv, TasksHaveOwners
  <1>2. state[o] \in RebuildState
    BY <1>1 DEF IInv, TypeOK
  <1>3. /\ s \in RebuildState
        /\ phase = "ok" => s = state[o]
        /\ phase # "ok" => ~s.running
    BY <1>1, <1>2, AfterJoinResult
  <1>4. state' = [state EXCEPT ![o] = s] /\ task' = [task EXCEPT ![w] = NoTask]
    BY DEF OuterExit
  <1>5. s.running <=> \E v \in Holders(o) : v # w
    <2>1. CASE phase = "ok"
      <3>1. w \notin Holders(o)
        BY <2>1 DEF Holders, Holds
      <3> QED
        BY <1>1, <1>3, <2>1, <3>1 DEF IInv, SlotHeldByWorker
    <2>2. CASE phase # "ok"
      <3>1. w \in Holders(o)
        BY <1>1, <2>2 DEF Holders, Holds
      <3> QED
        BY <1>1, <1>3, <2>2, <3>1 DEF IInv, OneWorkerPerOwner
    <2> QED
      BY <2>1, <2>2
  <1> HIDE DEF s
  <1> QED
    BY <1>1, <1>3, <1>4, <1>5, NoTaskType, SlotUpdate DEF Holding

\* After a restart the coordinator is in its initial state.
LEMMA RestartIInv == Restart => IInv'
  <1> SUFFICES ASSUME Restart PROVE IInv'
    OBVIOUS
  <1>1. DefaultState \in RebuildState
    BY DEF DefaultState, RebuildState
  <1>2. TypeOK'
    BY <1>1, NoTaskType DEF Restart, TypeOK
  <1>3. \A w \in Workers : task'[w].phase = "free"
    BY NoTaskType DEF Restart
  <1>4. \A o \in Owners : Holders(o)' = {} /\ ~state'[o].running
    BY <1>3 DEF Holders, Holds, Restart, DefaultState
  <1> QED
    BY <1>2, <1>3, <1>4 DEF IInv, TasksHaveOwners, OneWorkerPerOwner, SlotHeldByWorker

\* Every step of the coordinator preserves the inductive invariant.
LEMMA NextIInv == IInv /\ [Next]_vars => IInv'
  <1> SUFFICES ASSUME IInv, [Next]_vars PROVE IInv'
    OBVIOUS
  <1>1. ASSUME NEW o \in Owners, Request(o) PROVE IInv'
    <2>1. \E mode \in RebuildMode : Trigger(o, mode)
      BY <1>1 DEF Request, notify_append, request_manual, RebuildMode
    <2> QED
      BY <2>1, TriggerIInv
  <1>2. ASSUME NEW w \in Workers, WorkerStep(w) PROVE IInv'
    <2>1. CASE SessionDone(w)
      <3>1. 0 \in 0..MaxConsecutiveCaps
        BY CapsAssumption
      <3> QED
        BY <2>1, <3>1, YieldIInv DEF SessionDone
    <2>2. ASSUME NEW remainder \in BOOLEAN, SessionCapped(w, remainder) PROVE IInv'
      BY <2>2, SessionCappedIInv
    <2>3. ASSUME NEW how \in {"err", "panic"}, SessionBroken(w, how) PROVE IInv'
      BY <2>3, SessionBrokenIInv
    <2>4. CASE OuterExit(w)
      BY <2>4, OuterExitIInv
    <2> QED
      BY <1>2, <2>1, <2>2, <2>3, <2>4 DEF WorkerStep
  <1>3. CASE Restart
    BY <1>3, RestartIInv
  <1>4. CASE UNCHANGED vars
    BY <1>4 DEF vars, IInv, TypeOK, TasksHaveOwners, OneWorkerPerOwner,
           SlotHeldByWorker, Holders, Holds
  <1> QED
    BY <1>1, <1>2, <1>3, <1>4 DEF Next

-----------------------------------------------------------------------------

\* The coordinator never leaves its types.
THEOREM TypeCorrect == Spec => []TypeOK
  <1>1. IInv => TypeOK
    BY DEF IInv
  <1> QED
    BY InitIInv, NextIInv, <1>1, PTL DEF Spec

\* No owner ever has two workers, however requests, exits and failures
\* interleave and however many tasks are alive.
THEOREM OneWorker == Spec => []OneWorkerPerOwner
  <1>1. IInv => OneWorkerPerOwner
    BY DEF IInv
  <1> QED
    BY InitIInv, NextIInv, <1>1, PTL DEF Spec

\* The running flag is up exactly while a task will still lower it.
THEOREM SlotHeld == Spec => []SlotHeldByWorker
  <1>1. IInv => SlotHeldByWorker
    BY DEF IInv
  <1> QED
    BY InitIInv, NextIInv, <1>1, PTL DEF Spec

-----------------------------------------------------------------------------
(* The refinement of SingleFlight                                          *)

\* What SingleFlight calls owed, of an owner's state.
Debt(st) == {m \in RebuildMode : \/ m = AppendMode /\ st.append_missed
                                 \/ m = st.manual_pending}

\* How a task that holds the slot shows up in broken.
HowBroken(t) == IF t.phase = "session" THEN "no" ELSE t.phase

\* The three variables of SingleFlight.
Serving == [o \in Owners |-> ServingMode(o)]
Owing == [o \in Owners |-> OwedModes(o)]
Broken == [o \in Owners |-> BrokenHow(o)]

\* The holder of an owner's slot is what the mapping shows, and an owner
\* without a holder is idle.
Views ==
    \A o \in Owners :
        /\ Holders(o) = {} => ServingMode(o) = None /\ BrokenHow(o) = "no"
        /\ \A w \in Holders(o) : /\ ServingMode(o) = task[w].mode
                                 /\ BrokenHow(o) = HowBroken(task[w])

\* SingleFlight's modes are the coordinator's.
LEMMA SameModes == SF!RebuildMode = RebuildMode /\ SF!ManualModes = ManualModes
  BY DEF SF!RebuildMode, SF!ManualModes, RebuildMode, ManualModes

\* OneWorkerPerOwner makes the CHOOSE of the mapping pick the holder.
LEMMA HoldersAreViewed == IInv => Views
  <1> SUFFICES ASSUME IInv, NEW o \in Owners
               PROVE  /\ Holders(o) = {} => ServingMode(o) = None /\ BrokenHow(o) = "no"
                      /\ \A w \in Holders(o) : /\ ServingMode(o) = task[w].mode
                                               /\ BrokenHow(o) = HowBroken(task[w])
    BY DEF Views
  <1>1. Holders(o) = {} => ServingMode(o) = None /\ BrokenHow(o) = "no"
    BY DEF ServingMode, BrokenHow
  <1>2. ASSUME NEW w \in Holders(o)
        PROVE  ServingMode(o) = task[w].mode /\ BrokenHow(o) = HowBroken(task[w])
    <2> DEFINE h == CHOOSE v \in Workers : Holds(v, o)
    <2>1. w \in Workers /\ Holds(w, o)
      BY DEF Holders
    <2>2. h \in Workers /\ Holds(h, o)
      BY <2>1
    <2>3. h = w
      BY <2>1, <2>2 DEF IInv, OneWorkerPerOwner, Holders
    <2>4. ServingMode(o) = task[w].mode
      BY <2>3 DEF ServingMode
    <2>5. \A v \in Holders(o) : v = w
      BY DEF IInv, OneWorkerPerOwner
    <2>6. (\E v \in Holders(o) : ~InSession(v)) <=> task[w].phase # "session"
      BY <2>5 DEF InSession
    <2>7. BrokenHow(o) = HowBroken(task[w])
      <3>1. CASE task[w].phase = "session"
        BY <2>6, <3>1 DEF BrokenHow, HowBroken
      <3>2. CASE task[w].phase # "session"
        <4>1. BrokenHow(o) = task[h].phase
          BY <2>6, <3>2 DEF BrokenHow
        <4> QED
          BY <2>3, <3>2, <4>1 DEF HowBroken
      <3> QED
        BY <3>1, <3>2
    <2> QED
      BY <2>4, <2>7
  <1> QED
    BY <1>1, <1>2

\* A step that rewrites at most the state of o and task slot w, which belongs
\* to o before and after the step unless it is free.
Touches(o, w) ==
    /\ \A p \in Owners : p # o => state'[p] = state[p]
    /\ \A v \in Workers : v # w => task'[v] = task[v]
    /\ task[w].phase # "free" => task[w].owner = o
    /\ task'[w].phase # "free" => task'[w].owner = o

\* What SingleFlight sees of such a step: its variables change at o only.
LEMMA SlotView ==
    ASSUME IInv, IInv', NEW o \in Owners, NEW w \in Workers, Touches(o, w)
    PROVE  /\ Owing' = [Owing EXCEPT ![o] = Debt(state'[o])]
           /\ w \in Holders(o)' =>
                 /\ Serving' = [Serving EXCEPT ![o] = task'[w].mode]
                 /\ Broken' = [Broken EXCEPT ![o] = HowBroken(task'[w])]
           /\ ~state'[o].running =>
                 /\ Serving' = [Serving EXCEPT ![o] = None]
                 /\ Broken' = [Broken EXCEPT ![o] = "no"]
           /\ w \notin Holders(o) /\ w \notin Holders(o)' =>
                 Serving' = Serving /\ Broken' = Broken
  <1>1. Views /\ Views'
    BY HoldersAreViewed, PTL
  <1>2. ASSUME NEW p \in Owners, p # o
        PROVE  /\ OwedModes(p)' = OwedModes(p)
               /\ ServingMode(p)' = ServingMode(p)
               /\ BrokenHow(p)' = BrokenHow(p)
    <2>1. Holders(p)' = Holders(p) /\ state'[p] = state[p]
      BY <1>2 DEF Touches, Holders, Holds
    <2>2. \A v \in Holders(p) : task'[v] = task[v]
      BY <1>2 DEF Touches, Holders, Holds
    <2>3. OwedModes(p)' = OwedModes(p)
      BY <2>1 DEF OwedModes
    <2>4. CASE Holders(p) = {}
      BY <1>1, <2>1, <2>3, <2>4 DEF Views
    <2>5. CASE Holders(p) # {}
      BY <1>1, <2>1, <2>2, <2>3, <2>5 DEF Views
    <2> QED
      BY <2>4, <2>5
  <1>4. OwedModes(o)' = Debt(state'[o])
    BY DEF OwedModes, Debt
  <1>5. Owing' = [Owing EXCEPT ![o] = Debt(state'[o])]
    BY <1>2, <1>4 DEF Owing
  <1>6. ASSUME NEW m, NEW how, ServingMode(o)' = m, BrokenHow(o)' = how
        PROVE  /\ Serving' = [Serving EXCEPT ![o] = m]
               /\ Broken' = [Broken EXCEPT ![o] = how]
    BY <1>2, <1>6 DEF Serving, Broken
  <1>7. ASSUME w \in Holders(o)'
        PROVE  /\ Serving' = [Serving EXCEPT ![o] = task'[w].mode]
               /\ Broken' = [Broken EXCEPT ![o] = HowBroken(task'[w])]
    <2>1. ServingMode(o)' = task'[w].mode /\ BrokenHow(o)' = HowBroken(task'[w])
      BY <1>1, <1>7 DEF Views
    <2> QED
      BY <1>6, <2>1
  <1>8. ASSUME ~state'[o].running
        PROVE  /\ Serving' = [Serving EXCEPT ![o] = None]
               /\ Broken' = [Broken EXCEPT ![o] = "no"]
    <2>1. Holders(o)' = {}
      BY <1>8 DEF IInv, SlotHeldByWorker
    <2> QED
      BY <1>1, <1>6, <2>1 DEF Views
  <1>9. ASSUME w \notin Holders(o), w \notin Holders(o)'
        PROVE  Serving' = Serving /\ Broken' = Broken
    <2>1. \A v \in Holders(o) : task'[v] = task[v]
      BY <1>9 DEF Touches, Holders
    <2>2. Holders(o)' = Holders(o)
      BY <1>9 DEF Touches, Holders, Holds
    <2>3. ServingMode(o)' = ServingMode(o) /\ BrokenHow(o)' = BrokenHow(o)
      <3>1. CASE Holders(o) = {}
        BY <1>1, <2>2, <3>1 DEF Views
      <3>2. CASE Holders(o) # {}
        BY <1>1, <2>1, <2>2, <3>2 DEF Views
      <3> QED
        BY <3>1, <3>2
    <2> QED
      BY <1>2, <2>3 DEF Serving, Broken
  <1> QED
    BY <1>5, <1>7, <1>8, <1>9

-----------------------------------------------------------------------------
(* What the operations of the state map do to the debt                     *)

\* A request that finds a worker running is added to the debt, up to the
\* coalescing of manual requests (merge_pending).
LEMMA BusyDebt ==
    ASSUME NEW st \in RebuildState, NEW mode \in RebuildMode, st.running
    PROVE  SF!Keeps(Debt(st) \cup {mode}, Debt(try_start(st, mode)))
  BY SameModes, ModeAssumption DEF SF!Keeps, Debt, RebuildState, RebuildMode, ManualModes,
        try_start, MarkBusy, merge_pending

\* A request that finds the owner idle starts with an owed append, or with
\* itself when none is owed, and what it does not start with stays owed.
LEMMA IdleDebt ==
    ASSUME NEW st \in RebuildState, NEW mode \in RebuildMode, ~st.running
    PROVE  /\ StartingMode(st, mode) \in Debt(st) \cup {mode}
           /\ AppendMode \in Debt(st) => StartingMode(st, mode) = AppendMode
           /\ SF!Keeps((Debt(st) \cup {mode}) \ {StartingMode(st, mode)},
                       Debt(try_start(st, mode)))
  <1>1. StartingMode(st, mode) \in Debt(st) \cup {mode}
    BY DEF StartingMode, QueuesBehindAppend, Debt, RebuildMode
  <1>2. AppendMode \in Debt(st) => StartingMode(st, mode) = AppendMode
    BY ModeAssumption DEF StartingMode, QueuesBehindAppend, Debt, RebuildState,
          RebuildMode, ManualModes
  <1>3. SF!Keeps((Debt(st) \cup {mode}) \ {StartingMode(st, mode)},
                 Debt(try_start(st, mode)))
    BY SameModes, ModeAssumption DEF SF!Keeps, Debt, RebuildState, RebuildMode, ManualModes,
          StartingMode, QueuesBehindAppend, try_start, ClaimIdle, merge_pending
  <1> QED
    BY <1>1, <1>2, <1>3

\* mark_idle_or_continue takes what it returns off the debt, a missed append
\* first, and returns nothing only when nothing is owed.
LEMMA ContinueDebt ==
    ASSUME NEW st \in RebuildState
    PROVE  /\ ContinueMode(st) = None =>
                 Debt(st) = {} /\ Debt(mark_idle_or_continue(st)) = {}
           /\ ContinueMode(st) # None =>
                 /\ ContinueMode(st) \in Debt(st)
                 /\ AppendMode \in Debt(st) => ContinueMode(st) = AppendMode
                 /\ Debt(mark_idle_or_continue(st)) = Debt(st) \ {ContinueMode(st)}
  BY ModeAssumption DEF ContinueMode, mark_idle_or_continue, Debt, RebuildState,
        RebuildMode, ManualModes

\* The three variables at one owner, by its state and its holder.
LEMMA ViewOf ==
    ASSUME IInv, NEW o \in Owners
    PROVE  /\ Owing[o] = Debt(state[o])
           /\ Holders(o) = {} => Serving[o] = None /\ Broken[o] = "no"
           /\ \A w \in Holders(o) : /\ Serving[o] = task[w].mode
                                    /\ Broken[o] = HowBroken(task[w])
  BY HoldersAreViewed DEF Views, Serving, Owing, Broken, OwedModes, Debt

\* A mode is never None, and what is owed is a set of modes.
LEMMA ModesAreSome == None \notin RebuildMode /\ \A st : Debt(st) \subseteq RebuildMode
  BY ModeAssumption DEF RebuildMode, ManualModes, Debt

-----------------------------------------------------------------------------
(* One lemma per action                                                    *)

\* A request is SingleFlight's request to a busy or to an idle owner.
LEMMA TriggerView ==
    ASSUME IInv, IInv', NEW o \in Owners, NEW mode \in RebuildMode, Trigger(o, mode)
    PROVE  SF!AskBusy(o, mode) \/ SF!AskIdle(o, mode)
  <1> DEFINE s == try_start(state[o], mode)
  <1>1. state[o] \in RebuildState
    BY DEF IInv, TypeOK
  <1>2. s \in RebuildState
    BY <1>1, TryStartResult
  <1>3. state' = [state EXCEPT ![o] = s]
    BY DEF Trigger
  <1>4. Owing[o] = Debt(state[o])
    BY ViewOf
  <1>5. CASE state[o].running
    <2>1. PICK w \in Workers : w \in Holders(o)
      BY <1>5 DEF IInv, SlotHeldByWorker, Holders
    <2>2. task' = [task EXCEPT ![w] = task[w]]
      BY <1>5 DEF Trigger, IInv, TypeOK
    <2>3. task[w] \in Task /\ task[w].owner = o /\ task[w].phase \in Holding
      BY <2>1 DEF IInv, TypeOK, Holders, Holds, Holding
    <2>4. task[w].mode \in RebuildMode
      BY <2>3 DEF IInv, TasksHaveOwners, Holding
    <2>5. Serving[o] = task[w].mode /\ Broken[o] = HowBroken(task[w])
      BY <2>1, ViewOf
    <2>6. SF!Keeps(Owing[o] \cup {mode}, Debt(s))
      BY <1>1, <1>4, <1>5, BusyDebt
    <2> HIDE DEF s
    <2>7. /\ Owing' = [Owing EXCEPT ![o] = Debt(s)]
          /\ Serving' = [Serving EXCEPT ![o] = task[w].mode]
          /\ Broken' = [Broken EXCEPT ![o] = HowBroken(task[w])]
      <3>1. state'[o] = s /\ task' = task
        BY <1>3, <2>2 DEF IInv, TypeOK
      <3>2. Touches(o, w)
        BY <1>3, <2>3, <3>1 DEF Touches, IInv, TypeOK
      <3>3. w \in Holders(o)'
        BY <2>1, <3>1 DEF Holders, Holds
      <3> QED
        BY <3>1, <3>2, <3>3, SlotView
    <2>8. UNCHANGED <<Serving, Broken>>
      BY <2>5, <2>7 DEF Serving, Broken
    <2>9. Serving[o] # None /\ Debt(s) \in SUBSET RebuildMode
      BY <2>4, <2>5, ModesAreSome
    <2> QED
      BY <2>6, <2>7, <2>8, <2>9, SameModes DEF SF!AskBusy, Serving, Owing, Broken
  <1>6. CASE ~state[o].running
    <2> DEFINE first == StartingMode(state[o], mode)
               t == TaskOf("session", o, first, 0, FALSE)
    <2>1. PICK w \in Workers : spawn_worker(w, o, first)
      BY <1>6 DEF Trigger
    <2>2. task[w].phase = "free" /\ task' = [task EXCEPT ![w] = t]
      BY <2>1 DEF spawn_worker
    <2>3. first \in RebuildMode
      BY <1>1, TryStartResult
    <2>4. t \in Task /\ t.phase = "session" /\ t.owner = o /\ t.mode = first
      <3>1. 0 \in 0..MaxConsecutiveCaps /\ "session" \in Phase
        BY CapsAssumption DEF Phase
      <3> HIDE DEF first
      <3> QED
        BY <2>3, <3>1 DEF Task, TaskOf
    <2>5. Holders(o) = {}
      BY <1>6 DEF IInv, SlotHeldByWorker
    <2>6. Serving[o] = None /\ Broken[o] = "no"
      BY <2>5, ViewOf
    <2>7. /\ first \in Owing[o] \cup {mode}
          /\ AppendMode \in Owing[o] => first = AppendMode
          /\ SF!Keeps((Owing[o] \cup {mode}) \ {first}, Debt(s))
      BY <1>1, <1>4, <1>6, IdleDebt
    <2> HIDE DEF s, t, first
    <2>8. /\ Owing' = [Owing EXCEPT ![o] = Debt(s)]
          /\ Serving' = [Serving EXCEPT ![o] = first]
          /\ Broken' = [Broken EXCEPT ![o] = "no"]
      <3>1. state'[o] = s /\ task'[w] = t
        BY <1>3, <2>2 DEF IInv, TypeOK
      <3>2. Touches(o, w)
        BY <1>3, <2>2, <2>4, <3>1 DEF Touches, IInv, TypeOK
      <3>3. w \in Holders(o)' /\ HowBroken(t) = "no"
        BY <2>4, <3>1 DEF Holders, Holds, HowBroken
      <3> QED
        BY <2>4, <3>1, <3>2, <3>3, SlotView
    <2>9. Broken' = Broken
      BY <2>6, <2>8 DEF Broken
    <2>10. Debt(s) \in SUBSET RebuildMode
      BY ModesAreSome
    <2> QED
      BY <2>6, <2>7, <2>8, <2>9, <2>10, SameModes DEF SF!AskIdle, Serving, Owing, Broken
  <1> QED
    BY <1>5, <1>6

\* What SingleFlight sees of a worker inside a session: a healthy owner.
LEMMA SessionView ==
    ASSUME IInv, NEW w \in Workers, InSession(w)
    PROVE  /\ SF!Healthy(task[w].owner)
           /\ Serving[task[w].owner] = task[w].mode
           /\ Broken[task[w].owner] = "no"
           /\ Owing[task[w].owner] = Debt(state[task[w].owner])
  <1> DEFINE o == task[w].owner
  <1>1. o \in Owners /\ task[w].mode \in RebuildMode
    BY SessionFacts
  <1>2. w \in Holders(o)
    BY DEF Holders, Holds, InSession
  <1>3. Serving[o] = task[w].mode /\ Broken[o] = "no" /\ Owing[o] = Debt(state[o])
    BY <1>1, <1>2, ViewOf DEF HowBroken, InSession
  <1> QED
    BY <1>1, <1>3, ModesAreSome DEF SF!Healthy, Serving, Broken

\* A worker that goes on serves the mode of its next session.
LEMMA NextSessionView ==
    ASSUME IInv, IInv', NEW w \in Workers, InSession(w),
           NEW mode \in RebuildMode, NEW caps \in 0..MaxConsecutiveCaps,
           NEW used \in BOOLEAN, NextSession(w, mode, caps, used),
           \A p \in Owners : p # task[w].owner => state'[p] = state[p]
    PROVE  /\ Serving' = [Serving EXCEPT ![task[w].owner] = mode]
           /\ Owing' = [Owing EXCEPT ![task[w].owner] = Debt(state'[task[w].owner])]
           /\ Broken' = Broken
  <1> DEFINE o == task[w].owner
             t == TaskOf("session", o, mode, caps, used)
  <1>1. o \in Owners
    BY SessionFacts
  <1>2. t \in Task /\ t.phase = "session" /\ t.owner = o /\ t.mode = mode
    BY <1>1, TaskOfType DEF Phase
  <1>3. task' = [task EXCEPT ![w] = t]
    BY DEF NextSession
  <1> HIDE DEF t
  <1>4. /\ Owing' = [Owing EXCEPT ![o] = Debt(state'[o])]
        /\ Serving' = [Serving EXCEPT ![o] = mode]
        /\ Broken' = [Broken EXCEPT ![o] = "no"]
    <2>1. task'[w] = t
      BY <1>1, <1>3 DEF IInv, TypeOK
    <2>2. Touches(o, w)
      BY <1>2, <1>3, <2>1 DEF Touches, IInv, TypeOK
    <2>3. w \in Holders(o)' /\ HowBroken(t) = "no"
      BY <1>2, <2>1 DEF Holders, Holds, HowBroken
    <2> QED
      BY <1>1, <1>2, <2>1, <2>2, <2>3, SlotView
  <1>5. Broken[o] = "no"
    BY SessionView
  <1>6. Broken' = Broken
    BY <1>4, <1>5 DEF Broken
  <1> QED
    BY <1>4, <1>6

\* A worker that yields serves something owed, or finishes owing nothing.
LEMMA YieldView ==
    ASSUME IInv, IInv', NEW w \in Workers, InSession(w),
           NEW caps \in 0..MaxConsecutiveCaps, Yield(w, caps)
    PROVE  SF!ServeOwed(task[w].owner) \/ SF!Finish(task[w].owner)
  <1> DEFINE o == task[w].owner
             s == mark_idle_or_continue(state[o])
             next == ContinueMode(state[o])
  <1>1. /\ task[w] \in Task
        /\ o \in Owners
        /\ task[w].mode \in RebuildMode
        /\ state[o] \in RebuildState
    BY SessionFacts
  <1>2. /\ s \in RebuildState
        /\ next \in RebuildMode \cup {None}
        /\ next = None => ~s.running
    BY <1>1, MarkIdleResult
  <1>3. state' = [state EXCEPT ![o] = s]
    BY DEF Yield
  <1>4. SF!Healthy(o) /\ Broken[o] = "no" /\ Owing[o] = Debt(state[o])
    BY SessionView
  <1>5. /\ next = None => Owing[o] = {} /\ Debt(s) = {}
        /\ next # None => /\ next \in Owing[o]
                          /\ AppendMode \in Owing[o] => next = AppendMode
                          /\ Debt(s) = Owing[o] \ {next}
    BY <1>1, <1>4, ContinueDebt
  <1>6. CASE next = None
    <2> DEFINE t == Ended(task[w], "ok")
    <2>1. task' = [task EXCEPT ![w] = t]
      BY <1>6 DEF Yield
    <2>2. t \in Task /\ t.phase = "ok" /\ t.owner = o
      <3>1. 0 \in 0..MaxConsecutiveCaps /\ "ok" \in Phase
        BY CapsAssumption DEF Phase
      <3> QED
        BY <1>1, <3>1 DEF Ended, Task, TaskOf
    <2> HIDE DEF s, t, next
    <2>3. /\ Owing' = [Owing EXCEPT ![o] = Debt(s)]
          /\ Serving' = [Serving EXCEPT ![o] = None]
          /\ Broken' = [Broken EXCEPT ![o] = "no"]
      <3>1. state'[o] = s /\ task'[w] = t
        BY <1>1, <1>3, <2>1 DEF IInv, TypeOK
      <3>2. Touches(o, w)
        BY <1>3, <2>1, <2>2, <3>1 DEF Touches, IInv, TypeOK
      <3> QED
        BY <1>1, <1>2, <1>6, <3>1, <3>2, SlotView
    <2>4. Owing' = Owing /\ Broken' = Broken
      BY <1>4, <1>5, <1>6, <2>3 DEF Owing, Broken
    <2> QED
      BY <1>4, <1>5, <1>6, <2>3, <2>4 DEF SF!Finish, Serving, Owing, Broken
  <1>7. CASE next # None
    <2>1. NextSession(w, next, caps, task[w].remainder_drain_used)
      BY <1>7 DEF Yield
    <2>2. task[w].remainder_drain_used \in BOOLEAN /\ next \in RebuildMode
      BY <1>1, <1>2, <1>7 DEF Task
    <2> HIDE DEF s, next
    <2>3. /\ Serving' = [Serving EXCEPT ![o] = next]
          /\ Owing' = [Owing EXCEPT ![o] = Debt(s)]
          /\ Broken' = Broken
      <3>1. state'[o] = s /\ \A p \in Owners : p # o => state'[p] = state[p]
        BY <1>1, <1>3 DEF IInv, TypeOK
      <3> QED
        BY <2>1, <2>2, <3>1, NextSessionView
    <2>4. Owing' = [Owing EXCEPT ![o] = @ \ {next}]
      BY <1>5, <1>7, <2>3 DEF Owing
    <2> QED
      BY <1>4, <1>5, <1>7, <2>3, <2>4 DEF SF!ServeOwed, Serving, Owing, Broken
  <1> QED
    BY <1>6, <1>7

\* A session that used up its iterations is followed by a drain of what
\* remains, or yields.
LEMMA SessionCappedView ==
    ASSUME IInv, IInv', NEW w \in Workers, NEW remainder \in BOOLEAN,
           SessionCapped(w, remainder)
    PROVE  \/ SF!ServeRemainder(task[w].owner)
           \/ SF!ServeOwed(task[w].owner)
           \/ SF!Finish(task[w].owner)
  <1> DEFINE o == task[w].owner
             used == task[w].remainder_drain_used
  <1>1. InSession(w)
    BY DEF SessionCapped
  <1>2. /\ task[w] \in Task
        /\ o \in Owners
        /\ state[o] \in RebuildState
    BY <1>1, SessionFacts
  <1>3. task[w].caps \in 0..MaxConsecutiveCaps /\ used \in BOOLEAN
    BY <1>2 DEF Task
  <1>4. /\ 0 \in 0..MaxConsecutiveCaps
        /\ MaxConsecutiveCaps \in 0..MaxConsecutiveCaps
        /\ AppendMode \in RebuildMode
    BY CapsAssumption DEF RebuildMode
  <1>5. SF!Healthy(o) /\ Owing[o] = Debt(state[o])
    BY <1>1, SessionView
  <1>6. ASSUME NEW caps \in 0..MaxConsecutiveCaps, NEW u \in BOOLEAN,
               NextSession(w, AppendMode, caps, u), UNCHANGED state
        PROVE  SF!ServeRemainder(o)
    <2>1. state'[o] = state[o] /\ \A p \in Owners : p # o => state'[p] = state[p]
      BY <1>6
    <2>2. /\ Serving' = [Serving EXCEPT ![o] = AppendMode]
          /\ Owing' = [Owing EXCEPT ![o] = Debt(state[o])]
          /\ Broken' = Broken
      BY <1>1, <1>2, <1>4, <1>6, <2>1, NextSessionView
    <2>3. Owing' = Owing
      BY <1>5, <2>2 DEF Owing
    <2> QED
      BY <1>5, <2>2, <2>3 DEF SF!ServeRemainder, Serving, Owing, Broken
  <1>7. CASE /\ task[w].caps + 1 < MaxConsecutiveCaps
             /\ NextSession(w, AppendMode, task[w].caps + 1, used)
             /\ UNCHANGED state
    <2>1. task[w].caps + 1 \in 0..MaxConsecutiveCaps
      BY <1>3, <1>7, CapsAssumption
    <2> QED
      BY <1>3, <1>6, <1>7, <2>1
  <1>8. CASE NextSession(w, AppendMode, 0, TRUE) /\ UNCHANGED state
    <2>1. TRUE \in BOOLEAN
      OBVIOUS
    <2> QED
      BY <1>4, <1>6, <1>8, <2>1
  <1>9. CASE Yield(w, MaxConsecutiveCaps)
    BY <1>1, <1>4, <1>9, YieldView
  <1> QED
    BY <1>7, <1>8, <1>9 DEF SessionCapped

\* A session that fails or panics is SingleFlight's break.
LEMMA SessionBrokenView ==
    ASSUME IInv, IInv', NEW w \in Workers, NEW how \in {"err", "panic"},
           SessionBroken(w, how)
    PROVE  SF!Break(task[w].owner, how)
  <1> DEFINE o == task[w].owner
             t == Ended(task[w], how)
  <1>1. InSession(w)
    BY DEF SessionBroken
  <1>2. o \in Owners /\ task[w] \in Task
    BY <1>1, SessionFacts
  <1>3. t.phase = how /\ t.owner = o /\ t.mode = task[w].mode
    BY DEF Ended, TaskOf
  <1>4. state' = state /\ task' = [task EXCEPT ![w] = t]
    BY DEF SessionBroken
  <1> HIDE DEF t
  <1>5. task'[w] = t
    BY <1>4 DEF IInv, TypeOK
  <1>6. Touches(o, w)
    BY <1>3, <1>4, <1>5 DEF Touches, IInv, TypeOK
  <1>7. w \in Holders(o)' /\ HowBroken(t) = how
    BY <1>3, <1>5 DEF Holders, Holds, HowBroken
  <1>8. /\ Owing' = [Owing EXCEPT ![o] = Debt(state[o])]
        /\ Serving' = [Serving EXCEPT ![o] = task[w].mode]
        /\ Broken' = [Broken EXCEPT ![o] = how]
    BY <1>2, <1>3, <1>4, <1>5, <1>6, <1>7, SlotView
  <1>9. SF!Healthy(o) /\ Serving[o] = task[w].mode /\ Owing[o] = Debt(state[o])
    BY <1>1, SessionView
  <1>10. Owing' = Owing /\ Serving' = Serving
    BY <1>8, <1>9 DEF Owing, Serving
  <1> QED
    BY <1>8, <1>9, <1>10 DEF SF!Break, Serving, Owing, Broken

\* The exit of a task whose worker ended normally is not seen; after an error
\* the slot is released, after a panic what was owed is forgotten as well.
LEMMA OuterExitView ==
    ASSUME IInv, IInv', NEW w \in Workers, OuterExit(w)
    PROVE  \/ SF!Release(task[w].owner)
           \/ SF!Forget(task[w].owner)
           \/ UNCHANGED <<Serving, Owing, Broken>>
  <1> DEFINE phase == task[w].phase
  <1>0. phase \in {"ok", "err", "panic"} /\ task[w].owner \in Owners
    BY DEF OuterExit, IInv, TasksHaveOwners
  <1>1. PICK o \in Owners : o = task[w].owner /\ phase \in {"ok", "err", "panic"}
    BY <1>0
  <1> DEFINE s == AfterJoin(phase, state[o])
  <1>2. state[o] \in RebuildState
    BY <1>1 DEF IInv, TypeOK
  <1>3. /\ phase = "ok" => s = state[o]
        /\ phase # "ok" => ~s.running
    BY <1>1, <1>2, AfterJoinResult
  <1>4. /\ phase = "err" => Debt(s) = Debt(state[o])
        /\ phase = "panic" => Debt(s) = {}
    BY <1>2, ModesAreSome DEF AfterJoin, release_running_preserve_pending, force_idle,
          DefaultState, Debt, RebuildState
  <1>5. state' = [state EXCEPT ![o] = s] /\ task' = [task EXCEPT ![w] = NoTask]
    BY <1>1 DEF OuterExit
  <1> HIDE DEF s
  <1>6. state'[o] = s /\ task'[w] = NoTask
    BY <1>1, <1>5 DEF IInv, TypeOK
  <1>7. Touches(o, w)
    BY <1>1, <1>5, <1>6, NoTaskType DEF Touches, IInv, TypeOK
  <1>8. w \notin Holders(o)'
    BY <1>6, NoTaskType DEF Holders, Holds
  <1>9. Owing[o] = Debt(state[o])
    BY <1>1, ViewOf
  <1>10. Owing' = [Owing EXCEPT ![o] = Debt(s)]
    BY <1>1, <1>6, <1>7, SlotView
  <1>11. CASE phase = "ok"
    <2>1. w \notin Holders(o)
      BY <1>1, <1>11 DEF Holders, Holds
    <2>2. Serving' = Serving /\ Broken' = Broken
      BY <1>1, <1>7, <1>8, <2>1, SlotView
    <2>3. Owing' = Owing
      BY <1>3, <1>9, <1>10, <1>11 DEF Owing
    <2> QED
      BY <2>2, <2>3
  <1>12. CASE phase # "ok"
    <2>1. w \in Holders(o)
      BY <1>1, <1>12 DEF Holders, Holds
    <2>2. Broken[o] = phase
      BY <1>1, <1>12, <2>1, ViewOf DEF HowBroken
    <2>3. /\ Serving' = [Serving EXCEPT ![o] = None]
          /\ Broken' = [Broken EXCEPT ![o] = "no"]
      BY <1>1, <1>3, <1>6, <1>7, <1>12, SlotView
    <2>4. CASE phase = "err"
      <3>1. Owing' = Owing
        BY <1>4, <1>9, <1>10, <2>4 DEF Owing
      <3> QED
        BY <1>1, <2>2, <2>3, <2>4, <3>1 DEF SF!Release, Serving, Owing, Broken
    <2>5. CASE phase = "panic"
      <3>1. Owing' = [Owing EXCEPT ![o] = {}]
        BY <1>4, <1>10, <2>5
      <3> QED
        BY <1>1, <2>2, <2>3, <2>5, <3>1 DEF SF!Forget, Serving, Owing, Broken
    <2> QED
      BY <1>1, <1>12, <2>4, <2>5
  <1> QED
    BY <1>11, <1>12

\* With no task and the default state of every owner nothing is served, owed
\* or broken.
LEMMA BlankView ==
    ASSUME state = [o \in Owners |-> DefaultState], task = [w \in Workers |-> NoTask]
    PROVE  /\ Serving = [o \in Owners |-> None]
           /\ Owing = [o \in Owners |-> {}]
           /\ Broken = [o \in Owners |-> "no"]
  <1>1. \A o \in Owners : Holders(o) = {}
    BY NoTaskType DEF Holders, Holds
  <1>2. \A o \in Owners : ServingMode(o) = None /\ BrokenHow(o) = "no"
    BY <1>1 DEF ServingMode, BrokenHow
  <1>3. \A o \in Owners : OwedModes(o) = {}
    BY ModesAreSome DEF OwedModes, DefaultState
  <1> QED
    BY <1>2, <1>3 DEF Serving, Owing, Broken

-----------------------------------------------------------------------------

\* The initial state of the coordinator is SingleFlight's.
LEMMA InitView == Init => SF!Init
  BY BlankView DEF Init, SF!Init, Serving, Owing, Broken

\* A restart is SingleFlight's.
LEMMA RestartView == Restart => SF!Restart
  <1> DEFINE Blank == state = [o \in Owners |-> DefaultState] /\ task = [w \in Workers |-> NoTask]
             Seen == /\ Serving = [o \in Owners |-> None]
                     /\ Owing = [o \in Owners |-> {}]
                     /\ Broken = [o \in Owners |-> "no"]
  <1>1. Blank => Seen
    BY BlankView
  <1> HIDE DEF Blank, Seen
  <1>2. Blank' => Seen'
    BY <1>1, PTL
  <1> USE DEF Blank, Seen
  <1> QED
    BY <1>2 DEF Restart, SF!Restart, Serving, Owing, Broken

\* A step that changes neither the states nor the tasks is not seen.
LEMMA StutterView == UNCHANGED vars => UNCHANGED <<Serving, Owing, Broken>>
  BY DEF vars, Serving, Owing, Broken, ServingMode, OwedModes, BrokenHow, Holders, Holds,
        InSession

\* Every step of the coordinator is a step of SingleFlight or is not seen.
LEMMA NextView == IInv /\ IInv' /\ [Next]_vars => [SF!Next]_(SF!vars)
  <1> SUFFICES ASSUME IInv, IInv', [Next]_vars PROVE [SF!Next]_(SF!vars)
    OBVIOUS
  <1>0. UNCHANGED <<Serving, Owing, Broken>> => UNCHANGED SF!vars
    BY DEF SF!vars, Serving, Owing, Broken
  <1>1. ASSUME NEW o \in Owners, Request(o) PROVE SF!Next
    <2>1. PICK mode \in RebuildMode : Trigger(o, mode)
      BY <1>1 DEF Request, notify_append, request_manual, RebuildMode
    <2>2. SF!AskBusy(o, mode) \/ SF!AskIdle(o, mode)
      BY <2>1, TriggerView
    <2> QED
      BY <2>2, SameModes DEF SF!Next
  <1>2. ASSUME NEW w \in Workers, WorkerStep(w) PROVE SF!Next \/ UNCHANGED SF!vars
    <2> DEFINE o == task[w].owner
    <2>0. o \in Owners
      BY <1>2 DEF IInv, TasksHaveOwners, WorkerStep, SessionDone, SessionCapped,
             SessionBroken, OuterExit, InSession
    <2>1. CASE SessionDone(w)
      <3>1. 0 \in 0..MaxConsecutiveCaps
        BY CapsAssumption
      <3>2. SF!ServeOwed(o) \/ SF!Finish(o)
        BY <2>1, <3>1, YieldView DEF SessionDone
      <3> QED
        BY <2>0, <3>2 DEF SF!Next
    <2>2. ASSUME NEW remainder \in BOOLEAN, SessionCapped(w, remainder) PROVE SF!Next
      <3>1. SF!ServeRemainder(o) \/ SF!ServeOwed(o) \/ SF!Finish(o)
        BY <2>2, SessionCappedView
      <3> QED
        BY <2>0, <3>1 DEF SF!Next
    <2>3. ASSUME NEW how \in {"err", "panic"}, SessionBroken(w, how) PROVE SF!Next
      <3>1. SF!Break(o, how)
        BY <2>3, SessionBrokenView
      <3> QED
        BY <2>0, <3>1 DEF SF!Next
    <2>4. CASE OuterExit(w)
      <3>1. SF!Release(o) \/ SF!Forget(o) \/ UNCHANGED <<Serving, Owing, Broken>>
        BY <2>4, OuterExitView
      <3> QED
        BY <1>0, <2>0, <3>1 DEF SF!Next
    <2> QED
      BY <1>2, <2>1, <2>2, <2>3, <2>4 DEF WorkerStep
  <1>3. CASE Restart
    BY <1>3, RestartView DEF SF!Next
  <1>4. CASE UNCHANGED vars
    BY <1>0, <1>4, StutterView
  <1> QED
    BY <1>1, <1>2, <1>3, <1>4 DEF Next

\* The coordinator implements SingleFlight: whatever order requests, exits,
\* failures and restarts come in, a request is served at once or stays owed
\* until it is served, an append before any manual rebuild, and is forgotten
\* by a panic or a restart only.
THEOREM Implements == Spec => ImplementsSingleFlight
  BY InitIInv, NextIInv, InitView, NextView, PTL DEF Spec, ImplementsSingleFlight, SF!Spec
=============================================================================
