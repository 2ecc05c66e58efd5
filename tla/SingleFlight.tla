---------------------------- MODULE SingleFlight ----------------------------
(***************************************************************************)
(* What the coordinator promises its callers, without workers, drain caps  *)
(* or join handles: each owner is served by one session at a time; what is *)
(* asked for meanwhile is owed, an owed append is served before any owed   *)
(* manual rebuild, and what is owed is forgotten only by a panic or by a   *)
(* restart.  Manual requests coalesce: a later concept may replace an      *)
(* earlier one, but a full rebuild may not be replaced.                    *)
(***************************************************************************)
EXTENDS StateMap

CONSTANT Owners

VARIABLES
    serving,  \* serving[o]: the mode the owner's session was started in
    owed,     \* owed[o]: the modes asked for and not yet served
    broken    \* broken[o]: how the session being served broke, if it did

vars == <<serving, owed, broken>>

Init == /\ serving = [o \in Owners |-> None]
        /\ owed = [o \in Owners |-> {}]
        /\ broken = [o \in Owners |-> "no"]

\* The owner has a session that has not broken.
Healthy(o) == serving[o] # None /\ broken[o] = "no"

\* T still owes what S owes, up to the coalescing of manual requests.
Keeps(S, T) ==
    /\ AppendMode \in S => AppendMode \in T
    /\ FullRebuild \in S => FullRebuild \in T
    /\ S \cap ManualModes # {} => T \cap ManualModes # {}

\* A request for a busy owner joins what is owed.
AskBusy(o, m) ==
    /\ serving[o] # None
    /\ \E T \in SUBSET RebuildMode :
          /\ Keeps(owed[o] \cup {m}, T)
          /\ owed' = [owed EXCEPT ![o] = T]
    /\ UNCHANGED <<serving, broken>>

\* A request for an idle owner starts a session, for an owed append first.
AskIdle(o, m) ==
    /\ serving[o] = None
    /\ \E first \in owed[o] \cup {m}, T \in SUBSET RebuildMode :
          /\ AppendMode \in owed[o] => first = AppendMode
          /\ Keeps((owed[o] \cup {m}) \ {first}, T)
          /\ serving' = [serving EXCEPT ![o] = first]
          /\ owed' = [owed EXCEPT ![o] = T]
    /\ UNCHANGED broken

\* The session ends and the owner goes on with something owed.
ServeOwed(o) ==
    /\ Healthy(o)
    /\ \E m \in owed[o] :
          /\ AppendMode \in owed[o] => m = AppendMode
          /\ serving' = [serving EXCEPT ![o] = m]
          /\ owed' = [owed EXCEPT ![o] = @ \ {m}]
    /\ UNCHANGED broken

\* The session was cut short and an append session follows it.
ServeRemainder(o) ==
    /\ Healthy(o)
    /\ serving' = [serving EXCEPT ![o] = AppendMode]
    /\ UNCHANGED <<owed, broken>>

\* A healthy owner becomes idle only when nothing is owed.
Finish(o) ==
    /\ Healthy(o)
    /\ owed[o] = {}
    /\ serving' = [serving EXCEPT ![o] = None]
    /\ UNCHANGED <<owed, broken>>

Break(o, how) ==
    /\ Healthy(o)
    /\ broken' = [broken EXCEPT ![o] = how]
    /\ UNCHANGED <<serving, owed>>

\* After an error the slot is released and the debt stays ...
Release(o) ==
    /\ broken[o] = "err"
    /\ serving' = [serving EXCEPT ![o] = None]
    /\ broken' = [broken EXCEPT ![o] = "no"]
    /\ UNCHANGED owed

\* ... after a panic it is forgotten.
Forget(o) ==
    /\ broken[o] = "panic"
    /\ serving' = [serving EXCEPT ![o] = None]
    /\ broken' = [broken EXCEPT ![o] = "no"]
    /\ owed' = [owed EXCEPT ![o] = {}]

Restart == /\ serving' = [o \in Owners |-> None]
           /\ owed' = [o \in Owners |-> {}]
           /\ broken' = [o \in Owners |-> "no"]

Next ==
    \/ \E o \in Owners : \/ \E m \in RebuildMode : AskBusy(o, m) \/ AskIdle(o, m)
                         \/ \E how \in {"err", "panic"} : Break(o, how)
                         \/ ServeOwed(o)
                         \/ ServeRemainder(o)
                         \/ Finish(o)
                         \/ Release(o)
                         \/ Forget(o)
    \/ Restart

Spec == Init /\ [][Next]_vars
=============================================================================
