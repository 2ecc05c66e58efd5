---------------------------- MODULE AuthSessions ----------------------------
(***************************************************************************)
(* The two maps of InMemorySessions in the authorization server            *)
(* (crates/llm-memory-auth/src/authorization_server.rs; the gen 2 crate    *)
(* has the same code).  A map is a function on all keys that is None where *)
(* it has no entry; every entry has a field expires_at.  Each method holds *)
(* the map's lock from reading the clock to its last change.               *)
(***************************************************************************)
EXTENDS Naturals, FiniteSets

CONSTANT None  \* Option::None

Entries(m) == {k \in DOMAIN m : m[k] # None}

retain(m, now) ==
    [k \in DOMAIN m |-> IF m[k] # None /\ m[k].expires_at > now THEN m[k] ELSE None]

\* min_by_key over a HashMap: any of the entries that expire first.
Oldest(m) ==
    {k \in Entries(m) : \A j \in Entries(m) : m[k].expires_at <= m[j].expires_at}

\* Mutant: room is made only once the map has outgrown the cap.
putLate(m, k, entry, now, cap) ==
    LET live == retain(m, now)
    IN  IF Cardinality(Entries(live)) > cap
          THEN {[live EXCEPT ![old] = None, ![k] = entry] : old \in Oldest(live)}
          ELSE {[live EXCEPT ![k] = entry]}

\* The maps put_pending and put_code may leave.
put(m, k, entry, now, cap) ==
    LET live == retain(m, now)
    IN  IF Cardinality(Entries(live)) >= cap
          THEN {[live EXCEPT ![old] = None, ![k] = entry] : old \in Oldest(live)}
          ELSE {[live EXCEPT ![k] = entry]}

\* Mutant: the entry is looked up and left in the map.
takeKeeps(m, k, now) == retain(m, now)

\* What take_pending and take_code leave; they return retain(m, now)[k].
take(m, k, now) == [retain(m, now) EXCEPT ![k] = None]
=============================================================================
