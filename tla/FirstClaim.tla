----------------------------- MODULE FirstClaim -----------------------------
(***************************************************************************)
(* What the tool_ownership table promises: an identifier belongs for ever  *)
(* to the first user who records it, nobody else is told that it is his,   *)
(* and only its owner gets through to the service with it.                 *)
(***************************************************************************)
CONSTANTS Users, Keys, None

VARIABLES
    owner,     \* owner[k]: the user that identifier k belongs to
    promised,  \* <<u, k>>: u was told that k is recorded as his
    using      \* <<u, k>>: the service is being called with k for u

Init == /\ owner = [k \in Keys |-> None]
        /\ promised = {}
        /\ using = {}

\* u records the identifiers K; those that have an owner keep it.
Claim(u, K) ==
    /\ owner' = [k \in Keys |-> IF k \in K /\ owner[k] = None THEN u ELSE owner[k]]
    /\ \/ promised' = promised
       \/ \E k \in K : owner'[k] = u /\ promised' = promised \cup {<<u, k>>}
    /\ using' = {}

\* u is told that the identifiers K are his.
Promise(u, K) ==
    /\ \A k \in K : owner[k] = u
    /\ promised' = promised \cup {<<u, k>> : k \in K}
    /\ using' = {}
    /\ UNCHANGED owner

\* The service is called with identifier k for u.
Use(u, k) ==
    /\ owner[k] = u
    /\ using' = {<<u, k>>}
    /\ UNCHANGED <<owner, promised>>

Done == using' = {} /\ UNCHANGED <<owner, promised>>

Next ==
    \/ \E u \in Users, K \in SUBSET Keys : Claim(u, K) \/ Promise(u, K)
    \/ \E u \in Users, k \in Keys : Use(u, k)
    \/ Done

Spec == Init /\ [][Next]_<<owner, promised, using>>
=============================================================================
