---------------------------- MODULE MCAuthServer ----------------------------
(* AuthServer for TLC.                                                     *)
EXTENDS AuthServer, TLC

CONSTANTS c1, c2, u1

\* c1 may refresh, c2 may not.
MCRegistration ==
    [c \in Clients |-> [redirect_uris |-> {u1}, auth_method |-> "none",
                        grant_types |-> IF c = c1 THEN Grants ELSE {"authorization_code"}]]

Symmetry ==
    UNION {Permutations(S) : S \in {Verifiers, Subjects, UserIds, Keys, Codes, Tokens, Requests}}
=============================================================================
