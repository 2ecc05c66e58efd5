----------------------------- MODULE AuthServer -----------------------------
(***************************************************************************)
(* The OAuth authorization server                                          *)
(* (crates/{llm-memory,vegapunk-memory}-auth/src/authorization_server.rs   *)
(* with the users, tokens and oauth_clients tables).  Both generations run *)
(* the same flow: /authorize leaves a pending entry under a random key,    *)
(* Google's callback turns it into a one-time code, the token endpoint     *)
(* turns the code into a refresh token and a refresh token into its        *)
(* successor.  They differ in how a user row is found, in whether the      *)
(* token request must repeat client and redirect_uri, and in account       *)
(* deletion, which only gen 1 has.  Handlers run concurrently and are      *)
(* split at their awaits; access tokens are stateless and last_seen_at is  *)
(* never read, so neither is part of the state.                            *)
(***************************************************************************)
EXTENDS AuthSessions

CONSTANTS
    Generation,        \* 1: llm-memory-auth, 2: vegapunk-memory-auth
    Clients,           \* client ids
    Registration,      \* Registration[c]: the DCR request that yields client c
    Uris, HttpsUris,   \* redirect URIs, and those validate accepts
    MaxRedirectUris,   \* MAX_REDIRECT_URIS
    Verifiers,         \* PKCE code verifiers
    Subjects,          \* Google subjects
    UserIds, Keys, Codes, Tokens,  \* random ids; bound what may be issued
    Requests,          \* handlers running at the same time
    MaxPendingAuths,   \* MAX_PENDING_AUTHS
    MaxAuthCodes,      \* MAX_AUTH_CODES
    PendingTtl,        \* lifetime of a pending entry, in ticks
    AuthCodeTtl,       \* AUTH_CODE_TTL_SECS
    RefreshTtl,        \* REFRESH_TOKEN_TTL_SECS
    MaxClock           \* bound on the clock

ASSUME AuthAssumption ==
    /\ Generation \in {1, 2}
    /\ HttpsUris \subseteq Uris
    /\ {MaxPendingAuths, MaxAuthCodes, MaxRedirectUris} \subseteq Nat \ {0}
    /\ {PendingTtl, AuthCodeTtl, RefreshTtl, MaxClock} \subseteq Nat
    /\ None \notin Clients \cup Uris \cup Subjects \cup UserIds \cup Keys \cup Tokens

VARIABLES
    clients,   \* the registered clients
    users,     \* users[s]: id of the row of subject s
    pending,   \* InMemorySessions::pending
    codes,     \* InMemorySessions::codes
    tokens,    \* tokens[t]: the row of refresh token t
    requests,  \* requests[q]: the locals of the handler in slot q
    clock,     \* now_ms()
    used       \* the random ids drawn so far

vars == <<clients, users, pending, codes, tokens, requests, clock, used>>

-----------------------------------------------------------------------------
(* Data                                                                    *)

\* SHA-256 and base64: an injective encoding of the verifier.
S256(verifier) == <<"S256", verifier>>
Challenges == {S256(v) : v \in Verifiers}

Grants == {"authorization_code", "refresh_token"}

\* expires_at reaches past the bound on the clock.
Times == 0..(MaxClock + PendingTtl + AuthCodeTtl + RefreshTtl)

PendingAuth == [client : Clients, redirect_uri : Uris, code_challenge : Challenges,
                expires_at : Times]

\* flow is a ghost: the key of the pending entry that an item stems from.
AuthCode == [user : UserIds, client : Clients, redirect_uri : Uris,
             code_challenge : Challenges, expires_at : Times, flow : Keys]

RefreshToken == [user : UserIds, client : Clients, expires_at : Times,
                 revoked : BOOLEAN, flow : Keys]

\* "exchange": Google is being asked.  "find", "insert", "reread": the user row
\* is being found.  "code": it has been.  "redeem": a refresh token is being
\* redeemed at time now.  "grant": a code or refresh token has been.
Request == [pc : {"idle", "exchange", "find", "insert", "reread", "code", "redeem", "grant"},
            client : Clients \cup {None}, redirect_uri : Uris \cup {None},
            code_challenge : Challenges \cup {None}, subject : Subjects \cup {None},
            user : UserIds \cup {None}, token : Tokens \cup {None},
            now : 0..MaxClock, flow : Keys \cup {None}]

Idle == [pc |-> "idle", client |-> None, redirect_uri |-> None,
         code_challenge |-> None, subject |-> None, user |-> None,
         token |-> None, now |-> 0, flow |-> None]

Init == /\ clients = {}
        /\ users = [s \in Subjects |-> None]
        /\ pending = [k \in Keys |-> None]
        /\ codes = [d \in Codes |-> None]
        /\ tokens = [t \in Tokens |-> None]
        /\ requests = [q \in Requests |-> Idle]
        /\ clock = 0
        /\ used = {}

At(q, pc) == requests[q].pc = pc

\* The rows of the users table.
UserRows == {users[s] : s \in Subjects} \ {None}

\* An id that has not been drawn before.
Fresh(id) == id \notin used /\ used' = used \cup {id}

-----------------------------------------------------------------------------
(* /register and /authorize                                                *)

\* As many as allowed, all https and without a fragment.
RedirectUrisAllowed(uris) ==
    uris # {} /\ Cardinality(uris) <= MaxRedirectUris /\ uris \subseteq HttpsUris

validate(req) ==
    /\ RedirectUrisAllowed(req.redirect_uris)
    /\ req.grant_types \subseteq Grants
    /\ req.auth_method = "none"

\* The row of oauth_clients, under an id that new_ulid has just drawn.
InsertClient(c) == c \notin clients /\ clients' = clients \cup {c}

register(c) ==
    /\ validate(Registration[c])
    /\ InsertClient(c)
    /\ UNCHANGED <<users, pending, codes, tokens, requests, clock, used>>

\* The refusals of /authorize: response_type and method are those of every form.
MayAuthorize(c, uri) ==
    /\ c \in clients
    /\ uri \in Registration[c].redirect_uris
    /\ "authorization_code" \in Registration[c].grant_types

authorize(k, c, uri, verifier) ==
    /\ MayAuthorize(c, uri)
    /\ Fresh(k)
    /\ pending' \in put(pending, k,
                        [client |-> c, redirect_uri |-> uri,
                         code_challenge |-> S256(verifier),
                         expires_at |-> clock + PendingTtl],
                        clock, MaxPendingAuths)
    /\ UNCHANGED <<clients, users, codes, tokens, requests, clock>>

-----------------------------------------------------------------------------
(* /callback/google                                                        *)

\* The pending entry is taken before Google is asked anything.
callback_google(q, k) ==
    LET entry == retain(pending, clock)[k]
    IN  /\ At(q, "idle")
        /\ pending' = take(pending, k, clock)
        /\ requests' = IF entry = None THEN requests ELSE
              [requests EXCEPT ![q] = [Idle EXCEPT
                  !.pc = "exchange", !.client = entry.client,
                  !.redirect_uri = entry.redirect_uri,
                  !.code_challenge = entry.code_challenge, !.flow = k]]
        /\ UNCHANGED <<clients, users, codes, tokens, clock, used>>

\* exchange_code and userinfo; gen 1 goes straight to users::upsert.
GoogleAnswers(q, s) ==
    /\ At(q, "exchange")
    /\ requests' = [requests EXCEPT ![q].subject = s,
                        ![q].pc = IF Generation = 1 THEN "insert" ELSE "find"]
    /\ UNCHANGED <<clients, users, pending, codes, tokens, clock, used>>

\* The user's row is known.
Found(q, user) ==
    requests' = [requests EXCEPT ![q].pc = "code", ![q].user = user, ![q].subject = None]

\* Mutant: the SELECT is taken to have found a row.
FindUserUnchecked(q) ==
    /\ At(q, "find")
    /\ Found(q, users[requests[q].subject])
    /\ UNCHANGED <<clients, users, pending, codes, tokens, clock, used>>

\* find_or_provision, its first SELECT.
FindUser(q) ==
    LET user == users[requests[q].subject]
    IN  /\ At(q, "find")
        /\ IF user # None THEN Found(q, user)
                          ELSE requests' = [requests EXCEPT ![q].pc = "insert"]
        /\ UNCHANGED <<clients, users, pending, codes, tokens, clock, used>>

\* Mutant: the new id is taken for the user's, whether or not it was inserted.
InsertUserTrusting(q) ==
    LET s == requests[q].subject
    IN  /\ At(q, "insert")
        /\ \E u \in UserIds :
              /\ Fresh(u)
              /\ users' = IF users[s] = None THEN [users EXCEPT ![s] = u] ELSE users
              /\ Found(q, u)
        /\ UNCHANGED <<clients, pending, codes, tokens, clock>>

\* INSERT ... ON CONFLICT: an existing row keeps its id.
InsertUser(q) ==
    LET s == requests[q].subject
    IN  /\ At(q, "insert")
        /\ requests' = [requests EXCEPT ![q].pc = "reread"]
        /\ IF users[s] # None
             THEN UNCHANGED <<users, used>>
             ELSE \E u \in UserIds : Fresh(u) /\ users' = [users EXCEPT ![s] = u]
        /\ UNCHANGED <<clients, pending, codes, tokens, clock>>

\* The SELECT after the INSERT; without a row the callback fails.
RereadUser(q) ==
    LET user == users[requests[q].subject]
    IN  /\ At(q, "reread")
        /\ IF user # None THEN Found(q, user)
                          ELSE requests' = [requests EXCEPT ![q] = Idle]
        /\ UNCHANGED <<clients, users, pending, codes, tokens, clock, used>>

\* After the schemas have been ensured (gen 2), which never fails the callback.
IssueCode(q, d) ==
    /\ At(q, "code")
    /\ Fresh(d)
    /\ codes' \in put(codes, d,
                      [user |-> requests[q].user, client |-> requests[q].client,
                       redirect_uri |-> requests[q].redirect_uri,
                       code_challenge |-> requests[q].code_challenge,
                       expires_at |-> clock + AuthCodeTtl,
                       flow |-> requests[q].flow],
                      clock, MaxAuthCodes)
    /\ requests' = [requests EXCEPT ![q] = Idle]
    /\ UNCHANGED <<clients, users, pending, tokens, clock>>

-----------------------------------------------------------------------------
(* /token and /revoke                                                      *)

\* Gen 1 compares client_id and redirect_uri when they are sent ...
BindingIfSent(form, entry) ==
    /\ form.client \in {None, entry.client}
    /\ form.redirect_uri \in {None, entry.redirect_uri}

\* ... gen 2 requires them.
BindingRequired(form, entry) ==
    /\ form.client = entry.client
    /\ form.redirect_uri = entry.redirect_uri

Binding(form, entry) ==
    IF Generation = 1 THEN BindingIfSent(form, entry) ELSE BindingRequired(form, entry)

TokenForm == [verifier : Verifiers, client : Clients \cup {None},
              redirect_uri : Uris \cup {None}]

\* The handler goes on to issue_tokens with this user, client and flow.
Granted(q, item) ==
    requests' = [requests EXCEPT ![q] = [Idle EXCEPT
        !.pc = "grant", !.user = item.user, !.client = item.client, !.flow = item.flow]]

\* The code is gone even when the request is refused.
grant_auth_code(q, d, form) ==
    LET entry == retain(codes, clock)[d]
    IN  /\ At(q, "idle")
        /\ codes' = take(codes, d, clock)
        /\ IF entry # None /\ S256(form.verifier) = entry.code_challenge
                           /\ Binding(form, entry)
             THEN Granted(q, entry)
             ELSE UNCHANGED requests
        /\ UNCHANGED <<clients, users, pending, tokens, clock, used>>

\* grant_refresh reads the clock, then waits for a connection and the writer.
grant_refresh(q, t) ==
    /\ At(q, "idle")
    /\ requests' = [requests EXCEPT ![q] = [Idle EXCEPT
                        !.pc = "redeem", !.token = t, !.now = clock]]
    /\ UNCHANGED <<clients, users, pending, codes, tokens, clock, used>>

\* The WHERE clause of validate_and_revoke.
Redeemable(t, now) ==
    tokens[t] # None /\ ~tokens[t].revoked /\ tokens[t].expires_at > now

\* Mutant: a token that has been revoked is still good.
validate_and_revokeReplay(q) ==
    LET t == requests[q].token
    IN  /\ At(q, "redeem")
        /\ IF tokens[t] # None /\ tokens[t].expires_at > requests[q].now
             THEN Granted(q, tokens[t]) /\ tokens' = [tokens EXCEPT ![t].revoked = TRUE]
             ELSE requests' = [requests EXCEPT ![q] = Idle] /\ UNCHANGED tokens
        /\ UNCHANGED <<clients, users, pending, codes, clock, used>>

validate_and_revoke(q) ==
    LET t == requests[q].token
    IN  /\ At(q, "redeem")
        /\ IF Redeemable(t, requests[q].now)
             THEN Granted(q, tokens[t]) /\ tokens' = [tokens EXCEPT ![t].revoked = TRUE]
             ELSE requests' = [requests EXCEPT ![q] = Idle] /\ UNCHANGED tokens
        /\ UNCHANGED <<clients, users, pending, codes, clock, used>>

\* client_grant_types: what the client has registered for.
MayRefresh(c) == "refresh_token" \in Registration[c].grant_types

\* create_refresh fails by the foreign key when the user is gone.
issue_tokens(q) ==
    LET r == requests[q]
    IN  /\ At(q, "grant")
        /\ requests' = [requests EXCEPT ![q] = Idle]
        /\ IF MayRefresh(r.client) /\ r.user \in UserRows
             THEN \E t \in Tokens :
                     /\ Fresh(t)
                     /\ tokens' = [tokens EXCEPT ![t] =
                           [user |-> r.user, client |-> r.client, revoked |-> FALSE,
                            expires_at |-> clock + RefreshTtl, flow |-> r.flow]]
             ELSE UNCHANGED <<tokens, used>>
        /\ UNCHANGED <<clients, users, pending, codes, clock>>

revoke(t) ==
    /\ tokens' = IF tokens[t] = None THEN tokens ELSE [tokens EXCEPT ![t].revoked = TRUE]
    /\ UNCHANGED <<clients, users, pending, codes, requests, clock, used>>

-----------------------------------------------------------------------------
(* Failures, deletion, time                                                *)

\* Google, a query or the JWT library fails, or the client goes away and the
\* handler is dropped at an await.
Abort(q) ==
    /\ ~At(q, "idle")
    /\ requests' = [requests EXCEPT ![q] = Idle]
    /\ UNCHANGED <<clients, users, pending, codes, tokens, clock, used>>

\* Mutant: the user's tokens are left behind.
delete_cascadeKeepsTokens(s) ==
    /\ Generation = 1
    /\ users[s] # None
    /\ users' = [users EXCEPT ![s] = None]
    /\ UNCHANGED <<clients, pending, codes, tokens, requests, clock, used>>

delete_cascade(s) ==
    /\ Generation = 1
    /\ users[s] # None
    /\ users' = [users EXCEPT ![s] = None]
    /\ tokens' = [t \in Tokens |-> IF tokens[t] # None /\ tokens[t].user = users[s]
                                     THEN None ELSE tokens[t]]
    /\ UNCHANGED <<clients, pending, codes, requests, clock, used>>

Tick == /\ clock < MaxClock
        /\ clock' = clock + 1
        /\ UNCHANGED <<clients, users, pending, codes, tokens, requests, used>>

\* The maps and the handlers live in the process, the tables do not.
Restart ==
    /\ pending' = [k \in Keys |-> None]
    /\ codes' = [d \in Codes |-> None]
    /\ requests' = [q \in Requests |-> Idle]
    /\ UNCHANGED <<clients, users, tokens, clock, used>>

\* The steps of /callback/google, of both generations: gen 1 never finds first.
CallbackEndpoint(q) ==
    \/ \E k \in Keys : callback_google(q, k)
    \/ \E s \in Subjects : GoogleAnswers(q, s)
    \/ FindUser(q)
    \/ InsertUser(q)
    \/ RereadUser(q)
    \/ \E d \in Codes : IssueCode(q, d)

\* The steps of /token, by grant_type.
TokenEndpoint(q) ==
    \/ \E d \in Codes, form \in TokenForm : grant_auth_code(q, d, form)
    \/ \E t \in Tokens : grant_refresh(q, t)
    \/ validate_and_revoke(q)
    \/ issue_tokens(q)

HandlerStep(q) == CallbackEndpoint(q) \/ TokenEndpoint(q) \/ Abort(q)

Next ==
    \/ \E c \in Clients : register(c)
    \/ \E k \in Keys, c \in Clients, uri \in Uris, v \in Verifiers :
          authorize(k, c, uri, v)
    \/ \E q \in Requests : HandlerStep(q)
    \/ \E t \in Tokens : revoke(t)
    \/ \E s \in Subjects : delete_cascade(s)
    \/ Tick
    \/ Restart

Spec == Init /\ [][Next]_vars

-----------------------------------------------------------------------------
(* Properties                                                              *)

\* The tables, the session maps and the locals of the handlers, as serde, SQLite
\* and the match arms of the handlers leave them.
TypeOK == /\ clients \subseteq Clients
          /\ users \in [Subjects -> UserIds \cup {None}]
          /\ pending \in [Keys -> PendingAuth \cup {None}]
          /\ codes \in [Codes -> AuthCode \cup {None}]
          /\ tokens \in [Tokens -> RefreshToken \cup {None}]
          /\ requests \in [Requests -> Request]
          /\ clock \in 0..MaxClock
          /\ used \subseteq Keys \cup Codes \cup Tokens \cup UserIds

\* Where the authority granted by one /authorize may be: its pending entry, a
\* handler on its way to a code or a token, its code, an unrevoked token.
Holders(f) ==
    {<<"pending", k>> : k \in {f} \cap Entries(pending)}
        \cup {<<"request", q>> : q \in {r \in Requests : requests[r].flow = f}}
        \cup {<<"code", d>> : d \in {c \in Entries(codes) : codes[c].flow = f}}
        \cup {<<"token", t>> : t \in {s \in Entries(tokens) :
                 tokens[s].flow = f /\ ~tokens[s].revoked}}

\* One authorization is never in two hands: however callbacks, code exchanges,
\* refreshes and retries of them interleave, a pending entry yields one code, a
\* code one token and a token one successor (take_pending, take_code and
\* validate_and_revoke look up and remove in one step).
OneCredentialPerFlow == \A f \in Keys : \A x, y \in Holders(f) : x = y

\* The token can still be redeemed, now or by a refresh already under way.
Alive(t) ==
    \/ Redeemable(t, clock)
    \/ \E q \in Requests : /\ At(q, "redeem")
                           /\ requests[q].token = t
                           /\ Redeemable(t, requests[q].now)

\* Some holder of the flow has neither expired nor been revoked.
Valid(f) ==
    \/ retain(pending, clock)[f] # None
    \/ \E q \in Requests : requests[q].flow = f
    \/ \E d \in Codes : retain(codes, clock)[d] # None /\ codes[d].flow = f
    \/ \E t \in Tokens : Alive(t) /\ tokens[t].flow = f

\* Once an authorization has expired, been revoked, evicted, deleted or lost in
\* a restart or a failed exchange, nothing brings it back.
SpentStaysSpent ==
    [][\A f \in Keys : f \in used /\ ~Valid(f) => ~Valid(f)']_vars

\* Every code, grant and token names a row of the users table: of two first
\* logins of one Google account at the same time the loser of the insert uses
\* the winner's row (find_or_provision).  Gen 2, where no row is ever deleted.
CredentialsHaveUsers ==
    /\ \A d \in Entries(codes) : codes[d].user \in UserRows
    /\ \A q \in Requests : requests[q].user # None => requests[q].user \in UserRows
    /\ \A t \in Entries(tokens) : tokens[t].user \in UserRows

\* The session maps never outgrow their caps.
SessionsBounded ==
    /\ Cardinality(Entries(pending)) <= MaxPendingAuths
    /\ Cardinality(Entries(codes)) <= MaxAuthCodes

\* No refresh token outlives its account: delete_cascade removes the stored
\* ones and a grant that is under way when it runs stores none (gen 1).
TokensHaveUsers == \A t \in Entries(tokens) : tokens[t].user \in UserRows
=============================================================================
