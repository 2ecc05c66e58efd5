---------------------------- MODULE AccessTokens ----------------------------
(***************************************************************************)
(* The signing keys and the access tokens of both servers (jwt.rs of       *)
(* llm-memory-auth and vegapunk-memory-auth).  Keys come from the          *)
(* environment, one variable JWT_SIGNING_KEY_<kid> per key, so a rotation  *)
(* is a restart with other variables; tokens are not stored anywhere.  A   *)
(* kid is the sequence of its characters, a token its header and claims    *)
(* together with the secret that signed it.                                *)
(***************************************************************************)
EXTENDS Integers, Sequences

CONSTANTS
    MIN_HS256_KEY_BYTES,
    ACCESS_TOKEN_TTL_SECS,
    LEEWAY    \* seconds by which jsonwebtoken lets exp lie in the past

ASSUME TokenAssumption == {MIN_HS256_KEY_BYTES, ACCESS_TOKEN_TTL_SECS, LEEWAY} \subseteq Nat

\* The order of str: the first character that differs decides, or the length.
KidBefore(a, b) ==
    \E i \in 1..Len(b) : /\ \A k \in 1..i - 1 : k <= Len(a) /\ a[k] = b[k]
                         /\ i > Len(a) \/ a[i] < b[i]

\* current_kid after the loop of from_env, in whatever order env::vars comes.
CurrentKid(kids) == CHOOSE k \in kids : \A j \in kids : j = k \/ KidBefore(j, k)

\* What from_env accepts of one variable, in both generations.
UsableKey(value) == value.base64 /\ value.bytes >= MIN_HS256_KEY_BYTES

RefusedStart == [started |-> FALSE]

\* from_env of gen 1: every key must be usable, and there must be one.
WikiKeys(env) ==
    IF DOMAIN env = {} \/ \E kid \in DOMAIN env : ~UsableKey(env[kid]) THEN RefusedStart
    ELSE [started |-> TRUE, current_kid |-> CurrentKid(DOMAIN env),
          keys |-> [kid \in DOMAIN env |-> env[kid].secret]]

\* from_env of gen 2 also refuses a variable without a kid.
GraphKeys(env) == IF <<>> \in DOMAIN env THEN RefusedStart ELSE WikiKeys(env)

issue(keys, user, now) ==
    [kid |-> keys.current_kid, secret |-> keys.keys[keys.current_kid],
     sub |-> user, exp |-> now + ACCESS_TOKEN_TTL_SECS]

\* Mutant: the signature is checked with the current key.
verifyCurrent(keys, token, now) ==
    IF token.secret # keys.keys[keys.current_kid] THEN "InvalidSignature"
    ELSE IF token.exp < now - LEEWAY THEN "ExpiredSignature"
    ELSE token.sub

\* The user a token speaks for, or the reason why it is refused.
verify(keys, token, now) ==
    IF token.kid \notin DOMAIN keys.keys THEN "UnknownKid"
    ELSE IF token.secret # keys.keys[token.kid] THEN "InvalidSignature"
    ELSE IF token.exp < now - LEEWAY THEN "ExpiredSignature"
    ELSE token.sub
=============================================================================
