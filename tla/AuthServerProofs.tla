-------------------------- MODULE AuthServerProofs --------------------------
(***************************************************************************)
(* Proofs about AuthServer, for any number of clients, authorizations,     *)
(* tokens and concurrent handlers: types, an authorization is never in two *)
(* hands (OneCredential), no token outlives its account (TokensNeedUsers), *)
(* in generation 2 every credential names a row of users                   *)
(* (UsersOfCredentials), the session maps keep their caps                  *)
(* (SessionsWithinCaps), and what is spent stays spent (SpentForGood).     *)
(*                                                                         *)
(* The invariant behind most of it is IInv: the places in which an         *)
(* authorization may be exclude each other (Exclusive), what is somewhere  *)
(* has begun (FlowsUsed), and a handler holds one in certain phases only   *)
(* (Shape). SpentForGood is a statement about steps: each is shown to      *)
(* leave valid only what was valid before, place by place.                 *)
(***************************************************************************)
EXTENDS AuthServer, FiniteSetTheorems, TLAPS

\* What the locals of a handler are in each phase.
Shape ==
    \A q \in Requests :
        /\ requests[q].pc \in {"exchange", "find", "insert", "reread", "code"} =>
              /\ requests[q].client \in Clients
              /\ requests[q].redirect_uri \in Uris
              /\ requests[q].code_challenge \in Challenges
              /\ requests[q].flow \in Keys
        /\ requests[q].pc \in {"find", "insert", "reread"} =>
              requests[q].subject \in Subjects
        /\ requests[q].pc \in {"code", "grant"} => requests[q].user \in UserIds
        /\ requests[q].pc = "grant" => /\ requests[q].client \in Clients
                                       /\ requests[q].flow \in Keys
        /\ requests[q].pc = "redeem" => requests[q].token \in Tokens

\* The four places in which authorization f may be.
InPending(f) == pending[f] # None
InRequest(q, f) == requests[q].flow = f
InCode(d, f) == codes[d] # None /\ codes[d].flow = f
InToken(t, f) == tokens[t] # None /\ ~tokens[t].revoked /\ tokens[t].flow = f

\* What is somewhere has begun.
FlowsUsed ==
    \A f \in Keys :
        \/ InPending(f)
        \/ \E q \in Requests : InRequest(q, f)
        \/ \E d \in Codes : InCode(d, f)
        \/ \E t \in Tokens : InToken(t, f)
        => f \in used

\* OneCredentialPerFlow, place by place.
Exclusive ==
    \A f \in Keys :
        /\ InPending(f) => /\ \A q \in Requests : ~InRequest(q, f)
                           /\ \A d \in Codes : ~InCode(d, f)
                           /\ \A t \in Tokens : ~InToken(t, f)
        /\ \A q \in Requests : InRequest(q, f) =>
              /\ \A r \in Requests : InRequest(r, f) => r = q
              /\ \A d \in Codes : ~InCode(d, f)
              /\ \A t \in Tokens : ~InToken(t, f)
        /\ \A d \in Codes : InCode(d, f) =>
              /\ \A e \in Codes : InCode(e, f) => e = d
              /\ \A t \in Tokens : ~InToken(t, f)
        /\ \A t, u \in Tokens : InToken(t, f) /\ InToken(u, f) => t = u

\* The inductive invariant.
IInv == TypeOK /\ Shape /\ FlowsUsed /\ Exclusive

-----------------------------------------------------------------------------
(* The session maps                                                        *)

\* Pruning keeps an entry as it is or drops it.
LEMMA RetainFact ==
    ASSUME NEW S, NEW T, NEW m \in [S -> T \cup {None}], NEW now
    PROVE  /\ retain(m, now) \in [S -> T \cup {None}]
           /\ \A k \in S : retain(m, now)[k] # None => retain(m, now)[k] = m[k]
BY DEF retain

\* Taking leaves no entry under the key and adds none elsewhere.
LEMMA TakeFact ==
    ASSUME NEW S, NEW T, NEW m \in [S -> T \cup {None}], NEW now, NEW k \in S
    PROVE  /\ take(m, k, now) \in [S -> T \cup {None}]
           /\ take(m, k, now)[k] = None
           /\ \A j \in S : take(m, k, now)[j] # None => take(m, k, now)[j] = m[j]
BY RetainFact DEF take

\* Putting adds the entry under its key and none elsewhere.
LEMMA PutFact ==
    ASSUME NEW S, NEW T, NEW m \in [S -> T \cup {None}], NEW now, NEW cap,
           NEW k \in S, NEW e \in T, NEW n \in put(m, k, e, now, cap)
    PROVE  /\ n \in [S -> T \cup {None}]
           /\ n[k] = e
           /\ \A j \in S \ {k} : n[j] # None => n[j] = m[j]
<1> DEFINE live == retain(m, now)
<1>1. /\ live \in [S -> T \cup {None}]
      /\ \A j \in S : live[j] # None => live[j] = m[j]
  BY RetainFact
<1>2. \/ n = [live EXCEPT ![k] = e]
      \/ \E old \in Oldest(live) : n = [live EXCEPT ![old] = None, ![k] = e]
  BY DEF put
<1>3. Oldest(live) \subseteq S
  BY <1>1 DEF Oldest, Entries
<1> HIDE DEF live
<1> QED BY <1>1, <1>2, <1>3

-----------------------------------------------------------------------------
(* Moving an authorization                                                 *)

\* A step that puts nothing anywhere.
Shrinks ==
    \A f \in Keys :
        /\ InPending(f)' => InPending(f)
        /\ \A q \in Requests : InRequest(q, f)' => InRequest(q, f)
        /\ \A d \in Codes : InCode(d, f)' => InCode(d, f)
        /\ \A t \in Tokens : InToken(t, f)' => InToken(t, f)

\* Such a step keeps an authorization in one place.
LEMMA ShrinkSafe ==
    ASSUME Exclusive, FlowsUsed, Shrinks, used \subseteq used'
    PROVE  Exclusive' /\ FlowsUsed'
<1>1. Exclusive'
  BY DEF Exclusive, Shrinks
<1>2. FlowsUsed'
  BY DEF FlowsUsed, Shrinks
<1> QED BY <1>1, <1>2

-----------------------------------------------------------------------------
(* Types                                                                   *)

LEMMA TimesFact ==
    ASSUME NEW n \in 0..MaxClock
    PROVE  /\ n + PendingTtl \in Times
           /\ n + AuthCodeTtl \in Times
           /\ n + RefreshTtl \in Times
BY AuthAssumption DEF Times

LEMMA IdleFact == Idle \in Request
BY AuthAssumption DEF Idle, Request

\* A handler that ends, or one that has not begun, holds nothing.
LEMMA IdleHoldsNothing ==
    ASSUME NEW f \in Keys
    PROVE  Idle.flow # f
BY AuthAssumption DEF Idle

-----------------------------------------------------------------------------
(* The invariant                                                           *)

LEMMA InitInv == Init => IInv
<1> SUFFICES ASSUME Init PROVE IInv
  OBVIOUS
<1> USE DEF Init
<1>1. TypeOK
  BY IdleFact, AuthAssumption DEF TypeOK
<1>2. Shape
  BY DEF Shape, Idle
<1>3. FlowsUsed /\ Exclusive
  BY IdleHoldsNothing DEF FlowsUsed, Exclusive, InPending, InRequest, InCode, InToken
<1> QED BY <1>1, <1>2, <1>3 DEF IInv

\* Steps that change neither a handler nor where an authorization is.
LEMMA RegisterInv == ASSUME IInv, NEW c \in Clients, register(c) PROVE IInv'
<1> USE DEF IInv, register, InsertClient
<1>1. TypeOK' BY DEF TypeOK
<1>2. Shape' BY DEF Shape
<1>3. Exclusive' /\ FlowsUsed'
  BY DEF FlowsUsed, Exclusive, InPending, InRequest, InCode, InToken
<1> QED BY <1>1, <1>2, <1>3

LEMMA TickInv == ASSUME IInv, Tick PROVE IInv'
<1> USE DEF IInv, Tick
<1>1. TypeOK' BY AuthAssumption DEF TypeOK
<1>2. Shape' BY DEF Shape
<1>3. Exclusive' /\ FlowsUsed'
  BY DEF FlowsUsed, Exclusive, InPending, InRequest, InCode, InToken
<1> QED BY <1>1, <1>2, <1>3

LEMMA RestartInv == ASSUME IInv, Restart PROVE IInv'
<1> USE DEF IInv, Restart
<1>1. TypeOK' BY IdleFact DEF TypeOK
<1>2. Shape' BY DEF Shape, Idle
<1>3. Shrinks
  BY IdleHoldsNothing DEF Shrinks, InPending, InRequest, InCode, InToken
<1> QED BY <1>1, <1>2, <1>3, ShrinkSafe

LEMMA RevokeInv == ASSUME IInv, NEW t \in Tokens, revoke(t) PROVE IInv'
<1> USE DEF IInv, revoke
<1>1. TypeOK' BY DEF TypeOK, RefreshToken
<1>2. Shape' BY DEF Shape
<1>3. Shrinks
  BY DEF TypeOK, RefreshToken, Shrinks, InPending, InRequest, InCode, InToken
<1> QED BY <1>1, <1>2, <1>3, ShrinkSafe

LEMMA DeleteInv == ASSUME IInv, NEW s \in Subjects, delete_cascade(s) PROVE IInv'
<1> USE DEF IInv, delete_cascade
<1>1. TypeOK' BY DEF TypeOK
<1>2. Shape' BY DEF Shape
<1>3. Shrinks
  BY DEF TypeOK, Shrinks, InPending, InRequest, InCode, InToken
<1> QED BY <1>1, <1>2, <1>3, ShrinkSafe

\* /authorize: the key is fresh, so the authorization is nowhere else.
LEMMA AuthorizeInv ==
    ASSUME IInv, NEW k \in Keys, NEW c \in Clients, NEW uri \in Uris,
           NEW v \in Verifiers, authorize(k, c, uri, v)
    PROVE  IInv'
<1> USE DEF IInv
<1> DEFINE entry == [client |-> c, redirect_uri |-> uri, code_challenge |-> S256(v),
                     expires_at |-> clock + PendingTtl]
<1>1. entry \in PendingAuth
  BY TimesFact DEF PendingAuth, Challenges, TypeOK
<1>2. /\ pending' \in put(pending, k, entry, clock, MaxPendingAuths)
      /\ k \notin used
      /\ used' = used \cup {k}
      /\ UNCHANGED <<clients, users, codes, tokens, requests, clock>>
  BY DEF authorize, Fresh
<1> HIDE DEF entry
<1>3. /\ pending' \in [Keys -> PendingAuth \cup {None}]
      /\ \A j \in Keys \ {k} : pending'[j] # None => pending'[j] = pending[j]
  <2>1. pending \in [Keys -> PendingAuth \cup {None}]
    BY DEF TypeOK
  <2> HIDE DEF IInv
  <2>2. \A e \in PendingAuth : \A n \in put(pending, k, e, clock, MaxPendingAuths) :
          /\ n \in [Keys -> PendingAuth \cup {None}]
          /\ \A j \in Keys \ {k} : n[j] # None => n[j] = pending[j]
    BY <2>1, PutFact
  <2> QED BY <1>1, <1>2, <2>2
<1>4. TypeOK' BY <1>2, <1>3 DEF TypeOK
<1>5. Shape' BY <1>2 DEF Shape
<1>6. \A f \in Keys :
         /\ InPending(f)' => InPending(f) \/ f = k
         /\ \A q \in Requests : InRequest(q, f)' <=> InRequest(q, f)
         /\ \A d \in Codes : InCode(d, f)' <=> InCode(d, f)
         /\ \A t \in Tokens : InToken(t, f)' <=> InToken(t, f)
  BY <1>2, <1>3 DEF InPending, InRequest, InCode, InToken
<1>7. Exclusive' BY <1>2, <1>6 DEF Exclusive, FlowsUsed
<1>8. FlowsUsed' BY <1>2, <1>6 DEF FlowsUsed
<1> QED BY <1>4, <1>5, <1>7, <1>8

\* A step that only changes the locals of handler q, and not what it holds.
LEMMA HandlerKeeps ==
    ASSUME IInv, NEW q \in Requests, NEW r \in Request,
           requests' = [requests EXCEPT ![q] = r],
           r.flow \in {None, requests[q].flow},
           Shape',
           users' \in [Subjects -> UserIds \cup {None}],
           used \subseteq used',
           used' \subseteq Keys \cup Codes \cup Tokens \cup UserIds,
           UNCHANGED <<clients, pending, codes, tokens, clock>>
    PROVE  IInv'
<1> USE DEF IInv
<1>1. TypeOK' BY DEF TypeOK
<1>2. Shrinks
  BY AuthAssumption DEF TypeOK, Shrinks, InPending, InRequest, InCode, InToken
<1> QED BY <1>1, <1>2, ShrinkSafe

LEMMA GoogleAnswersInv ==
    ASSUME IInv, NEW q \in Requests, NEW s \in Subjects, GoogleAnswers(q, s)
    PROVE  IInv'
<1> USE DEF IInv, GoogleAnswers, At
<1> DEFINE r == [requests[q] EXCEPT !.subject = s,
                     !.pc = IF Generation = 1 THEN "insert" ELSE "find"]
<1>1. /\ r \in Request
      /\ r.flow = requests[q].flow
      /\ requests' = [requests EXCEPT ![q] = r]
  BY DEF TypeOK, Request
<1>2. Shape'
  BY DEF TypeOK, Request, Shape
<1> HIDE DEF r
<1> QED BY <1>1, <1>2, HandlerKeeps DEF TypeOK

LEMMA FindUserInv == ASSUME IInv, NEW q \in Requests, FindUser(q) PROVE IInv'
<1> USE DEF IInv
<1> DEFINE user == users[requests[q].subject]
           r == IF user # None
                  THEN [requests[q] EXCEPT !.pc = "code", !.user = user, !.subject = None]
                  ELSE [requests[q] EXCEPT !.pc = "insert"]
<1>1. /\ requests[q] \in Request
      /\ requests[q].pc = "find"
      /\ requests[q].subject \in Subjects
      /\ user \in UserIds \cup {None}
  BY DEF TypeOK, Shape, FindUser, At
<1>2. /\ requests' = [requests EXCEPT ![q] = r]
      /\ UNCHANGED <<clients, users, pending, codes, tokens, clock, used>>
  BY <1>1 DEF TypeOK, FindUser, Found
<1>3. r \in Request /\ r.flow = requests[q].flow
  BY <1>1 DEF Request
<1>4. Shape'
  BY <1>1, <1>2 DEF TypeOK, Request, Shape
<1> HIDE DEF r
<1> QED BY <1>2, <1>3, <1>4, HandlerKeeps DEF TypeOK

LEMMA InsertUserInv == ASSUME IInv, NEW q \in Requests, InsertUser(q) PROVE IInv'
<1> USE DEF IInv
<1> DEFINE r == [requests[q] EXCEPT !.pc = "reread"]
<1>1. /\ requests[q] \in Request
      /\ requests[q].pc = "insert"
      /\ requests[q].subject \in Subjects
  BY DEF TypeOK, Shape, InsertUser, At
<1>2. /\ requests' = [requests EXCEPT ![q] = r]
      /\ UNCHANGED <<clients, pending, codes, tokens, clock>>
  BY <1>1 DEF TypeOK, InsertUser
<1>3. /\ users' \in [Subjects -> UserIds \cup {None}]
      /\ used \subseteq used'
      /\ used' \subseteq Keys \cup Codes \cup Tokens \cup UserIds
  BY <1>1 DEF TypeOK, InsertUser, Fresh
<1>4. r \in Request /\ r.flow = requests[q].flow
  BY <1>1 DEF Request
<1>5. Shape'
  BY <1>1, <1>2 DEF TypeOK, Request, Shape
<1> HIDE DEF r
<1> QED BY <1>2, <1>3, <1>4, <1>5, HandlerKeeps

LEMMA RereadUserInv == ASSUME IInv, NEW q \in Requests, RereadUser(q) PROVE IInv'
<1> USE DEF IInv
<1> DEFINE user == users[requests[q].subject]
           r == IF user # None
                  THEN [requests[q] EXCEPT !.pc = "code", !.user = user, !.subject = None]
                  ELSE Idle
<1>1. /\ requests[q] \in Request
      /\ requests[q].pc = "reread"
      /\ requests[q].subject \in Subjects
      /\ user \in UserIds \cup {None}
  BY DEF TypeOK, Shape, RereadUser, At
<1>2. /\ requests' = [requests EXCEPT ![q] = r]
      /\ UNCHANGED <<clients, users, pending, codes, tokens, clock, used>>
  BY <1>1 DEF TypeOK, RereadUser, Found
<1>3. r \in Request /\ r.flow \in {None, requests[q].flow}
  BY <1>1, IdleFact DEF Request, Idle
<1>4. Shape'
  BY <1>1, <1>2 DEF TypeOK, Request, Shape, Idle
<1> HIDE DEF r
<1> QED BY <1>2, <1>3, <1>4, HandlerKeeps DEF TypeOK

LEMMA AbortInv == ASSUME IInv, NEW q \in Requests, Abort(q) PROVE IInv'
<1> USE DEF IInv, Abort
<1>1. Shape' BY DEF TypeOK, Shape, Idle
<1>2. Idle \in Request /\ Idle.flow = None
  BY IdleFact DEF Idle
<1> QED BY <1>1, <1>2, HandlerKeeps DEF TypeOK

LEMMA RefreshInv ==
    ASSUME IInv, NEW q \in Requests, NEW t \in Tokens, grant_refresh(q, t)
    PROVE  IInv'
<1> USE DEF IInv, grant_refresh
<1> DEFINE r == [Idle EXCEPT !.pc = "redeem", !.token = t, !.now = clock]
<1>1. r \in Request /\ r.flow = None
  BY IdleFact DEF Idle, Request, TypeOK
<1>2. Shape'
  BY DEF TypeOK, Request, Shape, Idle
<1> HIDE DEF r
<1>3. requests' = [requests EXCEPT ![q] = r]
  BY DEF r
<1> QED BY <1>1, <1>2, <1>3, HandlerKeeps DEF TypeOK

\* The pending entry goes to the handler.
LEMMA CallbackInv ==
    ASSUME IInv, NEW q \in Requests, NEW k \in Keys, callback_google(q, k)
    PROVE  IInv'
<1> USE DEF IInv
<1> DEFINE entry == retain(pending, clock)[k]
           r == [Idle EXCEPT !.pc = "exchange", !.client = entry.client,
                     !.redirect_uri = entry.redirect_uri,
                     !.code_challenge = entry.code_challenge, !.flow = k]
<1>1. /\ pending' = take(pending, k, clock)
      /\ requests' = IF entry = None THEN requests ELSE [requests EXCEPT ![q] = r]
      /\ UNCHANGED <<clients, users, codes, tokens, clock, used>>
  BY DEF callback_google
<1>2. /\ pending' \in [Keys -> PendingAuth \cup {None}]
      /\ pending'[k] = None
      /\ \A j \in Keys : pending'[j] # None => pending'[j] = pending[j]
  <2>1. pending \in [Keys -> PendingAuth \cup {None}]
    BY DEF TypeOK
  <2> QED BY <1>1, <2>1, TakeFact
<1>3. entry # None => entry \in PendingAuth /\ entry = pending[k]
  <2>1. pending \in [Keys -> PendingAuth \cup {None}]
    BY DEF TypeOK
  <2> HIDE DEF IInv
  <2>2. /\ retain(pending, clock) \in [Keys -> PendingAuth \cup {None}]
        /\ \A j \in Keys : retain(pending, clock)[j] # None => retain(pending, clock)[j] = pending[j]
    BY <2>1, RetainFact
  <2> QED BY <2>2
<1> HIDE DEF entry
<1>4. entry # None => r \in Request /\ r.flow = k
  BY <1>3, IdleFact DEF PendingAuth, Request, Idle
<1>5. Shape'
  BY <1>1, <1>3 DEF TypeOK, Shape, PendingAuth, Idle
<1> HIDE DEF r
<1>6. TypeOK'
  BY <1>1, <1>2, <1>4 DEF TypeOK
<1>7. \A f \in Keys :
         /\ InPending(f)' => InPending(f) /\ f # k
         /\ \A p \in Requests : InRequest(p, f)' =>
               InRequest(p, f) \/ (p = q /\ f = k /\ InPending(k))
         /\ \A d \in Codes : InCode(d, f)' <=> InCode(d, f)
         /\ \A t \in Tokens : InToken(t, f)' <=> InToken(t, f)
  BY <1>1, <1>2, <1>3, <1>4 DEF TypeOK, InPending, InRequest, InCode, InToken
<1>8. Exclusive' BY <1>7 DEF Exclusive
<1>9. FlowsUsed' BY <1>1, <1>7 DEF FlowsUsed
<1> QED BY <1>5, <1>6, <1>8, <1>9

\* What the handler holds goes to the code.
LEMMA IssueCodeInv ==
    ASSUME IInv, NEW q \in Requests, NEW d \in Codes, IssueCode(q, d)
    PROVE  IInv'
<1> USE DEF IInv
<1> DEFINE entry == [user |-> requests[q].user, client |-> requests[q].client,
                     redirect_uri |-> requests[q].redirect_uri,
                     code_challenge |-> requests[q].code_challenge,
                     expires_at |-> clock + AuthCodeTtl,
                     flow |-> requests[q].flow]
<1>1. entry \in AuthCode /\ entry.flow = requests[q].flow
  BY TimesFact DEF AuthCode, TypeOK, Shape, IssueCode, At
<1>2. /\ codes' \in put(codes, d, entry, clock, MaxAuthCodes)
      /\ requests' = [requests EXCEPT ![q] = Idle]
      /\ used' = used \cup {d}
      /\ UNCHANGED <<clients, users, pending, tokens, clock>>
  BY DEF IssueCode, Fresh
<1> HIDE DEF entry
<1>3. /\ codes' \in [Codes -> AuthCode \cup {None}]
      /\ codes'[d] = entry
      /\ \A e \in Codes \ {d} : codes'[e] # None => codes'[e] = codes[e]
  <2>1. codes \in [Codes -> AuthCode \cup {None}]
    BY DEF TypeOK
  <2> HIDE DEF IInv
  <2>2. \A e \in AuthCode : \A n \in put(codes, d, e, clock, MaxAuthCodes) :
          /\ n \in [Codes -> AuthCode \cup {None}]
          /\ n[d] = e
          /\ \A j \in Codes \ {d} : n[j] # None => n[j] = codes[j]
    BY <2>1, PutFact
  <2> QED BY <1>1, <1>2, <2>2
<1>4. TypeOK' BY <1>2, <1>3, IdleFact DEF TypeOK
<1>5. Shape' BY <1>2 DEF TypeOK, Shape, Idle
<1>6. \A f \in Keys :
         /\ InPending(f)' <=> InPending(f)
         /\ \A p \in Requests : InRequest(p, f)' => InRequest(p, f) /\ p # q
         /\ \A e \in Codes : InCode(e, f)' =>
               InCode(e, f) \/ (e = d /\ InRequest(q, f))
         /\ \A t \in Tokens : InToken(t, f)' <=> InToken(t, f)
  BY <1>1, <1>2, <1>3, IdleHoldsNothing DEF TypeOK, InPending, InRequest, InCode, InToken
<1>7. Exclusive' BY <1>6 DEF Exclusive
<1>8. FlowsUsed' BY <1>2, <1>6 DEF FlowsUsed
<1> QED BY <1>4, <1>5, <1>7, <1>8

\* The code goes to the handler, or is gone.
LEMMA GrantCodeInv ==
    ASSUME IInv, NEW q \in Requests, NEW d \in Codes, NEW form,
           grant_auth_code(q, d, form)
    PROVE  IInv'
<1> USE DEF IInv
<1> DEFINE entry == retain(codes, clock)[d]
           r == [Idle EXCEPT !.pc = "grant", !.user = entry.user,
                     !.client = entry.client, !.flow = entry.flow]
<1>1. /\ codes' = take(codes, d, clock)
      /\ \/ UNCHANGED requests
         \/ entry # None /\ requests' = [requests EXCEPT ![q] = r]
      /\ UNCHANGED <<clients, users, pending, tokens, clock, used>>
  BY DEF grant_auth_code, Granted
<1>2. /\ codes' \in [Codes -> AuthCode \cup {None}]
      /\ codes'[d] = None
      /\ \A e \in Codes : codes'[e] # None => codes'[e] = codes[e]
  <2>1. codes \in [Codes -> AuthCode \cup {None}]
    BY DEF TypeOK
  <2>2. codes' = take(codes, d, clock)
    BY <1>1
  <2> QED BY <2>1, <2>2, TakeFact
<1>3. entry # None => entry \in AuthCode /\ entry = codes[d]
  <2>1. codes \in [Codes -> AuthCode \cup {None}]
    BY DEF TypeOK
  <2> HIDE DEF IInv
  <2>2. /\ retain(codes, clock) \in [Codes -> AuthCode \cup {None}]
        /\ \A k \in Codes : retain(codes, clock)[k] # None => retain(codes, clock)[k] = codes[k]
    BY <2>1, RetainFact
  <2> QED BY <2>2
<1> HIDE DEF entry
<1>4. entry # None => r \in Request /\ r.flow = entry.flow
  BY <1>3, IdleFact DEF AuthCode, Request, Idle
<1>5. Shape'
  <2>1. CASE UNCHANGED requests
    BY <2>1 DEF Shape
  <2>2. CASE entry # None /\ requests' = [requests EXCEPT ![q] = r]
    BY <2>2, <1>3 DEF TypeOK, Shape, AuthCode, Idle
  <2> QED BY <1>1, <2>1, <2>2
<1> HIDE DEF r
<1>6. TypeOK'
  BY <1>1, <1>2, <1>4 DEF TypeOK
<1>7. \A f \in Keys :
         /\ InPending(f)' <=> InPending(f)
         /\ \A p \in Requests : InRequest(p, f)' =>
               InRequest(p, f) \/ (p = q /\ InCode(d, f))
         /\ \A e \in Codes : InCode(e, f)' => InCode(e, f) /\ e # d
         /\ \A t \in Tokens : InToken(t, f)' <=> InToken(t, f)
  BY <1>1, <1>2, <1>3, <1>4 DEF TypeOK, InPending, InRequest, InCode, InToken
<1>8. Exclusive' BY <1>7 DEF Exclusive
<1>9. FlowsUsed' BY <1>1, <1>7 DEF FlowsUsed
<1> QED BY <1>5, <1>6, <1>8, <1>9

\* The token is revoked in the step in which it is found good.
LEMMA RedeemInv == ASSUME IInv, NEW q \in Requests, validate_and_revoke(q) PROVE IInv'
<1> USE DEF IInv
<1> DEFINE t == requests[q].token
           r == [Idle EXCEPT !.pc = "grant", !.user = tokens[t].user,
                     !.client = tokens[t].client, !.flow = tokens[t].flow]
<1>1. t \in Tokens /\ requests[q] \in Request
  BY DEF TypeOK, Shape, validate_and_revoke, At
<1>2. UNCHANGED <<clients, users, pending, codes, clock, used>>
  BY DEF validate_and_revoke
<1>3. CASE Redeemable(t, requests[q].now)
  <2>1. /\ tokens[t] \in RefreshToken
        /\ tokens[t] # None
        /\ ~tokens[t].revoked
    BY <1>1, <1>3 DEF Redeemable, TypeOK
  <2>2. /\ requests' = [requests EXCEPT ![q] = r]
        /\ tokens' = [tokens EXCEPT ![t].revoked = TRUE]
    BY <1>3 DEF validate_and_revoke, Granted
  <2>3. r \in Request /\ r.flow = tokens[t].flow
    BY <2>1, IdleFact DEF RefreshToken, Request, Idle
  <2>4. Shape'
    BY <2>1, <2>2 DEF TypeOK, Shape, RefreshToken, Idle
  <2> HIDE DEF r
  <2>5. TypeOK'
    BY <1>1, <1>2, <2>1, <2>2, <2>3 DEF TypeOK, RefreshToken
  <2>6. \A f \in Keys :
           /\ InPending(f)' <=> InPending(f)
           /\ \A p \in Requests : InRequest(p, f)' =>
                 InRequest(p, f) \/ (p = q /\ InToken(t, f))
           /\ \A d \in Codes : InCode(d, f)' <=> InCode(d, f)
           /\ \A u \in Tokens : InToken(u, f)' => InToken(u, f) /\ u # t
    BY <1>1, <1>2, <2>1, <2>2, <2>3
       DEF TypeOK, RefreshToken, InPending, InRequest, InCode, InToken
  <2> HIDE DEF t
  <2>7. Exclusive' BY <1>1, <2>6 DEF Exclusive
  <2>8. FlowsUsed' BY <1>1, <1>2, <2>6 DEF FlowsUsed
  <2> QED BY <2>4, <2>5, <2>7, <2>8
<1>4. CASE ~Redeemable(t, requests[q].now)
  <2>1. requests' = [requests EXCEPT ![q] = Idle] /\ UNCHANGED tokens
    BY <1>4 DEF validate_and_revoke
  <2>2. Shape' BY <2>1 DEF TypeOK, Shape, Idle
  <2>3. Idle \in Request /\ Idle.flow = None
    BY IdleFact DEF Idle
  <2> QED BY <1>2, <2>1, <2>2, <2>3, HandlerKeeps DEF TypeOK
<1> QED BY <1>3, <1>4

\* What the handler holds goes to the new token, or is gone.
LEMMA IssueTokensInv == ASSUME IInv, NEW q \in Requests, issue_tokens(q) PROVE IInv'
<1> USE DEF IInv
<1> DEFINE row == [user |-> requests[q].user, client |-> requests[q].client,
                   revoked |-> FALSE, expires_at |-> clock + RefreshTtl,
                   flow |-> requests[q].flow]
<1>1. row \in RefreshToken /\ row.flow = requests[q].flow
  BY TimesFact DEF RefreshToken, TypeOK, Shape, issue_tokens, At
<1>2. /\ requests' = [requests EXCEPT ![q] = Idle]
      /\ UNCHANGED <<clients, users, pending, codes, clock>>
  BY DEF issue_tokens
<1>3. Shape' BY <1>2 DEF TypeOK, Shape, Idle
<1>4. CASE UNCHANGED <<tokens, used>>
  <2>1. Idle \in Request /\ Idle.flow = None
    BY IdleFact DEF Idle
  <2> QED BY <1>2, <1>3, <1>4, <2>1, HandlerKeeps DEF TypeOK
<1>5. CASE \E t \in Tokens : used' = used \cup {t} /\ tokens' = [tokens EXCEPT ![t] = row]
  <2>1. PICK t \in Tokens : used' = used \cup {t} /\ tokens' = [tokens EXCEPT ![t] = row]
    BY <1>5
  <2> HIDE DEF row
  <2>2. TypeOK' BY <1>1, <1>2, <2>1, IdleFact DEF TypeOK
  <2>3. \A f \in Keys :
           /\ InPending(f)' <=> InPending(f)
           /\ \A p \in Requests : InRequest(p, f)' => InRequest(p, f) /\ p # q
           /\ \A d \in Codes : InCode(d, f)' <=> InCode(d, f)
           /\ \A u \in Tokens : InToken(u, f)' =>
                 InToken(u, f) \/ (u = t /\ InRequest(q, f))
    BY <1>1, <1>2, <2>1, IdleHoldsNothing
       DEF TypeOK, InPending, InRequest, InCode, InToken
  <2>4. Exclusive' BY <2>3 DEF Exclusive
  <2>5. FlowsUsed' BY <2>1, <2>3 DEF FlowsUsed
  <2> QED BY <1>3, <2>2, <2>4, <2>5
<1> QED BY <1>4, <1>5 DEF issue_tokens, Fresh

-----------------------------------------------------------------------------
(* The theorems                                                            *)

LEMMA NextInv == IInv /\ [Next]_vars => IInv'
<1> SUFFICES ASSUME IInv, [Next]_vars PROVE IInv'
  OBVIOUS
<1>1. CASE UNCHANGED vars
  BY <1>1 DEF vars, IInv, TypeOK, Shape, FlowsUsed, Exclusive,
              InPending, InRequest, InCode, InToken
<1>2. CASE \E c \in Clients : register(c)
  BY <1>2, RegisterInv
<1>3. CASE \E k \in Keys, c \in Clients, uri \in Uris, v \in Verifiers :
              authorize(k, c, uri, v)
  BY <1>3, AuthorizeInv
<1>4. CASE \E q \in Requests : HandlerStep(q)
  <2>1. PICK q \in Requests : HandlerStep(q)
    BY <1>4
  <2> QED BY <2>1, CallbackInv, GoogleAnswersInv, FindUserInv, InsertUserInv,
             RereadUserInv, IssueCodeInv, GrantCodeInv, RefreshInv, RedeemInv,
             IssueTokensInv, AbortInv DEF HandlerStep, CallbackEndpoint, TokenEndpoint
<1>5. CASE \E t \in Tokens : revoke(t)
  BY <1>5, RevokeInv
<1>6. CASE \E s \in Subjects : delete_cascade(s)
  BY <1>6, DeleteInv
<1>7. CASE Tick
  BY <1>7, TickInv
<1>8. CASE Restart
  BY <1>8, RestartInv
<1> QED BY <1>1, <1>2, <1>3, <1>4, <1>5, <1>6, <1>7, <1>8 DEF Next

LEMMA ExclusiveIsEnough == IInv => OneCredentialPerFlow
<1> SUFFICES ASSUME IInv, NEW f \in Keys, NEW x \in Holders(f), NEW y \in Holders(f)
             PROVE  x = y
  BY DEF OneCredentialPerFlow
<1>1. \A h \in Holders(f) :
         \/ h = <<"pending", f>> /\ InPending(f)
         \/ \E q \in Requests : h = <<"request", q>> /\ InRequest(q, f)
         \/ \E d \in Codes : h = <<"code", d>> /\ InCode(d, f)
         \/ \E t \in Tokens : h = <<"token", t>> /\ InToken(t, f)
  BY DEF Holders, Entries, IInv, TypeOK, InPending, InRequest, InCode, InToken
<1>2. Exclusive
  BY DEF IInv
<1> QED BY <1>1, <1>2 DEF Exclusive

\* TypeOK for every number of clients, users, authorizations and handlers:
\* the handlers' locals, the session maps and the tables keep their types.
THEOREM AuthTypes == Spec => []TypeOK
<1>1. IInv => TypeOK BY DEF IInv
<1> QED BY <1>1, InitInv, NextInv, PTL DEF Spec

\* An authorization is never in two hands (OneCredentialPerFlow): take_pending,
\* take_code and validate_and_revoke each hand it on exactly once, whatever
\* runs concurrently, expires, is evicted, fails or restarts.
THEOREM OneCredential == Spec => []OneCredentialPerFlow
BY InitInv, NextInv, ExclusiveIsEnough, PTL DEF Spec

-----------------------------------------------------------------------------
(* Users                                                                   *)

\* The steps that write to the users or the tokens table.
LEMMA TableSteps ==
    Next => \/ UNCHANGED <<users, tokens>>
            \/ \E q \in Requests : InsertUser(q) \/ validate_and_revoke(q) \/ issue_tokens(q)
            \/ \E t \in Tokens : revoke(t)
            \/ \E s \in Subjects : delete_cascade(s)
  BY DEF Next, HandlerStep, CallbackEndpoint, TokenEndpoint, register, InsertClient, authorize,
         callback_google, GoogleAnswers, FindUser,
         RereadUser, IssueCode, grant_auth_code, grant_refresh, Abort, Tick, Restart

\* No step removes a row of the users table but delete_cascade, which takes
\* the user's tokens with it.
LEMMA TokensHaveUsersStep ==
    TypeOK /\ Shape /\ TokensHaveUsers /\ [Next]_vars => TokensHaveUsers'
<1> SUFFICES ASSUME TypeOK, Shape, TokensHaveUsers, [Next]_vars PROVE TokensHaveUsers'
  OBVIOUS
<1>1. CASE UNCHANGED <<users, tokens>>
  BY <1>1 DEF TokensHaveUsers, Entries, UserRows
<1>2. CASE \E q \in Requests : InsertUser(q)
  <2>1. PICK q \in Requests : InsertUser(q)
    BY <1>2
  <2>2. UserRows \subseteq UserRows'
    BY <2>1 DEF InsertUser, At, TypeOK, Shape, UserRows
  <2>3. UNCHANGED tokens
    BY <2>1 DEF InsertUser
  <2> QED BY <2>2, <2>3 DEF TokensHaveUsers, Entries
<1>3. CASE \E q \in Requests : validate_and_revoke(q)
  <2>1. PICK q \in Requests : validate_and_revoke(q)
    BY <1>3
  <2>2. UNCHANGED users
    BY <2>1 DEF validate_and_revoke
  <2>3. \A t \in Tokens : tokens'[t] # None => tokens[t] # None /\ tokens'[t].user = tokens[t].user
    BY <2>1 DEF validate_and_revoke, At, Redeemable, TypeOK, Shape, RefreshToken
  <2>4. DOMAIN tokens' = Tokens /\ DOMAIN tokens = Tokens
    BY <2>1 DEF validate_and_revoke, TypeOK
  <2> QED BY <2>2, <2>3, <2>4 DEF TokensHaveUsers, Entries, UserRows
<1>4. CASE \E t \in Tokens : revoke(t)
  <2>1. PICK t \in Tokens : revoke(t)
    BY <1>4
  <2>2. UNCHANGED users
    BY <2>1 DEF revoke
  <2>3. \A u \in Tokens : tokens'[u] # None => tokens[u] # None /\ tokens'[u].user = tokens[u].user
    BY <2>1 DEF revoke, TypeOK, RefreshToken
  <2>4. DOMAIN tokens' = Tokens /\ DOMAIN tokens = Tokens
    BY <2>1 DEF revoke, TypeOK
  <2> QED BY <2>2, <2>3, <2>4 DEF TokensHaveUsers, Entries, UserRows
<1>5. CASE \E q \in Requests : issue_tokens(q)
  <2>1. PICK q \in Requests : issue_tokens(q)
    BY <1>5
  <2>2. UNCHANGED users
    BY <2>1 DEF issue_tokens
  <2>3. DOMAIN tokens' = Tokens /\ DOMAIN tokens = Tokens
    BY <2>1 DEF issue_tokens, TypeOK
  <2>4. \A t \in Tokens : tokens'[t] # None =>
           tokens'[t] = tokens[t] \/ tokens'[t].user \in UserRows
    BY <2>1 DEF issue_tokens, TypeOK
  <2> QED BY <2>2, <2>3, <2>4 DEF TokensHaveUsers, Entries, UserRows
<1>6. CASE \E s \in Subjects : delete_cascade(s)
  <2>1. PICK s \in Subjects : delete_cascade(s)
    BY <1>6
  <2>2. \A t \in Tokens : tokens'[t] # None =>
           tokens'[t] = tokens[t] /\ tokens[t].user # users[s]
    BY <2>1 DEF delete_cascade, TypeOK
  <2>3. DOMAIN tokens' = Tokens /\ DOMAIN tokens = Tokens
    BY <2>1 DEF delete_cascade, TypeOK
  <2>4. UserRows \ {users[s]} \subseteq UserRows'
    BY <2>1 DEF delete_cascade, TypeOK, UserRows
  <2> QED BY <2>2, <2>3, <2>4 DEF TokensHaveUsers, Entries
<1> QED BY <1>1, <1>2, <1>3, <1>4, <1>5, <1>6, TableSteps DEF vars

\* No refresh token outlives its account (TokensHaveUsers), for any number of
\* users, tokens and grants under way when delete_cascade runs.
THEOREM TokensNeedUsers == Spec => []TokensHaveUsers
<1>1. Init => TokensHaveUsers
  BY DEF Init, TokensHaveUsers, Entries
<1>2. IInv => TypeOK /\ Shape
  BY DEF IInv
<1> QED BY <1>1, <1>2, InitInv, NextInv, TokensHaveUsersStep, PTL DEF Spec

-----------------------------------------------------------------------------
(* The users of generation 2                                               *)

\* Every step of generation 2 keeps the rows of the users table.
LEMMA RowsStay ==
    ASSUME Generation = 2, TypeOK, Shape, [Next]_vars
    PROVE  UserRows \subseteq UserRows'
<1>1. CASE \E q \in Requests : InsertUser(q)
  BY <1>1 DEF InsertUser, At, TypeOK, Shape, UserRows
<1>2. Next => UNCHANGED users \/ \E q \in Requests : InsertUser(q)
  <2>1. \A q \in Requests : validate_and_revoke(q) \/ issue_tokens(q) => UNCHANGED users
    BY DEF validate_and_revoke, issue_tokens
  <2>2. /\ \A t \in Tokens : revoke(t) => UNCHANGED users
        /\ \A s \in Subjects : ~delete_cascade(s)
    BY DEF revoke, delete_cascade
  <2> QED BY <2>1, <2>2, TableSteps
<1>3. CASE UNCHANGED users
  BY <1>3 DEF UserRows
<1> QED BY <1>1, <1>2, <1>3 DEF vars

\* A code, a handler or a token that names a user after the step is as it was,
\* or has the user from a row, a code, a handler or a token.
Inherits ==
    /\ \A d \in Codes : codes'[d] # None =>
          \/ codes'[d] = codes[d]
          \/ \E q \in Requests : /\ requests[q].user # None
                                 /\ codes'[d].user = requests[q].user
    /\ \A q \in Requests : requests'[q].user # None =>
          \/ requests'[q].user \in UserRows
          \/ requests'[q].user = requests[q].user
          \/ \E d \in Codes : codes[d] # None /\ requests'[q].user = codes[d].user
          \/ \E t \in Tokens : tokens[t] # None /\ requests'[q].user = tokens[t].user

\* Whoever inherits a user inherits one that has a row.
LEMMA InheritSafe ==
    ASSUME TypeOK, TypeOK', CredentialsHaveUsers, TokensHaveUsers', Inherits,
           UserRows \subseteq UserRows'
    PROVE  CredentialsHaveUsers'
<1>1. /\ DOMAIN codes = Codes /\ DOMAIN codes' = Codes
      /\ DOMAIN tokens = Tokens /\ DOMAIN tokens' = Tokens
  BY DEF TypeOK
<1>2. /\ \A d \in Codes : codes[d] # None => codes[d].user \in UserRows
      /\ \A q \in Requests : requests[q].user # None => requests[q].user \in UserRows
      /\ \A t \in Tokens : tokens[t] # None => tokens[t].user \in UserRows
  BY <1>1 DEF CredentialsHaveUsers, Entries
<1>3. \A d \in Codes : codes'[d] # None => codes'[d].user \in UserRows'
  BY <1>2 DEF Inherits
<1>4. \A q \in Requests : requests'[q].user # None => requests'[q].user \in UserRows'
  BY <1>2 DEF Inherits
<1>5. \A t \in Entries(tokens)' : tokens'[t].user \in UserRows'
  BY DEF TokensHaveUsers
<1> QED BY <1>1, <1>3, <1>4, <1>5 DEF CredentialsHaveUsers, Entries

\* Every step hands users on this way.
LEMMA NextInherits ==
    ASSUME IInv, IInv', [Next]_vars
    PROVE  Inherits
<1> USE DEF IInv
<1>1. CASE UNCHANGED <<codes, requests>>
  BY <1>1 DEF Inherits
<1>2. ASSUME NEW q \in Requests, NEW k \in Keys, callback_google(q, k) PROVE Inherits
  BY <1>2 DEF callback_google, Inherits, TypeOK, Idle
<1>3. ASSUME NEW q \in Requests, NEW s \in Subjects, GoogleAnswers(q, s) PROVE Inherits
  BY <1>3 DEF GoogleAnswers, Inherits, TypeOK, Request
<1>4. ASSUME NEW q \in Requests, FindUser(q) \/ RereadUser(q) \/ InsertUser(q) PROVE Inherits
  <2>1. UNCHANGED codes /\ requests[q].subject \in Subjects
    BY <1>4 DEF FindUser, RereadUser, InsertUser, At, Shape
  <2>2. \A p \in Requests \ {q} : requests'[p] = requests[p]
    BY <1>4 DEF FindUser, RereadUser, InsertUser, Found, TypeOK
  <2>3. \/ requests'[q].user = requests[q].user
        \/ requests'[q].user = None
        \/ requests'[q].user = users[requests[q].subject]
    BY <1>4 DEF FindUser, RereadUser, InsertUser, Found, TypeOK, Request, Idle
  <2>4. users[requests[q].subject] # None => users[requests[q].subject] \in UserRows
    BY <2>1 DEF UserRows
  <2> QED BY <2>1, <2>2, <2>3, <2>4 DEF Inherits
<1>5. ASSUME NEW q \in Requests, NEW d \in Codes, IssueCode(q, d) PROVE Inherits
  <2> DEFINE entry == [user |-> requests[q].user, client |-> requests[q].client,
                       redirect_uri |-> requests[q].redirect_uri,
                       code_challenge |-> requests[q].code_challenge,
                       expires_at |-> clock + AuthCodeTtl,
                       flow |-> requests[q].flow]
  <2>1. /\ entry \in AuthCode
        /\ entry.user = requests[q].user
        /\ requests[q].user # None
    BY <1>5, TimesFact, AuthAssumption DEF AuthCode, TypeOK, Shape, IssueCode, At
  <2>2. /\ codes' \in put(codes, d, entry, clock, MaxAuthCodes)
        /\ requests' = [requests EXCEPT ![q] = Idle]
    BY <1>5 DEF IssueCode
  <2> HIDE DEF entry
  <2>3. /\ codes'[d] = entry
        /\ \A e \in Codes \ {d} : codes'[e] # None => codes'[e] = codes[e]
    <3>1. codes \in [Codes -> AuthCode \cup {None}]
      BY DEF TypeOK
    <3> HIDE DEF IInv
    <3>2. \A e \in AuthCode : \A n \in put(codes, d, e, clock, MaxAuthCodes) :
            n[d] = e /\ \A j \in Codes \ {d} : n[j] # None => n[j] = codes[j]
      BY <3>1, PutFact
    <3> QED BY <2>1, <2>2, <3>2
  <2>4. \A p \in Requests : requests'[p].user # None => requests'[p].user = requests[p].user
    BY <2>2 DEF TypeOK, Idle
  <2> QED BY <2>1, <2>3, <2>4 DEF Inherits
<1>6. ASSUME NEW q \in Requests, NEW d \in Codes, NEW form, grant_auth_code(q, d, form)
      PROVE  Inherits
  <2> DEFINE entry == retain(codes, clock)[d]
  <2>1. codes \in [Codes -> AuthCode \cup {None}]
    BY DEF TypeOK
  <2>2. /\ entry # None => entry = codes[d]
        /\ \A e \in Codes : codes'[e] # None => codes'[e] = codes[e]
    <3> HIDE DEF IInv
    <3>1. \A e \in Codes : retain(codes, clock)[e] # None => retain(codes, clock)[e] = codes[e]
      BY <2>1, RetainFact
    <3>2. \A e \in Codes : take(codes, d, clock)[e] # None => take(codes, d, clock)[e] = codes[e]
      BY <2>1, TakeFact
    <3> QED BY <1>6, <3>1, <3>2 DEF grant_auth_code
  <2>3. \/ UNCHANGED requests
        \/ entry # None /\ requests' = [requests EXCEPT ![q] =
                [Idle EXCEPT !.pc = "grant", !.user = entry.user,
                             !.client = entry.client, !.flow = entry.flow]]
    BY <1>6 DEF grant_auth_code, Granted
  <2> HIDE DEF entry
  <2>4. \A p \in Requests : \/ requests'[p].user = requests[p].user
                            \/ entry # None /\ requests'[p].user = entry.user
    <3> DEFINE r == [Idle EXCEPT !.pc = "grant", !.user = entry.user,
                         !.client = entry.client, !.flow = entry.flow]
    <3>1. r.user = entry.user
      BY DEF Idle
    <3>2. requests' = requests \/ (entry # None /\ requests' = [requests EXCEPT ![q] = r])
      BY <2>3
    <3>3. requests \in [Requests -> Request]
      BY DEF TypeOK
    <3> HIDE DEF r, IInv
    <3> QED BY <3>1, <3>2, <3>3
  <2> QED BY <2>2, <2>4 DEF Inherits
<1>7. ASSUME NEW q \in Requests, validate_and_revoke(q) PROVE Inherits
  <2> DEFINE t == requests[q].token
  <2>1. t \in Tokens /\ UNCHANGED codes
    BY <1>7 DEF TypeOK, Shape, validate_and_revoke, At
  <2>2. \/ requests' = [requests EXCEPT ![q] = Idle]
        \/ tokens[t] # None /\ requests' = [requests EXCEPT ![q] =
                [Idle EXCEPT !.pc = "grant", !.user = tokens[t].user,
                             !.client = tokens[t].client, !.flow = tokens[t].flow]]
    BY <1>7 DEF validate_and_revoke, Granted, Redeemable
  <2> HIDE DEF t
  <2>3. \A p \in Requests : \/ requests'[p].user = requests[p].user
                            \/ requests'[p].user = None
                            \/ tokens[t] # None /\ requests'[p].user = tokens[t].user
    <3>1. requests \in [Requests -> Request] /\ Idle.user = None
      BY DEF TypeOK, Idle
    <3>2. [Idle EXCEPT !.pc = "grant", !.user = tokens[t].user, !.client = tokens[t].client,
                       !.flow = tokens[t].flow].user = tokens[t].user
      BY DEF Idle
    <3> QED BY <2>2, <3>1, <3>2
  <2> QED BY <2>1, <2>3 DEF Inherits
<1>8. ASSUME NEW q \in Requests,
             issue_tokens(q) \/ Abort(q) \/ \E t \in Tokens : grant_refresh(q, t)
      PROVE  Inherits
  <2> DEFINE redeem(t) == [Idle EXCEPT !.pc = "redeem", !.token = t, !.now = clock]
  <2>a. Idle.user = None /\ \A t : redeem(t).user = None
    BY DEF Idle
  <2>b. UNCHANGED codes /\ \/ requests' = [requests EXCEPT ![q] = Idle]
                           \/ \E t \in Tokens : requests' = [requests EXCEPT ![q] = redeem(t)]
    BY <1>8 DEF issue_tokens, Abort, grant_refresh
  <2> HIDE DEF redeem
  <2>1. PICK r : requests' = [requests EXCEPT ![q] = r] /\ r.user = None /\ UNCHANGED codes
    BY <2>a, <2>b
  <2>2. \A p \in Requests : requests'[p] = requests[p] \/ requests'[p].user = None
    BY <2>1 DEF TypeOK
  <2> QED BY <2>1, <2>2 DEF Inherits
<1>9. CASE Restart
  BY <1>9 DEF Restart, Inherits, TypeOK, Idle
<1>10. Next => \/ UNCHANGED <<codes, requests>>
               \/ \E q \in Requests : HandlerStep(q)
               \/ Restart
  BY DEF Next, register, authorize, revoke, delete_cascade, Tick
<1>11. ASSUME NEW q \in Requests, HandlerStep(q) PROVE Inherits
  BY <1>2, <1>3, <1>4, <1>5, <1>6, <1>7, <1>8, <1>11
     DEF HandlerStep, CallbackEndpoint, TokenEndpoint
<1> QED BY <1>1, <1>9, <1>10, <1>11 DEF vars

\* In generation 2 every code, grant and token names a row of the users table
\* (CredentialsHaveUsers), for any number of first logins of one Google
\* account at the same time.
THEOREM UsersOfCredentials ==
    ASSUME Generation = 2
    PROVE  Spec => []CredentialsHaveUsers
<1>1. Init => CredentialsHaveUsers
  BY DEF Init, CredentialsHaveUsers, Entries, Idle
<1>2. ASSUME IInv, IInv', TokensHaveUsers', CredentialsHaveUsers, [Next]_vars
      PROVE  CredentialsHaveUsers'
  <2>1. TypeOK /\ Shape /\ TypeOK'
    BY <1>2 DEF IInv
  <2>2. UserRows \subseteq UserRows'
    BY <1>2, <2>1, RowsStay
  <2>3. Inherits
    BY <1>2, NextInherits
  <2> QED BY <1>2, <2>1, <2>2, <2>3, InheritSafe
<1> QED BY <1>1, <1>2, InitInv, NextInv, TokensNeedUsers, PTL DEF Spec

-----------------------------------------------------------------------------
(* The caps of the session maps                                            *)

\* The maps hold finitely many entries, however many keys there are: without
\* that, what Cardinality says of them means nothing.
Capped(m, cap) == IsFiniteSet(Entries(m)) /\ Cardinality(Entries(m)) <= cap

\* A map with a part of another's entries is within its cap.
LEMMA CappedSubset ==
    ASSUME NEW m, NEW n, NEW cap \in Nat, Capped(m, cap), Entries(n) \subseteq Entries(m)
    PROVE  Capped(n, cap)
<1>1. IsFiniteSet(Entries(n)) /\ Cardinality(Entries(n)) <= Cardinality(Entries(m))
  BY FS_Subset DEF Capped
<1>2. Cardinality(Entries(n)) \in Nat /\ Cardinality(Entries(m)) \in Nat
  BY <1>1, FS_CardinalityType DEF Capped
<1> QED BY <1>1, <1>2 DEF Capped

\* Taking adds no entry.
LEMMA TakeEntries ==
    ASSUME NEW S, NEW T, NEW m \in [S -> T \cup {None}], NEW now, NEW k \in S
    PROVE  Entries(take(m, k, now)) \subseteq Entries(m)
BY DEF take, retain, Entries

\* put makes room before it inserts: a map within its cap stays within it.
LEMMA PutCapped ==
    ASSUME NEW S, NEW T, NEW m \in [S -> T \cup {None}], NEW now, NEW cap \in Nat \ {0},
           Capped(m, cap), NEW k \in S, NEW e \in T, NEW n \in put(m, k, e, now, cap)
    PROVE  Capped(n, cap)
<1> DEFINE live == retain(m, now)
           L == Entries(live)
<1>1. /\ live \in [S -> T \cup {None}]
      /\ \A j \in S : live[j] # None => live[j] = m[j]
  BY RetainFact
<1>2. L \subseteq Entries(m)
  BY <1>1 DEF Entries
<1>3. Capped(live, cap)
  BY <1>2, CappedSubset
<1>4. IsFiniteSet(L) /\ Cardinality(L) \in Nat /\ Cardinality(L) <= cap
  BY <1>3, FS_CardinalityType DEF Capped
<1>5. CASE Cardinality(L) < cap
  <2>1. n = [live EXCEPT ![k] = e]
    BY <1>4, <1>5 DEF put
  <2> HIDE DEF live
  <2>2. Entries(n) \subseteq L \cup {k}
    BY <1>1, <2>1 DEF Entries
  <2> HIDE DEF L
  <2>a. /\ IsFiniteSet(L \cup {k})
        /\ Cardinality(L \cup {k}) \in {Cardinality(L), Cardinality(L) + 1}
    BY <1>4, FS_AddElement
  <2>b. Cardinality(L) \in Nat /\ cap \in Nat /\ Cardinality(L) < cap
    BY <1>4, <1>5
  <2>3. IsFiniteSet(L \cup {k}) /\ Cardinality(L \cup {k}) <= cap
    BY <2>a, <2>b
  <2>4. IsFiniteSet(Entries(n)) /\ Cardinality(Entries(n)) <= Cardinality(L \cup {k})
    BY <2>2, <2>3, FS_Subset
  <2>5. Cardinality(Entries(n)) \in Nat /\ Cardinality(L \cup {k}) \in Nat
    BY <2>3, <2>4, FS_CardinalityType
  <2> QED BY <2>3, <2>4, <2>5 DEF Capped
<1>6. CASE Cardinality(L) >= cap
  <2>1. PICK old \in Oldest(live) : n = [live EXCEPT ![old] = None, ![k] = e]
    BY <1>6 DEF put
  <2>2. old \in L
    BY DEF Oldest
  <2> HIDE DEF live
  <2>3. old \in S
    BY <1>1, <2>2 DEF Entries
  <2>4. Entries(n) \subseteq (L \ {old}) \cup {k}
    BY <1>1, <2>1, <2>3 DEF Entries
  <2> HIDE DEF L
  <2> DEFINE R == L \ {old}
  <2>5. IsFiniteSet(R) /\ Cardinality(R) = Cardinality(L) - 1
    BY <1>4, <2>2, FS_RemoveElement
  <2>6. Cardinality(R) \in Nat /\ Cardinality(R) + 1 <= cap
    BY <1>4, <2>5, FS_CardinalityType
  <2> HIDE DEF R
  <2>7. IsFiniteSet(R \cup {k}) /\ Cardinality(R \cup {k}) <= cap
    BY SMTT(20), <2>5, <2>6, FS_AddElement
  <2>8. IsFiniteSet(Entries(n)) /\ Cardinality(Entries(n)) <= Cardinality(R \cup {k})
    BY <2>4, <2>7, FS_Subset DEF R
  <2>9. Cardinality(Entries(n)) \in Nat /\ Cardinality(R \cup {k}) \in Nat
    BY <2>7, <2>8, FS_CardinalityType
  <2> QED BY <2>7, <2>8, <2>9 DEF Capped
<1> QED BY <1>4, <1>5, <1>6

\* Both maps within their caps.
MapsCapped == Capped(pending, MaxPendingAuths) /\ Capped(codes, MaxAuthCodes)

\* Entries are only added by put.
LEMMA CapsStep == IInv /\ MapsCapped /\ [Next]_vars => MapsCapped'
<1> SUFFICES ASSUME IInv, MapsCapped, [Next]_vars PROVE MapsCapped'
  OBVIOUS
<1>1. /\ pending \in [Keys -> PendingAuth \cup {None}]
      /\ codes \in [Codes -> AuthCode \cup {None}]
      /\ MaxPendingAuths \in Nat \ {0} /\ MaxAuthCodes \in Nat \ {0}
  BY AuthAssumption DEF IInv, TypeOK
<1>2. CASE UNCHANGED <<pending, codes>>
  BY <1>2 DEF MapsCapped, Capped
<1>3. ASSUME NEW k \in Keys, NEW c \in Clients, NEW uri \in Uris, NEW v \in Verifiers,
             authorize(k, c, uri, v)
      PROVE  MapsCapped'
  <2> DEFINE entry == [client |-> c, redirect_uri |-> uri, code_challenge |-> S256(v),
                       expires_at |-> clock + PendingTtl]
  <2>1. entry \in PendingAuth
    BY TimesFact DEF PendingAuth, Challenges, IInv, TypeOK
  <2>2. pending' \in put(pending, k, entry, clock, MaxPendingAuths) /\ UNCHANGED codes
    BY <1>3 DEF authorize
  <2> HIDE DEF entry
  <2>3. \A e \in PendingAuth : \A n \in put(pending, k, e, clock, MaxPendingAuths) :
           Capped(n, MaxPendingAuths)
    BY <1>1, PutCapped DEF MapsCapped
  <2>4. Capped(pending', MaxPendingAuths)
    BY <2>1, <2>2, <2>3
  <2> QED BY <2>2, <2>4 DEF MapsCapped, Capped
<1>4. ASSUME NEW q \in Requests, NEW k \in Keys, callback_google(q, k) PROVE MapsCapped'
  <2>1. pending' = take(pending, k, clock) /\ UNCHANGED codes
    BY <1>4 DEF callback_google
  <2>2. Entries(take(pending, k, clock)) \subseteq Entries(pending)
    BY <1>1, TakeEntries
  <2>3. Capped(pending', MaxPendingAuths)
    BY <1>1, <2>1, <2>2, CappedSubset DEF MapsCapped
  <2> QED BY <2>1, <2>3 DEF MapsCapped, Capped
<1>5. ASSUME NEW q \in Requests, NEW d \in Codes, IssueCode(q, d) PROVE MapsCapped'
  <2> DEFINE entry == [user |-> requests[q].user, client |-> requests[q].client,
                       redirect_uri |-> requests[q].redirect_uri,
                       code_challenge |-> requests[q].code_challenge,
                       expires_at |-> clock + AuthCodeTtl,
                       flow |-> requests[q].flow]
  <2>1. entry \in AuthCode
    BY <1>5, TimesFact DEF AuthCode, IInv, TypeOK, Shape, IssueCode, At
  <2>2. codes' \in put(codes, d, entry, clock, MaxAuthCodes) /\ UNCHANGED pending
    BY <1>5 DEF IssueCode
  <2> HIDE DEF entry
  <2>3. \A e \in AuthCode : \A n \in put(codes, d, e, clock, MaxAuthCodes) :
           Capped(n, MaxAuthCodes)
    BY <1>1, PutCapped DEF MapsCapped
  <2>4. Capped(codes', MaxAuthCodes)
    BY <2>1, <2>2, <2>3
  <2> QED BY <2>2, <2>4 DEF MapsCapped, Capped
<1>6. ASSUME NEW q \in Requests, NEW d \in Codes, NEW form, grant_auth_code(q, d, form)
      PROVE  MapsCapped'
  <2>1. codes' = take(codes, d, clock) /\ UNCHANGED pending
    BY <1>6 DEF grant_auth_code
  <2>2. Entries(take(codes, d, clock)) \subseteq Entries(codes)
    BY <1>1, TakeEntries
  <2>3. Capped(codes', MaxAuthCodes)
    BY <1>1, <2>1, <2>2, CappedSubset DEF MapsCapped
  <2> QED BY <2>1, <2>3 DEF MapsCapped, Capped
<1>7. CASE Restart
  <2>1. Entries(pending') = {} /\ Entries(codes') = {}
    BY <1>7 DEF Restart, Entries
  <2>2. Capped(pending', MaxPendingAuths) /\ Capped(codes', MaxAuthCodes)
    BY <1>1, <2>1, FS_EmptySet DEF Capped
  <2> QED BY <2>2 DEF MapsCapped, Capped
<1>8. Next => \/ UNCHANGED <<pending, codes>>
              \/ \E k \in Keys, c \in Clients, uri \in Uris, v \in Verifiers :
                    authorize(k, c, uri, v)
              \/ \E q \in Requests : \/ \E k \in Keys : callback_google(q, k)
                                     \/ \E d \in Codes : IssueCode(q, d)
                                     \/ \E d \in Codes, form \in TokenForm :
                                           grant_auth_code(q, d, form)
              \/ Restart
  BY DEF Next, HandlerStep, CallbackEndpoint, TokenEndpoint, register, GoogleAnswers,
         FindUser, InsertUser, RereadUser, grant_refresh, validate_and_revoke, issue_tokens,
         revoke, delete_cascade, Abort, Tick
<1> QED BY <1>2, <1>3, <1>4, <1>5, <1>6, <1>7, <1>8 DEF vars

\* The session maps never outgrow their caps (SessionsBounded), though the
\* keys are drawn from an unbounded supply: put_pending and put_code evict
\* before they insert.
THEOREM SessionsWithinCaps == Spec => []SessionsBounded
<1>1. Init => MapsCapped
  <2> SUFFICES ASSUME Init PROVE MapsCapped
    OBVIOUS
  <2>1. Entries(pending) = {} /\ Entries(codes) = {}
    BY DEF Init, Entries
  <2> QED BY <2>1, FS_EmptySet, AuthAssumption DEF MapsCapped, Capped
<1>2. MapsCapped => SessionsBounded
  BY DEF MapsCapped, Capped, SessionsBounded
<1> QED BY <1>1, <1>2, InitInv, NextInv, CapsStep, PTL DEF Spec

-----------------------------------------------------------------------------
(* What is spent stays spent                                               *)

LiveEntry(m, k) == m[k] # None /\ m[k].expires_at > clock

\* Valid, place by place.
LEMMA ValidIs ==
    ASSUME TypeOK, NEW f \in Keys
    PROVE  Valid(f) <=> \/ LiveEntry(pending, f)
                        \/ \E q \in Requests : InRequest(q, f)
                        \/ \E d \in Codes : LiveEntry(codes, d) /\ InCode(d, f)
                        \/ \E t \in Tokens : Alive(t) /\ InToken(t, f)
<1>1. /\ \A k \in Keys : retain(pending, clock)[k] # None <=> LiveEntry(pending, k)
      /\ \A d \in Codes : retain(codes, clock)[d] # None <=> LiveEntry(codes, d)
  BY DEF retain, LiveEntry, TypeOK
<1>2. \A t \in Tokens : Alive(t) => tokens[t] # None /\ ~tokens[t].revoked
  BY DEF Alive, Redeemable
<1>3. \A d \in Codes : LiveEntry(codes, d) => codes[d] # None
  BY DEF LiveEntry
<1> QED BY <1>1, <1>2, <1>3 DEF Valid, InRequest, InCode, InToken

\* A token that can be redeemed after a step could be before.
LEMMA AliveBefore ==
    ASSUME NEW t \in Tokens, tokens'[t] = tokens[t], UNCHANGED clock,
           \A q \in Requests : At(q, "redeem")' =>
              requests'[q] = requests[q] \/ requests'[q].now = clock,
           Alive(t)'
    PROVE  Alive(t)
BY DEF Alive, Redeemable, At

\* A step of a handler or a call: whatever it puts anywhere for f, f was valid.
LEMMA SpentByStep ==
    ASSUME IInv, IInv', NEW f \in Keys, UNCHANGED clock,
           InPending(f)' => pending'[f] = pending[f],
           \A q \in Requests : InRequest(q, f)' => Valid(f),
           \A d \in Codes : InCode(d, f)' => codes'[d] = codes[d] \/ Valid(f),
           \A t \in Tokens : InToken(t, f)' => tokens'[t] = tokens[t] \/ Valid(f),
           \A q \in Requests : At(q, "redeem")' =>
              requests'[q] = requests[q] \/ requests'[q].now = clock,
           Valid(f)'
    PROVE  Valid(f)
<1>1. TypeOK /\ TypeOK'
  BY DEF IInv
<1>2. \/ LiveEntry(pending, f)'
      \/ \E q \in Requests : InRequest(q, f)'
      \/ \E d \in Codes : LiveEntry(codes, d)' /\ InCode(d, f)'
      \/ \E t \in Tokens : Alive(t)' /\ InToken(t, f)'
  <2>1. /\ \A k \in Keys : retain(pending', clock')[k] # None => LiveEntry(pending, k)'
        /\ \A d \in Codes : retain(codes', clock')[d] # None => LiveEntry(codes, d)'
    BY <1>1 DEF retain, LiveEntry, TypeOK
  <2>2. \A t \in Tokens : Alive(t)' => tokens'[t] # None /\ ~tokens'[t].revoked
    BY DEF Alive, Redeemable
  <2>3. \A d \in Codes : LiveEntry(codes, d)' => codes'[d] # None
    BY DEF LiveEntry
  <2> QED BY <2>1, <2>2, <2>3 DEF Valid, InRequest, InCode, InToken
<1>3. CASE LiveEntry(pending, f)'
  <2>1. LiveEntry(pending, f)
    BY <1>3 DEF LiveEntry, InPending
  <2> QED BY <1>1, <2>1, ValidIs
<1>4. CASE \E q \in Requests : InRequest(q, f)'
  BY <1>4
<1>5. ASSUME NEW d \in Codes, LiveEntry(codes, d)', InCode(d, f)' PROVE Valid(f)
  <2>1. CASE codes'[d] = codes[d]
    <3>1. LiveEntry(codes, d) /\ InCode(d, f)
      BY <1>5, <2>1 DEF LiveEntry, InCode
    <3> QED BY <1>1, <3>1, ValidIs
  <2> QED BY <1>5, <2>1
<1>6. ASSUME NEW t \in Tokens, Alive(t)', InToken(t, f)' PROVE Valid(f)
  <2>1. CASE tokens'[t] = tokens[t]
    <3>1. Alive(t) /\ InToken(t, f)
      BY <1>6, <2>1, AliveBefore DEF InToken
    <3> QED BY <1>1, <3>1, ValidIs
  <2> QED BY <1>6, <2>1
<1> QED BY <1>2, <1>3, <1>4, <1>5, <1>6

\* Time only takes.
LEMMA SpentByTick ==
    ASSUME IInv, NEW f \in Keys, Tick, Valid(f)'
    PROVE  Valid(f)
<1>1. /\ UNCHANGED <<pending, codes, tokens, requests>> /\ clock' = clock + 1
      /\ TypeOK /\ clock \in Nat
      /\ \A t \in Times : t \in Nat
  BY AuthAssumption DEF Tick, IInv, TypeOK, Times
<1>2. ASSUME NEW now \in Nat, NEW t \in Times, t > now + 1 PROVE t > now
  BY <1>1, <1>2
<1>3. \A k \in Keys : retain(pending', clock')[k] # None => LiveEntry(pending, k)
  BY <1>1, <1>2 DEF retain, LiveEntry, TypeOK, PendingAuth
<1>4. \A d \in Codes : retain(codes', clock')[d] # None => LiveEntry(codes, d)
  BY <1>1, <1>2 DEF retain, LiveEntry, TypeOK, AuthCode
<1>5. \A t \in Tokens : Redeemable(t, clock + 1) => Redeemable(t, clock)
  BY <1>1, <1>2 DEF Redeemable, TypeOK, RefreshToken
<1>6. \A t \in Tokens : Alive(t)' => Alive(t)
  BY <1>1, <1>5 DEF Alive, Redeemable, At
<1>7. \A t \in Tokens : Alive(t) => tokens[t] # None /\ ~tokens[t].revoked
  BY DEF Alive, Redeemable
<1>8. \/ LiveEntry(pending, f)
      \/ \E q \in Requests : InRequest(q, f)
      \/ \E d \in Codes : LiveEntry(codes, d) /\ InCode(d, f)
      \/ \E t \in Tokens : Alive(t) /\ InToken(t, f)
  BY <1>1, <1>3, <1>4, <1>6, <1>7 DEF Valid, InRequest, InCode, InToken, LiveEntry
<1> QED BY <1>1, <1>8, ValidIs

\* The handler that holds f makes it valid.
LEMMA HeldIsValid ==
    ASSUME TypeOK, NEW f \in Keys, NEW q \in Requests, requests[q].flow = f
    PROVE  Valid(f)
BY ValidIs DEF InRequest

\* The steps after which nothing new is held: handlers keep what they hold or
\* drop it, and the maps and tables only lose.
LEMMA SpentByLoss ==
    ASSUME IInv, IInv', NEW f \in Keys, UNCHANGED clock,
           InPending(f)' => pending'[f] = pending[f],
           \A q \in Requests : requests'[q].flow \in {None, requests[q].flow},
           \A d \in Codes : InCode(d, f)' => codes'[d] = codes[d],
           \A t \in Tokens : InToken(t, f)' => tokens'[t] = tokens[t],
           \A q \in Requests : At(q, "redeem")' =>
              requests'[q] = requests[q] \/ requests'[q].now = clock,
           Valid(f)'
    PROVE  Valid(f)
<1>1. \A q \in Requests : InRequest(q, f)' => Valid(f)
  BY HeldIsValid, AuthAssumption DEF InRequest, IInv
<1> QED BY <1>1, SpentByStep

\* A handler changes its own locals and holds what it held, or nothing.
LEMMA SpentByHandler ==
    ASSUME IInv, IInv', NEW f \in Keys, NEW q \in Requests,
           UNCHANGED <<pending, codes, tokens, clock>>,
           \A p \in Requests \ {q} : requests'[p] = requests[p],
           requests'[q].flow \in {None, requests[q].flow},
           requests'[q].pc # "redeem" \/ requests'[q].now = clock,
           Valid(f)'
    PROVE  Valid(f)
<1>1. \A p \in Requests : requests'[p].flow \in {None, requests[p].flow}
  OBVIOUS
<1>2. \A p \in Requests : At(p, "redeem")' =>
         requests'[p] = requests[p] \/ requests'[p].now = clock
  BY DEF At
<1> QED BY <1>1, <1>2, SpentByLoss

\* The steps on the session maps, as the proofs below use them.
LEMMA PendingPut ==
    ASSUME pending \in [Keys -> PendingAuth \cup {None}], NEW k \in Keys,
           NEW e \in PendingAuth,
           pending' \in put(pending, k, e, clock, MaxPendingAuths)
    PROVE  \A j \in Keys \ {k} : pending'[j] # None => pending'[j] = pending[j]
<1>1. \A n \in put(pending, k, e, clock, MaxPendingAuths) :
         \A j \in Keys \ {k} : n[j] # None => n[j] = pending[j]
  BY PutFact
<1> QED BY <1>1

LEMMA PendingTaken ==
    ASSUME pending \in [Keys -> PendingAuth \cup {None}], NEW k \in Keys,
           pending' = take(pending, k, clock)
    PROVE  \A j \in Keys : pending'[j] # None => pending'[j] = pending[j]
<1>1. /\ pending' \in [Keys -> PendingAuth \cup {None}]
      /\ pending'[k] = None
      /\ \A j \in Keys : pending'[j] # None => pending'[j] = pending[j]
  BY TakeFact
<1> QED BY <1>1

LEMMA CodePut ==
    ASSUME codes \in [Codes -> AuthCode \cup {None}], NEW d \in Codes,
           NEW e \in AuthCode, codes' \in put(codes, d, e, clock, MaxAuthCodes)
    PROVE  /\ codes'[d] = e
           /\ \A j \in Codes \ {d} : codes'[j] # None => codes'[j] = codes[j]
<1>1. \A n \in put(codes, d, e, clock, MaxAuthCodes) :
         /\ n[d] = e
         /\ \A j \in Codes \ {d} : n[j] # None => n[j] = codes[j]
  BY PutFact
<1> QED BY <1>1

LEMMA CodeTaken ==
    ASSUME codes \in [Codes -> AuthCode \cup {None}], NEW d \in Codes,
           codes' = take(codes, d, clock)
    PROVE  \A j \in Codes : codes'[j] # None => codes'[j] = codes[j]
<1>1. /\ codes' \in [Codes -> AuthCode \cup {None}]
      /\ codes'[d] = None
      /\ \A j \in Codes : codes'[j] # None => codes'[j] = codes[j]
  BY TakeFact
<1> QED BY <1>1

LEMMA SpentByAuthorize ==
    ASSUME IInv, IInv', NEW f \in Keys, f \in used,
           NEW k \in Keys, NEW c \in Clients, NEW uri \in Uris, NEW v \in Verifiers,
           authorize(k, c, uri, v), Valid(f)'
    PROVE  Valid(f)
<1> DEFINE entry == [client |-> c, redirect_uri |-> uri, code_challenge |-> S256(v),
                     expires_at |-> clock + PendingTtl]
<1>1. /\ pending' \in put(pending, k, entry, clock, MaxPendingAuths)
      /\ k # f
      /\ UNCHANGED <<codes, tokens, requests, clock>>
  BY DEF authorize, Fresh
<1>2. entry \in PendingAuth /\ pending \in [Keys -> PendingAuth \cup {None}]
  BY TimesFact DEF PendingAuth, Challenges, TypeOK, IInv
<1> HIDE DEF entry
<1>3. \A j \in Keys \ {k} : pending'[j] # None => pending'[j] = pending[j]
  BY <1>1, <1>2, PendingPut
<1>4. InPending(f)' => pending'[f] = pending[f]
  BY <1>1, <1>3 DEF InPending
<1> QED BY <1>1, <1>4, SpentByLoss

LEMMA SpentByCallback ==
    ASSUME IInv, IInv', NEW f \in Keys, NEW q \in Requests, NEW k \in Keys,
           callback_google(q, k), Valid(f)'
    PROVE  Valid(f)
<1> DEFINE entry == retain(pending, clock)[k]
<1>1. /\ pending' = take(pending, k, clock)
      /\ UNCHANGED <<codes, tokens, clock>>
      /\ TypeOK /\ pending \in [Keys -> PendingAuth \cup {None}]
      /\ requests \in [Requests -> Request]
  BY DEF callback_google, IInv, TypeOK
<1>2. \A j \in Keys : pending'[j] # None => pending'[j] = pending[j]
  BY <1>1, PendingTaken
<1>3. CASE entry = None
  <2>1. UNCHANGED requests
    BY <1>3 DEF callback_google
  <2> QED BY <1>1, <1>2, <2>1, SpentByLoss DEF InPending
<1>4. CASE entry # None
  <2>1. /\ requests'[q].flow = k /\ requests'[q].pc = "exchange"
        /\ \A p \in Requests \ {q} : requests'[p] = requests[p]
    BY <1>1, <1>4 DEF callback_google, Idle
  <2>2. Valid(k)
    BY <1>4 DEF Valid
  <2>3. \A p \in Requests : InRequest(p, f)' => Valid(f)
    BY <1>1, <2>1, <2>2, HeldIsValid DEF InRequest
  <2>4. \A p \in Requests : At(p, "redeem")' => requests'[p] = requests[p]
    BY <2>1 DEF At
  <2> QED BY <1>1, <1>2, <2>3, <2>4, SpentByStep DEF InPending
<1> QED BY <1>3, <1>4

LEMMA SpentByIssueCode ==
    ASSUME IInv, IInv', NEW f \in Keys, NEW q \in Requests, NEW d \in Codes,
           IssueCode(q, d), Valid(f)'
    PROVE  Valid(f)
<1> DEFINE entry == [user |-> requests[q].user, client |-> requests[q].client,
                     redirect_uri |-> requests[q].redirect_uri,
                     code_challenge |-> requests[q].code_challenge,
                     expires_at |-> clock + AuthCodeTtl,
                     flow |-> requests[q].flow]
<1>1. entry \in AuthCode /\ entry.flow = requests[q].flow
  BY TimesFact DEF AuthCode, IInv, TypeOK, Shape, IssueCode, At
<1>2. /\ codes' \in put(codes, d, entry, clock, MaxAuthCodes)
      /\ requests' = [requests EXCEPT ![q] = Idle]
      /\ UNCHANGED <<pending, tokens, clock>>
      /\ TypeOK /\ codes \in [Codes -> AuthCode \cup {None}]
      /\ requests \in [Requests -> Request]
  BY DEF IssueCode, IInv, TypeOK
<1> HIDE DEF entry
<1>3. /\ codes'[d] = entry
      /\ \A e \in Codes \ {d} : codes'[e] # None => codes'[e] = codes[e]
  BY <1>1, <1>2, CodePut
<1>4. \A e \in Codes : InCode(e, f)' => codes'[e] = codes[e] \/ Valid(f)
  BY <1>1, <1>2, <1>3, HeldIsValid DEF InCode
<1>5. \A p \in Requests : /\ InRequest(p, f)' => Valid(f)
                          /\ At(p, "redeem")' => requests'[p] = requests[p]
  BY <1>2, IdleHoldsNothing, HeldIsValid DEF InRequest, At, Idle
<1> QED BY <1>2, <1>4, <1>5, SpentByStep DEF InPending

LEMMA SpentByGrantCode ==
    ASSUME IInv, IInv', NEW f \in Keys, NEW q \in Requests, NEW d \in Codes, NEW form,
           grant_auth_code(q, d, form), Valid(f)'
    PROVE  Valid(f)
<1> DEFINE entry == retain(codes, clock)[d]
<1>1. /\ codes' = take(codes, d, clock)
      /\ UNCHANGED <<pending, tokens, clock>>
      /\ TypeOK /\ codes \in [Codes -> AuthCode \cup {None}]
      /\ requests \in [Requests -> Request]
  BY DEF grant_auth_code, IInv, TypeOK
<1>2. \A e \in Codes : codes'[e] # None => codes'[e] = codes[e]
  BY <1>1, CodeTaken
<1>3. CASE UNCHANGED requests
  BY <1>1, <1>2, <1>3, SpentByLoss DEF InPending, InCode
<1>4. CASE entry # None /\ Granted(q, entry)
  <2>1. /\ requests'[q].flow = entry.flow /\ requests'[q].pc = "grant"
        /\ \A p \in Requests \ {q} : requests'[p] = requests[p]
    BY <1>1, <1>4 DEF Granted, Idle
  <2>2. entry.flow = f => Valid(f)
    <3>1. entry = codes[d]
      BY <1>1, <1>4 DEF retain
    <3> QED BY <1>4, <3>1 DEF Valid
  <2>3. \A p \in Requests : InRequest(p, f)' => Valid(f)
    BY <1>1, <2>1, <2>2, HeldIsValid DEF InRequest
  <2>4. \A p \in Requests : At(p, "redeem")' => requests'[p] = requests[p]
    BY <2>1 DEF At
  <2> QED BY <1>1, <1>2, <2>3, <2>4, SpentByStep DEF InPending, InCode
<1> QED BY <1>3, <1>4 DEF grant_auth_code

LEMMA SpentByRedeem ==
    ASSUME IInv, IInv', NEW f \in Keys, NEW q \in Requests,
           validate_and_revoke(q), Valid(f)'
    PROVE  Valid(f)
<1> DEFINE t == requests[q].token
<1>1. /\ t \in Tokens /\ At(q, "redeem")
      /\ UNCHANGED <<pending, codes, clock>>
      /\ TypeOK /\ requests \in [Requests -> Request]
      /\ tokens \in [Tokens -> RefreshToken \cup {None}]
  BY DEF validate_and_revoke, IInv, TypeOK, Shape, At
<1>2. CASE Redeemable(t, requests[q].now)
  <2>1. /\ tokens' = [tokens EXCEPT ![t].revoked = TRUE]
        /\ tokens[t] \in RefreshToken
        /\ requests'[q].flow = tokens[t].flow /\ requests'[q].pc = "grant"
        /\ \A p \in Requests \ {q} : requests'[p] = requests[p]
    <3>1. /\ tokens' = [tokens EXCEPT ![t].revoked = TRUE]
          /\ requests' = [requests EXCEPT ![q] =
                 [Idle EXCEPT !.pc = "grant", !.user = tokens[t].user,
                     !.client = tokens[t].client, !.flow = tokens[t].flow]]
      BY <1>2 DEF validate_and_revoke, Granted
    <3>2. tokens[t] \in RefreshToken
      BY <1>1, <1>2 DEF Redeemable
    <3> QED BY <1>1, <3>1, <3>2 DEF Idle
  <2>2. tokens[t].flow = f => Valid(f)
    BY <1>1, <1>2 DEF Valid, Alive
  <2>3. \A p \in Requests : InRequest(p, f)' => Valid(f)
    BY <1>1, <2>1, <2>2, HeldIsValid DEF InRequest
  <2>4. \A p \in Requests : At(p, "redeem")' => requests'[p] = requests[p]
    BY <2>1 DEF At
  <2>5. \A u \in Tokens : InToken(u, f)' => tokens'[u] = tokens[u]
    BY <1>1, <2>1 DEF InToken, RefreshToken
  <2> QED BY <1>1, <2>3, <2>4, <2>5, SpentByStep DEF InPending
<1>3. CASE ~Redeemable(t, requests[q].now)
  <2>1. requests' = [requests EXCEPT ![q] = Idle] /\ UNCHANGED tokens
    BY <1>3 DEF validate_and_revoke
  <2> QED BY <1>1, <2>1, SpentByHandler DEF Idle
<1> QED BY <1>2, <1>3

LEMMA SpentByIssueTokens ==
    ASSUME IInv, IInv', NEW f \in Keys, NEW q \in Requests,
           issue_tokens(q), Valid(f)'
    PROVE  Valid(f)
<1> DEFINE row == [user |-> requests[q].user, client |-> requests[q].client,
                   revoked |-> FALSE, expires_at |-> clock + RefreshTtl,
                   flow |-> requests[q].flow]
<1>1. /\ requests' = [requests EXCEPT ![q] = Idle]
      /\ UNCHANGED <<pending, codes, clock>>
      /\ \/ UNCHANGED tokens
         \/ \E t \in Tokens : tokens' = [tokens EXCEPT ![t] = row]
      /\ TypeOK /\ requests \in [Requests -> Request]
      /\ tokens \in [Tokens -> RefreshToken \cup {None}]
  BY DEF issue_tokens, IInv, TypeOK
<1>2. row.flow = requests[q].flow
  OBVIOUS
<1> HIDE DEF row
<1>3. \A t \in Tokens : InToken(t, f)' => tokens'[t] = tokens[t] \/ Valid(f)
  BY <1>1, <1>2, HeldIsValid DEF InToken
<1>4. \A p \in Requests : /\ InRequest(p, f)' => Valid(f)
                          /\ At(p, "redeem")' => requests'[p] = requests[p]
  BY <1>1, IdleHoldsNothing, HeldIsValid DEF InRequest, At, Idle
<1> QED BY <1>1, <1>3, <1>4, SpentByStep DEF InPending

\* The other steps of a handler: it asks Google, looks for the user, begins a
\* refresh or gives up.
LEMMA SpentByLocals ==
    ASSUME IInv, IInv', NEW f \in Keys, NEW q \in Requests,
           \/ \E s \in Subjects : GoogleAnswers(q, s)
           \/ FindUser(q)
           \/ InsertUser(q)
           \/ RereadUser(q)
           \/ \E t \in Tokens : grant_refresh(q, t)
           \/ Abort(q),
           Valid(f)'
    PROVE  Valid(f)
<1> DEFINE Only == /\ UNCHANGED <<pending, codes, tokens, clock>>
                   /\ \A p \in Requests \ {q} : requests'[p] = requests[p]
                   /\ requests'[q].flow \in {None, requests[q].flow}
                   /\ requests'[q].pc # "redeem" \/ requests'[q].now = clock
<1>1. requests \in [Requests -> Request] /\ requests[q] \in Request
  BY DEF IInv, TypeOK
<1>2. CASE \E s \in Subjects : GoogleAnswers(q, s)
  <2>1. Only
    <3>1. PICK s \in Subjects : GoogleAnswers(q, s)
      BY <1>2
    <3> DEFINE pc == IF Generation = 1 THEN "insert" ELSE "find"
    <3>2. /\ UNCHANGED <<pending, codes, tokens, clock>>
          /\ requests' = [requests EXCEPT ![q].subject = s, ![q].pc = pc]
          /\ pc # "redeem"
      BY <3>1 DEF GoogleAnswers
    <3> HIDE DEF pc
    <3> QED BY <1>1, <3>2 DEF Request
  <2> QED BY <2>1, SpentByHandler
<1>3. CASE FindUser(q)
  <2>1. Only
    BY <1>1, <1>3 DEF FindUser, Found, Request
  <2> QED BY <2>1, SpentByHandler
<1>4. CASE InsertUser(q)
  <2>1. Only
    BY <1>1, <1>4 DEF InsertUser, Request
  <2> QED BY <2>1, SpentByHandler
<1>5. CASE RereadUser(q)
  <2>1. Only
    BY <1>1, <1>5 DEF RereadUser, Found, Idle, Request
  <2> QED BY <2>1, SpentByHandler
<1>6. CASE \E t \in Tokens : grant_refresh(q, t)
  <2>1. Only
    <3>1. PICK t \in Tokens : grant_refresh(q, t)
      BY <1>6
    <3>2. /\ UNCHANGED <<pending, codes, tokens, clock>>
          /\ requests' = [requests EXCEPT ![q] =
                 [Idle EXCEPT !.pc = "redeem", !.token = t, !.now = clock]]
      BY <3>1 DEF grant_refresh
    <3> QED BY <1>1, <3>2 DEF Idle
  <2> QED BY <2>1, SpentByHandler
<1>7. CASE Abort(q)
  <2>1. Only
    BY <1>1, <1>7 DEF Abort, Idle, Request
  <2> QED BY <2>1, SpentByHandler
<1> QED BY <1>2, <1>3, <1>4, <1>5, <1>6, <1>7

\* The calls and events outside a handler that change no clock.
LEMMA SpentByCalls ==
    ASSUME IInv, IInv', NEW f \in Keys,
           \/ \E c \in Clients : register(c)
           \/ \E t \in Tokens : revoke(t)
           \/ \E s \in Subjects : delete_cascade(s)
           \/ Restart
           \/ UNCHANGED vars,
           Valid(f)'
    PROVE  Valid(f)
<1>1. /\ UNCHANGED clock
      /\ UNCHANGED requests \/ requests' = [q \in Requests |-> Idle]
      /\ UNCHANGED pending \/ pending' = [k \in Keys |-> None]
      /\ UNCHANGED codes \/ codes' = [d \in Codes |-> None]
  BY DEF register, revoke, delete_cascade, Restart, vars
<1>2. \A q \in Requests :
         /\ requests'[q].flow \in {None, requests[q].flow}
         /\ At(q, "redeem")' => requests'[q] = requests[q]
  BY <1>1 DEF Idle, At
<1>3. /\ InPending(f)' => pending'[f] = pending[f]
      /\ \A d \in Codes : InCode(d, f)' => codes'[d] = codes[d]
  BY <1>1 DEF InPending, InCode
<1>4. \A t \in Tokens : InToken(t, f)' => tokens'[t] = tokens[t]
  <2>1. tokens \in [Tokens -> RefreshToken \cup {None}]
    BY DEF IInv, TypeOK
  <2>2. CASE UNCHANGED tokens
    BY <2>2
  <2>3. ASSUME NEW t \in Tokens, revoke(t)
        PROVE  \A u \in Tokens : InToken(u, f)' => tokens'[u] = tokens[u]
    BY <2>1, <2>3 DEF revoke, InToken, RefreshToken
  <2>4. ASSUME NEW s \in Subjects, delete_cascade(s)
        PROVE  \A u \in Tokens : InToken(u, f)' => tokens'[u] = tokens[u]
    BY <2>4 DEF delete_cascade, InToken
  <2> QED BY <2>2, <2>3, <2>4 DEF register, Restart, vars
<1> QED BY <1>1, <1>2, <1>3, <1>4, SpentByLoss

LEMMA SpentStep ==
    ASSUME IInv, [Next]_vars, NEW f \in Keys, f \in used, Valid(f)'
    PROVE  Valid(f)
<1>1. IInv'
  BY NextInv
<1>2. CASE \E k \in Keys, c \in Clients, uri \in Uris, v \in Verifiers :
              authorize(k, c, uri, v)
  BY <1>1, <1>2, SpentByAuthorize
<1>3. CASE \E q \in Requests : HandlerStep(q)
  <2>1. PICK q \in Requests : HandlerStep(q)
    BY <1>3
  <2> QED BY <1>1, <2>1, SpentByCallback, SpentByIssueCode, SpentByGrantCode, SpentByRedeem,
             SpentByIssueTokens, SpentByLocals
          DEF HandlerStep, CallbackEndpoint, TokenEndpoint
<1>4. CASE Tick
  BY <1>4, SpentByTick
<1> QED BY <1>1, <1>2, <1>3, <1>4, SpentByCalls DEF Next

\* Nothing brings an authorization back (SpentStaysSpent): once its pending
\* entry, code or token has expired, been evicted, revoked, deleted or lost in a
\* restart or a failed exchange, no callback, exchange, refresh or retry makes it
\* good again, even one that read the clock before it expired.
THEOREM SpentForGood == Spec => SpentStaysSpent
<1>1. IInv /\ [Next]_vars => [\A f \in Keys : f \in used /\ ~Valid(f) => ~Valid(f)']_vars
  BY SpentStep
<1> QED BY <1>1, InitInv, NextInv, PTL DEF Spec, SpentStaysSpent
=============================================================================
