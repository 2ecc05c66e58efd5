-------------------------- MODULE VegapunkMcpProofs --------------------------
(***************************************************************************)
(* For every set of users, ids, bodies and POSTs: the MCP endpoint keeps   *)
(* its types, no call to vegapunk crosses tenants, whoever was told that   *)
(* an id is recorded owns it, every entry of a batch gets the outcome it   *)
(* is owed, and handlers and table implement FirstClaim.                   *)
(*                                                                         *)
(* TenantIsolation and RecordedMeansOwned are not inductive alone: the     *)
(* check of an id and its use are different steps, and the rows of a       *)
(* record_many are checked one by one.  The invariant SlotInv adds what a  *)
(* handler knows at each of its awaits; it survives the steps of others    *)
(* because a row of tool_ownership never changes (Kept).  For the answers  *)
(* it says that the outcomes so far are those of the first entries, so     *)
(* that the entry being run is always the next one (AnsweredSoFar).        *)
(***************************************************************************)
EXTENDS VegapunkMcp, SequenceTheorems, TLAPS

\* A handler that is running an entry.
Running(s) == slots[s].step \notin {"idle", "answered"}

\* The ids to be recorded are all the caller's, but for those still to be read.
ReadRowsOwned(s) ==
    \A i \in 1..Len(slots[s].rows) :
        \/ ownership[slots[s].rows[i]] = slots[s].user
        \/ \E j \in 1..Len(slots[s].todo) : slots[s].todo[j] = slots[s].rows[i]

\* The entries that have been run were given the outcomes owed to them.
AnsweredSoFar(s) ==
    \A i \in DOMAIN slots[s].out : Owed(slots[s].body.entries[i], slots[s].out[i])

\* The POST in slot s has all its outcomes.
FullyAnswered(s) ==
    IF ~slots[s].body.parsed \/ slots[s].body.entries = <<>>
    THEN /\ Len(slots[s].out) = 1 /\ slots[s].out[1].id = "null"
         /\ slots[s].out[1].reply # "none"
    ELSE Len(slots[s].out) = Len(slots[s].body.entries) /\ AnsweredSoFar(s)

\* What the handler in slot s knows.
SlotInv(s) ==
    /\ slots[s].step # "idle" => slots[s].user \in Users /\ slots[s].body \in Bodies
    /\ Running(s) => /\ slots[s].body.parsed
                     /\ Len(slots[s].out) < Len(slots[s].body.entries)
                     /\ AnsweredSoFar(s)
    /\ slots[s].step = "answered" => FullyAnswered(s)
    /\ slots[s].step \in {"record", "recheck"} => slots[s].rows # <<>>
    /\ slots[s].step \in {"feedback", "get_job_status", "send"} => KeyOf(s) \in Keys
    /\ slots[s].step = "send" => ownership[KeyOf(s)] = slots[s].user
    /\ slots[s].step = "check_many" => ReadRowsOwned(s)

IInv == TypeOK /\ (\A s \in Slots : SlotInv(s)) /\ TenantIsolation /\ RecordedMeansOwned

-----------------------------------------------------------------------------
(* Facts about the data                                                    *)

\* An entry of a body is a request.
LEMMA EntryFact ==
    ASSUME NEW s \in Slots, TypeOK, SlotInv(s), Running(s)
    PROVE  /\ Current(s) \in JsonRpcRequest
           /\ Len(slots[s].out) + 1 \in DOMAIN slots[s].body.entries
           /\ slots[s].body \in Bodies
           /\ slots[s].user \in Users
<1>1. slots[s] \in Slot /\ slots[s].body \in Bodies /\ slots[s].user \in Users
  BY DEF TypeOK, SlotInv, Running
<1>2. slots[s].body \in Body
  BY <1>1, BodiesAssumption
<1>3. slots[s].body.entries \in Seq(JsonRpcRequest) /\ slots[s].out \in Seq(Outcome)
  BY <1>1, <1>2 DEF Body, Slot
<1>4. Len(slots[s].out) < Len(slots[s].body.entries)
  BY DEF SlotInv
<1>5. Len(slots[s].out) \in Nat /\ Len(slots[s].body.entries) \in Nat
  BY <1>3, LenProperties
<1>6. Len(slots[s].out) + 1 \in 1..Len(slots[s].body.entries)
  BY <1>4, <1>5
<1>7. Len(slots[s].out) + 1 \in DOMAIN slots[s].body.entries
  BY <1>3, <1>6, LenProperties
<1>8. Current(s) \in JsonRpcRequest
  BY <1>3, <1>6, ElementOfSeq DEF Current
<1> QED BY <1>1, <1>7, <1>8

\* The outcome of an entry is an outcome, and the one it is owed.
LEMMA OutcomeFact ==
    ASSUME NEW e \in JsonRpcRequest, NEW reply \in Replies
    PROVE  OutcomeOf(e, reply) \in Outcome /\ Owed(e, OutcomeOf(e, reply))
<1>1. e.id \in RpcIds
  BY DEF JsonRpcRequest
<1>2. "null" \in RpcIds /\ "none" \in RpcIds
  BY DEF RpcIds
<1>3. "-32600" \in Replies
  BY DEF Replies
<1>4. \A i \in RpcIds, r \in Replies \cup {"none"} : [id |-> i, reply |-> r] \in Outcome
  BY DEF Outcome
<1>5. OutcomeOf(e, reply) \in Outcome
  BY <1>1, <1>2, <1>3, <1>4 DEF OutcomeOf, Notification
<1>6. reply # "none"
  BY DEF Replies
<1>7. Owed(e, OutcomeOf(e, reply))
  BY <1>6 DEF Owed, OutcomeOf
<1> QED BY <1>5, <1>7

\* Finish puts the slot at the next entry, or at the end.
LEMMA FinishFact ==
    ASSUME NEW s \in Slots, NEW reply \in Replies, TypeOK, SlotInv(s), Running(s),
           Finish(s, reply)
    PROVE  /\ slots' \in [Slots -> Slot]
           /\ SlotInv(s)'
           /\ \A t \in Slots \ {s} : slots'[t] = slots[t]
<1> DEFINE o == OutcomeOf(Current(s), reply)
           x == slots[s]
           last == Len(x.out) + 1 = Len(x.body.entries)
<1>1. /\ Current(s) \in JsonRpcRequest /\ x.body \in Bodies /\ x.user \in Users
      /\ x \in Slot
  BY EntryFact DEF TypeOK
<1>2. o \in Outcome /\ Owed(Current(s), o)
  BY <1>1, OutcomeFact
<1>3. x.out \in Seq(Outcome) /\ x.body \in Body
  BY <1>1, BodiesAssumption DEF Slot
<1>4. Append(x.out, o) \in Seq(Outcome) /\ Len(Append(x.out, o)) = Len(x.out) + 1
  BY <1>2, <1>3, AppendProperties
<1>5. Len(x.out) < Len(x.body.entries)
  BY DEF SlotInv
<1>6. Len(x.out) \in Nat /\ Len(x.body.entries) \in Nat
  BY <1>3, LenProperties DEF Body
<1>7. slots' = [slots EXCEPT ![s] = [x EXCEPT
          !.step = IF last THEN "answered" ELSE "entry",
          !.out = Append(x.out, o), !.rows = <<>>, !.todo = <<>>]]
  BY DEF Finish, TypeOK
<1>8. <<>> \in Seq(Keys)
  BY EmptySeq
<1>9. slots'[s] \in Slot
  BY <1>1, <1>4, <1>7, <1>8 DEF TypeOK, Slot, Steps
<1>10. /\ slots'[s].step = IF last THEN "answered" ELSE "entry"
       /\ slots'[s].user = x.user /\ slots'[s].body = x.body
       /\ slots'[s].out = Append(x.out, o)
  BY <1>1, <1>7 DEF TypeOK, Slot
<1>11. slots' \in [Slots -> Slot] /\ \A t \in Slots \ {s} : slots'[t] = slots[t]
  BY <1>7, <1>9 DEF TypeOK
<1>12. AnsweredSoFar(s)'
  <2>1. SUFFICES ASSUME NEW i \in DOMAIN Append(x.out, o)
                 PROVE  Owed(x.body.entries[i], Append(x.out, o)[i])
    BY <1>10 DEF AnsweredSoFar
  <2>2. i \in 1..Len(x.out) + 1
    BY <1>4, LenProperties
  <2>3. CASE i \in 1..Len(x.out)
    <3>1. Append(x.out, o)[i] = x.out[i] /\ i \in DOMAIN x.out
      BY <1>2, <1>3, <2>3, AppendProperties, LenProperties
    <3> QED BY <3>1 DEF SlotInv, AnsweredSoFar
  <2>4. CASE i = Len(x.out) + 1
    <3>1. Append(x.out, o)[i] = o
      BY <1>2, <1>3, <2>4, AppendProperties
    <3> QED BY <1>2, <2>4, <3>1 DEF Current
  <2> QED BY <1>6, <2>2, <2>3, <2>4
<1>13. x.body.parsed /\ x.body.entries # <<>>
  BY <1>5, <1>6 DEF SlotInv
<1>14. last => FullyAnswered(s)'
  BY <1>4, <1>10, <1>12, <1>13 DEF FullyAnswered
<1>15. SlotInv(s)'
  BY <1>1, <1>4, <1>5, <1>6, <1>10, <1>12, <1>13, <1>14 DEF SlotInv, Running
<1> QED BY <1>11, <1>15

\* Goto changes the step and nothing else.
LEMMA GotoFact ==
    ASSUME NEW s \in Slots, NEW step \in Steps, TypeOK, Goto(s, step)
    PROVE  /\ slots' \in [Slots -> Slot]
           /\ \A t \in Slots \ {s} : slots'[t] = slots[t]
           /\ slots'[s].step = step
           /\ slots'[s].user = slots[s].user /\ slots'[s].body = slots[s].body
           /\ slots'[s].out = slots[s].out /\ slots'[s].rows = slots[s].rows
           /\ slots'[s].todo = slots[s].todo
<1>1. slots[s] \in Slot
  BY DEF TypeOK
<1>2. slots' = [slots EXCEPT ![s] = [slots[s] EXCEPT !.step = step]]
  BY DEF Goto, TypeOK
<1>3. [slots[s] EXCEPT !.step = step] \in Slot
  BY <1>1 DEF Slot
<1> QED BY <1>1, <1>2, <1>3 DEF TypeOK, Slot

\* The idle slot is one.
LEMMA IdleFact == Idle \in Slot
<1>1. <<>> \in Seq(Outcome) /\ <<>> \in Seq(Keys)
  BY EmptySeq
<1> QED BY <1>1 DEF Idle, Slot, Steps

-----------------------------------------------------------------------------
(* What a step may do                                                      *)

\* No row of tool_ownership ever changes hands.
Kept == \A k \in Keys : ownership[k] # None => ownership'[k] = ownership[k]

\* What has to be shown of a step of slot s: every other slot is left alone,
\* and all else is an invariant of the step.
StepOK(s) ==
    /\ Kept /\ ownership' \in [Keys -> Users \cup {None}]
    /\ slots' \in [Slots -> Slot]
    /\ \A t \in Slots \ {s} : slots'[t] = slots[t]
    /\ SlotInv(s)'
    /\ rpc' \subseteq [user : Users, on : Users \cup {SharedSchema} \cup Keys]
    /\ TenantIsolation'
    /\ told' \subseteq Users \X Keys
    /\ \A p \in told' \ told : ownership'[p[2]] = p[1]

\* A user is not None.
LEMMA OwnerIsUser ==
    ASSUME NEW u \in Users
    PROVE  u # None
  BY McpAssumption

\* The knowledge of a handler survives the steps of the others.
LEMMA OthersKeep ==
    ASSUME NEW t \in Slots, TypeOK, Kept, SlotInv(t),
           slots'[t] = slots[t]
    PROVE  SlotInv(t)'
<1>1. slots[t] \in Slot
  BY DEF TypeOK
<1>2. KeyOf(t)' = KeyOf(t)
  BY DEF KeyOf, Current
<1>3. ASSUME slots[t].step = "send"
      PROVE  ownership'[KeyOf(t)] = slots[t].user
  BY <1>3, OwnerIsUser DEF SlotInv, Kept
<1>4. ASSUME slots[t].step = "check_many"
      PROVE  ReadRowsOwned(t)'
  <2>1. slots[t].rows \in Seq(Keys)
    BY <1>1 DEF Slot
  <2>2. \A i \in 1..Len(slots[t].rows) : slots[t].rows[i] \in Keys
    BY <2>1, ElementOfSeq
  <2>3. slots[t].user \in Users
    BY <1>4 DEF SlotInv
  <2> QED BY <1>4, <2>2, <2>3, OwnerIsUser DEF SlotInv, ReadRowsOwned, Kept
<1>5. (AnsweredSoFar(t)' <=> AnsweredSoFar(t)) /\ (FullyAnswered(t)' <=> FullyAnswered(t))
  BY DEF AnsweredSoFar, FullyAnswered
<1> QED BY <1>2, <1>3, <1>4, <1>5 DEF SlotInv, Running

\* A step that is OK keeps the invariant.
LEMMA StepKeepsInv ==
    ASSUME NEW s \in Slots, IInv, StepOK(s)
    PROVE  IInv'
<1>1. TypeOK'
  BY DEF StepOK, TypeOK
<1>2. \A t \in Slots : SlotInv(t)'
  <2>1. SUFFICES ASSUME NEW t \in Slots, t # s PROVE SlotInv(t)'
    BY DEF StepOK
  <2> QED BY OthersKeep DEF IInv, StepOK
<1>3. RecordedMeansOwned'
  <2>1. SUFFICES ASSUME NEW p \in told' PROVE ownership'[p[2]] = p[1]
    BY DEF RecordedMeansOwned
  <2>2. CASE p \in told
    <3>1. p[2] \in Keys /\ p[1] \in Users
      BY <2>2 DEF IInv, TypeOK
    <3> QED BY <2>2, <3>1, OwnerIsUser DEF IInv, RecordedMeansOwned, StepOK, Kept
  <2> QED BY <2>1, <2>2 DEF StepOK
<1> QED BY <1>1, <1>2, <1>3 DEF IInv, StepOK

\* Most steps of a handler call nobody and write nothing.
LEMMA QuietStep ==
    ASSUME NEW s \in Slots, TypeOK, rpc' = {}, UNCHANGED <<ownership, told>>,
           slots' \in [Slots -> Slot], SlotInv(s)',
           \A t \in Slots \ {s} : slots'[t] = slots[t]
    PROVE  StepOK(s)
  BY DEF StepOK, Kept, TenantIsolation, TypeOK

\* A step that asks the caller's own schema and the shared one.
LEMMA FanOutStep ==
    ASSUME NEW s \in Slots, TypeOK, SlotInv(s), Running(s), rpc' = FanOut(s),
           UNCHANGED <<ownership, told>>, slots' \in [Slots -> Slot], SlotInv(s)',
           \A t \in Slots \ {s} : slots'[t] = slots[t]
    PROVE  StepOK(s)
<1>1. slots[s].user \in Users
  BY DEF SlotInv, Running, AnsweredSoFar
<1>2. \A m \in rpc' : m.user = slots[s].user /\ m.on \in {slots[s].user, SharedSchema}
  BY DEF FanOut, RequestSchema
<1>3. rpc' \subseteq [user : Users, on : Users \cup {SharedSchema} \cup Keys]
  BY <1>1 DEF FanOut, RequestSchema
<1>4. TenantIsolation'
  BY <1>2 DEF TenantIsolation
<1> QED BY <1>3, <1>4 DEF StepOK, Kept, TypeOK

-----------------------------------------------------------------------------
(* The transport                                                           *)

\* A POST that is taken up has its first entry still to be run.
LEMMA HandleOK ==
    ASSUME NEW s \in Slots, NEW u \in Users, NEW b \in Bodies, TypeOK,
           require_auth(s, u, b)
    PROVE  StepOK(s)
<1> DEFINE refused == IF ~b.parsed THEN <<[id |-> "null", reply |-> "-32700"]>>
                      ELSE IF b.entries = <<>> THEN <<[id |-> "null", reply |-> "-32600"]>>
                      ELSE <<>>
           x == [Idle EXCEPT !.step = IF refused = <<>> THEN "entry" ELSE "answered",
                             !.user = u, !.body = b, !.out = refused]
<1>1. b \in Body
  BY BodiesAssumption
<1>2. /\ [id |-> "null", reply |-> "-32700"] \in Outcome
      /\ [id |-> "null", reply |-> "-32600"] \in Outcome
  BY DEF Outcome, RpcIds, Replies
<1>3. refused \in Seq(Outcome)
  BY <1>2
<1>4. slots' = [slots EXCEPT ![s] = x] /\ rpc' = {} /\ UNCHANGED <<ownership, told>>
  BY DEF require_auth, handle
<1>5. /\ x.step \in {"entry", "answered"} /\ x.user = u /\ x.body = b /\ x.out = refused
      /\ x.step = "entry" <=> refused = <<>>
      /\ x \in Slot
  <2> HIDE DEF refused
  <2> QED BY <1>1, <1>3, IdleFact DEF Idle, Slot, Steps
<1>6. ASSUME refused = <<>>
      PROVE  b.parsed /\ Len(refused) < Len(b.entries) /\ DOMAIN refused = {}
  BY <1>1, <1>6 DEF Body
<1>7. ASSUME refused # <<>>
      PROVE  /\ ~b.parsed \/ b.entries = <<>>
             /\ Len(refused) = 1 /\ refused[1].id = "null" /\ refused[1].reply # "none"
  BY <1>7
<1> HIDE DEF x, refused
<1>8. slots'[s] = x /\ slots' \in [Slots -> Slot]
  BY <1>4, <1>5 DEF TypeOK
<1>9. \A t \in Slots \ {s} : slots'[t] = slots[t]
  BY <1>4 DEF TypeOK
<1>10. x.step = "entry" => AnsweredSoFar(s)'
  BY <1>5, <1>6, <1>8 DEF AnsweredSoFar
<1>11. x.step = "answered" => FullyAnswered(s)'
  BY <1>5, <1>7, <1>8 DEF FullyAnswered
<1>12. SlotInv(s)'
  BY <1>5, <1>6, <1>8, <1>10, <1>11 DEF SlotInv, Running
<1> QED BY <1>4, <1>8, <1>9, <1>12, QuietStep

\* dispatch_one answers an entry that calls no tool.
LEMMA DispatchOK ==
    ASSUME NEW s \in Slots, TypeOK, SlotInv(s), dispatch_one(s)
    PROVE  StepOK(s)
<1>1. Running(s)
  BY DEF dispatch_one, At, Running
<1>2. DispatchReply(Current(s)) \in Replies
  BY DEF DispatchReply, Replies
<1> QED BY <1>1, <1>2, FinishFact, QuietStep DEF dispatch_one

\* call answers at once or goes to the handler of the tool, which finds its id
\* in the arguments when it needs one.
LEMMA CallOK ==
    ASSUME NEW s \in Slots, TypeOK, SlotInv(s), call(s)
    PROVE  StepOK(s)
<1> DEFINE e == Current(s)
<1>1. Running(s)
  BY DEF call, At, Running
<1>2. e \in JsonRpcRequest /\ slots[s].body \in Bodies /\ slots[s].user \in Users
      /\ Len(slots[s].out) + 1 \in DOMAIN slots[s].body.entries
  BY <1>1, EntryFact
<1>3. {"-32602", "error"} \subseteq Replies
  BY DEF Replies
<1>4. rpc' = {} /\ UNCHANGED <<ownership, told>>
  BY DEF call
<1>5. CASE Finish(s, "-32602") \/ Finish(s, "error")
  BY <1>1, <1>3, <1>4, <1>5, FinishFact, QuietStep
<1>6. CASE e.tool # None /\ (e.args.ok \/ e.tool \in NoArgs) /\ Goto(s, e.tool)
  <2>1. e.tool \in Tools
    BY <1>2, <1>6 DEF JsonRpcRequest
  <2>2. e.tool \in Steps
    BY <2>1 DEF Steps
  <2>3. /\ slots' \in [Slots -> Slot] /\ \A t \in Slots \ {s} : slots'[t] = slots[t]
        /\ slots'[s].step = e.tool /\ slots'[s].user = slots[s].user
        /\ slots'[s].body = slots[s].body /\ slots'[s].out = slots[s].out
    BY <1>6, <2>2, GotoFact
  <2>4. ASSUME e.tool \in {"feedback", "get_job_status"}
        PROVE  KeyOf(s)' \in Keys
    <3>1. e.args.ok
      BY <1>6, <2>4 DEF NoArgs
    <3>2. e.args.id \in Ids
      BY <1>2, <2>4, <3>1, BodiesAssumption DEF Current
    <3>3. Current(s)' = e
      BY <2>3 DEF Current
    <3> QED BY <3>2, <3>3 DEF KeyOf, Keys
  <2>5. e.tool \notin {"idle", "answered", "record", "recheck", "send", "check_many"}
    BY <2>1 DEF Tools
  <2>6. SlotInv(s)'
    BY <1>1, <1>2, <2>3, <2>4, <2>5 DEF SlotInv, Running, AnsweredSoFar
  <2> QED BY <1>4, <2>3, <2>6, QuietStep
<1> QED BY <1>5, <1>6 DEF call

\* A slot that is given up knows nothing.
LEMMA ReleaseOK ==
    ASSUME NEW s \in Slots, TypeOK, Deliver(s) \/ Abandon(s)
    PROVE  StepOK(s)
<1>1. slots' = [slots EXCEPT ![s] = Idle] /\ rpc' = {} /\ UNCHANGED <<ownership, told>>
  BY DEF Deliver, Abandon
<1>2. /\ slots' \in [Slots -> Slot] /\ slots'[s].step = "idle"
      /\ \A t \in Slots \ {s} : slots'[t] = slots[t]
  BY <1>1, IdleFact DEF TypeOK, Idle
<1>3. SlotInv(s)'
  BY <1>2 DEF SlotInv, Running, AnsweredSoFar
<1> QED BY <1>1, <1>2, <1>3, QuietStep

-----------------------------------------------------------------------------
(* The tool_ownership table                                                *)

\* INSERT OR IGNORE leaves every row that is there alone, and afterwards each
\* of the rows has an owner.
LEMMA InsertFact ==
    ASSUME NEW K \in SUBSET Keys, NEW u \in Users, TypeOK, Insert(K, u)
    PROVE  /\ Kept /\ ownership' \in [Keys -> Users \cup {None}]
           /\ \A k \in K : ownership[k] = None => ownership'[k] = u
  BY DEF Insert, Kept, TypeOK

\* After a row has been dealt with the handler is at the next one or done.
LEMMA NextRowFact ==
    ASSUME NEW s \in Slots, TypeOK, SlotInv(s), slots[s].step \in {"record", "recheck"},
           NextRow(s)
    PROVE  /\ slots' \in [Slots -> Slot]
           /\ SlotInv(s)'
           /\ \A t \in Slots \ {s} : slots'[t] = slots[t]
<1> DEFINE x == slots[s]
<1>1. Running(s) /\ "result" \in Replies
  BY DEF Running, Replies
<1>2. CASE Finish(s, "result")
  BY <1>1, <1>2, FinishFact
<1>3. CASE /\ Len(x.rows) # 1
           /\ slots' = [slots EXCEPT ![s].step = "record", ![s].rows = Tail(@)]
  <2>1. x \in Slot /\ x.rows \in Seq(Keys) /\ x.rows # <<>>
    BY DEF TypeOK, Slot, SlotInv
  <2>2. Tail(x.rows) \in Seq(Keys) /\ Tail(x.rows) # <<>>
    <3>1. Tail(x.rows) \in Seq(Keys) /\ Len(Tail(x.rows)) = Len(x.rows) - 1
      BY <2>1, HeadTailProperties
    <3>2. Len(x.rows) \in Nat /\ Len(x.rows) # 0
      BY <2>1, EmptySeq, LenProperties
    <3>3. Len(Tail(x.rows)) # 0
      BY <1>3, <3>1, <3>2
    <3> QED BY <3>1, <3>3, EmptySeq
  <2>3. slots' = [slots EXCEPT ![s] = [x EXCEPT !.step = "record", !.rows = Tail(x.rows)]]
    BY <1>3 DEF TypeOK
  <2>4. [x EXCEPT !.step = "record", !.rows = Tail(x.rows)] \in Slot
    BY <2>1, <2>2 DEF Slot, Steps
  <2>5. /\ slots' \in [Slots -> Slot] /\ \A t \in Slots \ {s} : slots'[t] = slots[t]
        /\ slots'[s].step = "record" /\ slots'[s].rows = Tail(x.rows)
        /\ slots'[s].user = x.user /\ slots'[s].body = x.body /\ slots'[s].out = x.out
    BY <2>1, <2>3, <2>4 DEF TypeOK, Slot
  <2>6. SlotInv(s)'
    BY <1>1, <2>2, <2>5 DEF SlotInv, Running, AnsweredSoFar
  <2> QED BY <2>5, <2>6
<1> QED BY <1>2, <1>3 DEF NextRow

\* record tells the caller only of a row that it has just inserted.
LEMMA RecordOK ==
    ASSUME NEW s \in Slots, TypeOK, SlotInv(s), record(s)
    PROVE  StepOK(s)
<1> DEFINE k == Head(slots[s].rows)
           u == slots[s].user
<1>1. slots[s].step = "record" /\ rpc' = {}
  BY DEF record, At
<1>2. u \in Users /\ slots[s].rows \in Seq(Keys) /\ slots[s].rows # <<>>
  BY <1>1 DEF SlotInv, TypeOK, Slot
<1>3. k \in Keys
  BY <1>2
<1>4. CASE ownership[k] = None /\ Insert({k}, u) /\ told' = told \cup {<<u, k>>} /\ NextRow(s)
  <2>1. Kept /\ ownership' \in [Keys -> Users \cup {None}] /\ ownership'[k] = u
    <3>1. {k} \in SUBSET Keys
      BY <1>3
    <3> HIDE DEF k, u
    <3> QED BY <1>2, <1>4, <3>1, InsertFact
  <2>2. /\ slots' \in [Slots -> Slot] /\ SlotInv(s)'
        /\ \A t \in Slots \ {s} : slots'[t] = slots[t]
    BY <1>1, <1>4, NextRowFact
  <2>3. told' \subseteq Users \X Keys
    BY <1>2, <1>3, <1>4 DEF TypeOK
  <2> QED BY <1>1, <1>4, <2>1, <2>2, <2>3 DEF StepOK, TenantIsolation
<1>5. CASE Goto(s, "recheck") /\ UNCHANGED <<ownership, told>>
  <2>1. "recheck" \in Steps
    BY DEF Steps
  <2>2. /\ slots' \in [Slots -> Slot] /\ \A t \in Slots \ {s} : slots'[t] = slots[t]
        /\ slots'[s].step = "recheck" /\ slots'[s].user = slots[s].user
        /\ slots'[s].body = slots[s].body /\ slots'[s].out = slots[s].out
        /\ slots'[s].rows = slots[s].rows
    BY <1>5, <2>1, GotoFact
  <2>3. SlotInv(s)'
    BY <1>1, <1>2, <2>2 DEF SlotInv, Running, AnsweredSoFar
  <2> QED BY <1>1, <1>5, <2>2, <2>3, QuietStep
<1>6. CASE NextRow(s) /\ UNCHANGED <<ownership, told>>
  BY <1>1, <1>6, NextRowFact, QuietStep
<1> QED BY <1>4, <1>5, <1>6 DEF record

\* recheck tells the caller only of a row that it has read as its own.
LEMMA RecheckOK ==
    ASSUME NEW s \in Slots, TypeOK, SlotInv(s), recheck(s)
    PROVE  StepOK(s)
<1> DEFINE k == Head(slots[s].rows)
           u == slots[s].user
<1>1. /\ slots[s].step = "recheck" /\ rpc' = {} /\ UNCHANGED ownership
      /\ NextRow(s)
      /\ (ownership[k] = u /\ told' = told \cup {<<u, k>>}) \/ UNCHANGED told
  BY DEF recheck, At, verify
<1>2. u \in Users /\ slots[s].rows \in Seq(Keys) /\ slots[s].rows # <<>>
  BY <1>1 DEF SlotInv, TypeOK, Slot
<1>3. k \in Keys
  BY <1>2
<1>4. /\ slots' \in [Slots -> Slot] /\ SlotInv(s)'
      /\ \A t \in Slots \ {s} : slots'[t] = slots[t]
  BY <1>1, NextRowFact
<1>5. told' \subseteq Users \X Keys
  BY <1>1, <1>2, <1>3 DEF TypeOK
<1>6. \A p \in told' \ told : ownership'[p[2]] = p[1]
  BY <1>1
<1> QED BY <1>1, <1>4, <1>5, <1>6 DEF StepOK, Kept, TenantIsolation, TypeOK

\* record_many inserts all rows or none, and has all of them still to read.
LEMMA RecordManyOK ==
    ASSUME NEW s \in Slots, TypeOK, SlotInv(s), record_many(s)
    PROVE  StepOK(s)
<1> DEFINE x == slots[s]
           K == {x.rows[i] : i \in 1..Len(x.rows)}
<1>1. x.step = "record_many" /\ rpc' = {} /\ UNCHANGED told
  BY DEF record_many, At
<1>2. Running(s) /\ "result" \in Replies
  BY <1>1 DEF Running, Replies
<1>3. x.user \in Users /\ x.rows \in Seq(Keys) /\ x \in Slot
  BY <1>1 DEF SlotInv, TypeOK, Slot
<1>4. CASE Finish(s, "result") /\ UNCHANGED ownership
  BY <1>1, <1>2, <1>4, FinishFact, QuietStep
<1>5. CASE /\ Insert(K, x.user)
           /\ slots' = [slots EXCEPT ![s].step = "check_many", ![s].todo = x.rows]
  <2>1. K \in SUBSET Keys
    BY <1>3, ElementOfSeq
  <2>2. Kept /\ ownership' \in [Keys -> Users \cup {None}]
    BY <1>3, <1>5, <2>1, InsertFact
  <2>3. slots' = [slots EXCEPT ![s] = [x EXCEPT !.step = "check_many", !.todo = x.rows]]
    BY <1>5 DEF TypeOK
  <2>4. [x EXCEPT !.step = "check_many", !.todo = x.rows] \in Slot
    BY <1>3 DEF Slot, Steps
  <2>5. /\ slots' \in [Slots -> Slot] /\ \A t \in Slots \ {s} : slots'[t] = slots[t]
        /\ slots'[s].step = "check_many" /\ slots'[s].rows = x.rows
        /\ slots'[s].todo = x.rows
        /\ slots'[s].user = x.user /\ slots'[s].body = x.body /\ slots'[s].out = x.out
    BY <1>3, <2>3, <2>4 DEF TypeOK, Slot
  <2>6. ReadRowsOwned(s)'
    BY <2>5 DEF ReadRowsOwned
  <2>7. SlotInv(s)'
    BY <1>2, <1>3, <2>5, <2>6 DEF SlotInv, Running, AnsweredSoFar
  <2> QED BY <1>1, <2>2, <2>5, <2>7 DEF StepOK, TenantIsolation, TypeOK
<1> QED BY <1>4, <1>5 DEF record_many

\* check_many takes a row off the list when it is the caller's, and tells the
\* caller of all rows when the list is empty.
LEMMA CheckManyOK ==
    ASSUME NEW s \in Slots, TypeOK, SlotInv(s), check_many(s)
    PROVE  StepOK(s)
<1> DEFINE x == slots[s]
           u == x.user
<1>1. x.step = "check_many" /\ rpc' = {} /\ UNCHANGED ownership
  BY DEF check_many, At
<1>2. Running(s) /\ "result" \in Replies
  BY <1>1 DEF Running, Replies
<1>3. x.user \in Users /\ x.rows \in Seq(Keys) /\ x.todo \in Seq(Keys) /\ x \in Slot
      /\ ReadRowsOwned(s)
  BY <1>1 DEF SlotInv, TypeOK, Slot
<1>4. CASE /\ x.todo = <<>>
           /\ told' = told \cup {<<u, x.rows[i]>> : i \in 1..Len(x.rows)}
           /\ Finish(s, "result")
  <2>1. \A i \in 1..Len(x.rows) : ownership[x.rows[i]] = u
    BY <1>3, <1>4 DEF ReadRowsOwned
  <2>2. \A i \in 1..Len(x.rows) : x.rows[i] \in Keys
    BY <1>3, ElementOfSeq
  <2>3. told' \subseteq Users \X Keys
    BY <1>3, <1>4, <2>2 DEF TypeOK
  <2>4. \A p \in told' \ told : ownership'[p[2]] = p[1]
    BY <1>1, <1>4, <2>1
  <2>5. /\ slots' \in [Slots -> Slot] /\ SlotInv(s)'
        /\ \A t \in Slots \ {s} : slots'[t] = slots[t]
    BY <1>2, <1>4, FinishFact
  <2> QED BY <1>1, <2>3, <2>4, <2>5 DEF StepOK, Kept, TenantIsolation, TypeOK
<1>5. CASE /\ x.todo # <<>> /\ verify(Head(x.todo), u) /\ UNCHANGED told
           /\ slots' = [slots EXCEPT ![s].todo = Tail(@)]
  <2>1. Tail(x.todo) \in Seq(Keys) /\ Len(Tail(x.todo)) = Len(x.todo) - 1
        /\ \A j \in 1..Len(x.todo) - 1 : Tail(x.todo)[j] = x.todo[j + 1]
    BY <1>3, <1>5
  <2>2. slots' = [slots EXCEPT ![s] = [x EXCEPT !.todo = Tail(x.todo)]]
    BY <1>5 DEF TypeOK
  <2>3. [x EXCEPT !.todo = Tail(x.todo)] \in Slot
    BY <1>3, <2>1 DEF Slot
  <2>4. /\ slots' \in [Slots -> Slot] /\ \A t \in Slots \ {s} : slots'[t] = slots[t]
        /\ slots'[s].step = "check_many" /\ slots'[s].rows = x.rows
        /\ slots'[s].todo = Tail(x.todo)
        /\ slots'[s].user = x.user /\ slots'[s].body = x.body /\ slots'[s].out = x.out
    BY <1>1, <1>3, <2>2, <2>3 DEF TypeOK, Slot
  <2>5. ASSUME NEW i \in 1..Len(x.rows), NEW j \in 1..Len(x.todo), x.todo[j] = x.rows[i],
               ownership[x.rows[i]] # u
        PROVE  \E n \in 1..Len(Tail(x.todo)) : Tail(x.todo)[n] = x.rows[i]
    <3>1. j # 1
      BY <1>3, <1>5, <2>5 DEF verify
    <3>2. j - 1 \in 1..Len(Tail(x.todo)) /\ Tail(x.todo)[j - 1] = x.rows[i]
      BY <1>3, <2>1, <2>5, <3>1
    <3> QED BY <3>2
  <2>6. ReadRowsOwned(s)'
    BY <1>1, <1>3, <2>4, <2>5 DEF ReadRowsOwned
  <2>7. SlotInv(s)'
    BY <1>2, <1>3, <2>4, <2>6 DEF SlotInv, Running, AnsweredSoFar
  <2> QED BY <1>1, <1>5, <2>4, <2>7, QuietStep
<1>6. CASE Finish(s, "result") /\ UNCHANGED told
  BY <1>1, <1>2, <1>6, FinishFact, QuietStep
<1> QED BY <1>4, <1>5, <1>6 DEF check_many

-----------------------------------------------------------------------------
(* The handlers                                                            *)

\* The slot goes to a recording step with the ids that vegapunk gave.
LEMMA RowsFact ==
    ASSUME NEW s \in Slots, NEW step \in {"record", "record_many"}, NEW rows \in Seq(Keys),
           TypeOK, SlotInv(s), Running(s), rows # <<>>,
           slots' = [slots EXCEPT ![s].step = step, ![s].rows = rows]
    PROVE  /\ slots' \in [Slots -> Slot]
           /\ SlotInv(s)'
           /\ \A t \in Slots \ {s} : slots'[t] = slots[t]
<1> DEFINE x == slots[s]
<1>1. x \in Slot
  BY DEF TypeOK
<1>2. slots' = [slots EXCEPT ![s] = [x EXCEPT !.step = step, !.rows = rows]]
  BY DEF TypeOK
<1>3. [x EXCEPT !.step = step, !.rows = rows] \in Slot
  BY <1>1 DEF Slot, Steps
<1>4. /\ slots' \in [Slots -> Slot] /\ \A t \in Slots \ {s} : slots'[t] = slots[t]
      /\ slots'[s].step = step /\ slots'[s].rows = rows
      /\ slots'[s].user = x.user /\ slots'[s].body = x.body /\ slots'[s].out = x.out
  BY <1>1, <1>2, <1>3 DEF TypeOK, Slot
<1>5. SlotInv(s)'
  BY <1>4 DEF SlotInv, Running, AnsweredSoFar
<1> QED BY <1>4, <1>5

\* What vegapunk hands out are identifiers.
LEMMA IssuedFact ==
    ASSUME NEW kind
    PROVE  Issued(kind) \subseteq Keys
  BY McpAssumption DEF Issued, Keys

\* search asks both schemas and records the ids of the replies.
LEMMA SearchOK ==
    ASSUME NEW s \in Slots, TypeOK, SlotInv(s), search(s)
    PROVE  StepOK(s)
<1>1. Running(s) /\ rpc' = FanOut(s) /\ UNCHANGED <<ownership, told>>
  BY DEF search, At, Running
<1>2. {"error", "result"} \subseteq Replies
  BY DEF Replies
<1>3. CASE Finish(s, "error") \/ Finish(s, "result")
  BY <1>1, <1>2, <1>3, FinishFact, FanOutStep
<1>4. CASE \E personal, shared \in {<<>>} \cup {<<k>> : k \in Issued("search")} :
              /\ personal \o shared # <<>>
              /\ slots' = [slots EXCEPT ![s].step = "record", ![s].rows = personal \o shared]
  <2>1. PICK personal \in {<<>>} \cup {<<k>> : k \in Issued("search")},
             shared \in {<<>>} \cup {<<k>> : k \in Issued("search")} :
              /\ personal \o shared # <<>>
              /\ slots' = [slots EXCEPT ![s].step = "record", ![s].rows = personal \o shared]
    BY <1>4
  <2>2. personal \in Seq(Keys) /\ shared \in Seq(Keys)
    <3>1. \A k \in Keys : <<k>> \in Seq(Keys)
      OBVIOUS
    <3>2. \A k \in Issued("search") : <<k>> \in Seq(Keys)
      BY <3>1, IssuedFact
    <3> QED BY <3>2, EmptySeq
  <2>3. personal \o shared \in Seq(Keys)
    BY <2>2, ConcatProperties
  <2> QED BY <1>1, <2>1, <2>3, RowsFact, FanOutStep
<1> QED BY <1>3, <1>4 DEF search

\* ingest_raw records the ids of its chunks.
LEMMA IngestRawOK ==
    ASSUME NEW s \in Slots, TypeOK, SlotInv(s), ingest_raw(s)
    PROVE  StepOK(s)
<1>1. Running(s) /\ rpc' = FanOut(s) /\ UNCHANGED <<ownership, told>>
  BY DEF ingest_raw, At, Running
<1>2. {"error", "result"} \subseteq Replies
  BY DEF Replies
<1>3. CASE Finish(s, "error") \/ Finish(s, "result")
  BY <1>1, <1>2, <1>3, FinishFact, FanOutStep
<1>4. CASE \E rows \in MsgIds :
              /\ rows # <<>>
              /\ slots' = [slots EXCEPT ![s].step = "record_many", ![s].rows = rows]
  <2>1. PICK rows \in MsgIds :
              /\ rows # <<>>
              /\ slots' = [slots EXCEPT ![s].step = "record_many", ![s].rows = rows]
    BY <1>4
  <2>2. PICK n \in 0..MaxChunks : rows \in [1..n -> Issued("msg")]
    BY DEF MsgIds
  <2>3. n \in Nat
    BY McpAssumption
  <2>4. rows \in [1..n -> Keys]
    BY <2>2, IssuedFact
  <2>5. rows \in Seq(Keys)
    BY <2>3, <2>4, SeqDef
  <2> QED BY <1>1, <2>1, <2>5, RowsFact, FanOutStep
<1> QED BY <1>3, <1>4 DEF ingest_raw

\* The handlers that ask both schemas and answer.
LEMMA ReadOK ==
    ASSUME NEW s \in Slots, TypeOK, SlotInv(s),
           ingest(s) \/ query_nodes(s) \/ stats(s) \/ get_schema(s) \/ get_traceable_chain(s)
    PROVE  StepOK(s)
<1>1. /\ Running(s) /\ rpc' = FanOut(s) /\ UNCHANGED <<ownership, told>>
      /\ Finish(s, "error") \/ Finish(s, "result")
  BY DEF ingest, query_nodes, stats, get_schema, get_traceable_chain, ReadBoth, At, Running
<1>2. {"error", "result"} \subseteq Replies
  BY DEF Replies
<1> QED BY <1>1, <1>2, FinishFact, FanOutStep

\* list_schemas calls nobody by name.
LEMMA ListSchemasOK ==
    ASSUME NEW s \in Slots, TypeOK, SlotInv(s), list_schemas(s)
    PROVE  StepOK(s)
<1>1. /\ Running(s) /\ rpc' = {} /\ UNCHANGED <<ownership, told>>
      /\ Finish(s, "error") \/ Finish(s, "result")
  BY DEF list_schemas, At, Running
<1>2. {"error", "result"} \subseteq Replies
  BY DEF Replies
<1> QED BY <1>1, <1>2, FinishFact, QuietStep

\* feedback and get_job_status go on only when they have read the caller's row.
LEMMA VerifyOwnerOK ==
    ASSUME NEW s \in Slots, TypeOK, SlotInv(s), feedback(s) \/ get_job_status(s)
    PROVE  StepOK(s)
<1>1. /\ slots[s].step \in {"feedback", "get_job_status"}
      /\ rpc' = {} /\ UNCHANGED <<ownership, told>>
      /\ \/ ownership[KeyOf(s)] = slots[s].user /\ Goto(s, "send")
         \/ Finish(s, "denied") \/ Finish(s, "error")
  BY DEF feedback, get_job_status, VerifyOwner, At, verify
<1>2. Running(s) /\ {"denied", "error"} \subseteq Replies /\ "send" \in Steps
  BY <1>1 DEF Running, Replies, Steps
<1>3. CASE Finish(s, "denied") \/ Finish(s, "error")
  BY <1>1, <1>2, <1>3, FinishFact, QuietStep
<1>4. CASE ownership[KeyOf(s)] = slots[s].user /\ Goto(s, "send")
  <2>1. /\ slots' \in [Slots -> Slot] /\ \A t \in Slots \ {s} : slots'[t] = slots[t]
        /\ slots'[s].step = "send" /\ slots'[s].user = slots[s].user
        /\ slots'[s].body = slots[s].body /\ slots'[s].out = slots[s].out
    BY <1>2, <1>4, GotoFact
  <2>2. KeyOf(s)' = KeyOf(s)
    BY <2>1 DEF KeyOf, Current
  <2>3. SlotInv(s)'
    BY <1>1, <1>2, <1>4, <2>1, <2>2 DEF SlotInv, Running, AnsweredSoFar
  <2> QED BY <1>1, <2>1, <2>3, QuietStep
<1> QED BY <1>1, <1>3, <1>4

\* The call with an id is made for its owner.
LEMMA SendOK ==
    ASSUME NEW s \in Slots, TypeOK, SlotInv(s), SendById(s)
    PROVE  StepOK(s)
<1>1. /\ slots[s].step = "send" /\ UNCHANGED <<ownership, told>>
      /\ rpc' = {[user |-> slots[s].user, on |-> KeyOf(s)]}
      /\ Finish(s, "error") \/ Finish(s, "result")
  BY DEF SendById, At
<1>2. Running(s) /\ {"error", "result"} \subseteq Replies
  BY <1>1 DEF Running, Replies
<1>3. slots[s].user \in Users /\ KeyOf(s) \in Keys /\ ownership[KeyOf(s)] = slots[s].user
  BY <1>1 DEF SlotInv
<1>4. /\ slots' \in [Slots -> Slot] /\ SlotInv(s)'
      /\ \A t \in Slots \ {s} : slots'[t] = slots[t]
  BY <1>1, <1>2, FinishFact
<1>5. TenantIsolation' /\ rpc' \subseteq [user : Users, on : Users \cup {SharedSchema} \cup Keys]
  BY <1>1, <1>3 DEF TenantIsolation
<1> QED BY <1>1, <1>4, <1>5 DEF StepOK, Kept, TypeOK

-----------------------------------------------------------------------------
(* The theorems                                                            *)

\* At the start nobody owns, knows or was told anything.
LEMMA InitInv == Init => IInv
<1> SUFFICES ASSUME Init PROVE IInv
  OBVIOUS
<1>1. TypeOK
  BY IdleFact DEF Init, TypeOK
<1>2. \A s \in Slots : SlotInv(s)
  BY DEF Init, Idle, SlotInv, Running
<1> QED BY <1>1, <1>2 DEF Init, IInv, TenantIsolation, RecordedMeansOwned

\* Every step of a slot is OK.
LEMMA NextOK ==
    ASSUME IInv, Next
    PROVE  \E s \in Slots : StepOK(s)
<1>1. PICK s \in Slots :
          \/ \E u \in Users, b \in Bodies : require_auth(s, u, b)
          \/ HandlerStep(s)
          \/ Abandon(s)
  BY DEF Next
<1>2. TypeOK /\ SlotInv(s)
  BY DEF IInv
<1>3. StepOK(s)
  BY <1>1, <1>2, HandleOK, DispatchOK, CallOK, ReleaseOK, RecordOK, RecheckOK,
     RecordManyOK, CheckManyOK, SearchOK, IngestRawOK, ReadOK, ListSchemasOK,
     VerifyOwnerOK, SendOK DEF HandlerStep
<1> QED BY <1>3

\* The invariant is inductive.
LEMMA NextInv == IInv /\ [Next]_vars => IInv'
<1>1. ASSUME IInv, Next PROVE IInv'
  BY <1>1, NextOK, StepKeepsInv
<1>2. ASSUME IInv, UNCHANGED vars PROVE IInv'
  <2>1. TypeOK' /\ TenantIsolation' /\ RecordedMeansOwned'
    BY <1>2 DEF IInv, vars, TypeOK, TenantIsolation, RecordedMeansOwned
  <2>2. ASSUME NEW s \in Slots PROVE SlotInv(s)'
    <3>1. slots'[s] = slots[s] /\ Kept
      BY <1>2 DEF vars, Kept
    <3> QED BY <1>2, <3>1, OthersKeep DEF IInv
  <2> QED BY <2>1, <2>2 DEF IInv
<1> QED BY <1>1, <1>2

LEMMA Inductive == Spec => []IInv
  BY InitInv, NextInv, PTL DEF Spec

\* The table, the POSTs being handled and the calls made keep their types
\* (TypeOK), for any users, ids and bodies.
THEOREM McpTypes == Spec => []TypeOK
<1>1. IInv => TypeOK
  BY DEF IInv
<1> QED BY <1>1, Inductive, PTL

\* No call to vegapunk crosses tenants (TenantIsolation), whatever clients
\* write into their arguments and whichever ids vegapunk hands out.
THEOREM NoCrossTenantCall == Spec => []TenantIsolation
<1>1. IInv => TenantIsolation
  BY DEF IInv
<1> QED BY <1>1, Inductive, PTL

\* Whoever was told ownership_recorded = true owns the id from then on
\* (RecordedMeansOwned), however the recordings of an id interleave.
THEOREM RecordedIsOwned == Spec => []RecordedMeansOwned
<1>1. IInv => RecordedMeansOwned
  BY DEF IInv
<1> QED BY <1>1, Inductive, PTL

\* An answered POST has one outcome for every entry of its body, in their order
\* and each the one owed (ResponsesMatchEntries): a batch of any length mixes
\* requests, notifications, broken entries and tools at any of their awaits.
THEOREM EveryEntryAnswered == Spec => []ResponsesMatchEntries
<1>1. IInv => ResponsesMatchEntries
  BY DEF IInv, SlotInv, FullyAnswered, AnsweredSoFar, ResponsesMatchEntries, At
<1> QED BY <1>1, Inductive, PTL

-----------------------------------------------------------------------------
(* Handlers and table implement FirstClaim                                 *)

\* A step that makes no call, or asks both schemas, uses no id.
LEMMA NoUse ==
    ASSUME NEW s \in Slots, TypeOK, SlotInv(s),
           rpc' = {} \/ (Running(s) /\ rpc' = FanOut(s))
    PROVE  Using' = {}
<1>1. CASE rpc' = {}
  BY <1>1 DEF Using
<1>2. CASE Running(s) /\ rpc' = FanOut(s)
  <2>1. slots[s].user \in Users
    BY <1>2 DEF SlotInv, Running, AnsweredSoFar
  <2>2. \A m \in rpc' : m.on \in Users \cup {SharedSchema}
    BY <1>2, <2>1 DEF FanOut, RequestSchema
  <2>3. \A m \in rpc' : m.on \notin Keys
    BY <2>2, BodiesAssumption
  <2> QED BY <2>3 DEF Using
<1> QED BY <1>1, <1>2

\* record claims the row at the head, or does nothing that shows.
LEMMA RecordClaims ==
    ASSUME NEW s \in Slots, TypeOK, SlotInv(s), record(s)
    PROVE  Claims!Next
<1> DEFINE k == Head(slots[s].rows)
           u == slots[s].user
<1>1. slots[s].step = "record" /\ rpc' = {}
  BY DEF record, At
<1>2. u \in Users /\ slots[s].rows \in Seq(Keys) /\ slots[s].rows # <<>>
  BY <1>1 DEF SlotInv, TypeOK, Slot
<1>3. k \in Keys
  BY <1>2
<1>4. Using' = {}
  BY <1>1, NoUse
<1>5. CASE ownership[k] = None /\ Insert({k}, u) /\ told' = told \cup {<<u, k>>}
  <2> HIDE DEF k, u
  <2>1. ownership' = [j \in Keys |-> IF j \in {k} /\ ownership[j] = None
                                      THEN u ELSE ownership[j]]
    BY <1>5 DEF Insert
  <2>2. ownership'[k] = u
    BY <1>3, <1>5, <2>1
  <2>3. Claims!Claim(u, {k})
    BY <1>4, <1>5, <2>1, <2>2 DEF Claims!Claim
  <2>4. {k} \in SUBSET Keys
    BY <1>3
  <2> QED BY <1>2, <2>3, <2>4 DEF Claims!Next
<1>6. CASE UNCHANGED <<ownership, told>>
  BY <1>4, <1>6 DEF Claims!Next, Claims!Done
<1> QED BY <1>5, <1>6 DEF record

\* recheck promises the row at the head, or nothing.
LEMMA RecheckClaims ==
    ASSUME NEW s \in Slots, TypeOK, SlotInv(s), recheck(s)
    PROVE  Claims!Next
<1> DEFINE k == Head(slots[s].rows)
           u == slots[s].user
<1>1. slots[s].step = "recheck" /\ rpc' = {} /\ ownership' = ownership
  BY DEF recheck, At
<1>2. u \in Users /\ slots[s].rows \in Seq(Keys) /\ slots[s].rows # <<>>
  BY <1>1 DEF SlotInv, TypeOK, Slot
<1>3. k \in Keys
  BY <1>2
<1>4. Using' = {}
  BY <1>1, NoUse
<1>5. CASE ownership[k] = u /\ told' = told \cup {<<u, k>>}
  <2> HIDE DEF k, u
  <2>1. Claims!Promise(u, {k})
    BY <1>1, <1>4, <1>5 DEF Claims!Promise
  <2>2. {k} \in SUBSET Keys
    BY <1>3
  <2> QED BY <1>2, <2>1, <2>2 DEF Claims!Next
<1>6. CASE UNCHANGED told
  BY <1>1, <1>4, <1>6 DEF Claims!Next, Claims!Done
<1> QED BY <1>5, <1>6 DEF recheck, verify

\* record_many claims all its rows at once, or none.
LEMMA RecordManyClaims ==
    ASSUME NEW s \in Slots, TypeOK, SlotInv(s), record_many(s)
    PROVE  Claims!Next
<1> DEFINE u == slots[s].user
           K == {slots[s].rows[i] : i \in 1..Len(slots[s].rows)}
<1>1. slots[s].step = "record_many" /\ rpc' = {} /\ told' = told
  BY DEF record_many, At
<1>2. u \in Users /\ slots[s].rows \in Seq(Keys)
  BY <1>1 DEF SlotInv, TypeOK, Slot
<1>3. K \in SUBSET Keys
  BY <1>2, ElementOfSeq
<1>4. Using' = {}
  BY <1>1, NoUse
<1>5. CASE Insert(K, u)
  <2> HIDE DEF K, u
  <2>1. Claims!Claim(u, K)
    BY <1>1, <1>4, <1>5 DEF Claims!Claim, Insert
  <2> QED BY <1>2, <1>3, <2>1 DEF Claims!Next
<1>6. CASE UNCHANGED ownership
  BY <1>1, <1>4, <1>6 DEF Claims!Next, Claims!Done
<1> QED BY <1>5, <1>6 DEF record_many

\* check_many promises its rows when all have been read as the caller's.
LEMMA CheckManyClaims ==
    ASSUME NEW s \in Slots, TypeOK, SlotInv(s), check_many(s)
    PROVE  Claims!Next
<1> DEFINE x == slots[s]
           u == slots[s].user
           K == {x.rows[i] : i \in 1..Len(x.rows)}
<1>1. x.step = "check_many" /\ rpc' = {} /\ ownership' = ownership
  BY DEF check_many, At
<1>2. u \in Users /\ x.rows \in Seq(Keys) /\ ReadRowsOwned(s)
  BY <1>1 DEF SlotInv, TypeOK, Slot
<1>3. K \in SUBSET Keys
  BY <1>2, ElementOfSeq
<1>4. Using' = {}
  BY <1>1, NoUse
<1>5. CASE x.todo = <<>> /\ told' = told \cup {<<u, x.rows[i]>> : i \in 1..Len(x.rows)}
  <2>1. \A k \in K : ownership[k] = u
    BY <1>2, <1>5 DEF ReadRowsOwned
  <2>2. told' = told \cup {<<u, k>> : k \in K}
    BY <1>5
  <2> HIDE DEF K, u
  <2>3. Claims!Promise(u, K)
    BY <1>1, <1>4, <2>1, <2>2 DEF Claims!Promise
  <2> QED BY <1>2, <1>3, <2>3 DEF Claims!Next
<1>6. CASE UNCHANGED told
  BY <1>1, <1>4, <1>6 DEF Claims!Next, Claims!Done
<1> QED BY <1>5, <1>6 DEF check_many

\* A call with an id is a use of it by its owner.
LEMMA SendUses ==
    ASSUME NEW s \in Slots, TypeOK, SlotInv(s), SendById(s)
    PROVE  Claims!Next
<1> DEFINE u == slots[s].user
           k == KeyOf(s)
<1>1. /\ slots[s].step = "send" /\ UNCHANGED <<ownership, told>>
      /\ rpc' = {[user |-> u, on |-> k]}
  BY DEF SendById, At
<1>2. u \in Users /\ k \in Keys /\ ownership[k] = u
  BY <1>1 DEF SlotInv
<1> HIDE DEF u, k
<1> DEFINE sent == [user |-> u, on |-> k]
<1>3. Using' = {<<u, k>>}
  <2>1. sent.user = u /\ sent.on = k
    OBVIOUS
  <2>2. rpc' = {sent}
    BY <1>1
  <2> HIDE DEF sent
  <2>3. {r \in rpc' : r.on \in Keys} = {sent}
    BY <1>2, <2>1, <2>2
  <2>4. Using' = {<<m.user, m.on>> : m \in {sent}}
    BY <2>3 DEF Using
  <2> QED BY <2>1, <2>4
<1>4. Claims!Use(u, k)
  BY <1>1, <1>2, <1>3 DEF Claims!Use
<1> QED BY <1>2, <1>4 DEF Claims!Next

\* Every step of the endpoint is a step of FirstClaim.
LEMMA StepClaims == IInv /\ [Next]_vars => [Claims!Next]_<<ownership, told, Using>>
<1>1. ASSUME IInv, Next PROVE Claims!Next
  <2>1. PICK s \in Slots :
            \/ \E u \in Users, b \in Bodies : require_auth(s, u, b)
            \/ HandlerStep(s)
            \/ Abandon(s)
    BY <1>1 DEF Next
  <2>2. TypeOK /\ SlotInv(s)
    BY <1>1 DEF IInv
  <2>3. ASSUME UNCHANGED <<ownership, told>>, rpc' = {} \/ (Running(s) /\ rpc' = FanOut(s))
        PROVE  Claims!Next
    BY <2>2, <2>3, NoUse DEF Claims!Next, Claims!Done
  <2>4. CASE \/ \E u \in Users, b \in Bodies : require_auth(s, u, b)
             \/ dispatch_one(s) \/ call(s) \/ Deliver(s) \/ Abandon(s) \/ list_schemas(s)
             \/ feedback(s) \/ get_job_status(s)
    BY <2>3, <2>4 DEF require_auth, handle, dispatch_one, call, Deliver, Abandon,
          list_schemas, feedback, get_job_status, VerifyOwner
  <2>5. CASE \/ search(s) \/ ingest_raw(s) \/ ingest(s) \/ query_nodes(s) \/ stats(s)
             \/ get_schema(s) \/ get_traceable_chain(s)
    BY <2>3, <2>5 DEF search, ingest_raw, ingest, query_nodes, stats, get_schema,
          get_traceable_chain, ReadBoth, At, Running
  <2> QED BY <2>1, <2>2, <2>4, <2>5, RecordClaims, RecheckClaims, RecordManyClaims,
             CheckManyClaims, SendUses DEF HandlerStep
<1>2. ASSUME UNCHANGED vars PROVE UNCHANGED <<ownership, told, Using>>
  BY <1>2 DEF vars, Using
<1> QED BY <1>1, <1>2

\* The handlers and the table keep the promise of FirstClaim
\* (ImplementsFirstClaim): an id belongs to the first who records it, and only
\* its owner is told so and gets through to vegapunk with it.
THEOREM KeepsFirstClaim == Spec => ImplementsFirstClaim
<1>1. Init => Claims!Init
  BY DEF Init, Claims!Init, Using
<1> QED BY <1>1, Inductive, StepClaims, PTL DEF Spec, ImplementsFirstClaim, Claims!Spec
=============================================================================
