---------------------------- MODULE IngestProofs ----------------------------
(***************************************************************************)
(* Proofs about Ingest, for any number of calls, schemas, jobs and names:  *)
(* types, the serializer lets one call at a time through (OneAtATime), a   *)
(* call that says ok has its entities in the graph (OkIsExtracted), and    *)
(* the graph keeps one spelling of each entity (OneSpellingEach).          *)
(*                                                                         *)
(* Locks says that the calls of a schema are queued at one lock, each      *)
(* once, and only the head works.  Knowledge says what a call knows of its *)
(* jobs: while it pages, what a round has seen of the older jobs is a      *)
(* stretch without gaps, newest first (Contiguous), and so is the set      *)
(* behind its baseline (Based); two such stretches are comparable, and     *)
(* that is why the difference of two counts is a count of the call's own   *)
(* jobs.  Singles adds that no job of a schema is pending while the next   *)
(* call reads its names.                                                   *)
(***************************************************************************)
EXTENDS Ingest, FiniteSetTheorems, SequenceTheorems, TLAPS

Active == {"waiting", "scan", "send", "await"}

-----------------------------------------------------------------------------
(* The queue of a lock                                                     *)

\* Giving up a place moves those behind it up by one.
LEMMA LeaveFact ==
    ASSUME NEW S, NEW queue \in Seq(S), NEW i \in DOMAIN queue,
           \A j \in DOMAIN queue : queue[j] = queue[i] => j = i
    PROVE  /\ Leave(queue, queue[i]) \in Seq(S)
           /\ Len(Leave(queue, queue[i])) = Len(queue) - 1
           /\ \A j \in 1..(Len(queue) - 1) :
                 Leave(queue, queue[i])[j] = IF j < i THEN queue[j] ELSE queue[j + 1]
<1>1. i = CHOOSE k \in DOMAIN queue : queue[k] = queue[i]
  OBVIOUS
<1> DEFINE front == SubSeq(queue, 1, i - 1)
           back == SubSeq(queue, i + 1, Len(queue))
<1>2. Leave(queue, queue[i]) = front \o back
  BY <1>1 DEF Leave
<1>3. i \in 1..Len(queue) /\ Len(queue) \in Nat
  OBVIOUS
<1>4. /\ front \in Seq(S) /\ Len(front) = i - 1
      /\ \A j \in 1..(i - 1) : front[j] = queue[j]
  BY <1>3
<1>5. /\ back \in Seq(S) /\ Len(back) = Len(queue) - i
      /\ \A j \in 1..(Len(queue) - i) : back[j] = queue[j + i]
  BY <1>3
<1> HIDE DEF front, back
<1>6. /\ front \o back \in Seq(S)
      /\ Len(front \o back) = Len(queue) - 1
  BY <1>3, <1>4, <1>5
<1>7. ASSUME NEW j \in 1..(Len(queue) - 1)
      PROVE  (front \o back)[j] = IF j < i THEN queue[j] ELSE queue[j + 1]
  <2>1. CASE j < i
    BY <1>3, <1>4, <1>5, <2>1
  <2>2. CASE ~(j < i)
    <3>1. j - (i - 1) \in 1..(Len(queue) - i) /\ (j - (i - 1)) + i = j + 1
      BY <1>3, <2>2
    <3>2. (front \o back)[j] = back[j - (i - 1)]
      <4>1. /\ j \in 1..(Len(front) + Len(back))
            /\ ~(j <= Len(front))
            /\ j - Len(front) = j - (i - 1)
        BY <1>3, <1>4, <1>5, <2>2
      <4>2. (front \o back)[j] = back[j - Len(front)]
        BY <1>4, <1>5, <4>1, ConcatProperties
      <4> QED BY <4>1, <4>2
    <3> QED BY <1>5, <2>2, <3>1, <3>2
  <2> QED BY <2>1, <2>2
<1> QED BY <1>2, <1>6, <1>7

-----------------------------------------------------------------------------
(* The serializer                                                          *)

\* A call that has been sent and not answered names its schema's lock.
Locals ==
    \A c \in Calls :
        /\ calls[c].pc \in Active =>
              /\ calls[c].schema \in Schemas
              /\ calls[c].lock \in Calls
              /\ schemas[calls[c].schema] = calls[c].lock
        /\ calls[c].result # None => calls[c].pc = "done"

\* Such a call has exactly one place, in the queue of its lock ...
Queued ==
    /\ \A l \in Calls : \A i \in DOMAIN queues[l] :
          calls[queues[l][i]].pc \in Active /\ calls[queues[l][i]].lock = l
    /\ \A l \in Calls : \A i, j \in DOMAIN queues[l] :
          queues[l][i] = queues[l][j] => i = j
    /\ \A c \in Calls : calls[c].pc \in Active =>
          \E i \in DOMAIN queues[calls[c].lock] : queues[calls[c].lock][i] = c

\* ... and the first one when it works.
First(c) ==
    /\ queues[calls[c].lock] # <<>>
    /\ Head(queues[calls[c].lock]) = c

InTurn == \A c \in Calls : Working(c) => First(c)

Locks == Locals /\ Queued /\ InTurn

LEMMA LocksExclude == ASSUME Locks PROVE OneIngestPerSchema
BY DEF Locks, Locals, InTurn, First, OneIngestPerSchema, Working, Active

\* A call asks for the lock of its schema, or makes it.
LEMMA AcquireLocks ==
    ASSUME TypeOK, Locks, NEW c \in Calls, NEW kind, NEW s \in Schemas, NEW texts,
           acquire_ingest_serializer(c, kind, s, texts)
    PROVE  Locks'
<1> DEFINE l == lock_for(c, s)
           n == [NewCall EXCEPT !.pc = "waiting", !.kind = kind, !.schema = s,
                                !.lock = l, !.texts = texts]
<1>1. /\ calls[c].pc = "unsent"
      /\ schemas' = [schemas EXCEPT ![s] = l]
      /\ queues' = [queues EXCEPT ![l] = Append(queues[l], c)]
      /\ calls' = [calls EXCEPT ![c] = n]
  BY DEF acquire_ingest_serializer, At
<1>2. l \in Calls /\ (schemas[s] # None => l = schemas[s])
  BY DEF lock_for, TypeOK
<1>3. n.pc = "waiting" /\ n.schema = s /\ n.lock = l /\ n.result = None
  BY DEF NewCall
<1> HIDE DEF l, n
<1>4. /\ calls'[c] = n
      /\ \A d \in Calls : d # c => calls'[d] = calls[d]
      /\ queues \in [Calls -> Seq(Calls)]
      /\ schemas \in [Schemas -> Calls \cup {None}]
  BY <1>1 DEF TypeOK
<1>5. /\ queues'[l] = Append(queues[l], c)
      /\ \A k \in Calls : k # l => queues'[k] = queues[k]
  BY <1>1, <1>2, <1>4
<1>6. /\ Len(queues[l]) \in Nat
      /\ DOMAIN queues[l] = 1..Len(queues[l])
      /\ DOMAIN queues'[l] = 1..(Len(queues[l]) + 1)
      /\ queues'[l][Len(queues[l]) + 1] = c
      /\ \A i \in 1..Len(queues[l]) : queues'[l][i] = queues[l][i]
  BY <1>2, <1>4, <1>5
<1>7. /\ \A k \in Calls : \A i \in DOMAIN queues[k] : queues[k][i] # c
  BY <1>1 DEF Locks, Queued, Active
<1>8. Locals'
  <2>1. ASSUME NEW d \in Calls, d # c, calls[d].pc \in Active
        PROVE  /\ calls'[d].schema \in Schemas
               /\ calls'[d].lock \in Calls
               /\ schemas'[calls'[d].schema] = calls'[d].lock
    BY <1>1, <1>2, <1>4, <2>1, IngestAssumption DEF Locks, Locals
  <2> QED BY <1>1, <1>2, <1>3, <1>4, <2>1, IngestAssumption DEF Locks, Locals, Active
<1>9. Queued'
  <2>1. ASSUME NEW k \in Calls, NEW i \in DOMAIN queues'[k]
        PROVE  calls'[queues'[k][i]].pc \in Active /\ calls'[queues'[k][i]].lock = k
    <3>1. CASE k = l /\ i = Len(queues[l]) + 1
      BY <1>3, <1>4, <1>6, <3>1 DEF Active
    <3>2. CASE ~(k = l /\ i = Len(queues[l]) + 1)
      <4>1. i \in DOMAIN queues[k] /\ queues'[k][i] = queues[k][i]
        BY <1>5, <1>6, <2>1, <3>2
      <4>2. calls[queues[k][i]].pc \in Active /\ calls[queues[k][i]].lock = k
        BY <4>1 DEF Locks, Queued
      <4>3. queues[k][i] # c /\ queues[k][i] \in Calls
        BY <1>4, <1>7, <4>1
      <4> QED BY <1>4, <4>1, <4>2, <4>3
    <3> QED BY <3>1, <3>2
  <2>2. ASSUME NEW k \in Calls, NEW i \in DOMAIN queues'[k], NEW j \in DOMAIN queues'[k],
               queues'[k][i] = queues'[k][j]
        PROVE  i = j
    <3>1. CASE k = l
      <4>1. \A x, y \in DOMAIN queues[l] : queues[l][x] = queues[l][y] => x = y
        BY <1>2 DEF Locks, Queued
      <4>2. \A x \in DOMAIN queues[l] : queues[l][x] # c
        BY <1>2, <1>7
      <4>3. /\ i \in 1..(Len(queues[l]) + 1) /\ j \in 1..(Len(queues[l]) + 1)
            /\ queues'[l][i] = queues'[l][j]
        BY <1>6, <2>2, <3>1
      <4>4. \A x \in 1..(Len(queues[l]) + 1) :
               \/ x = Len(queues[l]) + 1
               \/ x \in DOMAIN queues[l] /\ queues'[l][x] = queues[l][x]
        BY <1>6
      <4> QED BY <1>6, <4>1, <4>2, <4>3, <4>4
    <3>2. CASE k # l
      BY <1>5, <2>2, <3>2 DEF Locks, Queued
    <3> QED BY <3>1, <3>2
  <2>3. ASSUME NEW d \in Calls, calls'[d].pc \in Active
        PROVE  \E i \in DOMAIN queues'[calls'[d].lock] : queues'[calls'[d].lock][i] = d
    <3>1. CASE d = c
      <4>1. Len(queues[l]) + 1 \in DOMAIN queues'[l]
        BY <1>6
      <4> QED BY <1>3, <1>4, <1>6, <3>1, <4>1
    <3>2. CASE d # c
      <4>1. PICK i \in DOMAIN queues[calls[d].lock] : queues[calls[d].lock][i] = d
        BY <1>4, <2>3, <3>2 DEF Locks, Queued
      <4>2. calls'[d] = calls[d] /\ calls[d].lock \in Calls
        BY <1>4, <2>3, <3>2 DEF Locks, Locals
      <4>3. i \in DOMAIN queues'[calls[d].lock] /\ queues'[calls[d].lock][i] = d
        BY <1>5, <1>6, <4>1, <4>2
      <4> QED BY <4>2, <4>3
    <3> QED BY <3>1, <3>2
  <2> QED BY <2>1, <2>2, <2>3 DEF Queued
<1>10. InTurn'
  <2> SUFFICES ASSUME NEW d \in Calls, Working(d)' PROVE First(d)'
    BY DEF InTurn
  <2>1. d # c /\ Working(d) /\ calls'[d] = calls[d] /\ calls[d].lock \in Calls
    BY <1>3, <1>4 DEF Working, Locks, Locals, Active
  <2>2. First(d)
    BY <2>1 DEF Locks, InTurn
  <2>3. /\ queues[calls[d].lock] \in Seq(Calls)
        /\ queues[calls[d].lock] # <<>> /\ queues[calls[d].lock][1] = d
    BY <1>4, <2>1, <2>2 DEF First
  <2>4. /\ queues'[calls[d].lock] \in Seq(Calls)
        /\ queues'[calls[d].lock] # <<>> /\ queues'[calls[d].lock][1] = d
    <3>1. CASE calls[d].lock = l
      <4>1. queues[l] \in Seq(Calls) /\ queues[l] # <<>> /\ queues[l][1] = d
        BY <2>3, <3>1
      <4>2. queues'[l] \in Seq(Calls) /\ queues'[l] # <<>> /\ queues'[l][1] = d
        BY <1>5, <1>6, <4>1
      <4> QED BY <3>1, <4>2
    <3>2. CASE calls[d].lock # l
      BY <1>5, <2>1, <2>3, <3>2
    <3> QED BY <3>1, <3>2
  <2> QED BY <2>1, <2>4 DEF First
<1> QED BY <1>8, <1>9, <1>10 DEF Locks

\* A call that ends leaves the queue, and whoever was first stays first.
LEMMA ReturnLocks ==
    ASSUME TypeOK, Locks, NEW c \in Calls, calls[c].pc \in Active, NEW result,
           Return(c, result), UNCHANGED schemas
    PROVE  Locks'
<1> DEFINE l == calls[c].lock
           n == [NewCall EXCEPT !.pc = "done", !.kind = calls[c].kind,
                    !.schema = calls[c].schema, !.own = calls[c].own,
                    !.leftover = calls[c].leftover, !.result = result]
<1>1. /\ queues' = [queues EXCEPT ![l] = Leave(queues[l], c)]
      /\ calls' = [calls EXCEPT ![c] = n]
  BY DEF Return
<1>2. n.pc = "done" /\ l \in Calls
  BY DEF NewCall, Locks, Locals
<1> HIDE DEF n
<1>3. /\ calls'[c].pc = "done"
      /\ \A d \in Calls : d # c => calls'[d] = calls[d]
      /\ queues \in [Calls -> Seq(Calls)] /\ queues[l] \in Seq(Calls)
  BY <1>1, <1>2 DEF TypeOK
<1>4. PICK p \in DOMAIN queues[l] : queues[l][p] = c
  BY DEF Locks, Queued
<1>5. /\ Leave(queues[l], c) \in Seq(Calls)
      /\ Len(Leave(queues[l], c)) = Len(queues[l]) - 1
      /\ \A j \in 1..(Len(queues[l]) - 1) :
            Leave(queues[l], c)[j] = IF j < p THEN queues[l][j] ELSE queues[l][j + 1]
  <2>1. \A j \in DOMAIN queues[l] : queues[l][j] = queues[l][p] => j = p
    BY <1>2 DEF Locks, Queued
  <2> HIDE DEF l
  <2> QED BY <1>3, <1>4, <2>1, LeaveFact
<1>6. /\ Len(queues[l]) \in Nat /\ p \in 1..Len(queues[l])
      /\ DOMAIN queues[l] = 1..Len(queues[l])
      /\ DOMAIN queues'[l] = 1..(Len(queues[l]) - 1)
      /\ \A j \in 1..(Len(queues[l]) - 1) :
            queues'[l][j] = IF j < p THEN queues[l][j] ELSE queues[l][j + 1]
      /\ \A k \in Calls : k # l => queues'[k] = queues[k]
  BY <1>1, <1>2, <1>3, <1>4, <1>5
<1> HIDE DEF l
<1>7. Locals'
  <2>1. SUFFICES ASSUME NEW d \in Calls
                 PROVE  /\ calls'[d].pc \in Active
                           => /\ calls'[d].schema \in Schemas /\ calls'[d].lock \in Calls
                              /\ schemas'[calls'[d].schema] = calls'[d].lock
                        /\ calls'[d].result # None => calls'[d].pc = "done"
    BY DEF Locals
  <2>2. CASE d = c
    BY <1>3, <2>2 DEF Active
  <2>3. CASE d # c
    <3>1. calls'[d] = calls[d] /\ schemas' = schemas
      BY <1>3, <2>3
    <3> QED BY <3>1 DEF Locks, Locals
  <2> QED BY <2>2, <2>3
<1>8. \A j \in DOMAIN queues'[l] :
         \E i \in DOMAIN queues[l] : /\ queues'[l][j] = queues[l][i] /\ i # p
                                     /\ i = IF j < p THEN j ELSE j + 1
  BY <1>6
<1>9. \A k \in Calls : \A i \in DOMAIN queues[k] : k # l => queues[k][i] # c
  BY DEF Locks, Queued, l
<1>10. \A i \in DOMAIN queues[l] : queues[l][i] = c => i = p
  BY <1>2, <1>4 DEF Locks, Queued
<1>11. Queued'
  <2>1. ASSUME NEW k \in Calls, NEW j \in DOMAIN queues'[k]
        PROVE  calls'[queues'[k][j]].pc \in Active /\ calls'[queues'[k][j]].lock = k
    <3>1. CASE k = l
      <4>1. PICK i \in DOMAIN queues[l] : queues'[l][j] = queues[l][i] /\ i # p
        BY <1>8, <2>1, <3>1
      <4>2. queues[l][i] # c /\ queues[l][i] \in Calls
        BY <1>3, <1>10, <4>1
      <4>3. calls[queues[l][i]].pc \in Active /\ calls[queues[l][i]].lock = l
        BY <1>2, <4>1 DEF Locks, Queued
      <4> QED BY <1>3, <3>1, <4>1, <4>2, <4>3
    <3>2. CASE k # l
      <4>1. /\ j \in DOMAIN queues[k] /\ queues'[k][j] = queues[k][j]
            /\ queues[k][j] # c /\ queues[k][j] \in Calls
        BY <1>3, <1>6, <1>9, <2>1, <3>2
      <4>2. calls[queues[k][j]].pc \in Active /\ calls[queues[k][j]].lock = k
        BY <4>1 DEF Locks, Queued
      <4> QED BY <1>3, <4>1, <4>2
    <3> QED BY <3>1, <3>2
  <2>2. ASSUME NEW k \in Calls, NEW i \in DOMAIN queues'[k], NEW j \in DOMAIN queues'[k],
               queues'[k][i] = queues'[k][j]
        PROVE  i = j
    <3>1. CASE k = l
      <4>1. \A x, y \in DOMAIN queues[l] : queues[l][x] = queues[l][y] => x = y
        BY <1>2 DEF Locks, Queued
      <4>2. /\ i \in 1..(Len(queues[l]) - 1) /\ j \in 1..(Len(queues[l]) - 1)
            /\ queues'[l][i] = queues'[l][j]
        BY <1>6, <2>2, <3>1
      <4> DEFINE old(x) == IF x < p THEN x ELSE x + 1
      <4>3. \A x \in 1..(Len(queues[l]) - 1) :
               old(x) \in DOMAIN queues[l] /\ queues'[l][x] = queues[l][old(x)]
        BY <1>6
      <4>4. old(i) = old(j)
        <5> HIDE DEF old
        <5> QED BY <4>1, <4>2, <4>3
      <4> QED BY <1>6, <4>2, <4>4
    <3>2. CASE k # l
      BY <1>6, <2>2, <3>2 DEF Locks, Queued
    <3> QED BY <3>1, <3>2
  <2>3. ASSUME NEW d \in Calls, calls'[d].pc \in Active
        PROVE  \E i \in DOMAIN queues'[calls'[d].lock] : queues'[calls'[d].lock][i] = d
    <3>1. d # c /\ calls'[d] = calls[d] /\ calls[d].lock \in Calls
      BY <1>3, <2>3 DEF Active, Locks, Locals
    <3>2. PICK i \in DOMAIN queues[calls[d].lock] : queues[calls[d].lock][i] = d
      BY <2>3, <3>1 DEF Locks, Queued
    <3>3. CASE calls[d].lock = l
      <4>1. i # p /\ i \in 1..Len(queues[l])
        BY <1>4, <1>6, <3>1, <3>2, <3>3
      <4>2. CASE i < p
        <5>1. i \in DOMAIN queues'[l] /\ queues'[l][i] = d
          BY <1>6, <3>2, <3>3, <4>1, <4>2
        <5> QED BY <3>1, <3>3, <5>1
      <4>3. CASE i > p
        <5>1. i - 1 \in DOMAIN queues'[l] /\ queues'[l][i - 1] = d
          BY <1>6, <3>2, <3>3, <4>1, <4>3
        <5> QED BY <3>1, <3>3, <5>1
      <4> QED BY <1>6, <4>1, <4>2, <4>3
    <3>4. CASE calls[d].lock # l
      BY <1>6, <3>1, <3>2, <3>4
    <3> QED BY <3>3, <3>4
  <2> QED BY <2>1, <2>2, <2>3 DEF Queued
<1>12. InTurn'
  <2> SUFFICES ASSUME NEW d \in Calls, Working(d)' PROVE First(d)'
    BY DEF InTurn
  <2>1. d # c /\ Working(d) /\ calls'[d] = calls[d] /\ calls[d].lock \in Calls
    BY <1>3 DEF Working, Locks, Locals, Active
  <2>2. First(d)
    BY <2>1 DEF Locks, InTurn
  <2>3. /\ queues[calls[d].lock] \in Seq(Calls)
        /\ queues[calls[d].lock] # <<>> /\ queues[calls[d].lock][1] = d
    BY <1>3, <2>1, <2>2 DEF First
  <2>4. /\ queues'[calls[d].lock] \in Seq(Calls)
        /\ queues'[calls[d].lock] # <<>> /\ queues'[calls[d].lock][1] = d
    <3>1. CASE calls[d].lock = l
      <4>1. p # 1 /\ Len(queues[l]) > 1
        BY <1>4, <1>6, <2>1, <2>3, <3>1
      <4>2. queues'[l] \in Seq(Calls) /\ Len(queues'[l]) = Len(queues[l]) - 1
        BY <1>1, <1>2, <1>3, <1>5 DEF l
      <4> QED BY <1>6, <2>3, <3>1, <4>1, <4>2
    <3>2. CASE calls[d].lock # l
      BY <1>6, <2>1, <2>3, <3>2
    <3> QED BY <3>1, <3>2
  <2> QED BY <2>1, <2>4 DEF First
<1> QED BY <1>7, <1>11, <1>12 DEF Locks

\* The holder of a lock is the first in the queue of its own lock.
LEMMA HolderIsFirst ==
    ASSUME TypeOK, Locks, NEW c \in Calls, HasLock(c)
    PROVE  First(c) /\ calls[c].pc \in Active
<1>1. PICK l \in Calls : queues[l] # <<>> /\ Head(queues[l]) = c
  BY DEF HasLock
<1>2. queues[l] \in Seq(Calls)
  BY <1>1 DEF TypeOK
<1>3. 1 \in DOMAIN queues[l] /\ queues[l][1] = c
  BY <1>1, <1>2
<1>4. calls[c].pc \in Active /\ calls[c].lock = l
  BY <1>3 DEF Locks, Queued
<1> QED BY <1>1, <1>4 DEF First

\* The first in the queue goes on with its work.
LEMMA WorkLocks ==
    ASSUME TypeOK, Locks, NEW c \in Calls, calls[c].pc \in Active, First(c),
           NEW n, calls' = [calls EXCEPT ![c] = n],
           n.pc \in Active, n.schema = calls[c].schema, n.lock = calls[c].lock,
           n.result = None,
           UNCHANGED <<schemas, queues>>
    PROVE  Locks'
<1>1. calls'[c] = n /\ \A d \in Calls : d # c => calls'[d] = calls[d]
  BY DEF TypeOK
<1>2. Locals'
  BY <1>1 DEF Locks, Locals
<1>3. Queued'
  <2>1. \A d \in Calls : calls'[d].lock = calls[d].lock
                         /\ (calls'[d].pc \in Active <=> calls[d].pc \in Active)
    BY <1>1
  <2>2. \A l \in Calls : \A i \in DOMAIN queues[l] : queues[l][i] \in Calls
    BY DEF TypeOK
  <2> QED BY <2>1, <2>2 DEF Locks, Queued
<1>4. InTurn'
  BY <1>1 DEF Locks, InTurn, First, Working
<1> QED BY <1>2, <1>3, <1>4 DEF Locks

\* Steps of vegapunk.
LEMMA ElsewhereLocks ==
    ASSUME Locks, UNCHANGED <<schemas, queues, calls>>
    PROVE  Locks'
BY DEF Locks, Locals, Queued, InTurn, First, Working

\* What a call in one of its phases has.
LEMMA WorkingFact ==
    ASSUME Locks, NEW c \in Calls
    PROVE  /\ Working(c) => First(c) /\ calls[c].pc \in Active
           /\ calls[c].pc \in Active => calls[c].result = None
           /\ At(c, "scan") \/ At(c, "send") \/ At(c, "await") => Working(c)
BY DEF Locks, Locals, InTurn, Working, Active, At

LEMMA LocksStep == TypeOK /\ Locks /\ [Next]_vars => Locks'
<1> SUFFICES ASSUME TypeOK, Locks, [Next]_vars PROVE Locks'
  OBVIOUS
<1>0. /\ calls \in [Calls -> Call]
      /\ \A c \in Calls : calls[c] \in Call
  BY DEF TypeOK
<1>1. ASSUME NEW c \in Calls, collect_dedup_catalogue(c) PROVE Locks'
  <2>1. PICK personal, shared :
          calls' = [calls EXCEPT ![c].pc = "scan", ![c].personal = personal,
                                 ![c].shared = shared]
    BY <1>1 DEF collect_dedup_catalogue
  <2> DEFINE n == [calls[c] EXCEPT !.pc = "scan", !.personal = personal, !.shared = shared]
  <2>2. calls' = [calls EXCEPT ![c] = n]
    BY <1>0, <2>1
  <2>3. /\ n.pc = "scan" /\ n.schema = calls[c].schema /\ n.lock = calls[c].lock
        /\ n.result = calls[c].result
    BY <1>0 DEF Call
  <2>4. First(c) /\ calls[c].pc \in Active /\ calls[c].result = None
    BY <1>1, HolderIsFirst, WorkingFact DEF collect_dedup_catalogue
  <2>5. UNCHANGED <<schemas, queues>>
    BY <1>1 DEF collect_dedup_catalogue
  <2> HIDE DEF n
  <2> QED BY <2>2, <2>3, <2>4, <2>5, WorkLocks DEF Active
<1>2. ASSUME NEW c \in Calls, PrepareTexts(c) PROVE Locks'
  <2>1. First(c) /\ calls[c].pc \in Active /\ calls[c].result = None /\ UNCHANGED schemas
    BY <1>2, WorkingFact DEF PrepareTexts
  <2>2. CASE Return(c, "blocked")
    BY <2>1, <2>2, ReturnLocks
  <2>3. CASE /\ UNCHANGED queues
             /\ \E texts : calls' = [calls EXCEPT ![c].pc = "send", ![c].texts = texts,
                                         ![c].personal = {}, ![c].shared = {}]
    <3>1. PICK texts : calls' = [calls EXCEPT ![c].pc = "send", ![c].texts = texts,
                                     ![c].personal = {}, ![c].shared = {}]
      BY <2>3
    <3> DEFINE n == [calls[c] EXCEPT !.pc = "send", !.texts = texts, !.personal = {},
                                     !.shared = {}]
    <3>2. calls' = [calls EXCEPT ![c] = n]
      BY <1>0, <3>1
    <3>3. /\ n.pc = "send" /\ n.schema = calls[c].schema /\ n.lock = calls[c].lock
          /\ n.result = calls[c].result
      BY <1>0 DEF Call
    <3> HIDE DEF n
    <3> QED BY <2>1, <2>3, <3>2, <3>3, WorkLocks DEF Active
  <2> QED BY <1>2, <2>2, <2>3 DEF PrepareTexts
<1>3. ASSUME NEW c \in Calls, SendRequest(c) PROVE Locks'
  <2>1. PICK own, pending, since, leftover :
          calls' = [calls EXCEPT ![c] = [calls[c] EXCEPT !.pc = "await", !.own = own,
              !.texts = <<>>, !.pending = pending, !.since = since, !.leftover = leftover]]
    <3> DEFINE own == (Len(jobs) + 1)..(Len(jobs) + Len(calls[c].texts))
               pending == IF calls[c].kind = "ingest_raw" THEN own ELSE {}
    <3>1. \E since : calls' = [calls EXCEPT ![c] = [calls[c] EXCEPT !.pc = "await", !.own = own,
              !.texts = <<>>, !.pending = pending, !.since = since,
              !.leftover = Leftover(calls[c].schema)]]
      BY <1>3 DEF SendRequest
    <3> HIDE DEF own, pending
    <3> QED BY <3>1
  <2> DEFINE n == [calls[c] EXCEPT !.pc = "await", !.own = own, !.texts = <<>>,
                       !.pending = pending, !.since = since, !.leftover = leftover]
  <2>2. /\ n.pc = "await" /\ n.schema = calls[c].schema /\ n.lock = calls[c].lock
        /\ n.result = calls[c].result
    BY <1>0 DEF Call
  <2>3. First(c) /\ calls[c].pc \in Active /\ calls[c].result = None
    BY <1>3, WorkingFact DEF SendRequest
  <2>4. UNCHANGED <<schemas, queues>>
    BY <1>3 DEF SendRequest
  <2> HIDE DEF n
  <2> QED BY <2>1, <2>2, <2>3, <2>4, WorkLocks DEF Active, n
<1>4. ASSUME NEW c \in Calls, ListPage(c) \/ ListFails(c) PROVE Locks'
  <2>1. PICK round : calls' = [calls EXCEPT ![c].round = round]
    BY <1>4 DEF ListPage, ListFails
  <2> DEFINE n == [calls[c] EXCEPT !.round = round]
  <2>2. calls' = [calls EXCEPT ![c] = n]
    BY <1>0, <2>1
  <2>3. /\ n.pc = calls[c].pc /\ n.schema = calls[c].schema /\ n.lock = calls[c].lock
        /\ n.result = calls[c].result
    BY <1>0 DEF Call
  <2>4. First(c) /\ calls[c].pc \in Active /\ calls[c].result = None
    BY <1>4, WorkingFact DEF ListPage, ListFails
  <2>5. UNCHANGED <<schemas, queues>>
    BY <1>4 DEF ListPage, ListFails
  <2> HIDE DEF n
  <2> QED BY <2>2, <2>3, <2>4, <2>5, WorkLocks
<1>5. ASSUME NEW c \in Calls, JudgeRound(c) PROVE Locks'
  <2>1. First(c) /\ calls[c].pc \in Active /\ calls[c].result = None /\ UNCHANGED schemas
    BY <1>5, WorkingFact DEF JudgeRound
  <2>2. CASE \E result : Return(c, result)
    BY <2>1, <2>2, ReturnLocks
  <2>3. CASE /\ UNCHANGED queues
             /\ \E base : calls' = [calls EXCEPT ![c].baseline = base, ![c].round = NewRound]
    <3>1. PICK base : calls' = [calls EXCEPT ![c].baseline = base, ![c].round = NewRound]
      BY <2>3
    <3> DEFINE n == [calls[c] EXCEPT !.baseline = base, !.round = NewRound]
    <3>2. calls' = [calls EXCEPT ![c] = n]
      BY <1>0, <3>1
    <3>3. /\ n.pc = calls[c].pc /\ n.schema = calls[c].schema /\ n.lock = calls[c].lock
          /\ n.result = calls[c].result
      BY <1>0 DEF Call
    <3> HIDE DEF n
    <3> QED BY <2>1, <2>3, <3>2, <3>3, WorkLocks
  <2> QED BY <1>5, <2>2, <2>3 DEF JudgeRound
<1>6. ASSUME NEW c \in Calls, NEW answered, PollMessages(c, answered) PROVE Locks'
  <2>1. First(c) /\ calls[c].pc \in Active /\ calls[c].result = None /\ UNCHANGED schemas
    BY <1>6, WorkingFact DEF PollMessages
  <2>2. CASE \E result : Return(c, result)
    BY <2>1, <2>2, ReturnLocks
  <2>3. CASE /\ UNCHANGED queues
             /\ \E pending, failed :
                   calls' = [calls EXCEPT ![c].pending = pending, ![c].failed = failed]
    <3>1. PICK pending, failed :
             calls' = [calls EXCEPT ![c].pending = pending, ![c].failed = failed]
      BY <2>3
    <3> DEFINE n == [calls[c] EXCEPT !.pending = pending, !.failed = failed]
    <3>2. calls' = [calls EXCEPT ![c] = n]
      BY <1>0, <3>1
    <3>3. /\ n.pc = calls[c].pc /\ n.schema = calls[c].schema /\ n.lock = calls[c].lock
          /\ n.result = calls[c].result
      BY <1>0 DEF Call
    <3> HIDE DEF n
    <3> QED BY <2>1, <2>3, <3>2, <3>3, WorkLocks
  <2> QED BY <1>6, <2>2, <2>3 DEF PollMessages
<1>7. ASSUME NEW c \in Calls,
             (\E accepted \in BOOLEAN : SendFails(c, accepted)) \/ AwaitTimeout(c) \/ Abort(c)
      PROVE  Locks'
  <2>1. calls[c].pc \in Active /\ UNCHANGED schemas
    BY <1>7 DEF SendFails, AwaitTimeout, Abort, At, Active
  <2>2. \E result : Return(c, result)
    BY <1>7 DEF SendFails, AwaitTimeout, Abort
  <2> QED BY <2>1, <2>2, ReturnLocks
<1>8. CASE UNCHANGED <<schemas, queues, calls>>
  BY <1>8, ElsewhereLocks
<1>9. Next => \/ \E c \in Calls :
                    \/ \E kind \in {"ingest", "ingest_raw"}, s \in Schemas, texts \in Batches :
                          acquire_ingest_serializer(c, kind, s, texts)
                    \/ collect_dedup_catalogue(c)
                    \/ SendRequest(c)
                    \/ (\E accepted \in BOOLEAN : SendFails(c, accepted))
                          \/ AwaitTimeout(c) \/ Abort(c)
                    \/ PrepareTexts(c)
                    \/ ListPage(c) \/ ListFails(c)
                    \/ JudgeRound(c)
                    \/ \E answered \in SUBSET calls[c].pending : PollMessages(c, answered)
              \/ UNCHANGED <<schemas, queues, calls>>
  BY DEF Next, JobFinishes, OtherTenantIngests
<1> QED BY <1>1, <1>2, <1>3, <1>4, <1>5, <1>6, <1>7, <1>8, <1>9, AcquireLocks DEF vars

-----------------------------------------------------------------------------
(* Numbers and sets of jobs                                                *)

LEMMA MaxOfTwo ==
    ASSUME NEW a \in Int, NEW b \in Int
    PROVE  Max({a, b}) = IF a >= b THEN a ELSE b
<1> DEFINE m == IF a >= b THEN a ELSE b
<1>1. m \in {a, b} /\ \A y \in {a, b} : m >= y
  OBVIOUS
<1>2. \A x \in {a, b} : (\A y \in {a, b} : x >= y) => x = m
  OBVIOUS
<1> HIDE DEF m
<1>3. Max({a, b}) \in {a, b} /\ \A y \in {a, b} : Max({a, b}) >= y
  BY <1>1, Zenon DEF Max
<1> QED BY <1>2, <1>3 DEF m

LEMMA MinOfTwo ==
    ASSUME NEW a \in Int, NEW b \in Int
    PROVE  Min({a, b}) = IF a <= b THEN a ELSE b
<1> DEFINE m == IF a <= b THEN a ELSE b
<1>1. m \in {a, b} /\ \A y \in {a, b} : m =< y
  OBVIOUS
<1>2. \A x \in {a, b} : (\A y \in {a, b} : x =< y) => x = m
  OBVIOUS
<1> HIDE DEF m
<1>3. Min({a, b}) \in {a, b} /\ \A y \in {a, b} : Min({a, b}) =< y
  BY <1>1, Zenon DEF Min
<1> QED BY <1>2, <1>3 DEF m

LEMMA JobSetFact ==
    ASSUME TypeOK, NEW S \in SUBSET DOMAIN jobs
    PROVE  /\ IsFiniteSet(S) /\ Cardinality(S) \in Nat
           /\ Len(jobs) \in Nat /\ DOMAIN jobs = 1..Len(jobs)
<1>1. Len(jobs) \in Nat /\ DOMAIN jobs = 1..Len(jobs)
  BY DEF TypeOK
<1>2. IsFiniteSet(1..Len(jobs))
  BY <1>1, FS_Interval
<1> QED BY <1>1, <1>2, FS_Subset, FS_CardinalityType

\* EffectiveCap, and what the total and the largest total seen make of it.
LEMMA EffectiveCapFact ==
    ASSUME TypeOK, NEW c \in Calls
    PROVE  /\ EffectiveCap(c) \in 0..HardCap
           /\ TotalCount(c) \in Nat
           /\ EffectiveCap(c) >= IF TotalCount(c) <= HardCap THEN TotalCount(c) ELSE HardCap
<1>1. TotalCount(c) \in Nat
  BY JobSetFact DEF TotalCount
<1>2. calls[c].round.cap \in 0..HardCap /\ HardCap \in Nat
  BY IngestAssumption DEF TypeOK, Call, Round
<1> DEFINE least == Min({TotalCount(c), HardCap})
<1>3. least = IF TotalCount(c) <= HardCap THEN TotalCount(c) ELSE HardCap
  BY <1>1, <1>2, MinOfTwo
<1>4. least \in 0..HardCap
  BY <1>1, <1>2, <1>3
<1> HIDE DEF least
<1>5. EffectiveCap(c) = IF calls[c].round.cap >= least THEN calls[c].round.cap ELSE least
  <2>1. EffectiveCap(c) = Max({calls[c].round.cap, least})
    BY DEF EffectiveCap, least
  <2>2. calls[c].round.cap \in Int /\ least \in Int
    BY <1>2, <1>4
  <2> QED BY <2>1, <2>2, MaxOfTwo
<1> QED BY <1>1, <1>2, <1>3, <1>4, <1>5

-----------------------------------------------------------------------------
(* Types                                                                   *)

\* Every job of a schema has a name.
JobNames ==
    \A j \in DOMAIN jobs : jobs[j].schema # None => jobs[j].name \in Names

Base == TypeOK /\ JobNames /\ Locks

LEMMA NewFact == NewRound \in Round /\ NewCall \in Call
<1>1. NewRound \in Round
  BY IngestAssumption DEF NewRound, Round
<1> QED BY <1>1 DEF NewCall, Call

LEMMA CallTyped ==
    ASSUME TypeOK, NEW c \in Calls, NEW n \in Call, calls' = [calls EXCEPT ![c] = n]
    PROVE  calls' \in [Calls -> Call]
BY DEF TypeOK

LEMMA LeaveTyped ==
    ASSUME TypeOK, Locks, NEW c \in Calls, calls[c].pc \in Active
    PROVE  /\ calls[c].lock \in Calls /\ calls[c].schema \in Schemas
           /\ Leave(queues[calls[c].lock], c) \in Seq(Calls)
<1>1. calls[c].lock \in Calls /\ calls[c].schema \in Schemas
  BY DEF Locks, Locals
<1>2. PICK p \in DOMAIN queues[calls[c].lock] : queues[calls[c].lock][p] = c
  BY DEF Locks, Queued
<1>3. queues[calls[c].lock] \in Seq(Calls)
  BY <1>1 DEF TypeOK
<1>4. \A j \in DOMAIN queues[calls[c].lock] :
         queues[calls[c].lock][j] = queues[calls[c].lock][p] => j = p
  BY <1>1 DEF Locks, Queued
<1>5. Leave(queues[calls[c].lock], queues[calls[c].lock][p]) \in Seq(Calls)
  BY <1>2, <1>3, <1>4, LeaveFact
<1> QED BY <1>1, <1>2, <1>5

LEMMA ReturnTyped ==
    ASSUME TypeOK, Locks, NEW c \in Calls, calls[c].pc \in Active, NEW result \in Result,
           Return(c, result)
    PROVE  queues' \in [Calls -> Seq(Calls)] /\ calls' \in [Calls -> Call]
<1> DEFINE n == [NewCall EXCEPT !.pc = "done", !.kind = calls[c].kind,
                    !.schema = calls[c].schema, !.own = calls[c].own,
                    !.leftover = calls[c].leftover, !.result = result]
<1>1. /\ queues' = [queues EXCEPT ![calls[c].lock] = Leave(queues[calls[c].lock], c)]
      /\ calls' = [calls EXCEPT ![c] = n]
  BY DEF Return
<1>2. calls[c] \in Call
  BY DEF TypeOK
<1>3. n \in Call
  <2> DEFINE n1 == [NewCall EXCEPT !.pc = "done"]
             n2 == [n1 EXCEPT !.kind = calls[c].kind]
             n3 == [n2 EXCEPT !.schema = calls[c].schema]
             n4 == [n3 EXCEPT !.own = calls[c].own]
             n5 == [n4 EXCEPT !.leftover = calls[c].leftover]
             n6 == [n5 EXCEPT !.result = result]
  <2>1. n = n6
    OBVIOUS
  <2> HIDE DEF n, n6
  <2>2. n1 \in Call BY NewFact DEF Call
  <2> HIDE DEF n1
  <2>8. calls[c].kind \in {"ingest", "ingest_raw"} BY <1>2 DEF Call
  <2>3. n2 \in Call BY <2>8, <2>2 DEF Call
  <2> HIDE DEF n2
  <2>4. n3 \in Call BY SMTT(20), <1>2, <2>3 DEF Call
  <2> HIDE DEF n3
  <2>5. n4 \in Call BY SMTT(20), <1>2, <2>4 DEF Call
  <2> HIDE DEF n4
  <2>6. n5 \in Call BY <1>2, <2>5 DEF Call
  <2> HIDE DEF n5
  <2>7. n6 \in Call BY <2>6 DEF Call, n6
  <2> QED BY <2>1, <2>7
<1> HIDE DEF n
<1>4. queues' \in [Calls -> Seq(Calls)]
  BY <1>1, LeaveTyped DEF TypeOK
<1> QED BY <1>1, <1>3, <1>4, CallTyped

LEMMA DisturbTyped ==
    ASSUME TypeOK, NEW s, NEW really \in BOOLEAN, Disturb(s, really)
    PROVE  disturbed' \in [Schemas -> BOOLEAN]
BY DEF TypeOK, Disturb

\* What a request puts into the list of jobs.
LEMMA EnqueuedFact ==
    ASSUME TypeOK, NEW c \in Calls, calls[c].schema \in Schemas
    PROVE  /\ calls[c].texts \in Seq(Names) /\ Len(calls[c].texts) \in Nat
           /\ DOMAIN calls[c].texts = 1..Len(calls[c].texts)
           /\ Enqueued(calls[c]) \in Seq(Job)
           /\ Len(Enqueued(calls[c])) = Len(calls[c].texts)
           /\ \A i \in 1..Len(calls[c].texts) :
                 Enqueued(calls[c])[i] = [schema |-> calls[c].schema,
                                          name |-> calls[c].texts[i], status |-> "pending"]
           /\ \A i \in 1..Len(calls[c].texts) :
                 /\ Enqueued(calls[c])[i].name = calls[c].texts[i]
                 /\ Enqueued(calls[c])[i].schema = calls[c].schema
                 /\ calls[c].texts[i] \in Names
           /\ jobs \o Enqueued(calls[c]) \in Seq(Job)
           /\ Len(jobs) \in Nat
           /\ Len(jobs \o Enqueued(calls[c])) = Len(jobs) + Len(calls[c].texts)
           /\ \A j \in 1..(Len(jobs) + Len(calls[c].texts)) :
                 (jobs \o Enqueued(calls[c]))[j] =
                    IF j <= Len(jobs) THEN jobs[j] ELSE Enqueued(calls[c])[j - Len(jobs)]
<1>1. calls[c].texts \in Seq(Names)
  BY IngestAssumption DEF TypeOK, Call
<1>2. /\ Len(calls[c].texts) \in Nat
      /\ DOMAIN calls[c].texts = 1..Len(calls[c].texts)
      /\ \A i \in 1..Len(calls[c].texts) : calls[c].texts[i] \in Names
  BY <1>1
<1>3. /\ Enqueued(calls[c]) = [i \in 1..Len(calls[c].texts) |->
             [schema |-> calls[c].schema, name |-> calls[c].texts[i], status |-> "pending"]]
      /\ \A i \in 1..Len(calls[c].texts) :
            [schema |-> calls[c].schema, name |-> calls[c].texts[i], status |-> "pending"] \in Job
  BY <1>2 DEF Enqueued, Job, Status
<1>4. /\ Enqueued(calls[c]) \in Seq(Job)
      /\ Len(Enqueued(calls[c])) = Len(calls[c].texts)
  BY <1>2, <1>3
<1>5. jobs \in Seq(Job)
  BY DEF TypeOK
<1>6. /\ jobs \o Enqueued(calls[c]) \in Seq(Job)
      /\ Len(jobs) \in Nat
      /\ Len(jobs \o Enqueued(calls[c])) = Len(jobs) + Len(calls[c].texts)
      /\ \A j \in 1..(Len(jobs) + Len(calls[c].texts)) :
            (jobs \o Enqueued(calls[c]))[j] =
               IF j <= Len(jobs) THEN jobs[j] ELSE Enqueued(calls[c])[j - Len(jobs)]
  <2> DEFINE e == Enqueued(calls[c])
  <2>1. e \in Seq(Job) /\ Len(e) = Len(calls[c].texts)
    BY <1>4
  <2> HIDE DEF e
  <2>2. /\ jobs \o e \in Seq(Job)
        /\ Len(jobs \o e) = Len(jobs) + Len(e)
        /\ \A j \in 1..(Len(jobs) + Len(e)) :
              (jobs \o e)[j] = IF j <= Len(jobs) THEN jobs[j] ELSE e[j - Len(jobs)]
    BY <1>5, <2>1, ConcatProperties
  <2>3. Len(jobs) \in Nat
    BY <1>5
  <2> QED BY <2>1, <2>2, <2>3 DEF e
<1>7. \A i \in 1..Len(calls[c].texts) :
         /\ Enqueued(calls[c])[i].name = calls[c].texts[i]
         /\ Enqueued(calls[c])[i].schema = calls[c].schema
         /\ calls[c].texts[i] \in Names
  BY <1>2, <1>3
<1> QED BY <1>1, <1>2, <1>3, <1>4, <1>6, <1>7

LEMMA AcquireTyped ==
    ASSUME TypeOK, NEW c \in Calls, NEW kind \in {"ingest", "ingest_raw"},
           NEW s \in Schemas, NEW texts \in Batches,
           acquire_ingest_serializer(c, kind, s, texts)
    PROVE  TypeOK'
<1> DEFINE l == lock_for(c, s)
           n1 == [NewCall EXCEPT !.pc = "waiting"]
           n2 == [n1 EXCEPT !.kind = kind]
           n3 == [n2 EXCEPT !.schema = s]
           n4 == [n3 EXCEPT !.lock = l]
           n5 == [n4 EXCEPT !.texts = texts]
<1>1. /\ schemas' = [schemas EXCEPT ![s] = l]
      /\ queues' = [queues EXCEPT ![l] = Append(queues[l], c)]
      /\ calls' = [calls EXCEPT ![c] = n5]
      /\ UNCHANGED <<jobs, nodes, disturbed>>
  BY DEF acquire_ingest_serializer
<1>2. l \in Calls
  BY DEF lock_for, TypeOK
<1> HIDE DEF l, n1, n2, n3, n4, n5
<1>3. n1 \in Call BY NewFact DEF Call, n1
<1>4. n2 \in Call BY <1>3 DEF Call, n2
<1>5. n3 \in Call BY <1>4 DEF Call, n3
<1>6. n4 \in Call BY <1>2, <1>5 DEF Call, n4
<1>7. n5 \in Call BY <1>6 DEF Call, n5
<1>8. calls' \in [Calls -> Call]
  BY <1>1, <1>7, CallTyped
<1>9. schemas' \in [Schemas -> Calls \cup {None}] /\ queues' \in [Calls -> Seq(Calls)]
  BY <1>1, <1>2 DEF TypeOK
<1> QED BY <1>1, <1>8, <1>9 DEF TypeOK

LEMMA CollectTyped ==
    ASSUME TypeOK, Locks, NEW c \in Calls, collect_dedup_catalogue(c)
    PROVE  TypeOK'
<1>1. calls[c].schema \in Schemas
  BY DEF collect_dedup_catalogue, At, Locks, Locals, Active
<1>2. \A names : \A S \in fetch_entity_names(names) : S \subseteq names
  BY DEF fetch_entity_names, kSubset
<1>3. PICK personal \in fetch_entity_names(nodes[calls[c].schema]),
           shared \in fetch_entity_names(SharedNames) :
        /\ calls' = [calls EXCEPT ![c].pc = "scan", ![c].personal = personal,
                                  ![c].shared = shared]
        /\ Disturb(calls[c].schema, personal # nodes[calls[c].schema] \/ shared # SharedNames)
  BY DEF collect_dedup_catalogue
<1>4. personal \in SUBSET Names /\ shared \in SUBSET Names
  BY <1>1, <1>2, <1>3, IngestAssumption DEF TypeOK
<1> DEFINE n == [calls[c] EXCEPT !.pc = "scan", !.personal = personal, !.shared = shared]
<1>5. calls[c] \in Call /\ calls' = [calls EXCEPT ![c] = n]
  BY <1>3 DEF TypeOK
<1>6. n \in Call
  BY <1>4, <1>5 DEF Call
<1> HIDE DEF n
<1>7. calls' \in [Calls -> Call]
  BY <1>5, <1>6, CallTyped
<1>8. disturbed' \in [Schemas -> BOOLEAN]
  BY <1>3, DisturbTyped
<1> QED BY <1>7, <1>8 DEF TypeOK, collect_dedup_catalogue

LEMMA PrepareTyped ==
    ASSUME TypeOK, Locks, NEW c \in Calls, PrepareTexts(c)
    PROVE  TypeOK'
<1>1. /\ calls[c].pc \in Active /\ calls[c] \in Call
      /\ UNCHANGED <<schemas, jobs, nodes>>
  BY DEF PrepareTexts, At, Active, TypeOK
<1>2. CASE Return(c, "blocked") /\ UNCHANGED disturbed
  <2>1. queues' \in [Calls -> Seq(Calls)] /\ calls' \in [Calls -> Call]
    BY <1>1, <1>2, ReturnTyped DEF Result
  <2> QED BY <1>1, <1>2, <2>1 DEF TypeOK
<1>3. CASE /\ \E texts \in [DOMAIN calls[c].texts -> Names] :
                calls' = [calls EXCEPT ![c].pc = "send", ![c].texts = texts,
                              ![c].personal = {}, ![c].shared = {}]
           /\ Disturb(calls[c].schema, Mixed(calls[c].texts))
           /\ UNCHANGED queues
  <2>1. PICK texts \in [DOMAIN calls[c].texts -> Names] :
               calls' = [calls EXCEPT ![c].pc = "send", ![c].texts = texts,
                             ![c].personal = {}, ![c].shared = {}]
    BY <1>3
  <2>2. calls[c].texts \in Seq(Names)
    BY <1>1, IngestAssumption DEF Call
  <2>3. texts \in Seq(Names)
    BY <2>1, <2>2
  <2> DEFINE n1 == [calls[c] EXCEPT !.pc = "send"]
             n2 == [n1 EXCEPT !.texts = texts]
             n3 == [n2 EXCEPT !.personal = {}]
             n4 == [n3 EXCEPT !.shared = {}]
  <2>4. calls' = [calls EXCEPT ![c] = n4]
    BY <1>1, <2>1
  <2> HIDE DEF n1, n2, n3, n4
  <2>5. n1 \in Call BY <1>1 DEF Call, n1
  <2>6. n2 \in Call BY <2>3, <2>5 DEF Call, n2
  <2>7. n3 \in Call BY <2>6 DEF Call, n3
  <2>8. n4 \in Call BY <2>7 DEF Call, n4
  <2>9. calls' \in [Calls -> Call]
    BY <2>4, <2>8, CallTyped
  <2>10. disturbed' \in [Schemas -> BOOLEAN]
    BY <1>3, DisturbTyped DEF Mixed
  <2> QED BY <1>1, <1>3, <2>9, <2>10 DEF TypeOK
<1> QED BY <1>2, <1>3 DEF PrepareTexts

LEMMA SendTyped ==
    ASSUME Base, NEW c \in Calls, SendRequest(c)
    PROVE  TypeOK' /\ JobNames'
<1> DEFINE own == (Len(jobs) + 1)..(Len(jobs) + Len(calls[c].texts))
           pending == IF calls[c].kind = "ingest_raw" THEN own ELSE {}
           first == Len(jobs) + 1
<1>1. /\ TypeOK /\ calls[c] \in Call
      /\ calls[c].schema \in Schemas
      /\ Len(jobs) + Len(calls[c].texts) <= MaxJobs
      /\ jobs' = jobs \o Enqueued(calls[c])
      /\ UNCHANGED <<schemas, queues, nodes, disturbed>>
  BY DEF Base, TypeOK, SendRequest, At, Locks, Locals, Active
<1>15. \A x : \/ x \in 1..first
              \/ x = first + Len(calls[c].texts)
              \/ x = 1
              => x \in Nat
  <2>1. Len(jobs) \in Nat /\ Len(calls[c].texts) \in Nat
    BY <1>1, EnqueuedFact
  <2>2. \A a, b \in Nat : \A x : x \in 1..(a + 1) \/ x = a + 1 + b \/ x = 1 => x \in Nat
    OBVIOUS
  <2> QED BY <2>1, <2>2, Zenon
<1>2. PICK since \in Nat :
        calls' = [calls EXCEPT ![c] = [calls[c] EXCEPT !.pc = "await", !.own = own,
            !.texts = <<>>, !.pending = pending, !.since = since,
            !.leftover = Leftover(calls[c].schema)]]
  BY <1>15 DEF SendRequest
<1>3. /\ jobs' \in Seq(Job) /\ Len(jobs') = Len(jobs) + Len(calls[c].texts)
      /\ Len(jobs) \in Nat /\ Len(calls[c].texts) \in Nat
      /\ \A j \in 1..Len(jobs') : jobs'[j] =
            IF j <= Len(jobs) THEN jobs[j] ELSE Enqueued(calls[c])[j - Len(jobs)]
      /\ \A i \in 1..Len(calls[c].texts) :
            Enqueued(calls[c])[i].name = calls[c].texts[i] /\ calls[c].texts[i] \in Names
  BY <1>1, EnqueuedFact
<1>4. own \in SUBSET (1..MaxJobs) /\ Leftover(calls[c].schema) \in BOOLEAN
  <2>1. own \in SUBSET (1..MaxJobs)
    BY SMTT(20), <1>1, <1>3, IngestAssumption
  <2>3. Leftover(calls[c].schema) \in BOOLEAN
    BY DEF Leftover
  <2> QED BY <2>1, <2>3
<1>5. pending \in SUBSET (1..MaxJobs)
  BY <1>4
<1> DEFINE n1 == [calls[c] EXCEPT !.pc = "await"]
           n2 == [n1 EXCEPT !.own = own]
           n3 == [n2 EXCEPT !.texts = <<>>]
           n4 == [n3 EXCEPT !.pending = pending]
           n5 == [n4 EXCEPT !.since = since]
           n6 == [n5 EXCEPT !.leftover = Leftover(calls[c].schema)]
<1> HIDE DEF own, pending
<1>6. calls' = [calls EXCEPT ![c] = n6]
  BY <1>2
<1> HIDE DEF n1, n2, n3, n4, n5, n6
<1>7. n1 \in Call BY <1>1 DEF Call, n1
<1>8. n2 \in Call BY <1>4, <1>7 DEF Call, n2
<1>9. n3 \in Call
  <2>1. <<>> \in Seq(Names)
    OBVIOUS
  <2> QED BY <1>8, <2>1 DEF Call, n3
<1>10. n4 \in Call BY <1>5, <1>9 DEF Call, n4
<1>11. n5 \in Call BY <1>2, <1>10 DEF Call, n5
<1>12. n6 \in Call BY <1>4, <1>11 DEF Call, n6
<1>13. calls' \in [Calls -> Call]
  BY <1>1, <1>6, <1>12, CallTyped
<1>14. JobNames'
  <2> SUFFICES ASSUME NEW j \in DOMAIN jobs', jobs'[j].schema # None
               PROVE  jobs'[j].name \in Names
    BY DEF JobNames
  <2>1. j \in 1..Len(jobs')
    BY <1>3
  <2>2. CASE j <= Len(jobs)
    BY <1>1, <1>3, <2>1, <2>2 DEF JobNames, Base, TypeOK
  <2>3. CASE ~(j <= Len(jobs))
    <3>1. j - Len(jobs) \in 1..Len(calls[c].texts)
      BY <1>3, <2>1, <2>3
    <3> QED BY <1>3, <2>1, <2>3, <3>1
  <2> QED BY <2>2, <2>3
<1> QED BY <1>1, <1>3, <1>13, <1>14 DEF TypeOK

LEMMA SendFailsTyped ==
    ASSUME Base, NEW c \in Calls, NEW accepted \in BOOLEAN, SendFails(c, accepted)
    PROVE  TypeOK' /\ JobNames'
<1>1. /\ TypeOK /\ Locks /\ calls[c].pc \in Active
      /\ calls[c].schema \in Schemas
      /\ accepted => Len(jobs) + Len(calls[c].texts) <= MaxJobs
      /\ jobs' = IF accepted THEN jobs \o Enqueued(calls[c]) ELSE jobs
      /\ Return(c, "error")
      /\ Disturb(calls[c].schema, accepted)
      /\ UNCHANGED <<schemas, nodes>>
  BY DEF Base, SendFails, At, Locks, Locals, Active
<1>2. queues' \in [Calls -> Seq(Calls)] /\ calls' \in [Calls -> Call]
  BY <1>1, ReturnTyped DEF Result
<1>3. disturbed' \in [Schemas -> BOOLEAN]
  BY <1>1, DisturbTyped
<1>4. CASE ~accepted
  BY <1>1, <1>2, <1>3, <1>4 DEF TypeOK, JobNames, Base
<1>5. CASE accepted
  <2>1. /\ jobs' \in Seq(Job) /\ Len(jobs') = Len(jobs) + Len(calls[c].texts)
        /\ Len(jobs) \in Nat /\ Len(calls[c].texts) \in Nat
        /\ \A j \in 1..Len(jobs') : jobs'[j] =
              IF j <= Len(jobs) THEN jobs[j] ELSE Enqueued(calls[c])[j - Len(jobs)]
        /\ \A i \in 1..Len(calls[c].texts) :
              Enqueued(calls[c])[i].name = calls[c].texts[i] /\ calls[c].texts[i] \in Names
    BY <1>1, <1>5, EnqueuedFact
  <2>2. JobNames'
    <3> SUFFICES ASSUME NEW j \in DOMAIN jobs', jobs'[j].schema # None
                 PROVE  jobs'[j].name \in Names
      BY DEF JobNames
    <3>1. j \in 1..Len(jobs')
      BY <2>1
    <3>2. CASE j <= Len(jobs)
      BY <1>1, <2>1, <3>1, <3>2 DEF JobNames, Base, TypeOK
    <3>3. CASE ~(j <= Len(jobs))
      <4>1. j - Len(jobs) \in 1..Len(calls[c].texts)
        BY <2>1, <3>1, <3>3
      <4> QED BY <2>1, <3>1, <3>3, <4>1
    <3> QED BY <3>2, <3>3
  <2> QED BY <1>1, <1>2, <1>3, <1>5, <2>1, <2>2 DEF TypeOK
<1> QED BY <1>4, <1>5

LEMMA PageSeenFact ==
    ASSUME TypeOK, NEW c \in Calls
    PROVE  /\ PageSeen(c) \in [1..MaxJobs -> Status \cup {None}]
           /\ Page(c) \subseteq DOMAIN jobs /\ DOMAIN jobs \subseteq 1..MaxJobs
           /\ \A j \in DOMAIN jobs : jobs[j] \in Job
           /\ calls[c].round.seen \in [1..MaxJobs -> Status \cup {None}]
<1>1. /\ DOMAIN jobs \subseteq 1..MaxJobs
      /\ \A j \in DOMAIN jobs : jobs[j] \in Job
  <2>1. jobs \in Seq(Job) /\ Len(jobs) \in Nat /\ Len(jobs) <= MaxJobs
    BY DEF TypeOK
  <2> QED BY <2>1, IngestAssumption
<1>2. Page(c) \subseteq DOMAIN jobs
  BY DEF Page
<1>3. calls[c].round.seen \in [1..MaxJobs -> Status \cup {None}]
  BY DEF TypeOK, Call, Round
<1>4. \A j \in Page(c) : jobs[j].status \in Status
  BY <1>1, <1>2 DEF Job
<1> QED BY <1>1, <1>2, <1>3, <1>4 DEF PageSeen

\* Only the calls change, and one of them as given.
LEMMA CallStepTyped ==
    ASSUME TypeOK, NEW c \in Calls, NEW n \in Call, calls' = [calls EXCEPT ![c] = n],
           UNCHANGED <<schemas, queues, jobs, nodes, disturbed>>
    PROVE  TypeOK'
BY CallTyped DEF TypeOK

LEMMA ListPageTyped ==
    ASSUME TypeOK, NEW c \in Calls, ListPage(c)
    PROVE  TypeOK'
<1> DEFINE round == [seen |-> PageSeen(c), cap |-> EffectiveCap(c),
                     offset |-> calls[c].round.offset + PageSize]
           n == [calls[c] EXCEPT !.round = round]
<1>1. calls[c] \in Call /\ calls[c].round.offset \in 0..HardCap
  BY DEF TypeOK, Call, Round
<1>2. /\ calls' = [calls EXCEPT ![c] = n]
      /\ UNCHANGED <<schemas, queues, jobs, nodes, disturbed>>
  BY <1>1 DEF ListPage
<1>3. ~(calls[c].round.offset + PageSize >= EffectiveCap(c))
  BY DEF ListPage, LastPage
<1>4. EffectiveCap(c) \in 0..HardCap /\ PageSize \in Nat /\ HardCap \in Nat
  BY EffectiveCapFact, IngestAssumption
<1>5. calls[c].round.offset + PageSize \in 0..HardCap
  BY <1>1, <1>3, <1>4
<1>6. round \in Round
  BY <1>4, <1>5, PageSeenFact DEF Round
<1> HIDE DEF round
<1>7. n \in Call
  BY <1>1, <1>6 DEF Call
<1> HIDE DEF n
<1> QED BY <1>2, <1>7, CallStepTyped

LEMMA ListFailsTyped ==
    ASSUME TypeOK, NEW c \in Calls, ListFails(c)
    PROVE  TypeOK'
<1> DEFINE n == [calls[c] EXCEPT !.round = NewRound]
<1>1. calls[c] \in Call
  BY DEF TypeOK
<1>2. /\ calls' = [calls EXCEPT ![c] = n]
      /\ UNCHANGED <<schemas, queues, jobs, nodes, disturbed>>
  BY <1>1 DEF ListFails
<1>3. n \in Call
  BY <1>1, NewFact DEF Call
<1> HIDE DEF n
<1> QED BY <1>2, <1>3, CallStepTyped

LEMMA CountFact ==
    ASSUME TypeOK, NEW s, NEW seen
    PROVE  count_terminal_jobs_for_schema(s, seen) \in Nat \X Nat
<1> DEFINE Mine(status) == {j \in DOMAIN jobs : jobs[j].schema = s /\ seen[j] = status}
<1>1. Cardinality(Mine("completed")) \in Nat /\ Cardinality(Mine("failed")) \in Nat
  BY JobSetFact
<1>2. count_terminal_jobs_for_schema(s, seen) =
         <<Cardinality(Mine("completed")), Cardinality(Mine("failed"))>>
  BY DEF count_terminal_jobs_for_schema
<1> HIDE DEF Mine
<1> QED BY <1>1, <1>2

LEMMA JudgeTyped ==
    ASSUME TypeOK, Locks, NEW c \in Calls, JudgeRound(c)
    PROVE  TypeOK'
<1> DEFINE counts == count_terminal_jobs_for_schema(calls[c].schema, PageSeen(c))
           base == Baseline(c, counts)
<1>1. calls[c] \in Call /\ calls[c].pc \in Active
  BY DEF TypeOK, JudgeRound, At, Active
<1>2. UNCHANGED <<schemas, jobs, nodes, disturbed>>
  BY DEF JudgeRound
<1>3. CASE \E result \in Result : Return(c, result)
  <2>1. queues' \in [Calls -> Seq(Calls)] /\ calls' \in [Calls -> Call]
    BY <1>1, <1>3, ReturnTyped
  <2> QED BY <1>2, <2>1 DEF TypeOK
<1>4. CASE /\ calls' = [calls EXCEPT ![c].baseline = base, ![c].round = NewRound]
           /\ UNCHANGED queues
  <2>1. counts \in Nat \X Nat
    BY CountFact
  <2>2. base \in (Nat \X Nat) \cup {None}
    BY <1>1, <2>1 DEF Baseline, Call
  <2> DEFINE n1 == [calls[c] EXCEPT !.baseline = base]
             n2 == [n1 EXCEPT !.round = NewRound]
  <2> HIDE DEF counts, base
  <2>3. calls' = [calls EXCEPT ![c] = n2]
    BY <1>1, <1>4
  <2> HIDE DEF n1, n2
  <2>4. n1 \in Call BY <1>1, <2>2 DEF Call, n1
  <2>5. n2 \in Call BY <2>4, NewFact DEF Call, n2
  <2> QED BY <1>2, <1>4, <2>3, <2>5, CallStepTyped
<1> HIDE DEF counts, base
<1> QED BY <1>3, <1>4 DEF JudgeRound, Result, counts, base

LEMMA PollTyped ==
    ASSUME TypeOK, Locks, NEW c \in Calls, NEW answered, PollMessages(c, answered)
    PROVE  TypeOK'
<1> DEFINE pending == calls[c].pending \ answered
           failed == calls[c].failed \/ \E j \in answered : jobs[j].status # "completed"
<1>1. calls[c] \in Call /\ calls[c].pc \in Active
  BY DEF TypeOK, PollMessages, At, Active
<1>2. UNCHANGED <<schemas, jobs, nodes, disturbed>>
  BY DEF PollMessages
<1>3. CASE \E result \in Result : Return(c, result)
  <2>1. queues' \in [Calls -> Seq(Calls)] /\ calls' \in [Calls -> Call]
    BY <1>1, <1>3, ReturnTyped
  <2> QED BY <1>2, <2>1 DEF TypeOK
<1>4. CASE /\ calls' = [calls EXCEPT ![c].pending = pending, ![c].failed = failed]
           /\ UNCHANGED queues
  <2>1. pending \in SUBSET (1..MaxJobs)
    BY <1>1 DEF Call
  <2>2. failed \in BOOLEAN
    BY <1>1 DEF Call
  <2> DEFINE n1 == [calls[c] EXCEPT !.pending = pending]
             n2 == [n1 EXCEPT !.failed = failed]
  <2> HIDE DEF pending, failed
  <2>3. calls' = [calls EXCEPT ![c] = n2]
    BY <1>1, <1>4
  <2> HIDE DEF n1, n2
  <2>4. n1 \in Call BY <1>1, <2>1 DEF Call, n1
  <2>5. n2 \in Call BY <2>2, <2>4 DEF Call, n2
  <2> QED BY <1>2, <1>4, <2>3, <2>5, CallStepTyped
<1> HIDE DEF pending, failed
<1> QED BY <1>3, <1>4 DEF PollMessages, Result, pending, failed

LEMMA GiveUpTyped ==
    ASSUME TypeOK, Locks, NEW c \in Calls, AwaitTimeout(c) \/ Abort(c)
    PROVE  TypeOK'
<1>1. calls[c].pc \in Active /\ UNCHANGED <<schemas, jobs, nodes>>
  BY DEF AwaitTimeout, Abort, At, Active
<1>2. \E result \in Result : Return(c, result)
  BY DEF AwaitTimeout, Abort, Result
<1>3. queues' \in [Calls -> Seq(Calls)] /\ calls' \in [Calls -> Call]
  BY <1>1, <1>2, ReturnTyped
<1>4. disturbed' \in [Schemas -> BOOLEAN]
  BY DisturbTyped DEF AwaitTimeout, Abort, At
<1> QED BY <1>1, <1>3, <1>4 DEF TypeOK

LEMMA FinishTyped ==
    ASSUME Base, NEW j \in DOMAIN jobs, NEW status \in Finished, JobFinishes(j, status)
    PROVE  TypeOK' /\ JobNames'
<1>1. /\ jobs \in Seq(Job) /\ jobs[j] \in Job
      /\ jobs[j].schema \in Schemas /\ jobs[j].name \in Names
  <2>1. jobs \in Seq(Job)
    BY DEF Base, TypeOK
  <2>2. jobs[j] \in Job
    BY <2>1
  <2> QED BY <2>1, <2>2 DEF JobFinishes, Base, JobNames, Job
<1>2. /\ jobs' = [jobs EXCEPT ![j].status = status]
      /\ UNCHANGED <<schemas, queues, calls, disturbed>>
  BY DEF JobFinishes
<1>3. /\ jobs' \in Seq(Job) /\ Len(jobs') = Len(jobs) /\ DOMAIN jobs' = DOMAIN jobs
      /\ \A i \in DOMAIN jobs : jobs'[i].schema = jobs[i].schema
                                /\ jobs'[i].name = jobs[i].name
  <2> DEFINE e == [jobs[j] EXCEPT !.status = status]
  <2>1. e \in Job /\ e.schema = jobs[j].schema /\ e.name = jobs[j].name
    BY <1>1 DEF Job, Status
  <2>2. jobs' = [jobs EXCEPT ![j] = e]
    BY <1>1, <1>2
  <2> HIDE DEF e
  <2> QED BY <1>1, <2>1, <2>2
<1>4. nodes' \in [Schemas -> SUBSET Names]
  BY <1>1 DEF JobFinishes, Base, TypeOK
<1>5. JobNames'
  BY <1>3 DEF Base, JobNames
<1> QED BY <1>2, <1>3, <1>4, <1>5 DEF TypeOK, Base

LEMMA OtherTenantTyped ==
    ASSUME Base, OtherTenantIngests
    PROVE  TypeOK' /\ JobNames'
<1> DEFINE e == [schema |-> None, name |-> None, status |-> "pending"]
<1>1. e \in Job /\ e.schema = None
  BY DEF Job, Status
<1>2. /\ jobs \in Seq(Job) /\ Len(jobs) < MaxJobs
      /\ jobs' = Append(jobs, e)
      /\ UNCHANGED <<schemas, queues, calls, nodes, disturbed>>
  BY DEF OtherTenantIngests, Base, TypeOK
<1> HIDE DEF e
<1>3. /\ jobs' \in Seq(Job) /\ Len(jobs') = Len(jobs) + 1
      /\ DOMAIN jobs' = 1..(Len(jobs) + 1) /\ DOMAIN jobs = 1..Len(jobs)
      /\ Len(jobs) \in Nat
      /\ jobs'[Len(jobs) + 1] = e
      /\ \A i \in 1..Len(jobs) : jobs'[i] = jobs[i]
  BY <1>1, <1>2
<1>4. JobNames'
  BY <1>1, <1>3 DEF JobNames, Base
<1>5. Len(jobs') <= MaxJobs
  BY <1>2, <1>3, IngestAssumption
<1> QED BY <1>2, <1>3, <1>4, <1>5 DEF TypeOK, Base

LEMMA BaseInit == Init => Base
<1> SUFFICES ASSUME Init PROVE Base
  OBVIOUS
<1>1. TypeOK
  BY NewFact, IngestAssumption DEF Init, TypeOK
<1>2. Locks
  BY DEF Init, Locks, Locals, Queued, InTurn, First, Working, Active, NewCall
<1> QED BY <1>1, <1>2 DEF Base, JobNames, Init

LEMMA BaseStep == Base /\ [Next]_vars => Base'
<1> SUFFICES ASSUME Base, [Next]_vars PROVE Base'
  OBVIOUS
<1>1. TypeOK /\ Locks /\ JobNames
  BY DEF Base
<1>2. Locks'
  BY <1>1, LocksStep
<1>3. CASE UNCHANGED vars
  BY <1>1, <1>2, <1>3 DEF Base, TypeOK, JobNames, vars
<1>4. ASSUME NEW c \in Calls,
             \/ \E kind \in {"ingest", "ingest_raw"}, s \in Schemas, texts \in Batches :
                   acquire_ingest_serializer(c, kind, s, texts)
             \/ collect_dedup_catalogue(c)
             \/ PrepareTexts(c)
             \/ ListPage(c)
             \/ JudgeRound(c)
             \/ ListFails(c)
             \/ \E answered \in SUBSET calls[c].pending : PollMessages(c, answered)
             \/ AwaitTimeout(c)
             \/ Abort(c)
      PROVE  TypeOK' /\ JobNames'
  <2>1. UNCHANGED jobs
    BY <1>4 DEF acquire_ingest_serializer, collect_dedup_catalogue, PrepareTexts, ListPage,
                JudgeRound, ListFails, PollMessages, AwaitTimeout, Abort
  <2>2. JobNames'
    BY <1>1, <2>1 DEF JobNames
  <2>3. TypeOK'
    BY <1>1, <1>4, AcquireTyped, CollectTyped, PrepareTyped, ListPageTyped, JudgeTyped,
       ListFailsTyped, PollTyped, GiveUpTyped
  <2> QED BY <2>2, <2>3
<1>5. ASSUME NEW c \in Calls, SendRequest(c) PROVE TypeOK' /\ JobNames'
  BY <1>5, SendTyped
<1>6. ASSUME NEW c \in Calls, NEW accepted \in BOOLEAN, SendFails(c, accepted)
      PROVE  TypeOK' /\ JobNames'
  BY <1>6, SendFailsTyped
<1>7. ASSUME NEW j \in DOMAIN jobs, NEW status \in Finished, JobFinishes(j, status)
      PROVE  TypeOK' /\ JobNames'
  BY <1>7, FinishTyped
<1>8. CASE OtherTenantIngests
  BY <1>2, <1>8, OtherTenantTyped DEF Base
<1> QED BY <1>2, <1>3, <1>4, <1>5, <1>6, <1>7, <1>8 DEF Next, Base

\* The serializer, the calls and vegapunk's jobs keep their types (TypeOK); in
\* particular list_extraction_jobs_paged never asks beyond LIST_JOBS_HARD_CAP.
THEOREM IngestTypes == Spec => []TypeOK
<1>1. Base => TypeOK
  BY DEF Base
<1> QED BY <1>1, BaseInit, BaseStep, PTL DEF Spec

\* Two calls on one schema are never both past the serializer
\* (OneIngestPerSchema): lock_for hands all of them the same lock, and a call
\* leaves the queue in every way in which it may end.
THEOREM OneAtATime == Spec => []OneIngestPerSchema
<1>1. Base => OneIngestPerSchema
  BY LocksExclude DEF Base
<1> QED BY <1>1, BaseInit, BaseStep, PTL DEF Spec

-----------------------------------------------------------------------------
(* What a call knows of its jobs                                           *)

\* The jobs of the call's schema that are not its own.
Old(c) == {j \in DOMAIN jobs : jobs[j].schema = calls[c].schema /\ j \notin calls[c].own}

\* The jobs of a call are vegapunk's, of the call's schema; a call that found
\* no unfinished job when it sent its request has put in all those there are.
Owned(c) ==
    /\ calls[c].own \subseteq DOMAIN jobs
    /\ At(c, "await") => \A j \in calls[c].own : jobs[j].schema = calls[c].schema
    /\ At(c, "await") /\ ~calls[c].leftover =>
          \A j \in Old(c) : jobs[j].status \in Finished

\* ingest_raw: what is no longer pending has finished, and how.
Polled(c) ==
    At(c, "await") /\ calls[c].kind = "ingest_raw" =>
        /\ calls[c].pending \subseteq calls[c].own
        /\ \A j \in calls[c].own \ calls[c].pending : jobs[j].status \in Finished
        /\ ~calls[c].failed =>
              \A j \in calls[c].own \ calls[c].pending : jobs[j].status = "completed"

\* ingest, the round that is under way: pages at multiples of PageSize below
\* HardCap, of jobs in the window; a job that was seen finished has finished so,
\* and of the older jobs, all finished, nothing else has been seen.
Paging(c) ==
    LET seen == calls[c].round.seen
        offset == calls[c].round.offset
    IN  /\ calls[c].since >= 1
        /\ offset < HardCap
        /\ \E n \in Nat : offset = n * PageSize
        /\ \A j \in 1..MaxJobs : seen[j] # None =>
              /\ j \in DOMAIN jobs
              /\ j >= calls[c].since
              /\ seen[j] \in Finished \/ j \in Old(c) => seen[j] = jobs[j].status

\* Jobs that are added while a round is under way only push the older ones to
\* later pages: so far all of these have been seen down to the current page.
Contiguous(c) ==
    \A j \in Old(c) :
        j >= calls[c].since /\ j > Len(jobs) - calls[c].round.offset =>
            calls[c].round.seen[j] = jobs[j].status

Of(status, T) == {j \in T : jobs[j].status = status}

\* The baseline counts a set T of finished jobs that has all older jobs from lo
\* on, and no later round, which may fetch as many pages, sees one before lo.
Based(c) ==
    \E T \in SUBSET DOMAIN jobs, lo \in Nat :
        /\ calls[c].baseline = <<Cardinality(Of("completed", T)), Cardinality(Of("failed", T))>>
        /\ \A j \in T : jobs[j].schema = calls[c].schema /\ jobs[j].status \in Finished
        /\ \A j \in Old(c) : j >= lo => j \in T
        /\ \/ lo = calls[c].since
           \/ \A n \in Nat : n * PageSize < HardCap => lo + n * PageSize + PageSize <= Len(jobs) + 1
        /\ \A j \in 1..MaxJobs : calls[c].round.seen[j] # None => j >= lo

Counts(c) == At(c, "await") /\ calls[c].kind = "ingest" /\ ~calls[c].leftover

Counted(c) ==
    Counts(c) => /\ Paging(c)
                 /\ calls[c].baseline = None => Contiguous(c)
                 /\ calls[c].baseline # None => Based(c)

\* The wait begins with nothing seen.
Fresh(c) ==
    calls[c].pc \in {"waiting", "scan", "send"} =>
        calls[c].round = NewRound /\ calls[c].baseline = None

Knows(c) == Owned(c) /\ Polled(c) /\ Counted(c) /\ Fresh(c)

Knowledge == \A c \in Calls : Knows(c)

\* What the jobs may do as others work: finish, and be joined by jobs of others.
Grow(c) ==
    /\ Len(jobs) <= Len(jobs')
    /\ \A j \in DOMAIN jobs :
          /\ jobs'[j].schema = jobs[j].schema
          /\ \/ jobs'[j].status = jobs[j].status
             \/ jobs[j].status = "pending" /\ jobs'[j].status \in Finished
    /\ At(c, "await") =>
          \A j \in DOMAIN jobs' \ DOMAIN jobs : jobs'[j].schema # calls[c].schema

\* The call itself does nothing.
LEMMA KnowsStill ==
    ASSUME TypeOK, TypeOK', NEW c \in Calls, calls'[c] = calls[c], Grow(c), Knows(c)
    PROVE  Knows(c)'
<1>1. /\ Len(jobs) \in Nat /\ Len(jobs') \in Nat
      /\ DOMAIN jobs = 1..Len(jobs) /\ DOMAIN jobs' = 1..Len(jobs')
      /\ DOMAIN jobs \subseteq DOMAIN jobs'
  BY DEF TypeOK, Grow
<1>2. At(c, "await")' <=> At(c, "await")
  BY DEF At
<1>3. \A j \in DOMAIN jobs :
         /\ jobs'[j].schema = jobs[j].schema
         /\ jobs[j].status \in Finished => jobs'[j].status = jobs[j].status
         /\ jobs'[j].status \in Finished \/ jobs'[j].status = jobs[j].status
  BY DEF Grow, Finished
<1>4. At(c, "await") /\ Owned(c) => Old(c)' = Old(c)
  BY <1>1, <1>3 DEF Old, Grow, Owned
<1>5. Owned(c)'
  BY <1>1, <1>2, <1>3, <1>4 DEF Knows, Owned, Old
<1>6. Polled(c)'
  BY <1>1, <1>2, <1>3 DEF Knows, Polled, Owned, Finished
<1>7. ASSUME Counts(c)' PROVE Paging(c)'
  <2>1. Counts(c) /\ Paging(c) /\ Old(c)' = Old(c) /\ \A j \in Old(c) : jobs[j].status \in Finished
    BY <1>2, <1>4, <1>7 DEF Counts, Counted, Knows, Owned
  <2> QED BY <1>1, <1>3, <2>1 DEF Paging, Old
<1>8. ASSUME Counts(c)', calls[c].baseline = None PROVE Contiguous(c)'
  <2>1. /\ Contiguous(c) /\ Old(c)' = Old(c) /\ Old(c) \subseteq DOMAIN jobs
        /\ \A j \in Old(c) : jobs[j].status \in Finished
    BY <1>2, <1>4, <1>8 DEF Counts, Counted, Knows, Owned, Old
  <2>2. /\ calls[c].round.offset \in Nat
        /\ \A j \in DOMAIN jobs : j > Len(jobs') - calls[c].round.offset =>
              j > Len(jobs) - calls[c].round.offset
    <3>1. calls[c].round.offset \in Nat
      BY IngestAssumption DEF TypeOK, Call, Round
    <3> QED BY <1>1, <3>1 DEF Grow
  <2> QED BY <1>3, <2>1, <2>2 DEF Contiguous
<1>9. ASSUME Counts(c)', calls[c].baseline # None PROVE Based(c)'
  <2>1. /\ Based(c) /\ Old(c)' = Old(c)
    BY <1>2, <1>4, <1>9 DEF Counts, Counted, Knows
  <2>2. PICK T \in SUBSET DOMAIN jobs, lo \in Nat :
           /\ calls[c].baseline =
                 <<Cardinality(Of("completed", T)), Cardinality(Of("failed", T))>>
           /\ \A j \in T : jobs[j].schema = calls[c].schema /\ jobs[j].status \in Finished
           /\ \A j \in Old(c) : j >= lo => j \in T
           /\ \/ lo = calls[c].since
              \/ \A n \in Nat : n * PageSize < HardCap =>
                    lo + n * PageSize + PageSize <= Len(jobs) + 1
           /\ \A j \in 1..MaxJobs : calls[c].round.seen[j] # None => j >= lo
    BY <2>1 DEF Based
  <2>3. /\ Of("completed", T)' = Of("completed", T)
        /\ Of("failed", T)' = Of("failed", T)
    BY <1>3, <2>2 DEF Of
  <2>4. \A j \in T : jobs'[j].schema = calls[c].schema /\ jobs'[j].status \in Finished
    BY <1>3, <2>2
  <2>5. ASSUME NEW n \in Nat, lo + n * PageSize + PageSize <= Len(jobs) + 1
        PROVE  lo + n * PageSize + PageSize <= Len(jobs') + 1
    <3>1. lo + n * PageSize + PageSize \in Nat
      BY IngestAssumption
    <3>2. \A x \in Nat : x <= Len(jobs) + 1 => x <= Len(jobs') + 1
      BY <1>1 DEF Grow
    <3> QED BY <2>5, <3>1, <3>2
  <2>6. T \in SUBSET DOMAIN jobs'
    BY <1>1
  <2> QED BY <2>1, <2>2, <2>3, <2>4, <2>5, <2>6 DEF Based
<1> QED BY <1>5, <1>6, <1>7, <1>8, <1>9 DEF Knows, Counted, Fresh

\* A call that does not wait for its jobs knows no more than which they are.
LEMMA KnowsLittle ==
    ASSUME TypeOK, TypeOK', NEW c \in Calls, ~At(c, "await")',
           calls'[c].own = {} \/ calls'[c].own = calls[c].own,
           calls'[c].pc \in {"waiting", "scan", "send"} =>
              calls'[c].round = NewRound /\ calls'[c].baseline = None,
           Len(jobs) <= Len(jobs'), Knows(c)
    PROVE  Knows(c)'
<1>1. DOMAIN jobs \subseteq DOMAIN jobs'
  BY DEF TypeOK
<1> QED BY <1>1 DEF Knows, Owned, Polled, Counted, Counts, Fresh

\* The new jobs are the call's, and none of the older ones was unfinished.
LEMMA KnowsSent ==
    ASSUME Base, Base', NEW c \in Calls, SendRequest(c), Knows(c)
    PROVE  Knows(c)'
<1> DEFINE own == (Len(jobs) + 1)..(Len(jobs) + Len(calls[c].texts))
           n == calls'[c]
<1>1. /\ TypeOK /\ TypeOK' /\ calls[c] \in Call
      /\ calls[c].schema \in Schemas
      /\ jobs' = jobs \o Enqueued(calls[c])
      /\ At(c, "send")
  BY DEF Base, TypeOK, SendRequest, At, Locks, Locals, Active
<1>2. /\ Len(jobs) \in Nat /\ Len(calls[c].texts) \in Nat
      /\ DOMAIN jobs = 1..Len(jobs)
      /\ DOMAIN jobs' = 1..(Len(jobs) + Len(calls[c].texts))
      /\ Len(jobs') = Len(jobs) + Len(calls[c].texts)
      /\ \A j \in 1..Len(jobs) : jobs'[j] = jobs[j]
      /\ \A j \in own : jobs'[j].schema = calls[c].schema
  <2>1. /\ Len(jobs) \in Nat /\ Len(calls[c].texts) \in Nat /\ Len(jobs') \in Nat
        /\ DOMAIN jobs = 1..Len(jobs) /\ DOMAIN jobs' = 1..Len(jobs')
        /\ Len(jobs') = Len(jobs) + Len(calls[c].texts)
    BY <1>1, EnqueuedFact DEF TypeOK
  <2>2. \A j \in 1..(Len(jobs) + Len(calls[c].texts)) :
           jobs'[j] = IF j <= Len(jobs) THEN jobs[j] ELSE Enqueued(calls[c])[j - Len(jobs)]
    BY <1>1, EnqueuedFact
  <2>3. \A i \in 1..Len(calls[c].texts) : Enqueued(calls[c])[i].schema = calls[c].schema
    BY <1>1, EnqueuedFact
  <2>4. ASSUME NEW j \in own PROVE jobs'[j].schema = calls[c].schema
    <3>1. /\ j \in 1..(Len(jobs) + Len(calls[c].texts)) /\ ~(j <= Len(jobs))
          /\ j - Len(jobs) \in 1..Len(calls[c].texts)
      BY <2>1, <2>4
    <3> QED BY <2>2, <2>3, <3>1
  <2>5. \A j \in 1..Len(jobs) : jobs'[j] = jobs[j]
    BY <2>1, <2>2
  <2> QED BY <2>1, <2>4, <2>5
<1>3. /\ n.pc = "await" /\ n.own = own /\ n.leftover = Leftover(calls[c].schema)
      /\ n.schema = calls[c].schema /\ n.kind = calls[c].kind
      /\ n.kind = "ingest_raw" => n.pending = own
      /\ n.round = NewRound /\ n.baseline = None
      /\ n.since >= 1
  <2> DEFINE pending == IF calls[c].kind = "ingest_raw" THEN own ELSE {}
             starts == IF calls[c].kind = "ingest"
                         THEN 1..(Len(jobs) + 1) \cup {(Len(jobs) + 1) + Len(calls[c].texts)}
                         ELSE {1}
  <2>1. \A s \in starts : s >= 1
    <3>1. \A x \in Nat : x + 1 >= 1 /\ \A y \in Nat : (x + 1) + y >= 1
      OBVIOUS
    <3>2. \A x \in 1..(Len(jobs) + 1) : x >= 1
      BY <1>2
    <3>3. (Len(jobs) + 1) + Len(calls[c].texts) >= 1
      BY <1>2, <3>1
    <3>4. \A s \in starts : \/ s \in 1..(Len(jobs) + 1)
                            \/ s = (Len(jobs) + 1) + Len(calls[c].texts)
                            \/ s = 1
      OBVIOUS
    <3> HIDE DEF starts
    <3>5. 1 >= 1
      OBVIOUS
    <3> QED BY <3>2, <3>3, <3>4, <3>5, Zenon
  <2> HIDE DEF pending, starts
  <2>2. PICK since \in starts :
          calls' = [calls EXCEPT ![c] = [calls[c] EXCEPT !.pc = "await", !.own = own,
              !.texts = <<>>, !.pending = pending, !.since = since,
              !.leftover = Leftover(calls[c].schema)]]
    BY DEF SendRequest, starts, pending
  <2>3. calls[c].round = NewRound /\ calls[c].baseline = None
    BY <1>1 DEF Knows, Fresh, At
  <2> HIDE DEF own
  <2>4. n = [calls[c] EXCEPT !.pc = "await", !.own = own,
              !.texts = <<>>, !.pending = pending, !.since = since,
              !.leftover = Leftover(calls[c].schema)]
    BY <2>2, <1>1 DEF TypeOK
  <2>5. n.since = since
    BY <1>1, <2>4 DEF Call
  <2>6. /\ n.pc = "await" /\ n.own = own /\ n.leftover = Leftover(calls[c].schema)
        /\ n.schema = calls[c].schema /\ n.kind = calls[c].kind
        /\ n.pending = pending
        /\ n.round = calls[c].round /\ n.baseline = calls[c].baseline
    BY <1>1, <2>4 DEF Call
  <2> QED BY <2>1, <2>2, <2>3, <2>5, <2>6 DEF pending
<1>4. Owned(c)'
  <2>1. n.own \subseteq DOMAIN jobs' /\ \A j \in n.own : jobs'[j].schema = n.schema
    <3>1. own \subseteq DOMAIN jobs'
      BY <1>2
    <3> QED BY <1>2, <1>3, <3>1
  <2>2. ASSUME ~n.leftover, NEW j \in DOMAIN jobs', jobs'[j].schema = n.schema, j \notin n.own
        PROVE  jobs'[j].status \in Finished
    <3>1. j \in DOMAIN jobs
      BY <1>2, <1>3, <2>2
    <3>2. jobs'[j] = jobs[j]
      BY <1>2, <3>1
    <3>3. jobs[j].status # "pending"
      BY <1>3, <2>2, <3>1, <3>2 DEF Leftover
    <3>4. jobs[j].status \in Status
      BY <1>1, <3>1, PageSeenFact DEF Job
    <3> QED BY <3>2, <3>3, <3>4 DEF Status
  <2> QED BY <2>1, <2>2 DEF Owned, Old
<1>5. Polled(c)'
  BY <1>3 DEF Polled
<1>6. Paging(c)'
  <2>1. n.round.offset = 0 /\ \A j \in 1..MaxJobs : n.round.seen[j] = None
    BY <1>3 DEF NewRound
  <2>2. 0 = 0 * PageSize /\ 0 < HardCap
    BY IngestAssumption
  <2> QED BY <1>3, <2>1, <2>2 DEF Paging
<1>7. Contiguous(c)'
  <2>1. n.round.offset = 0
    BY <1>3 DEF NewRound
  <2>2. \A j \in DOMAIN jobs' : ~(j > Len(jobs') - 0)
    BY <1>2
  <2> QED BY <2>1, <2>2 DEF Contiguous, Old
<1> QED BY <1>3, <1>4, <1>5, <1>6, <1>7 DEF Knows, Counted, Fresh

\* A page is a run of PageSize jobs, cut off at the window and the first job.
LEMMA PageIs ==
    ASSUME TypeOK, NEW c \in Calls
    PROVE  /\ Len(jobs) \in Nat /\ DOMAIN jobs = 1..Len(jobs) /\ Len(jobs) <= MaxJobs
           /\ calls[c].round.offset \in Nat /\ PageSize \in Nat \ {0} /\ HardCap \in Nat \ {0}
           /\ calls[c].since \in Nat
           /\ \A j \in DOMAIN jobs : j \in Page(c) <=>
                 /\ j >= calls[c].since
                 /\ j + calls[c].round.offset <= Len(jobs)
                 /\ j + calls[c].round.offset + PageSize >= Len(jobs) + 1
           /\ \A j \in 1..MaxJobs :
                 PageSeen(c)[j] = IF j \in Page(c) THEN jobs[j].status
                                                  ELSE calls[c].round.seen[j]
<1>1. /\ Len(jobs) \in Nat /\ DOMAIN jobs = 1..Len(jobs) /\ Len(jobs) <= MaxJobs
      /\ calls[c].round.offset \in Nat /\ PageSize \in Nat \ {0} /\ HardCap \in Nat \ {0}
      /\ calls[c].since \in Nat
  BY IngestAssumption DEF TypeOK, Call, Round
<1>2. \A j \in DOMAIN jobs : j \in Page(c) <=>
                 /\ j >= calls[c].since
                 /\ j + calls[c].round.offset <= Len(jobs)
                 /\ j + calls[c].round.offset + PageSize >= Len(jobs) + 1
  <2> DEFINE offset == calls[c].round.offset
  <2> SUFFICES ASSUME NEW j \in DOMAIN jobs
               PROVE  Len(jobs) - j \in offset..(offset + PageSize - 1) <=>
                         j + offset <= Len(jobs) /\ j + offset + PageSize >= Len(jobs) + 1
    BY DEF Page
  <2>1. /\ j \in Int /\ Len(jobs) \in Int /\ offset \in Int /\ PageSize \in Int
    BY <1>1
  <2> HIDE DEF offset
  <2> QED BY <2>1
<1> QED BY <1>1, <1>2 DEF PageSeen

\* What has been seen with the current page.
LEMMA SeenIs ==
    ASSUME TypeOK, NEW c \in Calls, Paging(c)
    PROVE  /\ \A j \in 1..MaxJobs : PageSeen(c)[j] # None =>
                 /\ j \in DOMAIN jobs
                 /\ j >= calls[c].since
                 /\ PageSeen(c)[j] \in Finished \/ j \in Old(c) =>
                       PageSeen(c)[j] = jobs[j].status
                 /\ \/ calls[c].round.seen[j] # None
                    \/ j + calls[c].round.offset + PageSize >= Len(jobs) + 1
           /\ Contiguous(c) =>
                 \A j \in Old(c) : /\ j >= calls[c].since
                                   /\ j + calls[c].round.offset + PageSize >= Len(jobs) + 1
                                   => PageSeen(c)[j] = jobs[j].status
<1>1. \A j \in 1..MaxJobs : PageSeen(c)[j] # None =>
                 /\ j \in DOMAIN jobs
                 /\ j >= calls[c].since
                 /\ PageSeen(c)[j] \in Finished \/ j \in Old(c) =>
                       PageSeen(c)[j] = jobs[j].status
                 /\ \/ calls[c].round.seen[j] # None
                    \/ j + calls[c].round.offset + PageSize >= Len(jobs) + 1
  <2> SUFFICES ASSUME NEW j \in 1..MaxJobs, PageSeen(c)[j] # None
               PROVE  /\ j \in DOMAIN jobs
                      /\ j >= calls[c].since
                      /\ PageSeen(c)[j] \in Finished \/ j \in Old(c) =>
                            PageSeen(c)[j] = jobs[j].status
                      /\ \/ calls[c].round.seen[j] # None
                         \/ j + calls[c].round.offset + PageSize >= Len(jobs) + 1
    OBVIOUS
  <2>1. CASE j \in Page(c)
    <3>1. j \in DOMAIN jobs
      BY <2>1, PageSeenFact
    <3> QED BY <2>1, <3>1, PageIs
  <2>2. CASE j \notin Page(c)
    <3>1. PageSeen(c)[j] = calls[c].round.seen[j]
      BY <2>2, PageIs
    <3> QED BY <3>1 DEF Paging
  <2> QED BY <2>1, <2>2
<1>2. ASSUME Contiguous(c), NEW j \in Old(c), j >= calls[c].since,
             j + calls[c].round.offset + PageSize >= Len(jobs) + 1
      PROVE  PageSeen(c)[j] = jobs[j].status
  <2>1. j \in DOMAIN jobs /\ j \in 1..MaxJobs
    BY PageSeenFact DEF Old
  <2>2. CASE j \in Page(c)
    BY <2>1, <2>2, PageIs
  <2>3. CASE j \notin Page(c)
    <3>1. ~(j + calls[c].round.offset <= Len(jobs))
      BY <1>2, <2>1, <2>3, PageIs
    <3>2. j > Len(jobs) - calls[c].round.offset
      BY <2>1, <3>1, PageIs
    <3>3. calls[c].round.seen[j] = jobs[j].status
      BY <1>2, <3>2 DEF Contiguous
    <3> QED BY <2>1, <2>3, <3>3, PageIs
  <2> QED BY <2>2, <2>3
<1> QED BY <1>1, <1>2

\* No page of a later round reaches behind the baseline.
LEMMA SeenFromLo ==
    ASSUME TypeOK, NEW c \in Calls, Paging(c), NEW lo \in Nat,
           \/ lo = calls[c].since
           \/ \A n \in Nat : n * PageSize < HardCap => lo + n * PageSize + PageSize <= Len(jobs) + 1,
           \A j \in 1..MaxJobs : calls[c].round.seen[j] # None => j >= lo,
           NEW j \in 1..MaxJobs, PageSeen(c)[j] # None
    PROVE  j >= lo
<1> DEFINE offset == calls[c].round.offset
<1>1. /\ j >= calls[c].since
      /\ \/ calls[c].round.seen[j] # None
         \/ j + offset + PageSize >= Len(jobs) + 1
  BY SeenIs
<1>2. lo = calls[c].since \/ lo + offset + PageSize <= Len(jobs) + 1
  BY DEF Paging
<1>3. Len(jobs) \in Nat /\ offset \in Nat /\ PageSize \in Nat
  BY PageIs
<1>4. CASE lo = calls[c].since
  BY <1>1, <1>4
<1>5. CASE calls[c].round.seen[j] # None
  BY <1>5
<1>6. CASE /\ lo + offset + PageSize <= Len(jobs) + 1
           /\ j + offset + PageSize >= Len(jobs) + 1
  <2> HIDE DEF offset
  <2> QED BY <1>3, <1>6
<1> QED BY <1>1, <1>2, <1>4, <1>5, <1>6

\* A round that goes on to its next page.
LEMMA KnowsListed ==
    ASSUME TypeOK, NEW c \in Calls, ListPage(c), Knows(c)
    PROVE  Knows(c)'
<1> DEFINE n == calls'[c]
           offset == calls[c].round.offset
<1>1. /\ calls[c] \in Call
      /\ UNCHANGED jobs
      /\ At(c, "await") /\ calls[c].kind = "ingest"
      /\ n = [calls[c] EXCEPT !.round = [seen |-> PageSeen(c), cap |-> EffectiveCap(c),
                                         offset |-> offset + PageSize]]
      /\ offset + PageSize < EffectiveCap(c)
  <2>1. /\ calls[c] \in Call
        /\ UNCHANGED jobs
        /\ At(c, "await") /\ calls[c].kind = "ingest"
        /\ n = [calls[c] EXCEPT !.round = [seen |-> PageSeen(c), cap |-> EffectiveCap(c),
                                           offset |-> offset + PageSize]]
        /\ ~(offset + PageSize >= EffectiveCap(c))
    BY DEF ListPage, TypeOK, LastPage
  <2>2. offset + PageSize < EffectiveCap(c)
    <3>1. offset \in Nat /\ PageSize \in Nat /\ EffectiveCap(c) \in 0..HardCap /\ HardCap \in Nat
      BY PageIs, EffectiveCapFact
    <3> QED BY <2>1, <3>1
  <2> QED BY <2>1, <2>2
<1>2. /\ n.pc = "await" /\ n.kind = calls[c].kind /\ n.own = calls[c].own
      /\ n.leftover = calls[c].leftover /\ n.schema = calls[c].schema
      /\ n.since = calls[c].since /\ n.baseline = calls[c].baseline
      /\ n.round.seen = PageSeen(c) /\ n.round.offset = offset + PageSize
  BY <1>1 DEF Call, At
<1>3. Old(c)' = Old(c)
  BY <1>1, <1>2 DEF Old
<1>4. Owned(c)'
  BY <1>1, <1>2, <1>3 DEF Knows, Owned, At
<1>5. ASSUME Counts(c)' PROVE Paging(c) /\ Paging(c)'
  <2>1. Paging(c) /\ Counts(c)
    BY <1>1, <1>2, <1>5 DEF Counts, At, Knows, Counted
  <2>2. n.round.offset < HardCap
    BY <1>1, <1>2, EffectiveCapFact, PageIs
  <2>3. \E m \in Nat : n.round.offset = m * PageSize
    <3>1. PICK m \in Nat : offset = m * PageSize
      BY <2>1 DEF Paging
    <3>2. m + 1 \in Nat /\ n.round.offset = (m + 1) * PageSize
      BY <1>2, <3>1, PageIs
    <3> QED BY <3>2
  <2>4. \A j \in 1..MaxJobs : n.round.seen[j] # None =>
              /\ j \in DOMAIN jobs'
              /\ j >= n.since
              /\ n.round.seen[j] \in Finished \/ j \in Old(c)' => n.round.seen[j] = jobs'[j].status
    BY <1>1, <1>2, <1>3, <2>1, SeenIs
  <2> QED BY <1>2, <2>1, <2>2, <2>3, <2>4 DEF Paging
<1>6. ASSUME Counts(c)', n.baseline = None PROVE Contiguous(c)'
  <2>1. Paging(c) /\ Contiguous(c)
    BY <1>1, <1>2, <1>6 DEF Counts, At, Knows, Counted
  <2>2. \A j \in Old(c) : /\ j >= calls[c].since
                          /\ j + offset + PageSize >= Len(jobs) + 1
                          => PageSeen(c)[j] = jobs[j].status
    BY <2>1, SeenIs
  <2>3. \A j \in DOMAIN jobs : j > Len(jobs) - (offset + PageSize) =>
                                  j + offset + PageSize >= Len(jobs) + 1
    BY PageIs
  <2> QED BY <1>1, <1>2, <1>3, <2>2, <2>3 DEF Contiguous, Old
<1>7. ASSUME Counts(c)', n.baseline # None PROVE Based(c)'
  <2>1. Paging(c) /\ Based(c)
    BY <1>1, <1>2, <1>7 DEF Counts, At, Knows, Counted
  <2>2. PICK T \in SUBSET DOMAIN jobs, lo \in Nat :
           /\ calls[c].baseline =
                 <<Cardinality(Of("completed", T)), Cardinality(Of("failed", T))>>
           /\ \A j \in T : jobs[j].schema = calls[c].schema /\ jobs[j].status \in Finished
           /\ \A j \in Old(c) : j >= lo => j \in T
           /\ \/ lo = calls[c].since
              \/ \A m \in Nat : m * PageSize < HardCap =>
                    lo + m * PageSize + PageSize <= Len(jobs) + 1
           /\ \A j \in 1..MaxJobs : calls[c].round.seen[j] # None => j >= lo
    BY <2>1 DEF Based
  <2>3. ASSUME NEW j \in 1..MaxJobs, n.round.seen[j] # None PROVE j >= lo
    BY <1>2, <2>1, <2>2, <2>3, SeenFromLo
  <2>4. Of("completed", T)' = Of("completed", T) /\ Of("failed", T)' = Of("failed", T)
    BY <1>1 DEF Of
  <2> QED BY <1>1, <1>2, <1>3, <2>2, <2>3, <2>4 DEF Based
<1> QED BY <1>1, <1>2, <1>4, <1>5, <1>6, <1>7 DEF Knows, Polled, Counted, Fresh

-----------------------------------------------------------------------------
(* What a round counts                                                     *)

\* Counting: when two disjoint sets grow, by members of own at most, by no less
\* than own has, then all of own is new in them.
LEMMA CountedAll ==
    ASSUME NEW C1, NEW F1, NEW C2, NEW F2, NEW own,
           IsFiniteSet(C1), IsFiniteSet(F1), IsFiniteSet(C2), IsFiniteSet(F2), IsFiniteSet(own),
           C1 \cap F1 = {}, C2 \cap F2 = {}, C2 \cap F1 = {},
           C2 \subseteq C1 \cup own, F2 \subseteq F1 \cup own,
           (Cardinality(C2) - Cardinality(C1)) + (Cardinality(F2) - Cardinality(F1))
              >= Cardinality(own)
    PROVE  /\ own \subseteq C2 \cup F2
           /\ ~(Cardinality(F2) - Cardinality(F1) > 0) => own \cap F2 = {}
<1> DEFINE T1 == C1 \cup F1
           T2 == C2 \cup F2
           U == T1 \cup own
           O == own \cap F2
<1>1. /\ IsFiniteSet(T1) /\ IsFiniteSet(T2) /\ IsFiniteSet(U)
      /\ Cardinality(T1) = Cardinality(C1) + Cardinality(F1)
      /\ Cardinality(T2) = Cardinality(C2) + Cardinality(F2)
  <2>1. /\ IsFiniteSet(T1) /\ IsFiniteSet(T2)
        /\ Cardinality(T1) = Cardinality(C1) + Cardinality(F1) - Cardinality(C1 \cap F1)
        /\ Cardinality(T2) = Cardinality(C2) + Cardinality(F2) - Cardinality(C2 \cap F2)
    BY FS_Union
  <2>2. IsFiniteSet(U)
    BY <2>1, FS_Union
  <2>3. Cardinality(C1 \cap F1) = 0 /\ Cardinality(C2 \cap F2) = 0
    BY FS_EmptySet
  <2>4. /\ Cardinality(C1) \in Nat /\ Cardinality(F1) \in Nat
        /\ Cardinality(C2) \in Nat /\ Cardinality(F2) \in Nat
    BY FS_CardinalityType
  <2> HIDE DEF T1, T2, U
  <2> QED BY <2>1, <2>2, <2>3, <2>4
<1>2. /\ Cardinality(C1) \in Nat /\ Cardinality(F1) \in Nat /\ Cardinality(C2) \in Nat
      /\ Cardinality(F2) \in Nat /\ Cardinality(own) \in Nat /\ Cardinality(U) \in Nat
      /\ Cardinality(T1) \in Nat /\ Cardinality(T2) \in Nat
  <2> HIDE DEF T1, T2, U
  <2> QED BY <1>1, FS_CardinalityType
<1>3. IsFiniteSet(T1 \cap own) /\ Cardinality(T1 \cap own) \in Nat
  BY <1>1, FS_Subset, FS_CardinalityType
<1>4. Cardinality(U) = Cardinality(T1) + Cardinality(own) - Cardinality(T1 \cap own)
  <2> HIDE DEF T1
  <2> QED BY <1>1, FS_Union
<1>5. T2 \subseteq U
  OBVIOUS
<1>6. Cardinality(T2) <= Cardinality(U) /\ (Cardinality(U) = Cardinality(T2) => T2 = U)
  <2> HIDE DEF T2, U
  <2> QED BY <1>1, <1>5, FS_Subset
<1>7. Cardinality(T2) = Cardinality(U) /\ Cardinality(T1 \cap own) = 0
  <2> HIDE DEF T1, T2, U
  <2> QED BY <1>1, <1>2, <1>3, <1>4, <1>6
<1>8. T2 = U /\ T1 \cap own = {}
  BY <1>3, <1>6, <1>7, FS_EmptySet
<1>9. own \subseteq C2 \cup F2
  BY <1>8
<1>10. F1 \subseteq F2 /\ F1 \cap O = {} /\ F1 \cup O \subseteq F2
  BY <1>8
<1>11. /\ IsFiniteSet(O) /\ IsFiniteSet(F1 \cup O)
       /\ Cardinality(F1 \cup O) = Cardinality(F1) + Cardinality(O) - Cardinality(F1 \cap O)
       /\ Cardinality(F1 \cup O) <= Cardinality(F2)
       /\ Cardinality(F1 \cap O) = 0 /\ Cardinality(O) \in Nat
  <2>1. IsFiniteSet(O) /\ Cardinality(O) \in Nat
    BY FS_Subset, FS_CardinalityType
  <2> HIDE DEF O
  <2>2. /\ IsFiniteSet(F1 \cup O)
        /\ Cardinality(F1 \cup O) = Cardinality(F1) + Cardinality(O) - Cardinality(F1 \cap O)
    BY <2>1, FS_Union
  <2>3. Cardinality(F1 \cup O) <= Cardinality(F2)
    BY <1>10, FS_Subset
  <2>4. Cardinality(F1 \cap O) = 0
    BY <1>10, FS_EmptySet
  <2> QED BY <2>1, <2>2, <2>3, <2>4
<1>12. ASSUME ~(Cardinality(F2) - Cardinality(F1) > 0) PROVE O = {}
  <2>1. Cardinality(O) = 0
    <3> HIDE DEF O
    <3>1. Cardinality(F1) + Cardinality(O) <= Cardinality(F2) + 0
      BY <1>2, <1>11
    <3>2. Cardinality(F2) <= Cardinality(F1)
      BY <1>2, <1>12
    <3> QED BY <1>2, <1>11, <3>1, <3>2
  <2> QED BY <1>11, <2>1, FS_EmptySet
<1> QED BY <1>9, <1>12

\* The jobs that a round has seen finished.
SeenFinished(c) ==
    {j \in DOMAIN jobs : jobs[j].schema = calls[c].schema /\ PageSeen(c)[j] \in Finished}

\* What a round counts is what the jobs it has seen finished are.
LEMMA RoundCounts ==
    ASSUME TypeOK, NEW c \in Calls, Paging(c)
    PROVE  /\ SeenFinished(c) \in SUBSET DOMAIN jobs
           /\ \A j \in SeenFinished(c) :
                 jobs[j].schema = calls[c].schema /\ jobs[j].status \in Finished
           /\ count_terminal_jobs_for_schema(calls[c].schema, PageSeen(c)) =
                 <<Cardinality(Of("completed", SeenFinished(c))),
                   Cardinality(Of("failed", SeenFinished(c)))>>
<1>1. /\ \A j \in DOMAIN jobs : j \in 1..MaxJobs
      /\ \A j \in DOMAIN jobs : PageSeen(c)[j] \in Finished => PageSeen(c)[j] = jobs[j].status
  <2>1. \A j \in DOMAIN jobs : j \in 1..MaxJobs
    BY PageSeenFact
  <2>2. None \notin Finished
    BY IngestAssumption DEF Status
  <2>3. ASSUME NEW j \in DOMAIN jobs, PageSeen(c)[j] \in Finished
        PROVE  PageSeen(c)[j] = jobs[j].status
    BY <2>1, <2>2, <2>3, SeenIs
  <2> QED BY <2>1, <2>3
<1>2. \A j \in SeenFinished(c) :
         jobs[j].schema = calls[c].schema /\ jobs[j].status \in Finished
  BY <1>1 DEF SeenFinished
<1>3. ASSUME NEW status \in Finished
      PROVE  {j \in DOMAIN jobs : jobs[j].schema = calls[c].schema /\ PageSeen(c)[j] = status}
                = Of(status, SeenFinished(c))
  BY <1>1, <1>3 DEF SeenFinished, Of
<1> QED BY <1>2, <1>3 DEF count_terminal_jobs_for_schema, SeenFinished, Finished

\* A first round that was read to its last page has seen the older jobs down to
\* the start of the window, or down to where HardCap stops every round.
LEMMA FirstRound ==
    ASSUME TypeOK, NEW c \in Calls, Paging(c), Contiguous(c), LastPage(c),
           \A j \in Old(c) : jobs[j].status \in Finished
    PROVE  \E lo \in Nat :
              /\ \A j \in Old(c) : j >= lo => j \in SeenFinished(c)
              /\ \/ lo = calls[c].since
                 \/ \A n \in Nat : n * PageSize < HardCap =>
                       lo + n * PageSize + PageSize <= Len(jobs) + 1
<1> DEFINE offset == calls[c].round.offset
           since == calls[c].since
           len == Len(jobs)
<1>1. /\ len \in Nat /\ offset \in Nat /\ since \in Nat /\ since >= 1
      /\ PageSize \in Nat \ {0} /\ HardCap \in Nat \ {0}
      /\ DOMAIN jobs = 1..len
  BY PageIs DEF Paging
<1>2. ASSUME NEW j \in Old(c), j >= since, j + offset + PageSize >= len + 1
      PROVE  j \in SeenFinished(c)
  <2>1. PageSeen(c)[j] = jobs[j].status
    BY <1>2, SeenIs
  <2> QED BY <2>1 DEF SeenFinished, Old
<1>3. CASE since + offset + PageSize >= len + 1
  <2>1. ASSUME NEW j \in Old(c), j >= since PROVE j \in SeenFinished(c)
    <3>1. j \in Nat
      BY <1>1 DEF Old
    <3>2. j + offset + PageSize >= len + 1
      <4> HIDE DEF offset, since, len
      <4> QED BY <1>1, <1>3, <2>1, <3>1
    <3> QED BY <1>2, <2>1, <3>2
  <2> QED BY <1>1, <2>1
<1>4. CASE ~(since + offset + PageSize >= len + 1)
  <2> DEFINE lo == len + 1 - offset - PageSize
  <2>1. lo \in Nat /\ lo >= since /\ lo >= 1 /\ lo + offset + PageSize = len + 1
        /\ lo <= len - offset
    <3> HIDE DEF offset, since, len
    <3> QED BY <1>1, <1>4
  <2>2. offset + PageSize >= EffectiveCap(c)
    <3>1. Page(c) = lo..(len - offset)
      <4>1. \A j \in DOMAIN jobs : j \in Page(c) <=>
               j >= since /\ j + offset <= len /\ j + offset + PageSize >= len + 1
        BY PageIs
      <4>2. Page(c) \subseteq 1..len
        BY <1>1, PageSeenFact
      <4>3. \A j \in 1..len : (j >= since /\ j + offset <= len /\ j + offset + PageSize >= len + 1)
                                 <=> (j >= lo /\ j <= len - offset)
        <5> HIDE DEF offset, since
        <5> QED BY <1>1, <2>1
      <4>4. lo..(len - offset) \subseteq 1..len
        <5> HIDE DEF offset, since
        <5> QED BY <1>1, <2>1
      <4>5. \A j \in 1..len : j \in Page(c) <=> j \in lo..(len - offset)
        <5> SUFFICES ASSUME NEW j \in 1..len PROVE j \in Page(c) <=> j >= lo /\ j <= len - offset
          <6> HIDE DEF offset, since, len
          <6> QED BY <1>1, <2>1
        <5> QED BY <1>1, <4>1, <4>3
      <4> HIDE DEF lo, offset
      <4> QED BY <4>2, <4>4, <4>5
    <3>2. Cardinality(Page(c)) = PageSize
      <4> HIDE DEF offset, since, len
      <4>1. lo \in Int /\ len - offset \in Int
        BY <1>1
      <4>2. Cardinality(lo..(len - offset)) = IF lo > len - offset THEN 0
                                                                 ELSE (len - offset) - lo + 1
        <5> HIDE DEF lo
        <5> QED BY <4>1, FS_Interval
      <4> QED BY <1>1, <2>1, <3>1, <4>2
    <3> QED BY <1>1, <3>2 DEF LastPage
  <2>3. HardCap <= offset + PageSize
    <3>1. TotalCount(c) = len - since + 1
      <4>1. {j \in DOMAIN jobs : j >= since} = since..len
        <5>1. \A j \in since..len : j \in 1..len /\ j >= since
          <6> HIDE DEF offset, since, len
          <6> QED BY <1>1
        <5>2. \A j \in 1..len : j >= since => j \in since..len
          <6> HIDE DEF offset, since, len
          <6> QED BY <1>1
        <5> HIDE DEF since, len
        <5> QED BY <1>1, <5>1, <5>2
      <4>2. Cardinality(since..len) = len - since + 1
        <5> HIDE DEF offset, since, len
        <5>1. since <= len
          BY <1>1, <2>1
        <5>2. Cardinality(since..len) = IF since > len THEN 0 ELSE len - since + 1
          BY <1>1, FS_Interval
        <5> QED BY <1>1, <5>1, <5>2
      <4> QED BY <4>1, <4>2 DEF TotalCount
    <3>2. TotalCount(c) > offset + PageSize
      <4> HIDE DEF offset, since, len
      <4> QED BY <1>1, <1>4, <3>1
    <3>3. EffectiveCap(c) >= IF TotalCount(c) <= HardCap THEN TotalCount(c) ELSE HardCap
      BY EffectiveCapFact
    <3>4. EffectiveCap(c) \in Nat /\ TotalCount(c) \in Nat
      BY <1>1, EffectiveCapFact
    <3> HIDE DEF offset, since, len
    <3> QED BY <1>1, <2>2, <3>2, <3>3, <3>4
  <2>4. PICK m \in Nat : offset = m * PageSize
    BY DEF Paging
  <2>5. ASSUME NEW n \in Nat, n * PageSize < HardCap
        PROVE  lo + n * PageSize + PageSize <= len + 1
    <3>1. n * PageSize < m * PageSize + PageSize
      <4> DEFINE x == n * PageSize
                 y == m * PageSize
      <4>1. x \in Nat /\ y \in Nat
        BY <1>1
      <4>2. x < HardCap /\ HardCap <= y + PageSize
        BY <2>3, <2>4, <2>5
      <4>3. PageSize \in Nat /\ HardCap \in Nat
        BY <1>1
      <4>4. \A a, b, p, h \in Nat : a < h /\ h <= b + p => a < b + p
        OBVIOUS
      <4> HIDE DEF x, y
      <4>5. x < y + PageSize
        BY <4>1, <4>2, <4>3, <4>4
      <4> QED BY <4>5 DEF x, y
    <3>2. n <= m
      <4>1. \A a, b \in Nat, p \in Nat \ {0} : a * p < b * p + p => a <= b
        <5> SUFFICES ASSUME NEW a \in Nat, NEW b \in Nat, NEW p \in Nat \ {0}, a >= b + 1
                     PROVE  ~(a * p < b * p + p)
          OBVIOUS
        <5>1. PICK k \in Nat : a = b + 1 + k
          <6>1. a - b - 1 \in Nat /\ a = b + 1 + (a - b - 1)
            OBVIOUS
          <6> QED BY <6>1
        <5>2. a * p = b * p + p + k * p /\ k * p >= 0 /\ b * p \in Nat /\ k * p \in Nat
          BY <5>1
        <5> QED BY <5>2
      <4> QED BY <1>1, <3>1, <4>1
    <3>3. n * PageSize <= m * PageSize
      <4>1. \A a, b \in Nat, p \in Nat : a <= b => a * p <= b * p
        <5> SUFFICES ASSUME NEW a \in Nat, NEW b \in Nat, NEW p \in Nat, a <= b
                     PROVE  a * p <= b * p
          OBVIOUS
        <5>1. PICK k \in Nat : b = a + k
          <6>1. b - a \in Nat /\ b = a + (b - a)
            OBVIOUS
          <6> QED BY <6>1
        <5>2. b * p = a * p + k * p /\ k * p \in Nat /\ a * p \in Nat
          BY <5>1
        <5> QED BY <5>2
      <4> QED BY <1>1, <3>2, <4>1
    <3> DEFINE x == n * PageSize
               y == m * PageSize
    <3>4. x \in Nat /\ y \in Nat /\ x <= y /\ lo + y + PageSize = len + 1
      BY <1>1, <2>1, <2>4, <3>3
    <3>5. lo + x + PageSize <= len + 1
      <4> HIDE DEF x, y, lo, len, offset, since
      <4> QED BY <1>1, <2>1, <3>4
    <3> QED BY <3>5
  <2>6. ASSUME NEW j \in Old(c), j >= lo PROVE j \in SeenFinished(c)
    <3>1. j \in Nat
      BY <1>1 DEF Old
    <3>2. j >= since /\ j + offset + PageSize >= len + 1
      <4> HIDE DEF offset, since, len
      <4> QED BY <1>1, <2>1, <2>6, <3>1
    <3> QED BY <1>2, <3>2
  <2> HIDE DEF lo
  <2> QED BY <2>1, <2>5, <2>6
<1> QED BY <1>3, <1>4

\* A set of finished jobs, and from where on it has all older ones: what base,
\* the baseline of the wait, has counted.
Baselined(c, base) ==
    \E T \in SUBSET DOMAIN jobs, lo \in Nat :
        /\ base = <<Cardinality(Of("completed", T)), Cardinality(Of("failed", T))>>
        /\ \A j \in T : jobs[j].schema = calls[c].schema /\ jobs[j].status \in Finished
        /\ \A j \in Old(c) : j >= lo => j \in T
        /\ \/ lo = calls[c].since
           \/ \A n \in Nat : n * PageSize < HardCap => lo + n * PageSize + PageSize <= Len(jobs) + 1

\* A wait that starts a round anew.
LEMMA KnowsAgain ==
    ASSUME TypeOK, NEW c \in Calls, Knows(c), At(c, "await"), calls[c].kind = "ingest",
           UNCHANGED jobs, NEW base, base \in (Nat \X Nat) \cup {None},
           calls'[c] = [calls[c] EXCEPT !.baseline = base, !.round = NewRound],
           Counts(c) /\ base # None => Baselined(c, base)
    PROVE  Knows(c)'
<1> DEFINE n == calls'[c]
<1>1. calls[c] \in Call
  BY DEF TypeOK
<1>2. /\ n.pc = "await" /\ n.kind = calls[c].kind /\ n.own = calls[c].own
      /\ n.leftover = calls[c].leftover /\ n.schema = calls[c].schema
      /\ n.since = calls[c].since /\ n.baseline = base
      /\ n.round = NewRound
  BY <1>1 DEF Call, At
<1> HIDE DEF n
<1>3. n.round.offset = 0 /\ \A j \in 1..MaxJobs : n.round.seen[j] = None
  BY <1>2 DEF NewRound
<1>4. Old(c)' = Old(c)
  BY <1>2 DEF Old, n
<1>5. Owned(c)'
  BY <1>2, <1>4 DEF Knows, Owned, At, n
<1>6. Polled(c)'
  BY <1>2 DEF Polled, n
<1>7. Fresh(c)'
  BY <1>2 DEF Fresh, n
<1>8. Counts(c)' => Counts(c)
  BY <1>2 DEF Counts, At, n
<1>9. ASSUME Counts(c)' PROVE Paging(c)'
  <2>1. calls[c].since >= 1
    BY <1>8, <1>9 DEF Knows, Counted, Paging
  <2>2. 0 = 0 * PageSize /\ 0 < HardCap
    BY IngestAssumption
  <2>3. n.since >= 1
    BY <1>2, <2>1
  <2> QED BY <1>3, <2>2, <2>3 DEF Paging, n
<1>10. Contiguous(c)'
  <2>1. \A j \in DOMAIN jobs : ~(j > Len(jobs) - 0)
    BY DEF TypeOK
  <2> QED BY <1>3, <1>4, <2>1 DEF Contiguous, Old, n
<1>11. ASSUME Counts(c)', n.baseline # None PROVE Based(c)'
  <2>1. PICK T \in SUBSET DOMAIN jobs, lo \in Nat :
           /\ base = <<Cardinality(Of("completed", T)), Cardinality(Of("failed", T))>>
           /\ \A j \in T : jobs[j].schema = calls[c].schema /\ jobs[j].status \in Finished
           /\ \A j \in Old(c) : j >= lo => j \in T
           /\ \/ lo = calls[c].since
              \/ \A m \in Nat : m * PageSize < HardCap =>
                    lo + m * PageSize + PageSize <= Len(jobs) + 1
    BY <1>2, <1>8, <1>11 DEF Baselined
  <2>2. Of("completed", T)' = Of("completed", T) /\ Of("failed", T)' = Of("failed", T)
    BY DEF Of
  <2> QED BY <1>2, <1>3, <1>4, <2>1, <2>2 DEF Based, n
<1> QED BY <1>5, <1>6, <1>7, <1>9, <1>10, <1>11 DEF Knows, Counted, n

LEMMA BaselinedStill ==
    ASSUME NEW c \in Calls, Based(c)
    PROVE  Baselined(c, calls[c].baseline)
BY DEF Based, Baselined

LEMMA KnowsFailed ==
    ASSUME TypeOK, NEW c \in Calls, ListFails(c), Knows(c)
    PROVE  Knows(c)'
<1> DEFINE base == calls[c].baseline
<1>1. /\ calls[c] \in Call /\ UNCHANGED jobs
      /\ At(c, "await") /\ calls[c].kind = "ingest"
      /\ calls'[c] = [calls[c] EXCEPT !.round = NewRound]
  BY DEF TypeOK, ListFails
<1>2. base \in (Nat \X Nat) \cup {None}
  BY <1>1 DEF Call
<1>3. calls'[c] = [calls[c] EXCEPT !.baseline = base, !.round = NewRound]
  BY <1>1 DEF Call
<1>4. Counts(c) /\ base # None => Baselined(c, base)
  BY BaselinedStill DEF Knows, Counted
<1> HIDE DEF base
<1> QED BY <1>1, <1>2, <1>3, <1>4, KnowsAgain

\* The baseline of a round that is judged.
LEMMA BaseIs ==
    ASSUME TypeOK, NEW c \in Calls, Counts(c), LastPage(c), Knows(c)
    PROVE  Baselined(c, Baseline(c, count_terminal_jobs_for_schema(calls[c].schema, PageSeen(c))))
<1> DEFINE counts == count_terminal_jobs_for_schema(calls[c].schema, PageSeen(c))
<1>1. Paging(c) /\ \A j \in Old(c) : jobs[j].status \in Finished
  BY DEF Knows, Counted, Owned, Counts
<1>2. CASE calls[c].baseline # None
  BY <1>2, BaselinedStill DEF Baseline, Knows, Counted
<1>3. CASE calls[c].baseline = None
  <2>1. Contiguous(c)
    BY <1>3 DEF Knows, Counted
  <2>2. PICK lo \in Nat :
              /\ \A j \in Old(c) : j >= lo => j \in SeenFinished(c)
              /\ \/ lo = calls[c].since
                 \/ \A n \in Nat : n * PageSize < HardCap =>
                       lo + n * PageSize + PageSize <= Len(jobs) + 1
    BY <1>1, <2>1, FirstRound
  <2>3. Baselined(c, counts)
    BY <1>1, <2>2, RoundCounts DEF Baselined
  <2>4. Baseline(c, counts) = counts
    BY <1>3 DEF Baseline
  <2> HIDE DEF counts
  <2> QED BY <2>3, <2>4 DEF counts
<1> QED BY <1>2, <1>3

\* A round that is not enough leaves its counts as the baseline.
LEMMA KnowsJudged ==
    ASSUME TypeOK, NEW c \in Calls, JudgeRound(c), ~At(c, "done")', Knows(c)
    PROVE  Knows(c)'
<1> DEFINE base == Baseline(c, count_terminal_jobs_for_schema(calls[c].schema, PageSeen(c)))
<1>1. /\ calls[c] \in Call /\ UNCHANGED jobs /\ LastPage(c)
      /\ At(c, "await") /\ calls[c].kind = "ingest"
  BY DEF TypeOK, JudgeRound
<1>2. base \in (Nat \X Nat) \cup {None}
  BY <1>1, CountFact DEF Call, Baseline
<1>3. ~\E result \in Result : Return(c, result)
  BY ZenonT(30) DEF Return, TypeOK, At, NewCall
<1>4. calls' = [calls EXCEPT ![c].baseline = base, ![c].round = NewRound]
  BY <1>3 DEF JudgeRound, Result
<1>5. calls'[c] = [calls[c] EXCEPT !.baseline = base, !.round = NewRound]
  <2> HIDE DEF base
  <2> QED BY <1>1, <1>4 DEF TypeOK
<1>6. Counts(c) /\ base # None => Baselined(c, base)
  BY <1>1, BaseIs
<1> HIDE DEF base
<1> QED BY <1>1, <1>2, <1>5, <1>6, KnowsAgain

\* The jobs that a call may say to be done.
OwnFinished(c) == \A j \in calls[c].own : jobs[j].status \in Finished
OwnCompleted(c) == \A j \in calls[c].own : jobs[j].status = "completed"

\* What is left of a call that has returned.
LEMMA ReturnIs ==
    ASSUME TypeOK, NEW c \in Calls, NEW result, Return(c, result)
    PROVE  /\ calls'[c].pc = "done" /\ calls'[c].result = result
           /\ calls'[c].kind = calls[c].kind /\ calls'[c].schema = calls[c].schema
           /\ calls'[c].own = calls[c].own /\ calls'[c].leftover = calls[c].leftover
           /\ \A d \in Calls \ {c} : calls'[d] = calls[d]
<1> DEFINE n == [NewCall EXCEPT !.pc = "done", !.kind = calls[c].kind,
                    !.schema = calls[c].schema, !.own = calls[c].own,
                    !.leftover = calls[c].leftover, !.result = result]
<1>1. calls' = [calls EXCEPT ![c] = n]
  BY DEF Return
<1>2. /\ n.pc = "done" /\ n.result = result
      /\ n.kind = calls[c].kind /\ n.schema = calls[c].schema
      /\ n.own = calls[c].own /\ n.leftover = calls[c].leftover
  BY DEF NewCall
<1> HIDE DEF n
<1> QED BY <1>1, <1>2 DEF TypeOK

\* A call that found no unfinished job returns when its own jobs have finished,
\* and with ok when none of them failed.
LEMMA JudgedRight ==
    ASSUME TypeOK, NEW c \in Calls, Knows(c), JudgeRound(c), ~calls[c].leftover,
           NEW result \in {"ok", "partial"}, Return(c, result)
    PROVE  OwnFinished(c) /\ (result = "ok" => OwnCompleted(c))
<1> DEFINE counts == count_terminal_jobs_for_schema(calls[c].schema, PageSeen(c))
           base == Baseline(c, counts)
<1>1. /\ calls[c] \in Call /\ LastPage(c)
      /\ At(c, "await") /\ calls[c].kind = "ingest"
      /\ Counts(c) /\ Paging(c) /\ Owned(c)
      /\ \A j \in Old(c) : jobs[j].status \in Finished
  BY DEF TypeOK, JudgeRound, Counts, Knows, Counted, Owned
<1>2. /\ calls'[c].pc = "done" /\ calls'[c].result = result
  BY ReturnIs
<1>3. /\ (counts[1] - base[1]) + (counts[2] - base[2]) >= Cardinality(calls[c].own)
      /\ result = "ok" => ~(counts[2] - base[2] > 0)
  <2> HIDE DEF counts, base
  <2>1. IF (counts[1] - base[1]) + (counts[2] - base[2]) >= Cardinality(calls[c].own)
          THEN Return(c, IF (counts[2] - base[2]) > 0 THEN "partial" ELSE "ok")
          ELSE /\ calls' = [calls EXCEPT ![c].baseline = base, ![c].round = NewRound]
               /\ UNCHANGED queues
    BY DEF JudgeRound, counts, base
  <2>2. CASE (counts[1] - base[1]) + (counts[2] - base[2]) >= Cardinality(calls[c].own)
    <3>1. Return(c, IF (counts[2] - base[2]) > 0 THEN "partial" ELSE "ok")
      BY <2>1, <2>2
    <3>2. calls'[c].result = IF (counts[2] - base[2]) > 0 THEN "partial" ELSE "ok"
      BY <3>1, ReturnIs
    <3> QED BY <1>2, <2>2, <3>2
  <2>3. CASE calls' = [calls EXCEPT ![c].baseline = base, ![c].round = NewRound]
    <3>1. calls'[c].pc = calls[c].pc
      BY <1>1, <2>3 DEF TypeOK, Call
    <3> QED BY <1>1, <1>2, <3>1 DEF At
  <2> QED BY <2>1, <2>2, <2>3
<1> DEFINE C2 == Of("completed", SeenFinished(c))
           F2 == Of("failed", SeenFinished(c))
           own == calls[c].own
<1>6. counts = <<Cardinality(C2), Cardinality(F2)>>
  BY <1>1, RoundCounts
<1>7. CASE calls[c].baseline = None
  <2>1. base = counts
    BY <1>7 DEF Baseline
  <2>2. Cardinality(C2) \in Nat /\ Cardinality(F2) \in Nat /\ Cardinality(own) \in Nat
        /\ IsFiniteSet(own)
    <3>1. C2 \in SUBSET DOMAIN jobs /\ F2 \in SUBSET DOMAIN jobs /\ own \in SUBSET DOMAIN jobs
      BY <1>1 DEF Of, SeenFinished, Owned
    <3> HIDE DEF C2, F2, own
    <3> QED BY <3>1, JobSetFact
  <2>3. Cardinality(own) = 0
    <3> HIDE DEF C2, F2, own, base
    <3>1. \A x, y, k \in Nat : (x - x) + (y - y) >= k => k = 0
      OBVIOUS
    <3>2. (Cardinality(C2) - Cardinality(C2)) + (Cardinality(F2) - Cardinality(F2))
             >= Cardinality(own)
      <4> HIDE DEF counts
      <4> QED BY <1>3, <1>6, <2>1 DEF own
    <3> QED BY <2>2, <3>1, <3>2
  <2>4. own = {}
    BY <2>2, <2>3, FS_EmptySet
  <2> QED BY <2>4 DEF OwnFinished, OwnCompleted
<1>8. CASE calls[c].baseline # None
  <2>1. Based(c)
    BY <1>1, <1>8 DEF Knows, Counted
  <2>2. PICK T \in SUBSET DOMAIN jobs, lo \in Nat :
           /\ calls[c].baseline =
                 <<Cardinality(Of("completed", T)), Cardinality(Of("failed", T))>>
           /\ \A j \in T : jobs[j].schema = calls[c].schema /\ jobs[j].status \in Finished
           /\ \A j \in Old(c) : j >= lo => j \in T
           /\ \/ lo = calls[c].since
              \/ \A n \in Nat : n * PageSize < HardCap =>
                    lo + n * PageSize + PageSize <= Len(jobs) + 1
           /\ \A j \in 1..MaxJobs : calls[c].round.seen[j] # None => j >= lo
    BY <2>1 DEF Based
  <2> DEFINE C1 == Of("completed", T)
             F1 == Of("failed", T)
  <2>3. base = <<Cardinality(C1), Cardinality(F1)>>
    BY <1>8, <2>2 DEF Baseline
  <2>4. /\ C1 \in SUBSET DOMAIN jobs /\ F1 \in SUBSET DOMAIN jobs
        /\ C2 \in SUBSET DOMAIN jobs /\ F2 \in SUBSET DOMAIN jobs /\ own \in SUBSET DOMAIN jobs
        /\ C1 \cap F1 = {} /\ C2 \cap F2 = {} /\ C2 \cap F1 = {}
    BY <1>1 DEF Of, SeenFinished, Owned
  <2>5. ASSUME NEW j \in SeenFinished(c), j \notin own PROVE j \in T
    <3>1. /\ j \in DOMAIN jobs /\ j \in 1..MaxJobs /\ j \in Old(c)
          /\ PageSeen(c)[j] # None
      BY <2>5, PageSeenFact, IngestAssumption DEF SeenFinished, Old, Status
    <3>2. j >= lo
      BY <1>1, <2>2, <3>1, SeenFromLo
    <3> QED BY <2>2, <3>1, <3>2
  <2>6. C2 \subseteq C1 \cup own /\ F2 \subseteq F1 \cup own
    BY <2>5 DEF Of
  <2>7. /\ IsFiniteSet(C1) /\ IsFiniteSet(F1) /\ IsFiniteSet(C2) /\ IsFiniteSet(F2)
        /\ IsFiniteSet(own)
    <3> HIDE DEF C1, F1, C2, F2, own
    <3> QED BY <2>4, JobSetFact
  <2>8. /\ (Cardinality(C2) - Cardinality(C1)) + (Cardinality(F2) - Cardinality(F1))
              >= Cardinality(own)
        /\ result = "ok" => ~(Cardinality(F2) - Cardinality(F1) > 0)
    <3> HIDE DEF C1, F1, C2, F2, base, counts
    <3>1. /\ counts[1] = Cardinality(C2) /\ counts[2] = Cardinality(F2)
          /\ base[1] = Cardinality(C1) /\ base[2] = Cardinality(F1)
      BY <1>6, <2>3
    <3> QED BY <1>3, <3>1
  <2>9. own \subseteq C2 \cup F2 /\ (result = "ok" => own \cap F2 = {})
    <3> HIDE DEF C1, F1, C2, F2, own
    <3> QED BY <2>4, <2>6, <2>7, <2>8, CountedAll
  <2> QED BY <2>9 DEF OwnFinished, OwnCompleted, Of, Finished
<1> QED BY <1>7, <1>8

LEMMA KnowsPolled ==
    ASSUME TypeOK, NEW c \in Calls, NEW answered \in SUBSET calls[c].pending,
           PollMessages(c, answered), ~At(c, "done")', Knows(c)
    PROVE  Knows(c)'
<1> DEFINE pending == calls[c].pending \ answered
           failed == calls[c].failed \/ \E j \in answered : jobs[j].status # "completed"
           n == calls'[c]
<1>1. /\ calls[c] \in Call /\ UNCHANGED jobs
      /\ At(c, "await") /\ calls[c].kind = "ingest_raw"
      /\ \A j \in answered : jobs[j].status \in Finished
  BY DEF TypeOK, PollMessages
<1>2. ~\E result \in Result : Return(c, result)
  BY ReturnIs DEF At
<1>3. calls' = [calls EXCEPT ![c].pending = pending, ![c].failed = failed]
  BY <1>2 DEF PollMessages, Result
<1>4. n = [calls[c] EXCEPT !.pending = pending, !.failed = failed]
  <2> HIDE DEF pending, failed
  <2> QED BY <1>1, <1>3 DEF TypeOK
<1>5. failed \in BOOLEAN
  BY <1>1 DEF Call
<1>6. /\ n.pc = "await" /\ n.kind = calls[c].kind /\ n.own = calls[c].own
      /\ n.leftover = calls[c].leftover /\ n.schema = calls[c].schema
      /\ n.pending = pending /\ n.failed = failed
  <2> HIDE DEF pending, failed, n
  <2> QED BY <1>1, <1>4 DEF Call, At
<1> HIDE DEF n
<1>7. Old(c)' = Old(c)
  BY <1>1, <1>6 DEF Old, n
<1>8. Owned(c)'
  BY <1>1, <1>6, <1>7 DEF Knows, Owned, At, n
<1>9. Polled(c)'
  BY <1>1, <1>6 DEF Knows, Polled, At, n
<1> QED BY <1>1, <1>6, <1>8, <1>9 DEF Knows, Counted, Counts, Fresh, n

\* A call of ingest_raw returns when all its messages have been answered.
LEMMA PolledRight ==
    ASSUME TypeOK, NEW c \in Calls, Knows(c), NEW answered \in SUBSET calls[c].pending,
           PollMessages(c, answered), NEW result \in {"ok", "partial"}, Return(c, result)
    PROVE  OwnFinished(c) /\ (result = "ok" => OwnCompleted(c))
<1> DEFINE pending == calls[c].pending \ answered
           failed == calls[c].failed \/ \E j \in answered : jobs[j].status # "completed"
<1>1. /\ calls[c] \in Call
      /\ At(c, "await") /\ calls[c].kind = "ingest_raw"
      /\ \A j \in answered : jobs[j].status \in Finished
      /\ Polled(c)
  BY DEF TypeOK, PollMessages, Knows
<1>2. calls'[c].pc = "done" /\ calls'[c].result = result
  BY ReturnIs
<1>3. pending = {} /\ (result = "ok" => ~failed)
  <2> HIDE DEF pending, failed
  <2>1. IF pending = {}
          THEN Return(c, IF failed THEN "partial" ELSE "ok")
          ELSE /\ calls' = [calls EXCEPT ![c].pending = pending, ![c].failed = failed]
               /\ UNCHANGED queues
    BY DEF PollMessages, pending, failed
  <2>2. CASE pending = {}
    <3>1. Return(c, IF failed THEN "partial" ELSE "ok")
      BY <2>1, <2>2
    <3>2. calls'[c].result = IF failed THEN "partial" ELSE "ok"
      BY <3>1, ReturnIs
    <3> QED BY <1>2, <2>2, <3>2
  <2>3. CASE calls' = [calls EXCEPT ![c].pending = pending, ![c].failed = failed]
    <3>1. calls'[c].pc = calls[c].pc
      BY <1>1, <2>3 DEF TypeOK, Call
    <3> QED BY <1>1, <1>2, <3>1 DEF At
  <2> QED BY <2>1, <2>2, <2>3
<1> QED BY <1>1, <1>3 DEF Polled, OwnFinished, OwnCompleted

-----------------------------------------------------------------------------
(* What a call says of its jobs                                            *)

\* A call that has no result yet says nothing; one that reports ok or partial
\* has waited for all its jobs, and ok means that none of them failed.
Answered(c) ==
    /\ ~At(c, "done") => calls[c].result = None
    /\ /\ calls[c].result \in {"ok", "partial"}
       /\ calls[c].kind = "ingest" => ~calls[c].leftover
       => OwnFinished(c) /\ (calls[c].result = "ok" => OwnCompleted(c))

Truthful(c) == Knows(c) /\ Answered(c)

Truth == Base /\ \A c \in Calls : Truthful(c)

LEMMA TruthfulStill ==
    ASSUME TypeOK, TypeOK', NEW c \in Calls, calls'[c] = calls[c], Grow(c), Truthful(c)
    PROVE  Truthful(c)'
<1>1. Knows(c)'
  BY KnowsStill DEF Truthful
<1>2. /\ \A j \in calls[c].own : j \in DOMAIN jobs
      /\ \A j \in DOMAIN jobs : jobs[j].status \in Finished => jobs'[j].status = jobs[j].status
      /\ Answered(c)
  BY DEF Truthful, Knows, Owned, Grow, Finished
<1>3. Answered(c)'
  BY <1>2 DEF Answered, OwnFinished, OwnCompleted, At, Finished
<1> QED BY <1>1, <1>3 DEF Truthful

\* One call works, the others only see what becomes of the jobs.
LEMMA TruthStep ==
    ASSUME Base, Base', \A c \in Calls : Truthful(c), NEW c \in Calls, Truthful(c)',
           \A d \in Calls \ {c} : calls'[d] = calls[d] /\ Grow(d)
    PROVE  Truth'
<1>1. TypeOK /\ TypeOK'
  BY DEF Base
<1>2. ASSUME NEW d \in Calls \ {c} PROVE Truthful(d)'
  BY <1>1, <1>2, TruthfulStill
<1> QED BY <1>2 DEF Truth

LEMMA GrowStill ==
    ASSUME TypeOK, UNCHANGED jobs, NEW c \in Calls
    PROVE  Grow(c)
BY DEF Grow, TypeOK

\* A call that returns otherwise than after a round that was enough.
LEMMA TruthfulReturn ==
    ASSUME TypeOK, TypeOK', NEW c \in Calls, NEW result, Return(c, result), Truthful(c),
           Len(jobs) <= Len(jobs'),
           \/ result \notin {"ok", "partial"}
           \/ /\ UNCHANGED jobs
              /\ calls[c].kind = "ingest" /\ calls[c].leftover
           \/ /\ UNCHANGED jobs
              /\ OwnFinished(c) /\ (result = "ok" => OwnCompleted(c))
    PROVE  Truthful(c)'
<1>1. /\ calls'[c].pc = "done" /\ calls'[c].result = result
      /\ calls'[c].kind = calls[c].kind
      /\ calls'[c].own = calls[c].own /\ calls'[c].leftover = calls[c].leftover
  BY ReturnIs
<1>2. Knows(c)'
  BY <1>1, KnowsLittle DEF Truthful, At
<1>3. Answered(c)'
  BY <1>1 DEF Answered, OwnFinished, OwnCompleted, At
<1> QED BY <1>2, <1>3 DEF Truthful

\* The steps of a call before its request.
LEMMA AcquireTruthful ==
    ASSUME Base, Base', \A d \in Calls : Truthful(d), NEW c \in Calls,
           NEW kind \in {"ingest", "ingest_raw"}, NEW s \in Schemas, NEW texts \in Batches,
           acquire_ingest_serializer(c, kind, s, texts)
    PROVE  Truth'
<1>1. /\ TypeOK /\ TypeOK' /\ UNCHANGED jobs
      /\ calls' = [calls EXCEPT ![c] = [NewCall EXCEPT !.pc = "waiting", !.kind = kind,
                      !.schema = s, !.lock = lock_for(c, s), !.texts = texts]]
  BY DEF Base, acquire_ingest_serializer
<1>2. /\ calls'[c].pc = "waiting" /\ calls'[c].own = {} /\ calls'[c].round = NewRound
      /\ calls'[c].baseline = None /\ calls'[c].result = None
      /\ \A d \in Calls \ {c} : calls'[d] = calls[d]
  BY <1>1 DEF TypeOK, NewCall
<1>3. Knows(c)'
  BY <1>1, <1>2, KnowsLittle DEF TypeOK, At, Truthful
<1>4. Answered(c)'
  BY <1>2, IngestAssumption DEF Answered, Result
<1> QED BY <1>1, <1>2, <1>3, <1>4, GrowStill, TruthStep DEF Truthful

LEMMA PrepareTruthful ==
    ASSUME Base, Base', \A d \in Calls : Truthful(d), NEW c \in Calls,
           collect_dedup_catalogue(c) \/ PrepareTexts(c)
    PROVE  Truth'
<1>1. TypeOK /\ TypeOK' /\ UNCHANGED jobs /\ calls[c] \in Call /\ Truthful(c)
  BY DEF Base, TypeOK, collect_dedup_catalogue, PrepareTexts
<1>2. CASE \E result \in Result \ {"ok", "partial"} : Return(c, result)
  <2>1. Truthful(c)'
    BY <1>1, <1>2, TruthfulReturn DEF TypeOK
  <2>2. \A d \in Calls \ {c} : calls'[d] = calls[d]
    BY <1>1, <1>2, ReturnIs
  <2> QED BY <1>1, <2>1, <2>2, GrowStill, TruthStep
<1>3. CASE /\ calls'[c].pc \in {"scan", "send"} /\ calls[c].pc \in {"waiting", "scan"}
           /\ calls'[c].own = calls[c].own /\ calls'[c].round = calls[c].round
           /\ calls'[c].baseline = calls[c].baseline /\ calls'[c].result = calls[c].result
           /\ \A d \in Calls \ {c} : calls'[d] = calls[d]
  <2>1. Knows(c)'
    BY <1>1, <1>3, KnowsLittle DEF TypeOK, At, Truthful, Knows, Fresh
  <2>2. Answered(c)'
    BY <1>1, <1>3, IngestAssumption DEF Truthful, Answered, Result, At
  <2> QED BY <1>1, <1>3, <2>1, <2>2, GrowStill, TruthStep DEF Truthful
<1>4. CASE collect_dedup_catalogue(c)
  <2>1. PICK personal, shared :
           calls' = [calls EXCEPT ![c].pc = "scan", ![c].personal = personal, ![c].shared = shared]
    BY <1>4 DEF collect_dedup_catalogue
  <2>2. /\ calls'[c] = [calls[c] EXCEPT !.pc = "scan", !.personal = personal, !.shared = shared]
        /\ \A d \in Calls \ {c} : calls'[d] = calls[d]
    BY <1>1, <2>1 DEF TypeOK
  <2>3. calls[c].pc = "waiting"
    BY <1>4 DEF collect_dedup_catalogue, At
  <2> QED BY <1>1, <1>3, <2>2, <2>3 DEF Call
<1>5. CASE PrepareTexts(c) /\ ~Return(c, "blocked")
  <2>1. PICK texts :
           calls' = [calls EXCEPT ![c].pc = "send", ![c].texts = texts,
                                  ![c].personal = {}, ![c].shared = {}]
    BY <1>5 DEF PrepareTexts
  <2>2. /\ calls'[c] = [calls[c] EXCEPT !.pc = "send", !.texts = texts, !.personal = {}, !.shared = {}]
        /\ \A d \in Calls \ {c} : calls'[d] = calls[d]
    BY <1>1, <2>1 DEF TypeOK
  <2>3. calls[c].pc = "scan"
    BY <1>5 DEF PrepareTexts, At
  <2> QED BY <1>1, <1>3, <2>2, <2>3 DEF Call
<1> QED BY <1>2, <1>4, <1>5 DEF Result

\* Jobs of one schema are added while no other call on it waits for its own.
LEMMA GrowSent ==
    ASSUME Base, Base', NEW c \in Calls, At(c, "send"),
           jobs' = jobs \/ jobs' = jobs \o Enqueued(calls[c]), NEW d \in Calls \ {c}
    PROVE  Grow(d) /\ Len(jobs) <= Len(jobs')
<1>1. TypeOK /\ TypeOK' /\ OneIngestPerSchema
  BY LocksExclude DEF Base
<1>2. CASE jobs' = jobs
  BY <1>1, <1>2, GrowStill DEF TypeOK
<1>3. CASE jobs' = jobs \o Enqueued(calls[c])
  <2>1. calls[c].schema \in Schemas
    BY DEF Base, Locks, Locals, At, Active
  <2>2. /\ Len(jobs) \in Nat /\ Len(calls[c].texts) \in Nat
        /\ DOMAIN jobs = 1..Len(jobs)
        /\ DOMAIN jobs' = 1..(Len(jobs) + Len(calls[c].texts))
        /\ Len(jobs') = Len(jobs) + Len(calls[c].texts)
        /\ \A j \in 1..(Len(jobs) + Len(calls[c].texts)) :
              jobs'[j] = IF j <= Len(jobs) THEN jobs[j] ELSE Enqueued(calls[c])[j - Len(jobs)]
        /\ \A i \in 1..Len(calls[c].texts) : Enqueued(calls[c])[i].schema = calls[c].schema
    <3>1. Len(jobs) \in Nat /\ DOMAIN jobs = 1..Len(jobs) /\ DOMAIN jobs' = 1..Len(jobs')
      BY <1>1 DEF TypeOK
    <3> QED BY <1>1, <1>3, <2>1, <3>1, EnqueuedFact
  <2>3. \A j \in DOMAIN jobs : jobs'[j] = jobs[j]
    BY <2>2
  <2>4. Len(jobs) <= Len(jobs')
    BY <2>2
  <2>5. ASSUME At(d, "await"), NEW j \in DOMAIN jobs' \ DOMAIN jobs
        PROVE  jobs'[j].schema # calls[d].schema
    <3>1. ~(j <= Len(jobs)) /\ j \in 1..(Len(jobs) + Len(calls[c].texts))
          /\ j - Len(jobs) \in 1..Len(calls[c].texts)
      BY <2>2
    <3>2. jobs'[j].schema = calls[c].schema
      BY <2>2, <3>1
    <3>3. calls[c].schema # calls[d].schema
      BY <1>1, <2>5 DEF OneIngestPerSchema, Working, At
    <3> QED BY <3>2, <3>3
  <2> QED BY <2>3, <2>4, <2>5 DEF Grow
<1> QED BY <1>2, <1>3

LEMMA SendTruthful ==
    ASSUME Base, Base', \A d \in Calls : Truthful(d), NEW c \in Calls, SendRequest(c)
    PROVE  Truth'
<1>1. /\ TypeOK /\ TypeOK' /\ calls[c] \in Call /\ Truthful(c)
      /\ At(c, "send") /\ jobs' = jobs \o Enqueued(calls[c])
  BY DEF Base, TypeOK, SendRequest
<1>2. Knows(c)'
  BY <1>1, KnowsSent DEF Truthful
<1>3. /\ calls'[c].pc = "await" /\ calls'[c].result = calls[c].result
      /\ \A d \in Calls \ {c} : calls'[d] = calls[d]
  <2>1. PICK own, pending, since :
          calls' = [calls EXCEPT ![c] = [calls[c] EXCEPT !.pc = "await", !.own = own,
              !.texts = <<>>, !.pending = pending, !.since = since,
              !.leftover = Leftover(calls[c].schema)]]
    <3> DEFINE mine == (Len(jobs) + 1)..(Len(jobs) + Len(calls[c].texts))
               asked == IF calls[c].kind = "ingest_raw" THEN mine ELSE {}
               starts == IF calls[c].kind = "ingest"
                           THEN 1..(Len(jobs) + 1) \cup {(Len(jobs) + 1) + Len(calls[c].texts)}
                           ELSE {1}
    <3>1. \E since \in starts :
            calls' = [calls EXCEPT ![c] = [calls[c] EXCEPT !.pc = "await", !.own = mine,
                !.texts = <<>>, !.pending = asked, !.since = since,
                !.leftover = Leftover(calls[c].schema)]]
      BY DEF SendRequest
    <3> HIDE DEF mine, asked, starts
    <3> QED BY <3>1
  <2> QED BY <1>1, <2>1 DEF TypeOK, Call
<1>4. Answered(c)'
  BY <1>1, <1>3, IngestAssumption DEF Truthful, Answered, Result, At
<1>5. \A d \in Calls \ {c} : Grow(d)
  BY <1>1, GrowSent
<1> QED BY <1>2, <1>3, <1>4, <1>5, TruthStep DEF Truthful

LEMMA SendFailsTruthful ==
    ASSUME Base, Base', \A d \in Calls : Truthful(d), NEW c \in Calls,
           NEW accepted \in BOOLEAN, SendFails(c, accepted)
    PROVE  Truth'
<1>1. /\ TypeOK /\ TypeOK' /\ Truthful(c)
      /\ At(c, "send") /\ (jobs' = jobs \/ jobs' = jobs \o Enqueued(calls[c]))
      /\ Return(c, "error")
  BY DEF Base, SendFails
<1>2. \A d \in Calls \ {c} : Grow(d)
  BY <1>1, GrowSent
<1>3. Len(jobs) <= Len(jobs')
  <2>1. calls[c].schema \in Schemas
    BY DEF Base, Locks, Locals, SendFails, At, Active
  <2>2. Len(jobs) \in Nat /\ Len(calls[c].texts) \in Nat
        /\ Len(jobs \o Enqueued(calls[c])) = Len(jobs) + Len(calls[c].texts)
    BY <1>1, <2>1, EnqueuedFact
  <2> QED BY <1>1, <2>2
<1>4. Truthful(c)'
  BY <1>1, <1>3, TruthfulReturn
<1>5. \A d \in Calls \ {c} : calls'[d] = calls[d]
  BY <1>1, ReturnIs
<1> QED BY <1>2, <1>4, <1>5, TruthStep

\* A step of the two waits that does not end them.
LEMMA WaitGoesOn ==
    ASSUME TypeOK, NEW c \in Calls,
           \/ ListPage(c)
           \/ JudgeRound(c)
           \/ ListFails(c)
           \/ \E answered \in SUBSET calls[c].pending : PollMessages(c, answered),
           \/ ListPage(c) \/ ListFails(c)
           \/ ~\E result \in {"ok", "partial"} : Return(c, result)
    PROVE  /\ calls'[c].pc = "await" /\ calls'[c].own = calls[c].own
           /\ calls'[c].schema = calls[c].schema /\ calls'[c].leftover = calls[c].leftover
           /\ calls'[c].result = calls[c].result
           /\ \A d \in Calls \ {c} : calls'[d] = calls[d]
<1>1. calls[c] \in Call /\ At(c, "await")
  BY DEF TypeOK, ListPage, JudgeRound, ListFails, PollMessages
<1>2. CASE \E round : calls' = [calls EXCEPT ![c].round = round]
  BY <1>1, <1>2 DEF TypeOK, Call, At
<1>3. CASE \E base, round : calls' = [calls EXCEPT ![c].baseline = base, ![c].round = round]
  BY <1>1, <1>3 DEF TypeOK, Call, At
<1>4. CASE \E pending, failed :
              calls' = [calls EXCEPT ![c].pending = pending, ![c].failed = failed]
  BY <1>1, <1>4 DEF TypeOK, Call, At
<1>5. CASE ListPage(c)
  <2>1. calls' = [calls EXCEPT ![c].round = [seen |-> PageSeen(c), cap |-> EffectiveCap(c),
                                        offset |-> calls[c].round.offset + PageSize]]
    BY <1>1, <1>5 DEF ListPage, TypeOK
  <2> QED BY <1>2, <2>1
<1>6. CASE ListFails(c)
  BY <1>2, <1>6 DEF ListFails
<1>7. ASSUME ~\E result \in {"ok", "partial"} : Return(c, result), JudgeRound(c)
      PROVE  \E base, round : calls' = [calls EXCEPT ![c].baseline = base, ![c].round = round]
  BY <1>7 DEF JudgeRound
<1>8. ASSUME ~\E result \in {"ok", "partial"} : Return(c, result),
             NEW answered \in SUBSET calls[c].pending, PollMessages(c, answered)
      PROVE  \E pending, failed :
                calls' = [calls EXCEPT ![c].pending = pending, ![c].failed = failed]
  BY <1>8 DEF PollMessages
<1> QED BY <1>3, <1>4, <1>5, <1>6, <1>7, <1>8

\* The steps of the two waits.
LEMMA WaitTruthful ==
    ASSUME Base, Base', \A d \in Calls : Truthful(d), NEW c \in Calls,
           \/ ListPage(c)
           \/ JudgeRound(c)
           \/ ListFails(c)
           \/ \E answered \in SUBSET calls[c].pending : PollMessages(c, answered)
    PROVE  Truth'
<1>1. /\ TypeOK /\ TypeOK' /\ UNCHANGED jobs /\ calls[c] \in Call /\ Truthful(c)
      /\ At(c, "await")
  BY DEF Base, TypeOK, ListPage, JudgeRound, ListFails, PollMessages
<1>2. CASE \E result \in {"ok", "partial"} : Return(c, result)
  <2>1. PICK result \in {"ok", "partial"} : Return(c, result)
    BY <1>2
  <2>2. calls'[c].pc = "done" /\ \A d \in Calls \ {c} : calls'[d] = calls[d]
    BY <1>1, <2>1, ReturnIs
  <2>3. \/ JudgeRound(c)
        \/ \E answered \in SUBSET calls[c].pending : PollMessages(c, answered)
    BY <1>1, <2>2, WaitGoesOn
  <2>4. CASE JudgeRound(c) /\ calls[c].leftover
    <3>1. calls[c].kind = "ingest"
      BY <2>4 DEF JudgeRound
    <3>2. Truthful(c)'
      BY <1>1, <2>1, <2>4, <3>1, TruthfulReturn DEF TypeOK
    <3> QED BY <1>1, <2>2, <3>2, GrowStill, TruthStep
  <2>5. CASE OwnFinished(c) /\ (result = "ok" => OwnCompleted(c))
    <3>1. Truthful(c)'
      BY <1>1, <2>1, <2>5, TruthfulReturn DEF TypeOK
    <3> QED BY <1>1, <2>2, <3>1, GrowStill, TruthStep
  <2>6. ASSUME JudgeRound(c), ~calls[c].leftover
        PROVE  OwnFinished(c) /\ (result = "ok" => OwnCompleted(c))
    BY <1>1, <2>1, <2>6, JudgedRight DEF Truthful
  <2>7. ASSUME NEW answered \in SUBSET calls[c].pending, PollMessages(c, answered)
        PROVE  OwnFinished(c) /\ (result = "ok" => OwnCompleted(c))
    BY <1>1, <2>1, <2>7, PolledRight DEF Truthful
  <2> QED BY <2>3, <2>4, <2>5, <2>6, <2>7
<1>3. CASE ~\E result \in {"ok", "partial"} : Return(c, result)
  <2>1. /\ calls'[c].pc = "await" /\ calls'[c].result = calls[c].result
        /\ \A d \in Calls \ {c} : calls'[d] = calls[d]
    BY <1>1, <1>3, WaitGoesOn
  <2>2. Knows(c)'
    BY <1>1, <2>1, KnowsListed, KnowsFailed, KnowsJudged, KnowsPolled DEF Truthful, At
  <2>3. Answered(c)'
    BY <1>1, <2>1, IngestAssumption DEF Truthful, Answered, Result, At
  <2> QED BY <1>1, <2>1, <2>2, <2>3, GrowStill, TruthStep DEF Truthful
<1> QED BY <1>2, <1>3

LEMMA GiveUpTruthful ==
    ASSUME Base, Base', \A d \in Calls : Truthful(d), NEW c \in Calls, AwaitTimeout(c) \/ Abort(c)
    PROVE  Truth'
<1>1. /\ TypeOK /\ TypeOK' /\ UNCHANGED jobs /\ Truthful(c)
      /\ Return(c, "timeout") \/ Return(c, "error")
  BY DEF Base, AwaitTimeout, Abort
<1>2. Truthful(c)'
  <2>1. PICK result \in {"timeout", "error"} : Return(c, result)
    BY <1>1
  <2>2. result \notin {"ok", "partial"} /\ Len(jobs) <= Len(jobs')
    BY <1>1 DEF TypeOK
  <2> QED BY <1>1, <2>1, <2>2, TruthfulReturn
<1>3. \A d \in Calls \ {c} : calls'[d] = calls[d]
  BY <1>1, ReturnIs
<1> QED BY <1>1, <1>2, <1>3, GrowStill, TruthStep

\* Vegapunk works.
LEMMA JobsTruthful ==
    ASSUME Base, Base', \A d \in Calls : Truthful(d),
           \/ \E j \in DOMAIN jobs, status \in Finished : JobFinishes(j, status)
           \/ OtherTenantIngests
    PROVE  Truth'
<1>1. TypeOK /\ TypeOK' /\ UNCHANGED calls
  BY DEF Base, JobFinishes, OtherTenantIngests
<1>2. ASSUME NEW c \in Calls PROVE Grow(c)
  <2>1. CASE \E j \in DOMAIN jobs, status \in Finished : JobFinishes(j, status)
    <3>1. PICK j \in DOMAIN jobs, status \in Finished : JobFinishes(j, status)
      BY <2>1
    <3>2. jobs \in Seq(Job) /\ jobs[j] \in Job /\ jobs[j].status = "pending"
          /\ jobs' = [jobs EXCEPT ![j].status = status]
      <4>1. jobs \in Seq(Job)
        BY <1>1 DEF TypeOK
      <4> QED BY <3>1, <4>1 DEF JobFinishes
    <3>3. /\ Len(jobs') = Len(jobs) /\ DOMAIN jobs' = DOMAIN jobs
          /\ \A i \in DOMAIN jobs : jobs'[i].schema = jobs[i].schema
                /\ jobs'[i].status = IF i = j THEN status ELSE jobs[i].status
      <4> DEFINE e == [jobs[j] EXCEPT !.status = status]
      <4>1. e.schema = jobs[j].schema /\ e.status = status
        BY <3>2 DEF Job
      <4>2. jobs' = [jobs EXCEPT ![j] = e]
        BY <3>2
      <4> HIDE DEF e
      <4> QED BY <3>2, <4>1, <4>2
    <3>4. Len(jobs) \in Nat
      BY <3>2
    <3> QED BY <3>2, <3>3, <3>4 DEF Grow
  <2>2. CASE OtherTenantIngests
    <3> DEFINE e == [schema |-> None, name |-> None, status |-> "pending"]
    <3>1. jobs \in Seq(Job) /\ jobs' = Append(jobs, e) /\ Len(jobs) \in Nat
      BY <1>1, <2>2 DEF TypeOK, OtherTenantIngests
    <3>2. e.schema = None /\ e \in Job
      BY DEF Job, Status
    <3> HIDE DEF e
    <3>3. /\ Len(jobs') = Len(jobs) + 1 /\ DOMAIN jobs = 1..Len(jobs)
          /\ DOMAIN jobs' = 1..(Len(jobs) + 1)
          /\ \A j \in DOMAIN jobs : jobs'[j] = jobs[j]
          /\ jobs'[Len(jobs) + 1] = e
      BY <3>1, <3>2
    <3>4. \A j \in DOMAIN jobs' \ DOMAIN jobs : j = Len(jobs) + 1
      BY <3>1, <3>3
    <3>5. At(c, "await") => calls[c].schema # None
      BY IngestAssumption DEF Base, Locks, Locals, At, Active
    <3>6. Len(jobs) <= Len(jobs')
      BY <3>1, <3>3
    <3> QED BY <3>2, <3>3, <3>4, <3>5, <3>6 DEF Grow
  <2> QED BY <2>1, <2>2
<1> QED BY <1>1, <1>2, TruthfulStill DEF Truth

LEMMA TruthInit == Init => Truth
<1> SUFFICES ASSUME Init PROVE Truth
  OBVIOUS
<1>1. \A c \in Calls : calls[c] = NewCall
  BY DEF Init
<1>2. \A c \in Calls : Truthful(c)
  BY <1>1, IngestAssumption DEF Truthful, Knows, Owned, Polled, Counted, Counts, Fresh, Answered,
     NewCall, At, Result
<1> QED BY <1>2, BaseInit DEF Truth

LEMMA TruthNext == Truth /\ [Next]_vars => Truth'
<1> SUFFICES ASSUME Truth, [Next]_vars PROVE Truth'
  OBVIOUS
<1>1. Base /\ Base' /\ \A c \in Calls : Truthful(c)
  BY BaseStep DEF Truth
<1>2. CASE UNCHANGED vars
  <2>1. /\ TypeOK /\ TypeOK' /\ UNCHANGED jobs /\ UNCHANGED calls
    BY <1>1, <1>2 DEF Base, vars
  <2> QED BY <1>1, <2>1, GrowStill, TruthfulStill DEF Truth
<1> QED BY <1>1, <1>2, AcquireTruthful, PrepareTruthful, SendTruthful, SendFailsTruthful,
           WaitTruthful, GiveUpTruthful, JobsTruthful DEF Next

\* A call that reports ok has its entities in the graph (OkMeansExtracted):
\* await_extraction_jobs_for_schema counts against a baseline that has every
\* older job a later round can reach, whatever jobs of others come in between
\* and push its pages about; await_msg_ids_complete asks for each message.
THEOREM OkIsExtracted == Spec => []OkMeansExtracted
<1>1. Truth => OkMeansExtracted
  BY DEF Truth, Truthful, Answered, OwnCompleted, OkMeansExtracted
<1> QED BY <1>1, TruthInit, TruthNext, PTL DEF Spec

-----------------------------------------------------------------------------
(* One spelling of each entity                                             *)

\* The names of the shared schema that apply_llm_canonicalize may put in.
LlmNames == IF Canonicalizer THEN SharedNames ELSE {}

OneSpelling(names) == \A m, n \in names : Key[m] = Key[n] => m = n

Pending(s) == {j \in DOMAIN jobs : jobs[j].schema = s /\ jobs[j].status = "pending"}

Texts(c) == {calls[c].texts[i] : i \in DOMAIN calls[c].texts}

\* A call on an undisturbed schema works as if it were alone: what is being
\* extracted is what one call waits for, the catalogue of a call that prepares
\* its texts is the graph, and the graph, the shared names, the names on their
\* way and the texts that are about to be sent have one spelling of each entity.
Single(s) ==
    /\ \A j \in Pending(s) :
          \E c \in Calls : At(c, "await") /\ calls[c].schema = s /\ j \in calls[c].own
    /\ OneSpelling(nodes[s] \cup LlmNames \cup {jobs[j].name : j \in Pending(s)})
    /\ \A c \in Calls : calls[c].schema = s =>
          /\ At(c, "await") => ~calls[c].leftover
          /\ At(c, "scan") => calls[c].personal = nodes[s] /\ calls[c].shared = SharedNames
          /\ At(c, "send") => OneSpelling(nodes[s] \cup LlmNames \cup Texts(c))

Singles == \A s \in Schemas : ~disturbed[s] => Single(s)

\* What PrepareTexts makes of texts that are not Mixed: names of the catalogue,
\* or texts that nothing in the catalogue is alike.
LEMMA PreparedOnce ==
    ASSUME NEW c \in Calls, NEW texts, DOMAIN texts = DOMAIN calls[c].texts,
           \A i \in DOMAIN texts : \E n \in scan_text(calls[c], calls[c].texts[i]) :
              texts[i] \in apply_llm_canonicalize(calls[c], n),
           ~\E i \in DOMAIN calls[c].texts : BlockedByShared(calls[c], calls[c].texts[i]),
           ~Mixed(calls[c].texts),
           calls[c].shared = SharedNames, OneSpelling(calls[c].personal \cup LlmNames)
    PROVE  OneSpelling(calls[c].personal \cup LlmNames \cup {texts[i] : i \in DOMAIN texts})
<1> DEFINE known == calls[c].personal \cup LlmNames
           New(n) == /\ n \notin Unscannable
                     /\ Alike(n, calls[c].personal) = {} /\ Alike(n, SharedNames) = {}
<1>1. ASSUME NEW i \in DOMAIN texts
      PROVE  texts[i] \in known \/ (texts[i] = calls[c].texts[i] /\ New(texts[i]))
  <2> DEFINE t == calls[c].texts[i]
  <2>1. t \notin Unscannable /\ Alike(t, SharedNames) = {}
    BY DEF Mixed, BlockedByShared
  <2>2. PICK n \in scan_text(calls[c], t) : texts[i] \in apply_llm_canonicalize(calls[c], n)
    OBVIOUS
  <2>3. texts[i] = n \/ texts[i] \in known
    BY <2>2 DEF apply_llm_canonicalize, should_run_llm_canonicalize, LlmNames
  <2>4. n \in known \/ (n = t /\ Alike(t, calls[c].personal) = {})
    BY <2>1, <2>2 DEF scan_text, Alike
  <2> QED BY <2>1, <2>3, <2>4
<1>2. ASSUME NEW n, New(n), NEW m \in known PROVE Key[m] # Key[n]
  BY <1>2 DEF Alike, LlmNames
<1>3. \A i, j \in DOMAIN texts :
         Key[calls[c].texts[i]] = Key[calls[c].texts[j]] => calls[c].texts[i] = calls[c].texts[j]
  BY DEF Mixed
<1>4. \A m, n \in known : Key[m] = Key[n] => m = n
  BY DEF OneSpelling
<1> HIDE DEF known, New
<1>5. \A m, n \in known \cup {texts[i] : i \in DOMAIN texts} : Key[m] = Key[n] => m = n
  <2> SUFFICES ASSUME NEW m \in known \cup {texts[i] : i \in DOMAIN texts},
                      NEW n \in known \cup {texts[i] : i \in DOMAIN texts}, Key[m] = Key[n]
               PROVE  m = n
    OBVIOUS
  <2>1. \/ m \in known
        \/ \E i \in DOMAIN texts : m = texts[i] /\ texts[i] = calls[c].texts[i] /\ New(m)
    BY <1>1
  <2>2. \/ n \in known
        \/ \E i \in DOMAIN texts : n = texts[i] /\ texts[i] = calls[c].texts[i] /\ New(n)
    BY <1>1
  <2> QED BY <1>2, <1>3, <1>4, <2>1, <2>2
<1> QED BY <1>5 DEF OneSpelling, known

\* A schema on whose graph and pending jobs nothing happens, while one call
\* moves on: it may not drop unfinished jobs of its own.
LEMMA SingleStill ==
    ASSUME NEW s \in Schemas, Single(s), nodes'[s] = nodes[s], Pending(s)' = Pending(s),
           \A j \in Pending(s) : jobs'[j] = jobs[j],
           NEW c \in Calls, \A d \in Calls \ {c} : calls'[d] = calls[d],
           \/ calls'[c] = calls[c]
           \/ /\ calls[c].schema = s /\ At(c, "await") =>
                    \/ \A j \in calls[c].own : j \notin Pending(s)
                    \/ At(c, "await")' /\ calls'[c].own = calls[c].own /\ calls'[c].schema = s
              /\ calls'[c].schema = s =>
                    /\ At(c, "await")' => ~calls'[c].leftover
                    /\ At(c, "scan")' => calls'[c].personal = nodes[s]
                                         /\ calls'[c].shared = SharedNames
                    /\ At(c, "send")' => OneSpelling(nodes[s] \cup LlmNames \cup Texts(c)')
    PROVE  Single(s)'
<1>1. OneSpelling(nodes'[s] \cup LlmNames \cup {jobs'[j].name : j \in Pending(s)'})
  <2>1. {jobs'[j].name : j \in Pending(s)'} = {jobs[j].name : j \in Pending(s)}
    <3> DEFINE P == Pending(s)
    <3>1. Pending(s)' = P /\ \A j \in P : jobs'[j] = jobs[j]
      OBVIOUS
    <3> HIDE DEF P
    <3>2. {jobs'[j].name : j \in P} = {jobs[j].name : j \in P}
      BY <3>1
    <3> QED BY <3>1, <3>2 DEF P
  <2>2. OneSpelling(nodes[s] \cup LlmNames \cup {jobs[j].name : j \in Pending(s)})
    BY DEF Single
  <2> QED BY <2>1, <2>2
<1>2. ASSUME NEW j \in Pending(s)'
      PROVE  \E d \in Calls : At(d, "await")' /\ calls'[d].schema = s /\ j \in calls'[d].own
  <2>1. PICK d \in Calls : At(d, "await") /\ calls[d].schema = s /\ j \in calls[d].own
    BY <1>2 DEF Single
  <2>2. CASE d = c
    BY <1>2, <2>1, <2>2 DEF At
  <2>3. CASE d # c
    BY <2>1, <2>3 DEF At
  <2> QED BY <2>2, <2>3
<1>3. ASSUME NEW d \in Calls, calls'[d].schema = s
      PROVE  /\ At(d, "await")' => ~calls'[d].leftover
             /\ At(d, "scan")' => calls'[d].personal = nodes'[s] /\ calls'[d].shared = SharedNames
             /\ At(d, "send")' => OneSpelling(nodes'[s] \cup LlmNames \cup Texts(d)')
  <2>1. CASE calls'[d] = calls[d]
    <3>1. Texts(d)' = Texts(d)
      BY <2>1 DEF Texts
    <3>2. /\ At(d, "await") => ~calls[d].leftover
          /\ At(d, "scan") => calls[d].personal = nodes[s] /\ calls[d].shared = SharedNames
          /\ At(d, "send") => OneSpelling(nodes[s] \cup LlmNames \cup Texts(d))
      BY <1>3, <2>1 DEF Single
    <3> QED BY <2>1, <3>1, <3>2 DEF At
  <2>2. CASE calls'[d] # calls[d]
    BY <1>3, <2>2
  <2> QED BY <2>1, <2>2
<1> QED BY <1>1, <1>2, <1>3 DEF Single, OneSpelling

\* While a call prepares its texts or sends them, nothing of its schema is pending.
LEMMA NonePending ==
    ASSUME Locks, NEW c \in Calls, NEW s \in Schemas, Single(s), calls[c].schema = s,
           calls[c].pc \in {"scan", "send"}
    PROVE  Pending(s) = {}
<1>1. ASSUME NEW d \in Calls, At(d, "await") PROVE calls[d].schema # s
  BY <1>1, LocksExclude DEF OneIngestPerSchema, Working, At
<1> QED BY <1>1 DEF Single

\* No step takes a disturbance back.
LEMMA DisturbIs ==
    ASSUME TypeOK, NEW s \in Schemas, ~disturbed'[s],
           \/ UNCHANGED disturbed
           \/ \E t \in Schemas, really \in BOOLEAN : Disturb(t, really)
    PROVE  ~disturbed[s] /\ \A really : Disturb(s, really) => ~really
BY DEF Disturb, TypeOK

LEMMA PendingStill ==
    ASSUME UNCHANGED jobs, NEW s
    PROVE  Pending(s)' = Pending(s) /\ \A j \in Pending(s) : jobs'[j] = jobs[j]
BY DEF Pending

\* A call returns and leaves no unfinished job of its own on s.
LEMMA ReturnSingle ==
    ASSUME TypeOK, NEW c \in Calls, NEW result, Return(c, result), NEW s \in Schemas, Single(s),
           nodes'[s] = nodes[s], Pending(s)' = Pending(s),
           \A j \in Pending(s) : jobs'[j] = jobs[j],
           At(c, "await") /\ calls[c].schema = s => OwnFinished(c)
    PROVE  Single(s)'
<1>1. calls'[c].pc = "done" /\ \A d \in Calls \ {c} : calls'[d] = calls[d]
  BY ReturnIs
<1>2. OwnFinished(c) => \A j \in calls[c].own : j \notin Pending(s)
  BY DEF OwnFinished, Pending, Finished
<1>3. ~At(c, "await")' /\ ~At(c, "scan")' /\ ~At(c, "send")'
  BY <1>1 DEF At
<1>4. calls[c].schema = s /\ At(c, "await") => \A j \in calls[c].own : j \notin Pending(s)
  BY <1>2
<1> QED BY <1>1, <1>3, <1>4, SingleStill

LEMMA AcquireSingle ==
    ASSUME Base, NEW c \in Calls, NEW kind \in {"ingest", "ingest_raw"},
           NEW t \in Schemas, NEW texts \in Batches,
           acquire_ingest_serializer(c, kind, t, texts), NEW s \in Schemas, Single(s)
    PROVE  Single(s)'
<1>1. /\ TypeOK /\ UNCHANGED jobs /\ nodes'[s] = nodes[s] /\ At(c, "unsent")
      /\ calls' = [calls EXCEPT ![c] = [NewCall EXCEPT !.pc = "waiting", !.kind = kind,
                      !.schema = t, !.lock = lock_for(c, t), !.texts = texts]]
  BY DEF Base, acquire_ingest_serializer
<1>2. /\ calls'[c].pc = "waiting" /\ \A d \in Calls \ {c} : calls'[d] = calls[d]
  BY <1>1 DEF TypeOK, NewCall
<1>3. /\ ~At(c, "await")' /\ ~At(c, "scan")' /\ ~At(c, "send")' /\ ~At(c, "await")
  BY <1>1, <1>2 DEF At
<1> QED BY <1>1, <1>2, <1>3, PendingStill, SingleStill

LEMMA CollectSingle ==
    ASSUME Base, NEW c \in Calls, collect_dedup_catalogue(c), NEW s \in Schemas,
           Single(s), ~disturbed'[s]
    PROVE  Single(s)'
<1>1. TypeOK /\ UNCHANGED jobs /\ nodes'[s] = nodes[s] /\ At(c, "waiting") /\ calls[c] \in Call
  BY DEF Base, collect_dedup_catalogue, TypeOK
<1>2. PICK personal, shared :
        /\ calls' = [calls EXCEPT ![c].pc = "scan", ![c].personal = personal, ![c].shared = shared]
        /\ Disturb(calls[c].schema, personal # nodes[calls[c].schema] \/ shared # SharedNames)
  BY DEF collect_dedup_catalogue
<1>3. /\ calls'[c] = [calls[c] EXCEPT !.pc = "scan", !.personal = personal, !.shared = shared]
      /\ \A d \in Calls \ {c} : calls'[d] = calls[d]
  BY <1>1, <1>2 DEF TypeOK
<1>4. /\ calls'[c].pc = "scan" /\ calls'[c].schema = calls[c].schema
      /\ calls'[c].personal = personal /\ calls'[c].shared = shared
  BY <1>1, <1>3 DEF Call
<1>5. calls[c].schema = s => personal = nodes[s] /\ shared = SharedNames
  BY <1>1, <1>2 DEF Disturb, TypeOK
<1>6. /\ ~At(c, "await")' /\ ~At(c, "send")' /\ ~At(c, "await")
  BY <1>1, <1>4 DEF At
<1> QED BY <1>1, <1>3, <1>4, <1>5, <1>6, PendingStill, SingleStill

LEMMA PrepareSingle ==
    ASSUME Base, NEW c \in Calls, PrepareTexts(c), NEW s \in Schemas,
           Single(s), ~disturbed'[s]
    PROVE  Single(s)'
<1>1. /\ TypeOK /\ Locks /\ UNCHANGED jobs /\ nodes'[s] = nodes[s] /\ At(c, "scan")
      /\ calls[c] \in Call
  BY DEF Base, PrepareTexts, TypeOK
<1>2. CASE \E i \in DOMAIN calls[c].texts : BlockedByShared(calls[c], calls[c].texts[i])
  <2>1. Return(c, "blocked")
    BY <1>2 DEF PrepareTexts
  <2> QED BY <1>1, <2>1, PendingStill, ReturnSingle DEF At
<1>3. CASE ~\E i \in DOMAIN calls[c].texts : BlockedByShared(calls[c], calls[c].texts[i])
  <2>1. PICK texts \in [DOMAIN calls[c].texts -> Names] :
           /\ \A i \in DOMAIN texts : \E n \in scan_text(calls[c], calls[c].texts[i]) :
                 texts[i] \in apply_llm_canonicalize(calls[c], n)
           /\ calls' = [calls EXCEPT ![c].pc = "send", ![c].texts = texts,
                                     ![c].personal = {}, ![c].shared = {}]
    BY <1>3 DEF PrepareTexts
  <2>2. /\ calls'[c] = [calls[c] EXCEPT !.pc = "send", !.texts = texts,
                                        !.personal = {}, !.shared = {}]
        /\ \A d \in Calls \ {c} : calls'[d] = calls[d]
    BY <1>1, <2>1 DEF TypeOK
  <2>3. /\ calls'[c].pc = "send" /\ calls'[c].schema = calls[c].schema
        /\ calls'[c].texts = texts
    BY <1>1, <2>2 DEF Call
  <2>4. Disturb(calls[c].schema, Mixed(calls[c].texts))
    BY <1>3 DEF PrepareTexts
  <2>5. ASSUME calls[c].schema = s
        PROVE  OneSpelling(nodes[s] \cup LlmNames \cup Texts(c)')
    <3>1. ~Mixed(calls[c].texts)
      BY <1>1, <2>4, <2>5 DEF Disturb, TypeOK, Mixed
    <3>2. /\ calls[c].personal = nodes[s] /\ calls[c].shared = SharedNames
          /\ OneSpelling(nodes[s] \cup LlmNames)
      BY <1>1, <2>5 DEF Single, OneSpelling
    <3>3. OneSpelling(calls[c].personal \cup LlmNames \cup {texts[i] : i \in DOMAIN texts})
      BY <1>3, <2>1, <3>1, <3>2, PreparedOnce
    <3> QED BY <2>3, <3>2, <3>3 DEF Texts
  <2>6. /\ ~At(c, "await")' /\ ~At(c, "scan")' /\ ~At(c, "await")
    BY <1>1, <2>3 DEF At
  <2> QED BY <1>1, <2>2, <2>3, <2>5, <2>6, PendingStill, SingleStill
<1> QED BY <1>2, <1>3

\* The steps of the two waits.
LEMMA WaitSingle ==
    ASSUME Truth, NEW c \in Calls, NEW s \in Schemas, Single(s),
           \/ ListPage(c)
           \/ JudgeRound(c)
           \/ ListFails(c)
           \/ \E answered \in SUBSET calls[c].pending : PollMessages(c, answered)
    PROVE  Single(s)'
<1>1. /\ TypeOK /\ UNCHANGED jobs /\ nodes'[s] = nodes[s] /\ calls[c] \in Call
      /\ At(c, "await") /\ Knows(c)
  BY DEF Truth, Truthful, Base, TypeOK, ListPage, JudgeRound, ListFails, PollMessages
<1>2. CASE \E result \in {"ok", "partial"} : Return(c, result)
  <2>1. PICK result \in {"ok", "partial"} : Return(c, result)
    BY <1>2
  <2>2. calls'[c].pc = "done"
    BY <1>1, <2>1, ReturnIs
  <2>3. \/ JudgeRound(c)
        \/ \E answered \in SUBSET calls[c].pending : PollMessages(c, answered)
    BY <1>1, <2>2, WaitGoesOn DEF At
  <2>4. calls[c].schema = s => ~calls[c].leftover
    BY <1>1 DEF Single
  <2>5. calls[c].schema = s => OwnFinished(c)
    BY <1>1, <2>1, <2>3, <2>4, JudgedRight, PolledRight
  <2> QED BY <1>1, <2>1, <2>5, PendingStill, ReturnSingle
<1>3. CASE ~\E result \in {"ok", "partial"} : Return(c, result)
  <2>1. /\ calls'[c].pc = "await" /\ calls'[c].own = calls[c].own
        /\ calls'[c].schema = calls[c].schema /\ calls'[c].leftover = calls[c].leftover
        /\ \A d \in Calls \ {c} : calls'[d] = calls[d]
    BY <1>1, <1>3, WaitGoesOn
  <2>2. At(c, "await")' /\ ~At(c, "scan")' /\ ~At(c, "send")'
    BY <2>1 DEF At
  <2>3. calls'[c].schema = s => ~calls'[c].leftover
    BY <1>1, <2>1 DEF Single
  <2> QED BY <1>1, <2>1, <2>2, <2>3, PendingStill, SingleStill
<1> QED BY <1>2, <1>3

\* What an accepted request makes pending.
LEMMA PendingSent ==
    ASSUME Base, Base', NEW c \in Calls, At(c, "send"), jobs' = jobs \o Enqueued(calls[c]),
           NEW s \in Schemas
    PROVE  /\ calls[c].schema # s =>
                 Pending(s)' = Pending(s) /\ \A j \in Pending(s) : jobs'[j] = jobs[j]
           /\ calls[c].schema = s /\ Pending(s) = {} =>
                 \A j \in Pending(s)' :
                    /\ j \in (Len(jobs) + 1)..(Len(jobs) + Len(calls[c].texts))
                    /\ jobs'[j].name \in Texts(c)
<1>1. TypeOK /\ TypeOK' /\ calls[c].schema \in Schemas
  BY DEF Base, Locks, Locals, At, Active
<1>2. /\ Len(jobs) \in Nat /\ Len(calls[c].texts) \in Nat
      /\ DOMAIN jobs = 1..Len(jobs) /\ DOMAIN calls[c].texts = 1..Len(calls[c].texts)
      /\ DOMAIN jobs' = 1..(Len(jobs) + Len(calls[c].texts))
      /\ \A j \in 1..(Len(jobs) + Len(calls[c].texts)) :
            jobs'[j] = IF j <= Len(jobs) THEN jobs[j] ELSE Enqueued(calls[c])[j - Len(jobs)]
      /\ \A i \in 1..Len(calls[c].texts) :
            /\ Enqueued(calls[c])[i].schema = calls[c].schema
            /\ Enqueued(calls[c])[i].name = calls[c].texts[i]
  <2>1. DOMAIN jobs = 1..Len(jobs) /\ DOMAIN jobs' = 1..Len(jobs')
    BY <1>1 DEF TypeOK
  <2> QED BY <1>1, <2>1, EnqueuedFact
<1>3. \A j \in DOMAIN jobs : j \in DOMAIN jobs' /\ jobs'[j] = jobs[j]
  BY <1>2
<1>4. ASSUME NEW j \in DOMAIN jobs', j \notin DOMAIN jobs
      PROVE  /\ j \in (Len(jobs) + 1)..(Len(jobs) + Len(calls[c].texts))
             /\ jobs'[j].schema = calls[c].schema
             /\ jobs'[j].name \in Texts(c)
  <2>1. /\ ~(j <= Len(jobs)) /\ j \in 1..(Len(jobs) + Len(calls[c].texts))
        /\ j - Len(jobs) \in 1..Len(calls[c].texts)
        /\ j \in (Len(jobs) + 1)..(Len(jobs) + Len(calls[c].texts))
    BY <1>2, <1>4
  <2>2. jobs'[j] = Enqueued(calls[c])[j - Len(jobs)]
    BY <1>2, <2>1
  <2>3. jobs'[j].schema = calls[c].schema /\ jobs'[j].name = calls[c].texts[j - Len(jobs)]
    BY <1>2, <2>1, <2>2
  <2> QED BY <1>2, <2>1, <2>3 DEF Texts
<1>5. ASSUME calls[c].schema # s PROVE Pending(s)' = Pending(s)
  BY <1>3, <1>4, <1>5 DEF Pending
<1>6. \A j \in Pending(s) : jobs'[j] = jobs[j]
  BY <1>3 DEF Pending
<1>7. ASSUME Pending(s) = {}, NEW j \in Pending(s)'
      PROVE  j \in DOMAIN jobs' /\ j \notin DOMAIN jobs
  BY <1>3, <1>7 DEF Pending
<1> QED BY <1>4, <1>5, <1>6, <1>7

LEMMA SendSingle ==
    ASSUME Base, Base', NEW c \in Calls, SendRequest(c), NEW s \in Schemas, Single(s)
    PROVE  Single(s)'
<1>1. /\ TypeOK /\ Locks /\ calls[c] \in Call /\ nodes' = nodes
      /\ At(c, "send") /\ jobs' = jobs \o Enqueued(calls[c])
  BY DEF Base, TypeOK, SendRequest
<1> DEFINE mine == (Len(jobs) + 1)..(Len(jobs) + Len(calls[c].texts))
<1>2. /\ calls'[c].pc = "await" /\ calls'[c].schema = calls[c].schema /\ calls'[c].own = mine
      /\ calls'[c].leftover = Leftover(calls[c].schema)
      /\ \A d \in Calls \ {c} : calls'[d] = calls[d]
  <2>1. PICK pending, since :
          calls' = [calls EXCEPT ![c] = [calls[c] EXCEPT !.pc = "await", !.own = mine,
              !.texts = <<>>, !.pending = pending, !.since = since,
              !.leftover = Leftover(calls[c].schema)]]
    <3> DEFINE asked == IF calls[c].kind = "ingest_raw" THEN mine ELSE {}
               starts == IF calls[c].kind = "ingest"
                           THEN 1..(Len(jobs) + 1) \cup {(Len(jobs) + 1) + Len(calls[c].texts)}
                           ELSE {1}
    <3>1. \E since \in starts :
            calls' = [calls EXCEPT ![c] = [calls[c] EXCEPT !.pc = "await", !.own = mine,
                !.texts = <<>>, !.pending = asked, !.since = since,
                !.leftover = Leftover(calls[c].schema)]]
      BY DEF SendRequest
    <3> HIDE DEF mine, asked, starts
    <3> QED BY <3>1
  <2> HIDE DEF mine
  <2> QED BY <1>1, <2>1 DEF TypeOK, Call
<1> HIDE DEF mine
<1>3. CASE calls[c].schema # s
  <2>1. Pending(s)' = Pending(s) /\ \A j \in Pending(s) : jobs'[j] = jobs[j]
    BY <1>1, <1>3, PendingSent
  <2>2. calls'[c].schema # s
    BY <1>2, <1>3
  <2> QED BY <1>1, <1>2, <1>3, <2>1, <2>2, SingleStill
<1>4. CASE calls[c].schema = s
  <2>1. Pending(s) = {}
    BY <1>1, <1>4, NonePending DEF At
  <2>2. \A j \in Pending(s)' : j \in mine /\ jobs'[j].name \in Texts(c)
    BY <1>1, <1>4, <2>1, PendingSent DEF mine
  <2>3. ~Leftover(s)
    BY <2>1 DEF Pending, Leftover
  <2>4. \A j \in Pending(s)' : \E d \in Calls :
           At(d, "await")' /\ calls'[d].schema = s /\ j \in calls'[d].own
    BY <1>2, <1>4, <2>2 DEF At
  <2>5. OneSpelling(nodes[s] \cup LlmNames \cup Texts(c))
    BY <1>1, <1>4 DEF Single
  <2>6. OneSpelling(nodes'[s] \cup LlmNames \cup {jobs'[j].name : j \in Pending(s)'})
    <3> DEFINE known == nodes[s] \cup LlmNames
               sent == {jobs'[j].name : j \in Pending(s)'}
    <3>1. sent \subseteq Texts(c)
      BY <2>2
    <3> HIDE DEF sent
    <3>2. OneSpelling(known \cup sent)
      BY <2>5, <3>1 DEF OneSpelling
    <3> QED BY <1>1, <3>2 DEF sent
  <2>7. ASSUME NEW d \in Calls, calls'[d].schema = s
        PROVE  /\ At(d, "await")' => ~calls'[d].leftover
               /\ ~At(d, "scan")' /\ ~At(d, "send")'
    <3>1. CASE d = c
      BY <1>2, <1>4, <2>3, <3>1 DEF At
    <3>2. CASE d # c
      <4>1. calls'[d] = calls[d] /\ ~Working(d)
        BY <1>1, <1>2, <1>4, <2>7, <3>2, LocksExclude DEF OneIngestPerSchema, Working, At
      <4> QED BY <4>1 DEF Working, At
    <3> QED BY <3>1, <3>2
  <2> QED BY <2>4, <2>6, <2>7 DEF Single
<1> QED BY <1>3, <1>4

LEMMA SendFailsSingle ==
    ASSUME Base, Base', NEW c \in Calls, NEW accepted \in BOOLEAN, SendFails(c, accepted),
           NEW s \in Schemas, Single(s), ~disturbed'[s]
    PROVE  Single(s)'
<1>1. /\ TypeOK /\ At(c, "send") /\ nodes' = nodes /\ Return(c, "error")
      /\ Disturb(calls[c].schema, accepted)
      /\ jobs' = IF accepted THEN jobs \o Enqueued(calls[c]) ELSE jobs
  BY DEF Base, SendFails
<1>2. Pending(s)' = Pending(s) /\ \A j \in Pending(s) : jobs'[j] = jobs[j]
  <2>1. CASE accepted
    <3>1. calls[c].schema # s
      BY <1>1, <2>1 DEF Disturb, TypeOK
    <3> QED BY <1>1, <2>1, <3>1, PendingSent
  <2>2. CASE ~accepted
    BY <1>1, <2>2, PendingStill
  <2> QED BY <2>1, <2>2
<1>3. ~At(c, "await")
  BY <1>1 DEF At
<1> QED BY <1>1, <1>2, <1>3, ReturnSingle

LEMMA GiveUpSingle ==
    ASSUME Base, NEW c \in Calls, AwaitTimeout(c) \/ Abort(c),
           NEW s \in Schemas, Single(s), ~disturbed'[s]
    PROVE  Single(s)'
<1>1. /\ TypeOK /\ nodes' = nodes /\ UNCHANGED jobs
      /\ Return(c, "timeout") \/ Return(c, "error")
      /\ Disturb(calls[c].schema, At(c, "await"))
  BY DEF Base, AwaitTimeout, Abort
<1>2. ~(At(c, "await") /\ calls[c].schema = s)
  BY <1>1 DEF Disturb, TypeOK
<1> QED BY <1>1, <1>2, PendingStill, ReturnSingle

\* A schema on whose graph, pending jobs and calls nothing happens.
LEMMA SingleIdle ==
    ASSUME NEW s \in Schemas, Single(s), nodes'[s] = nodes[s], Pending(s)' = Pending(s),
           \A j \in Pending(s) : jobs'[j] = jobs[j], UNCHANGED calls
    PROVE  Single(s)'
<1>1. CASE \E c \in Calls : TRUE
  BY <1>1, SingleStill
<1>2. CASE Calls = {}
  <2>1. Pending(s) = {}
    BY <1>2 DEF Single
  <2>2. /\ {jobs'[j].name : j \in Pending(s)'} = {} /\ {jobs[j].name : j \in Pending(s)} = {}
    BY <2>1
  <2> QED BY <1>2, <2>1, <2>2 DEF Single
<1> QED BY <1>1, <1>2

LEMMA JobsSingle ==
    ASSUME Base, NEW s \in Schemas, Single(s),
           \/ \E j \in DOMAIN jobs, status \in Finished : JobFinishes(j, status)
           \/ OtherTenantIngests
    PROVE  Single(s)'
<1>1. /\ TypeOK /\ Locks /\ UNCHANGED calls /\ jobs \in Seq(Job)
  BY DEF Base, TypeOK, JobFinishes, OtherTenantIngests
<1>2. CASE OtherTenantIngests
  <2> DEFINE e == [schema |-> None, name |-> None, status |-> "pending"]
  <2>1. jobs' = Append(jobs, e) /\ Len(jobs) \in Nat /\ nodes' = nodes
    BY <1>1, <1>2 DEF OtherTenantIngests
  <2>2. e.schema = None /\ e \in Job
    BY DEF Job, Status
  <2> HIDE DEF e
  <2>3. /\ DOMAIN jobs = 1..Len(jobs) /\ DOMAIN jobs' = 1..(Len(jobs) + 1)
        /\ \A j \in DOMAIN jobs : jobs'[j] = jobs[j]
        /\ jobs'[Len(jobs) + 1] = e
    BY <1>1, <2>1, <2>2
  <2>4. \A j \in DOMAIN jobs' : j \in DOMAIN jobs \/ jobs'[j].schema # s
    <3>1. \A j \in DOMAIN jobs' : j \in DOMAIN jobs \/ j = Len(jobs) + 1
      BY <2>1, <2>3
    <3> QED BY <2>2, <2>3, <3>1, IngestAssumption
  <2>5. \A j \in DOMAIN jobs : j \in DOMAIN jobs'
    BY <2>1, <2>3
  <2>6. Pending(s)' = Pending(s) /\ \A j \in Pending(s) : jobs'[j] = jobs[j]
    BY <2>3, <2>4, <2>5 DEF Pending
  <2> QED BY <1>1, <2>1, <2>6, SingleIdle
<1>3. ASSUME NEW j \in DOMAIN jobs, NEW status \in Finished, JobFinishes(j, status)
      PROVE  Single(s)'
  <2>1. /\ jobs[j] \in Job /\ jobs[j].status = "pending" /\ jobs[j].schema # None
        /\ jobs[j].schema \in Schemas
        /\ jobs' = [jobs EXCEPT ![j].status = status]
        /\ nodes' = IF status = "completed"
              THEN [nodes EXCEPT ![jobs[j].schema] = @ \cup {jobs[j].name}] ELSE nodes
    <3>1. jobs[j] \in Job
      BY <1>1
    <3> QED BY <1>3, <3>1 DEF JobFinishes, Job
  <2>2. /\ DOMAIN jobs' = DOMAIN jobs
        /\ \A i \in DOMAIN jobs : i # j => jobs'[i] = jobs[i]
        /\ jobs'[j].status = status /\ jobs'[j].name = jobs[j].name
        /\ jobs'[j].schema = jobs[j].schema
    <3> DEFINE e == [jobs[j] EXCEPT !.status = status]
    <3>1. e.schema = jobs[j].schema /\ e.status = status /\ e.name = jobs[j].name
      BY <2>1 DEF Job
    <3>2. jobs' = [jobs EXCEPT ![j] = e]
      BY <2>1
    <3> HIDE DEF e
    <3> QED BY <1>1, <3>1, <3>2
  <2>3. CASE jobs[j].schema # s
    <3>1. nodes'[s] = nodes[s]
      BY <1>1, <2>1, <2>3 DEF TypeOK
    <3>2. Pending(s)' = Pending(s) /\ \A i \in Pending(s) : jobs'[i] = jobs[i]
      BY <2>2, <2>3 DEF Pending
    <3> QED BY <1>1, <3>1, <3>2, SingleIdle
  <2>4. CASE jobs[j].schema = s
    <3>1. /\ Pending(s)' = Pending(s) \ {j} /\ j \in Pending(s)
          /\ \A i \in Pending(s)' : jobs'[i] = jobs[i]
      BY <2>1, <2>2, <2>4 DEF Pending, Finished
    <3>2. nodes'[s] \subseteq nodes[s] \cup {jobs[j].name}
      BY <1>1, <2>1, <2>4 DEF TypeOK
    <3>3. OneSpelling(nodes[s] \cup LlmNames \cup {jobs[i].name : i \in Pending(s)})
      BY DEF Single
    <3>4. OneSpelling(nodes'[s] \cup LlmNames \cup {jobs'[i].name : i \in Pending(s)'})
      <4> DEFINE before == nodes[s] \cup LlmNames \cup {jobs[i].name : i \in Pending(s)}
                 after == nodes'[s] \cup LlmNames \cup {jobs'[i].name : i \in Pending(s)'}
      <4>1. after \subseteq before
        BY <3>1, <3>2
      <4> HIDE DEF before, after
      <4>2. OneSpelling(before) => OneSpelling(after)
        BY <4>1 DEF OneSpelling
      <4> QED BY <3>3, <4>2 DEF before, after
    <3>5. ASSUME NEW c \in Calls, calls[c].schema = s PROVE ~At(c, "scan") /\ ~At(c, "send")
      BY <1>1, <3>1, <3>5, NonePending DEF At
    <3>6. \A i \in Pending(s)' : \E c \in Calls :
             At(c, "await")' /\ calls'[c].schema = s /\ i \in calls'[c].own
      BY <1>1, <3>1 DEF Single, At
    <3>7. \A c \in Calls : calls'[c].schema = s =>
             /\ At(c, "await")' => ~calls'[c].leftover
             /\ ~At(c, "scan")' /\ ~At(c, "send")'
      BY <1>1, <3>5 DEF Single, At
    <3> QED BY <3>4, <3>6, <3>7 DEF Single
  <2> QED BY <2>3, <2>4
<1> QED BY <1>2, <1>3

\* The texts of all calls lead to one spelling of each entity.
LEMMA SinglesNext == Truth /\ Singles /\ [Next]_vars => Singles'
<1> SUFFICES ASSUME Truth, Singles, [Next]_vars, NEW s \in Schemas, ~disturbed'[s]
             PROVE  Single(s)'
  BY DEF Singles
<1>1. Base /\ Base' /\ TypeOK
  BY BaseStep DEF Truth, Base
<1>2. ~disturbed[s]
  <2>1. CASE UNCHANGED vars
    BY <2>1 DEF vars
  <2>2. ASSUME NEW t \in Schemas, NEW really \in BOOLEAN, Disturb(t, really) PROVE ~disturbed[s]
    BY <1>1, <2>2 DEF Disturb, TypeOK
  <2>3. ASSUME NEW c \in Calls, calls[c].pc \in Active PROVE calls[c].schema \in Schemas
    BY <1>1, <2>3 DEF Base, Locks, Locals
  <2>4. ASSUME NEW c \in Calls, collect_dedup_catalogue(c) PROVE ~disturbed[s]
    BY <2>2, <2>3, <2>4 DEF collect_dedup_catalogue, At, Active
  <2>5. ASSUME NEW c \in Calls, PrepareTexts(c) PROVE ~disturbed[s]
    <3>1. Mixed(calls[c].texts) \in BOOLEAN
      BY DEF Mixed
    <3> QED BY <2>2, <2>3, <2>5, <3>1 DEF PrepareTexts, At, Active
  <2>6. ASSUME NEW c \in Calls, NEW accepted \in BOOLEAN, SendFails(c, accepted)
        PROVE  ~disturbed[s]
    BY <2>2, <2>3, <2>6 DEF SendFails, At, Active
  <2>7. ASSUME NEW c \in Calls, AwaitTimeout(c) \/ Abort(c) PROVE ~disturbed[s]
    BY <2>2, <2>3, <2>7 DEF AwaitTimeout, Abort, At, Active
  <2>8. CASE UNCHANGED disturbed
    BY <2>8
  <2> QED BY <2>1, <2>4, <2>5, <2>6, <2>7, <2>8 DEF Next, acquire_ingest_serializer, SendRequest,
             ListPage, JudgeRound, ListFails, PollMessages, JobFinishes, OtherTenantIngests
<1>3. Single(s)
  BY <1>2 DEF Singles
<1>4. CASE UNCHANGED vars
  <2>1. UNCHANGED <<calls, jobs, nodes>>
    BY <1>4 DEF vars
  <2> QED BY <1>3, <2>1, PendingStill, SingleIdle
<1> QED BY <1>1, <1>3, <1>4, AcquireSingle, CollectSingle, PrepareSingle, SendSingle,
           SendFailsSingle, WaitSingle, GiveUpSingle, JobsSingle DEF Next

\* The graph of a schema never gets two spellings of one entity while every
\* call on it works with the whole catalogue and sees its extraction to the end
\* (NoDuplicateEntities): the lock that handle_ingest holds until the wait is
\* over leaves no job pending as the next call reads the catalogue.  When there
\* is an LLM canonicalizer, it may put in shared names, of which the shared
\* schema must then have one spelling each.
THEOREM OneSpellingEach ==
    ASSUME OneSpelling(LlmNames)
    PROVE  Spec => []NoDuplicateEntities
<1>1. Init => Singles
  <2> SUFFICES ASSUME Init, NEW s \in Schemas PROVE Single(s)
    BY DEF Singles
  <2>1. /\ nodes[s] = {} /\ Pending(s) = {} /\ \A c \in Calls : calls[c] = NewCall
    BY DEF Init, Pending
  <2>2. {jobs[j].name : j \in Pending(s)} = {}
    BY <2>1
  <2>3. OneSpelling(nodes[s] \cup LlmNames \cup {jobs[j].name : j \in Pending(s)})
    BY <2>1, <2>2
  <2> QED BY <2>1, <2>3 DEF Single, NewCall, At
<1>2. Truth /\ Singles => NoDuplicateEntities
  BY DEF Singles, Single, OneSpelling, NoDuplicateEntities
<1> QED BY <1>1, <1>2, TruthInit, TruthNext, SinglesNext, PTL DEF Spec
=============================================================================
